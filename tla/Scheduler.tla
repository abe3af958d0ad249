----------------------------- MODULE Scheduler ------------------------------
(***************************************************************************)
(* The automatic scheduler as Task02 polls it: scheduler_run of            *)
(* app_scheduler.c hands every poll to the handler of the mode that is     *)
(* set.  The modes share the clock, the sampling line and the running      *)
(* flag; each has its own part of s_sched and its own environment (the     *)
(* flow of Task05, the trigger pin, the Modbus request slot).              *)
(*                                                                         *)
(* A new mode takes effect with the next SYS_START only, whose             *)
(* scheduler_init clears all of s_sched: a behaviour of this module is one *)
(* of the program between two changes of the mode.  The communication mode *)
(* never looks at the clock, which stands still in it.                     *)
(*                                                                         *)
(* The module extends TimeProp, the mode the firmware starts with, whose   *)
(* s, taken and seen are taken over as they are, and instantiates the      *)
(* other four.                                                             *)
(***************************************************************************)
EXTENDS TimeProp

CONSTANTS
  FixedHours, FixedMin,   \* see FixedTime
  Types, Buckets          \* see CommMode

VARIABLES
  mode,                                               \* s_sched.mode
  ft, fired,                                          \* FixedTime
  fl, flow,                                           \* FlowMode
  sw, low, swTaken, signalled, trigger,                 \* SwitchMode
  req, todo, bucket, samples, asked, did, overlap, filled   \* CommMode

timeVars   == <<s, taken, seen>>
fixedVars  == <<ft, fired>>
flowVars   == <<fl, flow>>
switchVars == <<sw, low, swTaken, signalled, trigger>>
commVars   == <<req, todo, bucket, samples, asked, did, overlap, filled>>
allVars == <<clock, mode, timeVars, fixedVars, flowVars, switchVars, commVars>>

Fixed  == INSTANCE FixedTime WITH s <- ft
Flow   == INSTANCE FlowMode WITH s <- fl
Switch == INSTANCE SwitchMode WITH s <- sw, taken <- swTaken
Comm   == INSTANCE CommMode WITH Samples <- Cycle \div Interval

ASSUME ModesAssumption ==
  /\ FixedHours \subseteq 0 .. Hours - 1 /\ FixedMin \in {0, 3, 4}
  /\ Types \subseteq Comm!Type /\ Buckets \subseteq Comm!Byte

Mode == {"TIME_PROP", "FIXED_TIME", "FLOW", "SWITCH", "COMM"}

ModesTypeOK ==
  /\ mode \in Mode
  /\ TypeOK /\ Fixed!TypeOK /\ Flow!TypeOK /\ Switch!TypeOK /\ Comm!TypeOK

SchedInit ==
  /\ mode \in Mode
  /\ Init /\ Fixed!Init /\ Flow!Init /\ Switch!Init /\ Comm!Init
  /\ mode # "FLOW" => fl = Flow!Fresh("OTHER")
  /\ mode = "COMM" => now = 0

-----------------------------------------------------------------------------
(* scheduler_run's cases, each with what else happens in its mode *)

TimeProportional ==
  /\ mode = "TIME_PROP" /\ Next
  /\ UNCHANGED <<mode, fixedVars, flowVars, switchVars, commVars>>

Timed ==
  /\ mode = "FIXED_TIME" /\ Fixed!Next
  /\ UNCHANGED <<mode, timeVars, flowVars, switchVars, commVars>>

FlowTriggered ==
  /\ mode = "FLOW" /\ Flow!Next
  /\ UNCHANGED <<mode, timeVars, fixedVars, switchVars, commVars>>

SwitchTriggered ==
  /\ mode = "SWITCH" /\ Switch!Next
  /\ UNCHANGED <<mode, timeVars, fixedVars, flowVars, commVars>>

Commanded ==
  /\ mode = "COMM" /\ Comm!Next
  /\ UNCHANGED <<mode, now, polled, timeVars, fixedVars, flowVars, switchVars>>

scheduler_run ==
  TimeProportional \/ Timed \/ FlowTriggered \/ SwitchTriggered \/ Commanded

SchedSpec == SchedInit /\ [][scheduler_run]_allVars

-----------------------------------------------------------------------------
(* Properties: what each mode promises, stated and explained in its module *)
(* (TimeProp's NeverTwice, NoneEarly and NoPointLost under their own names) *)

\* FixedTime: the timed mode begins with the delivery that comes next.
BeginsWithNext == Fixed!BeginsWithNext

\* FlowMode: the scheduler never believes in a flow that has ended.
NoPhantomFlow == Flow!NoPhantomFlow

\* SwitchMode: no sample without a signal in its own window, none twice.
SampledOnSignal == Switch!SampledOnSignal

\* SwitchMode: a signal seen while sampling is busy is not lost.
SignalLatched == Switch!SignalLatched

\* CommMode: requests that do not overlap are executed as written.
SpacedRequestsIntact == Comm!SpacedRequestsIntact

\* CommMode: automatic buckets get a cycle's samples each.
AutoFillsCycles == Comm!AutoFillsCycles

=============================================================================
