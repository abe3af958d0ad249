------------------------------- MODULE Board -------------------------------
(***************************************************************************)
(* What the board must bring to an end, in one specification: a job of the *)
(* process (module Sampling), a run whose handlers are interrupted (module *)
(* SamplingRace), and a firmware update (module FirmwareUpdate).  The      *)
(* three never share state: the first two are views of the same machine,   *)
(* and an update ends in a reset, which is where the process begins.  So a *)
(* behaviour is one of a single unit, chosen at the start, and what holds  *)
(* of the sum holds of each.                                               *)
(***************************************************************************)
EXTENDS FirmwareUpdate, SamplingRace

CONSTANT HandDevices

VARIABLES
  unit,         \* the unit this behaviour is about
  samp, drain, deliv, retain, bucketHeld, dev, running, byHand, estop

\* One bucket: the two differ in name only, and no job passes on to the other.
Process == INSTANCE Sampling WITH Bucket <- {0}, bucketState <- bucketHeld

processVars ==
  <<samp, drain, deliv, retain, bucketHeld, dev, running, byHand, estop>>

boardVars == <<unit, processVars, vars, updateVars>>

IsProcess   == unit = "process" /\ UNCHANGED <<unit, vars, updateVars>>
IsPreempted == unit = "preempted" /\ UNCHANGED <<unit, processVars, updateVars>>
IsUpdate    == unit = "update" /\ UNCHANGED <<unit, processVars, vars>>

\* The process begins on a board as it leaves production.
NothingStaged ==
  /\ app[1] = NoFile.contents /\ temp[1] = "erased" /\ flag = "erased" /\ ~records

BoardInit ==
  /\ unit \in {"process", "preempted", "update"}
  /\ Process!Init /\ Init /\ UpdateInit
  /\ unit # "update" => NothingStaged

BoardNext ==
  \/ IsProcess /\ Process!Next
  \/ IsPreempted /\ Next
  \/ IsUpdate /\ UpdateNext

(* The fairness of each unit: that of Process!FairSpec,                    *)
ProcessFairness ==
  /\ WF_processVars(unit = "process" /\ Process!Task02Step(Process!sampling_step))
  /\ WF_processVars(unit = "process" /\ Process!Task02Step(Process!delivery_step))
  /\ WF_processVars(unit = "process" /\ Process!Task02Step(Process!RetainTimeout \/ Process!RetainFinish))
  /\ WF_processVars(unit = "process" /\ Process!Task02Step(Process!drain_step))

(* of FairSpec of module SamplingRace,                                     *)
PreemptedFairness ==
  /\ WF_vars(unit = "preempted" /\ Task02Runs)
  /\ WF_vars(unit = "preempted" /\ Task03Runs)
  /\ SF_vars(unit = "preempted" /\ StepDue)

(* and of UpdateFairSpec.                                                  *)
BoardSpec ==
  /\ BoardInit /\ [][BoardNext]_boardVars
  /\ ProcessFairness /\ PreemptedFairness
  /\ WF_updateVars(unit = "update" /\ Carries)

-----------------------------------------------------------------------------
(* Properties.  Those of modules FirmwareUpdate and SamplingRace are meant  *)
(* as they are stated there, the steps of the other units leave all they   *)
(* speak of unchanged; and of the process:                                 *)

(***************************************************************************)
(* Every job of the four machines ends, whatever the operator, the         *)
(* scheduler and the bottle sensor do (samp_poll and its like).            *)
(***************************************************************************)
EveryJobEnds == Process!EveryJobEnds

(***************************************************************************)
(* The emergency stop takes effect in the end: all that the operator does  *)
(* not hold by hand is off, unless a new command is given.                 *)
(***************************************************************************)
EstopSettles == Process!EstopSettles

=============================================================================
