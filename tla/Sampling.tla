------------------------------ MODULE Sampling ------------------------------
(***************************************************************************)
(* The four process state machines of the water sampler                    *)
(* (samp/middlewares/bsp/app_sampling.c): sampling, draining, delivery and *)
(* retention, the outputs they drive and the two bucket states they write. *)
(* Task02 advances the machines every 50 ms; Task03 starts them, aborts    *)
(* sampling, drives single outputs from the manual page and performs the   *)
(* emergency stop; the scheduler, inside Task02, starts sampling and, in   *)
(* communication mode, draining.                                           *)
(*                                                                         *)
(* Every handler is one step here.  SamplingRace takes the handlers of the *)
(* two tasks apart, statement by statement.                                *)
(*                                                                         *)
(* Time is abstracted: a stage that waits for g_tmr2_seconds or            *)
(* g_tmr4_milliseconds may leave at any poll.  Every order of expiry of    *)
(* two machines' timers is therefore a behaviour, and so every setting of  *)
(* the durations, which the operator may change to any 16-bit value.       *)
(*                                                                         *)
(* Nothing in the firmware writes a non-zero g_state.water_a or water_b,   *)
(* and every automatic delivery is guarded by "water > 0": deliveries are  *)
(* started from the screen only, and Task04, which the scheduler wakes     *)
(* after a delivery, starts neither retention nor draining.                *)
(*                                                                         *)
(* The semaphore of the sample numbers exists: the board is one that has   *)
(* resumed a run at power-on.  On another the first sampling_start hangs   *)
(* (module Startup).                                                       *)
(***************************************************************************)
EXTENDS Naturals

CONSTANTS
  Bucket,       \* the buckets in use: 0 is A, 1 is B
  HandDevices   \* the outputs the operator drives from the manual page

Valves == {"INLET", "INSTANT", "DELIVER", "OUTLET_A", "OUTLET_B",
           "DRAIN_A", "DRAIN_B"}
Stirs  == {"STIR_A", "STIR_B"}
Motors == {"SAMPLING", "DELIVERY", "TURNTABLE"}
Device == Valves \cup Stirs \cup Motors \cup {"EXT_PUMP"}
Level  == {"off", "on", "CW", "CCW"}

ASSUME BucketAssumption == Bucket \subseteq {0, 1}
ASSUME HandDevicesAssumption == HandDevices \subseteq Device

DrainValve(b) == IF b = 0 THEN "DRAIN_A" ELSE "DRAIN_B"
Stir(b)       == IF b = 0 THEN "STIR_A" ELSE "STIR_B"

SampStage == {"IDLE", "PRE_BLOW", "DELAY_AFTER_PRE", "IMPROVE", "TUBE_HOLD",
              "MEASURE", "DELAY_AFTER_MEAS", "POST_BLOW", "DONE", "ABORT"}
DrainStage == {"IDLE", "OPEN_VALVE", "MIXING", "WAIT", "DONE"}
DelivStage == {"IDLE", "PRE_BLOW", "DELAY_AFTER_PRE", "STABILIZE", "MIX",
               "MEASURE", "DELAY_AFTER_MEAS", "BACKDRAW", "DONE", "ABORT"}
RetainStage == {"IDLE", "MOVE_BOTTLE", "PUMP", "DONE", "ABORT"}
AtRest == {"IDLE", "DONE", "ABORT"}

BucketState == {"IDLE", "SAMPLING", "DELIVERY", "DRAINING"}

VARIABLES
  samp,         \* s_samp: stage and bucket
  drain,        \* s_drain: stage and bucket
  deliv,        \* s_deliv: stage and bucket
  retain,       \* s_retain.stage
  bucketState,  \* g_state.bucket_a_state, g_state.bucket_b_state
  dev,          \* the level last commanded for every output
  running,      \* g_state.running and s_sched.running
  byHand,       \* history: outputs the operator switched on, still untouched
  estop         \* history: emergency stop pressed, and no command since

vars == <<samp, drain, deliv, retain, bucketState, dev, running, byHand, estop>>
machines == <<samp, drain, deliv, retain>>

TypeOK ==
  /\ samp \in [stage : SampStage, bucket : {0, 1}]
  /\ drain \in [stage : DrainStage, bucket : {0, 1}]
  /\ deliv \in [stage : DelivStage, bucket : {0, 1}]
  /\ retain \in RetainStage
  /\ bucketState \in [Bucket -> BucketState]
  /\ dev \in [Device -> Level]
  /\ running \in BOOLEAN
  /\ byHand \in SUBSET Device
  /\ estop \in BOOLEAN

Init ==
  /\ samp = [stage |-> "IDLE", bucket |-> 0]
  /\ drain = [stage |-> "IDLE", bucket |-> 0]
  /\ deliv = [stage |-> "IDLE", bucket |-> 0]
  /\ retain = "IDLE"
  /\ bucketState = [b \in Bucket |-> "IDLE"]
  /\ dev = [d \in Device |-> "off"]
  /\ running = FALSE
  /\ byHand = {}
  /\ estop = FALSE

sampling_is_active == samp.stage \notin AtRest
drain_is_active    == drain.stage \notin AtRest
delivery_is_active == deliv.stage \notin AtRest
retain_is_active   == retain \notin AtRest

\* The outputs in S are commanded to level v.
Drive(S, v) == dev' = [d \in Device |-> IF d \in S THEN v ELSE dev[d]]

SetBucket(b, s) == bucketState' = [bucketState EXCEPT ![b] = s]

-----------------------------------------------------------------------------
(* The sampling machine *)

sampling_start(b) ==
  /\ ~sampling_is_active
  /\ samp' = [stage |-> "PRE_BLOW", bucket |-> b]
  /\ dev' = [dev EXCEPT !["INLET"] = "on", !["SAMPLING"] = "CCW"]
  /\ SetBucket(b, "SAMPLING")
  /\ UNCHANGED <<drain, deliv, retain>>

SampTo(from, to, d, v) ==
  /\ samp.stage = from
  /\ samp' = [samp EXCEPT !.stage = to]
  /\ Drive({d}, v)
  /\ UNCHANGED <<drain, deliv, retain, bucketState>>

\* Mutant: the stage is written where the bucket state belongs.
SampFinishDone ==
  /\ samp.stage = "POST_BLOW"
  /\ samp' = [samp EXCEPT !.stage = "DONE"]
  /\ Drive({"SAMPLING", "INLET"}, "off")
  /\ SetBucket(samp.bucket, "DONE")
  /\ UNCHANGED <<drain, deliv, retain>>

SampFinish ==
  /\ samp.stage = "POST_BLOW"
  /\ samp' = [samp EXCEPT !.stage = "DONE"]
  /\ Drive({"SAMPLING", "INLET"}, "off")
  /\ SetBucket(samp.bucket, "IDLE")
  /\ UNCHANGED <<drain, deliv, retain>>

sampling_step ==
  \/ SampTo("PRE_BLOW", "DELAY_AFTER_PRE", "SAMPLING", "off")
  \/ SampTo("DELAY_AFTER_PRE", "IMPROVE", "EXT_PUMP", "on")
  \/ SampTo("IMPROVE", "TUBE_HOLD", "EXT_PUMP", "off")
  \/ SampTo("TUBE_HOLD", "MEASURE", "SAMPLING", "CW")
  \/ SampTo("MEASURE", "DELAY_AFTER_MEAS", "SAMPLING", "off")
  \/ SampTo("DELAY_AFTER_MEAS", "POST_BLOW", "SAMPLING", "CCW")
  \/ SampFinish

\* Mutants: the abort forgets the external pump; the abort forgets the bucket.
AbortLeavesPump ==
  /\ sampling_is_active
  /\ samp' = [samp EXCEPT !.stage = "ABORT"]
  /\ Drive({"SAMPLING", "INLET"}, "off")
  /\ SetBucket(samp.bucket, "IDLE")
  /\ UNCHANGED <<drain, deliv, retain>>

AbortLeavesBucket ==
  /\ sampling_is_active
  /\ samp' = [samp EXCEPT !.stage = "ABORT"]
  /\ Drive({"SAMPLING", "EXT_PUMP", "INLET"}, "off")
  /\ UNCHANGED <<drain, deliv, retain, bucketState>>

sampling_abort ==
  /\ sampling_is_active
  /\ samp' = [samp EXCEPT !.stage = "ABORT"]
  /\ Drive({"SAMPLING", "EXT_PUMP", "INLET"}, "off")
  /\ SetBucket(samp.bucket, "IDLE")
  /\ UNCHANGED <<drain, deliv, retain>>

-----------------------------------------------------------------------------
(* The draining machine *)

drain_start(b) ==
  /\ ~drain_is_active
  /\ drain' = [stage |-> "OPEN_VALVE", bucket |-> b]
  /\ Drive({DrainValve(b)}, "on")
  /\ SetBucket(b, "DRAINING")
  /\ UNCHANGED <<samp, deliv, retain>>

DrainStir ==
  /\ drain.stage = "OPEN_VALVE"
  /\ drain' = [drain EXCEPT !.stage = "MIXING"]
  /\ Drive({Stir(drain.bucket)}, "on")
  /\ UNCHANGED <<samp, deliv, retain, bucketState>>

DrainMixed ==
  /\ drain.stage = "MIXING"
  /\ drain' = [drain EXCEPT !.stage = "WAIT"]
  /\ UNCHANGED <<samp, deliv, retain, bucketState, dev>>

\* Mutant: the stirrer is left running.
DrainFinishStirring ==
  /\ drain.stage = "WAIT"
  /\ drain' = [drain EXCEPT !.stage = "DONE"]
  /\ Drive({DrainValve(drain.bucket)}, "off")
  /\ SetBucket(drain.bucket, "IDLE")
  /\ UNCHANGED <<samp, deliv, retain>>

DrainFinish ==
  /\ drain.stage = "WAIT"
  /\ drain' = [drain EXCEPT !.stage = "DONE"]
  /\ Drive({DrainValve(drain.bucket), Stir(drain.bucket)}, "off")
  /\ SetBucket(drain.bucket, "IDLE")
  /\ UNCHANGED <<samp, deliv, retain>>

drain_step == DrainStir \/ DrainMixed \/ DrainFinish

-----------------------------------------------------------------------------
(* The delivery machine *)

delivery_start(b) ==
  /\ ~delivery_is_active
  /\ deliv' = [stage |-> "PRE_BLOW", bucket |-> b]
  /\ dev' = [dev EXCEPT !["DELIVER"] = "on", !["DELIVERY"] = "CCW"]
  /\ SetBucket(b, "DELIVERY")
  /\ UNCHANGED <<samp, drain, retain>>

DelivTo(from, to, S, v) ==
  /\ deliv.stage = from
  /\ deliv' = [deliv EXCEPT !.stage = to]
  /\ Drive(S, v)
  /\ UNCHANGED <<samp, drain, retain, bucketState>>

DelivFinish ==
  /\ deliv.stage = "BACKDRAW"
  /\ deliv' = [deliv EXCEPT !.stage = "DONE"]
  /\ Drive({"DELIVERY", "DELIVER"}, "off")
  /\ SetBucket(deliv.bucket, "IDLE")
  /\ UNCHANGED <<samp, drain, retain>>

delivery_step ==
  \/ DelivTo("PRE_BLOW", "DELAY_AFTER_PRE", {"DELIVERY"}, "off")
  \/ DelivTo("DELAY_AFTER_PRE", "STABILIZE", {}, "off")
  \/ DelivTo("STABILIZE", "MIX", {Stir(deliv.bucket)}, "on")
  \/ DelivTo("MIX", "MEASURE", {"DELIVERY"}, "CW")
  \/ DelivTo("MEASURE", "DELAY_AFTER_MEAS", {"DELIVERY", Stir(deliv.bucket)}, "off")
  \/ DelivTo("DELAY_AFTER_MEAS", "BACKDRAW", {"DELIVERY"}, "CCW")
  \/ DelivFinish

-----------------------------------------------------------------------------
(* The retention machine.  The bottle sensor is external: a poll in        *)
(* MOVE_BOTTLE either sees it, or finds the 30 s timeout elapsed.          *)

\* Mutant: a start is accepted while the machine is at work.
RetainRestart ==
  /\ retain' = "MOVE_BOTTLE"
  /\ Drive({"TURNTABLE"}, "CW")
  /\ UNCHANGED <<samp, drain, deliv, bucketState>>

retain_start ==
  /\ ~retain_is_active
  /\ retain' = "MOVE_BOTTLE"
  /\ Drive({"TURNTABLE"}, "CW")
  /\ UNCHANGED <<samp, drain, deliv, bucketState>>

RetainInPosition ==
  /\ retain = "MOVE_BOTTLE"
  /\ retain' = "PUMP"
  /\ dev' = [dev EXCEPT !["TURNTABLE"] = "off", !["DELIVER"] = "on",
                        !["DELIVERY"] = "CW"]
  /\ UNCHANGED <<samp, drain, deliv, bucketState>>

\* Mutant: the timeout stops the turntable and stays in its stage.
RetainTimeoutStays ==
  /\ retain = "MOVE_BOTTLE"
  /\ Drive({"TURNTABLE"}, "off")
  /\ UNCHANGED <<samp, drain, deliv, retain, bucketState>>

RetainTimeout ==
  /\ retain = "MOVE_BOTTLE"
  /\ retain' = "ABORT"
  /\ Drive({"TURNTABLE"}, "off")
  /\ UNCHANGED <<samp, drain, deliv, bucketState>>

RetainFinish ==
  /\ retain = "PUMP"
  /\ retain' = "DONE"
  /\ Drive({"DELIVERY", "DELIVER"}, "off")
  /\ UNCHANGED <<samp, drain, deliv, bucketState>>

retain_step == RetainInPosition \/ RetainTimeout \/ RetainFinish

-----------------------------------------------------------------------------
(* Task03: the commands of the screen *)

\* START, SYS_START, and the power-recovery start of Task07.
SystemStart ==
  /\ running' = TRUE
  /\ estop' = FALSE
  /\ UNCHANGED <<machines, bucketState, dev, byHand>>

SystemStop ==
  /\ running' = FALSE
  /\ UNCHANGED <<machines, bucketState, dev, byHand, estop>>

EstopOff == {"DELIVERY", "TURNTABLE", "INLET", "INSTANT", "DELIVER", "DRAIN_A",
             "DRAIN_B", "STIR_A", "STIR_B", "EXT_PUMP"}

\* Mutant: the emergency stop leaves the scheduler running.
EstopSchedulerRuns ==
  /\ estop' = TRUE
  /\ IF sampling_is_active
       THEN /\ samp' = [samp EXCEPT !.stage = "ABORT"]
            /\ Drive(EstopOff \cup {"SAMPLING"}, "off")
            /\ SetBucket(samp.bucket, "IDLE")
       ELSE /\ Drive(EstopOff, "off")
            /\ UNCHANGED <<samp, bucketState>>
  /\ UNCHANGED <<drain, deliv, retain, running>>
  /\ byHand' = {d \in byHand : dev'[d] # "off"}

\* The emergency stop: aborts sampling, switches outputs off, and leaves the
\* delivery, retention and draining machines in the stage they are in.
EmergencyStop ==
  /\ running' = FALSE
  /\ estop' = TRUE
  /\ IF sampling_is_active
       THEN /\ samp' = [samp EXCEPT !.stage = "ABORT"]
            /\ Drive(EstopOff \cup {"SAMPLING"}, "off")
            /\ SetBucket(samp.bucket, "IDLE")
       ELSE /\ Drive(EstopOff, "off")
            /\ UNCHANGED <<samp, bucketState>>
  /\ UNCHANGED <<drain, deliv, retain>>
  /\ byHand' = {d \in byHand : dev'[d] # "off"}

\* The outputs of the manual page, and the levels it commands for them.
HandCommand ==
  {<<{d}, v>> : d \in {"SAMPLING", "DELIVERY"}, v \in {"off", "CW", "CCW"}}
  \cup {<<{d}, v>> : d \in {"INLET", "DELIVER", "INSTANT", "EXT_PUMP"} \cup Stirs,
                     v \in {"off", "on"}}
  \cup {<<{d}, "off">> : d \in {"DRAIN_A", "DRAIN_B"}}
  \cup {<<{"OUTLET_A", "OUTLET_B"}, "off">>}

HandDrive ==
  /\ \E c \in HandCommand :
       /\ c[1] \subseteq HandDevices
       /\ Drive(c[1], c[2])
       /\ byHand' = IF c[2] = "off" THEN byHand \ c[1] ELSE byHand \cup c[1]
  /\ estop' = FALSE
  /\ UNCHANGED <<machines, bucketState, running>>

\* The outlet three-way valve: opening one side closes the other.
HandOutlet ==
  /\ {"OUTLET_A", "OUTLET_B"} \subseteq HandDevices
  /\ \E open \in {"OUTLET_A", "OUTLET_B"} :
       LET shut == CHOOSE d \in {"OUTLET_A", "OUTLET_B"} : d # open
       IN  /\ dev' = [dev EXCEPT ![open] = "on", ![shut] = "off"]
           /\ byHand' = (byHand \cup {open}) \ {shut}
  /\ estop' = FALSE
  /\ UNCHANGED <<machines, bucketState, running>>

\* The drain button falls back to the bare valve when the machine is busy.
HandDrainBusy(b) ==
  /\ DrainValve(b) \in HandDevices
  /\ drain_is_active
  /\ Drive({DrainValve(b)}, "on")
  /\ byHand' = byHand \cup {DrainValve(b)}
  /\ estop' = FALSE
  /\ UNCHANGED <<machines, bucketState, running>>

-----------------------------------------------------------------------------
(* A machine's commands end the operator's hold on the outputs they change. *)
KeepHands == byHand' = {d \in byHand : dev'[d] = dev[d]}

Task02Step(step) == step /\ KeepHands /\ UNCHANGED <<running, estop>>

\* scheduler_run in Task02.
Scheduler ==
  /\ running
  /\ \E b \in Bucket : sampling_start(b) \/ drain_start(b)
  /\ KeepHands
  /\ UNCHANGED <<running, estop>>

\* A start button of the screen.
ScreenStart ==
  /\ \/ \E b \in Bucket : sampling_start(b) \/ drain_start(b) \/ delivery_start(b)
     \/ retain_start
  /\ KeepHands
  /\ estop' = FALSE
  /\ UNCHANGED running

ScreenAbort == sampling_abort /\ KeepHands /\ UNCHANGED <<running, estop>>

Next ==
  \/ Task02Step(sampling_step)
  \/ Task02Step(delivery_step)
  \/ Task02Step(retain_step)
  \/ Task02Step(drain_step)
  \/ Scheduler
  \/ ScreenStart
  \/ ScreenAbort
  \/ SystemStart
  \/ SystemStop
  \/ EmergencyStop
  \/ HandDrive
  \/ HandOutlet
  \/ \E b \in Bucket : HandDrainBusy(b)

(* Task02 is a periodic task of the highest priority in use: each of its    *)
(* four step calls happens again and again, and the hardware timers reach   *)
(* every duration.  Nothing is assumed of the operator, of the scheduler or *)
(* of the bottle sensor, which may never report the bottle.                 *)
Fairness ==
  /\ WF_vars(Task02Step(sampling_step))
  /\ WF_vars(Task02Step(delivery_step))
  /\ WF_vars(Task02Step(RetainTimeout \/ RetainFinish))
  /\ WF_vars(Task02Step(drain_step))

Spec == Init /\ [][Next]_vars
FairSpec == Spec /\ Fairness
-----------------------------------------------------------------------------
(* Properties *)

On == {d \in Device : dev[d] # "off"}

\* The outputs each machine keeps on in the stage it is in.
SampHolds ==
  (IF sampling_is_active THEN {"INLET"} ELSE {})
  \cup (IF samp.stage \in {"PRE_BLOW", "MEASURE", "POST_BLOW"} THEN {"SAMPLING"} ELSE {})
  \cup (IF samp.stage = "IMPROVE" THEN {"EXT_PUMP"} ELSE {})

DrainHolds ==
  (IF drain_is_active THEN {DrainValve(drain.bucket)} ELSE {})
  \cup (IF drain.stage \in {"MIXING", "WAIT"} THEN {Stir(drain.bucket)} ELSE {})

DelivHolds ==
  (IF delivery_is_active THEN {"DELIVER"} ELSE {})
  \cup (IF deliv.stage \in {"PRE_BLOW", "MEASURE", "BACKDRAW"} THEN {"DELIVERY"} ELSE {})
  \cup (IF deliv.stage \in {"MIX", "MEASURE"} THEN {Stir(deliv.bucket)} ELSE {})

RetainHolds ==
  (IF retain = "MOVE_BOTTLE" THEN {"TURNTABLE"} ELSE {})
  \cup (IF retain = "PUMP" THEN {"DELIVER", "DELIVERY"} ELSE {})

(***************************************************************************)
(* No valve, stirrer, pump or motor stays on unattended: an output that is *)
(* on was either switched on by the operator and not touched since, or is  *)
(* held by a machine whose present stage will switch it off again.  The    *)
(* machines share the delivery pump, its valve and the stirrers, and the   *)
(* emergency stop and sampling_abort cut in at any stage.                  *)
(***************************************************************************)
NoOrphan == On \subseteq byHand \cup SampHolds \cup DrainHolds \cup DelivHolds \cup RetainHolds

(***************************************************************************)
(* A bucket is never stuck in a state: the state g_state shows for it, if  *)
(* not IDLE, is that of a machine at work on this very bucket, which will  *)
(* set it back.  Several machines write the state of the same bucket.      *)
(***************************************************************************)
BucketNotStuck ==
  \A b \in Bucket :
    /\ bucketState[b] = "SAMPLING" => sampling_is_active /\ samp.bucket = b
    /\ bucketState[b] = "DRAINING" => drain_is_active /\ drain.bucket = b
    /\ bucketState[b] = "DELIVERY" => delivery_is_active /\ deliv.bucket = b

(***************************************************************************)
(* After the emergency stop, and until the next command, the sampling line *)
(* stays down: sampling is not at work, the scheduler cannot start it, the *)
(* inlet valve and the external pump are off.                              *)
(***************************************************************************)
EstopHoldsSampling ==
  estop => /\ ~running /\ ~sampling_is_active
           /\ dev["INLET"] = "off" /\ dev["EXT_PUMP"] = "off"

(***************************************************************************)
(* What "emergency stop" (app_screen.c:678, SCR_ACT_ESTOP in app_screen.h) *)
(* says: after it, and until the next command, nothing is switched on.     *)
(***************************************************************************)
EstopStopsEverything ==
  [][estop /\ estop' => \A d \in Device : dev[d] = "off" => dev'[d] = "off"]_vars

(***************************************************************************)
(* The emergency stop stops the pumps it reports as stopped: it clears     *)
(* g_state.sampling_motor (app_screen.c:671), which the screen shows as    *)
(* "0 = stopped" (samp/docs/screen_refactor.md:89).                             *)
(***************************************************************************)
EstopStopsSamplingPump == [][~estop /\ estop' => dev'["SAMPLING"] = "off"]_vars

(***************************************************************************)
(* samp/docs/refactor_plan.md:683: delivery pump (STEP2) and turntable     *)
(* (STEP3) share a timer and exclude each other; "stop delivery first,     *)
(* then turn".                                                             *)
(***************************************************************************)
TurntableAlone == ~(dev["DELIVERY"] # "off" /\ dev["TURNTABLE"] # "off")

(***************************************************************************)
(* The emergency stop takes effect in the end: whatever the machines it    *)
(* leaves running switch on again, a time comes when everything the        *)
(* operator does not hold by hand is off, unless a new command is given.   *)
(***************************************************************************)
EstopSettles == estop ~> (~estop \/ On \subseteq byHand)

\* The promise of module Rig, read off the state of the machines.
Busy == {m \in {"samp", "drain", "deliv", "retain"} :
           \/ m = "samp" /\ sampling_is_active
           \/ m = "drain" /\ drain_is_active
           \/ m = "deliv" /\ delivery_is_active
           \/ m = "retain" /\ retain_is_active}

Reach == [m \in {"samp", "drain", "deliv", "retain"} |->
            CASE m = "samp" -> {"INLET", "SAMPLING", "EXT_PUMP"}
              [] m = "drain" -> {"DRAIN_A", "DRAIN_B", "STIR_A", "STIR_B"}
              [] m = "deliv" -> {"DELIVER", "DELIVERY", "STIR_A", "STIR_B"}
              [] m = "retain" -> {"TURNTABLE", "DELIVER", "DELIVERY"}]

R == INSTANCE Rig WITH
       Machine <- {"samp", "drain", "deliv", "retain"}, Output <- Device,
       reach <- Reach, busy <- Busy, on <- On \ byHand

(***************************************************************************)
(* The four machines with the screen, the scheduler and the emergency stop *)
(* implement the rig: outputs are only on for a busy machine, a start is   *)
(* accepted only by a free machine, an ending job leaves nothing on.       *)
(***************************************************************************)
ImplementsRig == R!Spec

(***************************************************************************)
(* Every job ends, whatever the operator, the scheduler and the bottle     *)
(* sensor do: Task02 keeps polling and the turntable has a timeout.        *)
(***************************************************************************)
EveryJobEnds == R!EveryJobEnds

=============================================================================
