--------------------------- MODULE SamplingProofs ---------------------------
(***************************************************************************)
(* Theorems about module Sampling, for either or both buckets and for any  *)
(* set of outputs in the operator's hands.                                 *)
(***************************************************************************)
EXTENDS Sampling, TLAPS

\* The inductive invariant: types, and the three safety properties.
Safe == NoOrphan /\ BucketNotStuck /\ EstopHoldsSampling
IInv == TypeOK /\ Safe

USE BucketAssumption, HandDevicesAssumption

(* Every variable stays in its type. *)
LEMMA TypeInit == Init => TypeOK
<1> SUFFICES ASSUME Init PROVE TypeOK
  OBVIOUS
<1>1. running \in BOOLEAN /\ estop \in BOOLEAN
  BY Zenon DEF Init
<1>2. QED
  BY <1>1 DEF Init, TypeOK, SampStage, DrainStage, DelivStage, RetainStage,
              BucketState, Level

LEMMA TypeStep == TypeOK /\ [Next]_vars => TypeOK'
<1> SUFFICES ASSUME TypeOK, [Next]_vars PROVE TypeOK'
  OBVIOUS
<1> USE DEF TypeOK, SampStage, DrainStage, DelivStage, RetainStage, BucketState,
            Level, Drive, SetBucket, KeepHands, machines
<1>0. running' \in BOOLEAN /\ estop' \in BOOLEAN
  BY Zenon DEF Next, Task02Step, Scheduler, ScreenStart, ScreenAbort, SystemStart,
     SystemStop, EmergencyStop, HandDrive, HandOutlet, HandDrainBusy, vars
<1>1. CASE Task02Step(sampling_step)
  BY <1>1 DEF Task02Step, sampling_step, SampTo, SampFinish
<1>2. CASE Task02Step(delivery_step)
  BY <1>2 DEF Task02Step, delivery_step, DelivTo, DelivFinish
<1>3. CASE Task02Step(retain_step)
  BY <1>3 DEF Task02Step, retain_step, RetainInPosition, RetainTimeout, RetainFinish
<1>4. CASE Task02Step(drain_step)
  BY <1>4 DEF Task02Step, drain_step, DrainStir, DrainMixed, DrainFinish
<1>5. CASE Scheduler
  BY <1>5 DEF Scheduler, sampling_start, drain_start
<1>6. CASE ScreenStart
  BY <1>0, <1>6 DEF ScreenStart, sampling_start, drain_start, delivery_start, retain_start
<1>7. CASE ScreenAbort
  BY <1>7 DEF ScreenAbort, sampling_abort
<1>8. CASE SystemStart \/ SystemStop
  BY <1>0, <1>8 DEF SystemStart, SystemStop
<1>9. CASE EmergencyStop
  <2>1. byHand' \in SUBSET Device
    BY <1>9 DEF EmergencyStop
  <2>2. CASE sampling_is_active
    BY <1>0, <1>9, <2>1, <2>2 DEF EmergencyStop
  <2>3. CASE ~sampling_is_active
    BY <1>0, <1>9, <2>1, <2>3 DEF EmergencyStop
  <2>4. QED
    BY <2>2, <2>3
<1>10. CASE HandDrive
  BY <1>0, <1>10 DEF HandDrive, HandCommand, Stirs
<1>11. CASE HandOutlet
  BY <1>0, <1>11 DEF HandOutlet
<1>12. CASE \E b \in Bucket : HandDrainBusy(b)
  BY <1>0, <1>12 DEF HandDrainBusy
<1>13. CASE UNCHANGED vars
  BY <1>13 DEF vars
<1>14. QED
  BY <1>1, <1>2, <1>3, <1>4, <1>5, <1>6, <1>7, <1>8, <1>9, <1>10, <1>11, <1>12,
     <1>13 DEF Next

(* An output switched on is accounted for after every step. *)
LEMMA NoOrphanStep == TypeOK /\ NoOrphan /\ [Next]_vars => NoOrphan'
<1> SUFFICES ASSUME TypeOK, NoOrphan, [Next]_vars, NEW d \in On' PROVE
             d \in (byHand \cup SampHolds \cup DrainHolds \cup DelivHolds \cup RetainHolds)'
  BY DEF NoOrphan
<1> USE DEF TypeOK, NoOrphan, On, SampHolds, DrainHolds, DelivHolds, RetainHolds,
            sampling_is_active, drain_is_active, delivery_is_active, retain_is_active,
            AtRest, Drive, KeepHands, machines, Stir, DrainValve
<1>1. CASE Task02Step(sampling_step)
  BY <1>1 DEF Task02Step, sampling_step, SampTo, SampFinish
<1>2. CASE Task02Step(delivery_step)
  BY <1>2 DEF Task02Step, delivery_step, DelivTo, DelivFinish
<1>3. CASE Task02Step(retain_step)
  BY <1>3 DEF Task02Step, retain_step, RetainInPosition, RetainTimeout, RetainFinish
<1>4. CASE Task02Step(drain_step)
  BY <1>4 DEF Task02Step, drain_step, DrainStir, DrainMixed, DrainFinish
<1>5. CASE Scheduler
  BY <1>5 DEF Scheduler, sampling_start, drain_start
<1>6. CASE ScreenStart
  BY <1>6 DEF ScreenStart, sampling_start, drain_start, delivery_start, retain_start
<1>7. CASE ScreenAbort
  BY <1>7 DEF ScreenAbort, sampling_abort
<1>8. CASE SystemStart \/ SystemStop
  BY <1>8 DEF SystemStart, SystemStop
<1>9. CASE EmergencyStop
  BY <1>9 DEF EmergencyStop, EstopOff
<1>10. CASE HandDrive
  BY <1>10 DEF HandDrive, HandCommand, Stirs
<1>11. CASE HandOutlet
  BY <1>11 DEF HandOutlet
<1>12. CASE \E b \in Bucket : HandDrainBusy(b)
  BY <1>12 DEF HandDrainBusy
<1>13. CASE UNCHANGED vars
  BY <1>13 DEF vars
<1>14. QED
  BY <1>1, <1>2, <1>3, <1>4, <1>5, <1>6, <1>7, <1>8, <1>9, <1>10, <1>11, <1>12,
     <1>13 DEF Next

(* The state shown for a bucket is that of a machine at work on it. *)
LEMMA BucketNotStuckStep == TypeOK /\ BucketNotStuck /\ [Next]_vars => BucketNotStuck'
<1> SUFFICES ASSUME TypeOK, BucketNotStuck, [Next]_vars PROVE BucketNotStuck'
  OBVIOUS
<1> USE DEF TypeOK, BucketNotStuck, SetBucket, machines, AtRest,
            sampling_is_active, drain_is_active, delivery_is_active
<1>1. CASE Task02Step(sampling_step)
  BY <1>1 DEF Task02Step, sampling_step, SampTo, SampFinish
<1>2. CASE Task02Step(delivery_step)
  BY <1>2 DEF Task02Step, delivery_step, DelivTo, DelivFinish
<1>3. CASE Task02Step(retain_step)
  BY <1>3 DEF Task02Step, retain_step, RetainInPosition, RetainTimeout, RetainFinish
<1>4. CASE Task02Step(drain_step)
  BY <1>4 DEF Task02Step, drain_step, DrainStir, DrainMixed, DrainFinish
<1>5. CASE Scheduler
  <2>1. ASSUME NEW b \in Bucket, sampling_start(b) PROVE BucketNotStuck'
    <3>1. \A c \in Bucket : bucketState'[c] = IF c = b THEN bucketState'[b] ELSE bucketState[c]
      BY <2>1 DEF sampling_start
    <3>2. QED
      BY <3>1, <2>1 DEF sampling_start
  <2>2. ASSUME NEW b \in Bucket, drain_start(b) PROVE BucketNotStuck'
    <3>1. \A c \in Bucket : bucketState'[c] = IF c = b THEN bucketState'[b] ELSE bucketState[c]
      BY <2>2 DEF drain_start
    <3>2. QED
      BY <3>1, <2>2 DEF drain_start
  <2>3. QED
    BY <1>5, <2>1, <2>2 DEF Scheduler
<1>6. CASE ScreenStart
  <2>1. ASSUME NEW b \in Bucket, sampling_start(b) PROVE BucketNotStuck'
    <3>1. \A c \in Bucket : bucketState'[c] = IF c = b THEN bucketState'[b] ELSE bucketState[c]
      BY <2>1 DEF sampling_start
    <3>2. QED
      BY <3>1, <2>1 DEF sampling_start
  <2>2. ASSUME NEW b \in Bucket, drain_start(b) PROVE BucketNotStuck'
    <3>1. \A c \in Bucket : bucketState'[c] = IF c = b THEN bucketState'[b] ELSE bucketState[c]
      BY <2>2 DEF drain_start
    <3>2. QED
      BY <3>1, <2>2 DEF drain_start
  <2>3. ASSUME NEW b \in Bucket, delivery_start(b) PROVE BucketNotStuck'
    <3>1. \A c \in Bucket : bucketState'[c] = IF c = b THEN bucketState'[b] ELSE bucketState[c]
      BY <2>3 DEF delivery_start
    <3>2. QED
      BY <3>1, <2>3 DEF delivery_start
  <2>4. CASE retain_start
    BY <2>4 DEF retain_start
  <2>5. QED
    BY <1>6, <2>1, <2>2, <2>3, <2>4 DEF ScreenStart
<1>7. CASE ScreenAbort
  BY <1>7 DEF ScreenAbort, sampling_abort
<1>8. CASE SystemStart \/ SystemStop
  BY <1>8 DEF SystemStart, SystemStop
<1>9. CASE EmergencyStop
  BY <1>9 DEF EmergencyStop, EstopOff
<1>10. CASE HandDrive \/ HandOutlet \/ \E b \in Bucket : HandDrainBusy(b)
  BY <1>10 DEF HandDrive, HandOutlet, HandDrainBusy
<1>11. CASE UNCHANGED vars
  BY <1>11 DEF vars
<1>12. QED
  BY <1>1, <1>2, <1>3, <1>4, <1>5, <1>6, <1>7, <1>8, <1>9, <1>10, <1>11 DEF Next

(* Sampling stays down after an emergency stop. *)
LEMMA EstopStep == TypeOK /\ EstopHoldsSampling /\ [Next]_vars => EstopHoldsSampling'
<1> SUFFICES ASSUME TypeOK, EstopHoldsSampling, [Next]_vars, estop'
             PROVE EstopHoldsSampling'
  BY DEF EstopHoldsSampling
<1> USE DEF TypeOK, EstopHoldsSampling, Drive, machines, AtRest, sampling_is_active,
            Device, Valves, Stirs, Motors, Stir, DrainValve
<1>1. CASE Task02Step(sampling_step)
  BY <1>1 DEF Task02Step, sampling_step, SampTo, SampFinish
<1>2. CASE Task02Step(delivery_step)
  BY <1>2 DEF Task02Step, delivery_step, DelivTo, DelivFinish
<1>3. CASE Task02Step(retain_step)
  BY <1>3 DEF Task02Step, retain_step, RetainInPosition, RetainTimeout, RetainFinish
<1>4. CASE Task02Step(drain_step)
  BY <1>4 DEF Task02Step, drain_step, DrainStir, DrainMixed, DrainFinish
<1>5. CASE Scheduler
  BY <1>5 DEF Scheduler, sampling_start, drain_start
<1>6. CASE ScreenStart
  BY <1>6 DEF ScreenStart, sampling_start, drain_start, delivery_start, retain_start
<1>7. CASE ScreenAbort
  BY <1>7 DEF ScreenAbort, sampling_abort
<1>8. CASE SystemStart \/ SystemStop
  BY <1>8 DEF SystemStart, SystemStop
<1>9. CASE EmergencyStop
  BY <1>9 DEF EmergencyStop, EstopOff
<1>10. CASE HandDrive \/ HandOutlet \/ \E b \in Bucket : HandDrainBusy(b)
  BY <1>10 DEF HandDrive, HandOutlet, HandDrainBusy
<1>11. CASE UNCHANGED vars
  BY <1>11 DEF vars
<1>12. QED
  BY <1>1, <1>2, <1>3, <1>4, <1>5, <1>6, <1>7, <1>8, <1>9, <1>10, <1>11 DEF Next

(* Type correctness (TypeOK) of every reachable state. *)
THEOREM TypeCorrect == Spec => []TypeOK
<1>1. QED
  BY TypeInit, TypeStep, PTL DEF Spec

(* The safety properties of the four machines: no output is left on        *)
(* unattended, no bucket is stuck in a state, the emergency stop keeps     *)
(* sampling down.                                                          *)
THEOREM SamplingSafe == Spec => [](NoOrphan /\ BucketNotStuck /\ EstopHoldsSampling)
<1>1. Init => IInv
  <2> SUFFICES ASSUME Init PROVE Safe
    BY TypeInit DEF IInv
  <2>1. NoOrphan
    BY DEF Init, NoOrphan, On
  <2>2. BucketNotStuck
    BY DEF Init, BucketNotStuck
  <2>3. EstopHoldsSampling
    BY DEF Init, EstopHoldsSampling
  <2>4. QED
    BY <2>1, <2>2, <2>3 DEF Safe
<1>2. IInv /\ [Next]_vars => IInv'
  BY TypeStep, NoOrphanStep, BucketNotStuckStep, EstopStep DEF IInv, Safe
<1>3. QED
  BY <1>1, <1>2, PTL DEF Spec, IInv, Safe

(* A bucket is shown as sampling or draining only while a machine works on *)
(* it, whatever aborts, starts and emergency stops came between.           *)
THEOREM BucketSafe == Spec => []BucketNotStuck
<1>1. QED
  BY SamplingSafe, PTL

(* The emergency stop holds: until the next command of the operator the    *)
(* scheduler stays stopped and the sampling line at rest, although the     *)
(* other three machines go on.                                             *)
THEOREM EstopSafe == Spec => []EstopHoldsSampling
<1>1. QED
  BY SamplingSafe, PTL

-----------------------------------------------------------------------------
(* The machines implement module Rig. *)

MachineName == {"samp", "drain", "deliv", "retain"}

LEMMA ReachOf ==
  /\ Reach["samp"] = {"INLET", "SAMPLING", "EXT_PUMP"}
  /\ Reach["drain"] = {"DRAIN_A", "DRAIN_B", "STIR_A", "STIR_B"}
  /\ Reach["deliv"] = {"DELIVER", "DELIVERY", "STIR_A", "STIR_B"}
  /\ Reach["retain"] = {"TURNTABLE", "DELIVER", "DELIVERY"}
  BY DEF Reach

LEMMA BusyOf ==
  /\ "samp" \in Busy <=> sampling_is_active
  /\ "drain" \in Busy <=> drain_is_active
  /\ "deliv" \in Busy <=> delivery_is_active
  /\ "retain" \in Busy <=> retain_is_active
  /\ Busy \subseteq MachineName
  BY DEF Busy, MachineName

\* Without orphans, what is on is within the reach of the busy machines.
OnWithin == On \ byHand \subseteq R!Reached(Busy)

LEMMA OnReached == NoOrphan => OnWithin
<1> SUFFICES ASSUME NoOrphan, NEW d \in On \ byHand
             PROVE \E m \in Busy : d \in Reach[m]
  BY DEF OnWithin, R!Reached
<1>1. CASE d \in SampHolds
  BY <1>1, ReachOf, BusyOf DEF SampHolds, sampling_is_active, AtRest
<1>2. CASE d \in DrainHolds
  BY <1>2, ReachOf, BusyOf DEF DrainHolds, drain_is_active, AtRest, DrainValve, Stir
<1>3. CASE d \in DelivHolds
  BY <1>3, ReachOf, BusyOf DEF DelivHolds, delivery_is_active, AtRest, Stir
<1>4. CASE d \in RetainHolds
  BY <1>4, ReachOf, BusyOf DEF RetainHolds, retain_is_active, AtRest
<1>5. QED
  BY <1>1, <1>2, <1>3, <1>4 DEF NoOrphan

LEMMA OnReachedNext == NoOrphan' => OnWithin'
BY OnReached, PTL

\* A step that only commands outputs in S changes nothing else of the rig.
LEMMA Outside ==
  ASSUME NEW S, KeepHands, \A d \in Device \ S : dev'[d] = dev[d]
  PROVE  (On \ byHand) \ S = (On \ byHand)' \ S
  BY DEF On, KeepHands

\* A machine stays busy, or free, when its own stage does.
LEMMA BusyStep ==
  ASSUME NEW m \in MachineName, Busy' \cup {m} = Busy \cup {m} PROVE
    /\ m \in Busy' /\ m \in Busy => Busy' = Busy
    /\ m \in Busy' /\ m \notin Busy => Busy' = Busy \cup {m}
    /\ m \notin Busy' /\ m \in Busy => Busy' = Busy \ {m}
  OBVIOUS

(* One stage of machine m, or its end, is Work or Finish of the rig. *)
LEMMA RigStage ==
  ASSUME NoOrphan', KeepHands, NEW m \in MachineName,
         Busy' \cup {m} = Busy \cup {m}, m \in Busy,
         \A d \in Device \ Reach[m] : dev'[d] = dev[d],
         m \notin Busy' => \A d \in Device : dev'[d] = dev[d] \/ dev'[d] = "off"
  PROVE  R!Next
<1>1. (On \ byHand) \ Reach[m] = (On \ byHand)' \ Reach[m]
  BY Outside
<1>2. On' \subseteq Device
  BY DEF On
<1>3. CASE m \in Busy'
  <2>1. R!Work(m)
    BY <1>1, <1>2, <1>3, BusyStep DEF R!Work
  <2>2. QED
    BY <2>1 DEF R!Next, MachineName
<1>4. CASE m \notin Busy'
  <2>1. (On \ byHand)' \subseteq R!Reached(Busy)'
    BY OnReachedNext DEF OnWithin
  <2>2. (On \ byHand)' \subseteq On \ byHand
    BY <1>4 DEF On, KeepHands
  <2>3. R!Finish(m)
    BY <1>1, <1>4, <2>1, <2>2, BusyStep DEF R!Finish, R!Reached
  <2>4. QED
    BY <2>3 DEF R!Next, MachineName
<1>5. QED
  BY <1>3, <1>4

(* An accepted start is Start of the rig. *)
LEMMA RigStart ==
  ASSUME KeepHands, NEW m \in MachineName,
         Busy' \cup {m} = Busy \cup {m}, m \notin Busy, m \in Busy',
         \A d \in Device \ Reach[m] : dev'[d] = dev[d],
         \A d \in Device : dev'[d] = dev[d] \/ dev'[d] # "off"
  PROVE  R!Next
<1>1. (On \ byHand) \ Reach[m] = (On \ byHand)' \ Reach[m]
  BY Outside
<1>2. R!Start(m)
  BY <1>1, BusyStep DEF R!Start, On, KeepHands
<1>3. QED
  BY <1>2 DEF R!Next, MachineName

(* Ending jobs or switching off, from outside, is Withdraw of the rig. *)
LEMMA RigWithdraw ==
  ASSUME NoOrphan', Busy' \subseteq Busy, (On \ byHand)' \subseteq On \ byHand
  PROVE  R!Next
<1>1. (On \ byHand)' \subseteq R!Reached(Busy)'
  BY OnReachedNext DEF OnWithin
<1>2. R!Withdraw
  BY <1>1 DEF R!Withdraw, R!Reached
<1>3. QED
  BY <1>2 DEF R!Next

(* A step of one machine leaves the others busy or free. *)
LEMMA OthersBusy ==
  /\ UNCHANGED <<drain, deliv, retain>> => Busy' \cup {"samp"} = Busy \cup {"samp"}
  /\ UNCHANGED <<samp, deliv, retain>> => Busy' \cup {"drain"} = Busy \cup {"drain"}
  /\ UNCHANGED <<samp, drain, retain>> => Busy' \cup {"deliv"} = Busy \cup {"deliv"}
  /\ UNCHANGED <<samp, drain, deliv>> => Busy' \cup {"retain"} = Busy \cup {"retain"}
  BY DEF Busy, sampling_is_active, drain_is_active, delivery_is_active, retain_is_active

(* The starts. *)
LEMMA SampStartRig ==
  ASSUME TypeOK, NEW b \in Bucket, sampling_start(b), KeepHands PROVE R!Next
<1>1. "samp" \notin Busy /\ "samp" \in Busy'
  BY BusyOf DEF sampling_start, Busy, sampling_is_active, AtRest
<1>2. /\ \A d \in Device \ Reach["samp"] : dev'[d] = dev[d]
      /\ \A d \in Device : dev'[d] = dev[d] \/ dev'[d] # "off"
  BY ReachOf DEF sampling_start, TypeOK
<1>3. QED
  BY <1>1, <1>2, OthersBusy, RigStart DEF sampling_start, MachineName

LEMMA DrainStartRig ==
  ASSUME TypeOK, NEW b \in Bucket, drain_start(b), KeepHands PROVE R!Next
<1>1. "drain" \notin Busy /\ "drain" \in Busy'
  BY BusyOf DEF drain_start, Busy, drain_is_active, AtRest
<1>2. /\ \A d \in Device \ Reach["drain"] : dev'[d] = dev[d]
      /\ \A d \in Device : dev'[d] = dev[d] \/ dev'[d] # "off"
  BY ReachOf DEF drain_start, TypeOK, Drive, DrainValve
<1>3. QED
  BY <1>1, <1>2, OthersBusy, RigStart DEF drain_start, MachineName

LEMMA DelivStartRig ==
  ASSUME TypeOK, NEW b \in Bucket, delivery_start(b), KeepHands PROVE R!Next
<1>1. "deliv" \notin Busy /\ "deliv" \in Busy'
  BY BusyOf DEF delivery_start, Busy, delivery_is_active, AtRest
<1>2. /\ \A d \in Device \ Reach["deliv"] : dev'[d] = dev[d]
      /\ \A d \in Device : dev'[d] = dev[d] \/ dev'[d] # "off"
  BY ReachOf DEF delivery_start, TypeOK
<1>3. QED
  BY <1>1, <1>2, OthersBusy, RigStart DEF delivery_start, MachineName

LEMMA RetainStartRig == ASSUME TypeOK, retain_start, KeepHands PROVE R!Next
<1>1. "retain" \notin Busy /\ "retain" \in Busy'
  BY BusyOf DEF retain_start, Busy, retain_is_active, AtRest
<1>2. /\ \A d \in Device \ Reach["retain"] : dev'[d] = dev[d]
      /\ \A d \in Device : dev'[d] = dev[d] \/ dev'[d] # "off"
  BY ReachOf DEF retain_start, TypeOK, Drive
<1>3. QED
  BY <1>1, <1>2, OthersBusy, RigStart DEF retain_start, MachineName

(* The stages of the machines, and the abort of sampling. *)
LEMMA SampStageRig ==
  ASSUME TypeOK, NoOrphan', sampling_step \/ sampling_abort, KeepHands PROVE R!Next
<1> USE DEF sampling_step, SampTo, SampFinish, sampling_abort
<1>1. "samp" \in Busy
  BY BusyOf DEF sampling_is_active, AtRest
<1>2. \A d \in Device \ Reach["samp"] : dev'[d] = dev[d]
  BY ReachOf DEF Drive, TypeOK
<1>3. ASSUME "samp" \notin Busy', NEW d \in Device
      PROVE  dev'[d] = dev[d] \/ dev'[d] = "off"
  BY <1>3 DEF Busy, sampling_is_active, AtRest, Drive, TypeOK
<1>4. UNCHANGED <<drain, deliv, retain>>
  OBVIOUS
<1>5. QED
  BY <1>1, <1>2, <1>3, <1>4, OthersBusy, RigStage DEF MachineName

LEMMA DrainStageRig ==
  ASSUME TypeOK, NoOrphan', drain_step, KeepHands PROVE R!Next
<1> USE DEF drain_step, DrainStir, DrainMixed, DrainFinish
<1>1. "drain" \in Busy
  BY BusyOf DEF drain_is_active, AtRest
<1>2. \A d \in Device \ Reach["drain"] : dev'[d] = dev[d]
  BY ReachOf DEF Drive, TypeOK, DrainValve, Stir
<1>3. ASSUME "drain" \notin Busy', NEW d \in Device
      PROVE  dev'[d] = dev[d] \/ dev'[d] = "off"
  BY <1>3 DEF Busy, drain_is_active, AtRest, Drive, TypeOK
<1>4. UNCHANGED <<samp, deliv, retain>>
  OBVIOUS
<1>5. QED
  BY <1>1, <1>2, <1>3, <1>4, OthersBusy, RigStage DEF MachineName

LEMMA DelivStageRig ==
  ASSUME TypeOK, NoOrphan', delivery_step, KeepHands PROVE R!Next
<1> USE DEF delivery_step, DelivTo, DelivFinish
<1>1. "deliv" \in Busy
  BY BusyOf DEF delivery_is_active, AtRest
<1>2. \A d \in Device \ Reach["deliv"] : dev'[d] = dev[d]
  BY ReachOf DEF Drive, TypeOK, Stir
<1>3. ASSUME "deliv" \notin Busy', NEW d \in Device
      PROVE  dev'[d] = dev[d] \/ dev'[d] = "off"
  BY <1>3 DEF Busy, delivery_is_active, AtRest, Drive, TypeOK
<1>4. UNCHANGED <<samp, drain, retain>>
  OBVIOUS
<1>5. QED
  BY <1>1, <1>2, <1>3, <1>4, OthersBusy, RigStage DEF MachineName

LEMMA RetainStageRig ==
  ASSUME TypeOK, NoOrphan', retain_step, KeepHands PROVE R!Next
<1> USE DEF retain_step, RetainInPosition, RetainTimeout, RetainFinish
<1>1. "retain" \in Busy
  BY BusyOf DEF retain_is_active, AtRest
<1>2. \A d \in Device \ Reach["retain"] : dev'[d] = dev[d]
  BY ReachOf DEF Drive, TypeOK
<1>3. ASSUME "retain" \notin Busy', NEW d \in Device
      PROVE  dev'[d] = dev[d] \/ dev'[d] = "off"
  BY <1>3 DEF Busy, retain_is_active, AtRest, Drive, TypeOK
<1>4. UNCHANGED <<samp, drain, deliv>>
  OBVIOUS
<1>5. QED
  BY <1>1, <1>2, <1>3, <1>4, OthersBusy, RigStage DEF MachineName

(* What the operator switches is his, not the rig's. *)
LEMMA HandRig ==
  ASSUME TypeOK, NoOrphan', UNCHANGED machines,
         HandDrive \/ HandOutlet \/ (\E b \in Bucket : HandDrainBusy(b))
  PROVE  R!Next
<1>1. Busy' = Busy
  BY DEF Busy, machines, sampling_is_active, drain_is_active, delivery_is_active,
         retain_is_active
<1>2. (On \ byHand)' \subseteq On \ byHand
  <2>1. CASE HandDrive
    BY <2>1 DEF HandDrive, Drive, On, TypeOK
  <2>2. CASE HandOutlet
    <3>1. PICK open \in {"OUTLET_A", "OUTLET_B"} :
            LET shut == CHOOSE d \in {"OUTLET_A", "OUTLET_B"} : d # open
            IN  /\ dev' = [dev EXCEPT ![open] = "on", ![shut] = "off"]
                /\ byHand' = (byHand \cup {open}) \ {shut}
      BY <2>2 DEF HandOutlet
    <3>2. QED
      BY <3>1 DEF On, TypeOK
  <2>3. CASE \E b \in Bucket : HandDrainBusy(b)
    BY <2>3 DEF HandDrainBusy, Drive, On, TypeOK
  <2>4. QED
    BY <2>1, <2>2, <2>3
<1>3. QED
  BY <1>1, <1>2, RigWithdraw

LEMMA EstopRig == ASSUME TypeOK, NoOrphan', EmergencyStop PROVE R!Next
<1>1. Busy' \subseteq Busy
  BY DEF EmergencyStop, Busy, sampling_is_active, drain_is_active,
         delivery_is_active, retain_is_active, AtRest, TypeOK
<1>2. \A d \in Device : dev'[d] = dev[d] \/ dev'[d] = "off"
  BY DEF EmergencyStop, Drive, TypeOK
<1>3. (On \ byHand)' \subseteq On \ byHand
  BY <1>2 DEF EmergencyStop, On
<1>4. QED
  BY <1>1, <1>3, RigWithdraw

(* Every step of the four machines is a step of the rig, or none. *)
LEMMA RigStep ==
  ASSUME TypeOK, NoOrphan', [Next]_vars PROVE [R!Next]_<<Busy, On \ byHand>>
<1> USE DEF Task02Step
<1>1. CASE Task02Step(sampling_step) \/ ScreenAbort
  BY <1>1, SampStageRig DEF ScreenAbort
<1>2. CASE Task02Step(delivery_step)
  BY <1>2, DelivStageRig
<1>3. CASE Task02Step(retain_step)
  BY <1>3, RetainStageRig
<1>4. CASE Task02Step(drain_step)
  BY <1>4, DrainStageRig
<1>5. CASE Scheduler
  BY <1>5, SampStartRig, DrainStartRig DEF Scheduler
<1>6. CASE ScreenStart
  BY <1>6, SampStartRig, DrainStartRig, DelivStartRig, RetainStartRig DEF ScreenStart
<1>7. CASE SystemStart \/ SystemStop \/ UNCHANGED vars
  BY <1>7 DEF SystemStart, SystemStop, machines, vars, Busy, On, sampling_is_active,
     drain_is_active, delivery_is_active, retain_is_active
<1>8. CASE EmergencyStop
  BY <1>8, EstopRig
<1>9. CASE HandDrive \/ HandOutlet \/ (\E b \in Bucket : HandDrainBusy(b))
  <2>1. UNCHANGED machines
    BY <1>9 DEF HandDrive, HandOutlet, HandDrainBusy
  <2>2. QED
    BY <1>9, <2>1, HandRig
<1>10. QED
  BY <1>1, <1>2, <1>3, <1>4, <1>5, <1>6, <1>7, <1>8, <1>9 DEF Next

LEMMA RigInit == Init => R!Init
  BY DEF Init, R!Init, Busy, On, sampling_is_active, drain_is_active,
         delivery_is_active, retain_is_active, AtRest

(***************************************************************************)
(* The sampling machines, with the screen, the scheduler, the operator's   *)
(* hands and the emergency stop, implement the abstract rig of module Rig. *)
(***************************************************************************)
THEOREM Refinement == Spec => ImplementsRig
<1>1. [](TypeOK /\ NoOrphan) /\ [][Next]_vars => [][R!Next]_<<Busy, On \ byHand>>
  BY RigStep, PTL
<1>2. Spec => [](TypeOK /\ NoOrphan)
  BY TypeCorrect, SamplingSafe, PTL
<1>3. QED
  BY <1>1, <1>2, RigInit, PTL DEF Spec, ImplementsRig, R!Spec
=============================================================================
