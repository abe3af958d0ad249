------------------------------ MODULE TimeProp ------------------------------
(***************************************************************************)
(* The time-proportional mode of the automatic scheduler: sched_time_prop  *)
(* of app_scheduler.c.  From an anchor hour on, the day is a sequence of   *)
(* cycles that use bucket A and bucket B in turn; in each cycle a sample   *)
(* is taken at every sample point, at once in the window around it, later  *)
(* when sampling was busy then.                                            *)
(*                                                                         *)
(* The handler is a function of the scheduler's state and of whether       *)
(* sampling is busy: EnterCycle, OnTime and Late are its three parts in    *)
(* the order of the code.  The delay mechanism (delay_active) is never     *)
(* armed by any code, and is left out, like the names of startup modes     *)
(* and the counters nothing in the scheduler reads.                        *)
(***************************************************************************)
EXTENDS SchedClock, FiniteSetsExt

CONSTANT Deliver  \* g_delivery_cfg.start_min: the mark of the hour, 0 or 1
ASSUME DeliverAssumption == Deliver \in {0, 1}

None == -1

VARIABLES
  s,          \* s_sched: phase, bucket, start hour, index, done points,
              \* pending point, delivery done
  taken,      \* history: how often each point was sampled in this cycle
  seen        \* history: this cycle was entered at its first instant

vars == <<clock, s, taken, seen>>

TypeOK ==
  /\ ClockTypeOK
  /\ s \in [phase : {"IDLE", "STARTUP", "CYCLING"}, bucket : {0, 1},
            start : 0 .. Hours - 1, idx : 0 .. 2 * Hours - 1,
            done : SUBSET Point, pending : Point \cup {None}, delivered : BOOLEAN]
  /\ taken \in [Point -> 0 .. 2]
  /\ seen \in BOOLEAN

Fresh == [phase |-> "IDLE", bucket |-> 0, start |-> 0, idx |-> 0, done |-> {},
          pending |-> None, delivered |-> FALSE]
NoneTaken == [i \in Point |-> 0]

Init == ClockInit /\ s = Fresh /\ taken = NoneTaken /\ seen = FALSE

-----------------------------------------------------------------------------
(* The parts of sched_time_prop *)

RoundHour == IF now % 6 >= 3 THEN (Hour + 1) % Hours ELSE Hour

\* PHASE_STARTUP: the cycles are counted from the nearest full hour.
Anchored == [s EXCEPT !.start = RoundHour, !.idx = 0, !.bucket = 0, !.done = {},
                      !.delivered = FALSE, !.phase = "CYCLING"]

\* Mutants: done points are carried into the next cycle; the bucket is counted
\* on instead of flipped.
EnterCycleCounts(t) ==
  IF CycleIndex(t.start) = t.idx THEN t
  ELSE [t EXCEPT !.idx = CycleIndex(t.start), !.bucket = 1 + @, !.done = {},
                 !.pending = None, !.delivered = FALSE]

EnterCycleKeepsDone(t) ==
  IF CycleIndex(t.start) = t.idx THEN t
  ELSE [t EXCEPT !.idx = CycleIndex(t.start), !.bucket = 1 - @,
                 !.pending = None, !.delivered = FALSE]

EnterCycle(t) ==
  IF CycleIndex(t.start) = t.idx THEN t
  ELSE [t EXCEPT !.idx = CycleIndex(t.start), !.bucket = 1 - @, !.done = {},
                 !.pending = None, !.delivered = FALSE]

At(t, i) == SampleAt(t.start, t.idx, i)
Undone(t) == Point \ t.done

\* The loop over the points: the one whose window it is, if sampling is free;
\* the last of those missed is noted.
Started(t, busy) == {i \in Undone(t) : InWindow(At(t, i)) /\ ~busy}

\* Mutant: points still to come are noted as missed.
MissedAny(t) == {i \in Undone(t) : ~InWindow(At(t, i))}

Missed(t) == {i \in Undone(t) : ~InWindow(At(t, i)) /\ Past(At(t, i))}
OnTime(t, busy) ==
  [t EXCEPT !.done = @ \cup Started(t, busy),
            !.pending = IF Missed(t) = {} THEN @ ELSE Max(Missed(t))]

\* The compensation: the point noted is sampled when sampling is free.
Compensated(t, busy) ==
  IF t.pending = None \/ busy THEN {} ELSE {t.pending} \ t.done

\* Mutant: the compensation does not mark the point done.
LateUnmarked(t, busy) ==
  [t EXCEPT !.pending = IF busy THEN @ ELSE None]

Late(t, busy) ==
  [t EXCEPT !.done = @ \cup Compensated(t, busy),
            !.pending = IF busy THEN @ ELSE None]

\* The delivery, in the last hour of the cycle, if the bucket holds water.
DeliveryHour(t) == (t.start + (t.idx + 1) * CycleHours + Hours - 1) % Hours
Delivery(t) ==
  IF now = 6 * DeliveryHour(t) + 3 * Deliver /\ Water(t.bucket) > 0
  THEN [t EXCEPT !.delivered = TRUE] ELSE t

-----------------------------------------------------------------------------
scheduler_start ==
  /\ s' = [Fresh EXCEPT !.phase = "STARTUP"]
  /\ Switched(TRUE)
  /\ taken' = NoneTaken /\ seen' = FALSE

scheduler_stop ==
  /\ s' = [s EXCEPT !.phase = "IDLE"]
  /\ Switched(FALSE)
  /\ UNCHANGED <<taken, seen>>

PollStartup ==
  /\ running /\ s.phase = "STARTUP"
  /\ s' = Anchored
  /\ polled' = FALSE
  /\ UNCHANGED <<now, sampling, running, taken, seen>>

PollCycling ==
  /\ running /\ s.phase = "CYCLING"
  /\ LET a == EnterCycle(s)
         entered == CycleIndex(s.start) # s.idx
         onTime == Started(a, sampling)
         b == OnTime(a, sampling)
         busy == sampling \/ onTime # {}
         late == Compensated(b, busy)
         before == IF entered THEN NoneTaken ELSE taken
     IN /\ s' = Delivery(Late(b, busy))
        /\ taken' = [i \in Point |-> before[i] + IF i \in onTime \cup late THEN 1 ELSE 0]
        /\ seen' = IF entered THEN now = CycleBase(a.start, a.idx) % Day ELSE seen
        /\ Polled(busy \/ late # {})

Environment ==
  /\ Tick \/ SampEnds \/ HandStart
  /\ UNCHANGED <<s, taken, seen>>

Next ==
  \/ PollStartup \/ PollCycling
  \/ scheduler_start \/ scheduler_stop
  \/ Environment

Spec == Init /\ [][Next]_vars

-----------------------------------------------------------------------------
(* Properties *)

Cycling == running /\ s.phase = "CYCLING"
CycleEnd == CycleBase(s.start, s.idx + 1)

\* The time since the cycle began, and point i's place in it.
Into == Elapsed(s.start) - 3 * s.idx * Cycle
Offset(i) == 3 * i * Interval

(***************************************************************************)
(* No point is sampled twice in a cycle, whatever runs of sampling the     *)
(* operator starts or aborts in between: the on-time path and the          *)
(* compensation never both take a point.                                   *)
(***************************************************************************)
NeverTwice == \A i \in Point : taken[i] <= 1

(***************************************************************************)
(* No point is sampled before its window in the cycle, not by the          *)
(* compensation either, and not in the time between the start and the      *)
(* anchor hour, which counts as the last cycle of the day before.          *)
(***************************************************************************)
NoneEarly ==
  Cycling /\ polled => \A i \in Point : taken[i] = 1 => Into >= Offset(i) - 1

(***************************************************************************)
(* A cycle that the scheduler sees from its first instant, and that lies   *)
(* before midnight, has every sample: when the window of the next mark     *)
(* opens, each point up to the last mark has been sampled, late if need    *)
(* be.                                                                     *)
(***************************************************************************)
NoPointLost ==
  Cycling /\ polled /\ seen /\ now % 3 = 2 /\ CycleEnd <= Day =>
    \A i \in Point : Offset(i) < Into => taken[i] = 1

(***************************************************************************)
(* app_scheduler.c:445, "build the schedule of the whole day": the same for  *)
(* the cycles after midnight.                                              *)
(***************************************************************************)
NoPointLostAllDay ==
  Cycling /\ polled /\ seen /\ now % 3 = 2 =>
    \A i \in Point : Offset(i) < Into => taken[i] = 1

(***************************************************************************)
(* The design (2026-02-24-auto-scheduler-design.md, 4.3) delivers at the   *)
(* end of each cycle: when a cycle whose samples were taken ends, its      *)
(* delivery was started.                                                   *)
(***************************************************************************)
CycleDelivers ==
  [][seen /\ (\A i \in Point : taken[i] = 1) /\ s'.idx # s.idx /\ s'.phase = "CYCLING"
       => s.delivered]_vars

=============================================================================
