----------------------------- MODULE SwitchMode -----------------------------
(***************************************************************************)
(* The switch mode of the automatic scheduler: sched_switch of             *)
(* app_scheduler.c.  The first low level on the trigger pin starts the     *)
(* cycles; afterwards a sample is taken at a point only if the pin is seen *)
(* low in the window around it.                                            *)
(*                                                                         *)
(* scheduler_notify_switch_signal has no caller, and nothing sets          *)
(* waiting_resume: both are left out.                                      *)
(***************************************************************************)
EXTENDS SchedClock

VARIABLES
  low,        \* read_trigger_sampling_signal() reads 0
  s,          \* s_sched: phase, bucket, start hour, index, done points, and
              \* the points whose window has been triggered
  taken,      \* history: how often each point was sampled in this cycle
  signalled,  \* history: the points in whose window of this cycle Task02 saw
              \* the pin low
  trigger     \* history: the hour of the first trigger, until it is over

vars == <<clock, low, s, taken, signalled, trigger>>

None == -1

TypeOK ==
  /\ ClockTypeOK
  /\ low \in BOOLEAN
  /\ s \in [phase : {"IDLE", "STARTUP", "CYCLING"}, bucket : {0, 1},
            start : 0 .. Hours - 1, idx : 0 .. 2 * Hours - 1,
            done : SUBSET Point, triggered : SUBSET Point]
  /\ taken \in [Point -> 0 .. 2]
  /\ signalled \in SUBSET Point
  /\ trigger \in 0 .. Hours - 1 \cup {None}

Fresh == [phase |-> "IDLE", bucket |-> 0, start |-> 0, idx |-> 0, done |-> {},
          triggered |-> {}]
NoneTaken == [i \in Point |-> 0]

Init ==
  /\ ClockInit
  /\ low = FALSE
  /\ s = Fresh
  /\ taken = NoneTaken /\ signalled = {} /\ trigger = None

-----------------------------------------------------------------------------
(* The parts of sched_switch *)

FirstTrigger ==
  [s EXCEPT !.start = (Hour + 2) % Hours, !.bucket = 0, !.done = {},
            !.phase = "CYCLING"]

\* Mutant: a window stays triggered into the next cycle.
EnterCycleTriggered(t) ==
  IF CycleIndex(t.start) = t.idx THEN t
  ELSE [t EXCEPT !.idx = CycleIndex(t.start), !.bucket = 1 - @, !.done = {}]

EnterCycle(t) ==
  IF CycleIndex(t.start) = t.idx THEN t
  ELSE [t EXCEPT !.idx = CycleIndex(t.start), !.bucket = 1 - @, !.done = {},
                 !.triggered = {}]

At(t, i) == SampleAt(t.start, t.idx, i)

\* now_sec >= sample_sec - 60, unsigned: never true for a point at 00:00.
InSwitchWindow(t) == t > 0 /\ InWindow(t)
Open(t) == {i \in Point \ t.done : InSwitchWindow(At(t, i))}

\* Mutant: the trigger is not latched, the pin must be low when sampling starts.
TriggerUnlatched(t) == [t EXCEPT !.triggered = IF low THEN @ \cup Open(t) ELSE {}]

Trigger(t) == [t EXCEPT !.triggered = IF low THEN @ \cup Open(t) ELSE @]

Started(t) == {i \in Open(t) : i \in t.triggered /\ ~sampling}

-----------------------------------------------------------------------------
scheduler_start ==
  /\ s' = [Fresh EXCEPT !.phase = "STARTUP"]
  /\ Switched(TRUE)
  /\ taken' = NoneTaken /\ signalled' = {} /\ trigger' = None
  /\ UNCHANGED low

scheduler_stop ==
  /\ s' = [s EXCEPT !.phase = "IDLE"]
  /\ Switched(FALSE)
  /\ UNCHANGED <<low, taken, signalled, trigger>>

PollStartup ==
  /\ running /\ s.phase = "STARTUP"
  /\ s' = IF low THEN FirstTrigger ELSE s
  /\ trigger' = IF low THEN Hour ELSE None
  /\ polled' = ~low
  /\ UNCHANGED <<now, sampling, running, low, taken, signalled>>

\* A point's window of this cycle, had midnight no say in it.
TrueWindow(t, i) ==
  Elapsed(t.start) - 3 * t.idx * Cycle \in {3 * i * Interval - 1, 3 * i * Interval}

PollCycling ==
  /\ running /\ s.phase = "CYCLING"
  /\ LET a == Trigger(EnterCycle(s))
         fired == Started(a)
         entered == CycleIndex(s.start) # s.idx
         before == IF entered THEN NoneTaken ELSE taken
         heard == IF entered THEN {} ELSE signalled
     IN /\ s' = [a EXCEPT !.done = @ \cup fired]
        /\ taken' = [i \in Point |-> before[i] + IF i \in fired THEN 1 ELSE 0]
        /\ signalled' =
             IF low THEN heard \cup {i \in Point : TrueWindow(a, i)} ELSE heard
        /\ Polled(sampling \/ fired # {})
  /\ UNCHANGED <<low, trigger>>

\* The outside world drives the pin; Task02 has to look again.
Pin ==
  /\ low' = ~low
  /\ UNCHANGED <<now, sampling, running, s, taken, signalled, trigger>>
  /\ polled' = FALSE

Environment ==
  /\ Tick \/ SampEnds \/ HandStart
  /\ trigger' = IF now' \div 6 = Hour THEN trigger ELSE None
  /\ UNCHANGED <<low, s, taken, signalled>>

Next ==
  \/ PollStartup \/ PollCycling
  \/ scheduler_start \/ scheduler_stop
  \/ Pin \/ Environment

Spec == Init /\ [][Next]_vars

-----------------------------------------------------------------------------
(* Properties *)

Cycling == running /\ s.phase = "CYCLING"
CycleEnd == CycleBase(s.start, s.idx + 1)

(***************************************************************************)
(* No sample without a signal in the point's own window of this very       *)
(* cycle, and no more than one for it.                                     *)
(***************************************************************************)
SampledOnSignal ==
  \A i \in Point : taken[i] <= 1 /\ (taken[i] = 1 => i \in signalled)

(***************************************************************************)
(* A signal is not lost to a busy sampling line: as long as the window is  *)
(* open, sampling free and the signal seen, be it over by now, the sample  *)
(* is taken.  For cycles that end before midnight.                         *)
(***************************************************************************)
SignalLatched ==
  Cycling /\ polled /\ ~sampling /\ CycleEnd <= Day =>
    \A i \in signalled : At(s, i) > 0 /\ TrueWindow(s, i) => taken[i] = 1

(***************************************************************************)
(* app_scheduler.c:911, "window: +-60 s": the same for every window of     *)
(* such a cycle, that of the point at midnight included.                   *)
(***************************************************************************)
EverySignalLatched ==
  Cycling /\ polled /\ ~sampling /\ CycleEnd <= Day =>
    \A i \in signalled : TrueWindow(s, i) => taken[i] = 1

(***************************************************************************)
(* The design (2026-02-24-auto-scheduler-design.md, 4.6): after the first  *)
(* trigger the scheduler "waits for the next full hour to enter the        *)
(* cycle": within the hour of the first trigger nothing is sampled.        *)
(***************************************************************************)
TriggerHourIsQuiet == trigger # None => taken = NoneTaken

=============================================================================
