----------------------------- MODULE FixedTime ------------------------------
(***************************************************************************)
(* The timed mode of the automatic scheduler: sched_fixed_time of          *)
(* app_scheduler.c.  The operator ticks delivery hours; the cycle of a     *)
(* delivery hour has its sample points before it, and the scheduler goes   *)
(* on to the next hour when it has started the delivery.                   *)
(***************************************************************************)
EXTENDS SchedClock, FiniteSetsExt

CONSTANTS
  FixedHours,  \* g_delivery_cfg.fixedhour: the hours ticked
  FixedMin     \* g_delivery_cfg.fixedmin: the instant of the hour, 0 (:00),
               \* 3 (:30) or 4 (:50 and later)

VARIABLES
  s,       \* s_sched: phase, bucket, current delivery hour, done points
  fired    \* history: the scheduler has just started a run of sampling

vars == <<clock, s, fired>>

TypeOK ==
  /\ ClockTypeOK
  /\ s \in [phase : {"IDLE", "STARTUP", "CYCLING"}, bucket : {0, 1},
            hour : 0 .. Hours - 1, done : SUBSET Point]
  /\ fired \in BOOLEAN

Fresh == [phase |-> "IDLE", bucket |-> 0, hour |-> 0, done |-> {}]
Init == ClockInit /\ s = Fresh /\ fired = FALSE

-----------------------------------------------------------------------------
\* The first of the ticked hours H, or hour 0 of the cleared table.
FirstHour(H) ==
  IF H # {} THEN Min(H) ELSE IF FixedHours # {} THEN Min(FixedHours) ELSE 0

\* The deliveries from minute 50 on lie within their instant: a poll in it may
\* come before them, when only earlier instants are past, or after them.
Within == FixedMin = 4
PastInstants == {now} \cup IF Within THEN {now - 1} ELSE {}

\* Mutant: the delivery of this very instant is waited for, too.
NearestOrNow(past) == FirstHour({h \in FixedHours : 6 * h + FixedMin >= past})

\* PHASE_STARTUP: the nearest delivery still to come today, or the first.
Nearest(past) == FirstHour({h \in FixedHours : 6 * h + FixedMin > past})
NextHour(h) == FirstHour({g \in FixedHours : g > h})

\* From minute 50 on, the delivery ends the hour that is sampled.
CycleStart(h) == IF FixedMin = 4 THEN h ELSE (h + Hours - Cycle \div 2) % Hours

Started(t) ==
  {i \in Point \ t.done : InWindow(SampleAt(CycleStart(t.hour), 0, i)) /\ ~sampling}

\* The delivery at its hour, if the bucket holds water, ends the cycle.
Delivery(t) ==
  IF now = 6 * t.hour + FixedMin /\ Water(t.bucket) > 0
  THEN [t EXCEPT !.bucket = 1 - @, !.done = {}, !.hour = NextHour(@)]
  ELSE t

-----------------------------------------------------------------------------
scheduler_start ==
  s' = [Fresh EXCEPT !.phase = "STARTUP"] /\ Switched(TRUE) /\ fired' = FALSE

scheduler_stop ==
  s' = [s EXCEPT !.phase = "IDLE"] /\ Switched(FALSE) /\ fired' = FALSE

PollStartup ==
  /\ running /\ s.phase = "STARTUP"
  /\ \E past \in PastInstants :
       s' = [s EXCEPT !.hour = Nearest(past), !.bucket = 0, !.done = {}, !.phase = "CYCLING"]
  /\ fired' = FALSE
  /\ polled' = FALSE
  /\ UNCHANGED <<now, sampling, running>>

PollCycling ==
  /\ running /\ s.phase = "CYCLING"
  /\ IF FixedHours = {} THEN s' = s /\ fired' = FALSE /\ Polled(sampling)
     ELSE /\ s' = Delivery([s EXCEPT !.done = @ \cup Started(s)])
          /\ fired' = (Started(s) # {})
          /\ Polled(sampling \/ fired')

Environment == (Tick \/ SampEnds \/ HandStart) /\ UNCHANGED s /\ fired' = FALSE

Next == PollStartup \/ PollCycling \/ scheduler_start \/ scheduler_stop \/ Environment

(* Task02 polls, time passes, runs of sampling end. *)
Fairness ==
  /\ WF_vars(PollStartup) /\ WF_vars(PollCycling)
  /\ WF_vars(Tick /\ Environment) /\ SF_vars(SampEnds /\ Environment)

Spec == Init /\ [][Next]_vars
FairSpec == Spec /\ Fairness

-----------------------------------------------------------------------------
(* Properties *)

\* The time from now to the next delivery of hour h, which is not now.
Ahead(h) == (6 * h + FixedMin - now + Day - 1) % Day

(***************************************************************************)
(* Whenever it is started, the scheduler begins with the delivery that     *)
(* comes next, be it tomorrow's first (app_scheduler.c:573-589).           *)
(***************************************************************************)
BeginsWithNext ==
  [][s.phase = "STARTUP" /\ s'.phase = "CYCLING" /\ FixedHours # {} =>
       /\ s'.hour \in FixedHours
       /\ \/ Within /\ 6 * s'.hour + FixedMin = now
          \/ \A h \in FixedHours : Ahead(s'.hour) <= Ahead(h)]_vars

(***************************************************************************)
(* "Timed trigger: fixedhour[24]" (design, 4.4), where each hour ticked    *)
(* has its cycle: while the scheduler runs in timed mode it goes on taking *)
(* samples, day after day.                                                 *)
(***************************************************************************)
SamplingGoesOn == <>[](running /\ s.phase = "CYCLING") => []<>fired

=============================================================================
