------------------------------ MODULE FlowMode ------------------------------
(***************************************************************************)
(* The flow mode of the automatic scheduler: sched_flow of                 *)
(* app_scheduler.c, with the flow detection of Task05 (app_adc_module.c)   *)
(* that tells it of the beginning and the end of the flow.  Unlike the     *)
(* clock modes it depends on the hour only to begin its cycles.            *)
(***************************************************************************)
EXTENDS SchedClock, FiniteSetsExt

VARIABLES
  flow,   \* g_adc_module.flow_active
  s       \* s_sched: mode, phase, the flow it was told of, flow_stopped,
          \* startup stage, bucket, start hour, index, done points

vars == <<clock, flow, s>>

TypeOK ==
  /\ ClockTypeOK
  /\ flow \in BOOLEAN
  /\ s \in [mode : {"FLOW", "OTHER"}, phase : {"IDLE", "STARTUP", "CYCLING", "STOPPED"},
            flow : BOOLEAN, stopped : BOOLEAN, stage : 0 .. 2, bucket : {0, 1},
            start : 0 .. Hours - 1, idx : 0 .. 2 * Hours - 1, done : SUBSET Point]

\* scheduler_init: the structure is cleared.
Fresh(m) == [mode |-> m, phase |-> "IDLE", flow |-> FALSE, stopped |-> FALSE,
             stage |-> 0, bucket |-> 0, start |-> 0, idx |-> 0, done |-> {}]

Init ==
  /\ ClockInit
  /\ flow = FALSE
  /\ \E m \in {"FLOW", "OTHER"} : s = Fresh(m)

-----------------------------------------------------------------------------
(* Task05: the flow crosses its thresholds *)

scheduler_notify_flow_start == [s EXCEPT !.flow = TRUE, !.stopped = FALSE]
scheduler_notify_flow_stop  == [s EXCEPT !.flow = FALSE, !.stopped = TRUE]

\* Mutant: the flow's end is not reported.
FlowFallsSilently ==
  /\ flow /\ flow' = FALSE
  /\ s' = s
  /\ polled' = FALSE
  /\ UNCHANGED <<now, sampling, running>>

FlowRises ==
  /\ ~flow /\ flow' = TRUE
  /\ s' = IF s.mode = "FLOW" THEN scheduler_notify_flow_start ELSE s
  /\ polled' = FALSE
  /\ UNCHANGED <<now, sampling, running>>

FlowFalls ==
  /\ flow /\ flow' = FALSE
  /\ s' = IF s.mode = "FLOW" THEN scheduler_notify_flow_stop ELSE s
  /\ polled' = FALSE
  /\ UNCHANGED <<now, sampling, running>>

-----------------------------------------------------------------------------
(* The parts of sched_flow, in the order of the code *)

Awaiting(t) == t.phase \in {"STOPPED", "STARTUP"}

\* Waiting for flow: with flow, the startup begins (again).
Await(t) ==
  IF t.flow THEN [t EXCEPT !.phase = "STARTUP", !.stage = 0, !.stopped = FALSE,
                           !.bucket = 0, !.done = {}]
  ELSE [t EXCEPT !.phase = "STOPPED"]

\* The three stages of the startup: delivery of what bucket A holds (nothing,
\* so the stage passes), a bucket full of samples, the wait for the full hour.
StartupSamples(t) == t.stage = 1 /\ t.done # Point /\ ~sampling
Startup(t) ==
  CASE t.stage = 0 -> [t EXCEPT !.stage = 1]
    [] t.stage = 1 /\ t.done = Point -> [t EXCEPT !.stage = 2]
    [] StartupSamples(t) -> [t EXCEPT !.done = @ \cup {Min(Point \ t.done)}]
    [] t.stage = 2 /\ now % 6 = 0 ->
         [t EXCEPT !.start = Hour, !.idx = 0, !.done = {}, !.phase = "CYCLING"]
    [] OTHER -> t

EnterCycle(t) ==
  IF CycleIndex(t.start) = t.idx THEN t
  ELSE [t EXCEPT !.idx = CycleIndex(t.start), !.bucket = 1 - @, !.done = {}]

Started(t) ==
  {i \in Point \ t.done : InWindow(SampleAt(t.start, t.idx, i)) /\ ~sampling}

-----------------------------------------------------------------------------
scheduler_start ==
  /\ \E m \in {"FLOW", "OTHER"} : s' = [Fresh(m) EXCEPT !.phase = "STARTUP"]
  /\ Switched(TRUE)
  /\ UNCHANGED flow

scheduler_stop ==
  /\ s' = [s EXCEPT !.phase = "IDLE"]
  /\ Switched(FALSE)
  /\ UNCHANGED flow

\* The flow has stopped in the middle of the cycles: sampling is aborted.
PollStopped(t) ==
  /\ s' = [t EXCEPT !.phase = "STOPPED", !.stopped = FALSE]
  /\ Polled(FALSE)

\* A delivery is under way: the startup waits in its first stage.
PollWaits(t) == t.stage = 0 /\ s' = t /\ Polled(sampling)

PollStartup(t) ==
  /\ s' = Startup(t)
  /\ Polled(sampling \/ StartupSamples(t))

PollCycling(t) ==
  /\ s' = [EnterCycle(t) EXCEPT !.done = @ \cup Started(EnterCycle(t))]
  /\ Polled(sampling \/ Started(EnterCycle(t)) # {})

Poll ==
  /\ running /\ s.mode = "FLOW"
  /\ LET t == IF Awaiting(s) THEN Await(s) ELSE s
     IN CASE t.phase = "CYCLING" /\ t.stopped -> PollStopped(t)
          [] t.phase = "CYCLING" /\ ~t.stopped -> PollCycling(t)
          [] t.phase = "STARTUP" -> PollStartup(t) \/ PollWaits(t)
          [] OTHER -> s' = t /\ Polled(sampling)
  /\ UNCHANGED flow

\* In the other modes Task02 runs another handler, which leaves s.flow alone.
PollOther == running /\ s.mode = "OTHER" /\ Polled(sampling) /\ UNCHANGED <<flow, s>>

Environment == (Tick \/ SampEnds \/ HandStart) /\ UNCHANGED <<flow, s>>

Next ==
  \/ FlowRises \/ FlowFalls
  \/ scheduler_start \/ scheduler_stop
  \/ Poll \/ PollOther
  \/ Environment

\* A poll that does not wait for a delivery.
PollFree == Poll /\ (s'.phase = "STARTUP" => s'.stage > 0)

(* Task02 polls, time passes, runs of sampling and deliveries end. *)
Fairness ==
  /\ WF_vars(PollFree) /\ WF_vars(PollOther)
  /\ WF_vars(Tick /\ Environment) /\ SF_vars(SampEnds /\ Environment)

Spec == Init /\ [][Next]_vars
FairSpec == Spec /\ Fairness

-----------------------------------------------------------------------------
(* Properties *)

InFlowMode == running /\ s.mode = "FLOW"

(***************************************************************************)
(* What the scheduler believes of the flow is never a flow that has ended, *)
(* and between polls it only waits (STOPPED) when it was told of none.     *)
(***************************************************************************)
NoPhantomFlow ==
  InFlowMode => /\ s.flow => flow
                /\ polled /\ s.phase = "STOPPED" => ~s.flow

(***************************************************************************)
(* app_scheduler.c:711, "STARTUP: 3 stages (instant delivery -> bucket     *)
(* full of samples -> wait for the full hour)": with the flow told and     *)
(* lasting, the startup comes to its end and the cycles begin.             *)
(***************************************************************************)
FlowLeadsToCycles == <>[](InFlowMode /\ s.flow) => <>(s.phase = "CYCLING")

(***************************************************************************)
(* The design (2026-02-24-auto-scheduler-design.md, 2.2): the scheduler    *)
(* "reads the flow value to decide the flow trigger": a flow that lasts    *)
(* while the scheduler runs in flow mode is noticed.                       *)
(***************************************************************************)
FlowIsNoticed == <>[](InFlowMode /\ flow) => <>(s.flow)

=============================================================================
