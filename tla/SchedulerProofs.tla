-------------------------- MODULE SchedulerProofs --------------------------
(***************************************************************************)
(* The modes of the scheduler, for every length of the day, cycle and      *)
(* interval, and every set of requests and delivery hours.  Each mode's    *)
(* invariant is its own, and the steps of the other modes leave its        *)
(* variables alone, so the proofs are independent of each other:           *)
(*   FlowInv    what the flow mode was told of the flow, and when,         *)
(*   SlotInv    how far Task04 has come in writing a request, and that     *)
(*              what is pending was written to the end,                    *)
(*   AutoInv    that a cycle's count and the bucket's run in step,         *)
(*   SwitchInv  that the signals heard, latched and sampled are the same,  *)
(*   FixedInv   the instant and the delivery hour the timed mode waits for,*)
(*   TimeInv    the invariants of TimePropProofs, while that mode is set.  *)
(* SwitchInv needs the arithmetic of the windows, FixedInv the least       *)
(* element of a set of hours; both are in TimePropProofs.  TypesInv joins  *)
(* them with the types of all the modes' parts of s_sched.                 *)
(***************************************************************************)
EXTENDS Scheduler, TimePropProofs, Sequences

-----------------------------------------------------------------------------
(* The flow mode *)

\* t has the fields of the flow mode's part of s_sched.

IsFlow(t) == t = [mode |-> t.mode, phase |-> t.phase, flow |-> t.flow,
                  stopped |-> t.stopped, stage |-> t.stage, bucket |-> t.bucket,
                  start |-> t.start, idx |-> t.idx, done |-> t.done]

FlowInv ==
  /\ IsFlow(fl)
  /\ fl.flow \in BOOLEAN /\ fl.stopped \in BOOLEAN
  /\ fl.flow => flow /\ fl.mode = "FLOW"
  /\ fl.stopped => ~fl.flow
  /\ polled /\ fl.phase = "STOPPED" => ~fl.flow
  /\ mode # "FLOW" => fl.mode = "OTHER"

LEMMA FlowInit == SchedInit => FlowInv
<1> SUFFICES ASSUME SchedInit PROVE FlowInv
  OBVIOUS
<1>1. PICK m \in {"FLOW", "OTHER"} : fl = Flow!Fresh(m)
  BY DEF SchedInit, Flow!Init
<1>2. polled = FALSE
  BY DEF SchedInit, Init, ClockInit
<1>3. mode # "FLOW" => fl = Flow!Fresh("OTHER")
  BY DEF SchedInit
<1> QED BY <1>1, <1>2, <1>3 DEF FlowInv, IsFlow, Flow!Fresh

LEMMA FlowNext == FlowInv /\ [scheduler_run]_allVars => FlowInv'
<1> SUFFICES ASSUME FlowInv, [scheduler_run]_allVars PROVE FlowInv'
  OBVIOUS
<1>1. CASE FlowTriggered
  <2>0. mode' = mode /\ mode = "FLOW"
    BY <1>1 DEF FlowTriggered
  <2>1. CASE Flow!FlowRises
    <3>1. fl' = IF fl.mode = "FLOW" THEN [fl EXCEPT !.flow = TRUE, !.stopped = FALSE] ELSE fl
      BY <2>1 DEF Flow!FlowRises, Flow!scheduler_notify_flow_start
    <3>2. ~flow /\ flow' = TRUE /\ polled' = FALSE
      BY <2>1 DEF Flow!FlowRises
    <3> QED
      BY <2>0, <3>1, <3>2 DEF FlowInv, IsFlow
  <2>2. CASE Flow!FlowFalls
    <3>1. fl' = IF fl.mode = "FLOW" THEN [fl EXCEPT !.flow = FALSE, !.stopped = TRUE] ELSE fl
      BY <2>2 DEF Flow!FlowFalls, Flow!scheduler_notify_flow_stop
    <3>2. flow' = FALSE /\ polled' = FALSE
      BY <2>2 DEF Flow!FlowFalls
    <3> QED
      BY <2>0, <3>1, <3>2 DEF FlowInv, IsFlow
  <2>3. CASE Flow!scheduler_start
    <3>1. PICK m \in {"FLOW", "OTHER"} : fl' = [Flow!Fresh(m) EXCEPT !.phase = "STARTUP"]
      BY <2>3 DEF Flow!scheduler_start
    <3> QED
      BY <2>0, <3>1 DEF FlowInv, IsFlow, Flow!Fresh
  <2>4. CASE Flow!scheduler_stop
    <3>1. fl' = [fl EXCEPT !.phase = "IDLE"] /\ flow' = flow
      BY <2>4 DEF Flow!scheduler_stop
    <3> QED
      BY <2>0, <3>1 DEF FlowInv, IsFlow
  <2>5. CASE Flow!Poll
    <3> DEFINE t == IF Flow!Awaiting(fl) THEN Flow!Await(fl) ELSE fl
    <3>1. /\ IsFlow(t) /\ t.mode = fl.mode /\ t.flow = fl.flow
          /\ t.stopped \in BOOLEAN
          /\ t.stopped => ~t.flow
          /\ t.phase = "STOPPED" => ~t.flow
      BY DEF FlowInv, IsFlow, Flow!Awaiting, Flow!Await
    <3>2. /\ IsFlow(fl') /\ fl'.mode = t.mode /\ fl'.flow = t.flow
          /\ fl'.stopped \in BOOLEAN
          /\ fl'.stopped => ~fl'.flow
          /\ fl'.phase = "STOPPED" => ~fl'.flow
      <4> HIDE DEF t
      <4>1. CASE t.phase = "CYCLING" /\ t.stopped
        <5>1. fl' = [t EXCEPT !.phase = "STOPPED", !.stopped = FALSE]
          BY <2>5, <4>1 DEF Flow!Poll, Flow!PollStopped, t
        <5> QED
          BY <3>1, <4>1, <5>1 DEF IsFlow
      <4>2. CASE t.phase = "CYCLING" /\ ~t.stopped
        <5>1. fl' = [Flow!EnterCycle(t) EXCEPT !.done = @ \cup Flow!Started(Flow!EnterCycle(t))]
          BY <2>5, <4>2 DEF Flow!Poll, Flow!PollCycling, t
        <5>2. /\ IsFlow(Flow!EnterCycle(t)) /\ Flow!EnterCycle(t).mode = t.mode
              /\ Flow!EnterCycle(t).flow = t.flow /\ Flow!EnterCycle(t).stopped = t.stopped
              /\ Flow!EnterCycle(t).phase = t.phase
          BY <3>1 DEF IsFlow, Flow!EnterCycle
        <5> QED
          BY <3>1, <4>2, <5>1, <5>2 DEF IsFlow
      <4>3. CASE t.phase = "STARTUP"
        <5>1. fl' = Flow!Startup(t) \/ fl' = t
          BY <2>5, <4>3 DEF Flow!Poll, Flow!PollStartup, Flow!PollWaits, t
        <5> QED
          BY <3>1, <4>3, <5>1 DEF IsFlow, Flow!Startup
      <4>4. CASE ~(t.phase \in {"CYCLING", "STARTUP"})
        <5>1. fl' = t
          BY <2>5, <4>4 DEF Flow!Poll, t
        <5> QED
          BY <3>1, <5>1 DEF IsFlow
      <4> QED
        BY <3>1, <4>1, <4>2, <4>3, <4>4
    <3>3. flow' = flow
      BY <2>5 DEF Flow!Poll
    <3> HIDE DEF t
    <3> QED
      BY <2>0, <3>1, <3>2, <3>3 DEF FlowInv
  <2>6. CASE Flow!PollOther \/ Flow!Environment
    <3>1. fl' = fl /\ flow' = flow
      BY <2>6 DEF Flow!PollOther, Flow!Environment
    <3>2. fl.mode = "OTHER" \/ (polled' => polled)
      BY <2>6 DEF Flow!PollOther, Flow!Environment, Flow!Tick, Flow!SampEnds, Flow!HandStart
    <3> QED
      BY <2>0, <3>1, <3>2 DEF FlowInv, IsFlow
  <2> QED
    BY <1>1, <2>1, <2>2, <2>3, <2>4, <2>5, <2>6 DEF FlowTriggered, Flow!Next
<1>2. CASE mode # "FLOW" /\ UNCHANGED <<mode, flowVars>>
  BY <1>2 DEF FlowInv, IsFlow, flowVars
<1>3. CASE UNCHANGED allVars
  BY <1>3 DEF FlowInv, IsFlow, allVars, flowVars, clock
<1>4. TimeProportional \/ Timed \/ SwitchTriggered \/ Commanded
        => mode # "FLOW" /\ UNCHANGED <<mode, flowVars>>
  BY DEF TimeProportional, Timed, SwitchTriggered, Commanded
<1> QED
  BY <1>1, <1>2, <1>3, <1>4 DEF scheduler_run

(***************************************************************************)
(* The flow the scheduler believes in is never one that has ended, and it  *)
(* waits only when it was told of none (sched_flow, the notifications).    *)
(***************************************************************************)
THEOREM FlowSafe == SchedSpec => []NoPhantomFlow
<1>1. FlowInv => NoPhantomFlow
  BY DEF FlowInv, NoPhantomFlow, Flow!NoPhantomFlow, Flow!InFlowMode
<1> QED
  BY <1>1, FlowInit, FlowNext, PTL DEF SchedSpec

-----------------------------------------------------------------------------
(* The request slot of the communication mode *)

IsReq(q) == q = [type |-> q.type, bucket |-> q.bucket, pending |-> q.pending]

\* What Task04 has yet to assign of request r, the rest being in the slot.
Begun(r) == todo = <<<<"type", r[1]>>, <<"bucket", r[2]>>, <<"pending", TRUE>>>>
Typed(r) == todo = <<<<"bucket", r[2]>>, <<"pending", TRUE>>>> /\ req.type = r[1]
Filled(r) == todo = <<<<"pending", TRUE>>>> /\ req.type = r[1] /\ req.bucket = r[2]
Written(r) == todo = <<>> /\ req.type = r[1] /\ req.bucket = r[2]
Partly(r) == Begun(r) \/ Typed(r) \/ Filled(r)

SlotInv ==
  /\ asked \subseteq Comm!Requests
  /\ ~overlap => /\ IsReq(req) /\ req.pending \in BOOLEAN
                 /\ did \in asked \cup {Comm!Nothing}
                 /\ req.pending => \E r \in asked : Written(r)
                 /\ todo = <<>> \/ \E r \in asked : Partly(r)

\* What is first of three, two or one assignments, and what is left.
LEMMA OneOfThem ==
  ASSUME NEW a, NEW b, NEW c
  PROVE  /\ Head(<<a, b, c>>) = a /\ Tail(<<a, b, c>>) = <<b, c>>
         /\ Head(<<b, c>>) = b /\ Tail(<<b, c>>) = <<c>>
         /\ Head(<<c>>) = c /\ Tail(<<c>>) = <<>>
  OBVIOUS

LEMMA SlotInit == SchedInit => SlotInv
  BY DEF SchedInit, Comm!Init, SlotInv, IsReq, Comm!Requests

LEMMA SlotAside ==
  ASSUME SlotInv, UNCHANGED <<req, todo, asked, did, overlap>>
  PROVE  SlotInv'
  BY DEF SlotInv, IsReq, Partly, Begun, Typed, Filled, Written, Comm!Requests, Comm!Nothing

LEMMA SlotNext == SlotInv /\ [scheduler_run]_allVars => SlotInv'
<1> SUFFICES ASSUME SlotInv, [scheduler_run]_allVars PROVE SlotInv'
  OBVIOUS
<1>1. CASE Commanded
  <2>1. CASE Comm!mb_write_single
    <3>1. PICK r \in Comm!Requests : todo' = Comm!scheduler_notify_comm(r) /\ asked' = asked \cup {r}
      BY <2>1 DEF Comm!mb_write_single
    <3>2. req' = req /\ did' = did /\ overlap' = (overlap \/ req.pending)
      BY <2>1 DEF Comm!mb_write_single
    <3>3. Partly(r)'
      BY <3>1 DEF Partly, Begun, Comm!scheduler_notify_comm
    <3> QED
      BY <3>1, <3>2, <3>3 DEF SlotInv, IsReq
  <2>2. CASE Comm!Assign
    <3>1. /\ todo # <<>> /\ req' = [req EXCEPT ![Head(todo)[1]] = Head(todo)[2]]
          /\ todo' = Tail(todo) /\ asked' = asked /\ did' = did /\ overlap' = overlap
      BY <2>2 DEF Comm!Assign
    <3>2. ASSUME NEW r, Begun(r), IsReq(req)
          PROVE  IsReq(req') /\ Typed(r)' /\ req'.pending = req.pending
      <4> DEFINE a == <<"type", r[1]>>
                 b == <<"bucket", r[2]>>
                 c == <<"pending", TRUE>>
      <4>1. todo = <<a, b, c>>
        BY <3>2 DEF Begun
      <4>2. Head(todo) = a /\ Tail(todo) = <<b, c>>
        <5> HIDE DEF a, b, c
        <5> QED BY <4>1, OneOfThem
      <4>3. req' = [req EXCEPT !.type = r[1]]
        <5>1. req' = [req EXCEPT ![a[1]] = a[2]]
          BY <3>1, <4>2
        <5> QED BY <5>1
      <4> QED
        BY <3>2, <3>1, <4>2, <4>3 DEF Typed, IsReq
    <3>3. ASSUME NEW r, Typed(r), IsReq(req)
          PROVE  IsReq(req') /\ Filled(r)' /\ req'.pending = req.pending
      <4> DEFINE a == <<"bucket", r[2]>>
                 b == <<"pending", TRUE>>
      <4>1. todo = <<a, b>>
        BY <3>3 DEF Typed
      <4>2. Head(todo) = a /\ Tail(todo) = <<b>>
        <5> HIDE DEF a, b
        <5> QED BY <4>1, OneOfThem
      <4>3. req' = [req EXCEPT !.bucket = r[2]]
        <5>1. req' = [req EXCEPT ![a[1]] = a[2]]
          BY <3>1, <4>2
        <5> QED BY <5>1
      <4>4. req.type = r[1]
        BY <3>3 DEF Typed
      <4> QED
        BY <3>3, <3>1, <4>2, <4>3, <4>4 DEF Filled, IsReq
    <3>4. ASSUME NEW r, Filled(r), IsReq(req)
          PROVE  IsReq(req') /\ Written(r)' /\ req'.pending = TRUE
      <4> DEFINE a == <<"pending", TRUE>>
      <4>1. todo = <<a>>
        BY <3>4 DEF Filled
      <4>2. Head(todo) = a /\ Tail(todo) = <<>>
        <5> HIDE DEF a
        <5> QED BY <4>1, OneOfThem
      <4>3. req' = [req EXCEPT !.pending = TRUE]
        <5>1. req' = [req EXCEPT ![a[1]] = a[2]]
          BY <3>1, <4>2
        <5> QED BY <5>1
      <4>4. req.type = r[1] /\ req.bucket = r[2]
        BY <3>4 DEF Filled
      <4> QED
        BY <3>4, <3>1, <4>2, <4>3, <4>4 DEF Written, IsReq
    <3>5. ASSUME ~overlap
          PROVE  /\ IsReq(req') /\ req'.pending \in BOOLEAN
                 /\ req'.pending => \E r \in asked : Written(r)'
                 /\ todo' = <<>> \/ \E r \in asked : Partly(r)'
      <4>1. IsReq(req) /\ req.pending = FALSE
        BY <3>1, <3>5 DEF SlotInv, Written
      <4>2. PICK r \in asked : Partly(r)
        BY <3>1, <3>5 DEF SlotInv
      <4>3. CASE Begun(r)
        BY <3>2, <4>1, <4>3 DEF Partly
      <4>4. CASE Typed(r)
        BY <3>3, <4>1, <4>4 DEF Partly
      <4>5. CASE Filled(r)
        <5>1. IsReq(req') /\ Written(r)' /\ req'.pending = TRUE
          BY <3>4, <4>1, <4>5
        <5>2. todo' = <<>>
          BY <5>1 DEF Written
        <5> QED
          BY <5>1, <5>2
      <4> QED
        BY <4>2, <4>3, <4>4, <4>5 DEF Partly
    <3> QED
      BY <3>1, <3>5 DEF SlotInv
  <2>3. CASE Comm!sched_comm
    <3>1. req.pending /\ req' = Comm!Cleared
          /\ UNCHANGED <<todo, asked, overlap>>
      BY <2>3 DEF Comm!sched_comm
    <3>2. did' = did \/ did' = <<req.type, req.bucket>>
      BY <2>3 DEF Comm!sched_comm, Comm!Sample, Comm!Drain, Comm!Drop
    <3>3. IsReq(req) => IsReq(req') /\ req'.pending = FALSE
      BY <3>1 DEF Comm!Cleared, IsReq
    <3>4. ~overlap => <<req.type, req.bucket>> \in asked /\ todo = <<>>
      BY <3>1 DEF SlotInv, Written, Comm!Requests
    <3> QED
      BY <3>1, <3>2, <3>3, <3>4 DEF SlotInv
  <2>4. CASE Comm!SampEnds \/ Comm!scheduler_start \/ Comm!scheduler_stop
    BY <2>4, SlotAside DEF Comm!SampEnds, Comm!scheduler_start, Comm!scheduler_stop
  <2> QED
    BY <1>1, <2>1, <2>2, <2>3, <2>4 DEF Commanded, Comm!Next
<1>2. CASE UNCHANGED commVars
  BY <1>2, SlotAside DEF commVars
<1>3. TimeProportional \/ Timed \/ FlowTriggered \/ SwitchTriggered \/ UNCHANGED allVars
        => UNCHANGED commVars
  BY DEF TimeProportional, Timed, FlowTriggered, SwitchTriggered, allVars
<1> QED
  BY <1>1, <1>2, <1>3 DEF scheduler_run

(***************************************************************************)
(* Whatever requests the collector sends, and whenever Task02 wakes up     *)
(* between the assignments of Task04: requests that do not overlap are     *)
(* executed as written (scheduler_notify_comm, sched_comm).                *)
(***************************************************************************)
THEOREM RequestsIntact == SchedSpec => []SpacedRequestsIntact
<1>1. SlotInv => SpacedRequestsIntact
  BY DEF SlotInv, SpacedRequestsIntact, Comm!SpacedRequestsIntact
<1> QED
  BY <1>1, SlotInit, SlotNext, PTL DEF SchedSpec

-----------------------------------------------------------------------------
(* The automatic buckets of the communication mode *)

Samples == Cycle \div Interval

\* What Task04 has yet to assign of a request that names no bucket.
AutoBegun == \E type : todo = <<<<"type", type>>, <<"bucket", Comm!Auto>>, <<"pending", TRUE>>>>
AutoTyped == todo = <<<<"bucket", Comm!Auto>>, <<"pending", TRUE>>>>
AutoFilled == todo = <<<<"pending", TRUE>>>> /\ req.bucket = Comm!Auto

AutoInv ==
  /\ samples \in 0 .. Samples - 1
  /\ (\A r \in asked : r[2] = Comm!Auto) =>
       /\ filled = samples
       /\ IsReq(req)
       /\ req.pending => req.bucket = Comm!Auto
       /\ todo = <<>> \/ AutoBegun \/ AutoTyped \/ AutoFilled

LEMMA SamplesFact ==
  ASSUME Interval <= Cycle
  PROVE  Samples \in Nat \ {0}
  BY ClockAssumption DEF Samples

LEMMA SuccFact ==
  ASSUME Interval <= Cycle, NEW n \in 0 .. Samples - 1
  PROVE  (n + 1) % Samples = IF n = Samples - 1 THEN 0 ELSE n + 1
<1>0. Samples \in Nat \ {0}
  BY SamplesFact
<1> HIDE DEF Samples
<1>1. CASE n = Samples - 1
  <2>1. Samples % Samples = 0
    BY <1>0, SMT
  <2> QED
    BY <1>0, <1>1, <2>1
<1>2. CASE n # Samples - 1
  <2>1. (n + 1) % Samples = n + 1
    BY <1>0, <1>2, SMTT(30)
  <2> QED
    BY <1>2, <2>1
<1> QED
  BY <1>1, <1>2

LEMMA AutoInit == ASSUME Interval <= Cycle PROVE SchedInit => AutoInv
  BY SamplesFact DEF SchedInit, Comm!Init, AutoInv, IsReq

LEMMA AutoAside ==
  ASSUME AutoInv, UNCHANGED <<req, todo, asked, samples, filled>>
  PROVE  AutoInv'
  BY DEF AutoInv, IsReq, AutoBegun, AutoTyped, AutoFilled

LEMMA AutoAssign ==
  ASSUME AutoInv, Comm!Assign
  PROVE  AutoInv'
<1>1. /\ todo # <<>> /\ req' = [req EXCEPT ![Head(todo)[1]] = Head(todo)[2]]
      /\ todo' = Tail(todo) /\ UNCHANGED <<asked, samples, filled>>
  BY DEF Comm!Assign
<1> SUFFICES ASSUME \A r \in asked : r[2] = Comm!Auto, IsReq(req),
                    req.pending => req.bucket = Comm!Auto
             PROVE  /\ IsReq(req')
                    /\ req'.pending => req'.bucket = Comm!Auto
                    /\ (todo = <<>> \/ AutoBegun \/ AutoTyped \/ AutoFilled)'
  BY <1>1 DEF AutoInv
<1>2. ASSUME NEW type, todo = <<<<"type", type>>, <<"bucket", Comm!Auto>>, <<"pending", TRUE>>>>
      PROVE  /\ IsReq(req') /\ req'.pending = req.pending /\ req'.bucket = req.bucket
             /\ AutoTyped'
  <2> DEFINE a == <<"type", type>>
             b == <<"bucket", Comm!Auto>>
             c == <<"pending", TRUE>>
  <2>1. todo = <<a, b, c>>
    BY <1>2
  <2>2. Head(todo) = a /\ Tail(todo) = <<b, c>>
    <3> HIDE DEF a, b, c
    <3> QED BY <2>1, OneOfThem
  <2>3. req' = [req EXCEPT !.type = type]
    <3>1. req' = [req EXCEPT ![a[1]] = a[2]]
      BY <1>1, <2>2
    <3> QED BY <3>1
  <2> QED
    BY <1>1, <2>2, <2>3 DEF AutoTyped, IsReq
<1>3. CASE AutoTyped
  <2> DEFINE a == <<"bucket", Comm!Auto>>
             b == <<"pending", TRUE>>
  <2>1. todo = <<a, b>>
    BY <1>3 DEF AutoTyped
  <2>2. Head(todo) = a /\ Tail(todo) = <<b>>
    <3> HIDE DEF a, b
    <3> QED BY <2>1, OneOfThem
  <2>3. req' = [req EXCEPT !.bucket = Comm!Auto]
    <3>1. req' = [req EXCEPT ![a[1]] = a[2]]
      BY <1>1, <2>2
    <3> QED BY <3>1
  <2> QED
    BY <1>1, <2>2, <2>3 DEF AutoFilled, IsReq
<1>4. CASE AutoFilled
  <2> DEFINE a == <<"pending", TRUE>>
  <2>1. todo = <<a>> /\ req.bucket = Comm!Auto
    BY <1>4 DEF AutoFilled
  <2>2. Head(todo) = a /\ Tail(todo) = <<>>
    <3> HIDE DEF a
    <3> QED BY <2>1, OneOfThem
  <2>3. req' = [req EXCEPT !.pending = TRUE]
    <3>1. req' = [req EXCEPT ![a[1]] = a[2]]
      BY <1>1, <2>2
    <3> QED BY <3>1
  <2> QED
    BY <1>1, <2>1, <2>2, <2>3 DEF IsReq
<1>5. AutoBegun \/ AutoTyped \/ AutoFilled
  BY <1>1 DEF AutoInv
<1> QED
  BY <1>2, <1>3, <1>4, <1>5 DEF AutoBegun

LEMMA AutoNext ==
  ASSUME Interval <= Cycle
  PROVE  AutoInv /\ [scheduler_run]_allVars => AutoInv'
<1> SUFFICES ASSUME AutoInv, [scheduler_run]_allVars PROVE AutoInv'
  OBVIOUS
<1>1. CASE Commanded
  <2>1. CASE Comm!mb_write_single
    <3>1. PICK r \in Comm!Requests : todo' = Comm!scheduler_notify_comm(r) /\ asked' = asked \cup {r}
      BY <2>1 DEF Comm!mb_write_single
    <3>2. UNCHANGED <<req, samples, filled>>
      BY <2>1 DEF Comm!mb_write_single
    <3>3. r[2] = Comm!Auto => AutoBegun'
      BY <3>1 DEF AutoBegun, Comm!scheduler_notify_comm
    <3> QED
      BY <3>1, <3>2, <3>3 DEF AutoInv, IsReq
  <2>2. CASE Comm!Assign
    BY <2>2, AutoAssign
  <2>3. CASE Comm!sched_comm
    <3>1. req.pending /\ req' = Comm!Cleared /\ UNCHANGED <<todo, asked>>
      BY <2>3 DEF Comm!sched_comm
    <3>2. IsReq(req) => IsReq(req') /\ req'.pending = FALSE /\ req'.bucket = req.bucket
      BY <3>1 DEF Comm!Cleared, IsReq
    <3>3. /\ samples' \in 0 .. Samples - 1
          /\ req.bucket = Comm!Auto /\ filled = samples => filled' = samples'
      <4>1. CASE Comm!Sample
        <5>1. samples' = IF samples = Samples - 1 THEN 0 ELSE samples + 1
          BY <4>1, SuccFact DEF Comm!Sample, AutoInv, Samples
        <5>2. ASSUME req.bucket = Comm!Auto, filled = samples
              PROVE  filled' = IF samples' = 0 THEN 0
                               ELSE IF filled + 1 > Samples THEN Samples + 1 ELSE filled + 1
          BY <4>1, <5>2 DEF Comm!Sample, Comm!Active, Comm!CycleFull, Samples
        <5>3. Samples \in Nat \ {0} /\ samples \in 0 .. Samples - 1
          BY SamplesFact DEF AutoInv
        <5> HIDE DEF Samples
        <5> QED
          BY <5>1, <5>2, <5>3
      <4>2. CASE Comm!Drain \/ Comm!Drop
        BY <4>2 DEF Comm!Drain, Comm!Drop, AutoInv
      <4> QED
        BY <2>3, <4>1, <4>2 DEF Comm!sched_comm
    <3>4. AutoBegun' = AutoBegun /\ AutoTyped' = AutoTyped
      BY <3>1 DEF AutoBegun, AutoTyped
    <3> QED
      BY <3>1, <3>2, <3>3, <3>4 DEF AutoInv, AutoFilled
  <2>4. CASE Comm!SampEnds \/ Comm!scheduler_stop
    BY <2>4, AutoAside DEF Comm!SampEnds, Comm!scheduler_stop
  <2>5. CASE Comm!scheduler_start
    <3>1. samples' = 0 /\ filled' = 0 /\ UNCHANGED <<req, todo, asked>>
      BY <2>5 DEF Comm!scheduler_start
    <3>2. UNCHANGED <<AutoBegun, AutoTyped, AutoFilled>>
      BY <3>1 DEF AutoBegun, AutoTyped, AutoFilled
    <3>3. 0 \in 0 .. Samples - 1
      BY SamplesFact
    <3> QED
      BY <3>1, <3>2, <3>3 DEF AutoInv, IsReq
  <2> QED
    BY <1>1, <2>1, <2>2, <2>3, <2>4, <2>5 DEF Commanded, Comm!Next
<1>2. CASE UNCHANGED commVars
  BY <1>2, AutoAside DEF commVars
<1>3. TimeProportional \/ Timed \/ FlowTriggered \/ SwitchTriggered \/ UNCHANGED allVars
        => UNCHANGED commVars
  BY DEF TimeProportional, Timed, FlowTriggered, SwitchTriggered, allVars
<1> QED
  BY <1>1, <1>2, <1>3 DEF scheduler_run

(***************************************************************************)
(* For cycles of at least one sample: as long as the collector leaves the  *)
(* bucket to the scheduler, sched_comm turns to the other bucket after     *)
(* each cycle's samples, however requests overwrite each other.            *)
(***************************************************************************)
THEOREM CyclesFilled ==
  ASSUME Interval <= Cycle
  PROVE  SchedSpec => []AutoFillsCycles
<1>1. AutoInv => AutoFillsCycles
  BY DEF AutoInv, AutoFillsCycles, Comm!AutoFillsCycles
<1>2. SchedInit => AutoInv
  BY AutoInit
<1>3. AutoInv /\ [scheduler_run]_allVars => AutoInv'
  BY AutoNext
<1> QED
  BY <1>1, <1>2, <1>3, PTL DEF SchedSpec

-----------------------------------------------------------------------------
(* The signals of the switch mode *)

IsSwitch(t) == t = [phase |-> t.phase, bucket |-> t.bucket, start |-> t.start,
                    idx |-> t.idx, done |-> t.done, triggered |-> t.triggered]

SwitchOK ==
  /\ now \in 0 .. Day - 1
  /\ IsSwitch(sw) /\ sw.start \in 0 .. Hours - 1
  /\ swTaken \in [Point -> 0 .. 1] /\ signalled \subseteq Point
  /\ mode # "SWITCH" => sw.phase = "IDLE"
  /\ sw.phase = "STARTUP" => swTaken = [i \in Point |-> 0] /\ signalled = {}
  /\ sw.phase = "CYCLING" => \A i \in Point : swTaken[i] = 1 <=> i \in sw.done

\* What was triggered or sampled was signalled.
Sound ==
  Cycle < 2 * Hours => /\ sw.triggered \subseteq signalled
                       /\ \A i \in Point : swTaken[i] = 1 => i \in signalled

\* What was signalled was sampled or is triggered.
Latched ==
  sw.phase = "CYCLING" /\ Switch!CycleEnd <= Day =>
    \A i \in signalled : Switch!At(sw, i) > 0 => i \in sw.done \cup sw.triggered

\* After a poll, nothing that could be sampled is left.
Quiet ==
  Switch!Cycling /\ polled /\ ~sampling =>
    sw.idx = Switch!CycleIndex(sw.start) /\ Switch!Open(sw) \cap sw.triggered = {}

SwitchInv == SwitchOK /\ Sound /\ Latched /\ Quiet

\* The windows of the switch mode, by the clock's facts.
LEMMA WindowFact ==
  ASSUME now \in 0 .. Day - 1, NEW t, t.start \in 0 .. Hours - 1,
         t.idx = Switch!CycleIndex(t.start), NEW i \in Point
  PROVE  /\ Cycle < 2 * Hours /\ Switch!InWindow(Switch!At(t, i)) => Switch!TrueWindow(t, i)
         /\ Switch!CycleBase(t.start, t.idx + 1) <= Day /\ Switch!TrueWindow(t, i)
              => Switch!InWindow(Switch!At(t, i))
<1> DEFINE h == 6 * t.start
           e == Switch!Elapsed(t.start)
           b == 3 * t.idx * Cycle
           q == 3 * i * Interval
<1>1. e = Elapsed(t.start) /\ t.idx = CycleIndex(t.start)
  BY DEF Switch!Elapsed, Elapsed, Switch!CycleIndex, CycleIndex, Switch!Day, Day
<1>2. q \in Nat /\ h \in Nat /\ b \in Nat /\ t.idx \in Nat
  BY <1>1, ClockTypes, ElapsedFact
<1>3. Switch!At(t, i) = h + b + q
  BY DEF Switch!At, Switch!SampleAt, Switch!CycleBase
<1>4. Switch!InWindow(Switch!At(t, i)) <=> now \in {h + b + q - 1, h + b + q}
  <2> DEFINE at == Switch!At(t, i)
  <2>1. Switch!InWindow(at) <=> now \in {at - 1, at}
    BY DEF Switch!InWindow
  <2>2. at = h + b + q
    BY <1>3
  <2> HIDE DEF at, h, b, q
  <2>3. now \in {at - 1, at} <=> now \in {h + b + q - 1, h + b + q}
    BY <1>2, <2>2
  <2> QED
    BY <2>1, <2>3 DEF at
<1>5. Switch!TrueWindow(t, i) <=> e - b \in {q - 1, q}
  BY DEF Switch!TrueWindow
<1>6. Switch!CycleBase(t.start, t.idx + 1) = h + b + 3 * Cycle
  <2>1. 3 * (t.idx + 1) * Cycle = 3 * t.idx * Cycle + 3 * Cycle
    BY <1>2, ClockAssumption
  <2> QED
    BY <1>2, <2>1, ClockAssumption DEF Switch!CycleBase
<1>7. /\ Cycle < 2 * Hours /\ now \in {h + b + q - 1, h + b + q} => e - b \in {q - 1, q}
      /\ h + b + 3 * Cycle <= Day /\ e - b \in {q - 1, q}
           => now \in {h + b + q - 1, h + b + q}
  <2> HIDE DEF q
  <2> QED
    BY <1>1, <1>2, ClockFact
<1> HIDE DEF h, e, b, q
<1> QED
  BY <1>4, <1>5, <1>6, <1>7

LEMMA SwitchInit == SchedInit => SwitchInv
<1> SUFFICES ASSUME SchedInit PROVE SwitchInv
  OBVIOUS
<1>1. /\ sw = Switch!Fresh /\ swTaken = Switch!NoneTaken /\ signalled = {}
      /\ now \in 0 .. Day - 1 /\ polled = FALSE
  BY DEF SchedInit, Switch!Init, Init, ClockInit
<1>2. sw = [phase |-> "IDLE", bucket |-> 0, start |-> 0, idx |-> 0, done |-> {}, triggered |-> {}]
  BY <1>1 DEF Switch!Fresh
<1>3. swTaken = [i \in Point |-> 0]
  BY <1>1 DEF Switch!NoneTaken, Switch!Point, Point, Switch!SampleCount, SampleCount, Switch!MaxPoints, MaxPoints
<1>4. 0 \in 0 .. Hours - 1
  BY ClockTypes
<1>5. sw.phase = "IDLE" /\ sw.triggered = {}
  BY <1>2
<1>6. SwitchOK
  BY <1>1, <1>2, <1>3, <1>4 DEF SwitchOK, IsSwitch
<1>7. Sound /\ Latched /\ Quiet
  BY <1>1, <1>3, <1>5 DEF Sound, Latched, Quiet
<1> QED
  BY <1>6, <1>7 DEF SwitchInv

\* Steps that leave the switch mode's part of the state alone.
LEMMA SwitchAside ==
  ASSUME SwitchInv, UNCHANGED <<mode, sw, swTaken, signalled>>, now' \in 0 .. Day - 1,
         sw.phase = "CYCLING" /\ running' /\ polled' /\ ~sampling'
           => running /\ polled /\ ~sampling /\ now' = now
  PROVE  SwitchInv'
<1>1. SwitchOK'
  BY DEF SwitchInv, SwitchOK, IsSwitch
<1>2. Sound'
  BY DEF SwitchInv, Sound
<1>3. Latched'
  <2>1. Switch!CycleEnd' = Switch!CycleEnd
    BY DEF Switch!CycleEnd, Switch!CycleBase
  <2>2. ASSUME NEW i PROVE Switch!At(sw, i)' = Switch!At(sw, i)
    BY DEF Switch!At, Switch!SampleAt, Switch!CycleBase
  <2> QED
    BY <2>1, <2>2 DEF SwitchInv, Latched, Switch!Day, Day
<1>4. Quiet'
  <2> SUFFICES ASSUME Switch!Cycling', polled', ~sampling'
               PROVE  (sw.idx = Switch!CycleIndex(sw.start) /\ Switch!Open(sw) \cap sw.triggered = {})'
    BY DEF Quiet
  <2>1. Switch!Cycling /\ polled /\ ~sampling /\ now' = now
    BY DEF Switch!Cycling
  <2>2. sw.idx = Switch!CycleIndex(sw.start) /\ Switch!Open(sw) \cap sw.triggered = {}
    BY <2>1 DEF SwitchInv, Quiet
  <2>3. Switch!CycleIndex(sw.start)' = Switch!CycleIndex(sw.start)
    BY <2>1 DEF Switch!CycleIndex, Switch!Elapsed
  <2>4. Switch!Open(sw)' = Switch!Open(sw)
    BY <2>1 DEF Switch!Open, Switch!At, Switch!SampleAt, Switch!CycleBase,
                Switch!InSwitchWindow, Switch!InWindow
  <2> QED
    BY <2>2, <2>3, <2>4
<1> QED
  BY <1>1, <1>2, <1>3, <1>4 DEF SwitchInv

LEMMA PointFact == Switch!Point = Point /\ Switch!NoneTaken = [i \in Point |-> 0]
  BY DEF Switch!Point, Point, Switch!SampleCount, SampleCount, Switch!MaxPoints,
         MaxPoints, Switch!NoneTaken

\* The instant stays within the day, whatever the mode.
LEMMA NowFact ==
  ASSUME now \in 0 .. Day - 1, [scheduler_run]_allVars
  PROVE  now' \in 0 .. Day - 1
<1>1. now' = now \/ now' = (now + 1) % Day
  <2>1. CASE TimeProportional
    BY <2>1 DEF TimeProportional, Next, PollStartup, PollCycling, Polled, scheduler_start,
                scheduler_stop, Switched, Environment, Tick, SampEnds, HandStart
  <2>2. CASE Timed
    BY <2>2 DEF Timed, Day, Fixed!Day, Fixed!Next, Fixed!PollStartup, Fixed!PollCycling,
                Fixed!Polled, Fixed!scheduler_start, Fixed!scheduler_stop, Fixed!Switched,
                Fixed!Environment, Fixed!Tick, Fixed!SampEnds, Fixed!HandStart
  <2>3. CASE FlowTriggered
    <3>1. Flow!Poll => now' = now
      BY DEF Flow!Poll, Flow!PollStopped, Flow!PollCycling, Flow!PollStartup, Flow!PollWaits,
         Flow!Polled
    <3> QED
      BY <2>3, <3>1 DEF FlowTriggered, Day, Flow!Day, Flow!Next, Flow!FlowRises,
                Flow!FlowFalls, Flow!PollOther,
                Flow!Polled, Flow!scheduler_start, Flow!scheduler_stop, Flow!Switched,
                Flow!Environment, Flow!Tick, Flow!SampEnds, Flow!HandStart
  <2>4. CASE SwitchTriggered
    BY <2>4 DEF SwitchTriggered, Day, Switch!Day, Switch!Next, Switch!PollStartup,
                Switch!PollCycling, Switch!Polled, Switch!scheduler_start,
                Switch!scheduler_stop, Switch!Switched, Switch!Pin,
                Switch!Environment, Switch!Tick, Switch!SampEnds, Switch!HandStart
  <2>5. CASE Commanded \/ UNCHANGED allVars
    BY <2>5 DEF Commanded, allVars, clock
  <2> QED
    BY <2>1, <2>2, <2>3, <2>4, <2>5 DEF scheduler_run
<1>2. (now + 1) % Day \in 0 .. Day - 1
  BY ClockTypes
<1> QED
  BY <1>1, <1>2

\* What the handler's parts leave of the structure.
LEMMA EnteredFact ==
  ASSUME IsSwitch(sw)
  PROVE  LET t == Switch!EnterCycle(sw)
         IN /\ IsSwitch(t) /\ t.phase = sw.phase /\ t.start = sw.start
            /\ t.idx = Switch!CycleIndex(sw.start)
            /\ Switch!CycleIndex(sw.start) = sw.idx => t = sw
            /\ Switch!CycleIndex(sw.start) # sw.idx => t.done = {} /\ t.triggered = {}
  BY DEF Switch!EnterCycle, IsSwitch

LEMMA TriggeredFact ==
  ASSUME NEW t, IsSwitch(t)
  PROVE  LET a == Switch!Trigger(t)
         IN /\ IsSwitch(a) /\ a.phase = t.phase /\ a.start = t.start
            /\ a.idx = t.idx /\ a.done = t.done
            /\ a.triggered = IF low THEN t.triggered \cup Switch!Open(t) ELSE t.triggered
<1>1. CASE low
  <2>1. Switch!Trigger(t) = [t EXCEPT !.triggered = @ \cup Switch!Open(t)]
    BY <1>1 DEF Switch!Trigger
  <2> QED
    BY <1>1, <2>1 DEF IsSwitch
<1>2. CASE ~low
  <2>1. Switch!Trigger(t) = [t EXCEPT !.triggered = @]
    BY <1>2 DEF Switch!Trigger
  <2> QED
    BY <1>2, <2>1 DEF IsSwitch
<1> QED
  BY <1>1, <1>2

LEMMA SwitchPoll ==
  ASSUME SwitchInv, Switch!PollCycling, mode = "SWITCH", mode' = mode
  PROVE  SwitchInv'
<1> DEFINE t == Switch!EnterCycle(sw)
           a == Switch!Trigger(t)
           taking == Switch!Started(a)
           entered == Switch!CycleIndex(sw.start) # sw.idx
           before == IF entered THEN [i \in Point |-> 0] ELSE swTaken
           heard == IF entered THEN {} ELSE signalled
<1>1. /\ running /\ sw.phase = "CYCLING"
      /\ sw' = [a EXCEPT !.done = @ \cup taking]
      /\ swTaken' = [i \in Point |-> before[i] + IF i \in taking THEN 1 ELSE 0]
      /\ signalled' = IF low THEN heard \cup {i \in Point : Switch!TrueWindow(a, i)} ELSE heard
      /\ now' = now /\ running' = running
      /\ sampling' = (sampling \/ taking # {})
  BY PointFact DEF Switch!PollCycling, Switch!Polled
<1>2. /\ IsSwitch(t) /\ t.phase = sw.phase /\ t.start = sw.start
      /\ t.idx = Switch!CycleIndex(sw.start)
      /\ ~entered => t.done = sw.done /\ t.triggered = sw.triggered /\ t.idx = sw.idx
      /\ entered => t.done = {} /\ t.triggered = {}
  BY EnteredFact DEF SwitchInv, SwitchOK
<1>3. /\ IsSwitch(a) /\ a.phase = t.phase /\ a.start = t.start
      /\ a.idx = t.idx /\ a.done = t.done
      /\ a.triggered = IF low THEN t.triggered \cup Switch!Open(t) ELSE t.triggered
  <2> HIDE DEF t
  <2> QED
    BY <1>2, TriggeredFact
<1>4. now \in 0 .. Day - 1 /\ sw.start \in 0 .. Hours - 1
  BY DEF SwitchInv, SwitchOK
<1> HIDE DEF t, a, entered
<1>5. ASSUME NEW i
      PROVE  Switch!At(a, i) = Switch!At(t, i)
  BY <1>3 DEF Switch!At
<1>6. Switch!Open(a) = Switch!Open(t)
  BY <1>3, <1>5 DEF Switch!Open
<1>7. Switch!Open(t) \subseteq Point /\ Switch!Open(t) \cap t.done = {}
  BY PointFact DEF Switch!Open
<1>8. taking \subseteq Switch!Open(t) /\ taking \subseteq a.triggered
  BY <1>6 DEF Switch!Started
<1>9. ASSUME NEW i \in Point
      PROVE  /\ i \in Switch!Open(t) <=> i \notin t.done /\ Switch!At(t, i) > 0
                                          /\ Switch!InWindow(Switch!At(t, i))
             /\ Cycle < 2 * Hours /\ Switch!InWindow(Switch!At(t, i)) => Switch!TrueWindow(a, i)
             /\ Switch!CycleBase(a.start, a.idx + 1) <= Day /\ Switch!TrueWindow(a, i)
                  => Switch!InWindow(Switch!At(t, i))
  <2>1. a.start \in 0 .. Hours - 1 /\ a.idx = Switch!CycleIndex(a.start)
    BY <1>2, <1>3, <1>4
  <2>2. /\ Cycle < 2 * Hours /\ Switch!InWindow(Switch!At(a, i)) => Switch!TrueWindow(a, i)
        /\ Switch!CycleBase(a.start, a.idx + 1) <= Day /\ Switch!TrueWindow(a, i)
             => Switch!InWindow(Switch!At(a, i))
    BY <1>4, <2>1, WindowFact
  <2>3. i \in Switch!Open(t) <=> i \notin t.done /\ Switch!At(t, i) > 0
                                          /\ Switch!InWindow(Switch!At(t, i))
    BY PointFact DEF Switch!Open, Switch!InSwitchWindow
  <2> QED
    BY <1>5, <2>2, <2>3
<1>10. /\ IsSwitch(sw') /\ sw'.phase = "CYCLING" /\ sw'.start = sw.start
       /\ sw'.idx = a.idx /\ sw'.done = t.done \cup taking /\ sw'.triggered = a.triggered
  <2> HIDE DEF taking
  <2> QED
    BY <1>1, <1>2, <1>3 DEF IsSwitch
<1>11. /\ before \in [Point -> 0 .. 1]
       /\ \A i \in Point : before[i] = 1 <=> i \in t.done
       /\ heard \subseteq Point
  BY <1>1, <1>2 DEF SwitchInv, SwitchOK
<1> HIDE DEF taking, before, heard
<1>12. ASSUME NEW i \in Point
       PROVE  /\ swTaken'[i] = IF i \in taking THEN 1 ELSE before[i]
              /\ swTaken'[i] \in 0 .. 1
              /\ swTaken'[i] = 1 <=> i \in sw'.done
  <2>1. i \in taking => before[i] = 0
    BY <1>7, <1>8, <1>11
  <2>2. swTaken'[i] = before[i] + IF i \in taking THEN 1 ELSE 0
    BY <1>1
  <2> QED
    BY <1>10, <1>11, <2>1, <2>2
<1>13. signalled' \subseteq Point /\ swTaken' \in [Point -> 0 .. 1]
  BY <1>1, <1>11, <1>12
<1>14. SwitchOK'
  BY <1>1, <1>4, <1>10, <1>12, <1>13 DEF SwitchOK
<1>15. Sound'
  <2> SUFFICES ASSUME Cycle < 2 * Hours
               PROVE  /\ sw'.triggered \subseteq signalled'
                      /\ \A i \in Point : swTaken'[i] = 1 => i \in signalled'
    BY DEF Sound
  <2>1. t.triggered \subseteq heard /\ \A i \in Point : before[i] = 1 => i \in heard
    BY <1>2 DEF before, heard, SwitchInv, Sound
  <2>2. low => Switch!Open(t) \subseteq {i \in Point : Switch!TrueWindow(a, i)}
    BY <1>7, <1>9
  <2>3. a.triggered \subseteq signalled' /\ heard \subseteq signalled'
    BY <1>1, <1>3, <2>1, <2>2
  <2> QED
    BY <1>8, <1>10, <1>12, <2>1, <2>3
<1>16. Latched'
  <2> SUFFICES ASSUME Switch!CycleEnd' <= Day, NEW i \in signalled', Switch!At(sw, i)' > 0
               PROVE  i \in sw'.done \cup sw'.triggered
    BY DEF Latched, Day
  <2>1. Switch!CycleEnd' = Switch!CycleBase(a.start, a.idx + 1)
    BY <1>2, <1>3, <1>10 DEF Switch!CycleEnd, Switch!CycleBase
  <2>2. Switch!At(sw, i)' = Switch!At(t, i)
    BY <1>2, <1>3, <1>10 DEF Switch!At, Switch!SampleAt, Switch!CycleBase
  <2>3. CASE i \in heard
    <3>1. ~entered /\ i \in signalled
      BY <2>3 DEF heard
    <3>2. t.idx = sw.idx /\ t.start = sw.start
      BY <1>2, <3>1
    <3>3. Switch!CycleEnd <= Day /\ Switch!At(sw, i) > 0
      BY <1>3, <2>1, <2>2, <3>2 DEF Switch!CycleEnd, Switch!At
    <3>4. i \in sw.done \cup sw.triggered
      BY <1>1, <3>1, <3>3 DEF SwitchInv, Latched
    <3> QED
      BY <1>2, <1>3, <1>10, <3>1, <3>4
  <2>4. CASE i \notin heard
    <3>1. low /\ i \in Point /\ Switch!TrueWindow(a, i)
      BY <1>1, <2>4
    <3>2. i \in t.done \/ i \in Switch!Open(t)
      BY <1>9, <2>1, <2>2, <3>1
    <3> QED
      BY <1>3, <1>10, <3>1, <3>2
  <2> QED
    BY <2>3, <2>4
<1>17. Quiet'
  <2> SUFFICES ASSUME ~sampling'
               PROVE  (sw.idx = Switch!CycleIndex(sw.start) /\ Switch!Open(sw) \cap sw.triggered = {})'
    BY DEF Quiet
  <2>1. ~sampling /\ taking = {}
    BY <1>1
  <2>2. Switch!CycleIndex(sw.start)' = Switch!CycleIndex(sw.start)
    BY <1>1, <1>10 DEF Switch!CycleIndex, Switch!Elapsed
  <2>3. Switch!Open(sw)' = Switch!Open(t)
    BY <1>1, <1>2, <1>3, <1>10, <2>1
    DEF Switch!Open, Switch!At, Switch!SampleAt, Switch!CycleBase,
        Switch!InSwitchWindow, Switch!InWindow
  <2>4. Switch!Open(t) \cap a.triggered = {}
    BY <1>6, <2>1 DEF taking, Switch!Started
  <2> QED
    BY <1>2, <1>3, <1>10, <2>2, <2>3, <2>4
<1> QED
  BY <1>14, <1>15, <1>16, <1>17 DEF SwitchInv

LEMMA SwitchNext == SwitchInv /\ [scheduler_run]_allVars => SwitchInv'
<1> SUFFICES ASSUME SwitchInv, [scheduler_run]_allVars PROVE SwitchInv'
  OBVIOUS
<1>0. now \in 0 .. Day - 1 /\ now' \in 0 .. Day - 1
  BY NowFact DEF SwitchInv, SwitchOK
<1>1. CASE SwitchTriggered
  <2>0. mode = "SWITCH" /\ mode' = mode
    BY <1>1 DEF SwitchTriggered
  <2>1. CASE Switch!PollStartup
    <3>1. /\ sw.phase = "STARTUP" /\ UNCHANGED <<swTaken, signalled, now>>
          /\ sw' = IF low THEN Switch!FirstTrigger ELSE sw
          /\ polled' = ~low
      BY <2>1 DEF Switch!PollStartup
    <3>2. swTaken = [i \in Point |-> 0] /\ signalled = {}
      BY <3>1 DEF SwitchInv, SwitchOK
    <3>3. CASE low
      <4>1. /\ IsSwitch(sw') /\ sw'.phase = "CYCLING" /\ sw'.done = {}
            /\ sw'.start = (Switch!Hour + 2) % Hours /\ sw'.triggered = sw.triggered
        BY <3>1, <3>3 DEF Switch!FirstTrigger, SwitchInv, SwitchOK, IsSwitch
      <4>2. sw'.start \in 0 .. Hours - 1
        <5>1. Switch!Hour \in Nat
          BY <1>0, ClockTypes DEF Switch!Hour
        <5> QED
          BY <4>1, <5>1, ClockTypes
      <4>3. SwitchOK'
        BY <1>0, <2>0, <3>1, <3>2, <4>1, <4>2 DEF SwitchOK
      <4>4. Sound'
        BY <3>1, <3>2, <4>1 DEF Sound, SwitchInv
      <4>5. Latched' /\ Quiet'
        BY <3>1, <3>2, <3>3 DEF Latched, Quiet
      <4> QED
        BY <4>3, <4>4, <4>5 DEF SwitchInv
    <3>4. CASE ~low
      BY <1>0, <2>0, <3>1, <3>4, SwitchAside
    <3> QED
      BY <3>3, <3>4
  <2>2. CASE Switch!PollCycling
    BY <2>0, <2>2, SwitchPoll
  <2>3. CASE Switch!scheduler_start
    <3>1. /\ sw' = [Switch!Fresh EXCEPT !.phase = "STARTUP"]
          /\ swTaken' = [i \in Point |-> 0] /\ signalled' = {}
      BY <2>3, PointFact DEF Switch!scheduler_start
    <3>2. /\ IsSwitch(sw') /\ sw'.phase = "STARTUP" /\ sw'.done = {} /\ sw'.triggered = {}
          /\ sw'.start = 0
      BY <3>1 DEF Switch!Fresh, IsSwitch
    <3>3. SwitchOK'
      BY <1>0, <2>0, <3>1, <3>2, ClockTypes DEF SwitchOK
    <3> QED
      BY <3>1, <3>2, <3>3 DEF SwitchInv, Sound, Latched, Quiet, Switch!Cycling
  <2>4. CASE Switch!scheduler_stop
    <3>1. sw' = [sw EXCEPT !.phase = "IDLE"] /\ UNCHANGED <<swTaken, signalled>>
      BY <2>4 DEF Switch!scheduler_stop
    <3>2. /\ IsSwitch(sw') /\ sw'.phase = "IDLE" /\ sw'.done = sw.done
          /\ sw'.triggered = sw.triggered /\ sw'.start = sw.start
      BY <3>1 DEF SwitchInv, SwitchOK, IsSwitch
    <3>3. SwitchOK'
      BY <1>0, <2>0, <3>1, <3>2 DEF SwitchInv, SwitchOK
    <3> QED
      BY <3>1, <3>2, <3>3 DEF SwitchInv, Sound, Latched, Quiet, Switch!Cycling
  <2>5. CASE Switch!Pin \/ Switch!Environment
    <3>1. UNCHANGED <<sw, swTaken, signalled, running>>
      BY <2>5 DEF Switch!Pin, Switch!Environment, Switch!Tick, Switch!SampEnds, Switch!HandStart
    <3>2. polled' /\ ~sampling' => polled /\ ~sampling /\ now' = now
      BY <2>5 DEF Switch!Pin, Switch!Environment, Switch!Tick, Switch!SampEnds, Switch!HandStart
    <3> QED
      BY <1>0, <2>0, <3>1, <3>2, SwitchAside
  <2> QED
    BY <1>1, <2>1, <2>2, <2>3, <2>4, <2>5 DEF SwitchTriggered, Switch!Next
<1>2. CASE mode # "SWITCH" /\ UNCHANGED <<mode, switchVars>>
  <2>1. sw.phase = "IDLE"
    BY <1>2 DEF SwitchInv, SwitchOK
  <2> QED
    BY <1>0, <1>2, <2>1, SwitchAside DEF switchVars
<1>3. CASE UNCHANGED allVars
  BY <1>0, <1>3, SwitchAside DEF allVars, switchVars, clock
<1>4. TimeProportional \/ Timed \/ FlowTriggered \/ Commanded
        => mode # "SWITCH" /\ UNCHANGED <<mode, switchVars>>
  BY DEF TimeProportional, Timed, FlowTriggered, Commanded
<1> QED
  BY <1>1, <1>2, <1>3, <1>4 DEF scheduler_run

(***************************************************************************)
(* In switch mode, whatever the pin and the operator do: no sample without *)
(* a signal in the point's window of this very cycle, and no two for one   *)
(* point (sched_switch).  For cycles shorter than the day: in a cycle of   *)
(* 24 hours the time before the anchor hour is in the first window, but at *)
(* the end of the cycle.                                                   *)
(***************************************************************************)
THEOREM SignalSafe ==
  ASSUME Cycle < 2 * Hours
  PROVE  SchedSpec => []SampledOnSignal
<1>1. SwitchInv => SampledOnSignal
  <2> SUFFICES ASSUME SwitchInv, NEW i \in Point
               PROVE  swTaken[i] <= 1 /\ (swTaken[i] = 1 => i \in signalled)
    BY PointFact DEF SampledOnSignal, Switch!SampledOnSignal
  <2>1. swTaken[i] \in 0 .. 1 /\ (swTaken[i] = 1 => i \in signalled)
    BY DEF SwitchInv, SwitchOK, Sound
  <2> QED
    BY <2>1
<1> QED
  BY <1>1, SwitchInit, SwitchNext, PTL DEF SchedSpec

(***************************************************************************)
(* A signal seen in its window is not lost to a busy sampling line: it is  *)
(* latched, and the sample taken while the window lasts (sched_switch).    *)
(***************************************************************************)
THEOREM SignalKept == SchedSpec => []SignalLatched
<1>1. SwitchInv => SignalLatched
  <2> SUFFICES ASSUME SwitchInv, Switch!Cycling, polled, ~sampling, Switch!CycleEnd <= Day,
                      NEW i \in signalled, Switch!At(sw, i) > 0, Switch!TrueWindow(sw, i)
               PROVE  swTaken[i] = 1
    BY DEF SignalLatched, Switch!SignalLatched, Switch!Day, Day
  <2>1. i \in Point /\ now \in 0 .. Day - 1 /\ sw.start \in 0 .. Hours - 1
    BY DEF SwitchInv, SwitchOK
  <2>2. sw.idx = Switch!CycleIndex(sw.start) /\ Switch!Open(sw) \cap sw.triggered = {}
    BY DEF SwitchInv, Quiet
  <2>3. Switch!InWindow(Switch!At(sw, i))
    BY <2>1, <2>2, WindowFact DEF Switch!CycleEnd
  <2>4. i \in sw.done \/ i \in Switch!Open(sw)
    BY <2>1, <2>3, PointFact DEF Switch!Open, Switch!InSwitchWindow
  <2>5. i \in sw.done \cup sw.triggered
    BY DEF SwitchInv, Latched, Switch!Cycling
  <2> QED
    BY <2>1, <2>2, <2>4, <2>5 DEF SwitchInv, SwitchOK, Switch!Cycling
<1> QED
  BY <1>1, SwitchInit, SwitchNext, PTL DEF SchedSpec

-----------------------------------------------------------------------------
(* The delivery hours of the timed mode *)

FixedOK(t) ==
  t \in [phase : {"IDLE", "STARTUP", "CYCLING"}, bucket : {0, 1},
         hour : 0 .. Hours - 1, done : SUBSET Point]

FixedInv == now \in 0 .. Day - 1 /\ FixedOK(ft) /\ fired \in BOOLEAN

LEMMA FixedPoint == Fixed!Point = Point /\ Fixed!Day = Day
  BY DEF Fixed!Point, Point, Fixed!SampleCount, SampleCount, Fixed!MaxPoints, MaxPoints,
         Fixed!Day, Day

\* The least of a set of delivery hours.
LEMMA LeastHour ==
  ASSUME NEW H \in SUBSET FixedHours, H # {}
  PROVE  Fixed!FirstHour(H) \in H /\ \A h \in H : Fixed!FirstHour(H) <= h
<1>1. H \in SUBSET (0 .. Hours - 1) /\ Hours - 1 \in Int
  BY ModesAssumption, ClockTypes
<1>2. Fixed!FirstHour(H) = Min(H)
  BY DEF Fixed!FirstHour, Fixed!Min, Min
<1>3. Min(H) \in H /\ \A h \in H : Min(H) <= h
  BY <1>1, MinFact
<1> QED
  BY <1>2, <1>3

LEMMA AnHour ==
  ASSUME NEW H \in SUBSET FixedHours
  PROVE  Fixed!FirstHour(H) \in 0 .. Hours - 1
<1>1. CASE H # {}
  BY <1>1, LeastHour, ModesAssumption
<1>2. CASE H = {} /\ FixedHours # {}
  <2>1. Fixed!FirstHour(H) = Fixed!FirstHour(FixedHours)
    BY <1>2 DEF Fixed!FirstHour
  <2> QED
    BY <1>2, <2>1, LeastHour, ModesAssumption
<1>3. CASE H = {} /\ FixedHours = {}
  BY <1>3, ClockTypes DEF Fixed!FirstHour
<1> QED
  BY <1>1, <1>2, <1>3

\* The time to today's delivery of hour h, negative when it has been.
Left(h) == 6 * h + FixedMin - now

\* A delivery still to come today comes before tomorrow's.
LEMMA AheadFact ==
  ASSUME now \in 0 .. Day - 1, NEW h \in FixedHours
  PROVE  Fixed!Ahead(h) = IF Left(h) > 0 THEN Left(h) - 1 ELSE Left(h) + Day - 1
<1> DEFINE d == Left(h)
           y == Day
<1>1. y \in Nat \ {0} /\ d \in Int /\ d > -y /\ d < y
  BY ClockTypes, ModesAssumption DEF Left
<1>2. Fixed!Ahead(h) = (d + y - 1) % y
  BY FixedPoint DEF Fixed!Ahead, Left
<1> HIDE DEF d, y
<1>3. CASE d > 0
  <2>1. d + y - 1 = 1 * y + (d - 1) /\ d - 1 \in 0 .. y - 1
    BY <1>1, <1>3
  <2>2. (d + y - 1) % y = d - 1
    BY <1>1, <2>1, SMTT(30)
  <2> QED
    BY <1>2, <1>3, <2>2 DEF d, y
<1>4. CASE ~(d > 0)
  <2>1. d + y - 1 \in 0 .. y - 1
    BY <1>1, <1>4
  <2>2. (d + y - 1) % y = d + y - 1
    BY <1>1, <2>1, SMTT(30)
  <2> QED
    BY <1>2, <1>4, <2>2 DEF d, y
<1> QED
  BY <1>3, <1>4

\* The hour the start chooses is the nearest to come.
LEMMA NearestFact ==
  ASSUME now \in 0 .. Day - 1, FixedHours # {}, NEW past \in {now - 1, now}
  PROVE  /\ Fixed!Nearest(past) \in FixedHours
         /\ \/ past # now /\ 6 * Fixed!Nearest(past) + FixedMin = now
            \/ \A h \in FixedHours : Fixed!Ahead(Fixed!Nearest(past)) <= Fixed!Ahead(h)
<1> DEFINE H == {h \in FixedHours : 6 * h + FixedMin > past}
           n == Fixed!Nearest(past)
<1>1. n = Fixed!FirstHour(H)
  BY DEF Fixed!Nearest
<1>2. n \in FixedHours /\ (H # {} => n \in H /\ \A h \in H : n <= h)
                       /\ (H = {} => \A h \in FixedHours : n <= h)
  <2>1. CASE H # {}
    BY <1>1, <2>1, LeastHour
  <2>2. CASE H = {}
    <3>1. n = Fixed!FirstHour(FixedHours)
      BY <1>1, <2>2 DEF Fixed!FirstHour
    <3> HIDE DEF n
    <3> QED
      BY <2>2, <3>1, LeastHour
  <2> QED
    BY <2>1, <2>2
<1> HIDE DEF n
<1>3. ASSUME ~(past # now /\ 6 * n + FixedMin = now), NEW h \in FixedHours
      PROVE  Fixed!Ahead(n) <= Fixed!Ahead(h)
  <2>1. h \in 0 .. Hours - 1 /\ n \in 0 .. Hours - 1 /\ FixedMin \in 0 .. 4
    BY <1>2, ModesAssumption
  <2>2. /\ Fixed!Ahead(n) = IF Left(n) > 0 THEN Left(n) - 1 ELSE Left(n) + Day - 1
        /\ Fixed!Ahead(h) = IF Left(h) > 0 THEN Left(h) - 1 ELSE Left(h) + Day - 1
    BY <1>2, AheadFact
  <2>3. /\ 6 * n + FixedMin > now => (6 * h + FixedMin > now => n <= h)
        /\ ~(6 * n + FixedMin > now) => ~(6 * h + FixedMin > now) /\ n <= h
    BY <1>2, <1>3, <2>1
  <2> QED
    BY <2>1, <2>2, <2>3, ClockTypes DEF Left
<1> QED
  BY <1>2, <1>3 DEF n

LEMMA FixedFresh == FixedOK(Fixed!Fresh)
<1>1. 0 \in 0 .. Hours - 1
  BY ClockTypes
<1> QED
  BY <1>1 DEF FixedOK, Fixed!Fresh

LEMMA FixedInit == SchedInit => FixedInv
<1> SUFFICES ASSUME SchedInit PROVE FixedInv
  OBVIOUS
<1>1. FixedOK(Fixed!Fresh)
  BY FixedFresh
<1>2. ft = Fixed!Fresh /\ fired = FALSE /\ now \in 0 .. Day - 1
  BY DEF SchedInit, Fixed!Init, Init, ClockInit
<1> QED
  BY <1>1, <1>2 DEF FixedInv

LEMMA FixedDelivery ==
  ASSUME FixedInv, NEW t, FixedOK(t)
  PROVE  FixedOK(Fixed!Delivery(t))
<1> DEFINE n == Fixed!NextHour(t.hour)
           b == 1 - t.bucket
<1>1. n \in 0 .. Hours - 1 /\ b \in {0, 1}
  <2>1. t.bucket \in {0, 1}
    BY DEF FixedOK
  <2>2. n \in 0 .. Hours - 1
    BY AnHour DEF Fixed!NextHour
  <2> QED
    BY <2>1, <2>2
<1>2. \/ Fixed!Delivery(t) = t
      \/ Fixed!Delivery(t) = [t EXCEPT !.bucket = b, !.done = {}, !.hour = n]
  BY DEF Fixed!Delivery
<1> HIDE DEF n, b
<1> QED
  BY <1>1, <1>2 DEF FixedOK

LEMMA FixedNext == FixedInv /\ [scheduler_run]_allVars => FixedInv'
<1> SUFFICES ASSUME FixedInv, [scheduler_run]_allVars PROVE FixedInv'
  OBVIOUS
<1>0. now' \in 0 .. Day - 1 /\ FixedOK(ft)
  BY NowFact DEF FixedInv
<1>1. ASSUME FixedOK(ft'), fired' \in BOOLEAN PROVE FixedInv'
  BY <1>0, <1>1 DEF FixedInv, FixedOK, Day, Point, SampleCount
<1>2. CASE Timed
  <2>1. CASE Fixed!PollCycling
    <3> DEFINE t == [ft EXCEPT !.done = @ \cup Fixed!Started(ft)]
    <3>1. (ft' = ft \/ ft' = Fixed!Delivery(t)) /\ fired' \in BOOLEAN
      BY <2>1 DEF Fixed!PollCycling
    <3>2. Fixed!Started(ft) \subseteq Point
      BY FixedPoint DEF Fixed!Started
    <3>3. FixedOK(t)
      BY <1>0, <3>2 DEF FixedOK
    <3>4. FixedOK(Fixed!Delivery(t))
      <4> HIDE DEF t
      <4> QED
        BY <3>3, FixedDelivery
    <3> QED
      BY <1>0, <1>1, <3>1, <3>4
  <2>2. CASE Fixed!PollStartup
    <3>0. PICK past \in Fixed!PastInstants :
            ft' = [ft EXCEPT !.hour = Fixed!Nearest(past), !.bucket = 0, !.done = {},
                             !.phase = "CYCLING"]
      BY <2>2 DEF Fixed!PollStartup
    <3> DEFINE n == Fixed!Nearest(past)
    <3>1. n \in 0 .. Hours - 1
      BY AnHour DEF Fixed!Nearest
    <3>2. ft' = [ft EXCEPT !.hour = n, !.bucket = 0, !.done = {}, !.phase = "CYCLING"]
          /\ fired' = FALSE
      BY <2>2, <3>0 DEF Fixed!PollStartup
    <3> HIDE DEF n
    <3>3. FixedOK(ft')
      BY <1>0, <3>1, <3>2 DEF FixedOK
    <3> QED
      BY <1>1, <3>2, <3>3
  <2>3. CASE Fixed!scheduler_start
    <3>1. ft' = [Fixed!Fresh EXCEPT !.phase = "STARTUP"] /\ fired' = FALSE
      BY <2>3 DEF Fixed!scheduler_start
    <3>2. FixedOK(ft')
      BY <3>1, FixedFresh DEF FixedOK
    <3> QED
      BY <1>1, <3>1, <3>2
  <2>4. CASE Fixed!scheduler_stop
    <3>1. ft' = [ft EXCEPT !.phase = "IDLE"] /\ fired' = FALSE
      BY <2>4 DEF Fixed!scheduler_stop
    <3>2. FixedOK(ft')
      BY <1>0, <3>1 DEF FixedOK
    <3> QED
      BY <1>1, <3>1, <3>2
  <2>5. CASE Fixed!Environment
    BY <1>0, <1>1, <2>5 DEF Fixed!Environment
  <2> QED
    BY <1>2, <2>1, <2>2, <2>3, <2>4, <2>5 DEF Timed, Fixed!Next
<1>3. CASE UNCHANGED fixedVars
  BY <1>0, <1>1, <1>3 DEF fixedVars, FixedInv
<1>4. TimeProportional \/ FlowTriggered \/ SwitchTriggered \/ Commanded \/ UNCHANGED allVars
        => UNCHANGED fixedVars
  BY DEF TimeProportional, FlowTriggered, SwitchTriggered, Commanded, allVars
<1> QED
  BY <1>2, <1>3, <1>4 DEF scheduler_run

(***************************************************************************)
(* Whatever hours are ticked, and whenever it is started: sched_fixed_time *)
(* begins with the delivery that comes next, be it tomorrow's first.       *)
(***************************************************************************)
THEOREM NextDelivery == SchedSpec => BeginsWithNext
<1>1. ASSUME FixedInv, [scheduler_run]_allVars, ft.phase = "STARTUP", ft'.phase = "CYCLING",
             FixedHours # {}
      PROVE  /\ ft'.hour \in FixedHours
             /\ \/ Fixed!Within /\ 6 * ft'.hour + FixedMin = now
                \/ \A h \in FixedHours : Fixed!Ahead(ft'.hour) <= Fixed!Ahead(h)
  <2>1. ft' # ft /\ Timed
    BY <1>1 DEF scheduler_run, TimeProportional, FlowTriggered, SwitchTriggered, Commanded,
                allVars, fixedVars
  <2>2. CASE Fixed!PollStartup
    <3>1. PICK past \in Fixed!PastInstants :
            ft' = [ft EXCEPT !.hour = Fixed!Nearest(past), !.bucket = 0, !.done = {},
                             !.phase = "CYCLING"]
      BY <2>2 DEF Fixed!PollStartup
    <3>2. ft'.hour = Fixed!Nearest(past)
      BY <1>1, <3>1 DEF FixedInv, FixedOK
    <3>3. past \in {now - 1, now} /\ (past # now => Fixed!Within)
      BY DEF Fixed!PastInstants
    <3>4. /\ Fixed!Nearest(past) \in FixedHours
          /\ \/ past # now /\ 6 * Fixed!Nearest(past) + FixedMin = now
             \/ \A h \in FixedHours : Fixed!Ahead(Fixed!Nearest(past)) <= Fixed!Ahead(h)
      BY <1>1, <3>3, NearestFact DEF FixedInv
    <3> QED
      BY <3>2, <3>3, <3>4
  <2>3. CASE Fixed!PollCycling
    BY <1>1, <2>3 DEF Fixed!PollCycling
  <2>4. CASE Fixed!scheduler_start
    BY <1>1, <2>4 DEF Fixed!scheduler_start, Fixed!Fresh
  <2>5. CASE Fixed!scheduler_stop
    BY <1>1, <2>5 DEF Fixed!scheduler_stop, FixedInv, FixedOK
  <2>6. CASE Fixed!Environment
    BY <2>1, <2>6 DEF Fixed!Environment
  <2> QED
    BY <2>1, <2>2, <2>3, <2>4, <2>5, <2>6 DEF Timed, Fixed!Next
<1>2. FixedInv /\ [scheduler_run]_allVars
        => (ft.phase = "STARTUP" /\ ft'.phase = "CYCLING" /\ FixedHours # {} =>
              /\ ft'.hour \in FixedHours
              /\ \/ Fixed!Within /\ 6 * ft'.hour + FixedMin = now
                 \/ \A h \in FixedHours : Fixed!Ahead(ft'.hour) <= Fixed!Ahead(h))
  BY <1>1
<1> QED
  BY <1>2, FixedInit, FixedNext, PTL DEF SchedSpec, BeginsWithNext, Fixed!BeginsWithNext

-----------------------------------------------------------------------------
(* The clock and the time-proportional mode, among the others *)

\* The instances have the clock of module SchedClock.
LEMMA SameClock ==
  /\ Fixed!Tick = Tick /\ Fixed!SampEnds = SampEnds /\ Fixed!HandStart = HandStart
  /\ Flow!Tick = Tick /\ Flow!SampEnds = SampEnds /\ Flow!HandStart = HandStart
  /\ Switch!Tick = Tick /\ Switch!SampEnds = SampEnds /\ Switch!HandStart = HandStart
  /\ Fixed!ClockTypeOK = ClockTypeOK /\ Flow!ClockTypeOK = ClockTypeOK
  /\ Switch!ClockTypeOK = ClockTypeOK
  BY DEF Fixed!Tick, Flow!Tick, Switch!Tick, Tick, Fixed!Day, Flow!Day, Switch!Day, Day,
         Fixed!SampEnds, Flow!SampEnds, Switch!SampEnds, SampEnds,
         Fixed!HandStart, Flow!HandStart, Switch!HandStart, HandStart,
         Fixed!ClockTypeOK, Flow!ClockTypeOK, Switch!ClockTypeOK, ClockTypeOK

ClockKept == polled' \in BOOLEAN /\ sampling' \in BOOLEAN /\ running' \in BOOLEAN

LEMMA ClockNext == ClockTypeOK /\ [scheduler_run]_allVars => ClockTypeOK'
<1> SUFFICES ASSUME ClockTypeOK, [scheduler_run]_allVars PROVE ClockTypeOK'
  OBVIOUS
<1>0. now' \in 0 .. Day - 1
  BY NowFact DEF ClockTypeOK
<1>1. Tick \/ SampEnds \/ HandStart => ClockKept
  BY DEF Tick, SampEnds, HandStart, ClockKept, ClockTypeOK
<1>2. ASSUME NEW busy \in BOOLEAN, Polled(busy) PROVE ClockKept
  BY <1>2 DEF Polled, ClockKept, ClockTypeOK
<1>3. ASSUME NEW on \in BOOLEAN, Switched(on) PROVE ClockKept
  BY <1>3 DEF Switched, ClockKept, ClockTypeOK
<1>4. ASSUME TimeProportional PROVE ClockKept
  <2>1. PollCycling => ClockKept
    BY DEF PollCycling, Polled, ClockKept, ClockTypeOK
  <2>2. PollStartup => ClockKept
    BY DEF PollStartup, ClockKept, ClockTypeOK
  <2> QED
    BY <1>1, <1>3, <1>4, <2>1, <2>2
    DEF TimeProportional, Next, scheduler_start, scheduler_stop, Environment
<1>5. ASSUME Timed PROVE ClockKept
  <2>1. Fixed!PollCycling => ClockKept
    BY DEF Fixed!PollCycling, Fixed!Polled, ClockKept, ClockTypeOK
  <2>2. Fixed!PollStartup => ClockKept
    BY DEF Fixed!PollStartup, ClockKept, ClockTypeOK
  <2>3. Fixed!scheduler_start \/ Fixed!scheduler_stop => ClockKept
    BY DEF Fixed!scheduler_start, Fixed!scheduler_stop, Fixed!Switched, ClockKept, ClockTypeOK
  <2> QED
    BY <1>1, <1>5, <2>1, <2>2, <2>3, SameClock DEF Timed, Fixed!Next, Fixed!Environment
<1>6. ASSUME FlowTriggered PROVE ClockKept
  <2>1. Flow!Poll \/ Flow!PollOther => ClockKept
    BY DEF Flow!Poll, Flow!PollOther, Flow!PollStopped, Flow!PollCycling, Flow!PollStartup, Flow!PollWaits,
           Flow!StartupSamples, Flow!Polled, ClockKept, ClockTypeOK
  <2>2. Flow!FlowRises \/ Flow!FlowFalls => ClockKept
    BY DEF Flow!FlowRises, Flow!FlowFalls, ClockKept, ClockTypeOK
  <2>3. Flow!scheduler_start \/ Flow!scheduler_stop => ClockKept
    BY DEF Flow!scheduler_start, Flow!scheduler_stop, Flow!Switched, ClockKept, ClockTypeOK
  <2> QED
    BY <1>1, <1>6, <2>1, <2>2, <2>3, SameClock DEF FlowTriggered, Flow!Next, Flow!Environment
<1>7. ASSUME SwitchTriggered PROVE ClockKept
  <2>1. Switch!PollCycling => ClockKept
    BY DEF Switch!PollCycling, Switch!Polled, ClockKept, ClockTypeOK
  <2>2. Switch!PollStartup \/ Switch!Pin => ClockKept
    BY DEF Switch!PollStartup, Switch!Pin, ClockKept, ClockTypeOK
  <2>3. Switch!scheduler_start \/ Switch!scheduler_stop => ClockKept
    BY DEF Switch!scheduler_start, Switch!scheduler_stop, Switch!Switched, ClockKept, ClockTypeOK
  <2> QED
    BY <1>1, <1>7, <2>1, <2>2, <2>3, SameClock
    DEF SwitchTriggered, Switch!Next, Switch!Environment
<1>8. ASSUME Commanded PROVE ClockKept
  <2>1. Comm!sched_comm => running' = running /\ (sampling' = sampling \/ sampling' = TRUE)
    BY DEF Comm!sched_comm, Comm!Sample, Comm!Drain, Comm!Drop
  <2>2. Comm!mb_write_single \/ Comm!Assign => running' = running /\ sampling' = sampling
    BY DEF Comm!mb_write_single, Comm!Assign
  <2>3. Comm!SampEnds \/ Comm!scheduler_start \/ Comm!scheduler_stop
          => sampling' \in {sampling, FALSE} /\ running' \in {running, TRUE, FALSE}
    BY DEF Comm!SampEnds, Comm!scheduler_start, Comm!scheduler_stop
  <2>4. polled' = polled
    BY <1>8 DEF Commanded
  <2> QED
    BY <1>8, <2>1, <2>2, <2>3, <2>4 DEF Commanded, Comm!Next, ClockKept, ClockTypeOK
<1>9. ASSUME UNCHANGED allVars PROVE ClockKept
  BY <1>9 DEF allVars, clock, ClockKept, ClockTypeOK
<1>10. ClockKept
  BY <1>4, <1>5, <1>6, <1>7, <1>8, <1>9 DEF scheduler_run
<1> QED
  BY <1>0, <1>10 DEF ClockKept, ClockTypeOK, Day

TimeInv ==
  IF mode = "TIME_PROP" THEN IInv /\ LostInv /\ TypeOK /\ (Cycle < 2 * Hours => EarlyInv)
  ELSE s = Fresh /\ taken = NoneTaken /\ seen = FALSE

LEMMA TimeInit == SchedInit => TimeInv
  BY InitIInv, LostInit, TypesInit, EarlyInit DEF SchedInit, TimeInv, Init

LEMMA TimeNext == TimeInv /\ [scheduler_run]_allVars => TimeInv'
<1> SUFFICES ASSUME TimeInv, [scheduler_run]_allVars PROVE TimeInv'
  OBVIOUS
<1>1. CASE mode = "TIME_PROP"
  <2>1. mode' = mode /\ [Next]_vars
    BY <1>1 DEF scheduler_run, TimeProportional, Timed, FlowTriggered, SwitchTriggered,
                Commanded, allVars, timeVars, vars
  <2>2. (IInv /\ LostInv /\ TypeOK)'
    BY <1>1, <2>1, NextIInv, LostNext, TypesNext DEF TimeInv
  <2>3. Cycle < 2 * Hours => EarlyInv'
    BY <1>1, <2>1, EarlyNext DEF TimeInv
  <2> QED
    BY <1>1, <2>1, <2>2, <2>3 DEF TimeInv
<1>2. CASE mode # "TIME_PROP"
  <2>1. mode' = mode /\ UNCHANGED timeVars
    BY <1>2 DEF scheduler_run, TimeProportional, Timed, FlowTriggered, SwitchTriggered,
                Commanded, allVars
  <2> QED
    BY <1>2, <2>1 DEF TimeInv, timeVars, Fresh, NoneTaken, Point, SampleCount
<1> QED
  BY <1>1, <1>2

-----------------------------------------------------------------------------
(* The types of the flow mode *)

FlowOK(t) ==
  t \in [mode : {"FLOW", "OTHER"}, phase : {"IDLE", "STARTUP", "CYCLING", "STOPPED"},
         flow : BOOLEAN, stopped : BOOLEAN, stage : 0 .. 2, bucket : {0, 1},
         start : 0 .. Hours - 1, idx : 0 .. 2 * Hours - 1, done : SUBSET Point]

LEMMA FlowPoint ==
  /\ Flow!Point = Point /\ Flow!Hour = Hour
  /\ \A h : Flow!CycleIndex(h) = CycleIndex(h)
  BY DEF Flow!Point, Point, Flow!SampleCount, SampleCount, Flow!MaxPoints, MaxPoints,
         Flow!Hour, Hour, Flow!CycleIndex, CycleIndex, Flow!Elapsed, Elapsed, Flow!Day, Day

LEMMA FlowFresh == ASSUME NEW m \in {"FLOW", "OTHER"} PROVE FlowOK(Flow!Fresh(m))
<1>1. 0 \in 0 .. Hours - 1 /\ 0 \in 0 .. 2 * Hours - 1
  BY ClockTypes
<1> QED
  BY <1>1 DEF FlowOK, Flow!Fresh

LEMMA AwaitOK == ASSUME NEW t, FlowOK(t) PROVE FlowOK(Flow!Await(t))
<1> DEFINE none == 0
<1>1. none \in 0 .. 2 /\ none \in {0, 1}
  OBVIOUS
<1>2. \/ Flow!Await(t) = [t EXCEPT !.phase = "STARTUP", !.stage = none, !.stopped = FALSE,
                                   !.bucket = none, !.done = {}]
      \/ Flow!Await(t) = [t EXCEPT !.phase = "STOPPED"]
  BY DEF Flow!Await
<1> HIDE DEF none
<1>3. FlowOK([t EXCEPT !.phase = "STARTUP", !.stage = none, !.stopped = FALSE,
                       !.bucket = none, !.done = {}])
  BY <1>1 DEF FlowOK
<1>4. FlowOK([t EXCEPT !.phase = "STOPPED"])
  BY DEF FlowOK
<1> QED
  BY <1>2, <1>3, <1>4

\* The startup takes the samples one after the other: the next is a point.
LEMMA StartupOK ==
  ASSUME now \in 0 .. Day - 1, NEW t, FlowOK(t)
  PROVE  FlowOK(Flow!Startup(t))
<1>0. t.done \subseteq Point
  BY DEF FlowOK
<1>1. CASE Flow!StartupSamples(t)
  <2> DEFINE R == Flow!Point \ t.done
             p == Flow!Min(R)
  <2>1. R \in SUBSET (0 .. SampleCount - 1) /\ SampleCount - 1 \in Int /\ R # {}
    <3>1. SampleCount - 1 \in Int
      BY ClockAssumption DEF SampleCount, MaxPoints
    <3>2. R \subseteq 0 .. SampleCount - 1
      BY FlowPoint DEF Point
    <3>3. t.done # Flow!Point
      BY <1>1 DEF Flow!StartupSamples
    <3> QED
      BY <1>0, <3>1, <3>2, <3>3, FlowPoint
  <2>2. p \in Point
    <3>1. p = Min(R)
      BY DEF Flow!Min, Min
    <3>2. Min(R) \in R
      <4> HIDE DEF R
      <4> QED
        BY <2>1, MinFact
    <3> QED
      BY <2>1, <3>1, <3>2, FlowPoint
  <2>3. Flow!Startup(t) = [t EXCEPT !.done = @ \cup {p}]
    BY <1>1 DEF Flow!Startup, Flow!StartupSamples
  <2> HIDE DEF p
  <2> QED
    BY <2>2, <2>3 DEF FlowOK
<1>2. CASE ~Flow!StartupSamples(t)
  <2>1. Hour \in 0 .. Hours - 1 /\ 0 \in 0 .. 2 * Hours - 1
    BY HourFact, ClockTypes
  <2>2. \/ Flow!Startup(t) = [t EXCEPT !.stage = 1]
        \/ Flow!Startup(t) = [t EXCEPT !.stage = 2]
        \/ Flow!Startup(t) = [t EXCEPT !.start = Hour, !.idx = 0, !.done = {}, !.phase = "CYCLING"]
        \/ Flow!Startup(t) = t
    BY <1>2, FlowPoint DEF Flow!Startup
  <2>3. FlowOK([t EXCEPT !.stage = 1]) /\ FlowOK([t EXCEPT !.stage = 2])
    BY DEF FlowOK
  <2>4. FlowOK([t EXCEPT !.start = Hour, !.idx = 0, !.done = {}, !.phase = "CYCLING"])
    BY <2>1 DEF FlowOK
  <2> QED
    BY <2>2, <2>3, <2>4
<1> QED
  BY <1>1, <1>2

LEMMA FlowEnterOK ==
  ASSUME now \in 0 .. Day - 1, NEW t, FlowOK(t)
  PROVE  FlowOK(Flow!EnterCycle(t))
<1> DEFINE k == CycleIndex(t.start)
           b == 1 - t.bucket
<1>1. k \in 0 .. 2 * Hours - 1 /\ b \in {0, 1}
  <2>1. t.start \in 0 .. Hours - 1 /\ t.bucket \in {0, 1}
    BY DEF FlowOK
  <2> QED
    BY <2>1, IndexFact
<1>2. Flow!EnterCycle(t) = IF k = t.idx THEN t
                           ELSE [t EXCEPT !.idx = k, !.bucket = b, !.done = {}]
  BY FlowPoint DEF Flow!EnterCycle
<1> HIDE DEF k, b
<1> QED
  BY <1>1, <1>2 DEF FlowOK

LEMMA FlowCyclingOK ==
  ASSUME now \in 0 .. Day - 1, NEW t, FlowOK(t)
  PROVE  FlowOK([Flow!EnterCycle(t) EXCEPT !.done = @ \cup Flow!Started(Flow!EnterCycle(t))])
<1> DEFINE a == Flow!EnterCycle(t)
           D == Flow!Started(a)
<1>1. FlowOK(a) /\ D \subseteq Point
  BY FlowEnterOK, FlowPoint DEF Flow!Started
<1> HIDE DEF a, D
<1>2. FlowOK([a EXCEPT !.done = @ \cup D])
  BY <1>1 DEF FlowOK
<1> QED
  BY <1>2 DEF a, D

FlowTypes == flow \in BOOLEAN /\ FlowOK(fl)

LEMMA FlowTypesInit == SchedInit => FlowTypes
  BY FlowFresh DEF SchedInit, Flow!Init, FlowTypes

LEMMA FlowTypesNext ==
  now \in 0 .. Day - 1 /\ FlowTypes /\ [scheduler_run]_allVars => FlowTypes'
<1> SUFFICES ASSUME now \in 0 .. Day - 1, FlowTypes, [scheduler_run]_allVars PROVE FlowTypes'
  OBVIOUS
<1>0. FlowOK(fl) /\ flow \in BOOLEAN
  BY DEF FlowTypes
<1>1. ASSUME FlowOK(fl'), flow' \in BOOLEAN PROVE FlowTypes'
  BY <1>1 DEF FlowTypes, FlowOK, Point, SampleCount
<1>2. CASE FlowTriggered
  <2>1. CASE Flow!FlowRises \/ Flow!FlowFalls
    <3>1. flow' \in BOOLEAN
      BY <2>1 DEF Flow!FlowRises, Flow!FlowFalls
    <3>2. \/ fl' = [fl EXCEPT !.flow = TRUE, !.stopped = FALSE]
          \/ fl' = [fl EXCEPT !.flow = FALSE, !.stopped = TRUE]
          \/ fl' = fl
      BY <2>1 DEF Flow!FlowRises, Flow!FlowFalls, Flow!scheduler_notify_flow_start,
                  Flow!scheduler_notify_flow_stop
    <3>3. FlowOK(fl')
      BY <1>0, <3>2 DEF FlowOK
    <3> QED
      BY <1>1, <3>1, <3>3
  <2>2. CASE Flow!scheduler_start
    <3>1. PICK m \in {"FLOW", "OTHER"} : fl' = [Flow!Fresh(m) EXCEPT !.phase = "STARTUP"]
      BY <2>2 DEF Flow!scheduler_start
    <3>2. FlowOK(fl')
      BY <3>1, FlowFresh DEF FlowOK
    <3> QED
      BY <1>0, <1>1, <2>2, <3>2 DEF Flow!scheduler_start
  <2>3. CASE Flow!scheduler_stop
    <3>1. FlowOK([fl EXCEPT !.phase = "IDLE"])
      BY <1>0 DEF FlowOK
    <3> QED
      BY <1>0, <1>1, <2>3, <3>1 DEF Flow!scheduler_stop
  <2>4. CASE Flow!Poll
    <3> DEFINE t == IF Flow!Awaiting(fl) THEN Flow!Await(fl) ELSE fl
    <3>1. FlowOK(t)
      BY <1>0, AwaitOK
    <3>2. \/ fl' = [t EXCEPT !.phase = "STOPPED", !.stopped = FALSE]
          \/ fl' = [Flow!EnterCycle(t) EXCEPT !.done = @ \cup Flow!Started(Flow!EnterCycle(t))]
          \/ fl' = Flow!Startup(t)
          \/ fl' = t
      <4>1. CASE t.phase = "CYCLING" /\ t.stopped
        BY <2>4, <4>1 DEF Flow!Poll, Flow!PollStopped
      <4>2. CASE t.phase = "CYCLING" /\ ~t.stopped
        BY <2>4, <4>2 DEF Flow!Poll, Flow!PollCycling
      <4>3. CASE t.phase = "STARTUP"
        BY <2>4, <4>3 DEF Flow!Poll, Flow!PollStartup, Flow!PollWaits
      <4>4. CASE ~(t.phase \in {"CYCLING", "STARTUP"})
        BY <2>4, <4>4 DEF Flow!Poll
      <4>5. t.stopped \in BOOLEAN
        BY <3>1 DEF FlowOK
      <4> QED
        BY <4>1, <4>2, <4>3, <4>4, <4>5
    <3>3. flow' = flow
      BY <2>4 DEF Flow!Poll
    <3> HIDE DEF t
    <3>4. FlowOK([t EXCEPT !.phase = "STOPPED", !.stopped = FALSE])
      BY <3>1 DEF FlowOK
    <3>5. FlowOK(fl')
      BY <3>1, <3>2, <3>4, StartupOK, FlowCyclingOK
    <3> QED
      BY <1>0, <1>1, <3>3, <3>5
  <2>5. CASE Flow!PollOther \/ Flow!Environment
    BY <1>0, <1>1, <2>5 DEF Flow!PollOther, Flow!Environment
  <2> QED
    BY <1>2, <2>1, <2>2, <2>3, <2>4, <2>5 DEF FlowTriggered, Flow!Next
<1>3. CASE UNCHANGED flowVars
  BY <1>0, <1>1, <1>3 DEF flowVars
<1>4. TimeProportional \/ Timed \/ SwitchTriggered \/ Commanded \/ UNCHANGED allVars
        => UNCHANGED flowVars
  BY DEF TimeProportional, Timed, SwitchTriggered, Commanded, allVars
<1> QED
  BY <1>2, <1>3, <1>4 DEF scheduler_run

-----------------------------------------------------------------------------
(* The types of the switch mode *)

SwitchTyped(t) ==
  t \in [phase : {"IDLE", "STARTUP", "CYCLING"}, bucket : {0, 1},
         start : 0 .. Hours - 1, idx : 0 .. 2 * Hours - 1,
         done : SUBSET Point, triggered : SUBSET Point]

SwitchTypes ==
  SwitchTyped(sw) /\ low \in BOOLEAN /\ trigger \in 0 .. Hours - 1 \cup {Switch!None}

LEMMA SwitchHour == Switch!Hour = Hour /\ \A h : Switch!CycleIndex(h) = CycleIndex(h)
  BY DEF Switch!Hour, Hour, Switch!CycleIndex, CycleIndex, Switch!Elapsed, Elapsed,
         Switch!Day, Day

LEMMA SwitchFresh == SwitchTyped(Switch!Fresh)
<1>1. 0 \in 0 .. Hours - 1 /\ 0 \in 0 .. 2 * Hours - 1
  BY ClockTypes
<1> QED
  BY <1>1 DEF SwitchTyped, Switch!Fresh

LEMMA SwitchTypesInit == SchedInit => SwitchTypes
  BY SwitchFresh DEF SchedInit, Switch!Init, SwitchTypes

LEMMA SwitchEnterOK ==
  ASSUME now \in 0 .. Day - 1, NEW t, SwitchTyped(t)
  PROVE  SwitchTyped(Switch!EnterCycle(t))
<1> DEFINE k == CycleIndex(t.start)
           b == 1 - t.bucket
<1>1. k \in 0 .. 2 * Hours - 1 /\ b \in {0, 1}
  <2>1. t.start \in 0 .. Hours - 1 /\ t.bucket \in {0, 1}
    BY DEF SwitchTyped
  <2> QED
    BY <2>1, IndexFact
<1>2. Switch!EnterCycle(t) = IF k = t.idx THEN t
                             ELSE [t EXCEPT !.idx = k, !.bucket = b, !.done = {},
                                            !.triggered = {}]
  BY SwitchHour DEF Switch!EnterCycle
<1> HIDE DEF k, b
<1> QED
  BY <1>1, <1>2 DEF SwitchTyped

LEMMA SwitchTypesNext ==
  now \in 0 .. Day - 1 /\ SwitchTypes /\ [scheduler_run]_allVars => SwitchTypes'
<1> SUFFICES ASSUME now \in 0 .. Day - 1, SwitchTypes, [scheduler_run]_allVars
             PROVE  SwitchTypes'
  OBVIOUS
<1>0. SwitchTyped(sw) /\ low \in BOOLEAN /\ trigger \in 0 .. Hours - 1 \cup {Switch!None}
  BY DEF SwitchTypes
<1>1. ASSUME SwitchTyped(sw'), low' \in BOOLEAN,
             trigger' \in 0 .. Hours - 1 \cup {Switch!None}
      PROVE  SwitchTypes'
  BY <1>1 DEF SwitchTypes, SwitchTyped, Point, SampleCount, Switch!None
<1>h. Hour \in 0 .. Hours - 1
  BY HourFact
<1>2. CASE SwitchTriggered
  <2>1. CASE Switch!PollStartup
    <3> DEFINE h == (Hour + 2) % Hours
               b == 0
    <3>1. h \in 0 .. Hours - 1 /\ b \in {0, 1}
      BY <1>h, ClockTypes
    <3>2. \/ sw' = [sw EXCEPT !.start = h, !.bucket = b, !.done = {}, !.phase = "CYCLING"]
          \/ sw' = sw
      BY <2>1, SwitchHour DEF Switch!PollStartup, Switch!FirstTrigger
    <3>3. low' = low /\ (trigger' = Hour \/ trigger' = Switch!None)
      BY <2>1, SwitchHour DEF Switch!PollStartup
    <3> HIDE DEF h, b
    <3>4. SwitchTyped(sw')
      BY <1>0, <3>1, <3>2 DEF SwitchTyped
    <3> QED
      BY <1>0, <1>1, <1>h, <3>3, <3>4
  <2>2. CASE Switch!PollCycling
    <3> DEFINE t == Switch!EnterCycle(sw)
               a == Switch!Trigger(t)
               D == Switch!Started(a)
               W == Switch!Open(t)
    <3>1. SwitchTyped(t)
      BY <1>0, SwitchEnterOK
    <3>2. D \subseteq Point /\ W \subseteq Point
      BY PointFact DEF Switch!Started, Switch!Open
    <3>3. \/ a = [t EXCEPT !.triggered = @ \cup W]
          \/ a = [t EXCEPT !.triggered = @]
      BY DEF Switch!Trigger
    <3>4. /\ sw' = [a EXCEPT !.done = @ \cup D]
          /\ UNCHANGED <<low, trigger>>
      BY <2>2 DEF Switch!PollCycling
    <3> HIDE DEF t, a, D, W
    <3>5. SwitchTyped(a)
      BY <3>1, <3>2, <3>3 DEF SwitchTyped
    <3>6. SwitchTyped(sw')
      BY <3>2, <3>4, <3>5 DEF SwitchTyped
    <3> QED
      BY <1>0, <1>1, <3>4, <3>6
  <2>3. CASE Switch!scheduler_start
    <3>1. SwitchTyped([Switch!Fresh EXCEPT !.phase = "STARTUP"])
      BY SwitchFresh DEF SwitchTyped
    <3> QED
      BY <1>0, <1>1, <2>3, <3>1 DEF Switch!scheduler_start
  <2>4. CASE Switch!scheduler_stop
    <3>1. SwitchTyped([sw EXCEPT !.phase = "IDLE"])
      BY <1>0 DEF SwitchTyped
    <3> QED
      BY <1>0, <1>1, <2>4, <3>1 DEF Switch!scheduler_stop
  <2>5. CASE Switch!Pin
    BY <1>0, <1>1, <2>5 DEF Switch!Pin
  <2>6. CASE Switch!Environment
    BY <1>0, <1>1, <2>6 DEF Switch!Environment
  <2> QED
    BY <1>2, <2>1, <2>2, <2>3, <2>4, <2>5, <2>6 DEF SwitchTriggered, Switch!Next
<1>3. CASE UNCHANGED switchVars
  BY <1>0, <1>1, <1>3 DEF switchVars
<1>4. TimeProportional \/ Timed \/ FlowTriggered \/ Commanded \/ UNCHANGED allVars
        => UNCHANGED switchVars
  BY DEF TimeProportional, Timed, FlowTriggered, Commanded, allVars
<1> QED
  BY <1>2, <1>3, <1>4 DEF scheduler_run

-----------------------------------------------------------------------------
(* The types of the communication mode *)

ReqOK(q) ==
  q \in [type : Comm!Type \cup {"NONE"}, bucket : Comm!Byte, pending : BOOLEAN]

\* What Task04 has yet to assign of a request, whatever is in the slot.
Left3(r) == todo = <<<<"type", r[1]>>, <<"bucket", r[2]>>, <<"pending", TRUE>>>>
Left2(r) == todo = <<<<"bucket", r[2]>>, <<"pending", TRUE>>>>
Left1 == todo = <<<<"pending", TRUE>>>>
TodoOK == todo = <<>> \/ Left1 \/ \E r \in Comm!Requests : Left3(r) \/ Left2(r)

CommTypes ==
  /\ ReqOK(req) /\ TodoOK
  /\ overlap \in BOOLEAN /\ bucket \in {0, 1}
  /\ samples \in 0 .. Samples - 1 /\ filled \in 0 .. Samples + 1
  /\ asked \subseteq Comm!Requests
  /\ did \in (Comm!Type \X Comm!Byte) \cup {Comm!Nothing}

LEMMA RequestFact ==
  ASSUME NEW r \in Comm!Requests
  PROVE  r[1] \in Comm!Type /\ r[2] \in Comm!Byte
  BY ModesAssumption DEF Comm!Requests

LEMMA LengthFact ==
  ASSUME NEW a, NEW b, NEW c
  PROVE  Len(<<a, b, c>>) = 3 /\ Len(<<b, c>>) = 2
  OBVIOUS

LEMMA ShortFact == ASSUME NEW c PROVE Len(<<c>>) = 1
  OBVIOUS

LEMMA TodoLength == ASSUME TodoOK PROVE Len(todo) <= 3
<1> DEFINE c == <<"pending", TRUE>>
<1>1. ASSUME NEW r, Left3(r) \/ Left2(r) PROVE Len(todo) <= 3
  <2> DEFINE a == <<"type", r[1]>>
             b == <<"bucket", r[2]>>
  <2>1. todo = <<a, b, c>> \/ todo = <<b, c>>
    BY <1>1 DEF Left3, Left2
  <2> HIDE DEF a, b, c
  <2>2. Len(<<a, b, c>>) = 3 /\ Len(<<b, c>>) = 2
    BY LengthFact
  <2>3. 3 <= 3 /\ 2 <= 3
    OBVIOUS
  <2>4. Len(<<a, b, c>>) <= 3 /\ Len(<<b, c>>) <= 3
    BY <2>2, <2>3, Zenon
  <2> QED
    BY <2>1, <2>4, Zenon
<1>2. ASSUME Left1 PROVE Len(todo) <= 3
  <2>1. todo = <<c>>
    BY <1>2 DEF Left1
  <2> HIDE DEF c
  <2>2. Len(<<c>>) = 1
    BY ShortFact
  <2>3. Len(todo) = 1
    BY <2>1, <2>2, Zenon
  <2> QED
    BY <2>3
<1>3. Len(<< >>) <= 3
  OBVIOUS
<1> QED
  BY <1>1, <1>2, <1>3 DEF TodoOK

LEMMA CommTypesInit == ASSUME Interval <= Cycle PROVE SchedInit => CommTypes
<1> SUFFICES ASSUME SchedInit PROVE CommTypes
  OBVIOUS
<1>1. /\ req = [type |-> "NONE", bucket |-> 0, pending |-> FALSE]
      /\ todo = <<>> /\ bucket = 0 /\ samples = 0 /\ asked = {}
      /\ did = Comm!Nothing /\ overlap = FALSE /\ filled = 0
  BY DEF SchedInit, Comm!Init
<1>2. ReqOK(req)
  BY <1>1 DEF ReqOK, Comm!Byte
<1>3. samples \in 0 .. Samples - 1 /\ filled \in 0 .. Samples + 1
  BY <1>1, SamplesFact
<1> QED
  BY <1>1, <1>2, <1>3 DEF CommTypes, TodoOK

LEMMA AssignTypes ==
  ASSUME ReqOK(req), TodoOK, Comm!Assign
  PROVE  ReqOK(req') /\ TodoOK'
<1>1. /\ todo # <<>> /\ req' = [req EXCEPT ![Head(todo)[1]] = Head(todo)[2]]
      /\ todo' = Tail(todo)
  BY DEF Comm!Assign
<1>2. ASSUME NEW r \in Comm!Requests, Left3(r) PROVE ReqOK(req') /\ Left2(r)'
  <2> DEFINE a == <<"type", r[1]>>
             b == <<"bucket", r[2]>>
             c == <<"pending", TRUE>>
  <2>1. todo = <<a, b, c>>
    BY <1>2 DEF Left3
  <2>2. Head(todo) = a /\ Tail(todo) = <<b, c>>
    <3> HIDE DEF a, b, c
    <3> QED BY <2>1, OneOfThem
  <2>3. req' = [req EXCEPT !.type = r[1]]
    <3>1. req' = [req EXCEPT ![a[1]] = a[2]]
      BY <1>1, <2>2
    <3> QED BY <3>1
  <2>4. ReqOK(req')
    BY <2>3, RequestFact DEF ReqOK
  <2> QED
    BY <1>1, <2>2, <2>4 DEF Left2
<1>3. ASSUME NEW r \in Comm!Requests, Left2(r) PROVE ReqOK(req') /\ Left1'
  <2> DEFINE a == <<"bucket", r[2]>>
             b == <<"pending", TRUE>>
  <2>1. todo = <<a, b>>
    BY <1>3 DEF Left2
  <2>2. Head(todo) = a /\ Tail(todo) = <<b>>
    <3> HIDE DEF a, b
    <3> QED BY <2>1, OneOfThem
  <2>3. req' = [req EXCEPT !.bucket = r[2]]
    <3>1. req' = [req EXCEPT ![a[1]] = a[2]]
      BY <1>1, <2>2
    <3> QED BY <3>1
  <2>4. ReqOK(req')
    BY <2>3, RequestFact DEF ReqOK
  <2> QED
    BY <1>1, <2>2, <2>4 DEF Left1
<1>4. ASSUME Left1 PROVE ReqOK(req') /\ todo' = <<>>
  <2> DEFINE a == <<"pending", TRUE>>
  <2>1. todo = <<a>>
    BY <1>4 DEF Left1
  <2>2. Head(todo) = a /\ Tail(todo) = <<>>
    <3> HIDE DEF a
    <3> QED BY <2>1, OneOfThem
  <2>3. req' = [req EXCEPT !.pending = TRUE]
    <3>1. req' = [req EXCEPT ![a[1]] = a[2]]
      BY <1>1, <2>2
    <3> QED BY <3>1
  <2>4. ReqOK(req')
    BY <2>3 DEF ReqOK
  <2> QED
    BY <1>1, <2>2, <2>4
<1>5. Comm!Requests' = Comm!Requests
  BY DEF Comm!Requests
<1> QED
  BY <1>1, <1>2, <1>3, <1>4, <1>5 DEF TodoOK

LEMMA ExecuteTypes ==
  ASSUME Interval <= Cycle, CommTypes, Comm!sched_comm
  PROVE  /\ ReqOK(req') /\ bucket' \in {0, 1}
         /\ samples' \in 0 .. Samples - 1 /\ filled' \in 0 .. Samples + 1
         /\ did' \in (Comm!Type \X Comm!Byte) \cup {Comm!Nothing}
<1>1. ReqOK(req')
  <2>1. req' = [req EXCEPT !.pending = FALSE, !.type = "NONE"]
    BY DEF Comm!sched_comm, Comm!Cleared
  <2> QED
    BY <2>1 DEF ReqOK, CommTypes
<1>2. /\ req.bucket \in Comm!Byte /\ bucket \in {0, 1}
      /\ samples \in 0 .. Samples - 1 /\ filled \in 0 .. Samples + 1
      /\ did \in (Comm!Type \X Comm!Byte) \cup {Comm!Nothing}
  BY DEF CommTypes, ReqOK
<1>3. ASSUME req.type \in Comm!Type
      PROVE  <<req.type, req.bucket>> \in Comm!Type \X Comm!Byte
  BY <1>2, <1>3
<1>4. CASE req.type = "SAMPLING" /\ Comm!Sample
  <2>1. samples' = IF samples = Samples - 1 THEN 0 ELSE samples + 1
    BY <1>2, <1>4, SuccFact DEF Comm!Sample, Samples
  <2>2. bucket' \in {1 - bucket, bucket}
    BY <1>4 DEF Comm!Sample, Comm!Other
  <2>3. \/ filled' = 0 \/ filled' = Samples + 1
        \/ filled' = filled /\ ~(filled > Samples)
        \/ filled' = filled + 1 /\ ~(filled + 1 > Samples)
    <3>1. filled \in Int /\ filled + 0 = filled
      BY <1>2, SamplesFact
    <3> QED
      BY <1>4, <3>1 DEF Comm!Sample, Samples
  <2>4. did' = <<req.type, req.bucket>> /\ req.type \in Comm!Type
    BY <1>4 DEF Comm!Sample, Comm!Type
  <2>5. Samples \in Nat \ {0}
    BY SamplesFact
  <2> HIDE DEF Samples
  <2>6. samples' \in 0 .. Samples - 1 /\ filled' \in 0 .. Samples + 1
    BY <1>2, <2>1, <2>3, <2>5
  <2>7. bucket' \in {0, 1}
    BY <1>2, <2>2
  <2> QED
    BY <1>1, <1>3, <2>4, <2>6, <2>7
<1>5. CASE req.type = "DRAIN" /\ Comm!Drain
  BY <1>1, <1>2, <1>3, <1>5 DEF Comm!Drain, Comm!Type
<1>6. CASE Comm!Drop
  BY <1>1, <1>2, <1>6 DEF Comm!Drop
<1> QED
  BY <1>4, <1>5, <1>6 DEF Comm!sched_comm

LEMMA CommTypesNext ==
  ASSUME Interval <= Cycle
  PROVE  CommTypes /\ [scheduler_run]_allVars => CommTypes'
<1> SUFFICES ASSUME CommTypes, [scheduler_run]_allVars PROVE CommTypes'
  OBVIOUS
<1>0. /\ ReqOK(req) /\ TodoOK /\ overlap \in BOOLEAN /\ bucket \in {0, 1}
      /\ samples \in 0 .. Samples - 1 /\ filled \in 0 .. Samples + 1
      /\ asked \subseteq Comm!Requests
      /\ did \in (Comm!Type \X Comm!Byte) \cup {Comm!Nothing}
      /\ 0 \in 0 .. Samples - 1 /\ 0 \in 0 .. Samples + 1
  BY SamplesFact DEF CommTypes
<1>1. ASSUME ReqOK(req'), TodoOK', overlap' \in BOOLEAN, bucket' \in {0, 1},
             samples' \in 0 .. Samples - 1, filled' \in 0 .. Samples + 1,
             asked' \subseteq Comm!Requests,
             did' \in (Comm!Type \X Comm!Byte) \cup {Comm!Nothing}
      PROVE  CommTypes'
  BY <1>1 DEF CommTypes, ReqOK, Samples, Comm!Type, Comm!Byte, Comm!Nothing, Comm!Requests
<1>2. ASSUME todo' = todo PROVE TodoOK'
  BY <1>0, <1>2 DEF TodoOK, Left3, Left2, Left1, Comm!Requests
<1>3. CASE Commanded
  <2>1. CASE Comm!mb_write_single
    <3>1. PICK r \in Comm!Requests : todo' = Comm!scheduler_notify_comm(r) /\ asked' = asked \cup {r}
      BY <2>1 DEF Comm!mb_write_single
    <3>2. Left3(r)'
      BY <3>1 DEF Left3, Comm!scheduler_notify_comm
    <3>3. TodoOK'
      BY <3>2 DEF TodoOK, Comm!Requests
    <3>4. /\ overlap' = (overlap \/ req.pending)
          /\ UNCHANGED <<req, bucket, samples, did, filled>>
      BY <2>1 DEF Comm!mb_write_single
    <3>5. overlap' \in BOOLEAN
      BY <3>4
    <3> QED
      BY <1>0, <1>1, <3>1, <3>3, <3>4, <3>5
  <2>2. CASE Comm!Assign
    <3>1. UNCHANGED <<bucket, samples, asked, did, overlap, filled>>
      BY <2>2 DEF Comm!Assign
    <3> QED
      BY <1>0, <1>1, <2>2, <3>1, AssignTypes
  <2>3. CASE Comm!sched_comm
    <3>1. UNCHANGED <<todo, asked, overlap>>
      BY <2>3 DEF Comm!sched_comm
    <3> QED
      BY <1>0, <1>1, <1>2, <2>3, <3>1, ExecuteTypes
  <2>4. CASE Comm!SampEnds \/ Comm!scheduler_stop
    <3>1. UNCHANGED <<req, todo, bucket, samples, asked, did, overlap, filled>>
      BY <2>4 DEF Comm!SampEnds, Comm!scheduler_stop
    <3> QED
      BY <1>0, <1>1, <1>2, <3>1
  <2>5. CASE Comm!scheduler_start
    <3>1. /\ UNCHANGED <<req, todo, asked, did, overlap>>
          /\ bucket' = 0 /\ samples' = 0 /\ filled' = 0
      BY <2>5 DEF Comm!scheduler_start
    <3> QED
      BY <1>0, <1>1, <1>2, <3>1
  <2> QED
    BY <1>3, <2>1, <2>2, <2>3, <2>4, <2>5 DEF Commanded, Comm!Next
<1>4. CASE UNCHANGED commVars
  BY <1>0, <1>1, <1>2, <1>4 DEF commVars
<1>5. TimeProportional \/ Timed \/ FlowTriggered \/ SwitchTriggered \/ UNCHANGED allVars
        => UNCHANGED commVars
  BY DEF TimeProportional, Timed, FlowTriggered, SwitchTriggered, allVars
<1> QED
  BY <1>3, <1>4, <1>5 DEF scheduler_run

-----------------------------------------------------------------------------
(* All five modes *)

TypesInv ==
  /\ mode \in Mode /\ ClockTypeOK
  /\ TimeInv /\ FixedInv /\ FlowTypes /\ SwitchTypes /\ SwitchInv /\ CommTypes

LEMMA TypesInvImplies == TypesInv => ModesTypeOK
<1> SUFFICES ASSUME TypesInv PROVE ModesTypeOK
  OBVIOUS
<1>1. mode \in Mode /\ ClockTypeOK
  BY DEF TypesInv
<1>2. TypeOK
  <2>1. CASE mode = "TIME_PROP"
    BY <2>1 DEF TypesInv, TimeInv
  <2>2. CASE mode # "TIME_PROP"
    <3>1. s = Fresh /\ taken = NoneTaken /\ seen = FALSE
      BY <2>2 DEF TypesInv, TimeInv
    <3>2. SchedOK(s)
      BY <3>1, FreshOK
    <3>3. taken \in [Point -> 0 .. 2]
      BY <3>1 DEF NoneTaken
    <3> QED
      BY <1>1, <3>1, <3>2, <3>3 DEF TypeOK, SchedOK
  <2> QED
    BY <2>1, <2>2
<1>3. Fixed!TypeOK
  BY <1>1, SameClock, FixedPoint DEF TypesInv, FixedInv, FixedOK, Fixed!TypeOK
<1>4. Flow!TypeOK
  BY <1>1, SameClock, FlowPoint DEF TypesInv, FlowTypes, FlowOK, Flow!TypeOK
<1>5. Switch!TypeOK
  <2>1. swTaken \in [Point -> 0 .. 2] /\ signalled \subseteq Point
    BY DEF TypesInv, SwitchInv, SwitchOK
  <2>2. SwitchTyped(sw) /\ low \in BOOLEAN /\ trigger \in 0 .. Hours - 1 \cup {Switch!None}
    BY DEF TypesInv, SwitchTypes
  <2> QED
    BY <1>1, <2>1, <2>2, SameClock, PointFact DEF SwitchTyped, Switch!TypeOK
<1>6. Comm!TypeOK
  <2>1. /\ ReqOK(req) /\ TodoOK /\ overlap \in BOOLEAN /\ bucket \in {0, 1}
        /\ samples \in 0 .. Samples - 1 /\ filled \in 0 .. Samples + 1
        /\ asked \subseteq Comm!Requests
        /\ did \in (Comm!Type \X Comm!Byte) \cup {Comm!Nothing}
    BY DEF TypesInv, CommTypes
  <2>2. Len(todo) <= 3
    BY <2>1, TodoLength
  <2>3. running \in BOOLEAN /\ sampling \in BOOLEAN
    BY <1>1 DEF ClockTypeOK
  <2> QED
    BY <2>1, <2>2, <2>3 DEF Comm!TypeOK, ReqOK, Samples
<1> QED
  BY <1>1, <1>2, <1>3, <1>4, <1>5, <1>6 DEF ModesTypeOK

(***************************************************************************)
(* The types of all five modes, whichever is set: no cycle index leaves    *)
(* the day, no hour or sample point is one that does not exist, and no     *)
(* request is of an unknown type, torn by its successor though it be.      *)
(* For cycles of at least one sample.                                      *)
(***************************************************************************)
THEOREM ModesTypes ==
  ASSUME Interval <= Cycle
  PROVE  SchedSpec => []ModesTypeOK
<1>1. SchedInit => TypesInv
  <2>1. SchedInit => mode \in Mode /\ ClockTypeOK
    BY DEF SchedInit, Init, ClockInit, ClockTypeOK
  <2> QED
    BY <2>1, TimeInit, FixedInit, FlowTypesInit, SwitchTypesInit, SwitchInit, CommTypesInit
    DEF TypesInv
<1>2. TypesInv /\ [scheduler_run]_allVars => TypesInv'
  <2>1. [scheduler_run]_allVars => mode' = mode
    BY DEF scheduler_run, TimeProportional, Timed, FlowTriggered, SwitchTriggered,
           Commanded, allVars
  <2>2. TypesInv /\ [scheduler_run]_allVars => mode' \in Mode' /\ ClockTypeOK'
    BY <2>1, ClockNext DEF TypesInv, Mode
  <2>3. TypesInv => now \in 0 .. Day - 1
    BY DEF TypesInv, ClockTypeOK
  <2> QED
    BY <2>2, <2>3, TimeNext, FixedNext, FlowTypesNext, SwitchTypesNext, SwitchNext,
       CommTypesNext
    DEF TypesInv
<1> QED
  BY <1>1, <1>2, TypesInvImplies, PTL DEF SchedSpec

(***************************************************************************)
(* scheduler_run hands every poll to the handler of the mode that is set:  *)
(* with the other modes' variables forgotten, the scheduler implements     *)
(* that mode's module, so that what holds of the module by itself holds of *)
(* it in the composition.                                                  *)
(***************************************************************************)
THEOREM RunsItsMode ==
  SchedSpec => /\ mode = "TIME_PROP" => Spec
               /\ mode = "FIXED_TIME" => Fixed!Spec
               /\ mode = "FLOW" => Flow!Spec
               /\ mode = "SWITCH" => Switch!Spec
               /\ mode = "COMM" => Comm!Spec
<1>1. SchedInit => Init /\ Fixed!Init /\ Flow!Init /\ Switch!Init /\ Comm!Init
  BY DEF SchedInit
<1> USE DEF scheduler_run, TimeProportional, Timed, FlowTriggered, SwitchTriggered,
            Commanded, allVars, clock
<1>2. mode = "TIME_PROP" /\ [scheduler_run]_allVars
        => (mode = "TIME_PROP")' /\ [Next]_vars
  BY DEF timeVars, vars
<1>3. mode = "FIXED_TIME" /\ [scheduler_run]_allVars
        => (mode = "FIXED_TIME")' /\ [Fixed!Next]_(Fixed!vars)
  BY DEF fixedVars, Fixed!vars, Fixed!clock
<1>4. mode = "FLOW" /\ [scheduler_run]_allVars
        => (mode = "FLOW")' /\ [Flow!Next]_(Flow!vars)
  BY DEF flowVars, Flow!vars, Flow!clock
<1>5. mode = "SWITCH" /\ [scheduler_run]_allVars
        => (mode = "SWITCH")' /\ [Switch!Next]_(Switch!vars)
  BY DEF switchVars, Switch!vars, Switch!clock
<1>6. mode = "COMM" /\ [scheduler_run]_allVars
        => (mode = "COMM")' /\ [Comm!Next]_(Comm!vars)
  BY DEF commVars, Comm!vars
<1> USE DEF Spec, Fixed!Spec, Flow!Spec, Switch!Spec, Comm!Spec, SchedSpec
<1>7. SchedSpec => (mode = "TIME_PROP" => Spec)
  BY <1>1, <1>2, PTL
<1>8. SchedSpec => (mode = "FIXED_TIME" => Fixed!Spec)
  BY <1>1, <1>3, PTL
<1>9. SchedSpec => (mode = "FLOW" => Flow!Spec)
  BY <1>1, <1>4, PTL
<1>10. SchedSpec => (mode = "SWITCH" => Switch!Spec)
  BY <1>1, <1>5, PTL
<1>11. SchedSpec => (mode = "COMM" => Comm!Spec)
  BY <1>1, <1>6, PTL
<1> QED
  BY <1>7, <1>8, <1>9, <1>10, <1>11, PTL

(***************************************************************************)
(* In whatever mode the scheduler runs, no point of a time-proportional    *)
(* cycle is sampled twice, none before its window, and none lost in a      *)
(* cycle that was seen from its beginning and ends before midnight.        *)
(***************************************************************************)
THEOREM ModesTimeProp ==
  ASSUME Cycle < 2 * Hours
  PROVE  SchedSpec => [](NeverTwice /\ NoneEarly /\ NoPointLost)
<1>1. TimeInv => NeverTwice /\ NoneEarly /\ NoPointLost
  <2>1. CASE mode = "TIME_PROP"
    BY <2>1 DEF TimeInv, IInv, TakenIsDone, LostInv, EarlyInv, NeverTwice, NoneEarly,
                NoPointLost, Cycling, Opened
  <2>2. CASE mode # "TIME_PROP"
    BY <2>2 DEF TimeInv, Fresh, NoneTaken, NeverTwice, NoneEarly, NoPointLost, Cycling
  <2> QED
    BY <2>1, <2>2
<1> QED
  BY <1>1, TimeInit, TimeNext, PTL DEF SchedSpec

=============================================================================
