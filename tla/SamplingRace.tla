---------------------------- MODULE SamplingRace ----------------------------
(***************************************************************************)
(* The sampling machine of app_sampling.c under preemption.  Task02 (the   *)
(* poll and the scheduler) and Task03 (the screen) have the same priority; *)
(* FreeRTOS time-slices them, and s_samp has no lock.  Here a handler is   *)
(* the list of its assignments to the sampling line, executed one by one;  *)
(* the two tasks interleave between any two of them, and between a guard   *)
(* and what it guards.                                                     *)
(*                                                                         *)
(* One bound ties the tasks together: Task02 sleeps 50 ms between two      *)
(* iterations and a handler of Task03 is far shorter, so at most one       *)
(* iteration begins while one handler of Task03 is unfinished.             *)
(***************************************************************************)
EXTENDS Sequences, Naturals

CONSTANT Bucket  \* the buckets: 0 is A, 1 is B

ASSUME RaceAssumption == Bucket # {}

Task == {"Task02", "Task03"}
Stage == {"IDLE", "PRE_BLOW", "DELAY_AFTER_PRE", "IMPROVE", "TUBE_HOLD",
          "MEASURE", "DELAY_AFTER_MEAS", "POST_BLOW", "DONE", "ABORT"}
AtRest == {"IDLE", "DONE", "ABORT"}
Handler == {"none", "poll", "start", "abort", "estop", "control"}

VARIABLES
  line,         \* stage and bucket of s_samp, motor, pump, valve, running
  bucketState,  \* g_state.bucket_a_state, g_state.bucket_b_state
  todo,         \* todo[t]: the statements task t has yet to execute
  handler,      \* handler[t]: the handler task t is in, or was in last
  begun,        \* an iteration has begun within Task03's present handler
  clean,        \* history: "always" no handlers have overlapped so far; "run"
                \* none since the present run began; "no" otherwise
  undisturbed   \* history: the last command was an emergency stop, and no
                \* iteration of Task02 was under way meanwhile

vars == <<line, bucketState, todo, handler, begun, clean, undisturbed>>

TypeOK ==
  /\ line \in [stage : Stage, bucket : Bucket, motor : {"off", "CW", "CCW"},
               ext : BOOLEAN, inlet : BOOLEAN, running : BOOLEAN]
  /\ bucketState \in [Bucket -> {"IDLE", "SAMPLING"}]
  /\ DOMAIN todo = Task
  /\ handler \in [Task -> Handler]
  /\ begun \in BOOLEAN
  /\ clean \in {"always", "run", "no"}
  /\ undisturbed \in BOOLEAN

Init ==
  /\ line = [stage |-> "IDLE", bucket |-> CHOOSE b \in Bucket : TRUE, motor |-> "off",
             ext |-> FALSE, inlet |-> FALSE, running |-> FALSE]
  /\ bucketState = [b \in Bucket |-> "IDLE"]
  /\ todo = [t \in Task |-> <<>>]
  /\ handler = [t \in Task |-> "none"]
  /\ begun = FALSE
  /\ clean = "always"
  /\ undisturbed = FALSE

Active == line.stage \notin AtRest
Idle(t) == todo[t] = <<>>

-----------------------------------------------------------------------------
(* The handlers: <<field, value>> assigns a field of the line; "mine" sets  *)
(* the state of the bucket s_samp names to IDLE; "shows" sets a bucket's    *)
(* state to SAMPLING; "timer" is the write of stage_start_sec; the others   *)
(* read a guard.                                                            *)

\* Mutant: the motor is switched like a relay, without a direction.
StartCodeRelay(b) ==
  <<<<"bucket", b>>, <<"inlet", TRUE>>, <<"stage", "PRE_BLOW">>, <<"timer", 0>>,
    <<"motor", "on">>, <<"shows", b>>>>

StartCode(b) ==
  <<<<"bucket", b>>, <<"inlet", TRUE>>, <<"stage", "PRE_BLOW">>, <<"timer", 0>>,
    <<"motor", "CCW">>, <<"shows", b>>>>

\* Mutant: the valve is forgotten at the end of a run.
StepCodeInletOpen(s) ==
  CASE s = "PRE_BLOW" -> <<<<"motor", "off">>, <<"stage", "DELAY_AFTER_PRE">>>>
    [] s = "DELAY_AFTER_PRE" -> <<<<"ext", TRUE>>, <<"stage", "IMPROVE">>>>
    [] s = "IMPROVE" -> <<<<"ext", FALSE>>, <<"stage", "TUBE_HOLD">>>>
    [] s = "TUBE_HOLD" -> <<<<"motor", "CW">>, <<"stage", "MEASURE">>>>
    [] s = "MEASURE" -> <<<<"motor", "off">>, <<"stage", "DELAY_AFTER_MEAS">>>>
    [] s = "DELAY_AFTER_MEAS" -> <<<<"motor", "CCW">>, <<"stage", "POST_BLOW">>>>
    [] s = "POST_BLOW" -> <<<<"motor", "off">>, <<"stage", "DONE">>, <<"mine", 0>>>>

\* Mutant: the second delay never moves on.
StepCodeStays(s) ==
  CASE s = "PRE_BLOW" -> <<<<"motor", "off">>, <<"stage", "DELAY_AFTER_PRE">>>>
    [] s = "DELAY_AFTER_PRE" -> <<<<"ext", TRUE>>, <<"stage", "IMPROVE">>>>
    [] s = "IMPROVE" -> <<<<"ext", FALSE>>, <<"stage", "TUBE_HOLD">>>>
    [] s = "TUBE_HOLD" -> <<<<"motor", "CW">>, <<"stage", "MEASURE">>>>
    [] s = "MEASURE" -> <<<<"motor", "off">>, <<"stage", "DELAY_AFTER_MEAS">>>>
    [] s = "DELAY_AFTER_MEAS" -> <<<<"motor", "CCW">>>>
    [] s = "POST_BLOW" ->
         <<<<"motor", "off">>, <<"inlet", FALSE>>, <<"stage", "DONE">>, <<"mine", 0>>>>

StepCode(s) ==
  CASE s = "PRE_BLOW" -> <<<<"motor", "off">>, <<"stage", "DELAY_AFTER_PRE">>>>
    [] s = "DELAY_AFTER_PRE" -> <<<<"ext", TRUE>>, <<"stage", "IMPROVE">>>>
    [] s = "IMPROVE" -> <<<<"ext", FALSE>>, <<"stage", "TUBE_HOLD">>>>
    [] s = "TUBE_HOLD" -> <<<<"motor", "CW">>, <<"stage", "MEASURE">>>>
    [] s = "MEASURE" -> <<<<"motor", "off">>, <<"stage", "DELAY_AFTER_MEAS">>>>
    [] s = "DELAY_AFTER_MEAS" -> <<<<"motor", "CCW">>, <<"stage", "POST_BLOW">>>>
    [] s = "POST_BLOW" ->
         <<<<"motor", "off">>, <<"inlet", FALSE>>, <<"stage", "DONE">>, <<"mine", 0>>>>

\* Mutant: the abort forgets the external pump.
AbortCodeLeavesPump ==
  <<<<"motor", "off">>, <<"inlet", FALSE>>, <<"stage", "ABORT">>, <<"mine", 0>>>>

AbortCode ==
  <<<<"motor", "off">>, <<"ext", FALSE>>, <<"inlet", FALSE>>, <<"stage", "ABORT">>,
    <<"mine", 0>>>>

\* Mutant: the emergency stop leaves the pump to sampling_abort.
EstopCodeNoPump == <<<<"running", FALSE>>, <<"abort?", 0>>, <<"inlet", FALSE>>>>

EstopCode ==
  <<<<"running", FALSE>>, <<"abort?", 0>>, <<"inlet", FALSE>>, <<"ext", FALSE>>>>

PollCode == <<<<"step?", 0>>, <<"running?", 0>>>>

-----------------------------------------------------------------------------
(* Task t goes on with code; h is the handler it is in. *)
Continue(t, h, code) ==
  /\ todo' = [todo EXCEPT ![t] = code]
  /\ handler' = [handler EXCEPT ![t] = h]
  /\ clean' = IF \A u \in Task : todo'[u] # <<>> THEN "no"
              ELSE IF h = "start" /\ handler[t] # "start" /\ clean = "no" THEN "run"
              ELSE clean

Statement(t) == Head(todo[t])
Rest(t) == Tail(todo[t])

\* An assignment.
Exec(t) ==
  /\ ~Idle(t)
  /\ LET s == Statement(t) IN
       \/ /\ s[1] \in DOMAIN line
          /\ line' = [line EXCEPT ![s[1]] = s[2]]
          /\ UNCHANGED bucketState
       \/ /\ s[1] = "mine"
          /\ bucketState' = [bucketState EXCEPT ![line.bucket] = "IDLE"]
          /\ UNCHANGED line
       \/ /\ s[1] = "shows"
          /\ bucketState' = [bucketState EXCEPT ![s[2]] = "SAMPLING"]
          /\ UNCHANGED line
       \/ /\ s[1] = "timer"
          /\ UNCHANGED <<line, bucketState>>
  /\ Continue(t, handler[t], Rest(t))
  /\ UNCHANGED <<begun, undisturbed>>

Reads(t, guard) == ~Idle(t) /\ Statement(t)[1] = guard
LineKept == UNCHANGED <<line, bucketState, begun, undisturbed>>

(* The poll: the stage's time is over, or not yet.  Within one handler of   *)
(* Task03 no time passes; a stage it has just set is over at once only when *)
(* stage_start_sec is still that of an earlier run.                         *)
StageJustTimed ==
  handler["Task03"] = "start" /\ ~Idle("Task03") /\ Len(todo["Task03"]) <= 2

StepDue ==
  /\ Reads("Task02", "step?") /\ Active /\ ~StageJustTimed
  /\ Continue("Task02", "poll", StepCode(line.stage) \o Rest("Task02"))
  /\ LineKept

StepWaits ==
  /\ Reads("Task02", "step?")
  /\ Continue("Task02", "poll", Rest("Task02"))
  /\ LineKept

\* scheduler_run, if running, may decide to take a sample.
SchedulerDecides ==
  /\ Reads("Task02", "running?")
  /\ \/ Continue("Task02", "poll", <<>>)
     \/ /\ line.running
        /\ \E b \in Bucket : Continue("Task02", "poll", <<<<"start?", b>>>>)
  /\ LineKept

\* The guard of sampling_start, in either task.
TryStart(t) ==
  /\ Reads(t, "start?")
  /\ IF Active THEN Continue(t, handler[t], <<>>)
               ELSE Continue(t, "start", StartCode(Statement(t)[2]))
  /\ LineKept

\* The guard of sampling_abort, alone or within the emergency stop.
TryAbort ==
  /\ Reads("Task03", "abort?")
  /\ Continue("Task03", handler["Task03"],
              IF Active THEN AbortCode \o Rest("Task03") ELSE Rest("Task03"))
  /\ LineKept

\* Task02 begins an iteration.
Poll ==
  /\ Idle("Task02")
  /\ ~Idle("Task03") => ~begun
  /\ Continue("Task02", "poll", PollCode)
  /\ begun' = TRUE
  /\ undisturbed' = (undisturbed /\ Idle("Task03"))
  /\ UNCHANGED <<line, bucketState>>

\* Task03 takes a command.
Command(h, code) ==
  /\ Idle("Task03")
  /\ Continue("Task03", h, code)
  /\ begun' = FALSE
  /\ undisturbed' = (h = "estop" /\ Idle("Task02"))
  /\ UNCHANGED <<line, bucketState>>

PressStart == \E b \in Bucket : Command("control", <<<<"start?", b>>>>)
PressAbort == Command("abort", <<<<"abort?", 0>>>>)
PressEstop == Command("estop", EstopCode)
PressRun   == \E on \in BOOLEAN : Command("control", <<<<"running", on>>>>)

Next ==
  \/ \E t \in Task : Exec(t) \/ TryStart(t)
  \/ StepDue \/ StepWaits \/ SchedulerDecides \/ TryAbort
  \/ Poll
  \/ PressStart \/ PressAbort \/ PressEstop \/ PressRun

(* Both tasks get their time slices; Task02 polls again and again; a stage  *)
(* is not polled for ever without its time being over.                      *)
Task02Runs == Exec("Task02") \/ TryStart("Task02") \/ StepWaits \/ SchedulerDecides \/ Poll
Task03Runs == Exec("Task03") \/ TryStart("Task03") \/ TryAbort

Fairness == WF_vars(Task02Runs) /\ WF_vars(Task03Runs) /\ SF_vars(StepDue)

Spec == Init /\ [][Next]_vars
FairSpec == Spec /\ Fairness

-----------------------------------------------------------------------------
(* Properties *)

Between == \A t \in Task : Idle(t)

Holds(m, e, i) == line.motor = m /\ line.ext = e /\ line.inlet = i

(***************************************************************************)
(* As long as no two handlers have overlapped, what is on between handlers *)
(* is what the stage calls for, and a bucket shows SAMPLING exactly while  *)
(* it is being sampled: taking handlers as atomic, as module Sampling      *)
(* does, is right but for the overlaps.                                    *)
(***************************************************************************)
AtomicHandlersAgree ==
  clean = "always" /\ Between =>
    /\ CASE line.stage \in AtRest -> Holds("off", FALSE, FALSE)
         [] line.stage \in {"PRE_BLOW", "POST_BLOW"} -> Holds("CCW", FALSE, TRUE)
         [] line.stage = "IMPROVE" -> Holds("off", TRUE, TRUE)
         [] line.stage = "MEASURE" -> Holds("CW", FALSE, TRUE)
         [] OTHER -> Holds("off", FALSE, TRUE)
    /\ \A b \in Bucket : bucketState[b] = "SAMPLING" <=> Active /\ line.bucket = b

(***************************************************************************)
(* Whatever earlier overlaps left on, a run of sampling that itself meets  *)
(* none ends with motor, pump and valve off.                               *)
(***************************************************************************)
UndisturbedRunHeals ==
  clean \in {"always", "run"} /\ Between /\ ~Active => Holds("off", FALSE, FALSE)

(***************************************************************************)
(* Whatever earlier overlaps left on, an emergency stop during which       *)
(* Task02 is asleep leaves sampling at rest, the pump and the valve off    *)
(* and the scheduler stopped, until the next command.                      *)
(***************************************************************************)
UndisturbedEstopHolds ==
  undisturbed /\ Idle("Task03") =>
    ~Active /\ ~line.running /\ ~line.ext /\ ~line.inlet

(***************************************************************************)
(* However the tasks interleave, a run of sampling ends.                   *)
(***************************************************************************)
RunEnds == Active ~> ~Active

(***************************************************************************)
(* "Emergency stop" (app_screen.c:678): once its handler is over, and      *)
(* Task02 has finished the iteration it was in, sampling is at rest until  *)
(* the next command.                                                       *)
(***************************************************************************)
EstopIsFinal == Between /\ handler["Task03"] = "estop" => ~Active

(***************************************************************************)
(* app_sampling.c:69, "return 0; /* running */": a start is refused while  *)
(* a run is under way, so no two starts run at the same time.              *)
(***************************************************************************)
OneStart == ~(\A t \in Task : ~Idle(t) /\ handler[t] = "start")

(***************************************************************************)
(* app_sampling.c:149: in TUBE_HOLD the water stands in the tube, so the   *)
(* motor is off.                                                           *)
(***************************************************************************)
StillInTube == Between /\ line.stage = "TUBE_HOLD" => line.motor = "off"

=============================================================================
