------------------------------ MODULE Watchdog ------------------------------
(***************************************************************************)
(* The supervision of the tasks (Task07, freertos_app.c), the hardware     *)
(* watchdog it feeds, and the task that can keep it from running: Task05,  *)
(* whose AT exchanges with the 4G modem (app_4g_modem.c, app_mqtt.c) spin  *)
(* without giving up the processor.  Task07 and Task08 have a lower        *)
(* priority than Task05, the others the same or a higher one.              *)
(*                                                                         *)
(* Time is counted in ticks, Second of them to a second; what the code     *)
(* waits for less than a tick (100 to 500 ms in the task loops) counts as  *)
(* no wait.  An exchange may be answered at any time.  The minutes between *)
(* two status reports, signal queries or attempts to recover from an error *)
(* may elapse at any poll.                                                 *)
(*                                                                         *)
(* A task may hang (what the supervision is there for), one per boot.      *)
(***************************************************************************)
EXTENDS Integers, Sequences

CONSTANTS
  Second,   \* ticks per second
  Dog       \* ticks without a feed after which the watchdog resets the chip

ASSUME WatchdogAssumption == Second \in Nat \ {0} /\ Dog \in Nat \ {0}

Tasks == 2 .. 8            \* the tasks that report a heartbeat
Wait  == 2 * Second        \* of Task07 for the heartbeats
Sleep == Second            \* of Task07 between its rounds
MaxTimeouts == 5

\* The AT exchanges, and how long each can spin: retries times timeout.
Limit == [AT |-> 3 * Second, CPIN |-> 6 * Second, CEREG |-> 10 * Second,
          CSQ |-> 4 * Second, CCLK |-> 6 * Second, DISC |-> Second,
          CONN |-> 9 * Second, QUERY |-> 4 * Second, SUB |-> 4 * Second,
          PUB |-> 4 * Second]
Exchange == DOMAIN Limit

ModemState == {"BOOTING", "AT_CHECK", "SIM_CHECK", "NET_REG", "READY", "ERROR"}
MqttState  == {"IDLE", "CONNECTING", "SUBSCRIBING", "READY", "ERROR"}

\* The modem's handshake from its start.
Restarted == [state |-> "BOOTING", retry |-> 0]

VARIABLES
  dog,      \* ticks since the watchdog was fed
  sup,      \* Task07: where it is, and for how many ticks
  count,    \* wdt_timeout_count
  beats,    \* my_event01: the heartbeat bits
  modem,    \* g_modem.state and init_retry
  mqtt,     \* g_mqtt.state
  todo,     \* Task05: the exchanges left of its present poll; none: it sleeps
  left,     \* the ticks the first of them may still take
  looped,   \* Task05 has ended a poll since the last tick
  door,     \* Task08 is ready to run
  hung,     \* the tasks that hang
  spun,     \* history: the ticks of Task05's present poll so far
  reset     \* why the chip is being reset, if it is

task07 == <<sup, count>>
task05 == <<modem, mqtt, todo, left, looped, spun>>
vars == <<dog, beats, task07, task05, door, hung, reset>>

TypeOK ==
  /\ dog \in 0 .. Dog
  /\ sup \in [at : {"BOOT", "READY", "WAIT", "PASSED", "SLEEP"}, left : 0 .. Wait]
  /\ count \in 0 .. MaxTimeouts
  /\ beats \in SUBSET Tasks
  /\ modem \in [state : ModemState, retry : 0 .. 3]
  /\ mqtt \in MqttState
  /\ todo \in Seq(Exchange)
  /\ left \in 0 .. 10 * Second
  /\ looped \in BOOLEAN /\ door \in BOOLEAN
  /\ hung \in SUBSET Tasks
  /\ spun \in Nat
  /\ reset \in {"none", "watchdog", "software"}

\* Power-up: Task07 enables the watchdog and sleeps 2 s, Task05 sleeps 3 s.
Init ==
  /\ dog = 0
  /\ sup = [at |-> "BOOT", left |-> Wait]
  /\ count = 0
  /\ beats = {}
  /\ modem = Restarted
  /\ mqtt = "IDLE"
  /\ todo = <<>>
  /\ left = 3 * Second
  /\ looped = FALSE /\ door = FALSE
  /\ hung = {}
  /\ spun = 0
  /\ reset = "none"

Up == reset = "none"
Spinning == todo # <<>>

-----------------------------------------------------------------------------
(* The event group.  A heartbeat that completes the set Task07 waits for   *)
(* wakes it and clears the bits; t is what becomes of Task07 otherwise.     *)

Beat(B, t) ==
  IF sup.at = "WAIT" /\ sup.left > 0 /\ beats \cup B = Tasks
  THEN beats' = {} /\ sup' = [sup EXCEPT !.at = "PASSED"]
  ELSE beats' = beats \cup B /\ sup' = t

-----------------------------------------------------------------------------
(* Task07.  It runs when Task05 does not spin.                             *)

SupDue == sup.at = "PASSED" \/ sup.left = 0
SupRuns == Up /\ ~Spinning /\ 7 \notin hung /\ SupDue

Feed == dog' = 0
GoTo(at, n) == sup' = [at |-> at, left |-> n]

\* Waiting for the subsystems, it feeds the watchdog every 200 ms.
AwaitReady ==
  /\ SupRuns /\ sup.at \in {"BOOT", "READY"}
  /\ Feed /\ GoTo("READY", 1)
  /\ UNCHANGED <<count, beats, task05, door, hung, reset>>

\* Mutants: the loop begins without a feed, or without its own heartbeat.
RoundUnfed ==
  /\ SupRuns /\ sup.at \in {"BOOT", "READY", "SLEEP"}
  /\ IF beats \cup {7} = Tasks THEN beats' = {} /\ GoTo("PASSED", 0)
     ELSE beats' = beats \cup {7} /\ GoTo("WAIT", Wait)
  /\ UNCHANGED <<dog, count, task05, door, hung, reset>>

RoundSilent ==
  /\ SupRuns /\ sup.at \in {"BOOT", "READY", "SLEEP"}
  /\ Feed
  /\ IF beats = Tasks THEN beats' = {} /\ GoTo("PASSED", 0)
     ELSE UNCHANGED beats /\ GoTo("WAIT", Wait)
  /\ UNCHANGED <<count, task05, door, hung, reset>>

\* The top of the loop: its own heartbeat, a feed, and the wait for all.
Round ==
  /\ SupRuns /\ sup.at \in {"BOOT", "READY", "SLEEP"}
  /\ Feed
  /\ IF beats \cup {7} = Tasks THEN beats' = {} /\ GoTo("PASSED", 0)
     ELSE beats' = beats \cup {7} /\ GoTo("WAIT", Wait)
  /\ UNCHANGED <<count, task05, door, hung, reset>>

Passed ==
  /\ SupRuns /\ sup.at = "PASSED"
  /\ Feed /\ count' = 0
  /\ GoTo("SLEEP", Sleep)
  /\ UNCHANGED <<beats, task05, door, hung, reset>>

\* Mutant: the timeouts are not counted on.
LateForgets ==
  /\ SupRuns /\ sup.at = "WAIT"
  /\ Feed
  /\ count' = 1 /\ UNCHANGED <<beats, reset>>
  /\ GoTo("SLEEP", Sleep)
  /\ UNCHANGED <<task05, door, hung>>

\* The wait has timed out.  When Task07 gets to run, the bits decide all the
\* same; five rounds in a row without them reset the chip.
Late ==
  /\ SupRuns /\ sup.at = "WAIT"
  /\ Feed
  /\ IF beats = Tasks THEN beats' = {} /\ count' = 0 /\ UNCHANGED reset
     ELSE /\ count' = count + 1 /\ UNCHANGED beats
          /\ reset' = IF count + 1 >= MaxTimeouts THEN "software" ELSE "none"
  /\ GoTo("SLEEP", Sleep)
  /\ UNCHANGED <<task05, door, hung>>

-----------------------------------------------------------------------------
(* Task05 *)

\* What is ready to run below Task05 runs while Task05 sleeps.
LowerRan == /\ ~SupDue \/ 7 \in hung
            /\ ~door \/ 8 \in hung

\* mqtt_poll, once the modem is ready, after the exchanges q of the same poll.
MqttPoll(q) ==
  \/ mqtt = "IDLE"        /\ mqtt' = "CONNECTING" /\ todo' = q
  \/ mqtt = "CONNECTING"  /\ mqtt' = mqtt /\ todo' = q \o <<"DISC", "CONN", "QUERY">>
  \/ mqtt = "SUBSCRIBING" /\ mqtt' = mqtt /\ todo' = q \o <<"SUB">>
  \/ mqtt = "READY"       /\ mqtt' = mqtt
                          /\ \/ todo' = q
                             \/ todo' = q \o <<"PUB", "PUB">>
                             \/ todo' = q \o <<"PUB", "PUB", "PUB", "PUB">>
  \/ mqtt = "ERROR"       /\ mqtt' \in {mqtt, "CONNECTING"} /\ todo' = q

\* The poll ends: the heartbeat, and 100 ms of sleep.
Ends(t) ==
  IF t = <<>> THEN /\ looped' = TRUE /\ left' = 0
                   /\ IF 5 \in hung THEN UNCHANGED <<beats, sup>> ELSE Beat({5}, sup)
  ELSE looped' = looped /\ left' = Limit[Head(t)] /\ UNCHANGED <<beats, sup>>

\* modem_poll, the modem not ready.
Wakes == [modem EXCEPT !.state = "AT_CHECK"]

ModemPoll ==
  \/ modem.state = "BOOTING"   /\ modem' \in {modem, Wakes} /\ todo' = <<>>
  \/ modem.state = "AT_CHECK"  /\ modem' = modem /\ todo' = <<"AT">>
  \/ modem.state = "SIM_CHECK" /\ modem' = modem /\ todo' = <<"CPIN">>
  \/ modem.state = "NET_REG"   /\ modem' = modem /\ todo' = <<"CEREG">>
  \/ modem.state = "ERROR"     /\ modem' \in {modem, Restarted} /\ todo' = <<>>

\* A poll begins, after Task07 and Task08 have had the processor.
Poll ==
  /\ Up /\ ~Spinning /\ left = 0 /\ 5 \notin hung
  /\ LowerRan
  /\ IF modem.state = "READY"
     THEN (MqttPoll(<<>>) \/ MqttPoll(<<"CSQ">>)) /\ UNCHANGED modem
     ELSE ModemPoll /\ UNCHANGED mqtt
  /\ Ends(todo')
  /\ spun' = 0
  /\ UNCHANGED <<dog, count, door, hung, reset>>

\* Mutant: the handshake is tried for ever.
ModemAfterTries(x, ok) ==
  CASE x = "AT" /\ ok     -> [modem EXCEPT !.state = "SIM_CHECK"]
    [] x = "AT" /\ ~ok    -> [modem EXCEPT !.retry = @ + 1]
    [] OTHER              -> modem

\* What the outcome of an exchange changes, and what is left of the poll.
ModemAfter(x, ok) ==
  CASE x = "AT" /\ ok     -> [modem EXCEPT !.state = "SIM_CHECK"]
    [] x = "AT" /\ ~ok    -> [state |-> IF modem.retry >= 2 THEN "ERROR" ELSE modem.state,
                              retry |-> modem.retry + 1]
    [] x = "CPIN"         -> [modem EXCEPT !.state = IF ok THEN "NET_REG" ELSE "ERROR"]
    [] x = "CEREG"        -> [modem EXCEPT !.state = IF ok THEN "READY" ELSE "ERROR"]
    [] OTHER              -> modem

MqttAfter(x, ok) ==
  CASE x \in {"CONN", "QUERY", "SUB"} /\ ~ok -> "ERROR"
    [] x = "QUERY" /\ ok                     -> "SUBSCRIBING"
    [] x = "SUB" /\ ok                       -> "READY"
    [] OTHER                                 -> mqtt

\* After the registration: signal, time, and then the poll of MQTT.
Outcome(ok) ==
  LET x == Head(todo)
  IN /\ modem' = ModemAfter(x, ok)
     /\ IF x = "CEREG" /\ ok
        THEN MqttPoll(<<"CSQ", "CCLK">>)
        ELSE /\ mqtt' = MqttAfter(x, ok)
             /\ todo' = IF x = "CONN" /\ ~ok THEN <<>> ELSE Tail(todo)
     /\ Ends(todo')
     /\ UNCHANGED <<dog, count, door, hung, spun, reset>>

Answered == Up /\ Spinning /\ left > 0 /\ \E ok \in BOOLEAN : Outcome(ok)
TimedOut == Up /\ Spinning /\ left = 0 /\ Outcome(FALSE)

-----------------------------------------------------------------------------
(* Task08, of the priority of Task07 *)

Door ==
  /\ Up /\ ~Spinning /\ 8 \notin hung /\ door
  /\ door' = FALSE
  /\ Beat({8}, sup)
  /\ UNCHANGED <<dog, count, task05, hung, reset>>

-----------------------------------------------------------------------------
(* Time, hangs and resets *)

\* The tasks that Task05 does not starve report in every tick.
Beating == {2, 3, 4, 6} \ hung

\* With nothing to spin for, Task05 sleeps (or hangs), the others have run.
Settled ==
  IF Spinning THEN left > 0
  ELSE /\ left > 0 \/ looped \/ 5 \in hung
       /\ LowerRan

Elapse(t) == [t EXCEPT !.left = IF @ > 0 THEN @ - 1 ELSE 0]

Tick ==
  /\ Up /\ Settled /\ dog < Dog
  /\ dog' = dog + 1
  /\ Beat(Beating, Elapse(sup))
  /\ left' = IF left > 0 THEN left - 1 ELSE 0
  /\ looped' = FALSE /\ door' = TRUE
  /\ spun' = IF Spinning THEN spun + 1 ELSE spun
  /\ UNCHANGED <<count, modem, mqtt, todo, hung, reset>>

Hang ==
  /\ Up /\ hung = {}
  /\ \E t \in Tasks : (t = 5 => ~Spinning) /\ hung' = {t}
  /\ UNCHANGED <<dog, beats, task07, task05, door, reset>>

Bite ==
  /\ Up /\ dog = Dog
  /\ reset' = "watchdog"
  /\ UNCHANGED <<dog, beats, task07, task05, door, hung>>

Boot ==
  /\ ~Up
  /\ dog' = 0 /\ count' = 0 /\ beats' = {} /\ hung' = {}
  /\ sup' = [at |-> "BOOT", left |-> Wait]
  /\ modem' = Restarted /\ mqtt' = "IDLE"
  /\ todo' = <<>> /\ left' = 3 * Second /\ looped' = FALSE /\ spun' = 0
  /\ door' = FALSE /\ reset' = "none"

Next ==
  \/ AwaitReady \/ Round \/ Passed \/ Late
  \/ Poll \/ Answered \/ TimedOut \/ Door
  \/ Tick \/ Hang \/ Bite \/ Boot

(* Time passes, the tasks that do not hang run, the chip resets; the       *)
(* subsystems become ready, or Task07 waits for them no longer than 10 s.  *)
Fairness ==
  /\ WF_vars(Tick) /\ WF_vars(Poll) /\ WF_vars(TimedOut) /\ WF_vars(Door)
  /\ WF_vars(AwaitReady \/ Round) /\ SF_vars(Round) /\ WF_vars(Passed) /\ WF_vars(Late)
  /\ WF_vars(Bite) /\ WF_vars(Boot)

Spec == Init /\ [][Next]_vars
FairSpec == Spec /\ Fairness

-----------------------------------------------------------------------------
(* Properties *)

(***************************************************************************)
(* The watchdog bites only when Task07 hangs, or in a poll of Task05 that  *)
(* spins for all but 2 s of the watchdog's time: whatever Task07 waits     *)
(* for, it feeds the watchdog at least every 2 s when it can run, also     *)
(* between two polls that each come close.                                 *)
(***************************************************************************)
BiteNeedsSpin == reset = "watchdog" => 7 \in hung \/ spun >= Dog - Wait

(***************************************************************************)
(* No false alarm: as long as no task hangs, every round of Task07 finds   *)
(* all the heartbeats, however Task05 spins and starves Task07 and Task08. *)
(***************************************************************************)
NoFalseAlarm == hung = {} => count = 0

(***************************************************************************)
(* A task that hangs, whichever it is, resets the chip in the end.         *)
(***************************************************************************)
HangIsCured == hung # {} ~> ~Up

(***************************************************************************)
(* freertos_app.c, Task07: "the first few timeouts still feed the          *)
(* watchdog, to give a chance to recover", and only "timeouts five times   *)
(* in a row" reset the system; modem_poll and mqtt_poll are "non-blocking  *)
(* polls".  So the watchdog itself bites only if some task hangs.          *)
(***************************************************************************)
BiteNeedsHang == reset = "watchdog" => hung # {}

=============================================================================
