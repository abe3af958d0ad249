--------------------------- MODULE WatchdogProofs ---------------------------
(***************************************************************************)
(* Proofs about Watchdog, for every length of a second and of the          *)
(* watchdog's time.                                                        *)
(***************************************************************************)
EXTENDS Watchdog, TLAPS

-----------------------------------------------------------------------------
(* The type invariant is inductive with three bounds the code keeps: the   *)
(* fifth timeout resets the chip, the third failed AT ends the handshake,  *)
(* and the exchanges of the handshake are not made in its error state.     *)

CountBound == Up => count < MaxTimeouts
RetryBound == modem.state = "ERROR" \/ modem.retry <= 2
Steps      == {"AT", "CPIN", "CEREG"}
Later      == Exchange \ Steps
Handshake  == \/ todo \in Seq(Later)
              \/ \E x \in Steps : todo = <<x>> /\ modem.state # "ERROR"

TypeInv == TypeOK /\ CountBound /\ RetryBound /\ Handshake

SupState == [at : {"BOOT", "READY", "WAIT", "PASSED", "SLEEP"}, left : 0 .. Wait]

LEMMA Times == Wait \in Nat /\ Sleep \in Nat /\ 0 < Sleep /\ Sleep < Wait
BY WatchdogAssumption DEF Wait, Sleep

LEMMA Exchanges ==
  /\ Exchange = {"AT", "CPIN", "CEREG", "CSQ", "CCLK", "DISC", "CONN", "QUERY", "SUB", "PUB"}
  /\ \A x \in Exchange : Limit[x] \in 0 .. 10 * Second
<1>1. Exchange = {"AT", "CPIN", "CEREG", "CSQ", "CCLK", "DISC", "CONN", "QUERY", "SUB", "PUB"}
  BY DEF Exchange, Limit
<1>2. ASSUME NEW x \in Exchange PROVE Limit[x] \in 0 .. 10 * Second
  BY <1>1, <1>2, WatchdogAssumption DEF Limit
<1> QED BY <1>1, <1>2

LEMMA BeatTypes ==
  ASSUME TypeOK, NEW B \in SUBSET Tasks, NEW t \in SupState, Beat(B, t)
  PROVE  beats' \in SUBSET Tasks /\ sup' \in SupState
BY DEF TypeOK, Beat, SupState

LEMMA EndsTypes ==
  ASSUME TypeOK, NEW t \in Seq(Exchange), Ends(t)
  PROVE  /\ beats' \in SUBSET Tasks /\ sup' \in SupState
         /\ left' \in 0 .. 10 * Second /\ looped' \in BOOLEAN
<1>1. {5} \in SUBSET Tasks /\ sup \in SupState
  BY DEF TypeOK, Tasks, SupState
<1>2. beats' \in SUBSET Tasks /\ sup' \in SupState
  <2>1. CASE Beat({5}, sup)
    BY <1>1, <2>1, BeatTypes
  <2>2. CASE UNCHANGED <<beats, sup>>
    BY <1>1, <2>2 DEF TypeOK
  <2> QED BY <2>1, <2>2 DEF Ends
<1>3. left' \in 0 .. 10 * Second
  <2>1. CASE t = <<>>
    BY <2>1, WatchdogAssumption DEF Ends
  <2>2. CASE t # <<>>
    <3>1. Head(t) \in Exchange
      BY <2>2
    <3>2. left' = Limit[Head(t)]
      BY <2>2 DEF Ends
    <3> QED BY <3>1, <3>2, Exchanges
  <2> QED BY <2>1, <2>2
<1>4. looped' \in BOOLEAN
  BY Zenon DEF Ends, TypeOK
<1> QED BY <1>2, <1>3, <1>4

\* What a poll of MQTT asks for is never AT.
LEMMA MqttPolls ==
  ASSUME TypeOK, NEW q \in Seq(Later), MqttPoll(q)
  PROVE  mqtt' \in MqttState /\ todo' \in Seq(Later)
<1>1. {"DISC", "CONN", "QUERY", "SUB", "PUB"} \subseteq Later
  BY Exchanges DEF Later, Steps
<1>2. \A t \in Seq(Later) : q \o t \in Seq(Later)
  OBVIOUS
<1>3. /\ <<"DISC", "CONN", "QUERY">> \in Seq(Later)
      /\ <<"SUB">> \in Seq(Later)
      /\ <<"PUB", "PUB">> \in Seq(Later)
      /\ <<"PUB", "PUB", "PUB", "PUB">> \in Seq(Later)
  BY <1>1
<1> HIDE DEF Later
<1>4. mqtt' \in MqttState
  BY DEF TypeOK, MqttPoll, MqttState
<1>5. todo' \in Seq(Later)
  BY <1>2, <1>3 DEF MqttPoll
<1> QED BY <1>4, <1>5

ModemType == [state : ModemState, retry : 0 .. 3]

\* modem_poll makes one exchange of the handshake at a time.
LEMMA ModemPolls ==
  ASSUME TypeInv, ModemPoll
  PROVE  /\ modem' \in ModemType /\ RetryBound'
         /\ Handshake'
<1>1. modem \in ModemType /\ RetryBound
  BY DEF TypeInv, TypeOK, ModemType
<1>2. Wakes \in ModemType /\ Wakes.state = "AT_CHECK" /\ Wakes.retry = modem.retry
  BY <1>1 DEF Wakes, ModemType, ModemState
<1>3. Restarted \in ModemType /\ Restarted.retry = 0
  BY DEF Restarted, ModemType, ModemState
<1>4. <<>> \in Seq(Later)
  OBVIOUS
<1> HIDE DEF Later, ModemType, Wakes, Restarted
<1>5. modem' \in ModemType /\ RetryBound'
  BY <1>1, <1>2, <1>3 DEF ModemPoll, RetryBound
<1>6. Handshake'
  BY <1>4 DEF ModemPoll, Handshake, Steps
<1> QED BY <1>5, <1>6

\* The exchanges of a poll, of either kind, are exchanges.
IsQueue == todo \in Seq(Exchange)

LEMMA Queued == Handshake => IsQueue
<1>1. Later \subseteq Exchange /\ Steps \subseteq Exchange
  BY Exchanges DEF Later, Steps
<1>2. CASE todo \in Seq(Later)
  BY <1>1, <1>2 DEF IsQueue
<1>3. ASSUME NEW x \in Steps, todo = <<x>> PROVE todo \in Seq(Exchange)
  BY <1>1, <1>3
<1> QED BY <1>2, <1>3 DEF Handshake, IsQueue

LEMMA PollTypes == TypeInv /\ Poll => TypeInv'
<1> SUFFICES ASSUME TypeInv, Poll PROVE TypeInv'
  OBVIOUS
<1>1. TypeOK
  BY DEF TypeInv
<1>2. UNCHANGED <<dog, count, door, hung, reset>> /\ spun' = 0 /\ Ends(todo')
  BY DEF Poll
<1>3. /\ mqtt' \in MqttState /\ modem' \in ModemType /\ RetryBound'
      /\ Handshake'
  <2>1. CASE modem.state = "READY"
    <3>1. <<>> \in Seq(Later) /\ <<"CSQ">> \in Seq(Later)
      <4>1. "CSQ" \in Later
        BY Exchanges DEF Later, Steps
      <4> QED BY <4>1
    <3>2. mqtt' \in MqttState /\ todo' \in Seq(Later)
      BY <1>1, <2>1, <3>1, MqttPolls DEF Poll
    <3>3. modem' = modem
      BY <2>1 DEF Poll
    <3> QED BY <3>2, <3>3 DEF TypeInv, TypeOK, RetryBound, ModemType, Handshake
  <2>2. CASE modem.state # "READY"
    <3>1. ModemPoll /\ mqtt' = mqtt
      BY <2>2 DEF Poll
    <3> QED BY <1>1, <3>1, ModemPolls DEF TypeOK
  <2> QED BY <2>1, <2>2
<1>4. todo' \in Seq(Exchange)
  <2>1. Handshake' => IsQueue'
    BY Queued, PTL
  <2> QED BY <1>3, <2>1 DEF IsQueue
<1>5. /\ beats' \in SUBSET Tasks /\ sup' \in SupState
      /\ left' \in 0 .. 10 * Second /\ looped' \in BOOLEAN
  BY <1>1, <1>2, <1>4, EndsTypes
<1>6. door' \in BOOLEAN
  BY <1>1, <1>2, Zenon DEF TypeOK
<1>7. /\ dog' \in 0 .. Dog /\ count' \in 0 .. MaxTimeouts /\ hung' \in SUBSET Tasks
      /\ spun' \in Nat /\ reset' \in {"none", "watchdog", "software"}
  BY <1>1, <1>2 DEF TypeOK
<1>8. TypeOK'
  BY <1>3, <1>4, <1>5, <1>6, <1>7 DEF TypeOK, SupState, ModemType
<1>9. CountBound'
  BY <1>2 DEF TypeInv, CountBound, Up
<1> QED BY <1>3, <1>8, <1>9 DEF TypeInv

LEMMA OutcomeTypes ==
  ASSUME TypeInv, Spinning, Up, NEW ok \in BOOLEAN, Outcome(ok)
  PROVE  TypeInv'
<1> DEFINE x == Head(todo)
<1>1. TypeOK /\ modem \in ModemType /\ mqtt \in MqttState
  BY DEF TypeInv, TypeOK, ModemType
<1>2. UNCHANGED <<dog, count, door, hung, spun, reset>> /\ Ends(todo') /\ modem' = ModemAfter(x, ok)
  BY DEF Outcome
<1>3. x \in Exchange
  BY <1>1 DEF Spinning, TypeOK
<1>4. x \in Steps => modem.state # "ERROR"
  BY DEF TypeInv, Handshake, Later, Spinning
<1>5. todo # <<>> => Tail(todo) \in Seq(Later)
  <2>1. CASE todo \in Seq(Later)
    BY <2>1
  <2>2. ASSUME NEW y \in Steps, todo = <<y>> PROVE Tail(todo) \in Seq(Later)
    BY <2>2
  <2> QED BY <2>1, <2>2 DEF TypeInv, Handshake
<1>6. ModemAfter(x, ok) \in ModemType
     /\ (ModemAfter(x, ok).state = "ERROR" \/ ModemAfter(x, ok).retry <= 2)
  <2> HIDE DEF x
  <2>1. ASSUME NEW st \in ModemState
        PROVE  LET r == [modem EXCEPT !.state = st]
               IN  r \in ModemType /\ r.state = st /\ r.retry = modem.retry
    BY <1>1 DEF ModemType
  <2>2. modem.retry \in 0 .. 3 /\ (modem.state = "ERROR" \/ modem.retry <= 2)
    BY <1>1 DEF ModemType, TypeInv, RetryBound
  <2>3. CASE x = "AT" /\ ok
    <3>1. ModemAfter(x, ok) = [modem EXCEPT !.state = "SIM_CHECK"]
      BY <2>3 DEF ModemAfter
    <3>2. modem.retry <= 2
      BY <1>4, <2>2, <2>3 DEF Steps
    <3> QED BY <2>1, <3>1, <3>2 DEF ModemState
  <2>4. CASE x = "AT" /\ ~ok
    <3>1. ModemAfter(x, ok) = [state |-> IF modem.retry >= 2 THEN "ERROR" ELSE modem.state,
                               retry |-> modem.retry + 1]
      BY <2>4 DEF ModemAfter
    <3>2. modem.retry <= 2 /\ modem.state \in ModemState
      BY <1>1, <1>4, <2>2, <2>4 DEF ModemType, Steps
    <3> QED BY <2>2, <3>1, <3>2 DEF ModemType, ModemState
  <2>5. CASE x = "CPIN"
    <3>1. ModemAfter(x, ok) = [modem EXCEPT !.state = IF ok THEN "NET_REG" ELSE "ERROR"]
      BY <2>5 DEF ModemAfter
    <3>2. (IF ok THEN "NET_REG" ELSE "ERROR") \in ModemState
      BY DEF ModemState
    <3>3. modem.retry <= 2
      BY <1>4, <2>2, <2>5 DEF Steps
    <3> QED BY <2>1, <3>1, <3>2, <3>3
  <2>6. CASE x = "CEREG"
    <3>1. ModemAfter(x, ok) = [modem EXCEPT !.state = IF ok THEN "READY" ELSE "ERROR"]
      BY <2>6 DEF ModemAfter
    <3>2. (IF ok THEN "READY" ELSE "ERROR") \in ModemState
      BY DEF ModemState
    <3>3. modem.retry <= 2
      BY <1>4, <2>2, <2>6 DEF Steps
    <3> QED BY <2>1, <3>1, <3>2, <3>3
  <2>7. CASE x \notin {"AT", "CPIN", "CEREG"}
    <3>1. ModemAfter(x, ok) = modem
      BY <2>7 DEF ModemAfter
    <3> QED BY <1>1, <2>2, <3>1
  <2> QED BY <2>3, <2>4, <2>5, <2>6, <2>7
<1>7. mqtt' \in MqttState /\ todo' \in Seq(Later)
  <2>1. CASE x = "CEREG" /\ ok
    <3>1. <<"CSQ", "CCLK">> \in Seq(Later)
      <4>1. {"CSQ", "CCLK"} \subseteq Later
        BY Exchanges DEF Later, Steps
      <4> QED BY <4>1
    <3>2. MqttPoll(<<"CSQ", "CCLK">>)
      BY <2>1 DEF Outcome
    <3> QED BY <1>1, <3>1, <3>2, MqttPolls
  <2>2. CASE ~(x = "CEREG" /\ ok)
    <3>1. mqtt' = MqttAfter(x, ok) /\ (todo' = <<>> \/ todo' = Tail(todo))
      BY <2>2 DEF Outcome
    <3>2. MqttAfter(x, ok) \in MqttState
      BY <1>1 DEF MqttAfter, MqttState
    <3>3. todo # <<>> /\ <<>> \in Seq(Later)
      BY DEF Spinning
    <3> QED BY <1>5, <3>1, <3>2, <3>3
  <2> QED BY <2>1, <2>2
<1>8. todo' \in Seq(Exchange)
  <2>1. Later \subseteq Exchange
    BY DEF Later
  <2> QED BY <1>7, <2>1
<1>9. /\ beats' \in SUBSET Tasks /\ sup' \in SupState
      /\ left' \in 0 .. 10 * Second /\ looped' \in BOOLEAN
  BY <1>1, <1>2, <1>8, EndsTypes
<1>10. door' \in BOOLEAN
  BY <1>1, <1>2, Zenon DEF TypeOK
<1>11. /\ dog' \in 0 .. Dog /\ count' \in 0 .. MaxTimeouts /\ hung' \in SUBSET Tasks
       /\ spun' \in Nat /\ reset' \in {"none", "watchdog", "software"}
  BY <1>1, <1>2 DEF TypeOK
<1>12. TypeOK'
  BY <1>2, <1>6, <1>7, <1>8, <1>9, <1>10, <1>11 DEF TypeOK, SupState, ModemType
<1>13. CountBound' /\ RetryBound' /\ Handshake'
  BY <1>2, <1>6, <1>7 DEF TypeInv, CountBound, RetryBound, Handshake, Up
<1> QED BY <1>12, <1>13 DEF TypeInv

LEMMA TickTypes == TypeInv /\ Tick => TypeInv'
<1> SUFFICES ASSUME TypeInv, Tick PROVE TypeInv'
  OBVIOUS
<1>1. TypeOK
  BY DEF TypeInv
<1>2. Elapse(sup) \in SupState
  BY <1>1, Times DEF TypeOK, Elapse, SupState
<1>3. Beating \in SUBSET Tasks
  BY DEF Beating, Tasks
<1>4. beats' \in SUBSET Tasks /\ sup' \in SupState
  BY <1>1, <1>2, <1>3, BeatTypes DEF Tick
<1>5. dog' \in 0 .. Dog
  BY <1>1, WatchdogAssumption DEF TypeOK, Tick
<1>6. left' \in 0 .. 10 * Second
  BY <1>1, WatchdogAssumption DEF TypeOK, Tick
<1>7. looped' \in BOOLEAN /\ door' \in BOOLEAN
  BY Zenon DEF Tick
<1>8. spun' \in Nat
  BY <1>1 DEF TypeOK, Tick
<1>9. UNCHANGED <<count, modem, mqtt, todo, hung, reset>>
  BY DEF Tick
<1> QED BY <1>1, <1>4, <1>5, <1>6, <1>7, <1>8, <1>9
      DEF TypeInv, TypeOK, SupState, CountBound, RetryBound, Handshake, Up

LEMMA SupTypes ==
  TypeInv /\ (AwaitReady \/ Round \/ Passed \/ Late) => TypeInv'
<1> SUFFICES ASSUME TypeInv, AwaitReady \/ Round \/ Passed \/ Late PROVE TypeInv'
  OBVIOUS
<1>1. TypeOK /\ CountBound
  BY DEF TypeInv
<1>2. UNCHANGED <<task05, door, hung>> /\ Up /\ dog' = 0
  BY DEF AwaitReady, Round, Passed, Late, SupRuns, Feed
<1>3. sup' \in SupState
  BY Times, WatchdogAssumption
     DEF AwaitReady, Round, Passed, Late, GoTo, SupState, Wait, Sleep
<1>4. beats' \in SUBSET Tasks
  <2>1. beats \in SUBSET Tasks /\ 7 \in Tasks
    BY <1>1 DEF TypeOK, Tasks
  <2>2. beats' \in {beats, {}, beats \cup {7}}
    BY DEF AwaitReady, Round, Passed, Late
  <2> QED BY <2>1, <2>2
<1>5. /\ count' \in 0 .. MaxTimeouts
      /\ reset' \in {"none", "software"}
      /\ reset' = "none" => count' < MaxTimeouts
  BY <1>1, <1>2 DEF AwaitReady, Round, Passed, Late, TypeOK, CountBound, Up, MaxTimeouts
<1>6. looped' \in BOOLEAN /\ door' \in BOOLEAN
  BY <1>1, <1>2, Zenon DEF TypeOK, task05
<1>7. dog' \in 0 .. Dog
  BY <1>2, WatchdogAssumption
<1> QED BY <1>1, <1>2, <1>3, <1>4, <1>5, <1>6, <1>7
      DEF TypeInv, TypeOK, SupState, CountBound, RetryBound, Handshake, Up, task05

LEMMA RestTypes == TypeInv /\ (Door \/ Hang \/ Bite \/ Boot) => TypeInv'
<1> SUFFICES ASSUME TypeInv, Door \/ Hang \/ Bite \/ Boot PROVE TypeInv'
  OBVIOUS
<1>1. TypeOK /\ CountBound
  BY DEF TypeInv
<1>2. CASE Door
  <2>1. sup \in SupState /\ {8} \in SUBSET Tasks
    BY <1>1 DEF TypeOK, SupState, Tasks
  <2>2. beats' \in SUBSET Tasks /\ sup' \in SupState
    BY <1>1, <1>2, <2>1, BeatTypes DEF Door
  <2>3. UNCHANGED <<dog, count, task05, hung, reset>>
    BY <1>2 DEF Door
  <2>4. door' \in BOOLEAN /\ looped' \in BOOLEAN
    BY <1>1, <1>2, <2>3, Zenon DEF Door, TypeOK, task05
  <2> QED BY <1>1, <2>2, <2>3, <2>4
        DEF TypeInv, TypeOK, SupState, CountBound, RetryBound, Handshake, Up, task05
<1>3. CASE Hang
  <2>1. hung' \in SUBSET Tasks /\ UNCHANGED <<dog, beats, task07, task05, door, reset>>
    BY <1>3 DEF Hang
  <2>2. door' \in BOOLEAN /\ looped' \in BOOLEAN
    BY <1>1, <2>1, Zenon DEF TypeOK, task05
  <2> QED BY <1>1, <2>1, <2>2
        DEF TypeInv, TypeOK, CountBound, RetryBound, Handshake, Up, task05, task07
<1>4. CASE Bite
  <2>1. reset' = "watchdog" /\ UNCHANGED <<dog, beats, task07, task05, door, hung>>
    BY <1>4 DEF Bite
  <2>2. door' \in BOOLEAN /\ looped' \in BOOLEAN
    BY <1>1, <2>1, Zenon DEF TypeOK, task05
  <2> QED BY <1>1, <2>1, <2>2
        DEF TypeInv, TypeOK, CountBound, RetryBound, Handshake, Up, task05, task07
<1>5. CASE Boot
  <2>1. looped' = FALSE /\ door' = FALSE
    BY <1>5 DEF Boot
  <2>2. looped' \in BOOLEAN /\ door' \in BOOLEAN
    BY <2>1, Zenon
  <2>3. todo' \in Seq(Later) /\ todo' \in Seq(Exchange)
    BY <1>5 DEF Boot
  <2>4. sup' \in SupState /\ modem' \in ModemType /\ modem'.retry <= 2
    BY <1>5, Times DEF Boot, SupState, ModemType, ModemState, Restarted
  <2>5. dog' \in 0 .. Dog /\ left' \in 0 .. 10 * Second
    BY <1>5, WatchdogAssumption DEF Boot
  <2>6. count' = 0 /\ beats' = {} /\ hung' = {} /\ mqtt' = "IDLE" /\ spun' = 0 /\ reset' = "none"
    BY <1>5 DEF Boot
  <2> QED BY <2>2, <2>3, <2>4, <2>5, <2>6
        DEF TypeInv, TypeOK, SupState, ModemType, MqttState, CountBound, RetryBound,
            Handshake, MaxTimeouts
<1> QED BY <1>2, <1>3, <1>4, <1>5

LEMMA InitTypes == Init => TypeInv
<1> SUFFICES ASSUME Init PROVE TypeInv
  OBVIOUS
<1>1. looped \in BOOLEAN /\ door \in BOOLEAN
  BY Zenon DEF Init
<1>2. todo \in Seq(Later) /\ todo \in Seq(Exchange)
  BY DEF Init
<1>3. sup \in SupState /\ modem \in ModemType /\ modem.retry <= 2
  BY Times DEF Init, SupState, ModemType, ModemState, Restarted
<1>4. dog \in 0 .. Dog /\ left \in 0 .. 10 * Second
  BY WatchdogAssumption DEF Init
<1> QED BY <1>1, <1>2, <1>3, <1>4
      DEF Init, TypeInv, TypeOK, SupState, ModemType, MqttState, CountBound, RetryBound,
          Handshake, MaxTimeouts

LEMMA StepTypes == TypeInv /\ [Next]_vars => TypeInv'
<1> SUFFICES ASSUME TypeInv, [Next]_vars PROVE TypeInv'
  OBVIOUS
<1>1. CASE Answered
  <2>1. PICK ok \in BOOLEAN : Outcome(ok)
    BY <1>1 DEF Answered
  <2>2. Spinning /\ Up
    BY <1>1 DEF Answered
  <2> QED BY <2>1, <2>2, OutcomeTypes
<1>2. CASE TimedOut
  <2>1. Spinning /\ Up /\ Outcome(FALSE) /\ FALSE \in BOOLEAN
    BY <1>2 DEF TimedOut
  <2> QED BY <2>1, OutcomeTypes
<1>3. CASE UNCHANGED vars
  <2>1. TypeOK /\ UNCHANGED vars
    BY <1>3 DEF TypeInv
  <2>2. looped' \in BOOLEAN /\ door' \in BOOLEAN
    BY <2>1, Zenon DEF TypeOK, vars, task05
  <2> QED BY <2>1, <2>2
        DEF TypeInv, TypeOK, CountBound, RetryBound, Handshake, Up, vars, task05, task07
<1> QED BY <1>1, <1>2, <1>3, PollTypes, TickTypes, SupTypes, RestTypes DEF Next

LEMMA TypeInvariant == Spec => []TypeInv
BY InitTypes, StepTypes, PTL DEF Spec

-----------------------------------------------------------------------------
(* What a bite needs.                                                      *)

\* The longest Task07 can be where it is without a feed.
Period(at) ==
  CASE at = "BOOT"  -> Wait
    [] at = "READY" -> 1
    [] at = "WAIT"  -> Wait
    [] OTHER        -> Sleep

FedWhenDue == 7 \notin hung /\ sup.at # "PASSED" /\ sup.left > 0
                => dog <= Period(sup.at) - sup.left
FedOrSpun  == 7 \notin hung => dog <= Wait + spun
BittenLate == reset = "watchdog" => dog = Dog

BiteInv == FedWhenDue /\ FedOrSpun /\ BittenLate

\* A heartbeat either wakes Task07, which clears the bits, or joins them.
LEMMA BeatEffect ==
  ASSUME NEW B, NEW t, sup \in SupState, Beat(B, t)
  PROVE  \/ /\ sup.at = "WAIT" /\ sup.left > 0 /\ beats \cup B = Tasks
            /\ sup'.at = "PASSED" /\ beats' = {}
         \/ sup' = t /\ beats' = beats \cup B
BY DEF Beat, SupState

\* What the steps of Task05 have in common.
Work ==
  /\ Up /\ Ends(todo')
  /\ UNCHANGED <<dog, count, door, hung, reset>>

LEMMA Works == Poll \/ Answered \/ TimedOut => Work
BY DEF Poll, Answered, TimedOut, Outcome, Work

LEMMA BiteStep == TypeInv /\ BiteInv /\ [Next]_vars => BiteInv'
<1> SUFFICES ASSUME TypeInv, BiteInv, [Next]_vars PROVE BiteInv'
  OBVIOUS
<1> USE Times
<1>0. /\ dog \in Nat /\ spun \in Nat /\ sup \in SupState
      /\ FedWhenDue /\ FedOrSpun /\ BittenLate
  BY WatchdogAssumption DEF TypeInv, TypeOK, SupState, BiteInv
<1>1. CASE AwaitReady \/ Round \/ Passed \/ Late
  <2>1. dog' = 0 /\ reset' # "watchdog" /\ spun' = spun
    BY <1>1 DEF AwaitReady, Round, Passed, Late, SupRuns, Feed, Up, task05
  <2>2. sup'.at # "PASSED" => sup'.left = Period(sup'.at)
    BY <1>1 DEF AwaitReady, Round, Passed, Late, GoTo, Period
  <2>3. Period(sup'.at) \in Nat
    BY DEF Period
  <2> QED BY <1>0, <2>1, <2>2, <2>3 DEF BiteInv, FedWhenDue, FedOrSpun, BittenLate
<1>2. CASE Poll
  <2>1. Work
    BY <1>2, Works
  <2>2. sup'.at = "PASSED" \/ sup' = sup
    BY <1>0, <2>1, BeatEffect DEF Work, Ends
  <2>3. spun' = 0 /\ (sup.at = "PASSED" \/ sup.left = 0 => 7 \in hung)
    BY <1>2 DEF Poll, LowerRan, SupDue
  <2>4. 7 \notin hung => dog <= Wait
    <3>1. sup.left \in 0 .. Wait /\ Period(sup.at) \in Nat /\ Period(sup.at) <= Wait
      BY <1>0, WatchdogAssumption DEF SupState, Period, Wait
    <3> QED BY <1>0, <2>3, <3>1 DEF FedWhenDue, SupState
  <2> QED BY <1>0, <2>1, <2>2, <2>3, <2>4
        DEF Work, Up, BiteInv, FedWhenDue, FedOrSpun, BittenLate
<1>3. CASE Answered \/ TimedOut
  <2>1. Work
    BY <1>3, Works
  <2>2. sup'.at = "PASSED" \/ sup' = sup
    BY <1>0, <2>1, BeatEffect DEF Work, Ends
  <2>3. spun' = spun
    BY <1>3 DEF Answered, TimedOut, Outcome
  <2> QED BY <1>0, <2>1, <2>2, <2>3
        DEF Work, Up, BiteInv, FedWhenDue, FedOrSpun, BittenLate
<1>4. CASE Door
  <2>1. sup'.at = "PASSED" \/ sup' = sup
    BY <1>0, <1>4, BeatEffect DEF Door
  <2>2. UNCHANGED <<dog, spun, hung, reset>>
    BY <1>4 DEF Door, task05
  <2> QED BY <1>0, <2>1, <2>2 DEF BiteInv, FedWhenDue, FedOrSpun, BittenLate
<1>5. CASE Tick
  <2>1. dog' = dog + 1 /\ UNCHANGED <<hung, reset>> /\ reset = "none"
    BY <1>5 DEF Tick, Up
  <2>2. sup'.at = "PASSED" \/ sup' = Elapse(sup)
    BY <1>0, <1>5, BeatEffect DEF Tick
  <2>3. Elapse(sup).at = sup.at /\ Elapse(sup).left = IF sup.left > 0 THEN sup.left - 1 ELSE 0
    BY <1>0 DEF Elapse, SupState
  <2>4. sup.left \in Nat /\ Period(sup.at) \in Nat /\ Period(sup.at) <= Wait
    BY <1>0, WatchdogAssumption DEF SupState, Period, Wait
  <2>5. FedWhenDue'
    <3>1. CASE sup'.at = "PASSED"
      BY <3>1 DEF FedWhenDue
    <3>2. CASE sup' = Elapse(sup)
      BY <1>0, <2>1, <2>3, <2>4, <3>2 DEF FedWhenDue
    <3> QED BY <2>2, <3>1, <3>2
  <2>6. FedOrSpun'
    <3>1. CASE Spinning
      <4>1. spun' = spun + 1
        BY <1>5, <3>1 DEF Tick
      <4> QED BY <1>0, <2>1, <4>1 DEF FedOrSpun
    <3>2. CASE ~Spinning
      <4>1. 7 \in hung \/ (sup.at # "PASSED" /\ sup.left > 0)
        BY <1>0, <1>5, <3>2 DEF Tick, Settled, LowerRan, SupDue, SupState
      <4>2. spun' = spun
        BY <1>5, <3>2 DEF Tick
      <4> QED BY <1>0, <2>1, <2>4, <4>1, <4>2 DEF FedOrSpun, FedWhenDue
    <3> QED BY <3>1, <3>2
  <2> QED BY <2>1, <2>5, <2>6 DEF BiteInv, BittenLate
<1>6. CASE Hang
  BY <1>0, <1>6 DEF Hang, task05, task07, BiteInv, FedWhenDue, FedOrSpun, BittenLate
<1>7. CASE Bite
  BY <1>0, <1>7 DEF Bite, task05, task07, BiteInv, FedWhenDue, FedOrSpun, BittenLate
<1>8. CASE Boot
  BY <1>0, <1>8 DEF Boot, Period, BiteInv, FedWhenDue, FedOrSpun, BittenLate
<1>9. CASE UNCHANGED vars
  BY <1>0, <1>9 DEF vars, task05, task07, BiteInv, FedWhenDue, FedOrSpun, BittenLate
<1> QED BY <1>1, <1>2, <1>3, <1>4, <1>5, <1>6, <1>7, <1>8, <1>9 DEF Next

LEMMA BiteInvariant == Spec => []BiteInv
<1>1. Init => BiteInv
  BY Times DEF Init, BiteInv, FedWhenDue, FedOrSpun, BittenLate, Period
<1> QED BY <1>1, BiteStep, TypeInvariant, PTL DEF Spec

-----------------------------------------------------------------------------
(* What keeps the alarm quiet, as long as no task hangs.                   *)

\* Task05 sleeps its first three seconds.
Starting == ~Spinning /\ left > 0

CountdownInv ==
  Starting =>
    /\ 5 \notin beats
    /\ sup.at \in {"BOOT", "READY", "WAIT"}
    /\ sup.at = "BOOT"  => left = sup.left + Second
    /\ sup.at = "READY" => left <= Second
    /\ sup.at = "WAIT"  => left < sup.left

\* Time has passed since the bits were last cleared.
Aged == \/ sup.at = "BOOT"  /\ sup.left < Wait
        \/ sup.at = "READY"
        \/ sup.at = "SLEEP" /\ sup.left < Sleep
        \/ sup.at = "WAIT"

Heard5 == /\ looped /\ (Aged \/ sup.at = "BOOT") => 5 \in beats
          /\ sup.at = "WAIT" /\ sup.left = 0 /\ ~Spinning => 5 \in beats
Heard7 == sup.at = "WAIT" => 7 \in beats
Heard8 == /\ ~door /\ Aged => 8 \in beats
          /\ sup.at = "WAIT" /\ (sup.left < Wait \/ Spinning) => 8 \in beats
HeardAbove == sup.at = "WAIT" /\ sup.left < Wait => {2, 3, 4, 6} \subseteq beats

AlarmInv ==
  hung = {} => count = 0 /\ CountdownInv /\ Heard5 /\ Heard7 /\ Heard8 /\ HeardAbove

\* All the bits together are all the tasks.
LEMMA AllHeard ==
  ASSUME beats \in SUBSET Tasks, {2, 3, 4, 6} \subseteq beats,
         5 \in beats, 7 \in beats, 8 \in beats
  PROVE  beats = Tasks
<1>1. Tasks = {2, 3, 4, 5, 6, 7, 8}
  BY DEF Tasks
<1>2. \A n \in Tasks : n \in beats
  BY <1>1
<1> QED BY <1>2

Quiet == count = 0 /\ CountdownInv /\ Heard5 /\ Heard7 /\ Heard8 /\ HeardAbove

LEMMA QuietSup ==
  TypeInv /\ Quiet /\ hung = {} /\ (AwaitReady \/ Round \/ Passed \/ Late) => Quiet'
<1> SUFFICES ASSUME TypeInv, Quiet, hung = {}, AwaitReady \/ Round \/ Passed \/ Late
             PROVE  Quiet'
  OBVIOUS
<1> USE Times, WatchdogAssumption
<1>1. sup \in SupState /\ beats \in SUBSET Tasks /\ left \in Nat /\ count = 0
  BY DEF TypeInv, TypeOK, SupState, Quiet
<1>2. UNCHANGED <<todo, left, looped, door>> /\ ~Spinning /\ ~Spinning'
  BY DEF AwaitReady, Round, Passed, Late, SupRuns, task05, Spinning
<1>3. CASE AwaitReady
  <2>1. /\ sup.at \in {"BOOT", "READY"} /\ sup.left = 0
        /\ sup' = [at |-> "READY", left |-> 1] /\ beats' = beats /\ count' = count
    BY <1>3 DEF AwaitReady, SupRuns, SupDue, GoTo
  <2> QED BY <1>1, <1>2, <2>1
        DEF Quiet, CountdownInv, Starting, Heard5, Heard7, Heard8, HeardAbove, Aged, Wait
<1>4. CASE Round
  <2>1. sup.at \in {"BOOT", "READY", "SLEEP"} /\ sup.left = 0 /\ count' = count
    BY <1>4 DEF Round, SupRuns, SupDue
  <2>2. Starting => 5 \notin beats /\ left <= Second
    BY <1>1, <2>1 DEF Quiet, CountdownInv
  <2>3. CASE beats \cup {7} = Tasks
    <3>1. sup' = [at |-> "PASSED", left |-> 0] /\ beats' = {}
      BY <1>4, <2>3 DEF Round, GoTo
    <3>2. ~Starting'
      BY <1>2, <2>2, <2>3 DEF Starting, Tasks
    <3> QED BY <1>1, <2>1, <3>1, <3>2
          DEF Quiet, CountdownInv, Heard5, Heard7, Heard8, HeardAbove, Aged
  <2>4. CASE beats \cup {7} # Tasks
    <3>1. sup' = [at |-> "WAIT", left |-> Wait] /\ beats' = beats \cup {7}
      BY <1>4, <2>4 DEF Round, GoTo
    <3>2. Starting' => 5 \notin beats' /\ left' < Wait
      BY <1>1, <1>2, <2>2, <3>1 DEF Starting, Wait
    <3>3. (looped => 5 \in beats) /\ (~door => 8 \in beats)
      BY <2>1 DEF Quiet, Heard5, Heard8, Aged
    <3> QED BY <1>1, <1>2, <2>1, <3>1, <3>2, <3>3
          DEF Quiet, CountdownInv, Heard5, Heard7, Heard8, HeardAbove, Aged
  <2> QED BY <2>3, <2>4
<1>5. CASE Passed
  <2>1. sup.at = "PASSED" /\ sup' = [at |-> "SLEEP", left |-> Sleep] /\ beats' = beats /\ count' = 0
    BY <1>5 DEF Passed, GoTo
  <2>2. ~Starting'
    BY <1>2, <2>1 DEF Quiet, CountdownInv, Starting
  <2> QED BY <1>1, <2>1, <2>2
        DEF Quiet, CountdownInv, Heard5, Heard7, Heard8, HeardAbove, Aged
<1>6. CASE Late
  <2>1. sup.at = "WAIT" /\ sup.left = 0 /\ sup' = [at |-> "SLEEP", left |-> Sleep]
    BY <1>6 DEF Late, SupRuns, SupDue, GoTo
  <2>2. beats = Tasks
    <3>1. 5 \in beats /\ 7 \in beats /\ 8 \in beats /\ {2, 3, 4, 6} \subseteq beats
      BY <1>2, <2>1 DEF Quiet, Heard5, Heard7, Heard8, HeardAbove
    <3> QED BY <1>1, <3>1, AllHeard
  <2>3. count' = 0 /\ beats' = {}
    BY <1>6, <2>2 DEF Late
  <2>4. ~Starting'
    BY <1>1, <1>2, <2>1 DEF Quiet, CountdownInv, Starting
  <2> QED BY <1>1, <2>1, <2>3, <2>4
        DEF Quiet, CountdownInv, Heard5, Heard7, Heard8, HeardAbove, Aged
<1> QED BY <1>3, <1>4, <1>5, <1>6

\* Task05: its poll begins only when Task08 has run.
LEMMA QuietWork ==
  TypeInv /\ Quiet /\ hung = {} /\ (Poll \/ Answered \/ TimedOut) => Quiet'
<1> SUFFICES ASSUME TypeInv, Quiet, hung = {}, Poll \/ Answered \/ TimedOut
             PROVE  Quiet'
  OBVIOUS
<1>1. sup \in SupState /\ beats \in SUBSET Tasks /\ left \in Nat
  BY WatchdogAssumption DEF TypeInv, TypeOK, SupState
<1>2. Work /\ count' = count /\ door' = door
  BY Works DEF Work
<1>3. ~Starting
  <2>1. left = 0 \/ Spinning
    BY DEF Poll, Answered, TimedOut
  <2> QED BY <2>1 DEF Starting
<1>4. Spinning \/ sup.at # "WAIT" \/ 8 \in beats
  <2>1. CASE Poll
    BY <2>1 DEF Poll, LowerRan, Quiet, Heard8, Aged
  <2>2. CASE Answered \/ TimedOut
    BY <2>2 DEF Answered, TimedOut
  <2> QED BY <2>1, <2>2
<1>5. CASE todo' = <<>>
  <2>1. looped' = TRUE /\ left' = 0 /\ Beat({5}, sup)
    BY <1>2, <1>5 DEF Work, Ends
  <2>2. ~Starting' /\ ~Spinning'
    BY <1>5, <2>1 DEF Starting, Spinning
  <2>3. CASE sup'.at = "PASSED" /\ beats' = {}
    BY <1>2, <2>2, <2>3
       DEF Quiet, CountdownInv, Heard5, Heard7, Heard8, HeardAbove, Aged
  <2>4. CASE sup' = sup /\ beats' = beats \cup {5}
    BY <1>1, <1>2, <1>4, <2>1, <2>2, <2>4
       DEF Quiet, CountdownInv, Heard5, Heard7, Heard8, HeardAbove, Aged
  <2> QED BY <1>1, <2>1, <2>3, <2>4, BeatEffect
<1>6. CASE todo' # <<>>
  <2>1. UNCHANGED <<looped, beats, sup>> /\ Spinning' /\ ~Starting'
    BY <1>2, <1>6 DEF Work, Ends, Spinning, Starting
  <2> QED BY <1>1, <1>2, <1>4, <2>1
        DEF Quiet, CountdownInv, Heard5, Heard7, Heard8, HeardAbove, Aged
<1> QED BY <1>5, <1>6

LEMMA QuietDoor == TypeInv /\ Quiet /\ hung = {} /\ Door => Quiet'
<1> SUFFICES ASSUME TypeInv, Quiet, Door PROVE Quiet'
  OBVIOUS
<1>1. sup \in SupState /\ beats \in SUBSET Tasks
  BY DEF TypeInv, TypeOK, SupState
<1>2. Beat({8}, sup) /\ door' = FALSE /\ UNCHANGED <<count, todo, left, looped>>
  BY DEF Door, task05
<1>3. Spinning' = Spinning /\ Starting' = Starting
  BY <1>2 DEF Spinning, Starting
<1>4. CASE beats \cup {8} = Tasks /\ sup'.at = "PASSED" /\ beats' = {}
  <2>1. ~Starting
    BY <1>4 DEF Quiet, CountdownInv, Tasks
  <2> QED BY <1>2, <1>3, <1>4, <2>1
        DEF Quiet, CountdownInv, Heard5, Heard7, Heard8, HeardAbove, Aged
<1>5. CASE sup' = sup /\ beats' = beats \cup {8}
  BY <1>1, <1>2, <1>3, <1>5
     DEF Quiet, CountdownInv, Heard5, Heard7, Heard8, HeardAbove, Aged
<1> QED BY <1>1, <1>2, <1>4, <1>5, BeatEffect

\* A tick: Task07 and Task08 have run since the last one, or Task05 spins.
LEMMA QuietTick == TypeInv /\ Quiet /\ hung = {} /\ Tick => Quiet'
<1> SUFFICES ASSUME TypeInv, Quiet, hung = {}, Tick PROVE Quiet'
  OBVIOUS
<1> USE Times, WatchdogAssumption
<1>1. sup \in SupState /\ sup.left \in Nat /\ beats \in SUBSET Tasks /\ left \in Nat
  BY DEF TypeInv, TypeOK, SupState
<1>2. /\ looped' = FALSE /\ door' = TRUE /\ count' = count /\ todo' = todo
      /\ left' = IF left > 0 THEN left - 1 ELSE 0
  BY DEF Tick
<1>3. Beating = {2, 3, 4, 6} /\ Beat(Beating, Elapse(sup))
  BY DEF Tick, Beating
<1>4. Spinning' = Spinning /\ (Starting' => Starting)
  BY <1>1, <1>2 DEF Spinning, Starting
<1>5. ~Spinning => /\ sup.at # "PASSED" /\ sup.left > 0 /\ ~door
                   /\ Starting \/ looped
  BY <1>1 DEF Tick, Settled, LowerRan, SupDue, Starting
<1>6. CASE beats \cup Beating = Tasks /\ sup'.at = "PASSED" /\ beats' = {}
  <2>1. ~Starting
    BY <1>3, <1>6 DEF Quiet, CountdownInv, Tasks
  <2> QED BY <1>2, <1>4, <1>6, <2>1
        DEF Quiet, CountdownInv, Heard5, Heard7, Heard8, HeardAbove, Aged
<1>7. CASE sup' = Elapse(sup) /\ beats' = beats \cup Beating
  <2>1. sup'.at = sup.at /\ sup'.left = IF sup.left > 0 THEN sup.left - 1 ELSE 0
    BY <1>1, <1>7 DEF Elapse, SupState
  <2>2. CountdownInv'
    <3>1. SUFFICES ASSUME Starting' PROVE CountdownInv'
      BY DEF CountdownInv
    <3>2. Starting /\ left' = left - 1 /\ sup'.left = sup.left - 1 /\ sup.left > 0
      BY <1>1, <1>2, <1>4, <1>5, <2>1, <3>1 DEF Starting
    <3> QED BY <1>1, <1>3, <1>7, <2>1, <3>2 DEF Quiet, CountdownInv
  <2>3. Heard5'
    <3>1. SUFFICES ASSUME sup.at = "WAIT", sup'.left = 0, ~Spinning PROVE 5 \in beats
      BY <1>2, <1>4, <1>7, <2>1 DEF Heard5
    <3>2. CASE looped
      BY <3>1, <3>2 DEF Quiet, Heard5, Aged
    <3>3. CASE Starting
      BY <1>1, <1>5, <2>1, <3>1, <3>3 DEF Quiet, CountdownInv, Starting
    <3> QED BY <1>5, <3>1, <3>2, <3>3
  <2>4. Heard7'
    BY <1>7, <2>1 DEF Quiet, Heard7
  <2>5. Heard8'
    <3>1. SUFFICES ASSUME sup.at = "WAIT" PROVE 8 \in beats
      BY <1>2, <1>7, <2>1 DEF Heard8
    <3> QED BY <1>5, <3>1 DEF Quiet, Heard8, Aged
  <2>6. HeardAbove'
    BY <1>3, <1>7 DEF HeardAbove
  <2> QED BY <1>2, <2>2, <2>3, <2>4, <2>5, <2>6 DEF Quiet
<1> QED BY <1>1, <1>3, <1>6, <1>7, BeatEffect

LEMMA QuietStart ==
  /\ Init => Quiet
  /\ Boot => Quiet'
<1>1. Init => Quiet
  BY Times, WatchdogAssumption
     DEF Init, Quiet, CountdownInv, Starting, Spinning, Heard5, Heard7, Heard8,
         HeardAbove, Aged, Wait
<1>2. Boot => Quiet'
  BY Times, WatchdogAssumption
     DEF Boot, Quiet, CountdownInv, Starting, Spinning, Heard5, Heard7, Heard8,
         HeardAbove, Aged, Wait
<1> QED BY <1>1, <1>2

LEMMA AlarmStep == TypeInv /\ AlarmInv /\ [Next]_vars => AlarmInv'
<1> SUFFICES ASSUME TypeInv, AlarmInv, [Next]_vars, hung' = {} PROVE Quiet'
  BY DEF AlarmInv, Quiet
<1>1. CASE Boot
  BY <1>1, QuietStart
<1>2. CASE Hang
  BY <1>2 DEF Hang
<1>3. CASE Bite \/ UNCHANGED vars
  <2>1. UNCHANGED <<beats, sup, count, todo, left, looped, door, hung>>
    BY <1>3 DEF Bite, vars, task05, task07
  <2> QED BY <2>1
        DEF AlarmInv, Quiet, CountdownInv, Starting, Spinning, Heard5, Heard7, Heard8,
            HeardAbove, Aged
<1>4. CASE ~Boot /\ ~Hang /\ ~Bite /\ Next
  <2>1. hung = {}
    BY <1>4 DEF Next, AwaitReady, Round, Passed, Late, Poll, Answered, TimedOut, Outcome, Door, Tick
  <2> QED BY <1>4, <2>1, QuietSup, QuietWork, QuietDoor, QuietTick
        DEF Next, AlarmInv, Quiet
<1> QED BY <1>1, <1>2, <1>3, <1>4

LEMMA AlarmInvariant == Spec => []AlarmInv
<1>1. Init => AlarmInv
  BY QuietStart DEF AlarmInv, Quiet
<1> QED BY <1>1, AlarmStep, TypeInvariant, PTL DEF Spec

-----------------------------------------------------------------------------

\* The state of the supervision keeps its ranges: no counter of timeouts or of
\* attempts runs past its limit.
THEOREM TypeCorrect == Spec => []TypeOK
<1>1. TypeInv => TypeOK
  BY DEF TypeInv
<1> QED BY <1>1, TypeInvariant, PTL

\* However long a second and the watchdog's time are, it bites only when Task07
\* hangs or a poll of Task05 spins for all but 2 s of that time.
THEOREM BiteExplained == Spec => []BiteNeedsSpin
<1>1. TypeInv /\ BiteInv => BiteNeedsSpin
  BY Times, WatchdogAssumption
     DEF TypeInv, TypeOK, BiteInv, FedOrSpun, BittenLate, BiteNeedsSpin
<1> QED BY <1>1, TypeInvariant, BiteInvariant, PTL

\* As long as no task hangs no round of Task07 misses a heartbeat, however
\* long the modem keeps Task05 spinning.
THEOREM Quietness == Spec => []NoFalseAlarm
<1>1. AlarmInv => NoFalseAlarm
  BY DEF AlarmInv, NoFalseAlarm
<1> QED BY <1>1, AlarmInvariant, PTL

=============================================================================
