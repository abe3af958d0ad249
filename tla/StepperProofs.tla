---------------------------- MODULE StepperProofs ----------------------------
(***************************************************************************)
(* The two motors on the shared timer never turn together and a turning    *)
(* motor has its own pulse rate, for any number of motors, any speeds and  *)
(* accelerations and any frames.                                           *)
(*                                                                         *)
(* The exclusion rests on the state that MotorRun looks at: a motor that   *)
(* turns is never in state STOPPED, and one that has a target turns.       *)
(***************************************************************************)
EXTENDS Stepper, TLAPS

TurningIsKnown ==
  \A m \in Motors : motor[m].rpm > 0 =>
    motor[m].state # "STOPPED" /\ (motor[m].stop_request \/ motor[m].target > 0)

HasTarget == \A m \in Motors : motor[m].target > 0 => motor[m].rpm > 0


Axes == TurningIsKnown /\ HasTarget /\ OneTurns /\ OwnRate
IInv == TypeOK /\ Axes

-----------------------------------------------------------------------------
(* The operators *)

\* Of the two motors on the shared timer, the peer is the other one.
LEMMA PeerFact ==
  ASSUME NEW m \in Shared
  PROVE  /\ Peer(m) \in Shared /\ Peer(m) # m /\ m \in Motors /\ Peer(m) \in Motors
         /\ \A p \in Shared : p = m \/ p = Peer(m)
<1>1. PICK a, b \in Motors : a # b /\ Shared = {a, b}
  BY SharedAssumption
<1>2. \E p \in Shared : p # m
  BY <1>1
<1>3. Peer(m) \in Shared /\ Peer(m) # m
  BY <1>2 DEF Peer
<1> QED BY <1>1, <1>3

\* The ramp advances by at least 1 rpm, at the latest after UpdateHz ticks.
LEMMA RampFact ==
  ASSUME NEW c \in Config
  PROVE  RpmStep(c) \in Nat \ {0} /\ TicksPerStep(c) \in Nat /\ TicksPerStep(c) <= UpdateHz
<1>1. c.accel \in Nat \ {0} /\ UpdateHz \in Nat \ {0}
  BY RateAssumption DEF Config
<1>2. \A n, d \in Nat \ {0} : n \div d \in Nat /\ n \div d <= n
  BY SMTT(30)
<1>3. \A n, d \in Nat \ {0} : n >= d => n \div d >= 1
  BY SMTT(30)
<1>4. RpmStep(c) \in Nat \ {0}
  <2>1. CASE c.accel >= UpdateHz
    <3>1. c.accel \div UpdateHz \in Nat /\ c.accel \div UpdateHz >= 1
      BY <1>1, <1>2, <1>3, <2>1
    <3> QED BY <2>1, <3>1 DEF RpmStep
  <2>2. CASE ~(c.accel >= UpdateHz)
    BY <2>2 DEF RpmStep
  <2> QED BY <2>1, <2>2
<1>5. TicksPerStep(c) \in Nat /\ TicksPerStep(c) <= UpdateHz
  <2>1. CASE c.accel >= UpdateHz
    BY <1>1, <2>1 DEF TicksPerStep
  <2>2. CASE ~(c.accel >= UpdateHz)
    <3>1. UpdateHz \div c.accel \in Nat /\ UpdateHz \div c.accel <= UpdateHz
      BY <1>1, <1>2
    <3> QED BY <2>2, <3>1 DEF TicksPerStep
  <2> QED BY <2>1, <2>2
<1> QED BY <1>4, <1>5

LEMMA LimitedFact ==
  ASSUME NEW v \in Int, NEW lo \in Int, NEW hi \in Int, lo <= hi
  PROVE  Limited(v, lo, hi) \in lo .. hi
BY DEF Limited

\* One step towards the target changes the speed and the state only, and ends
\* between the two speeds.
LEMMA TowardFact ==
  ASSUME NEW c \in Config, c.rpm # c.target
  PROVE  /\ Toward(c) \in Config /\ Toward(c).target = c.target
         /\ Toward(c).stop_request = c.stop_request /\ Toward(c).state # "STOPPED"
<1> DEFINE step == RpmStep(c)
<1>1. step \in Nat \ {0}
  BY RampFact
<1>2. c.rpm \in 0 .. MaxRpm /\ c.target \in 0 .. MaxRpm /\ MaxRpm \in Nat
  BY MotorAssumption DEF Config
<1>3. PICK r \in 0 .. MaxRpm, st \in Moving : Toward(c) = [c EXCEPT !.rpm = r, !.state = st]
  <2> DEFINE gap == IF c.rpm < c.target THEN c.target - c.rpm ELSE c.rpm - c.target
  <2>1. CASE gap <= step
    <3>1. Toward(c) = [c EXCEPT !.rpm = c.target, !.state = "RUNNING"]
      BY <2>1 DEF Toward
    <3> QED BY <3>1, <1>2 DEF Moving
  <2>2. CASE ~(gap <= step) /\ c.rpm < c.target
    <3>1. Toward(c) = [c EXCEPT !.rpm = c.rpm + step, !.state = "ACCELERATING"]
      BY <2>2 DEF Toward
    <3>2. c.rpm + step \in 0 .. MaxRpm
      BY <1>1, <1>2, <2>2
    <3> QED BY <3>1, <3>2 DEF Moving
  <2>3. CASE ~(gap <= step) /\ ~(c.rpm < c.target)
    <3>1. Toward(c) = [c EXCEPT !.rpm = c.rpm - step, !.state = "DECELERATING"]
      BY <2>3 DEF Toward
    <3>2. c.rpm - step \in 0 .. MaxRpm
      BY <1>1, <1>2, <2>3
    <3> QED BY <3>1, <3>2 DEF Moving
  <2> QED BY <2>1, <2>2, <2>3
<1>4. st # "STOPPED"
  BY <1>3 DEF Moving
<1> QED BY <1>3, <1>4 DEF Config

-----------------------------------------------------------------------------
(* The steps of one motor *)

\* What a step of motor m must leave for the invariant to go on holding.
Kept(m) ==
  /\ motor'[m].rpm > 0 =>
       /\ motor'[m].state # "STOPPED" /\ (motor'[m].stop_request \/ motor'[m].target > 0)
       /\ pulse'[m] = motor'[m].rpm
       /\ motor[m].rpm > 0 \/ PeerStopped(m)
  /\ motor'[m].target > 0 => motor'[m].rpm > 0
  /\ \A p \in Motors : p # m =>
       motor'[p] = motor[p] /\ (motor[p].rpm > 0 => pulse'[p] = pulse[p])

LEMMA KeptKeeps ==
  ASSUME IInv, NEW m \in Motors, Kept(m), motor'[m].rpm \in Nat
  PROVE  Axes'
<1>1. TurningIsKnown'
  BY DEF IInv, Axes, TurningIsKnown, Kept
<1>2. HasTarget'
  BY DEF IInv, Axes, HasTarget, Kept
<1>3. OwnRate'
  BY DEF IInv, Axes, OwnRate, Kept
<1>4. OneTurns'
  <2> SUFFICES ASSUME NEW a \in Shared, NEW b \in Shared, a # b
               PROVE  motor'[a].rpm = 0 \/ motor'[b].rpm = 0
    BY DEF OneTurns
  <2>0. a \in Motors /\ b \in Motors
    BY SharedAssumption
  <2>1. CASE a # m /\ b # m
    BY <2>0, <2>1 DEF Kept, IInv, Axes, OneTurns
  <2>2. \A p, q \in Shared : p = m /\ q # m /\ motor'[p].rpm > 0 => motor'[q].rpm = 0
    <3> SUFFICES ASSUME NEW q \in Shared, q # m, m \in Shared, motor'[m].rpm > 0
                 PROVE  motor'[q].rpm = 0
      OBVIOUS
    <3>1. q \in Motors /\ q = Peer(m) /\ motor'[q] = motor[q]
      BY PeerFact DEF Kept
    <3>2. CASE motor[m].rpm > 0
      <4>1. motor[m].rpm \in Nat
        BY DEF IInv, TypeOK, Config
      <4> QED BY <3>1, <3>2, <4>1 DEF IInv, Axes, OneTurns
    <3>3. CASE PeerStopped(m)
      <4>1. motor[q].state = "STOPPED"
        BY <3>1, <3>3 DEF PeerStopped
      <4>2. motor[q].rpm \in Nat
        BY <3>1 DEF IInv, TypeOK, Config
      <4> QED BY <3>1, <4>1, <4>2 DEF IInv, Axes, TurningIsKnown
    <3> QED BY <3>2, <3>3 DEF Kept
  <2>3. motor[a].rpm \in Nat /\ motor[b].rpm \in Nat
    BY <2>0 DEF IInv, TypeOK, Config
  <2>4. CASE a = m
    BY <2>0, <2>2, <2>3, <2>4
  <2>5. CASE b = m
    BY <2>0, <2>2, <2>3, <2>5
  <2> QED BY <2>1, <2>4, <2>5
<1> QED BY <1>1, <1>2, <1>3, <1>4 DEF Axes

\* Setting the rate of a motor leaves every other motor that turns its own,
\* when the peer is known not to turn.
LEMMA SetRate ==
  ASSUME IInv, NEW m \in Motors, NEW r \in 0 .. MaxRpm, set_pwm_frequency(m, r),
         motor[m].rpm > 0 \/ PeerStopped(m)
  PROVE  /\ pulse' \in [Motors -> 0 .. MaxRpm] /\ pulse'[m] = r
         /\ \A p \in Motors : p # m /\ motor[p].rpm > 0 => pulse'[p] = pulse[p]
<1>1. \A p \in Motors : motor[p].rpm \in Nat /\ pulse[p] \in 0 .. MaxRpm
  BY DEF IInv, TypeOK, Config
<1>2. pulse' \in [Motors -> 0 .. MaxRpm] /\ pulse'[m] = r
  BY <1>1, MotorAssumption DEF set_pwm_frequency
<1>3. ASSUME NEW p \in Motors, p # m, motor[p].rpm > 0
      PROVE  pulse'[p] = pulse[p]
  <2>1. CASE m \in Shared /\ p = Peer(m)
    <3>1. p \in Shared
      BY <2>1, PeerFact
    <3>2. motor[m].rpm = 0
      BY <1>1, <1>3, <2>1, <3>1 DEF IInv, Axes, OneTurns
    <3>3. motor[p].state = "STOPPED"
      BY <1>1, <2>1, <3>2 DEF PeerStopped
    <3> QED BY <1>3, <3>3 DEF IInv, Axes, TurningIsKnown
  <2>2. CASE ~(m \in Shared /\ p = Peer(m))
    BY <1>3, <2>2 DEF set_pwm_frequency
  <2> QED BY <2>1, <2>2
<1> QED BY <1>2, <1>3

\* A step that only changes motor m's entry, to c, and its pulses.
LEMMA OneMotor ==
  ASSUME IInv, NEW m \in Motors, NEW c \in Config,
         motor' = [motor EXCEPT ![m] = c],
         pulse' \in [Motors -> 0 .. MaxRpm],
         \A p \in Motors : p # m /\ motor[p].rpm > 0 => pulse'[p] = pulse[p],
         c.rpm > 0 => /\ c.state # "STOPPED" /\ (c.stop_request \/ c.target > 0)
                      /\ pulse'[m] = c.rpm
                      /\ motor[m].rpm > 0 \/ PeerStopped(m),
         c.target > 0 => c.rpm > 0
  PROVE  motor' \in [Motors -> Config] /\ pulse' \in [Motors -> 0 .. MaxRpm] /\ Axes'
<1>1. motor \in [Motors -> Config]
  BY DEF IInv, TypeOK
<1>2. motor' \in [Motors -> Config] /\ motor'[m] = c
      /\ \A p \in Motors : p # m => motor'[p] = motor[p]
  BY <1>1
<1>3. Kept(m) /\ motor'[m].rpm \in Nat
  <2>1. c.rpm \in Nat
    BY DEF Config
  <2> QED BY <1>2, <2>1 DEF Kept
<1> QED BY <1>2, <1>3, KeptKeeps

\* What the steps assume and leave: the configuration and the pulses.
AxesType == motor' \in [Motors -> Config] /\ pulse' \in [Motors -> 0 .. MaxRpm]

LEMMA EntryFact ==
  ASSUME IInv, NEW m \in Motors
  PROVE  /\ motor \in [Motors -> Config] /\ motor[m] \in Config
         /\ pulse \in [Motors -> 0 .. MaxRpm] /\ motor[m].rpm \in 0 .. MaxRpm
         /\ motor[m].target \in 0 .. MaxRpm /\ 0 \in 0 .. MaxRpm /\ MIN_RPM \in 0 .. MaxRpm
         /\ motor[m].rpm > 0 => /\ motor[m].state # "STOPPED"
                                /\ motor[m].stop_request \/ motor[m].target > 0
                                /\ pulse[m] = motor[m].rpm
         /\ motor[m].target > 0 => motor[m].rpm > 0
BY MotorAssumption
   DEF IInv, TypeOK, Config, Axes, TurningIsKnown, HasTarget, OwnRate, MIN_RPM

LEMMA ResetFact ==
  ASSUME NEW c \in Config
  PROVE  /\ reset_motor_state(c) \in Config
         /\ reset_motor_state(c).rpm = 0 /\ reset_motor_state(c).target = 0
<1>1. 0 \in 0 .. MaxRpm
  BY MotorAssumption
<1> QED BY <1>1 DEF reset_motor_state, Config

\* stop_pwm_output and reset_motor_state bring a motor to rest.
LEMMA HaltStep ==
  ASSUME IInv, NEW m \in Motors, NEW c \in Config,
         motor' = [motor EXCEPT ![m] = reset_motor_state(c)], stop_pwm_output(m)
  PROVE  AxesType /\ Axes'
<1> DEFINE d == reset_motor_state(c)
<1>1. d \in Config /\ d.rpm = 0 /\ d.target = 0
  BY ResetFact
<1>2. /\ pulse' \in [Motors -> 0 .. MaxRpm]
      /\ \A p \in Motors : p # m => pulse'[p] = pulse[p]
  BY EntryFact DEF stop_pwm_output
<1>3. motor' = [motor EXCEPT ![m] = d]
  OBVIOUS
<1>4. d.target > 0 => d.rpm > 0
  BY <1>1
<1>5. ~(d.rpm > 0)
  BY <1>1
<1> HIDE DEF d
<1> QED BY <1>1, <1>2, <1>3, <1>4, <1>5, OneMotor DEF AxesType

\* A step that leaves the pulses alone.
LEMMA QuietStep ==
  ASSUME IInv, NEW m \in Motors, NEW c \in Config,
         motor' = [motor EXCEPT ![m] = c], UNCHANGED pulse,
         c.rpm = motor[m].rpm,
         c.rpm > 0 => c.state # "STOPPED" /\ (c.stop_request \/ c.target > 0),
         c.target > 0 => c.rpm > 0
  PROVE  AxesType /\ Axes'
<1>1. pulse' \in [Motors -> 0 .. MaxRpm]
  BY EntryFact
<1>2. c.rpm > 0 => pulse'[m] = c.rpm /\ motor[m].rpm > 0
  BY EntryFact
<1> QED BY <1>1, <1>2, OneMotor DEF AxesType

\* The entry MotorRun leaves.
Started(d, dir, g, r, s) ==
  [d EXCEPT !.dir = dir, !.target = g, !.stop_request = FALSE, !.rpm = r, !.state = s]

LEMMA StartFact ==
  ASSUME NEW d \in Config, NEW dir \in {"CW", "CCW"}, NEW r \in 0 .. MaxRpm,
         NEW g \in 0 .. MaxRpm, NEW s \in Moving
  PROVE  /\ Started(d, dir, g, r, s) \in Config
         /\ Started(d, dir, g, r, s).rpm = r /\ Started(d, dir, g, r, s).target = g
         /\ Started(d, dir, g, r, s).state = s
BY DEF Config, Started

LEMMA RunStep ==
  ASSUME IInv, NEW m \in Motors, NEW asked \in Int, NEW dir \in {"CW", "CCW"},
         MotorRun(m, asked, dir)
  PROVE  AxesType /\ Axes'
<1> DEFINE rpm     == Limited(asked, MIN_RPM, MaxRpm)
           current == IF motor[m].rpm = 0 THEN MIN_RPM ELSE motor[m].rpm
           st      == IF current < rpm THEN "ACCELERATING" ELSE "RUNNING"
           c       == Started(motor[m], dir, rpm, current, st)
<1>1. CASE ~PeerStopped(m)
  <2>1. UNCHANGED <<motor, pulse>>
    BY <1>1 DEF MotorRun
  <2> QED BY <2>1, EntryFact DEF AxesType, IInv, Axes, TurningIsKnown, HasTarget, OneTurns, OwnRate
<1>2. CASE PeerStopped(m)
  <2>1. rpm \in 1 .. MaxRpm
    BY MotorAssumption DEF Limited, MIN_RPM
  <2>2. current \in 1 .. MaxRpm
    <3>1. motor[m].rpm \in 0 .. MaxRpm
      BY EntryFact
    <3>2. CASE motor[m].rpm = 0
      BY <3>2, MotorAssumption DEF MIN_RPM
    <3>3. CASE motor[m].rpm # 0
      BY <3>1, <3>3, MotorAssumption
    <3> QED BY <3>2, <3>3
  <2>3. st \in {"ACCELERATING", "RUNNING"}
    OBVIOUS
  <2> HIDE DEF st
  <2>4. c \in Config /\ c.rpm = current /\ c.target = rpm /\ c.state = st
    <3>1. motor[m] \in Config
      BY EntryFact
    <3>2. current \in 0 .. MaxRpm /\ rpm \in 0 .. MaxRpm /\ st \in Moving
      BY <2>1, <2>2, <2>3 DEF Moving
    <3> HIDE DEF current, rpm
    <3> QED BY <3>1, <3>2, StartFact
  <2>5. motor' = [motor EXCEPT ![m] = c]
    <3>1. motor' = [motor EXCEPT ![m].dir = dir, ![m].target = rpm, ![m].stop_request = FALSE,
                                 ![m].rpm = current, ![m].state = st]
      BY <1>2 DEF MotorRun, st
    <3> QED BY <3>1, EntryFact DEF Started
  <2>6. /\ pulse' \in [Motors -> 0 .. MaxRpm] /\ pulse'[m] = current
        /\ \A p \in Motors : p # m /\ motor[p].rpm > 0 => pulse'[p] = pulse[p]
    <3>1. CASE motor[m].rpm = 0
      <4>1. set_pwm_frequency(m, MIN_RPM)
        BY <1>2, <3>1 DEF MotorRun
      <4>2. current = MIN_RPM
        BY <3>1
      <4> QED BY <1>2, <4>1, <4>2, SetRate, EntryFact
    <3>2. CASE motor[m].rpm # 0
      <4>1. UNCHANGED pulse
        BY <1>2, <3>2 DEF MotorRun
      <4>2. current = motor[m].rpm
        BY <3>2
      <4> QED BY <3>2, <4>1, <4>2, EntryFact
    <3> QED BY <3>1, <3>2
  <2>7. c.rpm > 0 /\ c.target > 0 /\ c.state # "STOPPED"
    BY <2>1, <2>2, <2>3, <2>4
  <2> HIDE DEF c, current, rpm
  <2> QED BY <1>2, <2>4, <2>5, <2>6, <2>7, OneMotor DEF AxesType
<1> QED BY <1>1, <1>2

LEMMA StopStep ==
  ASSUME IInv, NEW m \in Motors, MotorStop(m)
  PROVE  AxesType /\ Axes'
<1> DEFINE c == [motor[m] EXCEPT !.stop_request = TRUE, !.state = "DECELERATING"]
<1>1. c \in Config /\ c.rpm = motor[m].rpm /\ c.target = motor[m].target
      /\ c.stop_request /\ c.state # "STOPPED"
  BY EntryFact DEF Config, Moving
<1>2. motor' = [motor EXCEPT ![m] = c] /\ UNCHANGED pulse
  BY EntryFact DEF MotorStop
<1>3. c.target > 0 => c.rpm > 0
  BY <1>1, EntryFact
<1> HIDE DEF c
<1> QED BY <1>1, <1>2, <1>3, QuietStep

LEMMA FrameStep ==
  ASSUME IInv, Frame
  PROVE  IInv'
<1>1. PICK m \in Motors, cmd \in Cmd, dir \in {"CW", "CCW"}, rpm \in AskedRpm,
           accel \in AskedAccel : TakeFrame(m, cmd, dir, rpm, accel)
  BY DEF Frame
<1>2. UNCHANGED pulse /\ order' \in Order \cup {NoOrder} /\ turn' \in 0 .. MotorCount
  BY <1>1 DEF TakeFrame, Order, IInv, TypeOK
<1>3. CASE accel = 0
  <2>1. motor' = motor
    BY <1>1, <1>3 DEF TakeFrame
  <2> QED BY <1>2, <2>1 DEF IInv, TypeOK, Axes, TurningIsKnown, HasTarget, OneTurns, OwnRate
<1>4. CASE accel # 0
  <2> DEFINE a == Limited(Int16(accel), MinAccel, MaxAccel)
             c == [motor[m] EXCEPT !.accel = a]
  <2>1. a \in MinAccel .. MaxAccel
    <3>1. accel \in Int /\ Int16(accel) \in Int
      BY FrameAssumption DEF Int16
    <3>2. MinAccel \in Int /\ MaxAccel \in Int /\ MinAccel <= MaxAccel
      BY RateAssumption
    <3> QED BY <3>1, <3>2, LimitedFact
  <2> HIDE DEF a
  <2>2. c \in Config /\ c.rpm = motor[m].rpm /\ c.target = motor[m].target
        /\ c.state = motor[m].state /\ c.stop_request = motor[m].stop_request
    BY <2>1, EntryFact DEF Config
  <2>3. motor' = [motor EXCEPT ![m] = c]
    BY <1>1, <1>4, EntryFact DEF TakeFrame, a
  <2> HIDE DEF c
  <2>4. AxesType /\ Axes'
    BY <1>2, <2>2, <2>3, EntryFact, QuietStep
  <2> QED BY <1>2, <2>4 DEF IInv, TypeOK, AxesType
<1> QED BY <1>3, <1>4

LEMMA ExecuteStep ==
  ASSUME IInv, Execute
  PROVE  IInv'
<1>1. order \in Order /\ order.motor \in Motors /\ order.dir \in {"CW", "CCW"}
      /\ order.rpm \in Int
  <2>1. order \in Order
    BY DEF Execute, IInv, TypeOK
  <2>2. order.motor \in Motors /\ order.dir \in {"CW", "CCW"} /\ order.rpm \in AskedRpm
    BY <2>1 DEF Order
  <2>3. AskedRpm \subseteq Int
    BY FrameAssumption
  <2>4. order.rpm \in Int
    BY <2>2, <2>3, Zenon
  <2> QED BY <2>1, <2>2, <2>4
<1>2. order' \in Order \cup {NoOrder} /\ turn' \in 0 .. MotorCount
  BY DEF Execute, IInv, TypeOK
<1>3. AxesType /\ Axes'
  <2>1. CASE MotorRun(order.motor, order.rpm, order.dir)
    BY <1>1, <2>1, RunStep
  <2>2. CASE MotorStop(order.motor)
    BY <1>1, <2>2, StopStep
  <2>3. CASE MotorImmediateStop(order.motor)
    BY <1>1, <2>3, HaltStep, EntryFact DEF MotorImmediateStop
  <2>4. CASE UNCHANGED <<motor, pulse>>
    BY <2>4 DEF AxesType, IInv, TypeOK, Axes, TurningIsKnown, HasTarget, OneTurns, OwnRate
  <2> QED BY <2>1, <2>2, <2>3, <2>4 DEF Execute
<1> QED BY <1>2, <1>3 DEF IInv, TypeOK, AxesType

\* A step of the ramp, from the entry with accel_tick cleared or as it is.
LEMMA StepSpeedStep ==
  ASSUME IInv, NEW m \in Motors, NEW c \in Config, StepSpeed(m, c),
         c.rpm = motor[m].rpm, c.target = motor[m].target, c.state = motor[m].state,
         c.stop_request = motor[m].stop_request
  PROVE  AxesType /\ Axes'
<1>1. c.rpm \in 0 .. MaxRpm /\ c.target \in 0 .. MaxRpm
  BY EntryFact
<1>2. /\ c.rpm > 0 => c.state # "STOPPED" /\ (c.stop_request \/ c.target > 0)
      /\ c.target > 0 => c.rpm > 0
  BY EntryFact
\* the speed is set to that of d, of a motor that turned before
<1>3. ASSUME NEW d \in Config, Turn(m, d), c.rpm > 0, d.rpm > 0,
             d.state # "STOPPED", d.stop_request \/ d.target > 0
      PROVE  AxesType /\ Axes'
  <2>1. motor' = [motor EXCEPT ![m] = d] /\ set_pwm_frequency(m, d.rpm)
    BY <1>3 DEF Turn
  <2>2. d.rpm \in 0 .. MaxRpm
    BY DEF Config
  <2>3. /\ pulse' \in [Motors -> 0 .. MaxRpm] /\ pulse'[m] = d.rpm
        /\ \A p \in Motors : p # m /\ motor[p].rpm > 0 => pulse'[p] = pulse[p]
    BY <1>3, <2>1, <2>2, SetRate
  <2> QED BY <1>3, <2>1, <2>3, OneMotor DEF AxesType
<1>4. ASSUME c.stop_request, c.rpm > RpmStep(c), Turn(m, [c EXCEPT !.rpm = @ - RpmStep(c)])
      PROVE  AxesType /\ Axes'
  <2> DEFINE d == [c EXCEPT !.rpm = c.rpm - RpmStep(c)]
  <2>1. RpmStep(c) \in Nat \ {0}
    BY RampFact
  <2>2. c.rpm - RpmStep(c) \in 0 .. MaxRpm /\ c.rpm - RpmStep(c) > 0 /\ c.rpm > 0
    BY <1>1, <1>4, <2>1, MotorAssumption
  <2>3. d \in Config /\ d.rpm = c.rpm - RpmStep(c) /\ d.state = c.state
        /\ d.stop_request = c.stop_request
    BY <2>2 DEF Config
  <2> HIDE DEF d
  <2>4. d.rpm > 0 /\ d.state # "STOPPED" /\ d.stop_request
    BY <1>2, <1>4, <2>2, <2>3
  <2>5. Turn(m, d)
    BY <1>4 DEF d
  <2> QED BY <1>3, <2>2, <2>3, <2>4, <2>5
<1>5. ASSUME Halt(m, c)
      PROVE  AxesType /\ Axes'
  BY <1>5, HaltStep DEF Halt
<1>6. ASSUME ~c.stop_request, c.rpm # c.target, Toward(c).rpm # 0, Turn(m, Toward(c))
      PROVE  AxesType /\ Axes'
  <2>1. /\ Toward(c) \in Config /\ Toward(c).target = c.target
        /\ Toward(c).stop_request = c.stop_request /\ Toward(c).state # "STOPPED"
    BY <1>6, TowardFact
  <2>2. c.rpm > 0 /\ c.target > 0
    BY <1>1, <1>2, <1>6
  <2>3. Toward(c).rpm > 0
    <3>1. Toward(c).rpm \in 0 .. MaxRpm
      BY <2>1 DEF Config
    <3> QED BY <1>6, <3>1
  <2> QED BY <1>3, <1>6, <2>1, <2>2, <2>3
<1>7. ASSUME ~c.stop_request, c.rpm = c.target,
             Hold(m, [c EXCEPT !.state = IF c.target = 0 THEN "STOPPED" ELSE "RUNNING"])
      PROVE  AxesType /\ Axes'
  <2> DEFINE st == IF c.target = 0 THEN "STOPPED" ELSE "RUNNING"
             d  == [c EXCEPT !.state = st]
  <2>1. st \in Moving \cup {"STOPPED"} /\ (c.target # 0 => st # "STOPPED")
    BY DEF Moving
  <2> HIDE DEF st
  <2>2. d \in Config /\ d.rpm = c.rpm /\ d.target = c.target /\ d.state = st
    BY <2>1 DEF Config
  <2>3. motor' = [motor EXCEPT ![m] = d] /\ UNCHANGED pulse
    BY <1>7 DEF Hold, st
  <2> HIDE DEF d
  <2>4. d.rpm = motor[m].rpm /\ (d.rpm > 0 => d.state # "STOPPED" /\ d.target > 0)
        /\ (d.target > 0 => d.rpm > 0)
    BY <1>1, <1>7, <2>1, <2>2
  <2> QED BY <2>2, <2>3, <2>4, QuietStep
<1> QED BY <1>4, <1>5, <1>6, <1>7 DEF StepSpeed

LEMMA UpdateStep ==
  ASSUME IInv, Update
  PROVE  IInv'
<1> DEFINE m == turn
           c == motor[turn]
<1>1. m \in Motors /\ MotorUpdate(m)
  BY MotorAssumption DEF Update, IInv, TypeOK, Motors
<1>2. turn' \in 0 .. MotorCount /\ order' \in Order \cup {NoOrder}
  BY MotorAssumption DEF Update, IInv, TypeOK
<1> HIDE DEF m
<1>3. CASE Idle(motor[m])
  <2> DEFINE d == [motor[m] EXCEPT !.state = "STOPPED"]
  <2>1. motor' = [motor EXCEPT ![m] = d] /\ UNCHANGED pulse
    BY <1>1, <1>3, EntryFact DEF MotorUpdate, Rest
  <2>2. d \in Config /\ d.rpm = motor[m].rpm /\ d.target = motor[m].target
    BY <1>1, EntryFact DEF Config
  <2>3. d.rpm = motor[m].rpm /\ ~(d.rpm > 0) /\ ~(d.target > 0)
    BY <1>3, <2>2 DEF Idle
  <2> HIDE DEF d
  <2>4. AxesType /\ Axes'
    BY <1>1, <2>1, <2>2, <2>3, QuietStep
  <2> QED BY <1>2, <2>4 DEF IInv, TypeOK, AxesType
<1>4. CASE ~Idle(motor[m]) /\ motor[m].accel < UpdateHz
           /\ motor[m].tick + 1 < TicksPerStep(motor[m])
  <2> DEFINE d == [motor[m] EXCEPT !.tick = motor[m].tick + 1]
  <2>1. motor' = [motor EXCEPT ![m] = d] /\ UNCHANGED pulse
    BY <1>1, <1>4, EntryFact DEF MotorUpdate, Wait
  <2>2. motor[m].tick + 1 \in 0 .. UpdateHz
    <3>1. motor[m].tick \in 0 .. UpdateHz /\ motor[m] \in Config
      BY <1>1, EntryFact DEF Config
    <3>2. TicksPerStep(motor[m]) \in Nat /\ TicksPerStep(motor[m]) <= UpdateHz
      BY <3>1, RampFact
    <3> QED BY <1>4, <3>1, <3>2, RateAssumption
  <2>3. d \in Config /\ d.rpm = motor[m].rpm /\ d.target = motor[m].target
        /\ d.state = motor[m].state /\ d.stop_request = motor[m].stop_request
    BY <1>1, <2>2, EntryFact DEF Config
  <2> HIDE DEF d
  <2>4. AxesType /\ Axes'
    BY <1>1, <2>1, <2>3, EntryFact, QuietStep
  <2> QED BY <1>2, <2>4 DEF IInv, TypeOK, AxesType
<1>5. CASE ~Idle(motor[m]) /\ ~(motor[m].accel < UpdateHz
                                /\ motor[m].tick + 1 < TicksPerStep(motor[m]))
  <2> DEFINE d == IF motor[m].accel < UpdateHz THEN [motor[m] EXCEPT !.tick = 0] ELSE motor[m]
  <2>1. StepSpeed(m, d)
    BY <1>1, <1>5 DEF MotorUpdate
  <2>2. d \in Config /\ d.rpm = motor[m].rpm /\ d.target = motor[m].target
        /\ d.state = motor[m].state /\ d.stop_request = motor[m].stop_request
    <3>1. motor[m] \in Config /\ 0 \in 0 .. UpdateHz
      BY <1>1, EntryFact, RateAssumption
    <3> QED BY <3>1 DEF Config
  <2> HIDE DEF d
  <2>3. AxesType /\ Axes'
    BY <1>1, <2>1, <2>2, StepSpeedStep
  <2> QED BY <1>2, <2>3 DEF IInv, TypeOK, AxesType
<1> QED BY <1>3, <1>4, <1>5

-----------------------------------------------------------------------------
(* The invariant *)

LEMMA InitIInv == Init => IInv
<1> SUFFICES ASSUME Init PROVE IInv
  OBVIOUS
<1> DEFINE c == [rpm |-> 0, target |-> 0, accel |-> UpdateHz, dir |-> "CW",
                 state |-> "STOPPED", stop_request |-> FALSE, tick |-> 0]
<1>1. c \in Config /\ c.rpm = 0 /\ c.target = 0
  <2>1. 0 \in 0 .. MaxRpm /\ 0 \in 0 .. UpdateHz /\ UpdateHz \in MinAccel .. MaxAccel
    BY MotorAssumption, RateAssumption
  <2> QED BY <2>1 DEF Config
<1>2. motor \in [Motors -> {c}]
  BY DEF Init
<1> HIDE DEF c
<1>3. \A m \in Motors : motor[m] = c
  BY <1>2
<1>4. TypeOK
  BY <1>1, <1>2, MotorAssumption DEF TypeOK, Init
<1>5. Axes
  <2>1. \A m \in Motors : motor[m].rpm = 0 /\ motor[m].target = 0
    BY <1>1, <1>3
  <2>2. \A m \in Shared : m \in Motors
    BY SharedAssumption
  <2> QED BY <2>1, <2>2 DEF Axes, TurningIsKnown, HasTarget, OneTurns, OwnRate
<1> QED BY <1>4, <1>5 DEF IInv

LEMMA NextIInv == IInv /\ [Next]_vars => IInv'
<1> SUFFICES ASSUME IInv, [Next]_vars PROVE IInv'
  OBVIOUS
<1>1. CASE Frame
  BY <1>1, FrameStep
<1>2. CASE Execute
  BY <1>2, ExecuteStep
<1>3. CASE Overflow
  <2>1. turn' \in 0 .. MotorCount
    BY <1>3, MotorAssumption DEF Overflow
  <2>2. UNCHANGED <<motor, pulse, order>>
    BY <1>3 DEF Overflow
  <2> QED BY <2>1, <2>2
      DEF IInv, TypeOK, Axes, TurningIsKnown, HasTarget, OneTurns, OwnRate
<1>4. CASE Update
  BY <1>4, UpdateStep
<1>5. CASE UNCHANGED vars
  BY <1>5 DEF vars, IInv, TypeOK, Axes, TurningIsKnown, HasTarget, OneTurns, OwnRate
<1> QED BY <1>1, <1>2, <1>3, <1>4, <1>5 DEF Next

LEMMA Invariant == Spec => []IInv
<1> QED BY InitIInv, NextIInv, PTL DEF Spec

\* The motor board's configuration and timers keep their ranges: the speeds
\* stay within MAX_RPM and the tick counter within a second.
THEOREM TypeCorrect == Spec => []TypeOK
<1>1. IInv => TypeOK
  BY DEF IInv
<1> QED BY <1>1, Invariant, PTL

\* The turntable and the dosing pump, which share TMR3, never turn together,
\* whatever frames and interrupts come in whatever order.
THEOREM Exclusion == Spec => []OneTurns
<1>1. IInv => OneTurns
  BY DEF IInv, Axes
<1> QED BY <1>1, Invariant, PTL

\* A turning motor's channel pulses at that motor's speed, although commands
\* and updates of the other motor write the same timer.
THEOREM TrueRate == Spec => []OwnRate
<1>1. IInv => OwnRate
  BY DEF IInv, Axes
<1> QED BY <1>1, Invariant, PTL
=============================================================================
