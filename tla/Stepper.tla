------------------------------- MODULE Stepper -------------------------------
(***************************************************************************)
(* The motor board (MOTRO4): stepper_motor.c and the control frames of     *)
(* can_protocol.c.  The main loop handles a frame in two critical sections *)
(* (the acceleration, then the command); the 1 kHz interrupt runs          *)
(* MotorUpdate for every motor in turn and nothing of the main loop runs   *)
(* in between.  The turntable and the dosing pump share timer TMR3.        *)
(*                                                                         *)
(* A timer channel is modelled by the rate of the pulses it puts out, in   *)
(* rpm, 0 when its compare value is 0.  Both channels of a shared timer    *)
(* have the one rate its period gives.  current_freq and target_freq are   *)
(* functions of the speeds and are left out, as are the ring of received   *)
(* frames (a frame it drops is one the host does not send) and telemetry.  *)
(***************************************************************************)
EXTENDS Integers, FiniteSets

CONSTANTS
  MotorCount,  \* MOTOR_COUNT
  Shared,      \* the motors whose shares_tmr is set: none, or the two of TMR3
  MaxRpm,      \* MAX_RPM
  UpdateHz,    \* UPDATE_FREQ_HZ
  MinAccel,    \* the bounds MotorSetAcceleration clamps to
  MaxAccel,
  AskedRpm,    \* what control frames carry
  AskedAccel

Motors == 1 .. MotorCount

ASSUME MotorAssumption == MotorCount \in Nat \ {0} /\ MaxRpm \in Nat \ {0}
ASSUME SharedAssumption ==
  /\ Shared \subseteq Motors
  /\ Shared = {} \/ \E a, b \in Motors : a # b /\ Shared = {a, b}
ASSUME RateAssumption ==
  UpdateHz \in Nat \ {0} /\ MinAccel \in 1 .. UpdateHz /\ MaxAccel \in Nat /\ UpdateHz <= MaxAccel
ASSUME FrameAssumption == AskedRpm \subseteq 0 .. 65535 /\ AskedAccel \subseteq 0 .. 65535

MIN_RPM == 1
Moving  == {"ACCELERATING", "RUNNING", "DECELERATING"}
Cmd     == {"NOP", "RUN", "STOP", "IMMEDIATE_STOP"}
Order   == [motor : Motors, cmd : Cmd, dir : {"CW", "CCW"}, rpm : AskedRpm]
NoOrder == [cmd |-> "NONE"]

VARIABLES
  motor,   \* motor_config
  pulse,   \* the pulse rate on each motor's timer channel
  order,   \* the command of the frame whose acceleration is already set
  turn     \* 0, or the motor the interrupt is about to update

vars == <<motor, pulse, order, turn>>

Config == [rpm : 0 .. MaxRpm, target : 0 .. MaxRpm, accel : MinAccel .. MaxAccel,
           dir : {"CW", "CCW"}, state : Moving \cup {"STOPPED"}, stop_request : BOOLEAN,
           tick : 0 .. UpdateHz]

TypeOK ==
  /\ motor \in [Motors -> Config]
  /\ pulse \in [Motors -> 0 .. MaxRpm]
  /\ order \in Order \cup {NoOrder}
  /\ turn \in 0 .. MotorCount

-----------------------------------------------------------------------------
(* The timers *)

Peer(m) == CHOOSE p \in Shared : p # m

Init ==
  /\ motor \in [Motors -> {[rpm |-> 0, target |-> 0, accel |-> UpdateHz, dir |-> "CW",
                            state |-> "STOPPED", stop_request |-> FALSE, tick |-> 0]}]
  /\ pulse = [m \in Motors |-> 0]
  /\ order = NoOrder
  /\ turn = 0

\* set_pwm_frequency: the peer's channel pulses at the new rate too, unless its
\* motor's state says it is stopped.
set_pwm_frequency(m, rpm) ==
  pulse' = [p \in Motors |->
              IF p = m THEN rpm
              ELSE IF m \in Shared /\ p = Peer(m)
                   THEN IF motor[p].state # "STOPPED" THEN rpm ELSE 0
                   ELSE pulse[p]]

\* Mutant: the counter is switched off although the peer may be using it.
StopsCounter(m) ==
  pulse' = [p \in Motors |-> IF p = m \/ {m, p} = Shared THEN 0 ELSE pulse[p]]

stop_pwm_output(m) == pulse' = [pulse EXCEPT ![m] = 0]

reset_motor_state(c) ==
  [c EXCEPT !.rpm = 0, !.target = 0, !.state = "STOPPED", !.stop_request = FALSE]

-----------------------------------------------------------------------------
(* The commands *)

\* Mutants: the upper limit of the speed, or the check of the peer, is forgotten.
LimitedBelow(v, lo, hi) == IF v < lo THEN lo ELSE v
PeerIgnored(m) == TRUE

Limited(v, lo, hi) == IF v < lo THEN lo ELSE IF v > hi THEN hi ELSE v
Int16(v) == IF v < 32768 THEN v ELSE v - 65536

PeerStopped(m) == m \in Shared => motor[Peer(m)].state = "STOPPED"

MotorRun(m, asked, dir) ==
  LET rpm     == Limited(asked, MIN_RPM, MaxRpm)
      atRest  == motor[m].rpm = 0
      current == IF atRest THEN MIN_RPM ELSE motor[m].rpm
  IN IF PeerStopped(m)
     THEN /\ motor' = [motor EXCEPT ![m].dir = dir, ![m].target = rpm,
                                    ![m].stop_request = FALSE, ![m].rpm = current,
                                    ![m].state = IF current < rpm THEN "ACCELERATING"
                                                 ELSE "RUNNING"]
          /\ IF atRest THEN set_pwm_frequency(m, MIN_RPM) ELSE UNCHANGED pulse
     ELSE UNCHANGED <<motor, pulse>>

MotorStop(m) ==
  /\ motor' = [motor EXCEPT ![m].stop_request = TRUE, ![m].state = "DECELERATING"]
  /\ UNCHANGED pulse

MotorImmediateStop(m) ==
  /\ motor' = [motor EXCEPT ![m] = reset_motor_state(motor[m])]
  /\ stop_pwm_output(m)

\* handle_control_frame, first critical section: MotorSetAcceleration.
TakeFrame(m, cmd, dir, rpm, accel) ==
  /\ turn = 0 /\ order = NoOrder
  /\ motor' = IF accel = 0 THEN motor
              ELSE [motor EXCEPT ![m].accel = Limited(Int16(accel), MinAccel, MaxAccel)]
  /\ order' = [motor |-> m, cmd |-> cmd, dir |-> dir, rpm |-> rpm]
  /\ UNCHANGED <<pulse, turn>>

\* handle_control_frame, second critical section.
Execute ==
  /\ turn = 0 /\ order # NoOrder
  /\ \/ order.cmd = "RUN" /\ MotorRun(order.motor, order.rpm, order.dir)
     \/ order.cmd = "STOP" /\ MotorStop(order.motor)
     \/ order.cmd = "IMMEDIATE_STOP" /\ MotorImmediateStop(order.motor)
     \/ order.cmd = "NOP" /\ UNCHANGED <<motor, pulse>>
  /\ order' = NoOrder
  /\ UNCHANGED turn

-----------------------------------------------------------------------------
(* The interrupt *)

\* Mutant: a motor at rest is idle even when it has been told to stop.
IdleAtRest(c) == c.target = 0 /\ c.rpm = 0

Idle(c) == ~c.stop_request /\ c.target = 0 /\ c.rpm = 0

RpmStep(c)      == IF c.accel >= UpdateHz THEN c.accel \div UpdateHz ELSE 1
TicksPerStep(c) == IF c.accel >= UpdateHz THEN 1 ELSE UpdateHz \div c.accel

\* Mutant: the last step is not cut short at the target.
TowardPast(c) ==
  IF c.rpm < c.target
  THEN [c EXCEPT !.rpm = @ + RpmStep(c), !.state = "ACCELERATING"]
  ELSE [c EXCEPT !.rpm = @ - RpmStep(c), !.state = "DECELERATING"]

\* The speed one step nearer to the target, and the state that goes with it.
Toward(c) ==
  LET gap == IF c.rpm < c.target THEN c.target - c.rpm ELSE c.rpm - c.target
  IN IF gap <= RpmStep(c)
     THEN [c EXCEPT !.rpm = c.target, !.state = "RUNNING"]
     ELSE IF c.rpm < c.target
          THEN [c EXCEPT !.rpm = @ + RpmStep(c), !.state = "ACCELERATING"]
          ELSE [c EXCEPT !.rpm = @ - RpmStep(c), !.state = "DECELERATING"]

Rest(m)      == motor' = [motor EXCEPT ![m].state = "STOPPED"] /\ UNCHANGED pulse
\* acceleration divided: not this tick
Wait(m)      == motor' = [motor EXCEPT ![m].tick = @ + 1] /\ UNCHANGED pulse
Halt(m, c)   == motor' = [motor EXCEPT ![m] = reset_motor_state(c)] /\ stop_pwm_output(m)
Turn(m, c)   == motor' = [motor EXCEPT ![m] = c] /\ set_pwm_frequency(m, c.rpm)
Hold(m, c)   == motor' = [motor EXCEPT ![m] = c] /\ UNCHANGED pulse

\* A step of the speed; c is the motor with accel_tick cleared.
StepSpeed(m, c) ==
  \/ c.stop_request /\ c.rpm > RpmStep(c) /\ Turn(m, [c EXCEPT !.rpm = @ - RpmStep(c)])
  \/ c.stop_request /\ c.rpm <= RpmStep(c) /\ Halt(m, c)
  \/ ~c.stop_request /\ c.rpm # c.target /\ Toward(c).rpm # 0 /\ Turn(m, Toward(c))
  \/ ~c.stop_request /\ c.rpm # c.target /\ Toward(c).rpm = 0 /\ Halt(m, c)
  \/ ~c.stop_request /\ c.rpm = c.target
     /\ Hold(m, [c EXCEPT !.state = IF c.target = 0 THEN "STOPPED" ELSE "RUNNING"])

MotorUpdate(m) ==
  LET c == motor[m]
  IN IF Idle(c) THEN Rest(m)
     ELSE IF c.accel < UpdateHz /\ c.tick + 1 < TicksPerStep(c) THEN Wait(m)
     ELSE StepSpeed(m, IF c.accel < UpdateHz THEN [c EXCEPT !.tick = 0] ELSE c)

\* TMR6_GLOBAL_IRQHandler
Overflow == turn = 0 /\ turn' = 1 /\ UNCHANGED <<motor, pulse, order>>
Update   == /\ turn # 0 /\ MotorUpdate(turn)
            /\ turn' = IF turn = MotorCount THEN 0 ELSE turn + 1
            /\ UNCHANGED order

Frame == \E m \in Motors, cmd \in Cmd, dir \in {"CW", "CCW"}, rpm \in AskedRpm,
            accel \in AskedAccel : TakeFrame(m, cmd, dir, rpm, accel)
Next  == Frame \/ Execute \/ Overflow \/ Update

\* The timer never stops, and the main loop gets on between two interrupts.
Fairness == WF_vars(Overflow) /\ WF_vars(Update) /\ SF_vars(Execute)
Spec == Init /\ [][Next]_vars /\ Fairness

-----------------------------------------------------------------------------
(* Properties *)

\* The two motors on TMR3 never turn at the same time: MotorRun's refusal is
\* enough, whatever frames and interrupts come in whatever order.
OneTurns == \A m, p \in Shared : m # p => motor[m].rpm = 0 \/ motor[p].rpm = 0

\* A motor that turns gets pulses at its own speed, although commands and
\* updates of the other motor write the same timer.
OwnRate == \A m \in Motors : motor[m].rpm > 0 => pulse[m] = motor[m].rpm

\* A STOP is answered: the motor comes to rest, or is started again.
StopAnswered == \A m \in Motors : motor[m].stop_request ~> ~motor[m].stop_request

\* When the host goes quiet, every motor reaches the speed last asked for and
\* stays there: the ramp neither stops short nor hunts around the target.
Settles ==
  <>[][~Frame]_vars => \A m \in Motors : <>[](motor[m].rpm = motor[m].target)

\* Between two interrupts only a motor that turns gets pulses (the documents'
\* mutual exclusion of the two motors on TMR3, seen from the motors' drivers).
PulsesOnlyWhenTurning ==
  turn = 0 => \A m \in Motors : pulse[m] > 0 => motor[m].rpm > 0

\* The speed of a turning motor, with its direction as its sign, is ramped: it
\* changes by one step of the ramp at a time, except when the motor halts (RUN
\* goes "from the current speed" to the target).
Velocity(c) == IF c.dir = "CW" THEN c.rpm ELSE -c.rpm
Ramped ==
  [][\A m \in Motors : motor[m].rpm > MIN_RPM /\ motor'[m].rpm > 0 =>
       Velocity(motor'[m]) - Velocity(motor[m])
         \in -RpmStep(motor[m]) .. RpmStep(motor[m])]_vars
=============================================================================
