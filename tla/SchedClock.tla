----------------------------- MODULE SchedClock -----------------------------
(***************************************************************************)
(* What the clock-driven modes of the automatic scheduler                  *)
(* (samp/middlewares/bsp/app_scheduler.c) have in common: the time of day, *)
(* the run of sampling they wait for, the cycles and their sample points.  *)
(*                                                                         *)
(* The day is cut at every half hour (a mark).  The instants around a mark *)
(* are: 3k, the mark with the window behind it; 3k+1, the time until the   *)
(* next mark's window; 3k+2, the window before the next mark.  The window  *)
(* is 30 s wide in time-proportional and timed mode, 60 s in switch mode.  *)
(* Nothing the code compares the time with lies elsewhere, as long as the  *)
(* configured times are whole half hours.                                  *)
(*                                                                         *)
(* Bounds.  Task02 polls every 50 ms, so it polls in every instant; and a  *)
(* run of sampling, which takes minutes, is over before the window of the  *)
(* second mark after its start.  Tick waits for both.                      *)
(***************************************************************************)
EXTENDS Integers, FiniteSets

CONSTANTS
  Hours,     \* the hours of the day (24 in the code)
  Cycle,     \* g_sampling_cfg.cycle_time_min, in half hours
  Interval   \* g_sampling_cfg.interval_min, in half hours

ASSUME ClockAssumption ==
  /\ Hours \in Nat \ {0} /\ Cycle \in Nat \ {0} /\ Interval \in Nat \ {0}
  /\ Cycle <= 2 * Hours

VARIABLES
  now,       \* the instant of the day (rtc_get_time)
  polled,    \* Task02 has polled in this instant, since sampling was last busy
  sampling,  \* sampling_is_active()
  running    \* g_state.running and s_sched.running

clock == <<now, polled, sampling, running>>

Day == 6 * Hours
Hour == now \div 6

MaxPoints == 24
SampleCount ==
  IF Cycle \div Interval > MaxPoints THEN MaxPoints ELSE Cycle \div Interval
Point == 0 .. SampleCount - 1

CycleHours == IF Cycle < 2 THEN 1 ELSE Cycle \div 2

ClockTypeOK ==
  /\ now \in 0 .. Day - 1
  /\ polled \in BOOLEAN
  /\ sampling \in BOOLEAN
  /\ running \in BOOLEAN

ClockInit ==
  /\ now \in 0 .. Day - 1
  /\ polled = FALSE /\ sampling = FALSE /\ running = FALSE

-----------------------------------------------------------------------------
(* The cycles counted from hour h *)

Elapsed(h) == IF now >= 6 * h THEN now - 6 * h ELSE now + Day - 6 * h
CycleIndex(h) == Elapsed(h) \div (3 * Cycle)
CycleBase(h, idx) == 6 * h + 3 * idx * Cycle

\* sample_sec: counted on past midnight, unlike now.
SampleAt(h, idx, i) == CycleBase(h, idx) + 3 * i * Interval

InWindow(t) == now \in {t - 1, t}
Past(t) == now > t

\* g_state.water_a and water_b: the firmware only ever writes 0 to them.
Water(b) == 0

-----------------------------------------------------------------------------
Tick ==
  /\ polled \/ ~running
  /\ now % 3 = 1 => ~sampling
  /\ now' = (now + 1) % Day
  /\ polled' = FALSE
  /\ UNCHANGED <<sampling, running>>

\* A run of sampling ends, or is aborted.
SampEnds ==
  /\ sampling
  /\ sampling' = FALSE
  /\ polled' = FALSE
  /\ UNCHANGED <<now, running>>

\* The operator starts sampling from the screen.
HandStart ==
  /\ ~sampling
  /\ sampling' = TRUE
  /\ UNCHANGED <<now, polled, running>>

\* Task02 has run the scheduler; busy: a run of sampling is under way then.
Polled(busy) ==
  /\ polled' = TRUE
  /\ sampling' = busy
  /\ UNCHANGED <<now, running>>

\* SYS_START, SYS_STOP and the emergency stop, as far as the clock knows.
Switched(on) ==
  /\ running' = on
  /\ polled' = FALSE
  /\ UNCHANGED <<now, sampling>>

=============================================================================
