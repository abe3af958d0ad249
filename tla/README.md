# Verification of the water sampler firmware

The repository holds the firmware of an automatic water sampler: the main board
(`samp`, an AT32F435 under FreeRTOS), the stepper motor board (`MOTRO4`), a
small ADC board (`ADC`) and the previous generation of the main board's firmware
(`samplingA`). The sampler pumps water from a river or a sewer into one of two
buckets at times, flows, switch signals or requests that the operator chooses,
delivers it to an analyser, keeps a part of it in a bottle, and drains the rest.

This project models the control of `samp` and `MOTRO4` in TLA+, checks it with
TLC on small instances and proves the central results with TLAPS for all values
of the constants. Paths below are relative to `samp/middlewares/bsp/` unless
they name another directory; `freertos_app.c` is in `samp/project/src/`.

## 1. Inventory

| Part | State it keeps | Operations | Talks to |
|---|---|---|---|
| Process machines, `app_sampling.c` | stage, bucket and stage time of sampling, draining, delivery, retention; `g_state` bucket states; outputs | start of each machine, one step per poll, `sampling_abort`, start and stop sequences | valves, stirrers, motors (CAN); polled by Task02, started by the scheduler and the screen |
| Screen commands, `app_screen.c` | page shown, login, the operator's manual choices | settings, calibration, manual switches, start/stop/emergency stop, bottles, record pages | machines, scheduler, configuration store |
| Screen receive path, `bsp_uart.c`, `bsp_screen.c`, `app_screen.c` | DMA buffer, command ring (read and write index), page, login | idle-line interrupt, callback, ring read by Task03, refresh | panel, screen commands |
| Scheduler, `app_scheduler.c` | `s_sched`: mode, phase, cycle index, start hour, done points, pending point, bucket, per-mode parts; the request slot | `scheduler_init/start/stop/run`, notifications of flow, switch and communication | clock, machines, flow meter, trigger pin, Modbus |
| Modbus slave, `app_modbus.c` | register image | read and write registers | collector (data logger); request slot |
| Flow measurement, `app_adc_module.c` | flow value, flow active | poll of the ADC board, hysteresis | scheduler |
| Task loops and supervision, `freertos_app.c`, `bsp_wdt.c` | heartbeat bits, timeout count, watchdog | eight periodic tasks, wait for all heartbeats, feed, reset | everything |
| 4G modem, `app_4g_modem.c` | handshake state, retries | AT exchanges (busy waiting), poll | modem; MQTT |
| MQTT, `app_mqtt.c` | connection state | poll, publish, settings received | modem, configuration |
| Retention judgement, `app_retain_judge.c` | alarm state, next bottle | judge, execute, advance bottle | Task04; unreachable in this commit |
| USB update, `samp/project/src/usbh_user.c`, `bsp_flash.c`, `bsp_pvm.c` | stage of the stick, result, file; staging area, upgrade flag, power-fail records; the flash controller's lock | stick callbacks, erase, write, check, set the flag, reset; the monitor's interrupt | Task01; bootloader, through the flash |
| Bootloader, `samp/BOOTLOADER/` | program area, retries | copy, read back, clear the flag, erase Bank 2, jump | the application, through the flash |
| Start-up, `freertos_app.c`, `app_config.c`, `flashDB/app_flashdb.c` | ready bits, settings, the store's descriptor | load and save settings, recovery of a run | Task02, Task03, Task07; panel |
| Update over the modem, `app_ota.c` | session state, buffer, packet number | start, packet, poll, verify | never started in this commit |
| Records, `app_record_query.c`, `app_screen_cache.c`, `flashDB/app_flashdb.c` | page caches, key-value and time series store | append, query, save, load | flash |
| Sample numbers, `app_sample_id.c` | last second, sequence | generate | clock |
| Door, `bsp_wiegand.c`, Task08 | card bits, lock timer | bit interrupts, timeout, lock | lock |
| CAN driver, `bsp_can_motor.c` | last motor status | send speed, start, stop | motor board |
| Motor board, `MOTRO4/project/src/` | per motor: speed, target, acceleration, direction, state, stop request; timers | run, stop, immediate stop, acceleration, 1 kHz update; current monitor | CAN |
| ADC board, vendor code, `samplingA` | | | not modelled, see section 8 |

What is hard here:

* **Preemption without locks.** Task02 (machines and scheduler, every 50 ms) and
  Task03 (screen) have the same priority and are time-sliced; `s_samp`,
  `s_sched` and `g_state` are shared by both without a lock. Task04 (Modbus) has
  a lower priority and is preempted between the fields of its request.
* **Shared outputs.** Delivery and retention use the same pump and valve,
  draining and delivery the same stirrers, every machine writes bucket states,
  and the operator and the emergency stop cut in anywhere.
* **Clock arithmetic.** Windows of 30 or 60 s around sample points, cycles that
  cross midnight, unsigned differences.
* **Starvation.** AT exchanges spin for seconds above the task that feeds the
  watchdog.
* **Loss of power.** An update crosses two programs and several hundred sector
  operations; power may go in any of them, and an interrupt of the highest
  priority uses the same flash controller.
* **Order of start-up.** Three tasks and a panel share a store and a semaphore
  that someone has to have created.
* **Loss.** Ring and CAN queue that drop when full; frames that overwrite each
  other.

What makes the parts correct: outputs are on only for a machine that will switch
them off; jobs end; emergency stop holds; no sample point is sampled twice,
early, or lost; signals and requests are taken once and intact; commands arrive
in order; the motors on one timer never turn together; the watchdog resets a
hung chip and no other; after an update the board has the old firmware or the new
one, never a part of each.

## 2. Modules

```
Operator ....... what the operator reaches: Sampling or ScreenLink
  Sampling ..... the four machines with screen and scheduler, handler by handler
    Rig ........ abstract: machines and the outputs they may drive
    SamplingProofs
  ScreenLink ... interrupt, ring, Task03, page and login
    BoundedFifo  abstract: a queue with a capacity
    ScreenLinkProofs
    ScreenConfirm  the fate of the confirm commands
Board .......... what must end: Sampling, SamplingRace or FirmwareUpdate
  SamplingRace . the sampling machine statement by statement, two tasks
    SamplingRaceProofs
  FirmwareUpdate the update from a stick, the flash, the bootloader
    AtomicUpdate abstract: one firmware, replaced as a whole
    FirmwareUpdateProofs
SchedClock ..... time of day, the sampling line as the modes see it
  TimeProp  FixedTime  FlowMode  SwitchMode      (EXTEND SchedClock)
  CommMode
  Scheduler .... scheduler_run: composes the five modes on one clock
    TimePropProofs, SchedulerProofs
Stepper ........ motor board
  StepperProofs
Watchdog ....... Task07, heartbeats, watchdog, Task05 with modem and MQTT
  WatchdogProofs
Startup ........ ready bits, settings, recovery, the sample numbers' semaphore
```

### Operator and Board

These two are sums: a behaviour is one of a single part, chosen at the start
(`side`, `unit`), the other parts keep their initial state. They make no claim
about parts acting together. `Sampling` already lets every command come at any
time, and `ScreenLink` lets every handler take any time, so neither says less
alone than beside the other; `SamplingRace` is a second, finer view of the
machine of `Sampling`, and an update ends in the reset where the process begins.
A property of a sum is the property of its part: the other parts' steps leave
what it speaks of unchanged, so what is proved of a part holds of the sum. `Board`
puts together the three parts that have liveness properties over the same kind of
scheduling: it extends `FirmwareUpdate` and `SamplingRace` and instantiates
`Sampling` as `Process`, with one bucket. `Operator` puts together the two whose
safety and refinement need no fairness.

### Sampling and Rig

State: `samp`, `drain`, `deliv`, `retain` are the stages (and buckets) of
`s_samp`, `s_drain`, `s_deliv`, `s_retain`; `dev` is the level last commanded to
every valve, stirrer and motor; `bucketState` the two fields of `g_state`;
`running` stands for `g_state.running` and `s_sched.running`, which the handlers
always write together. One action is one call: `sampling_step` and the other
steps once per Task02 poll, the screen's handlers (`ScreenStart`, `ScreenAbort`,
`EmergencyStop`, `SystemStart`, `SystemStop`, `HandDrive`, `HandOutlet`,
`HandDrainBusy`) and the scheduler's calls of `sampling_start` and
`drain_start`. Stage times are arbitrary: a stage may be left at any poll, so
every setting of the durations is covered. `byHand` and `estop` are history
variables that only properties read.

`Rig` is the promise: a machine is busy or not, an output is on only if a busy
machine may drive it, an ending job leaves nothing on that no other machine
drives. `ImplementsRig` maps the stages to *busy* and the outputs that are on,
without the ones the operator switched, to *on*.

The semaphore of the sample numbers is taken to exist, that is, the board is one
that has resumed a run at power-on; `Startup` shows what happens on another.
`SamplingRace` and `Scheduler` describe the same board.

Handlers are taken at their word: `Sampling` lets every command of the screen
happen. Whether it reaches its handler is a question of `ScreenConfirm`, which
shows that confirm commands sent to address 0x0000 do not; sent through 0x5004 or
0x0001 to 0x00FF they do.

### SamplingRace

Every assignment of `sampling_start`, `sampling_step`, `sampling_abort` and of
the emergency stop's handler to the sampling line is a step; Task02 and Task03
interleave between any two. `clean` and `undisturbed` record whether handlers
have overlapped. One bound: while one handler of Task03 is unfinished at most
one iteration of Task02 begins (it sleeps 50 ms between iterations).

### SchedClock, the modes, Scheduler

`now` counts *instants*: three per half hour (the window behind a mark, the time
between two windows, the window before the next mark), because the code compares
the clock with nothing else when the configured times are whole half hours. A
poll of Task02 (`PollStartup`, `PollCycling`, ...) is one step, a function of the
part of `s_sched` the mode uses: in `TimeProp`, `EnterCycle`, `OnTime`, `Late`
and `Missed` are the parts of `sched_time_prop` in the order of the code. The
clock moves on only after a poll, since Task02 polls every 50 ms and no instant
is that short; a run of sampling is over two windows later (it takes minutes).
`FlowMode` adds the hysteresis of `app_adc_module.c`, `SwitchMode` the pin,
`CommMode` the Modbus writes field by field with Task02 preempting between them.
The bucket of a request is the high byte of the value written, unchecked: 2 leaves
it to the scheduler, any other is taken as it is (`Byte`). What the code does with
a bucket above 2 when it indexes its sample records (`g_water_ctx`) is not modelled.

A delivery of the timed mode from minute 50 on lies within its instant, so a start
of the mode in that instant comes before or after it (`PastInstants`). Stage 0 of
the start-up of `FlowMode` waits while a delivery is under way (`PollWaits`), which
may be at any poll.

`Scheduler` extends `TimeProp` and instantiates the other four; `scheduler_run`
is the disjunction the `switch` on `s_sched.mode` is. A new mode takes effect
only through `scheduler_init`, which clears `s_sched`, so a behaviour of the
module is one between two changes of mode.

Every branch that delivers asks for `water > 0`, and `g_state.water_a` and
`water_b` are only ever written 0 (`app_sampling.c:593-594`), so scheduled
deliveries never happen in this commit. The modes keep what these branches do
without water; the manual delivery is in `Sampling`.

### ScreenLink and BoundedFifo

The idle-line interrupt (`CommandArrives`, `PageNotice`, `Password`,
`LoginConfirm`) may come between any two steps of Task03, which copies an entry
in two reads, advances the index and calls the handler (`ReadClass`,
`ReadValue`, `Advance`, `Handle`). Any command may come while any page is shown:
the panel sends 0x50xx and 0x52xx from several pages
(`samplingA/middlewares/bsp/screen.c:3711-3739`), and `Handle` then takes the page
for that of the address. Where the handler goes on to write page or login, each
statement is a step: the password of 0x5002 (`Store`, `Ask`) and the login at
0x5004 or 0x0001 to 0x00FF (`Confirm`, `Judge`, `SwitchSent`, `Clear`, `Done`). Of
the other handlers nothing comes back to the link.

`ImplementsFifo` maps the ring to a sequence of at most N - 1 commands.
`AsOnArrival` compares page and login with `told`, what the frames come to when
each is handled whole at its arrival (`Outcome`). The two differ when the interrupt
handles a frame while earlier ones wait in the ring, which the code allows
(`PageTracked`, section 7); `overtaken` records that, until the ring has been empty.
A login in the ring stands for a command like any other.

### Stepper

`motor[m]` is the entry of `motor_config`, `pulse[m]` the rate at which the
timer channel steps. `Frame` is a control frame (acceleration, then command, in
two critical sections), `Update` the 1 kHz interrupt's ramp, motor by motor, with
the frame waiting or half executed. The two channels of a shared timer follow
the period and compare values as the code writes them.

### Watchdog

Task07 (`AwaitReady`, `Round`, `Passed`, `Late`), the heartbeat event group
(`Beat`: a heartbeat that completes the set wakes Task07 and clears the bits),
Task05's polls with the exchanges each queues (`Poll`, `MqttPoll`, `ModemPoll`)
and their outcome at any time up to the limit (`Answered`, `TimedOut`), Task08
(`Door`), the tick, one hang per boot, the watchdog's bite, the reset. `Limit`
is retries times timeout of each `modem_send_at` call. Task07 and Task08 run only
when Task05 does not spin, since they have a lower priority. The three
registration exchanges make Task05 spin up to 20 s in one poll.

### FirmwareUpdate and AtomicUpdate

`app` and `temp` are the sectors of the program and of the staging area, each
erased, torn, or holding its part of a version; `flag` is the word behind the
staging area; `records` says whether Bank 2 holds power-fail records; `locked` is
`oplk`. `step` is where the running program is, the application from `poll` to
`reset`, the bootloader from `boot` to `load`. `Erase` and `Program` do what the
controller does: nothing, and without an error, while it is locked.
`usbh_user_application` is one action per stage and way to leave it; the erase,
the write and the copy go sector by sector. `Cut` is a loss of power or a bite of
the watchdog in any step: what was being erased or programmed is as before or
torn (a flag may also come out erased or set). `CopyFails` is a sector that reads
back wrong. `Faults` bounds both together. The bootloader does not look at the
result of its last erases (`bsp_ota.c:47`, `:51`): the records may stay, and the
flag's sector may come out torn. That an erase leaves a set flag set is *excluded*:
the application would then run with the flag set, and `ImplementsAtomicUpdate`
would not hold, since the next staging that is cut would be installed in part.

`ImplementsAtomicUpdate` maps the firmware to the staged image while the flag is
set and to the program area otherwise. The flag is set in one word, which makes
the update atomic; the copy that follows may be cut and begun again, since the
staging area stays as it is until the next upgrade. What is staged is a question
of its own (`InstallsTheFile`), and so is whether an image fits: `AtomicUpdate`
commits whatever image is staged. So the refinement says nothing of an upgrade that
is lost because the monitor's interrupt locked the controller in the middle of it;
`InstallsTheFile` does.

### Startup

`ready` is the event group's ready bits, `autoRun` the setting that decides
whether Task07 resumes a run, `stored` what the store keeps of it, `open` and
`mutex` whether the store's descriptor and the semaphore of the sample numbers
have been initialised. Every call that would change the last two is at the place
where the code has it; the store's has none (`settings_init_load` has no caller),
so `open` stays FALSE as it does on the board. The assertion of the kernel is
`hung`.

## 3. Runs

| Run | Instance | Distinct states | What it shows |
|---|---|---|---|
| `operator` | bucket A; hand: sampling pump, drain valve A, both outlets; ring of 3, a right and a wrong password, a login, a manual command, one at 0x0000 | 1.56 million | `NoOrphan`, `BucketNotStuck`, `EstopHoldsSampling`, `AsOnArrival`, refinements of `Rig` and `BoundedFifo` |
| `board` | bucket A without hand control; both buckets statement by statement; 2 program and 2 staging sectors, files to 3, two versions, 3 faults | 0.33 million | `EveryJobEnds`, `EstopSettles`, `RunEnds`; `AtomicHandlersAgree`, `UndisturbedRunHeals`, `UndisturbedEstopHolds`; `LockedAtRest`, `UpdateCompletes`, refinement of `AtomicUpdate` |
| `scheduler` | day of 12 h, cycle 1.5 h, interval 0.5 h, four ticked hours | 2.2 million | the ten properties of the five modes |
| `stepper` | two motors on one timer, speeds to 3, 2 updates per second, acceleration asked 0, 4, 40000 | 0.56 million | `OneTurns`, `OwnRate`, `StopAnswered`, `Settles` |
| `watchdog` | tick 0.5 s, watchdog 13 ticks | 0.99 million | `BiteNeedsSpin`, `NoFalseAlarm`, `HangIsCured` |
| `estop_machines` | bucket A | | counterexample, see section 7 |
| `time_prop_midnight` | 24 h, cycle 1 h | | counterexample, see section 7 |
| `flow_startup` | 4 h, cycle 1 h | | counterexample, see section 7 |
| `screen_confirm` | ring of 3, confirm commands in each class | | counterexample, see section 7 |
| `watchdog_bites` | tick 0.5 s, watchdog 13 ticks | | counterexample, see section 7 |
| `usb_update` | the sectors of `board`, no faults | | counterexample, see section 7 |
| `startup` | one setting | | counterexample, see section 7 |

Why the bounds are enough.

* *Buckets.* The machines treat the buckets alike and share the motors, the
  delivery line and the inlet; two buckets multiply the states without a new
  interaction, but for a bucket's own valve. The theorems of `SamplingProofs`
  hold for both buckets and any set of hand-driven outputs; the statement-by-statement
  part of `board` takes both, and `SamplingRaceProofs` holds for any set of them.
* *Day.* The scheduler compares clock, start hour, cycle and offsets; a day of
  12 hours with cycles of 3 half hours has cycles that end at, before and over
  midnight, a last cycle that is cut, and points on every kind of mark.
  `time_prop_midnight` uses the real 24 hours. `TimePropProofs` and
  `SchedulerProofs` hold for all lengths, delivery hours and requests.
* *Ring.* Three slots show empty, one, full and the wrap in all phases. The five
  commands are one for each way a handler writes page or login, and one that is
  dropped; page notices, passwords and logins of the interrupt come on top, with
  every page and value. `ScreenLinkProofs` holds for every N, every set of
  commands, values and passwords.
* *Requests.* Buckets 1 and 2 (automatic): every byte but 2 is treated alike.
  `SchedulerProofs` holds for any set of bytes.
* *Update.* Two sectors are the least that can be of two versions; a file of three
  is longer than the staging area, as the code's 256 KB are longer than its
  252 KB. The handler gives up after three failures in a row, which three faults
  reach, a fourth only repeats. In the code the staging area is longer than the
  program (63 and 60 sectors): `FirmwareUpdateProofs` holds for all lengths.
* *Motors.* Two motors on the shared timer are the only pair that interacts;
  speeds 0 to 3 give a start, a ramp over several steps and a clamp (an asked
  speed of 4), 40000 is an acceleration that is negative as an `int16_t`.
* *Watchdog.* Half-second ticks: Task07 waits 4 and sleeps 2, the watchdog's
  0xFFF x 64 / 40 kHz = 6.55 s are 13 ticks. The low-speed oscillator ranges over
  30 to 60 kHz, 4.4 to 8.7 s: `WatchdogProofs` holds for every value. What the
  code waits for less than a tick counts as no wait.

Deadlock is checked in every run: the sampler never stops.

## 4. Fairness

* Task02's step calls are weakly fair: it is a periodic task and nothing above
  it blocks; the timers reach every duration. Nothing is assumed of the operator,
  the scheduler's starts or the bottle sensor (`Sampling`). In `SamplingRace`
  each task's next statement is weakly fair (time slicing).
  A stage's end (`StepDue`) is strongly fair there, as its time is reached
  whatever polls come before.
* `FirmwareUpdate`: the bootloader's steps and the reset are weakly fair
  (`Carries`); nothing runs beside the bootloader. Nothing is assumed of the
  stick or the supply. That an update completes needs that faults end (`Faults`):
  a sector that never takes its contents is retried for ever.
* `Board` takes over the fairness of its three parts as it is, each under the
  condition that the behaviour is one of that part.
* `FlowMode` and `FixedTime` (`FairSpec`): Task02 polls, time passes, and runs of
  sampling and deliveries end (`EveryJobEnds` shows the last two; in `FlowMode`
  polls that do not wait for a delivery are fair, `PollFree`).
* `Stepper`: the interrupt runs, and the main loop gets to execute a frame between
  two interrupts (strongly fair, the interrupts cut in again and again); nothing
  is assumed of the host.
* `Watchdog`: time passes, tasks that do not hang run, the chip resets. `Round`
  is strongly fair because `AwaitReady` may come before it again and again:
  Task07 waits at most 10 s for the subsystems.

## 5. Proofs

| Module | Theorem | Says |
|---|---|---|
| SamplingProofs | `TypeCorrect`, `SamplingSafe`, `BucketSafe`, `EstopSafe`, `Refinement` | types; `NoOrphan`, `BucketNotStuck`, `EstopHoldsSampling`; `Sampling` implements `Rig` |
| SamplingRaceProofs | `RaceTypeCorrect`, `AtomicHandlersCorrect`, `UndisturbedRunCorrect`, `UndisturbedEstopCorrect` | types; `AtomicHandlersAgree`, `UndisturbedRunHeals`, `UndisturbedEstopHolds`, however the two tasks interleave their statements |
| TimePropProofs | `TimePropTypes`, `TakenOnce`, `NeverEarly`, `NothingLost` | types; no point twice in a cycle; none before its time; none lost before midnight |
| SchedulerProofs | `FlowSafe`, `RequestsIntact`, `CyclesFilled`, `SignalSafe`, `SignalKept`, `NextDelivery` | the safety properties of the flow, communication, switch and timed modes, for the composed scheduler |
| | `RunsItsMode` | with the others' variables forgotten, the scheduler implements the module of the mode that is set |
| | `ModesTimeProp`, `ModesTypes` | the three properties of the time-proportional mode, and the types of all modes, for the composed scheduler |
| ScreenLinkProofs | `TypeCorrect`, `Refinement`, `OrderSafe` | types; the ring implements the bounded queue; `AsOnArrival` |
| FirmwareUpdateProofs | `UpdateTypeCorrect`, `ControllerLocked`, `AtomicRefinement` | types; `LockedAtRest`; the update implements the atomic one |
| StepperProofs | `TypeCorrect`, `Exclusion`, `TrueRate` | types and clamps; the shared timer's motors exclude each other; a turning motor has its own rate |
| WatchdogProofs | `TypeCorrect`, `BiteExplained`, `Quietness` | types; what a bite needs; no false alarm |

They rest on the named assumptions of the constants only (`BucketAssumption`,
`HandDevicesAssumption`, `RaceAssumption`, `ClockAssumption`, `DeliverAssumption`,
`ModesAssumption`, `RingAssumption`, `MotorAssumption`, `SharedAssumption`,
`RateAssumption`, `FrameAssumption`, `WatchdogAssumption`, `UpdateAssumption`), each
of which TLC evaluates in a run, and two hypotheses some theorems state:

* `Cycle < 2 * Hours` in `NeverEarly`, `ModesTimeProp` and `SignalSafe`. With a cycle of exactly a
  day the clock never gets past the end of the first cycle, the index never
  changes and the points of one day count into the next; TLC refutes `NoneEarly`
  with Hours 4 and Cycle 8.
* `Interval <= Cycle` in `CyclesFilled` and `ModesTypes`: otherwise the cycle holds no sample and the
  code divides by the number of samples only behind its guard.

The arguments:

* **Sampling.** `TypeOK` and the conjunction of the three properties is
  inductive; `BucketNotStuck` needs that a machine that leaves its active stages
  writes its bucket back. The refinement goes action by action: a stage that
  keeps its machine busy is `Work`, one that ends is `Finish` (where `NoOrphan`
  in the next state says that nothing is left on), abort and emergency stop are
  `Finish` or `Withdraw`.
* **SamplingRace.** What the two tasks leave behind depends on the statements still
  to come, so the invariants speak of the line *as it will be* once a task's
  remaining statements have been executed (`Will`): executing one of them changes
  the line and the list, not the outcome. That needs to know where guards stand in
  a list and that a list assigns a field to one value only (`ShapeInv`). As long as
  no handlers have overlapped one task has nothing to do (`Apart`), and stage, bucket
  and outputs will agree (`AgreeInv`, `HealInv`); after an undisturbed emergency stop
  nothing but a guard is to come from Task02, and the line will be at rest with the
  pump and the inlet off (`EstopInv`).
* **TimeProp.** The counts alone are not inductive. The points counted are the
  points done (`TakenIsDone`); both paths leave done points alone, and the one step that
  empties `done` within the cycles restarts the counts.
  For `NoneEarly` (`EarlyInv`): once a poll has run, the index is that of the clock;
  a point is taken or pending only when it has *opened* (`Opened`), and time takes
  that back only by changing the index, which the next poll meets by a new cycle.
  The two tests of the handler, the window and the lateness, are compared with the
  cycle's own time modulo a day in `OpenedFact`.
  For `NoPointLost` (`LostInv`): a poll that leaves the line free has left no point
  in its window or past, and a point whose mark has come is in one of the two while
  the cycle ends before midnight (`DueFact`). The line is free when the window of a
  mark opens, since a run is over two windows after it began; so when the window of
  the next mark opens every earlier point is done.
* **Scheduler.** `FlowInv` says what each phase knows of the flow between polls.
  `SlotInv` describes the request slot by which assignments of which request have
  been made (`Written`, `Partly`), as long as no request overtook another.
  `AutoInv` adds that in automatic mode the slot's bucket is already the automatic
  one, and that the count of samples is that of the bucket. `SwitchInv` relates the
  latch of a point to the signal that set it (`Sound`, `Latched`), with what the
  counts say outside the cycles (`Quiet`). Each theorem goes through the modes: in
  the other four its part of the state stands still.
  `NextDelivery` compares the hours by the time to their next delivery, which is
  shorter for the hours still to come today (`AheadFact`), and then takes the least
  (`LeastHour`, `NearestFact`). `TypesInv` joins these invariants with the types of
  each mode's part; the number of samples an automatic cycle may hold, and the
  three statements of a request, bound the counters. `RunsItsMode` maps each step to
  a step of the set mode or a stutter.
* **ScreenLink.** Between the reads of an entry the ring is not empty and the
  copies are those of its oldest entry, which the interrupt never writes
  (`Copied`); two lemmas say what putting and getting do to the sequence the
  ring stands for. For page and login: as long as no frame has overtaken another
  there is a chain of states (`Leads`) that begins with what the screen will be once
  Task03 has finished the command in hand (`Rest`), goes on by one `Outcome` for each
  command in the ring, and ends in `told` (`OrderInv`). Putting a command lengthens
  the chain, taking one out moves its beginning, a statement of the handler changes
  the screen and what is left of the handler, not `Rest`.
* **FirmwareUpdate.** `UpdateInv`: while the bootloader copies the flag is set
  and the controller open, and until the application resets itself the flag is not
  set (`FlagInv`, `LockInv`); the sectors before the one that is being copied are already those of the staging area (`CopyInv`). So
  clearing the flag does not change `Installed`, and no step of a copy does; the
  setting of the flag is the one step that commits.
* **Stepper.** `MotorRun` refuses by the *state* of the peer, while the property
  is about its *speed*: the invariant adds that a turning motor is never in state
  STOPPED and has a target or a stop request (`TurningIsKnown`), and that a motor
  with a target turns (`HasTarget`).
* **Watchdog.** For the bite: Task07, unless it hangs, has fed the dog within
  the wait it is in (`FedWhenDue`), and what goes beyond 2 s is time Task05's poll
  has spun (`FedOrSpun`). For the alarm: which heartbeats must be in at which
  point of a round (`Heard5`, `Heard7`, `Heard8`, `HeardAbove`), and that Task05's
  first 3 s end before Task07's first round does (`CountdownInv`). The types need
  that the exchanges in hand are those of the modem's state (`Handshake`) and
  that the counters are bounded (`CountBound`, `RetryBound`).

## 6. Only model-checked

Every invariant and action property the passing runs check, and each refinement, is
also a theorem. The liveness properties (`EveryJobEnds`, `EstopSettles`, `RunEnds`,
`UpdateCompletes`, `StopAnswered`, `Settles`, `HangIsCured`) are shown by TLC on the
instances above only: fairness speaks of ENABLED, which is out of the prover's
reach. So are the counterexamples of section 7. That the properties
of a part hold of the sums `Operator` and `Board` is an argument of this text
(section 2), not a theorem; the runs check them on the sums.

## 7. Where the code does not do what it says

The seven standing counterexamples are entries of `findings`, each with the line
of the code and the line of the comment:

* `estop_machines`: the emergency stop leaves delivery, retention and draining in
  their stages; their next step switches outputs on again.
* `time_prop_midnight`: the points of cycles after midnight are never reached.
* `flow_startup`: with the flow lasting, the start-up begins again in every poll.
* `screen_confirm`: a command at address 0x0000 is dropped in the interrupt before
  the confirm commands are looked at. Sampling, delivery and the bottle reset are
  sent through 0x5004 first and work; the interruption of a run (03 00) and the
  retention by hand (25 01) come at 0x0000 only and have no effect.
* `watchdog_bites`: a modem that does not answer resets the chip, although no task
  hangs.
* `usb_update`: the staging area is locked between its erase and its writing; the
  checksum of what was *read* passes, and the bootloader installs an erased area.
* `startup`: unless the board resumed a run at power-on, the first run of sampling
  takes a semaphore that was never created.

The modules state further claims of comments and documents, each with its
source, that TLC refutes. They are not standing runs, since each would repeat one
of the questions above or depends on it; the table gives an instance that shows
each (`-` stands for the constants of section 3).

| Module | Claim | Constants | Why it fails |
|---|---|---|---|
| Sampling | `EstopStopsSamplingPump` | hand: the sampling pump | switched by hand, the pump is not stopped when no run is active: the abort returns early |
| Sampling | `TurntableAlone` | - | a retention starts during a delivery |
| SamplingRace | `EstopIsFinal`, `OneStart`, `StillInTube` | - | overlaps of Task02 and Task03 |
| TimeProp | `CycleDelivers` | 24, 2, 1, 1 | needs water |
| FixedTime | `SamplingGoesOn` | 4, 2, 1, {1, 3}, 4 | goes on only after a delivery |
| FlowMode | `FlowIsNoticed` | 4, 2, 1 | a flow that began before the start of the mode has no edge |
| SwitchMode | `EverySignalLatched`, `TriggerHourIsQuiet` | 24, 2, 1 | unsigned window at midnight; the hour of the first trigger counts as a cycle |
| CommMode | `PurelyCommanded` | 3, {SAMPLING, DRAIN}, {0, 1} | a request torn by its successor |
| CommMode | `SwitchedWhenFull` | 3, {SAMPLING}, {1, 2} | samples for a named bucket count for the active one |
| ScreenLink | `PageTracked`, `FramesWhole` | - | a command overtaken by a page report puts its own page back; a frame sent by the interrupt within one of Task03 |
| Startup | `SettingKept` | - | nothing opens the store: what is reported as written is gone after a reset |
| Stepper | `PulsesOnlyWhenTurning`, `Ramped` | MaxRpm 4 | a stop of a motor that stands starts its peer's rate on its channel; a reversal without a ramp |

## 8. Not modelled, and why

* *Unreachable in this commit*: retention judgement and Task04's branch for it
  (woken only next to a scheduled delivery), the update over the modem (`ota_start`
  and `ota_feed_packet` have no caller), the write-back flush and the event ring of
  `app_screen_cache.c` (no caller), the key-value store's own operations and the
  record query (nothing opens the stores), the schedule of the day
  (`app_scheduler.c:340-385`, written, never read), pause and resume of the
  scheduler, delayed samples, the manual branch of `system_start_sequence`, and
  `system_stop_sequence`. The door compares with card numbers that are never
  written.
* *The CAN bus between the boards.* The main board sends on 0x100 and listens on
  0x200 with commands 1 (speed), 3 (start), 4 (stop); the motor board listens on
  0x200 + id and reports on 0x100 + id. No frame of the one is one of the other, so
  their composition has nothing to say; each takes the bus as its environment.
* *Text and numbers without control*: sample numbers, the motor board's current
  filter, the ADC board's registers.
* *Pure input and output, generated or third-party code*: drivers, start-up,
  FreeRTOS, FlashDB, FAL, the vendor libraries. FreeRTOS appears as what the tasks
  rely on: priorities, time slicing, event group.
* *The previous generation* (`samplingA` with its tools): `samp` is its rewrite.
* *Text and floating point*: answers of the modem, MQTT payloads, the display,
  the scaling of sensor values.
* *In Watchdog*: the saves of Task07 every 30 s, which the closed store refuses.
* *A change of mode under a poll*: `scheduler_init` from Task03 while Task02 is in
  `scheduler_run`. `Scheduler` takes a poll as one step and a behaviour between two
  changes of mode.

What is modelled is what this commit reaches. Should the store, the modem's update,
the deliveries or the CAN protocol be wired up, the places to extend are `Startup`
(`open`, with the store's locks), `FirmwareUpdate` (a second way into the staging
area), `SchedClock` (`Water`) and `Stepper` (`Frame`).
