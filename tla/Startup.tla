------------------------------ MODULE Startup ------------------------------
(***************************************************************************)
(* From switching on to the first run of sampling (freertos_app.c): Task02 *)
(* loads the settings, Task03 waits for the panel, Task07 waits for both   *)
(* and resumes a run that a loss of power has cut short.  The settings are *)
(* kept in a store in the flash (app_flashdb.c), the numbers of samples    *)
(* are handed out under a semaphore (app_sample_id.c).                     *)
(*                                                                         *)
(* Every function that opens the store or creates the semaphore is here    *)
(* where the code calls it.  settings_init_load, which opens the store,    *)
(* and START_MODE_MANUAL, the other mode of system_start_sequence, have no *)
(* caller.                                                                 *)
(***************************************************************************)
EXTENDS Naturals

VARIABLES
  ready,     \* KVDB_READY_BIT, TSDB_READY_BIT, SCREEN_READY_BIT of the event group
  resume,    \* Task07 has not decided yet whether to resume
  autoRun,   \* g_system_setting_cfg.auto_run_mode
  running,   \* g_state.running
  sampling,  \* a run of sampling is under way
  mutex,     \* s_id_gen.mutex exists
  open,      \* the store is initialised: init_ok of its descriptor
  stored,    \* auto_run_mode as the store holds it, or nothing
  hung,      \* a failed assertion holds the processor, interrupts off
  reported   \* history: the setting the screen last said was written

startupVars ==
  <<ready, resume, autoRun, running, sampling, mutex, open, stored, hung, reported>>

Bit == {"KVDB", "TSDB", "SCREEN"}
Nothing == 2
Setting == {0, 1}

\* RAM after a reset.
Reset ==
  /\ ready' = {} /\ resume' = TRUE /\ autoRun' = 0
  /\ running' = FALSE /\ sampling' = FALSE
  /\ mutex' = FALSE /\ open' = FALSE /\ hung' = FALSE

StartupInit ==
  /\ ready = {} /\ resume = TRUE /\ autoRun = 0
  /\ running = FALSE /\ sampling = FALSE
  /\ mutex = FALSE /\ open = FALSE /\ hung = FALSE
  /\ stored = Nothing /\ reported = Nothing

-----------------------------------------------------------------------------
\* cfg_save: a store that is not open refuses, and no caller looks.
Save(v) == stored' = IF open THEN v ELSE stored

\* cfg_init_load and scheduler_init: what cannot be loaded takes its default.
Task02Loads ==
  /\ "KVDB" \notin ready
  /\ autoRun' = IF open /\ stored # Nothing THEN stored ELSE 0
  /\ Save(autoRun')
  /\ running' = FALSE
  /\ ready' = ready \cup {"KVDB"}
  /\ UNCHANGED <<resume, sampling, mutex, open, hung, reported>>

\* A second later; the store of the records is not touched.
Task02Ready ==
  /\ "KVDB" \in ready /\ "TSDB" \notin ready
  /\ ready' = ready \cup {"TSDB"}
  /\ UNCHANGED <<resume, autoRun, running, sampling, mutex, open, stored, hung, reported>>

\* Three seconds after the start, long after the settings are loaded.
Task03Ready ==
  /\ "KVDB" \in ready /\ "SCREEN" \notin ready
  /\ ready' = ready \cup {"SCREEN"}
  /\ UNCHANGED <<resume, autoRun, running, sampling, mutex, open, stored, hung, reported>>

\* Task07: system_start_sequence(START_MODE_POWER_RECOVERY) if called for.
Task07Decides ==
  /\ resume /\ ready = Bit
  /\ resume' = FALSE
  /\ IF ~running /\ autoRun = 1
       THEN mutex' = TRUE /\ running' = TRUE
       ELSE UNCHANGED <<mutex, running>>
  /\ UNCHANGED <<ready, autoRun, sampling, open, stored, hung, reported>>

\* Task07 has waited for 10 s.
Task07GivesUp ==
  /\ resume /\ ready # Bit
  /\ resume' = FALSE
  /\ UNCHANGED <<ready, autoRun, running, sampling, mutex, open, stored, hung, reported>>

-----------------------------------------------------------------------------
(* The panel's commands, handled by Task03 *)

Handles == "SCREEN" \in ready /\ ~hung

\* screen_handle_settings; "written to the KVDB" is printed in any case.
SetAutoRun ==
  /\ Handles
  /\ \E v \in Setting \ {autoRun} : autoRun' = v /\ Save(v) /\ reported' = v
  /\ UNCHANGED <<ready, resume, running, sampling, mutex, open, hung>>

SystemStart ==
  /\ Handles /\ running' = TRUE
  /\ UNCHANGED <<ready, resume, autoRun, sampling, mutex, open, stored, hung, reported>>

SystemStop ==
  /\ Handles /\ running' = FALSE
  /\ UNCHANGED <<ready, resume, autoRun, sampling, mutex, open, stored, hung, reported>>

\* sampling_start, by hand or by the scheduler: sample_id_generate takes the
\* semaphore; a NULL one fails the kernel's assertion.
SamplingStart ==
  /\ Handles \/ (running /\ "TSDB" \in ready)
  /\ ~hung /\ ~sampling
  /\ IF mutex THEN sampling' = TRUE /\ UNCHANGED hung
              ELSE hung' = TRUE /\ UNCHANGED sampling
  /\ UNCHANGED <<ready, resume, autoRun, running, mutex, open, stored, reported>>

SamplingEnds ==
  /\ sampling /\ ~hung
  /\ sampling' = FALSE
  /\ UNCHANGED <<ready, resume, autoRun, running, mutex, open, stored, hung, reported>>

\* Power goes and comes back, or the watchdog ends the hang.
Restarted == Reset /\ UNCHANGED <<stored, reported>>

StartupNext ==
  \/ ~hung /\ (Task02Loads \/ Task02Ready \/ Task03Ready \/ Task07Decides \/ Task07GivesUp)
  \/ SetAutoRun \/ SystemStart \/ SystemStop \/ SamplingStart \/ SamplingEnds
  \/ Restarted

StartupSpec == StartupInit /\ [][StartupNext]_startupVars

-----------------------------------------------------------------------------
(* Properties *)

(***************************************************************************)
(* queue.c:1472, "check the queue pointer is not NULL", and the assertion  *)
(* below it: no run of sampling, whoever starts it and whenever, asks for  *)
(* a sample number before the semaphore exists.                            *)
(***************************************************************************)
NoNullSemaphore == ~hung

(***************************************************************************)
(* app_screen.c:412, "system settings written to the KVDB": a setting that *)
(* was reported so is in force again once the settings are loaded, after   *)
(* however many resets.                                                    *)
(***************************************************************************)
SettingKept == "KVDB" \in ready /\ reported # Nothing => autoRun = reported

=============================================================================
