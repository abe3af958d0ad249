--------------------------- MODULE FirmwareUpdate ---------------------------
(***************************************************************************)
(* The firmware update from a USB stick, across the reset: Task01 stages   *)
(* the file in a part of the flash and sets a flag (usbh_user.c), the      *)
(* bootloader copies what is staged over the program, clears the flag and  *)
(* erases the records (BOOTLOADER, bsp_ota.c and bsp_flash.c).  Both write *)
(* through a controller that ignores a write while it is locked; the power *)
(* voltage monitor's interrupt, of the highest priority, unlocks it, keeps *)
(* a record and locks it again, at any point of Task01's code.             *)
(*                                                                         *)
(* Every erase or program of a sector is a step.  Power may go, or the     *)
(* watchdog may bite, within any of them: that sector is then torn.  What  *)
(* the flash and the flag hold when the board is switched on is what       *)
(* production or an earlier update left there.                             *)
(***************************************************************************)
EXTENDS Naturals

CONSTANTS
  Version,       \* the contents of firmware files
  AppSectors,    \* FLASH_APP_SECTORS: the sectors the bootloader copies
  TempSectors,   \* OTA_TEMP_SIZE: the sectors the update stages into
  FileSectors,   \* the longest file usbh_user.c takes
  Faults         \* bound: losses of power, resets and flaws of the flash

ASSUME UpdateAssumption ==
  /\ AppSectors \in Nat /\ TempSectors \in Nat /\ FileSectors = TempSectors + 1
  /\ 0 < AppSectors /\ AppSectors <= TempSectors
  /\ Faults \in Nat
  /\ "erased" \notin Version /\ "torn" \notin Version /\ Version # {}

VARIABLES
  app, temp,  \* the sectors of the program and of the staging area
  flag,       \* the word at OTA_UPGRADE_FLAG_ADDR: set, erased, or torn
  records,    \* Bank 2, erased with the KVDB, holds power-fail records
  locked,     \* oplk of the flash controller
  usr,        \* g_usr_state
  result,     \* g_ota_result: 0 nothing, 2 failed; 1 is followed by the reset
  file,       \* the file whose header was taken: its contents, its sectors
  step,       \* where the program that runs, application or bootloader, is
  at,         \* the sector it works on
  retry,      \* copies the bootloader has begun and failed in a row
  faults      \* interruptions, and sectors that failed, so far

flash == <<app, temp, flag, records>>
usb   == <<usr, result, file>>
updateVars == <<flash, locked, usb, step, at, retry, faults>>

Sector == Version \cup {"erased", "torn"}
AppStep == {"poll", "erase", "write", "check", "flag_erase", "flag_set", "reset"}
BootStep == {"boot", "handle", "copy_erase", "copy_write", "flag_clear",
             "records_erase", "load"}

NoFile == [contents |-> CHOOSE v \in Version : TRUE, sectors |-> 1]

UpdateTypeOK ==
  /\ app \in [1 .. AppSectors -> Sector]
  /\ temp \in [1 .. TempSectors -> Sector]
  /\ flag \in {"set", "erased", "torn"}
  /\ records \in BOOLEAN /\ locked \in BOOLEAN
  /\ usr \in {"IDLE", "READY", "OTA_CHECK", "OTA_UPGRADE", "FINISH"}
  /\ result \in {0, 2}
  /\ file \in [contents : Version, sectors : 1 .. FileSectors]
  /\ step \in AppStep \cup BootStep
  /\ at \in 1 .. FileSectors
  /\ retry \in 0 .. 3
  /\ faults \in 0 .. Faults

UpdateInit ==
  /\ \E v \in Version : app = [k \in 1 .. AppSectors |-> v]
  /\ \E s \in Version \cup {"erased"} : temp = [k \in 1 .. TempSectors |-> s]
  /\ flag \in {"set", "erased"}
  /\ records \in BOOLEAN /\ locked = TRUE
  /\ usr = "IDLE" /\ result = 0
  /\ file = NoFile
  /\ step = "boot" /\ at = 1 /\ retry = 0 /\ faults = 0

-----------------------------------------------------------------------------
(* The flash controller: locked, it ignores what it is told and reports     *)
(* success.                                                                *)

Erase(old) == IF locked THEN old ELSE "erased"

\* A word can be programmed after an erase only; the same again is harmless.
Program(old, new) ==
  IF locked \/ old = new THEN old ELSE IF old = "erased" THEN new ELSE "torn"

\* What area may hold after an operation on its sector at broke off.
Torn(area) ==
  {area} \cup (IF locked THEN {} ELSE {[area EXCEPT ![at] = "torn"]})

\* bsp_pvm_irq: the supply dips, the time is recorded in Bank 2.
PvmIrq ==
  /\ step \in AppStep
  /\ locked' = TRUE /\ records' = TRUE
  /\ UNCHANGED <<app, temp, flag, usb, step, at, retry, faults>>

\* bsp_pvm_init, at the start of Task07, here whenever Task01 sleeps: a full
\* record sector is erased.
PvmInit ==
  /\ step = "poll"
  /\ records' = FALSE
  /\ UNCHANGED <<app, temp, flag, locked, usb, step, at, retry, faults>>

-----------------------------------------------------------------------------
(* usbh_user_application, polled by Task01, and the stick *)

Quiet == UNCHANGED <<flash, locked, step, at, retry, faults>>

\* Enumeration of a stick is over: usbh_user_enumeration_done.
Insert ==
  /\ step = "poll" /\ usr = "IDLE"
  /\ usr' = "READY" /\ UNCHANGED <<result, file>> /\ Quiet

\* usbh_user_disconnect
Remove ==
  /\ step = "poll" /\ usr # "IDLE"
  /\ usr' = "IDLE" /\ file' = NoFile /\ UNCHANGED result /\ Quiet

Ready ==
  /\ step = "poll" /\ usr = "READY"
  /\ usr' = "OTA_CHECK" /\ UNCHANGED <<result, file>> /\ Quiet

\* The stick cannot be mounted, or the header is short, wrong, or too long.
Refuse ==
  /\ step = "poll" /\ usr = "OTA_CHECK"
  /\ usr' = "FINISH" /\ result' = 2 /\ UNCHANGED file /\ Quiet

NothingThere ==
  /\ step = "poll" /\ usr = "OTA_CHECK"
  /\ usr' = "FINISH" /\ result' = 0 /\ UNCHANGED file /\ Quiet

Accept ==
  /\ step = "poll" /\ usr = "OTA_CHECK"
  /\ usr' = "OTA_UPGRADE"
  /\ file' \in [contents : Version, sectors : 1 .. FileSectors]
  /\ UNCHANGED result /\ Quiet

GoTo(s, k) == step' = s /\ at' = k

\* The upgrade is given up, with the result r.
GiveUp(r) == usr' = "FINISH" /\ result' = r /\ file' = NoFile /\ GoTo("poll", 1)

\* usb_ota_erase: unlock, ...
Upgrade ==
  /\ step = "poll" /\ usr = "OTA_UPGRADE"
  /\ locked' = FALSE /\ GoTo("erase", 1)
  /\ UNCHANGED <<flash, usb, retry, faults>>

\* ... erase sector by sector, and lock.
EraseTemp ==
  /\ step = "erase"
  /\ temp' = [temp EXCEPT ![at] = Erase(@)]
  /\ IF at < TempSectors THEN GoTo("erase", at + 1) /\ UNCHANGED locked
                         ELSE GoTo("write", 1) /\ locked' = TRUE
  /\ UNCHANGED <<app, flag, records, usb, retry, faults>>

\* Mutant: the failing erase returns without locking.
EraseFailsUnlocked ==
  /\ step = "erase"
  /\ temp' \in Torn(temp)
  /\ GiveUp(2)
  /\ UNCHANGED <<locked, app, flag, records, retry, faults>>

EraseFails ==
  /\ step = "erase"
  /\ temp' \in Torn(temp)
  /\ locked' = TRUE /\ GiveUp(2)
  /\ UNCHANGED <<app, flag, records, retry, faults>>

\* Mutant: the loop over the file runs once too often.
WriteFilePast ==
  /\ step = "write"
  /\ IF at <= TempSectors
       THEN temp' = [temp EXCEPT ![at] = Program(@, file.contents)] /\ UNCHANGED flag
       ELSE flag' = Program(flag, "torn") /\ UNCHANGED temp
  /\ IF at <= file.sectors THEN GoTo("write", at + 1) ELSE GoTo("check", 1)
  /\ UNCHANGED <<app, records, locked, usb, retry, faults>>

\* The blocks of a sector are read, added to the checksum and programmed;
\* the result of programming is not looked at.  Past the staging area lies
\* the sector of the flag.
WriteFile ==
  /\ step = "write"
  /\ \/ /\ at <= TempSectors
        /\ temp' = [temp EXCEPT ![at] = Program(@, file.contents)]
        /\ UNCHANGED flag
     \/ /\ at > TempSectors
        /\ flag' = Program(flag, "torn")
        /\ UNCHANGED temp
  /\ IF at < file.sectors THEN GoTo("write", at + 1) ELSE GoTo("check", 1)
  /\ UNCHANGED <<app, records, locked, usb, retry, faults>>

\* The stick is pulled or cannot be read.
ReadFails ==
  /\ step = "write"
  /\ GiveUp(2)
  /\ UNCHANGED <<flash, locked, retry, faults>>

\* The checksum of what was read is wrong, or an earlier stick has failed.
CheckFails ==
  /\ step = "check"
  /\ GiveUp(2)
  /\ UNCHANGED <<flash, locked, retry, faults>>

\* It is right: bsp_flash_upgrade_flag_write unlocks, ...
CheckPasses ==
  /\ step = "check" /\ result # 2
  /\ locked' = FALSE /\ GoTo("flag_erase", 1)
  /\ UNCHANGED <<flash, usb, retry, faults>>

\* ... erases, ...
EraseFlag ==
  /\ step = "flag_erase"
  /\ flag' = Erase(flag) /\ GoTo("flag_set", 1)
  /\ UNCHANGED <<app, temp, records, locked, usb, retry, faults>>

\* ... and programs the flag;
SetFlag ==
  /\ step = "flag_set"
  /\ flag' = Program(flag, "set") /\ GoTo("reset", 1)
  /\ UNCHANGED <<app, temp, records, locked, usb, retry, faults>>

\* What a reset does to all that is not flash.
Restart ==
  /\ locked' = TRUE /\ usr' = "IDLE" /\ result' = 0 /\ retry' = 0
  /\ file' = NoFile
  /\ GoTo("boot", 1)

\* then the board resets itself.
Reset ==
  /\ step = "reset"
  /\ Restart
  /\ UNCHANGED <<flash, faults>>

TakesStick ==
  \/ Insert \/ Remove \/ Ready \/ Refuse \/ NothingThere \/ Accept
  \/ Upgrade \/ EraseTemp \/ EraseFails \/ WriteFile \/ ReadFails
  \/ CheckFails \/ CheckPasses \/ EraseFlag \/ SetFlag \/ Reset

-----------------------------------------------------------------------------
(* The bootloader *)

\* main: the flag decides; without it the application is started.
BootCheck ==
  /\ step = "boot"
  /\ GoTo(IF flag = "set" THEN "handle" ELSE "load", 1)
  /\ UNCHANGED <<flash, locked, usb, retry, faults>>

\* ota_upgrade_app_handle, called for ever; app_flash_update unlocks.
Handle ==
  /\ step = "handle"
  /\ IF flag = "set"
       THEN GoTo("copy_erase", 1) /\ locked' = FALSE
       ELSE UNCHANGED <<step, at, locked>>
  /\ retry' = 0
  /\ UNCHANGED <<flash, usb, faults>>

\* app_flash_update, sector by sector: erase, ...
CopyErase ==
  /\ step = "copy_erase"
  /\ app' = [app EXCEPT ![at] = Erase(@)]
  /\ GoTo("copy_write", at)
  /\ UNCHANGED <<temp, flag, records, locked, usb, retry, faults>>

\* ... write, read back and compare.
CopyWrite ==
  /\ step = "copy_write"
  /\ app' = [app EXCEPT ![at] = Program(@, temp[at])]
  /\ app'[at] = temp[at]
  /\ IF at < AppSectors THEN GoTo("copy_erase", at + 1) ELSE GoTo("flag_clear", 1)
  /\ UNCHANGED <<temp, flag, records, locked, usb, retry, faults>>

\* Mutant: the copy is not read back.
CopyFailsUnseen ==
  /\ step = "copy_write" /\ faults < Faults
  /\ app' = [app EXCEPT ![at] = "torn"]
  /\ faults' = faults + 1
  /\ IF at < AppSectors THEN GoTo("copy_erase", at + 1) ELSE GoTo("flag_clear", 1)
  /\ UNCHANGED <<temp, flag, records, locked, usb, retry>>

\* Mutant: after the third failure the bootloader starts what there is.
CopyFailsForGood ==
  /\ step = "copy_write" /\ faults < Faults
  /\ app' = [app EXCEPT ![at] = "torn"]
  /\ faults' = faults + 1 /\ retry' = retry + 1
  /\ IF retry' < 3 THEN GoTo("copy_erase", 1) /\ UNCHANGED locked
                   ELSE GoTo("load", 1) /\ locked' = TRUE
  /\ UNCHANGED <<temp, flag, records, usb>>

\* The sector does not hold what was written: the handler copies again, up
\* to three times, and main calls it again.
CopyFails ==
  /\ step = "copy_write" /\ faults < Faults
  /\ app' = [app EXCEPT ![at] = "torn"]
  /\ faults' = faults + 1 /\ retry' = retry + 1
  /\ IF retry' < 3 THEN GoTo("copy_erase", 1) /\ UNCHANGED locked
                   ELSE GoTo("handle", 1) /\ locked' = TRUE
  /\ UNCHANGED <<temp, flag, records, usb>>

\* The result of the erase is not looked at.  It may leave the sector torn; that
\* it leaves a set flag set is excluded here.
ClearFlag ==
  /\ step = "flag_clear"
  /\ flag' \in {Erase(flag), "torn"} /\ GoTo("records_erase", 1)
  /\ UNCHANGED <<app, temp, records, locked, usb, retry, faults>>

EraseRecords ==
  /\ step = "records_erase"
  /\ records' \in {records, records /\ locked}
  /\ locked' = TRUE /\ GoTo("load", 1)
  /\ UNCHANGED <<app, temp, flag, usb, retry, faults>>

\* app_load: jumps if the reset vector lies in the flash (a torn sector may
\* show any vector), else returns to main's loop.
Load ==
  /\ step = "load"
  /\ \/ app[1] # "erased" /\ GoTo("poll", 1)
     \/ app[1] \notin Version /\ GoTo("handle", 1)
  /\ UNCHANGED <<flash, locked, usb, retry, faults>>

Bootloads ==
  \/ BootCheck \/ Handle \/ CopyErase \/ CopyWrite \/ CopyFails
  \/ ClearFlag \/ EraseRecords \/ Load

-----------------------------------------------------------------------------
(* Power goes, or the watchdog bites: what was being erased or programmed, *)
(* if the controller took it, is torn.                                     *)

TornFlag ==
  CASE locked -> {flag}
    [] step \in {"flag_erase", "flag_clear"} -> {flag, "erased", "torn"}
    [] step = "flag_set" -> {flag, Program(flag, "set"), "torn"}
    [] step = "write" /\ at > TempSectors -> {flag, "torn"}
    [] OTHER -> {flag}

Cut ==
  /\ faults < Faults /\ faults' = faults + 1
  /\ app' \in IF step \in {"copy_erase", "copy_write"} THEN Torn(app) ELSE {app}
  /\ temp' \in IF step \in {"erase", "write"} THEN Torn(temp) ELSE {temp}
  /\ flag' \in TornFlag
  /\ records' \in {records, records /\ (step # "records_erase" \/ locked)}
  /\ Restart

UpdateNext == PvmIrq \/ PvmInit \/ TakesStick \/ Bootloads \/ Cut

(* The bootloader runs alone, and nothing stops a reset.  Nothing is       *)
(* assumed of the stick, and a bad sector takes a write in the end: Faults *)
(* bounds how often it does not.                                           *)
Carries == Reset \/ Bootloads

UpdateSpec == UpdateInit /\ [][UpdateNext]_updateVars
UpdateFairSpec == UpdateSpec /\ WF_updateVars(Carries)

-----------------------------------------------------------------------------
(* Properties *)

AppRuns == step \in AppStep

\* The image the next start runs: with the flag set, the staged one.
Installed == IF flag = "set" THEN [k \in 1 .. AppSectors |-> temp[k]] ELSE app

Running == IF AppRuns THEN app ELSE <<>>
Pending == flag = "set" \/ step = "records_erase"

Atomic == INSTANCE AtomicUpdate WITH
            Image <- [1 .. AppSectors -> Sector],
            firmware <- Installed, running <- Running, pending <- Pending

(***************************************************************************)
(* However often power goes, in whatever step, and however often a sector  *)
(* fails in staging, in the copy or in Bank 2, the board runs either the   *)
(* firmware it had or the whole of what was staged when the flag was set,  *)
(* never a part of each; while it is down, the records of Bank 2 are lost  *)
(* only on the way to a new firmware (bsp_ota.c:30: copy the firmware,     *)
(* clear the flag, erase the KVDB, start).  Of the flag's own sector it is *)
(* assumed that an erase does not leave it set (see ClearFlag).            *)
(***************************************************************************)
ImplementsAtomicUpdate == Atomic!Spec

(***************************************************************************)
(* An update once ordered is carried out: the flag is cleared, and the     *)
(* bootloader either starts the application or has found that it has no    *)
(* reset vector, also when the copy fails more than three times or power   *)
(* goes in the middle (bsp_ota.c:31).                                      *)
(***************************************************************************)
UpdateCompletes == flag = "set" ~> flag # "set" /\ (AppRuns \/ step = "handle")

(***************************************************************************)
(* Whichever way an upgrade, a failed copy or an interrupt ends, the flash *)
(* controller is locked while no flash operation is under way, so that a   *)
(* stray write cannot change the firmware.                                 *)
(***************************************************************************)
LockedAtRest == step \in {"poll", "boot", "handle", "load"} => locked

(***************************************************************************)
(* usbh_user.c:286, "read the firmware block by block and write it to the  *)
(* flash", and :333, "CRC passed, %lu bytes written": when the board       *)
(* resets itself to install an update, the staging area holds the file     *)
(* whose checksum has passed.                                              *)
(***************************************************************************)
InstallsTheFile ==
  step = "reset" =>
    /\ flag = "set"
    /\ \A k \in 1 .. AppSectors : k <= file.sectors => temp[k] = file.contents

=============================================================================
