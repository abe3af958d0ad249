------------------------ MODULE FirmwareUpdateProofs ------------------------
(***************************************************************************)
(* Proofs about FirmwareUpdate, for every number of sectors, of firmware   *)
(* files and of interruptions.                                             *)
(***************************************************************************)
EXTENDS FirmwareUpdate, TLAPS

-----------------------------------------------------------------------------
(* The inductive invariant: what is true at the points where power may go. *)

\* The flag is set in the application only between SetFlag and the reset.
FlagInv ==
  /\ step \in AppStep \ {"reset"} => flag # "set"
  /\ step \in {"copy_erase", "copy_write", "flag_clear"} => flag = "set"
  /\ step \in {"records_erase", "load"} => flag # "set"

\* The staging area is programmed after it has been locked again.
LockInv ==
  /\ step \in {"write", "check"} => locked
  /\ step \in {"copy_erase", "copy_write", "flag_clear"} => ~locked

\* The sectors before the present one are copied.
CopyInv ==
  /\ step \in {"copy_erase", "copy_write"} =>
       /\ at \in 1 .. AppSectors /\ retry < 3
       /\ \A k \in 1 .. AppSectors : k < at => app[k] = temp[k]
  /\ step = "flag_clear" => \A k \in 1 .. AppSectors : app[k] = temp[k]

UpdateInv == UpdateTypeOK /\ FlagInv /\ LockInv /\ CopyInv /\ LockedAtRest

LEMMA FirstSector ==
  1 \in 1 .. FileSectors /\ \A k \in 1 .. AppSectors : k \in 1 .. FileSectors
BY UpdateAssumption

LEMMA EraseType == ASSUME NEW s \in Sector PROVE Erase(s) \in Sector
BY DEF Erase, Sector

LEMMA ProgramType ==
  ASSUME NEW s \in Sector, NEW t \in Sector PROVE Program(s, t) \in Sector
BY DEF Program, Sector

LEMMA TornType ==
  ASSUME NEW n \in Nat, NEW a \in [1 .. n -> Sector], NEW b \in Torn(a)
  PROVE  b \in [1 .. n -> Sector]
BY DEF Torn, Sector

\* Torn leaves the flag set or not; only "flag_set" can set it.
LEMMA TornFlagIs ==
  ASSUME UpdateTypeOK, NEW f \in TornFlag
  PROVE  /\ f \in {"set", "erased", "torn"}
         /\ f = "set" => flag = "set" \/ step = "flag_set"
         /\ f # flag => step \in {"flag_erase", "flag_clear", "flag_set", "write"}
BY DEF TornFlag, Program, UpdateTypeOK

LEMMA UpdateInitInv == UpdateInit => UpdateInv
<1> SUFFICES ASSUME UpdateInit PROVE UpdateInv
  OBVIOUS
<1>1. UpdateTypeOK
  <2>1. app \in [1 .. AppSectors -> Sector] /\ temp \in [1 .. TempSectors -> Sector]
    BY DEF UpdateInit, Sector
  <2>2. file \in [contents : Version, sectors : 1 .. FileSectors]
    BY UpdateAssumption DEF UpdateInit, NoFile
  <2> QED BY <2>1, <2>2, UpdateAssumption DEF UpdateInit, UpdateTypeOK, BootStep
<1>2. FlagInv /\ LockInv /\ CopyInv /\ LockedAtRest
  BY DEF UpdateInit, FlagInv, LockInv, CopyInv, LockedAtRest, AppStep
<1> QED BY <1>1, <1>2 DEF UpdateInv

-----------------------------------------------------------------------------
(* The stick and the power voltage monitor *)

LEMMA QuietStep ==
  ASSUME UpdateInv, Quiet, step = "poll",
         usr' \in {"IDLE", "READY", "OTA_CHECK", "OTA_UPGRADE", "FINISH"},
         result' \in {0, 2},
         file' \in [contents : Version, sectors : 1 .. FileSectors]
  PROVE  UpdateInv'
BY DEF UpdateInv, UpdateTypeOK, FlagInv, LockInv, CopyInv, LockedAtRest, Quiet, flash

LEMMA Numbers ==
  ASSUME UpdateInv PROVE at \in 1 .. FileSectors /\ retry \in 0 .. 3 /\ faults \in 0 .. Faults
BY DEF UpdateInv, UpdateTypeOK

\* What a step that leaves the stick alone has to keep of the types.
LEMMA TypeStep ==
  ASSUME UpdateInv, UNCHANGED usb,
         app' \in [1 .. AppSectors -> Sector], temp' \in [1 .. TempSectors -> Sector],
         UNCHANGED <<flag, records>>, locked' \in {locked, TRUE, FALSE},
         step' \in AppStep \cup BootStep, at' \in 1 .. FileSectors, retry' \in 0 .. 3,
         faults' \in 0 .. Faults
  PROVE  UpdateTypeOK'
BY DEF UpdateInv, UpdateTypeOK, usb

LEMMA NoFileType == NoFile \in [contents : Version, sectors : 1 .. FileSectors]
BY UpdateAssumption DEF NoFile

LEMMA StickInv ==
  ASSUME UpdateInv, Insert \/ Remove \/ Ready \/ Refuse \/ NothingThere \/ Accept
  PROVE  UpdateInv'
BY QuietStep, NoFileType
   DEF Insert, Remove, Ready, Refuse, NothingThere, Accept, UpdateInv, UpdateTypeOK

LEMMA PvmInv == ASSUME UpdateInv, PvmIrq \/ PvmInit PROVE UpdateInv'
BY DEF PvmIrq, PvmInit, UpdateInv, UpdateTypeOK, FlagInv, LockInv, CopyInv, LockedAtRest,
       usb, AppStep

LEMMA UpgradeInv == ASSUME UpdateInv, Upgrade PROVE UpdateInv'
<1>1. UpdateTypeOK'
  BY FirstSector DEF UpdateInv, UpdateTypeOK, Upgrade, flash, usb, GoTo, AppStep
<1>2. (FlagInv /\ LockInv /\ CopyInv /\ LockedAtRest)'
  BY DEF UpdateInv, UpdateTypeOK, FlagInv, LockInv, CopyInv, LockedAtRest, Upgrade, flash, usb, GoTo, AppStep
<1> QED BY <1>1, <1>2 DEF UpdateInv

LEMMA EraseTempInv == ASSUME UpdateInv, EraseTemp PROVE UpdateInv'
<1>1. temp' \in [1 .. TempSectors -> Sector]
  BY EraseType DEF EraseTemp, UpdateInv, UpdateTypeOK
<1>2. \/ at < TempSectors /\ step' = "erase" /\ at' = at + 1 /\ locked' = locked
      \/ step' = "write" /\ at' = 1 /\ locked' = TRUE
  BY DEF EraseTemp, GoTo
<1>3. step = "erase" /\ UNCHANGED <<app, flag, records, usb, retry, faults>>
  BY DEF EraseTemp
<1>4. UpdateTypeOK'
  <2>1. step' \in AppStep \cup BootStep /\ at' \in 1 .. FileSectors
    BY FirstSector, <1>2, Numbers, UpdateAssumption DEF AppStep
  <2>2. locked' \in {locked, TRUE, FALSE} /\ app' \in [1 .. AppSectors -> Sector]
    BY <1>2, <1>3 DEF UpdateInv, UpdateTypeOK
  <2> QED BY <1>1, <1>3, <2>1, <2>2, Numbers, TypeStep
<1>5. (FlagInv /\ LockInv /\ CopyInv /\ LockedAtRest)'
  BY <1>2, <1>3 DEF UpdateInv, FlagInv, LockInv, CopyInv, LockedAtRest, AppStep
<1> QED BY <1>4, <1>5 DEF UpdateInv

LEMMA EraseFailsInv == ASSUME UpdateInv, EraseFails PROVE UpdateInv'
<1>1. UpdateTypeOK'
  BY TornType, NoFileType, UpdateAssumption DEF UpdateInv, UpdateTypeOK, EraseFails, flash, usb, GoTo, AppStep, GiveUp
<1>2. (FlagInv /\ LockInv /\ CopyInv /\ LockedAtRest)'
  BY DEF UpdateInv, UpdateTypeOK, FlagInv, LockInv, CopyInv, LockedAtRest, EraseFails, flash, usb, GoTo, AppStep, GiveUp
<1> QED BY <1>1, <1>2 DEF UpdateInv

LEMMA ReadFailsInv == ASSUME UpdateInv, ReadFails PROVE UpdateInv'
<1>1. UpdateTypeOK'
  BY FirstSector, NoFileType DEF UpdateInv, UpdateTypeOK, ReadFails, flash, usb, GoTo, AppStep, GiveUp
<1>2. (FlagInv /\ LockInv /\ CopyInv /\ LockedAtRest)'
  BY DEF UpdateInv, UpdateTypeOK, FlagInv, LockInv, CopyInv, LockedAtRest, ReadFails, flash, usb, GoTo, AppStep, GiveUp
<1> QED BY <1>1, <1>2 DEF UpdateInv

LEMMA CheckFailsInv == ASSUME UpdateInv, CheckFails PROVE UpdateInv'
<1>1. UpdateTypeOK'
  BY FirstSector, NoFileType DEF UpdateInv, UpdateTypeOK, CheckFails, flash, usb, GoTo, AppStep, GiveUp
<1>2. (FlagInv /\ LockInv /\ CopyInv /\ LockedAtRest)'
  BY DEF UpdateInv, UpdateTypeOK, FlagInv, LockInv, CopyInv, LockedAtRest, CheckFails, flash, usb, GoTo, AppStep, GiveUp
<1> QED BY <1>1, <1>2 DEF UpdateInv

LEMMA WriteFileInv == ASSUME UpdateInv, WriteFile PROVE UpdateInv'
<1>1. file.contents \in Sector
  BY DEF UpdateInv, UpdateTypeOK, Sector
<1>2. temp' \in [1 .. TempSectors -> Sector]
  BY <1>1, ProgramType DEF WriteFile, UpdateInv, UpdateTypeOK
<1>3. flag' \in {"set", "erased", "torn"} /\ (flag' = "set" => flag = "set")
  BY DEF WriteFile, Program, UpdateInv, UpdateTypeOK
<1>4. step' \in {"write", "check"} /\ at' \in 1 .. FileSectors
  <2>1. file.sectors \in 1 .. FileSectors
    BY DEF UpdateInv, UpdateTypeOK
  <2>2. \/ at < file.sectors /\ step' = "write" /\ at' = at + 1
        \/ step' = "check" /\ at' = 1
    BY Zenon DEF WriteFile, GoTo
  <2> QED BY <2>1, <2>2, FirstSector, Numbers, UpdateAssumption
<1>5. UpdateTypeOK'
  BY <1>2, <1>3, <1>4 DEF WriteFile, UpdateInv, UpdateTypeOK, flash, usb, GoTo, AppStep
<1>6. (FlagInv /\ LockInv /\ CopyInv /\ LockedAtRest)'
  BY <1>3, <1>4 DEF WriteFile, FlagInv, LockInv, CopyInv, LockedAtRest, UpdateInv, UpdateTypeOK, flash, usb, GoTo, AppStep
<1> QED BY <1>5, <1>6 DEF UpdateInv

LEMMA CheckPassesInv == ASSUME UpdateInv, CheckPasses PROVE UpdateInv'
<1>1. UpdateTypeOK'
  BY FirstSector DEF UpdateInv, UpdateTypeOK, CheckPasses, flash, usb, GoTo, AppStep
<1>2. (FlagInv /\ LockInv /\ CopyInv /\ LockedAtRest)'
  BY DEF UpdateInv, UpdateTypeOK, FlagInv, LockInv, CopyInv, LockedAtRest, CheckPasses, flash, usb, GoTo, AppStep
<1> QED BY <1>1, <1>2 DEF UpdateInv

LEMMA EraseFlagInv == ASSUME UpdateInv, EraseFlag PROVE UpdateInv'
<1>1. UpdateTypeOK'
  BY FirstSector DEF UpdateInv, UpdateTypeOK, EraseFlag, flash, usb, GoTo, AppStep, Erase
<1>2. (FlagInv /\ LockInv /\ CopyInv /\ LockedAtRest)'
  BY DEF UpdateInv, UpdateTypeOK, FlagInv, LockInv, CopyInv, LockedAtRest, EraseFlag, flash, usb, GoTo, AppStep, Erase
<1> QED BY <1>1, <1>2 DEF UpdateInv

LEMMA SetFlagInv == ASSUME UpdateInv, SetFlag PROVE UpdateInv'
<1>1. UpdateTypeOK'
  BY FirstSector DEF UpdateInv, UpdateTypeOK, SetFlag, flash, usb, GoTo, AppStep, Program
<1>2. (FlagInv /\ LockInv /\ CopyInv /\ LockedAtRest)'
  BY DEF UpdateInv, UpdateTypeOK, FlagInv, LockInv, CopyInv, LockedAtRest, SetFlag, flash, usb, GoTo, AppStep
<1> QED BY <1>1, <1>2 DEF UpdateInv

-----------------------------------------------------------------------------
(* The bootloader and the power *)

LEMMA RestartInv ==
  ASSUME UpdateInv, Restart, faults' \in 0 .. Faults, records' \in BOOLEAN,
         app' \in [1 .. AppSectors -> Sector], temp' \in [1 .. TempSectors -> Sector],
         flag' \in {"set", "erased", "torn"}
  PROVE  UpdateInv'
<1>1. UpdateTypeOK'
  BY FirstSector, NoFileType DEF UpdateTypeOK, Restart, GoTo, BootStep
<1>2. (FlagInv /\ LockInv /\ CopyInv /\ LockedAtRest)'
  BY DEF FlagInv, LockInv, CopyInv, LockedAtRest, Restart, GoTo, AppStep
<1> QED BY <1>1, <1>2 DEF UpdateInv

LEMMA CutInv == ASSUME UpdateInv, Cut PROVE UpdateInv'
<1> USE DEF UpdateInv, UpdateTypeOK
<1>1. app' \in [1 .. AppSectors -> Sector] /\ temp' \in [1 .. TempSectors -> Sector]
  BY TornType, UpdateAssumption DEF Cut
<1>2. flag' \in {"set", "erased", "torn"}
  BY TornFlagIs DEF Cut
<1>3. records' \in BOOLEAN /\ faults' \in 0 .. Faults
  <2>1. records' \in BOOLEAN
    BY Zenon DEF Cut
  <2>2. faults < Faults /\ faults' = faults + 1
    BY Zenon DEF Cut
  <2>3. faults' \in 0 .. Faults
    BY <2>2, UpdateAssumption
  <2> QED BY <2>1, <2>3
<1> QED BY <1>1, <1>2, <1>3, RestartInv DEF Cut

LEMMA ResetInv == ASSUME UpdateInv, Reset PROVE UpdateInv'
BY RestartInv DEF Reset, flash, UpdateInv, UpdateTypeOK

LEMMA BootCheckInv == ASSUME UpdateInv, BootCheck PROVE UpdateInv'
<1>1. UpdateTypeOK'
  BY FirstSector DEF UpdateInv, UpdateTypeOK, BootCheck, flash, usb, GoTo, AppStep, BootStep
<1>2. (FlagInv /\ LockInv /\ CopyInv /\ LockedAtRest)'
  BY DEF UpdateInv, UpdateTypeOK, FlagInv, LockInv, CopyInv, LockedAtRest, BootCheck, flash, usb, GoTo, AppStep
<1> QED BY <1>1, <1>2 DEF UpdateInv

LEMMA HandleInv == ASSUME UpdateInv, Handle PROVE UpdateInv'
<1>1. step = "handle" /\ retry' = 0 /\ UNCHANGED <<app, temp, flag, records, usb, faults>>
  BY DEF Handle, flash
<1>2. \/ flag = "set" /\ step' = "copy_erase" /\ at' = 1 /\ locked' = FALSE
      \/ flag # "set" /\ step' = "handle" /\ at' = at /\ locked' = locked
  BY <1>1 DEF Handle, GoTo
<1>3. UpdateTypeOK'
  <2>1. step' \in AppStep \cup BootStep /\ at' \in 1 .. FileSectors
    BY FirstSector, <1>2, Numbers DEF BootStep
  <2>2. locked' \in {locked, TRUE, FALSE}
    BY <1>2
  <2>3. app' \in [1 .. AppSectors -> Sector] /\ temp' \in [1 .. TempSectors -> Sector]
    BY <1>1 DEF UpdateInv, UpdateTypeOK
  <2>4. retry' \in 0 .. 3 /\ faults' \in 0 .. Faults /\ UNCHANGED <<usb, flag, records>>
    BY <1>1, Numbers
  <2> QED BY <2>1, <2>2, <2>3, <2>4, TypeStep
<1>4. (FlagInv /\ LockInv /\ LockedAtRest)'
  BY <1>1, <1>2 DEF UpdateInv, FlagInv, LockInv, CopyInv, LockedAtRest, AppStep
<1>5. CopyInv'
  BY <1>1, <1>2, UpdateAssumption DEF CopyInv
<1> QED BY <1>3, <1>4, <1>5 DEF UpdateInv

LEMMA CopyEraseInv == ASSUME UpdateInv, CopyErase PROVE UpdateInv'
<1>1. /\ step = "copy_erase" /\ step' = "copy_write" /\ at' = at
      /\ UNCHANGED <<temp, flag, records, locked, usb, retry, faults>>
  BY DEF CopyErase, GoTo
<1>2. /\ app' \in [1 .. AppSectors -> Sector]
      /\ \A k \in 1 .. AppSectors : k # at => app'[k] = app[k]
  BY EraseType DEF CopyErase, UpdateInv, UpdateTypeOK
<1>3. UpdateTypeOK'
  BY <1>1, <1>2 DEF UpdateInv, UpdateTypeOK, usb, BootStep
<1>4. (FlagInv /\ LockInv /\ LockedAtRest)'
  BY <1>1 DEF UpdateInv, FlagInv, LockInv, CopyInv, LockedAtRest, AppStep
<1>5. CopyInv'
  <2>1. at \in 1 .. AppSectors /\ retry < 3
        /\ \A k \in 1 .. AppSectors : k < at => app[k] = temp[k]
    BY <1>1 DEF UpdateInv, CopyInv
  <2> QED BY <1>1, <1>2, <2>1 DEF CopyInv
<1> QED BY <1>3, <1>4, <1>5 DEF UpdateInv

LEMMA CopyWriteInv == ASSUME UpdateInv, CopyWrite PROVE UpdateInv'
<1>1. at \in 1 .. AppSectors /\ retry < 3 /\ \A k \in 1 .. AppSectors : k < at => app[k] = temp[k]
  BY DEF UpdateInv, CopyInv, CopyWrite
<1>2. /\ step = "copy_write" /\ app'[at] = temp[at]
      /\ app' = [app EXCEPT ![at] = Program(app[at], temp[at])]
      /\ UNCHANGED <<temp, flag, records, locked, usb, retry, faults>>
  BY DEF CopyWrite
<1>3. \A k \in 1 .. AppSectors : k < at + 1 => app'[k] = temp[k]
  <2> SUFFICES ASSUME NEW k \in 1 .. AppSectors, k < at + 1 PROVE app'[k] = temp[k]
    OBVIOUS
  <2>1. CASE k = at
    BY <1>2, <2>1
  <2>2. CASE k < at
    BY <1>1, <1>2, <2>2 DEF UpdateInv, UpdateTypeOK
  <2> QED BY <1>1, <2>1, <2>2
<1>4. app' \in [1 .. AppSectors -> Sector]
  <2>1. temp[at] \in Sector
    BY <1>1, UpdateAssumption DEF UpdateInv, UpdateTypeOK
  <2> QED BY <1>1, <1>2, <2>1 DEF UpdateInv, UpdateTypeOK
<1>5. \/ at < AppSectors /\ step' = "copy_erase" /\ at' = at + 1
      \/ ~(at < AppSectors) /\ step' = "flag_clear" /\ at' = 1
  BY Zenon DEF CopyWrite, GoTo
<1>6. UpdateTypeOK'
  <2>1. step' \in AppStep \cup BootStep /\ at' \in 1 .. FileSectors
    BY FirstSector, <1>1, <1>5, UpdateAssumption DEF BootStep
  <2>2. temp' \in [1 .. TempSectors -> Sector]
    BY <1>2 DEF UpdateInv, UpdateTypeOK
  <2> QED BY <1>2, <1>4, <2>1, <2>2, Numbers, TypeStep
<1>7. (FlagInv /\ LockInv /\ LockedAtRest)'
  BY <1>2, <1>5 DEF UpdateInv, FlagInv, LockInv, CopyInv, LockedAtRest, AppStep
<1>8. CopyInv'
  <2>1. CASE at < AppSectors
    BY <1>1, <1>2, <1>3, <1>5, <2>1, UpdateAssumption DEF CopyInv
  <2>2. CASE at = AppSectors
    BY <1>1, <1>2, <1>3, <1>5, <2>2, UpdateAssumption DEF CopyInv
  <2> QED BY <1>1, <2>1, <2>2, UpdateAssumption
<1> QED BY <1>6, <1>7, <1>8 DEF UpdateInv

LEMMA CopyFailsInv == ASSUME UpdateInv, CopyFails PROVE UpdateInv'
<1>1. at \in 1 .. AppSectors /\ retry < 3
  BY DEF UpdateInv, CopyInv, CopyFails
<1>2. app' \in [1 .. AppSectors -> Sector]
  BY DEF UpdateInv, UpdateTypeOK, CopyFails, Sector
<1>3. /\ step = "copy_write" /\ faults < Faults /\ faults' = faults + 1 /\ retry' = retry + 1
      /\ UNCHANGED <<temp, flag, records, usb>>
  BY DEF CopyFails
<1>4. \/ retry' < 3 /\ step' = "copy_erase" /\ at' = 1 /\ locked' = locked
      \/ step' = "handle" /\ at' = 1 /\ locked' = TRUE
  BY Zenon DEF CopyFails, GoTo
<1>5. UpdateTypeOK'
  <2>1. step' \in AppStep \cup BootStep /\ at' \in 1 .. FileSectors
    BY FirstSector, <1>4 DEF BootStep
  <2>2. retry' \in 0 .. 3 /\ faults' \in 0 .. Faults
    BY <1>1, <1>3, Numbers, UpdateAssumption
  <2>3. locked' \in {locked, TRUE, FALSE}
    BY <1>4
  <2>4. temp' \in [1 .. TempSectors -> Sector]
    BY <1>3 DEF UpdateInv, UpdateTypeOK
  <2> QED BY <1>2, <1>3, <2>1, <2>2, <2>3, <2>4, TypeStep
<1>6. (FlagInv /\ LockInv /\ LockedAtRest)'
  BY <1>3, <1>4 DEF UpdateInv, FlagInv, LockInv, CopyInv, LockedAtRest, AppStep
<1>7. CopyInv'
  BY <1>4, UpdateAssumption DEF CopyInv
<1> QED BY <1>5, <1>6, <1>7 DEF UpdateInv

LEMMA ClearFlagInv == ASSUME UpdateInv, ClearFlag PROVE UpdateInv'
<1>1. UpdateTypeOK'
  BY FirstSector DEF UpdateInv, UpdateTypeOK, ClearFlag, flash, usb, GoTo, AppStep, BootStep, Erase
<1>2. (FlagInv /\ LockInv /\ CopyInv /\ LockedAtRest)'
  BY FirstSector DEF UpdateInv, UpdateTypeOK, FlagInv, LockInv, CopyInv, LockedAtRest, ClearFlag, flash, usb, GoTo, AppStep, Erase
<1> QED BY <1>1, <1>2 DEF UpdateInv

LEMMA EraseRecordsInv == ASSUME UpdateInv, EraseRecords PROVE UpdateInv'
<1>1. UpdateTypeOK'
  BY FirstSector DEF UpdateInv, UpdateTypeOK, EraseRecords, flash, usb, GoTo, AppStep, BootStep
<1>2. (FlagInv /\ LockInv /\ CopyInv /\ LockedAtRest)'
  BY DEF UpdateInv, UpdateTypeOK, FlagInv, LockInv, CopyInv, LockedAtRest, EraseRecords, flash, usb, GoTo, AppStep
<1> QED BY <1>1, <1>2 DEF UpdateInv

LEMMA LoadInv == ASSUME UpdateInv, Load PROVE UpdateInv'
<1>1. step' \in {"poll", "handle"} /\ at' = 1
  BY DEF Load, GoTo
<1>2. UpdateTypeOK'
  BY FirstSector, <1>1 DEF Load, UpdateInv, UpdateTypeOK, flash, usb, GoTo, AppStep, BootStep
<1>3. (FlagInv /\ LockInv /\ CopyInv /\ LockedAtRest)'
  BY <1>1 DEF Load, FlagInv, LockInv, CopyInv, LockedAtRest, UpdateInv, UpdateTypeOK, flash, usb, GoTo, AppStep
<1> QED BY <1>2, <1>3 DEF UpdateInv

LEMMA UpdateNextInv == UpdateInv /\ [UpdateNext]_updateVars => UpdateInv'
<1> SUFFICES ASSUME UpdateInv, [UpdateNext]_updateVars PROVE UpdateInv'
  OBVIOUS
<1>1. CASE PvmIrq \/ PvmInit
  BY <1>1, PvmInv
<1>2. CASE TakesStick
  BY <1>2, StickInv, UpgradeInv, EraseTempInv, EraseFailsInv, ReadFailsInv, CheckFailsInv,
     WriteFileInv, CheckPassesInv, EraseFlagInv, SetFlagInv, ResetInv DEF TakesStick
<1>3. CASE Bootloads
  BY <1>3, BootCheckInv, HandleInv, CopyEraseInv, CopyWriteInv, CopyFailsInv,
     ClearFlagInv, EraseRecordsInv, LoadInv DEF Bootloads
<1>4. CASE Cut
  BY <1>4, CutInv
<1>5. CASE UNCHANGED updateVars
  BY <1>5 DEF updateVars, flash, usb, UpdateInv, UpdateTypeOK, FlagInv, LockInv, CopyInv,
              LockedAtRest
<1> QED BY <1>1, <1>2, <1>3, <1>4, <1>5 DEF UpdateNext

LEMMA UpdateInvariant == UpdateSpec => []UpdateInv
BY UpdateInitInv, UpdateNextInv, PTL DEF UpdateSpec

(***************************************************************************)
(* Every variable keeps its type, in particular no sector number or number *)
(* of failed copies leaves its range.                                      *)
(***************************************************************************)
THEOREM UpdateTypeCorrect == UpdateSpec => []UpdateTypeOK
BY UpdateInvariant, PTL DEF UpdateInv

(***************************************************************************)
(* The flash controller is locked whenever no flash operation is under     *)
(* way, wherever an upgrade, a copy or an interrupt ended.                 *)
(***************************************************************************)
THEOREM ControllerLocked == UpdateSpec => []LockedAtRest
BY UpdateInvariant, PTL DEF UpdateInv

-----------------------------------------------------------------------------
(* The refinement.  What is installed is what runs, or what is staged.     *)

LEMMA InstalledIs ==
  /\ flag # "set" => Installed = app
  /\ flag = "set" => Installed = [k \in 1 .. AppSectors |-> temp[k]]
BY DEF Installed

LEMMA InstalledType ==
  /\ UpdateInv => Installed \in [1 .. AppSectors -> Sector]
  /\ UpdateInv' => Installed' \in [1 .. AppSectors -> Sector]
<1>1. ASSUME UpdateInv PROVE Installed \in [1 .. AppSectors -> Sector]
  <2>1. \A k \in 1 .. AppSectors : temp[k] \in Sector
    BY <1>1, UpdateAssumption DEF UpdateInv, UpdateTypeOK
  <2> QED BY <1>1, <2>1 DEF UpdateInv, UpdateTypeOK, Installed
<1>2. ASSUME UpdateInv' PROVE Installed' \in [1 .. AppSectors -> Sector]
  <2>1. \A k \in 1 .. AppSectors : temp'[k] \in Sector
    BY <1>2, UpdateAssumption DEF UpdateInv, UpdateTypeOK
  <2> QED BY <1>2, <2>1 DEF UpdateInv, UpdateTypeOK, Installed
<1> QED BY <1>1, <1>2

LEMMA RunningIs == ASSUME UpdateInv PROVE Running # <<>> <=> AppRuns
<1>1. app # <<>>
  <2>1. 1 \in DOMAIN app
    BY UpdateAssumption DEF UpdateInv, UpdateTypeOK
  <2> QED BY <2>1
<1> QED BY <1>1 DEF Running

\* Nothing the promise speaks of changes.
Same == UNCHANGED <<Installed, Running, Pending, records>>

LEMMA PvmRefines == ASSUME UpdateInv, PvmIrq \/ PvmInit PROVE Atomic!Record
<1>1. UNCHANGED <<Installed, Running, Pending>>
  BY DEF PvmIrq, PvmInit, Installed, Running, Pending, AppRuns
<1>2. Running # <<>>
  BY RunningIs DEF PvmIrq, PvmInit, AppRuns, AppStep
<1>3. records' \in BOOLEAN
  BY DEF PvmIrq, PvmInit
<1> QED BY <1>1, <1>2, <1>3 DEF Atomic!Record, Atomic!None

\* The stick, up to the flag, changes nothing that counts.
LEMMA StagingRefines ==
  ASSUME UpdateInv, UpdateInv',
         \/ Insert \/ Remove \/ Ready \/ Refuse \/ NothingThere \/ Accept
         \/ Upgrade \/ EraseTemp \/ EraseFails \/ WriteFile \/ ReadFails
         \/ CheckFails \/ CheckPasses \/ EraseFlag
  PROVE  Same
<1> USE DEF Insert, Remove, Ready, Refuse, NothingThere, Accept, Upgrade, EraseTemp,
            EraseFails, WriteFile, ReadFails, CheckFails, CheckPasses, EraseFlag,
            Quiet, GiveUp, GoTo, flash
<1>1. step \in AppStep \ {"reset"} /\ step' \in AppStep \ {"reset"}
  BY DEF AppStep
<1>2. flag # "set" /\ flag' # "set"
  BY <1>1 DEF UpdateInv, FlagInv
<1>3. UNCHANGED <<app, records>>
  OBVIOUS
<1> QED BY <1>1, <1>2, <1>3, InstalledIs
        DEF Same, Running, Pending, AppRuns, AppStep, Installed

LEMMA SetFlagRefines == ASSUME UpdateInv, UpdateInv', SetFlag PROVE Same \/ Atomic!Commit
<1>1. UNCHANGED <<app, temp, records>> /\ AppRuns /\ AppRuns' /\ step' = "reset"
  BY DEF SetFlag, GoTo, AppRuns, AppStep
<1>2. UNCHANGED Running /\ Running # <<>>
  BY <1>1, RunningIs DEF Running
<1>3. flag # "set" /\ step = "flag_set"
  BY DEF SetFlag, UpdateInv, FlagInv, AppStep
<1>4. CASE flag' = "set"
  BY <1>1, <1>2, <1>4, InstalledType DEF Atomic!Commit, Atomic!None, Pending
<1>5. CASE flag' # "set"
  BY <1>1, <1>2, <1>3, <1>5 DEF Same, Pending, Installed
<1> QED BY <1>4, <1>5

LEMMA ResetRefines == ASSUME UpdateInv, Reset PROVE Atomic!Stop
BY DEF Reset, Restart, GoTo, flash, Installed, Running, Pending, AppRuns, AppStep,
       Atomic!Stop, Atomic!None

LEMMA CopyRefines ==
  ASSUME UpdateInv, BootCheck \/ Handle \/ CopyErase \/ CopyWrite \/ CopyFails
  PROVE  Same
<1>1. /\ step \in {"boot", "handle", "copy_erase", "copy_write"}
      /\ step' \in {"handle", "load", "copy_erase", "copy_write", "flag_clear"}
  BY DEF BootCheck, Handle, CopyErase, CopyWrite, CopyFails, GoTo
<1>2. UNCHANGED <<temp, flag, records>> /\ (flag = "set" \/ app' = app)
  BY DEF BootCheck, Handle, CopyErase, CopyWrite, CopyFails, flash, UpdateInv, FlagInv
<1> QED BY <1>1, <1>2 DEF Same, Installed, Running, Pending, AppRuns, AppStep

\* What is installed stays the same when the flag goes: the copy is complete.
LEMMA CopiedIs ==
  ASSUME UpdateInv, step = "flag_clear", UNCHANGED app, UNCHANGED temp
  PROVE  Installed' = Installed
<1>1. app = [k \in 1 .. AppSectors |-> temp[k]]
  BY DEF UpdateInv, UpdateTypeOK, CopyInv
<1> QED BY <1>1 DEF Installed

LEMMA ClearFlagRefines == ASSUME UpdateInv, ClearFlag PROVE Same
<1>1. Installed' = Installed
  BY CopiedIs DEF ClearFlag
<1> QED BY <1>1 DEF ClearFlag, GoTo, UpdateInv, FlagInv, Same, Running, Pending, AppRuns, AppStep

LEMMA EraseRecordsRefines == ASSUME UpdateInv, UpdateInv', EraseRecords PROVE Atomic!Prepare
<1>1. step = "records_erase" /\ step' = "load" /\ UNCHANGED <<app, temp, flag>>
  BY DEF EraseRecords, GoTo
<1>2. flag # "set" /\ records' \in {records, FALSE}
  BY <1>1 DEF EraseRecords, UpdateInv, FlagInv, UpdateTypeOK
<1> QED BY <1>1, <1>2
        DEF Atomic!Prepare, Atomic!None, Installed, Running, Pending, AppRuns, AppStep

LEMMA LoadRefines == ASSUME UpdateInv, Load PROVE Same \/ Atomic!Start
<1>1. step = "load" /\ flag # "set" /\ UNCHANGED <<app, temp, flag, records>>
  BY DEF Load, flash, UpdateInv, FlagInv
<1>2. step' \in {"poll", "handle"}
  BY DEF Load, GoTo
<1> QED BY <1>1, <1>2 DEF Same, Atomic!Start, Atomic!None, Installed, Running, Pending,
                          AppRuns, AppStep

\* Power goes: the board stops, and the flag may have been set or cleared.
LEMMA CutRefines == ASSUME UpdateInv, UpdateInv', Cut PROVE Same \/ Atomic!Next
<1> USE DEF Atomic!None
<1>1. step' = "boot" /\ Running' = <<>>
  BY DEF Cut, Restart, GoTo, Running, AppRuns, AppStep
<1>2. /\ flag' = "set" => flag = "set" \/ step = "flag_set"
      /\ flag' # flag => step \in {"flag_erase", "flag_clear", "flag_set", "write"}
  BY TornFlagIs DEF Cut, UpdateInv
<1>3. Pending' <=> flag' = "set"
  BY <1>1 DEF Pending
<1>4. /\ step \notin {"copy_erase", "copy_write"} => app' = app
      /\ step \notin {"erase", "write"} => temp' = temp
  BY DEF Cut
<1>5. step # "records_erase" => records' = records
  BY DEF Cut, UpdateInv, UpdateTypeOK
<1>6. CASE AppRuns
  <2>1. records' = records /\ app' = app /\ Running # <<>>
    BY <1>4, <1>5, <1>6, RunningIs DEF AppRuns, AppStep
  <2>2. CASE flag' = "set" /\ flag # "set"
    <3>1. Atomic!Commit
      BY <1>1, <1>3, <2>1, <2>2, InstalledType DEF Atomic!Commit
    <3> QED BY <3>1 DEF Atomic!Next
  <2>3. CASE flag' = "set" /\ flag = "set"
    <3>1. step = "reset"
      BY <1>6, <2>3 DEF UpdateInv, FlagInv, AppRuns
    <3>2. Atomic!Stop
      BY <1>1, <1>4, <2>1, <2>3, <3>1 DEF Atomic!Stop, Installed, Pending
    <3> QED BY <3>2 DEF Atomic!Next
  <2>4. CASE flag' # "set"
    <3>1. flag # "set"
      BY <1>2, <1>6, <2>4 DEF UpdateInv, FlagInv, AppRuns
    <3>2. Atomic!Stop
      BY <1>1, <1>6, <2>1, <2>4, <3>1, InstalledIs
         DEF Atomic!Stop, Installed, Pending, AppRuns, AppStep
    <3> QED BY <3>2 DEF Atomic!Next
  <2> QED BY <2>2, <2>3, <2>4
<1>7. CASE ~AppRuns /\ step = "flag_clear"
  <2>1. Installed' = Installed
    BY <1>4, <1>7, CopiedIs
  <2>2. Same \/ Atomic!Prepare
    BY <1>1, <1>5, <1>7, <2>1
       DEF Same, Atomic!Prepare, Running, Pending, UpdateInv, FlagInv
  <2> QED BY <2>2 DEF Atomic!Next
<1>8. CASE ~AppRuns /\ step = "records_erase"
  <2>1. flag # "set" /\ flag' = flag /\ app' = app /\ temp' = temp
    BY <1>2, <1>4, <1>8 DEF UpdateInv, FlagInv
  <2>2. records' \in {records, FALSE}
    BY <1>8 DEF Cut, UpdateInv, UpdateTypeOK
  <2>3. Atomic!Prepare
    BY <1>1, <1>8, <2>1, <2>2 DEF Atomic!Prepare, Installed, Running, Pending
  <2> QED BY <2>3 DEF Atomic!Next
<1>9. CASE ~AppRuns /\ step \notin {"flag_clear", "records_erase"}
  <2>1. step \in {"boot", "handle", "copy_erase", "copy_write", "load"}
    BY <1>9 DEF UpdateInv, UpdateTypeOK, AppRuns, BootStep
  <2>2. flag' = flag /\ temp' = temp /\ (flag = "set" \/ app' = app)
    BY <1>2, <1>4, <2>1 DEF UpdateInv, FlagInv
  <2>3. Same
    BY <1>1, <1>5, <1>9, <2>1, <2>2 DEF Same, Installed, Running, Pending
  <2> QED BY <2>3
<1> QED BY <1>6, <1>7, <1>8, <1>9

LEMMA UpdateStepRefines ==
  ASSUME UpdateInv, UpdateInv', [UpdateNext]_updateVars
  PROVE  [Atomic!Next]_<<Installed, Running, Pending, records>>
<1>1. CASE PvmIrq \/ PvmInit
  BY <1>1, PvmRefines DEF Atomic!Next
<1>2. CASE TakesStick
  BY <1>2, StagingRefines, SetFlagRefines, ResetRefines DEF TakesStick, Atomic!Next, Same
<1>3. CASE Bootloads
  BY <1>3, CopyRefines, ClearFlagRefines, EraseRecordsRefines, LoadRefines
     DEF Bootloads, Atomic!Next, Same
<1>4. CASE Cut
  BY <1>4, CutRefines DEF Same
<1>5. CASE UNCHANGED updateVars
  BY <1>5 DEF updateVars, flash, Installed, Running, Pending, AppRuns
<1> QED BY <1>1, <1>2, <1>3, <1>4, <1>5 DEF UpdateNext

LEMMA UpdateInitRefines == ASSUME UpdateInit, UpdateInv PROVE Atomic!Init
BY InstalledType DEF UpdateInit, Atomic!Init, Atomic!None, Running, Pending, AppRuns, AppStep

(***************************************************************************)
(* However often power goes, and however often a sector fails in staging,  *)
(* in the copy or in Bank 2, the board runs the firmware it had or the     *)
(* whole of what was staged, and loses its records only on the way to a    *)
(* new firmware: the update across the reset implements the update in one  *)
(* step, as long as an erase of the flag does not leave it set.            *)
(***************************************************************************)
THEOREM AtomicRefinement == UpdateSpec => ImplementsAtomicUpdate
<1>1. UpdateInv /\ UpdateInv' /\ [UpdateNext]_updateVars
        => [Atomic!Next]_<<Installed, Running, Pending, records>>
  BY UpdateStepRefines
<1>2. UpdateInit => Atomic!Init
  BY UpdateInitRefines, UpdateInitInv
<1> QED BY <1>1, <1>2, UpdateInvariant, PTL DEF UpdateSpec, ImplementsAtomicUpdate, Atomic!Spec

=============================================================================
