SPECIFICATION BoardSpec
CONSTANTS
  Version = {"v1", "v2"}
  AppSectors = 2
  TempSectors = 2
  FileSectors = 3
  Faults = 3
  Bucket = {0, 1}
  HandDevices = {}
INVARIANTS
  TypeOK UpdateTypeOK AtomicHandlersAgree UndisturbedRunHeals UndisturbedEstopHolds
  LockedAtRest
PROPERTIES RunEnds EveryJobEnds EstopSettles ImplementsAtomicUpdate UpdateCompletes
