SPECIFICATION UpdateFairSpec
CONSTANTS
  Version = {"v1", "v2"}
  AppSectors = 2
  TempSectors = 2
  FileSectors = 3
  Faults = 0
INVARIANT InstallsTheFile
