CONSTANTS
  d1 = d1  d2 = d2  sda = sda  sdb = sdb  win = win  odd = odd
  NoDisk = NoDisk  NoIso = NoIso
  Disks = {d1, d2}
  Names = {sda, sdb}
  ISOs = {win, odd}
  Layouts <- MCLayouts
  HotPlug = FALSE
  MaxEvents = 1
  OsOf <- MCOs
  SizeOf <- MCSize
  CapacityOf <- MCCapacity
  NodeTries = 1
  MaxRuns = 1
  MaxCrashes = 1
SPECIFICATION CliSpec
INVARIANTS CliTypeOK ConsentFirst MeantIsWritten ExitTellsTruth
PROPERTIES GoesOn
