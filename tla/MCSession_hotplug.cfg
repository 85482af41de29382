CONSTANTS
  d1 = d1  d2 = d2  d3 = d3  sda = sda  sdb = sdb
  win = win  lin = lin  odd = odd
  NoDisk = NoDisk  NoIso = NoIso
  Disks <- TwoDisks
  Names = {sda, sdb}
  ISOs = {win, odd}
  Layouts <- FewLayouts
  HotPlug = TRUE
  MaxEvents = 2
  OsOf <- MCOs
  SizeOf <- MCSize
  CapacityOf <- MCCapacity
  NodeTries = 1
  MaxRuns = 1
  MaxCrashes = 1
SPECIFICATION Spec
INVARIANTS TypeOK SystemDiskIntact CleanupComplete
PROPERTIES WrittenIsChecked
SYMMETRY NameSymmetry
