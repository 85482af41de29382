CONSTANTS
  d1 = d1  d2 = d2  d3 = d3  sda = sda  sdb = sdb
  win = win  lin = lin  odd = odd
  NoDisk = NoDisk  NoIso = NoIso
  Disks <- TwoDisks
  Names = {sda, sdb}
  ISOs = {win, lin}
  Layouts <- FewLayouts
  HotPlug = FALSE
  MaxEvents = 1
  OsOf <- MCOs
  SizeOf <- MCSize
  CapacityOf <- MCCapacity
  NodeTries = 2
  MaxRuns = 1
  MaxCrashes = 0
SPECIFICATION Spec
PROPERTIES CompletedMeansWritten ImplementsWriteJob ExecuteReturns
