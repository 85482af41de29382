CONSTANTS
  Names = {sdb, sdc}
  Disks = {stick, inner}
  Removable = {stick}
  NoDisk = NoDisk
  NoName = NoName
  MaxWorkers = 2
  MaxChanges = 1
SPECIFICATION Spec
INVARIANT ConfirmedIsWritten
