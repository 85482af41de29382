CONSTANTS
  Sizes <- MCSizes
  Units = {1, 8}
  BootSizes = {0, 204800, 500000}
  MinDevice = 20480
  Align = 2048
  MinBoot = 102400
  MaxBoot = 409600
  TableMax = 1000000
  Slack = 7
SPECIFICATION Spec
INVARIANTS TypeOK TableSound LayoutKept
PROPERTY CommitsForSession
