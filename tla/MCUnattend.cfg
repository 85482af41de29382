CONSTANTS
  Bypasses = {"tpm", "ram"}
  Place <- MCPlace
  CallerSettings <- MCCallerSettings
  MaxClicks = 3
  MaxCalls = 2
  MaxWrites = 2
SPECIFICATION Spec
INVARIANTS TypeOK InstallerProtected ToGoIsToGo AsAsked
CHECK_DEADLOCK FALSE
