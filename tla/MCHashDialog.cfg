CONSTANTS
  HashTypes = {MD5, SHA256}
  SHA256 = SHA256
  MaxVerifies = 3
  MaxFaults = 2
SPECIFICATION Spec
INVARIANTS TypeOK OneThread LastVerdictStays ControlsMeanIdle
PROPERTIES ControlsComeBack
