CONSTANTS
  dir = dir
  inner = inner
  outer = outer
  Paths = {dir, inner, outer}
  Above <- MCAbove
  Images <- MCImages
  MaxBytes = 3
SPECIFICATION Spec
INVARIANTS TypeOK OkMeansWhole CopyEndsFirst
PROPERTIES ProgressForward CancelHeeded ExtractsForSession
