CONSTANT
  Images <- MCImages
SPECIFICATION Spec
INVARIANTS TypeOK WindowsStartFile GrubDecides
PROPERTY SetsUpForSession
