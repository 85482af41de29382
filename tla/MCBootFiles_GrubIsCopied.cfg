CONSTANT
  Images <- MCImages
SPECIFICATION Spec
INVARIANT GrubIsCopied
