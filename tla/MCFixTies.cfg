SPECIFICATION Spec
CONSTANTS
  A = A
  B = B
  File = {A, B}
  NoFile = NoFile
  Stdlib = {"sort", "slices", "cmp", "io"}
  Fixable = {"slices", "cmp", "io", "sort"}
  NoPkg = "none"
  Orig <- MCOrig
  Inputs <- WithTies
  Kinds <- OnlyOK
INVARIANT AcceptedEditsLand
