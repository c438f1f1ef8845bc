CONSTANTS
  Context = 1
  MaxLines = 5
  Line <- MCLine
  Versions <- MCVersions
SPECIFICATION Spec
INVARIANTS
  DiffApplies
  HunksApart
  LeastChange
  EditScript
CHECK_DEADLOCK FALSE
