CONSTANTS
  PS1001 = PS1001
  PS6140 = PS6140
  PS6141 = PS6141
  go125 = go125
  go126 = go126
  Unknown = Unknown
  Check = {PS1001, PS6140, PS6141}
  Rank <- MCRank
  Fed = {PS1001}
  Selectors <- MCSelectors
  Levels = {2, 3}
  Configs <- MCConfigs
  File <- MCFile
  Content <- MCContent
  Target = {go125, go126}
  MaxEdits = 2
SPECIFICATION Spec
INVARIANTS
  ScopeHonest
  ExemptHonest
  ExemptEffective
CHECK_DEADLOCK FALSE
