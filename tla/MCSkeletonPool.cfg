CONSTANTS
  ParentLists <- MCParentLists
  J <- MCJ
  T = 4
  Stride = 2
  MaxNested = 3
  Settings <- MCSettings
SPECIFICATION Spec
CHECK_DEADLOCK FALSE
INVARIANTS
  AssignmentSound
  PooledSound
PROPERTIES
  LoopsEnd
