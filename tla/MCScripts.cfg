SPECIFICATION Spec
INVARIANTS
  DirectoriesAgree
  RanksAgree
  ScoredIsTrained
PROPERTIES
  NothingLost
  ScriptsEnd
\* The scripts end.
CHECK_DEADLOCK FALSE
