CONSTANTS
  NEpochs = 5
  SaveEvery = 2
  PeriodicEvery = 3
  Vals = {1, 2, 3}
  Inf = 4
  MaxCrashes = 2

SPECIFICATION FairSpec

INVARIANTS
  TypeOK
  FilesConsistent
  BestNeverWorsens
  SnapshotsKept

PROPERTIES
  ImplementsDurableProgress
  FinishesUnlessTorn
