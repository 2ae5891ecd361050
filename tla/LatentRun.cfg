CONSTANTS
  NEpochs = 4
  Steps = 2
  SaveEvery = 2
  ValEvery = 1
  PeriodicEvery = 2
  Warmup = 3
  Vals = {1, 2}
  Inf = 3
  MaxCrashes = 2

SPECIFICATION FairSpec

INVARIANTS
  ResumesFaithfully

PROPERTIES
  FinishesUnlessTorn
