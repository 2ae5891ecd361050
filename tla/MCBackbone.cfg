SPECIFICATION Spec
CONSTANTS
  Clips = 7
  BatchSize = 1
  Epochs = 3
  SaveEvery = 2
  EvalEvery = 2
  Configs <- MCConfigs
  Shuffle <- MCShuffle
  Weighted <- MCWeighted
  Sidecars = {"pinned", "swapped", "truncated"}
  MaxLaunches = 2
  MaxExports = 1
  MaxFaults = 1
INVARIANTS
  SameRun
  UpdatesSound
PROPERTIES
  Ends
CHECK_DEADLOCK FALSE
