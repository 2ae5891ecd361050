CONSTANTS
  A = A
  B = B
  NumClips = 3
  Sizes = {2, 3}
  NumSplits = 2
  ShardCounts = {2, 3}
  Tokenizers = {A, B}
  ManualMerge = FALSE
  MaxRuns = 3
  MaxFails = 1

SPECIFICATION Spec

SYMMETRY Symmetry

INVARIANTS
  UniformCache
  Rerunnable
  ExactIndex

PROPERTIES
  NoFalseRefusal
