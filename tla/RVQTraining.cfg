CONSTANTS
  WorldSize = 2
  NumQuantizers = 2
  NumCodes = 2
  Dropout = TRUE
  StepsPerEpoch = 2
  Epochs = 2
  SaveEvery = 2
  PeriodicEvery = 0
  MaxFaults = 1
  M = 2
  Threshold = 1
  Pad = Pad
  Vec <- MCVec
  Mass <- MCMass
  EmaMass <- MCEmaMass
  EmaVec <- MCEmaVec
  Nearest <- MCNearest
  Residual <- MCResidual
  InitBooks <- MCInitBooks

SPECIFICATION FairSpec

INVARIANTS
  TypeOK
  CollectivesMatch
  CodebookAgreement
  NoPaddedCode
  NoStepPastFailedGate
  CheckpointAgreed

PROPERTIES
  Termination
