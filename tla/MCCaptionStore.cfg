CONSTANTS
  Motions = {1, 2}
  Corpora = {"plain", "edited", "shifted", "irregular"}
  Texts <- mc_Texts
  NameOf <- mc_NameOf
  Corrupt = {"N", ""}
  AnimalOnly = {"the animal runs", "an animal rests"}
  MaxEdits = 2
  MaxJobs = 4

SPECIFICATION Spec

CHECK_DEADLOCK FALSE

INVARIANTS
  CaptionsBound
