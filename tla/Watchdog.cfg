CONSTANTS
  MaxFlakes = 3
  MaxDeaths = 2

SPECIFICATION FairSpec

INVARIANTS
  OneLauncher
  BackboneSpared
  HealthyNeverKilled

PROPERTIES
  Recovery
