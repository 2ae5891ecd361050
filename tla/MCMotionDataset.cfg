CONSTANTS
  Clips = {1, 2, 3, 4}
  Species = {"lynx", "bear"}
  None = "none"
  OwnerOf <- mc_OwnerOf
  Shorter <- mc_Shorter
  KeysOf <- mc_KeysOf
  Whitelist = {"lynx", "bear"}
  ValPercent = 20
  Draw <- mc_Draw
  MaxAdds = 1

SPECIFICATION DataSpec

CHECK_DEADLOCK FALSE

INVARIANTS
  CacheHonest
  SplitsSound
