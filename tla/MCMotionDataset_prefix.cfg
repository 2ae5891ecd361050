CONSTANTS
  Clips = {1, 2, 3, 4}
  Species = {"lynx", "lynx_cub"}
  None = "none"
  OwnerOf <- mc_OwnerOf_cub
  Shorter <- mc_Shorter_cub
  KeysOf <- mc_KeysOf_cub
  Whitelist = {"lynx", "lynx_cub"}
  ValPercent = 20
  Draw <- mc_Draw
  MaxAdds = 1

SPECIFICATION DataSpec

CHECK_DEADLOCK FALSE

INVARIANTS
  OwnSkeleton
