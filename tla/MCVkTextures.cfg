SPECIFICATION TexturesSpec
CONSTANTS
  Textures = {t1, t2}
  Objects = {o1, o2, o3}
  Versions = {a, b}
  MaxUploads = 1
  MaxRefreshes = 1
  MaxFrees = 1
  MaxSlots = 1
  MaxPending = 1
  FramesInFlight = 2
  Bindless = TRUE
  MaxRequests = 2
INVARIANTS TextureInv LatestPictureWins
PROPERTY SetsUntouched
SYMMETRY Symmetry
CHECK_DEADLOCK FALSE
