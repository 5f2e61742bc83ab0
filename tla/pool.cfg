CONSTANTS
  MaxFrames = 2
  MaxAllocs = 3
  Keys = {k1, k2}
  PoolOrigins = {"decode", "vppout"}
  MaxPools = 2
  MaxBases = 2
  MaxDiscards = 1
  MaxCodec = 1

SPECIFICATION PoolSpec

INVARIANTS
  ResponsesCounted
  SurfacesLive
  DestroyedOnce

SYMMETRY KeySymmetry

CHECK_DEADLOCK FALSE
