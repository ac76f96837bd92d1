SPECIFICATION Spec
CONSTANTS
  InitialChunk = 4
  PowersOfTwo <- MCPowersOfTwo
  ByteSizes <- MCByteSizes
  ByteAlign = 2
  DynSize = 2
  DynAlign = 2
  path1 = path1
  path2 = path2
  Paths <- MCPaths
  Quotas <- MCQuotas
  MaxFrames = 2
  MaxLive = 4
  MaxChunks = 3
  MaxGranted = 1
  SendLimit = 2
INVARIANTS
  ArenaSound
  EachDroppedOnce
  PointersAlive
  ErrMeansFault
  SendStackBalanced
  QuotaConserved
SYMMETRY MCSymmetry
