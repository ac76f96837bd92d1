SPECIFICATION Spec
CONSTANTS
  InitialChunk = 4
  PowersOfTwo <- MCPowersOfTwo
  ByteSizes <- MCByteSizes
  ByteAlign = 2
  DynSize = 2
  DynAlign = 2
  path1 = path1
  path2 = path2
  Paths <- MCPaths
  Quotas <- MCQuotas
  MaxFrames = 1
  MaxLive = 1
  MaxChunks = 2
  MaxGranted = 2
  SendLimit = 2
INVARIANTS
  QuotaBoundsLoops
  TakesOnlyDynamics
