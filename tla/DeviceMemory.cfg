CONSTANTS
  Buffer = {b1, b2}
  Storage = {s1}
  MemBase = 4
  MemSize = 40
  DefaultAlign = 4
  SpillBytes = 8192
  Request <- MCRequest
  MaxContext = 2
SPECIFICATION MemorySpec
INVARIANTS
  BlocksTile
  RefusedOnlyWhenFull
  HoldersOwnBlocks
