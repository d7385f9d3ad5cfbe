CONSTANTS
  Buffer = {b1}
  Storage = {s1, s2}
  MemBase = 4
  MemSize = 40
  DefaultAlign = 4
  SpillBytes = 8192
  Request <- MCRequest
  MaxContext = 2
SPECIFICATION MemorySpec
INVARIANT ConnectedStorageBacked
CHECK_DEADLOCK FALSE
