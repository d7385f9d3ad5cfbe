CONSTANTS
  Words = 4
  Value = {0, 1, 2}
  Zero = 0
  Unknown = Unknown
  Op <- MCOp
  MaxChunk = 2
  Retries = 3
  MaxCalls = 3
  Faults = {}
  MaxFaults = 0
SPECIFICATION Spec
INVARIANTS
  ReadReturnsMemory
CHECK_DEADLOCK FALSE
