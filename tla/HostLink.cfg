CONSTANTS
  Words = 4
  Value = {0, 1, 2}
  Zero = 0
  Unknown = Unknown
  Op <- MCOp
  MaxChunk = 2
  Retries = 2
  MaxCalls = 3
  Faults = {"lose", "corrupt", "misdirect", "loseAnswer", "garbleAnswer"}
  MaxFaults = 1
SPECIFICATION Spec
INVARIANTS
  WrittenOnceAcked
  ReadInTime
  FailsForAReason
  RefusalClosesGate
  StartsAtMostOnce
  NothingStuck
CHECK_DEADLOCK FALSE
