CONSTANTS
  Name <- MCName
  Builtin <- MCBuiltin
  Later <- MCReplace
  Golden <- MCGolden
  Size <- MCSize
  ImemWords = 5
  MaxClock = 4
  MaxFaults = 1
SPECIFICATION FairSpec
INVARIANTS
  ResidentIntact
  NoFaultNoFailure
  RunsIntended
PROPERTIES
  EvictsOldest
  OkMeansRan
  CallsReturn
CHECK_DEADLOCK FALSE
