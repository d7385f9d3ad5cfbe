SPECIFICATION Spec
CONSTANTS
  Word = {0, 1}
  ZeroWord = 0
  LastAddr = 2
  LastKernel = 1
  Golden <- MCGolden
  BlockWords = 2
  MaxLoad = 3
  Paced = FALSE
INVARIANTS GateInv LaunchAuthentic ResetZeroizes FaultTellsError
PROPERTIES VerifiedFrozen RunStable
