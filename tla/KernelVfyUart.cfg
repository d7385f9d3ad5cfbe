SPECIFICATION FairSpec
CONSTANTS
  Word = {0, 1}
  ZeroWord = 0
  LastAddr = 2
  LastKernel = 1
  Golden <- MCGolden
  BlockWords = 2
  MaxLoad = 4
  Paced = TRUE
INVARIANTS StreamInv StoredIsHashed
PROPERTIES ValidateAnswered
