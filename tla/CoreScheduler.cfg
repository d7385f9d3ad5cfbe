CONSTANTS
  Blocks = 2
  NumWarps = 2
  WarpSize = 2
  ProgSize = 64
  MaskDepth = 4
  CallDepth = 4
  Kernels <- MCKernels
  Masks <- MCMasks
  BlockDims = {0, 3, 4}
  Inputs <- MCInputs
  MaxLaunches = 2
SPECIFICATION FairSpec
INVARIANTS
  TypeOK
  NoBlockStuck
  BarrierInStep
  InTurn
  RunsAsWritten
PROPERTY
  KernelEnds
CHECK_DEADLOCK FALSE
