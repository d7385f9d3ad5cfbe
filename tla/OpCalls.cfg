CONSTANTS
  BlockDim = 4
  Trips <- MCTrips
  CallList <- MCCallList
SPECIFICATION Spec
INVARIANTS
  ResultMatches
  OnlyResultsChange
  AcceptedIsLaunchable
  EachIndexOnce
PROPERTIES
  CallEnds
  LoopSpec
