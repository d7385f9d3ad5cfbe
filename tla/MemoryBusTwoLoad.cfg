CONSTANTS
  NumCores = 2
  WarpSize = 3
  Banks = 2
  Ports = 2
  Addresses = {0, 1, 2, 4}
  Bytes = {1, 2}
  Value = {0, 1, 2, 3, 9}
  Zero = 0
  Programs <- AllLoad
  HostRequests <- MCHost
  MaxRequests = 5
SPECIFICATION FairSpec
PROPERTY ActsAsOneMemory
