SPECIFICATION FairSpec
CONSTANTS
  WINDOW_SIZE = 2
  Sizes <- TwoChunks
  Garbage <- Lengths
  MaxFaults = 0
  MaxAcks = 2
PROPERTY SendReturns
CHECK_DEADLOCK FALSE
