SPECIFICATION FairSpec
CONSTANTS
  WINDOW_SIZE = 3
  Sizes <- TwoChunks
  Garbage <- Lengths
  MaxFaults = 1
  MaxAcks = 2
INVARIANTS TypeOK WindowRing SlidOverForwarded SendsTaken TimerForgets
PROPERTY CleanTransfer
CHECK_DEADLOCK FALSE
