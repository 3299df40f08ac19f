SPECIFICATION FairSpec
CONSTANTS
  Ids = {a, b, c}
  Durations = {1, 2, 4}
  MaxRequests = 1
  MaxLate = 5
INVARIANT TypeOK
INVARIANT NoneDueInList
PROPERTY KeepsTime
PROPERTY NodesLeave
