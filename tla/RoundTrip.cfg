SPECIFICATION Spec
CONSTANTS
  Packages = {0, 1, 2}
  Epoch = 5000
  Waits = {400, 900, 1700}
  Second = 1000
  Records = 2
  MaxTime = 2700
  MaxScale = 4096
INVARIANT TypeOK
INVARIANT EstimatesBounded
INVARIANT CutBelowSecond
CHECK_DEADLOCK FALSE
