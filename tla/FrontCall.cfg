SPECIFICATION FairSpec
CONSTANTS
  p1 = p1
  p2 = p2
  p3 = p3
  Procs = {p1, p2, p3}
  Script <- Scripts
  Port <- Ports
  Follows <- Restart
  NoProc = NoProc
  Junk = Junk
INVARIANTS TypeOK CallWhole OwnAnswer NoExit
PROPERTY CallReturns
CHECK_DEADLOCK FALSE
