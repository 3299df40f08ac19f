SPECIFICATION FairSpec
CONSTANTS
  c1 = c1
  c2 = c2
  s1 = s1
  s2 = s2
  p1 = p1
  p2 = p2
  None = None
  Junk = Junk
  BUF_LEN = 3
  Clients = {c1, c2}
  Sess = {s1, s2}
  Ports = {p1, p2}
  SendLens <- FileLens
  Worlds <- AllWorlds
INVARIANT TypeOK
INVARIANT InOrder
INVARIANT AckedIsKept
INVARIANT AcceptedOnce
INVARIANT NoExit
PROPERTY StaysAccepted
PROPERTY FilesReceived
CHECK_DEADLOCK FALSE
