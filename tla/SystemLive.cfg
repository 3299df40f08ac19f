SPECIFICATION FairSpec
CONSTANTS
  s1 = s1
  p1 = p1
  None = None
  Junk = Junk
  BUF_LEN = 2
  Sess = {s1}
  Ports = {p1}
  Worlds <- OneClient
  SendLens <- OneLen
  MAX_BUFFER_PACKAGES = 1
  MINSEQ_INIT = 100
  MaxTimerRequests = 1
PROPERTY IsFairReliableStream
