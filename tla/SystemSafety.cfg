SPECIFICATION Spec
CONSTANTS
  s1 = s1
  p1 = p1
  None = None
  Junk = Junk
  BUF_LEN = 2
  Sess = {s1}
  Ports = {p1}
  Worlds <- OneClient
  SendLens <- TwoLens
  MAX_BUFFER_PACKAGES = 2
  MINSEQ_INIT = 100
  MaxTimerRequests = 1
INVARIANT ForgottenIsKept
PROPERTY IsReliableStream
