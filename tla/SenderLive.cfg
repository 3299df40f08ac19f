SPECIFICATION FairSpec
CONSTANTS
  Socks = {s1, s2}
  MAX_BUFFER_PACKAGES = 1
  MINSEQ_INIT = 100
  MaxSeq = 1
  MaxTimerRequests = 2
INVARIANT NoExit
PROPERTY CallsReturn
PROPERTY PackagesReleased
