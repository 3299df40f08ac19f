SPECIFICATION Spec
CONSTANTS
  Socks = {s1}
  MAX_BUFFER_PACKAGES = 2
  MINSEQ_INIT = 100
  MaxSeq = 3
  MaxTimerRequests = 2
INVARIANT TypeOK
INVARIANT BufferCount
INVARIANT BufferBound
INVARIANT TimerAgrees
INVARIANT WaitsForOlder
PROPERTY StaysReleased
