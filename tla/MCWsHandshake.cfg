SPECIFICATION FairSpec
CONSTANTS
  Conns = {c1, c2}
  HandshakeTimeout = 2
  MaxHandshakingSize = 1
  ChanSize = 1
  FiveSeconds = 3
  MaxNow = 5
INVARIANTS Watched 
PROPERTY Settles
CHECK_DEADLOCK FALSE
