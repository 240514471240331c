SPECIFICATION FairSpec
CONSTANTS
  MaxSeq = 2
  MaxTime = 2
  MaxConns = 2
  Calls <- TwoCalls
  RetChanCap = 1
  DefaultDelay = 2
INVARIANTS AtMostOneResult TimeoutNotEarly NoLostWakeup SyncChanReady
PROPERTY CallEnds
CHECK_DEADLOCK FALSE
