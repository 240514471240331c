SPECIFICATION SpecBoth
CONSTANTS
  MsgLens <- Lens12
  SndWnd = 3
  RcvWnd = 2
  FastResend = 1
  NoCwnd = TRUE
  DeadLink = 2
  AckBatch = 2
  ACKNoDelay = FALSE
  maxProcess = 2
  HandlerStops = TRUE
  Duplicates = TRUE
  SnSpace = 16
  Start = 14
INVARIANTS DeliveredInOrder SenderKnows
 
CHECK_DEADLOCK FALSE
