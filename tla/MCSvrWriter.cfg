SPECIFICATION SpecAll
CONSTANTS
  Conns = {c1}
  Reqs = {r1, r2, r3}
  ChanSize = 2
  MaxBatchSize = 2
  StopDeadline = FALSE
  Lines = {l1, l2, l3}
  BuffSize = 2
INVARIANTS RepliesInOrder NoSendOnClosed NothingStranded
PROPERTIES StopReturns LoggerServes
CHECK_DEADLOCK FALSE
