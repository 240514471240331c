SPECIFICATION MCSpec
CONSTANTS
  p1 = p1
  p2 = p2
  Callers = {p1, p2}
  Closers <- AppCloses
  CallKinds = {"sync", "ctx", "try", "must"}
  ChanCap = 1
  TimerChCap = 1
  Agent = agent
  Others = {o1}
  Consumers = {o1}
  TaskCap = 1
  MaxTicks = 1
INVARIANTS NoSendOnClosed ResultsTellRun
PROPERTIES ClockCallReturns  AppStops
CHECK_DEADLOCK FALSE
