SPECIFICATION SpecAll
CONSTANTS
  n1 = n1
  k1 = k1
  k2 = k2
  Nodes <- OneNode
  Keys <- TwoKeys
  Owner <- N1Owns
  MaxFaults = 3
  MayCompact = TRUE
  Callers = {p1, p2}
  Addrs = {a1, a2}
  MaxConns = 2
INVARIANTS  UnregisteredStaysOut ConnsAccounted
PROPERTIES OwnKeyReturns 
CHECK_DEADLOCK FALSE
