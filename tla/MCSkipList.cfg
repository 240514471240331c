SPECIFICATION SpecAll
CONSTANTS
  Data = {1, 2, 3, 4}
  maxLevel = 3
  Cap = 4
  Vals = {1, 2}
  T = {1, 2}
  zero = 0
  RINGBUFFER_MIN = 2
  RINGBUFFER_EXP = 4
  InitSize = 1
  MaxSize = 6
PROPERTIES RanksAsSorted QueuesAreFifo
