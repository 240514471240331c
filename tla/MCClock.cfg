SPECIFICATION Spec
CONSTANTS
  LevelSlots <- ThreeLevels
  SI = 2
  MaxTimers = 2
  Whens = {0, 5, 11, 22, 30}
  Start = 3
  Nows = {2, 4, 5, 7, 9, 10, 13}
  ReceiverCap = 1
INVARIANTS WheelMatchesLocs NeverLate
PROPERTIES SpinsOnlyFar ImplementsTimers
CHECK_DEADLOCK FALSE
