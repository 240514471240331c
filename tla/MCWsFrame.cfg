SPECIFICATION Spec
CONSTANTS
  Frames <- MCFrames
  MaxFrames = 3
  MaxPayloadSize = 3
  MaxControl = 2
CHECK_DEADLOCK FALSE
INVARIANT MessagesWhole
