SPECIFICATION CFairSpec
CONSTANTS
  Interval = 2
  MaxQueued = 2
  MaxChunks = 2
  MaxFrames = 2
PROPERTY FinishEndsOnDeadChannel
CHECK_DEADLOCK FALSE
