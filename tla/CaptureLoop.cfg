SPECIFICATION CFairSpec
CONSTANTS
  Interval = 2
  MaxQueued = 3
  MaxChunks = 2
  MaxFrames = 5
INVARIANT NoStall
INVARIANT NothingUnaccounted
INVARIANT EndIsFinal
PROPERTY StartedFrameKept
PROPERTY PacedWhileBusy
PROPERTY CancelIsSilent
PROPERTY FinishEnds
CHECK_DEADLOCK FALSE
