SPECIFICATION Spec
CONSTANTS
  FrameIDs <- MCFrameIDs
  MaxTotal = 2
  Codecs = {jpeg}
  Claims <- MCClaims
  Callers = {loop}
  FrameTimeout = 1
  EndGrace = 2
  IdleTimeout = 2
  MaxDatagrams = 3
  Horizon = 1
  MaxClock = 3
INVARIANT ReportAddsUp
INVARIANT ReportTimesCoherent
PROPERTY GraceHonoured
PROPERTY ClosedSessionIsFrozen
CHECK_DEADLOCK FALSE
