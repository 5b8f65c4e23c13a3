SPECIFICATION FairSpec
CONSTANTS
  Budget = 8
  WSTimeout = 10
  CaptureTime = 8
  EndGrace = 4
  IdleTimeout = 10
INVARIANT OnlyStrayEndsCapture
INVARIANT ReportNamesChannel
PROPERTY ConnectEnds
PROPERTY ServerLetsGo
CHECK_DEADLOCK FALSE
