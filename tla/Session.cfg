SPECIFICATION SFairSpec
CONSTANTS
  FrameIDs = {0}
  MaxTotal = 1
  Codecs = {jpeg}
  Claims = {0}
  Callers = {reader, post}
  ReadLoops = {reader}
  Posters = {post}
  Loop = loop
  Stats = {s1}
  NoStats = NoStats
  FrameTimeout = 1
  EndGrace = 1
  IdleTimeout = 1
  MaxDatagrams = 1
  Horizon = 1
  MaxClock = 2
INVARIANT EndingHasEnd
INVARIANT FileOnlyWhenDone
INVARIANT FileFollowsDone
INVARIANT StatsInTimeReported
PROPERTY SessionSettles
PROPERTY LifecycleImplemented
CHECK_DEADLOCK FALSE
