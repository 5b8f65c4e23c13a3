SPECIFICATION SSpec
CONSTANTS
  FrameIDs = {0}
  MaxTotal = 1
  Codecs = {jpeg}
  Claims = {0}
  Callers = {reader, post}
  ReadLoops = {reader}
  Posters = {post}
  Loop = loop
  Stats = {s1}
  NoStats = NoStats
  FrameTimeout = 1
  EndGrace = 1
  IdleTimeout = 1
  MaxDatagrams = 1
  Horizon = 2
  MaxClock = 4
INVARIANT StatsReported
CHECK_DEADLOCK FALSE
