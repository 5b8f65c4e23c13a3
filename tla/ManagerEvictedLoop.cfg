SPECIFICATION FairSpec
CONSTANTS
  Creators = {c1}
  Conns = {k1}
  MaxSessions = 2
  SeqRange = 3
  TTL = 0
  MaxClock = 1
CHECK_DEADLOCK FALSE
PROPERTY EvictedLoopEnds
