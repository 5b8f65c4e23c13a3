SPECIFICATION FairSpec
CONSTANTS
  Creators = {c1}
  Conns = {k1}
  MaxSessions = 3
  SeqRange = 3
  TTL = 0
  MaxClock = 1
INVARIANT NumbersAgree
PROPERTY EvictedOldAndQuiet
PROPERTY SearchEnds
PROPERTY DoneForgotten
PROPERTY LifecyclesImplemented
CHECK_DEADLOCK FALSE
