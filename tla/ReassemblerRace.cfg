SPECIFICATION Spec
CONSTANTS
  FrameIDs = {0}
  MaxTotal = 2
  Codecs = {jpeg, webp}
  Claims = {}
  Callers = {loop, other}
  FrameTimeout = 1
  EndGrace = 1
  IdleTimeout = 1
  MaxDatagrams = 3
  Horizon = 1
  MaxClock = 3
SYMMETRY Alike
INVARIANT DeliveredIntact
INVARIANT HandedOverOnce
INVARIANT EveryDatagramAccounted
PROPERTY FrameLifecycleImplemented
CHECK_DEADLOCK FALSE
