\* Two sockets that displace each other, two session objects with two monitors each.
CONSTANTS
  Sockets = {w1, w2}
  Objects = {o1, o2}
  MaxMonitors = 2
  None = None
SPECIFICATION FairSpec

  
PROPERTIES
  NothingLingers
CHECK_DEADLOCK FALSE
