\* Two goroutines and the janitor, two sessions of one device, the mirrored screen and a
\* virtual display, two entries: a replaced one and its replacement.
CONSTANTS
  d1 = d1
  s1 = s1
  s2 = s2
  Devices = {d1}
  Sessions = {s1, s2}
  DeviceOf <- OneDevice
  Signatures = {mirror, display}
  Shareable = {mirror}
  Threads = {t1, t2}
  Janitor = Janitor
  Ids = {e1, e2}
  None = None
SPECIFICATION FairSpec
INVARIANTS
  RefsMatchHolders
  IdleCloseUnused
  ExclusiveDisplay
PROPERTIES
  IdleRuntimeSwept
