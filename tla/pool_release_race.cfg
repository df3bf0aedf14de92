\* A release and a socket of one device, up to three entries.
CONSTANTS
  d1 = d1
  s1 = s1
  s2 = s2
  Devices = {d1}
  Sessions = {s1, s2}
  DeviceOf <- OneDevice
  Signatures = {mirror}
  Shareable = {mirror}
  Threads = {t1, t2}
  Janitor = Janitor
  Ids = {e1, e2, e3}
  None = None
SPECIFICATION Spec
SYMMETRY Symmetric
INVARIANTS
  ReleaseClosesUnreferenced
