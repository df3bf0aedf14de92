\* Two calls, two texts; two pointers and a queue of two places; two subscribers with
\* channels of two places.
SPECIFICATION RuntimeSpec
CONSTANTS
  Calls = {c1, c2}
  Texts = {t1, t2}
  None = None
  Ack = Ack
  Empty = Empty
  Failed = Failed
  MaxCopies = 1
  Pointers = {p1, p2}
  QueueCap = 2
  MaxSends = 4
  Subscribers = {v1, v2}
  ChannelCap = 2
  MaxPackets = 3
  MaxReplays = 1
CHECK_DEADLOCK FALSE
INVARIANTS
  WaitersAccounted
  QueueKept
  DownsReleased
  BuffersCounted
PROPERTIES
  ReplayIntact
  NobodyHangs
