\* The input of the screencast view: one finger, the mouse, two mapped keys.
SPECIFICATION Spec
CONSTANTS
  Touch = {t1}
  Mouse = Mouse
  Command = {c1, c2}
  None = None
  Many = Many
  k1 = k1
  k2 = k2
  Key = {k1, k2}
  Fire = Fire
  Stick = Stick
  Look = Look
  Slot <- MCSlot
  Profiles <- MCProfiles
  HidFirst = {TRUE}
  MaxTimers = 3
  MaxQueue = 3
  MaxMoves = 4
CHECK_DEADLOCK FALSE
INVARIANTS
  PressedKnown
  ReleasesScheduled
  QuietWhenIdle
  CommandsReachable
  HidInSync
