\* A stage with no room for the clipboard window, one with some and one with plenty; a
\* device, a role, a user that may have to be created; the group of all, one group and
\* one to be created; profiles of mappings and tabs.
SPECIFICATION MCSpec
CONSTANTS
  Device <- MCDevice
  Role <- MCRole
  User <- MCUser
  Group <- MCGroup
  Internal = all
  Stage <- MCStage
  MinSide = 4
  MaxLong = 12
  Profile <- MCProfile
  Tab <- MCTab
  Width = {4, 6, 9}
  DefaultSize = 2
  Size = {2, 3}
  Margin = 1
  MaxMoves = 4
  AdministrationMoves = 3
  DisplayMoves = 6
  MappingMoves = 6
  d1 = d1
  r1 = r1
  u1 = u1
  all = all
  g1 = g1
  g2 = g2
  p1 = p1
  p2 = p2
  p3 = p3
  t1 = t1
  t2 = t2
  None = None
CHECK_DEADLOCK FALSE
INVARIANTS
  SavedAsShown
  AccountsCurrent
  SizeReaches
  ClipboardHonest
  
