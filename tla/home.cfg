SPECIFICATION Spec
CONSTANTS
  Dev = {1, 2}
  Grouped = {1}
  Slots = 1
  MaxMoves = 4
  MaxCalls = 2
  MaxLoads = 0
INVARIANTS
  SelectionListed
  GoneIsGone
  NothingStuck
CHECK_DEADLOCK FALSE
