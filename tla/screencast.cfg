SPECIFICATION Spec
CONSTANTS
  Tab = {a, b}
  None = None
  MaxAttempts = 3
  MaxMoves = 3
  Patient = TRUE
SYMMETRY Symmetry
INVARIANTS
  
  SnapshotOfTab
  
CHECK_DEADLOCK FALSE
