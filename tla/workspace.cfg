SPECIFICATION Spec
CONSTANTS
  d1 = d1
  d2 = d2
  a1 = a1
  a2 = a2
  Dev <- MCDev
  Accounts <- MCAccounts
  Attempts = {1, 2}
  MaxMoves = 4
  Paths = {"root", "sub"}
  Root = "root"
  Tours <- MCTours
SYMMETRY Alike
INVARIANTS
  ConnectionsOwned
  
  ListingOfTab
  
  TerminalsOwned
CHECK_DEADLOCK FALSE
