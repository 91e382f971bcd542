CONSTANTS
  Users = {u1}
  Movies = {m1}
  Prices = {29}
  Workers = {w1, w2}
  Endpoints <- Buying
  MaxOrders = 2
  MaxSessions = 0
  MaxCrashes = 0
  None = None
SPECIFICATION Spec
INVARIANTS
  NoDuplicatePending
SYMMETRY Symmetry
CHECK_DEADLOCK FALSE
