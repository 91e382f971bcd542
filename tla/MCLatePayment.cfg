CONSTANTS
  Users = {u1}
  Movies = {m1}
  Prices = {29}
  Workers = {w1}
  Endpoints <- BuyPayCancel
  MaxOrders = 2
  MaxSessions = 2
  MaxCrashes = 0
  None = None
SPECIFICATION Spec
INVARIANTS
  NoDoublePurchase
SYMMETRY Symmetry
CHECK_DEADLOCK FALSE
