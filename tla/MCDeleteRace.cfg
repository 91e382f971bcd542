CONSTANTS
  Users = {u1}
  Movies = {m1}
  Prices = {29}
  Workers = {w1, w2}
  Endpoints <- BuyPayDelete
  MaxOrders = 1
  MaxSessions = 1
  MaxCrashes = 0
  None = None
SPECIFICATION Spec
PROPERTIES
  PurchaseIsKept
SYMMETRY Symmetry
CHECK_DEADLOCK FALSE
