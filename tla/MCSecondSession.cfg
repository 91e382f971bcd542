CONSTANTS
  Users = {u1}
  Movies = {m1}
  Prices = {29}
  Workers = {w1}
  Endpoints <- BuyAndPay
  MaxOrders = 1
  MaxSessions = 2
  MaxCrashes = 0
  None = None
SPECIFICATION Spec
INVARIANTS
  AckedHasOwnPayment
SYMMETRY Symmetry
CHECK_DEADLOCK FALSE
