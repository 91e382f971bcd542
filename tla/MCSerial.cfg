CONSTANTS
  Users = {u1}
  Movies = {m1, m2}
  Prices = {29, 100}
  Workers = {w1}
  Endpoints <- AllButDelete
  MaxOrders = 2
  MaxSessions = 2
  MaxCrashes = 1
  None = None
SPECIFICATION Spec
INVARIANTS
  NoDuplicatePending
  PaymentMakesPaid
  ChargeIsOrderPrice
  NeverOvercharged
PROPERTIES
  PaidStaysPaid
  PlacingDropsNothing
  NeverAddsOwned
  OrderIsFixed
SYMMETRY Symmetry
CHECK_DEADLOCK FALSE
