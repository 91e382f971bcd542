CONSTANTS
  Users = {u1}
  Movies = {m1}
  Prices = {29}
  Workers = {w1, w2}
  Endpoints <- BuyPayCancelDelete
  MaxOrders = 1
  MaxSessions = 2
  MaxCrashes = 1
  None = None
SPECIFICATION FairSpec
PROPERTIES
  CapturedIsSettled
  RequestsFinish
CHECK_DEADLOCK FALSE
