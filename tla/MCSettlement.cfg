CONSTANTS
  Users = {u1}
  Movies = {m1}
  Prices = {29}
  Workers = {w1, w2, w3}
  Endpoints <- BuyPayCancelDelete
  MaxOrders = 1
  MaxSessions = 2
  MaxCrashes = 1
  None = None
SPECIFICATION Spec
INVARIANTS
  TypeOK
  OnePaymentPerOrder
  PaymentIsCaptured
  PaidOrderHasPayment
  PaymentItemsAreOrderItems
  ConfirmationOnce
  AckedIsRecorded
  NoDanglingMovie
PROPERTIES
  PaymentsArePermanent
  ImplementsSettlement
SYMMETRY Symmetry
CHECK_DEADLOCK FALSE
