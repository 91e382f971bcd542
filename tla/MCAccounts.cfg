CONSTANTS
  Emails = {e1, e2}
  Passwords = {p1}
  Workers = {w1, w2}
  AccountEndpoints <- AllAccountEndpoints
  MaxTokens = 3
  MaxSeconds = 1
  MaxLogins = 2
  MaxExpired = 1
  MaxLost = 1
  None = None
SPECIFICATION Spec
INVARIANTS
  TypeOK
  OneTokenPerUser
  NoStrandedToken
  OwnTokenOnly
  SessionsLast
SYMMETRY Symmetry
CHECK_DEADLOCK FALSE
