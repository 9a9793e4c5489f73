SPECIFICATION ClaimsFairSpec
CONSTANTS
  Callers = {u1}
  Admins = {a1}
  Callbacks = {}
  MaxClaims = 1
PROPERTIES
  ApprovalTakesEffect
CHECK_DEADLOCK FALSE
