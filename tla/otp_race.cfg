SPECIFICATION NewUserSpec
CONSTANTS
  Clients = {c1, c2}
  Passwords = {p1}
  MaxAttempts = 1
  MaxCodes = 1
  MaxSessions = 1
  MaxCuts = 0
INVARIANTS
  CodeUsedOnce
CHECK_DEADLOCK FALSE
