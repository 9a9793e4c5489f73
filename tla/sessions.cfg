SPECIFICATION Spec
CONSTANTS
  Clients = {c1, c2}
  Passwords = {p1, p2}
  MaxAttempts = 1
  MaxCodes = 2
  MaxSessions = 4
  MaxCuts = 1
  Accounts = {a1, a2, a3}
  Operators = {o1, o2}
  MaxUpdates = 3
  Requests = {c1, c2}
  MaxTries = 1
  MaxTickets = 4
  MaxSecrets = 2
  MaxFaults = 1
  Callers = {c1, c2}
  MaxEntities = 3
  MaxMishaps = 1
  Seeders = {c1, c2}
  PlanCount = 2
  Features = {p1, p2}
  MaxErrors = 1
  MaxShifts = 2
CONSTRAINT InScope
SYMMETRY MCSymmetry
INVARIANTS
  RefreshReplaces
  CodeIsSpent
  ActiveKeepsPassword
  SuperAdminRemains
  
  EnrolledStays
  VerifiedIsSetUp
  SeededIsWhole
  ServedWasEntitled
  
CHECK_DEADLOCK FALSE
