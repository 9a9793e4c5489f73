SPECIFICATION MCSpec
CONSTANTS
  Workers = {w1, w2}
  Creators = {c1, c2}
  Uploaders = {u1, u2}
  MaxTransactions = 2
  MaxRepeats = 1
  MaxCuts = 1
  Types = {"PPN", "PPH23"}
  Defaults = {"PPN"}
  Profiles = {{"PPN"}, {"PPN", "PPH23"}}
  MaxProfiles = 1
  MaxJobs = 1
  Amounts = {14, 149000}
  AskedRates = {0, 4, 120}
  MaxRates = 1
  Callers = {r1, r2}
  Admins = {a1}
  Callbacks = {b1}
  MaxClaims = 3
INVARIANTS
  ChartFollows
  OneTransaction
  WorkGoesOn
  TaxesFollow
  BookedAsAsked
  VerificationFollows
PROPERTIES
  WorkerGetsThrough
CHECK_DEADLOCK FALSE
