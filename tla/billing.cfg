SPECIFICATION FairSpec
CONSTANTS
  Clients = {subscriber, payer}
  Subscribers = {subscriber}
  Callbacks = {h1}
  Plans = {"free", "trial", "paid"}
  Fates = {"PAID", "EXPIRED", "FAILED"}
  MaxSubs = 2
  MaxBills = 2
  MaxFaults = 1
INVARIANTS
  ActiveIsPaid
  AnsweredIsApplied
  OneBlocking
PROPERTIES
  PaidInvoiceStays
  CollectedActivates
CHECK_DEADLOCK FALSE
