SPECIFICATION ReportsSpec
CONSTANTS
  Accounts <- WithOwner
  AccountType <- OwnerType
  CreditNormal <- MCCreditNormal
  SystemAccounts <- FromTemplate
  CashAccounts <- MCCash
  Journals <- TwoAndOwner
  Months = {1, 2}
  Clients = {c1}
  Workers = {w1}
  Tolerance = 1
  MaxTransactions = 3
  MaxDeliveries = 2
  MaxAborts = 0
INVARIANTS
  PostedOnce
  RunningBalances
  VoidNetsToZero
  ReportsFollowLedger
CHECK_DEADLOCK FALSE
