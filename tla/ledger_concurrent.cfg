SPECIFICATION ReportsSpec
CONSTANTS
  Accounts <- MCAccounts
  AccountType <- MCType
  CreditNormal <- MCCreditNormal
  SystemAccounts <- MCCash
  CashAccounts <- MCCash
  Journals <- SaleShortEmpty
  Months = {1}
  Clients = {c1}
  Workers = {w1, w2}
  Tolerance = 1
  MaxTransactions = 2
  MaxDeliveries = 3
  MaxAborts = 1
INVARIANTS
  PostingsAreWhole
  LedgerFollowsStatus
  ReportsAgree
SYMMETRY WorkersAlike
CHECK_DEADLOCK FALSE
