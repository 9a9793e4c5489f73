SPECIFICATION ReportsSpec
CONSTANTS
  Accounts <- MCAccounts
  AccountType <- MCType
  CreditNormal <- MCCreditNormal
  SystemAccounts <- MCAccounts
  CashAccounts <- MCCash
  Journals <- OneSale
  Months = {1}
  Clients = {c1, c2}
  Workers = {w1}
  Tolerance = 1
  MaxTransactions = 3
  MaxDeliveries = 1
  MaxAborts = 0
INVARIANTS
  VoidNetEffectIsZero
CHECK_DEADLOCK FALSE
