SPECIFICATION JournalsSpec
CONSTANTS
  Amounts = {14, 149000}
  AskedRates = {0, 4, 120}
  MaxRates = 1
INVARIANT IncludedTaxIsBooked
CHECK_DEADLOCK FALSE
