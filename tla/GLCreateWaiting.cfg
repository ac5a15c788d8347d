CONSTANTS
  Cash = Cash
  Sales = Sales
  Equity = Equity
  NoAccount = NoAccount
  AccountOrder <- EquityFirst
  RevExp <- MCRevExp
  YearEndEquityAccount = Equity
  DiscrepancyAccount = NoAccount
  ForwardAccounts <- AllAccounts
  ManualForwardUpdate = TRUE
  UseJournals = FALSE
  Orderly = FALSE
  NSlots = 2
  YearOf <- OneYear
  Today = 2
  InitialPeriods = {1}
  EntryPairs <- SaleOnly
  Freezable = {}
  Amounts = {1}
  SeriesRows = {}
  MaxSequence = 2
  MaxSeries = 0
  MaxLedger = 4
SPECIFICATION Spec
INVARIANTS CleanChain
CHECK_DEADLOCK FALSE
