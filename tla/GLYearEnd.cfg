CONSTANTS
  Cash = Cash
  Sales = Sales
  Equity = Equity
  NoAccount = NoAccount
  AccountOrder <- EquityFirst
  RevExp <- MCRevExp
  YearEndEquityAccount = Equity
  DiscrepancyAccount = NoAccount
  ForwardAccounts <- AllAccounts
  ManualForwardUpdate = TRUE
  UseJournals = FALSE
  Orderly = TRUE
  NSlots = 3
  YearOf <- SecondYear
  Today = 3
  InitialPeriods = {1, 2}
  EntryPairs <- SaleAndOwner
  Freezable = {}
  Amounts = {2}
  SeriesRows = {}
  MaxSequence = 2
  MaxSeries = 0
  MaxLedger = 4
SPECIFICATION Spec
INVARIANTS TypeOK CleanChain TrialBalances RetainedEarningsCurrent ClosedInOrder
PROPERTIES ClosedRowsFixed
CHECK_DEADLOCK FALSE
