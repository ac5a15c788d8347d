CONSTANTS
  Cash = Cash
  Sales = Sales
  Equity = Equity
  NoAccount = NoAccount
  AccountOrder <- EquityFirst
  RevExp <- MCRevExp
  YearEndEquityAccount = Equity
  DiscrepancyAccount = NoAccount
  ForwardAccounts <- AllAccounts
  ManualForwardUpdate = TRUE
  UseJournals = TRUE
  Orderly = FALSE
  NSlots = 2
  YearOf <- OneYear
  Today = 2
  InitialPeriods = {1}
  EntryPairs <- SaleOnly
  Freezable = {1}
  Amounts = {1}
  SeriesRows = {}
  MaxSequence = 3
  MaxSeries = 0
  MaxLedger = 4
SPECIFICATION Spec
INVARIANTS PostedInPeriod
PROPERTIES ClosedPostingsFixed JournalsOnce
CHECK_DEADLOCK FALSE
