CONSTANTS
  Cash = Cash
  Sales = Sales
  Equity = Equity
  NoAccount = NoAccount
  AccountOrder <- TwoAccounts
  RevExp = {}
  YearEndEquityAccount = Equity
  DiscrepancyAccount = Equity
  ForwardAccounts = {Cash, Equity}
  ManualForwardUpdate = TRUE
  UseJournals = FALSE
  Orderly = FALSE
  NSlots = 2
  YearOf <- OneYear
  Today = 2
  InitialPeriods = {1}
  EntryPairs <- NoEntries
  Freezable = {}
  Amounts = {}
  SeriesRows <- ThreeRows
  MaxSequence = 2
  MaxSeries = 2
  MaxLedger = 4
SPECIFICATION Spec
INVARIANTS Tally SequencesBalance
CHECK_DEADLOCK FALSE
