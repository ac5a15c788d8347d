CONSTANTS
  Forms = {f1, f2, f3}
  MaxNumber = 4
  Interval = 1
  LastDay = 1
  Overlap = FALSE
SPECIFICATION Spec
INVARIANTS TypeOK DistinctHolders HeldUnused NoGap
CHECK_DEADLOCK FALSE
