CONSTANTS
  Ann = Ann
  Bob = Bob
  f1 = f1
  f2 = f2
  f3 = f3
  Forms <- TwoForms
  Users = {Ann, Bob}
  UserOf <- OneEach
  Timeout = 2
  MaxLock = 3
  MaxVersion = 2
  Overlap = FALSE
SPECIFICATION Spec
INVARIANTS KeyKnown
CHECK_DEADLOCK FALSE
