CONSTANTS
  Ann = Ann
  Bob = Bob
  f1 = f1
  f2 = f2
  f3 = f3
  Forms <- ThreeForms
  Users = {Ann, Bob}
  UserOf <- AnnTwice
  Timeout = 2
  MaxLock = 2
  MaxVersion = 2
  Overlap = FALSE
SPECIFICATION FairSpec
INVARIANTS TypeOK ExclusiveLock
PROPERTIES LockedIsCurrent LocksEnd
CHECK_DEADLOCK FALSE
