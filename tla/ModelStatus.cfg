SPECIFICATION Spec
CONSTANTS
    MaxChange = 3
    MaxRequests = 1
    Hasty = FALSE
    LockErrors = FALSE
INVARIANTS TypeOK BusyWaits ShowsVersion SavedOnce NoLostLock NumberReturned
PROPERTIES ChangesKept BusyEnds CloseEnds
CHECK_DEADLOCK FALSE
