SPECIFICATION Spec
CONSTANTS
    Docs = {1, 2, 3, 4}
    Receipts = {1, 2}
    Sessions = {1}
    Later = {2}
    DocAmounts = {2}
    ReceiptAmounts = {2}
    ItemAmounts = {1}
    MaxAmount = 2
    MaxIssued = 2
    MaxEntries = 4
    Overlap = FALSE
    Overdrawn = FALSE
INVARIANTS TypeOK PaidIsApplied OpenIfOwed CashOnce
PROPERTY AccountKept
CHECK_DEADLOCK FALSE
