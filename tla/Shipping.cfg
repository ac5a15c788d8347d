SPECIFICATION Spec
CONSTANTS
    Lines = {a, b}
    Ordered <- OneEach
    Stock = 2
    Quantities = {1}
    Reservations = {1}
    Counts = {1}
    Freezing = TRUE
    OwnSeries = TRUE
    Series = {s1, s2}
    MaxItems = 2
    MaxShipments = 2
    MaxCounted = 1
SYMMETRY Symmetry
INVARIANTS TypeOK NothingForgotten
PROPERTY StockKept
CHECK_DEADLOCK FALSE
