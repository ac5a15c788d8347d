SPECIFICATION Spec
CONSTANTS
    Lines = {a, b}
    Ordered <- TwoEach
    Stock = 3
    Quantities = {1}
    Reservations = {2}
    Counts = {}
    Freezing = FALSE
    OwnSeries = TRUE
    Series = {s1, s2}
    MaxItems = 2
    MaxShipments = 2
    MaxCounted = 1
INVARIANT ReservedOnHand
CHECK_DEADLOCK FALSE
