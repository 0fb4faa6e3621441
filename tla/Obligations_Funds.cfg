SPECIFICATION Spec
CONSTANTS
    Order = {o1, o2}
    VenueId = {o1, o2}
    NoVenueId = NoVenueId
    Epsilon = 0
    NoRow = NoRow
    NoObl = NoObl
    Qty = 2
    Amount <- MC_Amount
    Unsupported = {}
    Reserved <- MC_Reserved
    Balance = 3
    MaxFaults = 1
INVARIANTS
    TypeOK
    ConsumedAtMostOnce
    OpenOrderStaysCovered
PROPERTIES
    AcceptedWithinBalanceRead
SYMMETRY Symmetry
CHECK_DEADLOCK FALSE
