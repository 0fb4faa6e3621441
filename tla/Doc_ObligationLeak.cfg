SPECIFICATION Spec
CONSTANTS
    Order = {o1}
    VenueId = {o1}
    NoVenueId = NoVenueId
    Epsilon = 0
    NoRow = NoRow
    NoObl = NoObl
    Qty = 1
    Amount <- MC_Amount
    Unsupported = {}
    Reserved <- MC_Reserved
    Balance = 3
    MaxFaults = 0
INVARIANT
    EndedOrderHoldsNothing
CHECK_DEADLOCK FALSE
