SPECIFICATION Spec
CONSTANTS
    o1 = o1
    o2 = o2
    Order = {o1, o2}
    VenueId = {o1, o2}
    NoVenueId = NoVenueId
    NoRow = NoRow
    Epsilon = 0
    PostOnly = {}
    FallbackOf <- MC_NoFallback
    Reducing = {}
    Cancelable = {}
    Qty = 1
    Limit = 4
    MaxCrashes = 1
    MaxDbFaults = 0
    MaxHalts = 1
SYMMETRY Symmetry
INVARIANTS
    LiveOrderIsOpenLocally
    ClaimedSubmitStaysBlocked
PROPERTIES
    UnknownWriteHoldsNewRisk
CHECK_DEADLOCK FALSE
