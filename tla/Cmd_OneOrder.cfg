SPECIFICATION Spec
CONSTANTS
    o1 = o1
    o2 = o2
    Order = {o1}
    VenueId = {o1}
    NoVenueId = NoVenueId
    NoRow = NoRow
    Epsilon = 0
    PostOnly = {}
    FallbackOf <- MC_NoFallback
    Reducing = {o1}
    Cancelable = {o1}
    Qty = 2
    Limit = 4
    MaxCrashes = 1
    MaxDbFaults = 0
    MaxHalts = 0
INVARIANTS
    NoResend
    SentMeansDecided
    LocalFillsAreReal
PROPERTIES
    RowsImplementLifecycle
CHECK_DEADLOCK FALSE
