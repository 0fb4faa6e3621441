SPECIFICATION WorkerFairSpec
CONSTANTS
    o1 = o1
    o2 = o2
    Order = {o1}
    VenueId = {o1}
    NoVenueId = NoVenueId
    NoRow = NoRow
    Epsilon = 0
    PostOnly = {}
    FallbackOf <- MC_NoFallback
    Reducing = {}
    Cancelable = {o1}
    Qty = 1
    Limit = 4
    MaxCrashes = 0
    MaxDbFaults = 0
    MaxHalts = 1
PROPERTIES
    CancelIsCarriedOut
CHECK_DEADLOCK FALSE
