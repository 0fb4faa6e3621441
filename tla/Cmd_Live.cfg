SPECIFICATION FairSpec
CONSTANTS
    o1 = o1
    o2 = o2
    Order = {o1}
    VenueId = {o1}
    NoVenueId = NoVenueId
    NoRow = NoRow
    Epsilon = 0
    PostOnly = {}
    FallbackOf <- MC_NoFallback
    Reducing = {}
    Cancelable = {}
    Qty = 1
    Limit = 4
    MaxCrashes = 1
    MaxDbFaults = 0
    MaxHalts = 1
PROPERTIES
    UnknownSubmitIsIdentified
    SubmitIsCarriedOut
CHECK_DEADLOCK FALSE
