SPECIFICATION Spec
CONSTANTS
    o1 = o1
    o2 = o2
    Order = {o1, o2}
    VenueId = {o1, o2}
    NoVenueId = NoVenueId
    NoRow = NoRow
    Epsilon = 0
    PostOnly = {o1}
    FallbackOf <- MC_Fallback
    Reducing = {}
    Cancelable = {}
    Qty = 1
    Limit = 4
    MaxCrashes = 0
    MaxDbFaults = 1
    MaxHalts = 0
INVARIANTS
    TypeOK
    RecordedBeforeSent
    FallbackHasCancelOnRecord
CHECK_DEADLOCK FALSE
