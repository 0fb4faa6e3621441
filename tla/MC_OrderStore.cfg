SPECIFICATION Spec
CONSTANTS
    VenueId = {v1}
    NoVenueId = NoVenueId
    NoRow = NoRow
    Epsilon = 0
    Sizes = {2, 3}
    Fills = {0, 1, 3}
    Fees = {0, 1}
    FirstSnapshot <- MC_FirstSnapshot
    Snapshot <- MC_Snapshot
INVARIANTS
    TypeOK
    QuantitiesConsistent
    FillsNeverLost
    FullMeansFilled
PROPERTIES
    TerminalIsFinal
    NeverBackwards
    UnknownSubmitIsKept
    ImplementsLifecycle
