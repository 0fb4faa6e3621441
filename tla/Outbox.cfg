SPECIFICATION FairSpec
CONSTANTS
    k1 = k1
    f1 = f1
    f2 = f2
    Key = {k1}
    LastEvent = 2
    KeyOf <- MC_KeyOf
    Flusher = {f1, f2}
    Limit = 2
    MaxAttempts = 3
    MaxDeferred = 2
    MaxFaults = 1
INVARIANTS
    TypeOK
    LostOnlyBeforeActivation
PROPERTIES
    ImplementsDelivery
    EveryEventIsSettled
    PublishedIsSent
CHECK_DEADLOCK FALSE
