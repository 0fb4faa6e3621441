SPECIFICATION FairSpec
CONSTANTS
    i1 = i1
    i2 = i2
    Instance <- MCInstance
    None = None
    TTL = 4
    Margin = 2
    Grace = 1
    Guard = 1
    Provisioning = 6
    Quarantine = 4
    Slack = 0
    MaxLosses = 1
    MaxStray = 1
INVARIANTS
    TypeOK
    OneOwnerAtWork
    WorkerHoldsKey
PROPERTIES
    StoppingIsBounded
    LostOwnerStops
    RoleIsFreed
