SPECIFICATION Spec
CONSTANTS
    Sub = {s1}
    NoSub = NoSub
    NoRecord = NoRecord
    Failed = Failed
    MaxHalts = 2
    MaxResumes = 1
    MaxFaults = 1
    MaxRestarts = 1
    MaxEvents = 2
INVARIANTS
    TypeOK
    HaltedMeansDrained
    AcknowledgedHaltHolds
    RevokedStaysRevoked
