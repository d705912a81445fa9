SPECIFICATION FairSpec
CONSTANTS
    m1 = m1
    m2 = m2
    Messages = {m1, m2}
    Modes <- SteeredModes
    Targeted = {m2}
    Expiring = {m1}
    Withdrawable = {m1}
    Limit = 2
    MaxSteps = 2
    MaxRuns = 2
    MaxLost = 1
    MaxFaults = 1
INVARIANTS
    TypeOK
    ModelSeesTranscript
    NoneLeftBehind
    NoOvertaking
    DeliveredInPlace
    TurnsUndivided
PROPERTIES
    RunsEnd
CHECK_DEADLOCK FALSE
