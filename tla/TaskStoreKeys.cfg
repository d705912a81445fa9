SPECIFICATION Spec
CONSTANTS
    t1 = t1
    t2 = t2
    k1 = k1
    None = None
    TaskIds = {t1, t2}
    WorkerIds = {w1, w2}
    SessionIds = {s1}
    ClaimIds = {c1}
    IdemKeys = {}
    ReconcileKeys = {}
    EvidenceIds = {}
    HoldReasons = {}
    Queries <- AllTasks
    LeaseSeconds = {1}
    KeyOf <- KeyedPair
    Restartable = {}
    RestartLimit <- OneRestart
    MaxClock = 2
    LeaseHorizon = 3
    MaxRestarts = 0
SYMMETRY WorkerSymmetry
CHECK_DEADLOCK FALSE
PROPERTIES
    KeysAreLocks
INVARIANTS
    KeyExclusion
