SPECIFICATION Spec
CONSTANTS
    t1 = t1
    t2 = t2
    k1 = k1
    None = None
    TaskIds = {t1, t2}
    WorkerIds = {w1}
    SessionIds = {s1}
    ClaimIds = {c1, c2}
    IdemKeys = {i1}
    ReconcileKeys = {}
    EvidenceIds = {}
    HoldReasons = {}
    Queries <- AllTasks
    LeaseSeconds = {1}
    KeyOf <- NoKeys
    Restartable = {}
    RestartLimit <- OneRestart
    MaxClock = 2
    LeaseHorizon = 3
    MaxRestarts = 0
SYMMETRY HandoffSymmetry
CHECK_DEADLOCK FALSE
INVARIANTS
    HandoffIndexExact
    ReceiptsStayTrue
    HandoffsVouched
    GenerationsGranted
