SPECIFICATION Spec
CONSTANTS
    t1 = t1
    t2 = t2
    k1 = k1
    None = None
    TaskIds = {t1}
    WorkerIds = {w1, w2}
    SessionIds = {s1}
    ClaimIds = {c1}
    IdemKeys = {i1}
    ReconcileKeys = {r1}
    EvidenceIds = {e1, e2}
    HoldReasons = {"cancellation_requested", "waiting"}
    Queries <- AllTasks
    LeaseSeconds = {1, 2}
    KeyOf <- NoKeys
    Restartable = {t1}
    RestartLimit <- OneRestart
    MaxClock = 3
    LeaseHorizon = 5
    MaxRestarts = 2
SYMMETRY WorkerSymmetry
CHECK_DEADLOCK FALSE
INVARIANTS
    RowsConsistent
    AbandonedRestartsBounded
PROPERTIES
    CancellationWins
    OwnersAreNotOverrun
    TerminalIsFinal
