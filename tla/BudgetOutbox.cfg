SPECIFICATION Spec
CONSTANTS
    l1 = l1
    l2 = l2
    None = None
    Reservations = {r1, r2}
    Limits = {l1, l2}
    Maximum <- TwoUnits
    WindowKind <- Mixed
    Duration <- TwoInstants
    Period <- Halves
    Amounts = {1, 2}
    MaxAmount = 2
    Expiring = TRUE
    Ttl = 2
    Dispatches = {d1, d2}
    Reasons = {"stopped"}
    Bindings = {}
    Authorities = {}
    Allowances = {}
    Attempts = {}
    MaxClock = 2
SYMMETRY LedgerSymmetry
CHECK_DEADLOCK FALSE
INVARIANTS
    OutboxExact
    ExpiredNeverDispatched
PROPERTIES
    FinancialHistory
