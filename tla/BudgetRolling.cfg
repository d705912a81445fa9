SPECIFICATION Spec
CONSTANTS
    l1 = l1
    l2 = l2
    None = None
    Reservations = {r1, r2, r3}
    Limits = {l1}
    Maximum <- TwoUnits
    WindowKind <- Rolling
    Duration <- TwoInstants
    Period <- Halves
    Amounts = {1}
    MaxAmount = 1
    Expiring = TRUE
    Ttl = 2
    Dispatches = {d1}
    Reasons = {}
    Bindings = {b1}
    Authorities = {a1, a2}
    Allowances = {1}
    Attempts = {m1, m2}
    MaxClock = 3
SYMMETRY LedgerSymmetry
CHECK_DEADLOCK FALSE
INVARIANTS
    AllowanceHolds
    HardCap
