SPECIFICATION FairSpec
CONSTANTS
    None = None
    Events = {e1, e2}
    Workers = {w1, w2}
    Sinks = {k1, k2}
    BudgetEvents = {e1}
    ChildEvents = {e1}
    Retirable = {e2}
    MaxAttempts = 2
    MaxFaults = 2
CHECK_DEADLOCK FALSE
INVARIANTS
    DeliveredEverywhere
PROPERTIES
    LeaseFenced
    HandoffsSettle
