SPECIFICATION FairSpec
CONSTANTS
    a = a
    b = b
    c = c
    f = f
    s = s
    None = None
    Graph = {a, b, f}
    Prereqs <- GroupPrereqs
    Kind = "quiescence"
    Members = {a, b}
    Required = 1
    Finalizer = f
    Successors = {s}
    Root <- GroupRoots
    Following <- RetryOfA
    Workers = {w1, w2}
    MaxRuns = 1
    MaxFaults = 1
INVARIANTS
    DecisionSound
    FinalizerAfterLosers
PROPERTIES
    BarrierKept
    BarrierSettles
CHECK_DEADLOCK FALSE
