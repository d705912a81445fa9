SPECIFICATION Spec
CONSTANTS
    a = a
    b = b
    c = c
    f = f
    s = s
    None = None
    Graph = {a, b, c, f}
    Prereqs <- ChainedPrereqs
    Kind = "quiescence"
    Members = {a, c}
    Required = 1
    Finalizer = f
    Successors = {}
    Root <- NoRoots
    Following <- NoSuccessor
    Workers = {w1, w2}
    MaxRuns = 2
    MaxFaults = 3
SYMMETRY WorkerSymmetry
INVARIANTS
    GraphConsistent
    ReadyOnce
    AcknowledgementsMatch
    FinalizerNotStranded
CHECK_DEADLOCK FALSE
