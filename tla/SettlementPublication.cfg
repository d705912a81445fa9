SPECIFICATION FairSpec
CONSTANTS
    s1 = s1
    s2 = s2
    p1 = p1
    p2 = p2
    All = All
    Sessions = {s1, s2}
    Settlements = {1, 2}
    Owner <- FirstApart
    Scanners = {p1, p2}
    Scope <- OneScoped
    Preparable <- SecondForeign
    PageLimit = 1
    MaxPages = 1
    MaxIncarnations = 2
    MaxCrashes = 1
CHECK_DEADLOCK FALSE
INVARIANTS
    AcknowledgedIsPersisted
    ErasureAfterSettlement
PROPERTIES
    ReachableIsPublished
