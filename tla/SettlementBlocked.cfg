SPECIFICATION FairSpec
CONSTANTS
    s1 = s1
    s2 = s2
    p1 = p1
    p2 = p2
    All = All
    Sessions = {s1, s2}
    Settlements = {1, 2}
    Owner <- FirstApart
    Scanners = {p1}
    Scope <- BothAll
    Preparable <- AnyRow
    PageLimit = 1
    MaxPages = 1
    MaxIncarnations = 2
    MaxCrashes = 0
CHECK_DEADLOCK FALSE
PROPERTIES
    EveryReachableIsPublished
