SPECIFICATION FairSpec
CONSTANTS
    MaxLease = 5
    MaxFaults = 4
INVARIANTS
    HandlerKeepsItsTask
PROPERTIES
    OwnRenewalsNeverFenceTheOutcome
    SettledOrFenced
CHECK_DEADLOCK FALSE
