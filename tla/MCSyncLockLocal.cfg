SPECIFICATION Spec
CONSTANTS
    Runs = {r1, r2, local}
    Hosted = {r1, r2}
    Earlier = earlier
    NoRow = noRow
    TTL = 3
    MaxDuration = 1
    Skew = 1
    MaxTime = 5
    CreateMayFail = TRUE
SYMMETRY Interchangeable
CHECK_DEADLOCK FALSE
INVARIANTS
    LeaseHeld
    OverlapOnlyPastLease
