SPECIFICATION FairSpec
CONSTANTS
    Runs = {r1, r2, r3}
    Hosted = {r1, r2, r3}
    Earlier = earlier
    NoRow = noRow
    TTL = 2
    MaxDuration = 1
    Skew = 0
    MaxTime = 4
    CreateMayFail = FALSE
CHECK_DEADLOCK FALSE
INVARIANTS
    TypeOK
    MutualExclusion
PROPERTIES
    ClaimLeavesOnlyByOwnerOrLapse
    NoStuckLock
    ImplementsSerialSyncs
