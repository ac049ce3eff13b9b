SPECIFICATION FairSpec
CONSTANTS
    Req = {r1, r2}
    IP = {a1}
    MaxAttempts = 2
    Threshold = 2
    Faults = TRUE
    MaxFailures = 4
INVARIANTS
    BurstIsBounded
    CountersExpire
PROPERTIES
    LockoutsEnd
\* MaxFailures bounds the run: a counter that lost its EXPIRE stays there.
CHECK_DEADLOCK FALSE
