CONSTANTS
    IdemKey = {c1, c2}
    NoKey = NoKey
    TTL = 3
    CleanInterval = 2
    MaxLag = 1
    MaxTime = 12
SPECIFICATION Spec
INVARIANTS
    TypeOK
    MarksExpire
PROPERTIES
    RetryWindowKept
    OldestExpireFirst
CHECK_DEADLOCK FALSE
