CONSTANTS
    Node = {n1}
    Key = {k1, k2}
    Value = {v1, v2}
    IdemKey = {c1, c2, c3}
    NoVal = NoVal
    ChanSize = 1
    FlushSize = 2
    MaxLog = 3
    Crashes = 2
    PowerLosses = 1
    Snapshots = 0
    Installs = 0
    Evictions = 1
    Failures = 1
    Budget <- MCBudget
SPECIFICATION Spec
SYMMETRY Symmetry
INVARIANTS
    TypeOK
    CaughtUpAgrees
    RowsExactlyOnce
    StoredOrQueued
