CONSTANTS
    Node = {n1, n2}
    Key = {k1}
    Value = {v1, v2}
    IdemKey = {c1, c2}
    NoVal = NoVal
    ChanSize = 1
    FlushSize = 1
    MaxLog = 2
    Crashes = 0
    PowerLosses = 0
    Snapshots = 1
    Installs = 1
    Evictions = 0
    Failures = 0
    Budget <- MCBudget
SPECIFICATION Spec
INVARIANT TableMirrorsMap
