CONSTANTS
    Node = {n1, n2}
    Key = {k1}
    Value = {v1, v2}
    IdemKey = {c1, c2}
    NoVal = NoVal
    ChanSize = 1
    FlushSize = 1
    MaxLog = 3
    Crashes = 0
    PowerLosses = 0
    Snapshots = 0
    Installs = 0
    Evictions = 1
    Failures = 0
    Budget <- MCBudget
SPECIFICATION Spec
INVARIANT ReplicasAgree
