CONSTANTS
    Node = {n1}
    Key = {k1}
    Value = {v1}
    IdemKey = {c1, c2}
    NoVal = NoVal
    ChanSize = 1
    FlushSize = 1
    MaxLog = 2
    Crashes = 1
    PowerLosses = 0
    Snapshots = 1
    Installs = 0
    Evictions = 0
    Failures = 0
    Budget <- MCBudget
SPECIFICATION Spec
INVARIANT NoDataLost
