CONSTANTS
    Node = {n1, n2}
    Key = {k1, k2}
    Value = {v1, v2}
    IdemKey = {c1, c2, c3}
    NoVal = NoVal
    ChanSize = 1
    FlushSize = 1
    MaxLog = 3
    Crashes = 1
    PowerLosses = 0
    Snapshots = 2
    Installs = 1
    Evictions = 0
    Failures = 1
    Budget <- MCBudget
SPECIFICATION Spec
CONSTRAINT SmallHistory
SYMMETRY Symmetry
INVARIANT RestoreIsSound
PROPERTY QuietSnapshotIsExact
