CONSTANTS
    k1 = k1
    v1 = v1
    v2 = v2
    c1 = c1
    c2 = c2
    q1 = q1
    q2 = q2
    Node = {n1, n2}
    Key = {k1}
    Value = {v1, v2}
    IdemKey = {c1, c2}
    NoVal = NoVal
    Leader = {n1}
    Request = {q1, q2}
    cmd <- MCcmd
    ChanSize = 1
    FlushSize = 1
    MaxLog = 3
    Crashes = 1
    Failures = 1
    Budget <- MCBudget
SPECIFICATION ServiceSpec
INVARIANTS
    ReadsAreCurrent
    AckerReadsItsWrites
PROPERTIES
    ImplementsReplicatedMap
    Converges
    Drains
