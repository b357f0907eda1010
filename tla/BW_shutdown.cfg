CONSTANTS
    ChanSize = 1
    FlushSize = 2
    MaxEntry = 2
    MaxFail = 0
SPECIFICATION Spec
INVARIANT ShutdownStoresAll
