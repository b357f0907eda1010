CONSTANTS
    ChanSize = 2
    FlushSize = 2
    MaxEntry = 6
    MaxFail = 2
SPECIFICATION FairSpec
INVARIANTS
    TypeOK
    NeverDropped
    WaitingInOrder
    WriterIsBounded
PROPERTIES
    ImplementsAsyncLog
    SendComesBack
    WaitingIsSettled
