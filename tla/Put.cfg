CONSTANTS
    Node = {n1, n2}
    Request = {q1}
    MaxConcurrent = 1
    Attempts = 2
    MaxForwardRetries = 2
    MaxTerm = 2
    MaxSends = 1
    MaxHandlers = 3
    MaxCrash = 1
SPECIFICATION FairSpec
INVARIANTS
    TypeOK
    OkIsCommitted
    ForwardsFollowTerms
PROPERTIES
    ImplementsPutService
    HandlersAdvance
    PutIsAnswered
    HandlersEnd
