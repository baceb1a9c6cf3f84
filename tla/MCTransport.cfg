SPECIFICATION TransFairSpec
CONSTANTS
    MaxRequests = 4
    MidSpace = 4
    FirstRead = 2
    MaxPending = 2
    Window = 1
INVARIANTS
    TransTypeOK
    DistinctMids
    ToldOnce
    WireInOrder
PROPERTIES
    AnswersArrive
    AllSent
    KeepsPromise
CHECK_DEADLOCK FALSE
