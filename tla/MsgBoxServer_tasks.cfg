SPECIFICATION Spec
CONSTANTS
    TaskNum = 2
    MsgNum = 2
    InsNum = 2
    Classes <- MixedClasses
    MaxRequests = 2
    MaxStarts = 2
    CreateFails = TRUE
INVARIANTS
    TypeOK
    NodesConserved
    WakeupsMatchRequests
    RepliesAtMostOnce
    StopLeavesNobody
CHECK_DEADLOCK FALSE
PROPERTIES
    RequestsAnswered
    StopReturns
