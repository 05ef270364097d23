SPECIFICATION Spec
CONSTANTS
    BroadcastNum = 2
    MethodNum = 2
    Calls <- OneWayEach
    TokenNum = 2
    MaxOps = 3
    MaxMessages = 1
    MaxRestarts = 1
    Errors = TRUE
    Orderly = TRUE
    SwitchCase = FALSE
INVARIANTS
    TypeOK
    
    
    CallbackOnce
    ViewsAgree
CHECK_DEADLOCK FALSE
PROPERTIES
    BroadcastHeard
