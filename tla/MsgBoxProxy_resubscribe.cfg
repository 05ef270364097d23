SPECIFICATION Spec
CONSTANTS
    BroadcastNum = 1
    MethodNum = 0
    Calls <- NoCalls
    TokenNum = 3
    MaxOps = 3
    MaxMessages = 1
    MaxRestarts = 0
    Errors = FALSE
    Orderly = TRUE
    SwitchCase = FALSE
INVARIANT SubscribedIsRegistered
CHECK_DEADLOCK FALSE
