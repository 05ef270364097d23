\* Two threads, synchronous and asynchronous calls whose tokens may be the same, a signal that
\* carries token 0, an ioctl that may fail and a receive thread that may exit.
CONSTANTS
    Caller = {c1, c2}
    Kinds = {"sync", "async"}
    MaxCalls = 2
    TokenCount = 2
    MaxSignals = 1
    CallbackKinds = {"msg"}
    PromptServer = FALSE
    LinkErrors = TRUE
SPECIFICATION FairSpec
INVARIANTS TypeOK WakeupsArmed
PROPERTIES CallReturns AsyncReplyReachesCallback
CHECK_DEADLOCK FALSE
