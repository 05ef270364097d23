\* One thread and a prompt server: only the scheduling of the receive thread varies.
CONSTANTS
    Caller = {c1}
    Kinds = {"sync"}
    MaxCalls = 1
    TokenCount = 2
    MaxSignals = 0
    CallbackKinds = {"package"}
    PromptServer = TRUE
    LinkErrors = FALSE
SPECIFICATION Spec
INVARIANTS SyncReplyReleasesCaller
CHECK_DEADLOCK FALSE
