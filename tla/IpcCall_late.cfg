\* One thread, a reply that comes after the deadline.
CONSTANTS
    Caller = {c1}
    Kinds = {"sync"}
    MaxCalls = 2
    TokenCount = 2
    MaxSignals = 0
    CallbackKinds = {"package"}
    PromptServer = FALSE
    LinkErrors = FALSE
SPECIFICATION Spec
INVARIANTS OwnReply
CHECK_DEADLOCK FALSE
