\* One thread, a prompt server that sends no signals; four calls share two tokens.
CONSTANTS
    Caller = {c1}
    Kinds = {"sync"}
    MaxCalls = 4
    TokenCount = 2
    MaxSignals = 0
    CallbackKinds = {"msg", "package"}
    PromptServer = TRUE
    LinkErrors = TRUE
SPECIFICATION Spec
PROPERTIES ImplementsService
CHECK_DEADLOCK FALSE
