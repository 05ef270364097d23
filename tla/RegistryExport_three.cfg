SPECIFICATION Spec
CONSTANTS
    Client = {c1}
    BroadcastNum = 3
INVARIANT AllExported
