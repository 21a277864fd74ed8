SPECIFICATION Spec
CONSTANTS
    Objects = {"tree", "clone"}
    Breakable = {}
    CallNames = {"update", "external"}
    ListenerCalls = {"read"}
    MaxCalls = 3
    MaxSubscribed = 1
    MaxNesting = 1
INVARIANTS
    NeverReborrows
CHECK_DEADLOCK FALSE
