SPECIFICATION Spec
CONSTANTS
    Objects = {"tree"}
    Breakable = {"data", "container"}
    CallNames = {"update", "delete", "set", "get", "get_as", "read", "external", "subscribe", "drop"}
    ListenerCalls = {"update", "delete", "set", "get", "get_as", "read", "external", "subscribe", "drop"}
    MaxCalls = 5
    MaxSubscribed = 3
    MaxNesting = 2
INVARIANTS
    TypeOK
    NeverReborrows
    OnlyListenersWait
    ListenersSeeTheNewTree
    CalledIsSubscribed
    QuietMeansCurrent
CHECK_DEADLOCK FALSE
