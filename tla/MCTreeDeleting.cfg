SPECIFICATION Spec
CONSTANTS
    Ids = {1, 2}
    Clients = {1}
    Initial = {1, 2}
    Creator = 1
    Uses = {"create", "promote", "cascade"}
    Indices = {2}
    MaxOps = 3
PROPERTIES
    DeletingNeverPanics
CHECK_DEADLOCK FALSE
