SPECIFICATION Spec
CONSTANTS
    Ids = {1, 2, 3}
    Clients = {1}
    Initial = {1, 3}
    Creator = 1
    Uses = {"create", "before", "after", "promote", "cascade"}
    Indices = {3}
    MaxOps = 4
PROPERTIES
    PlaceIsExact
    MovesBeside
    PromoteKeepsOrder
    CascadeIsExact
CHECK_DEADLOCK FALSE
