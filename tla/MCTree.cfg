SPECIFICATION Spec
CONSTANTS
    Ids = {1, 2}
    Clients = {1, 2}
    Initial = {1, 2}
    Creator = 1
    Uses = {"create", "move", "before", "after", "promote", "cascade", "reopen"}
    Indices = {2}
    MaxOps = 3
INVARIANTS
    TypeOK
    OpenTreeIsATree
    CacheFollowsTheDocument
    TieFreeTreesConverge
PROPERTIES
    PlaceIsExact
    PromoteKeepsOrder
    CascadeIsExact
CHECK_DEADLOCK FALSE
