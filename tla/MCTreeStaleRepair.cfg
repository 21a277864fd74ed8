SPECIFICATION Spec
CONSTANTS
    Ids = {1, 2}
    Clients = {1, 2}
    Initial = {1, 2}
    Creator = 1
    Uses = {"move"}
    Indices = {2}
    MaxOps = 4
PROPERTIES
    PlaceMovesOneNode
CHECK_DEADLOCK FALSE
