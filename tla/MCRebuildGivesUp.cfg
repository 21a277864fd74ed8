SPECIFICATION Spec
CONSTANTS
    Ids = {1, 2}
    EdgeMaps <- MCEdgeMaps
    Indices = {0}
    MaxUpdates = 1
    MaxEdgeValue = 1
    MaxHistory = 2
INVARIANTS
    GivesUpOnlyWhenIrreconcilable
CHECK_DEADLOCK FALSE
