SPECIFICATION Spec
CONSTANTS
    Ids = {1, 2, 3}
    EdgeMaps <- MCEdgeMaps
    Indices = {0}
    MaxUpdates = 1
    MaxEdgeValue = 1
    MaxHistory = 2
INVARIANTS
    TypeOK
    BuiltIsRooted
    SettledNodesAttached
    RepairWillPersist
PROPERTIES
    RepairOnlyAttaches
    EndsAsRebuild
    ShowsARootedTree
CHECK_DEADLOCK FALSE
