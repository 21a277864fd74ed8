SPECIFICATION Spec
CONSTANTS
    Ids = {1, 2}
    EdgeMaps <- MCEdgeMaps
    Indices = {0}
    MaxUpdates = 2
    MaxEdgeValue = 1
    MaxHistory = 2
INVARIANTS
    RepairWillPersist
PROPERTIES
    BuildEnds
    EndsAsRebuild
    ShowsARootedTree
CHECK_DEADLOCK FALSE
