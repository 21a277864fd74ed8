SPECIFICATION DisplaySpec
CONSTANTS
    Ids = {1, 2, 3, 4}
    Snapshots <- MCSnapshots
    RuinIds = {1, 2}
INVARIANTS
    TypeOK
    VisitsTheSubtree
    AnswersInOrder
    NeverLost
    InOrder
    DrawsTheTree
PROPERTIES
    IterationProgresses
    Ends
