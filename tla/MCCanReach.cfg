SPECIFICATION Spec
CONSTANTS
    Ids = {1, 2, 3, 4, 5}
INVARIANTS
    TypeOK
    AnswerIsRight
PROPERTIES
    SearchProgresses
    SearchEnds
