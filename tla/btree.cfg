SPECIFICATION Spec
CONSTANTS
    Key = {1, 2, 3, 4, 5}
    RecordId = {0, 1}
    Order = {3, 4}
    MaxNodes = 7
INVARIANTS
    TypeOK
    SearchTree
    OnlySeparatorsAreLost
    RangeIsComplete
PROPERTIES
    ImplementsMap
CHECK_DEADLOCK FALSE
