SPECIFICATION Spec
CONSTANTS
    Key = {1, 2, 3}
    RecordId = {0}
    Order = {3}
    MaxNodes = 4
INVARIANTS
    InsertedIsFound
CHECK_DEADLOCK FALSE
