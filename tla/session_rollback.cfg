SPECIFICATION Spec
CONSTANTS
    Database = {a}
    Contents = {v, w}
    None = None
    MaxPending = 1
    MaxBegin = 1
PROPERTIES
    RollbackRestores
CHECK_DEADLOCK FALSE
