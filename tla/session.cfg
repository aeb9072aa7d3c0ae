SPECIFICATION Spec
CONSTANTS
    Database = {a, b}
    Contents = {v}
    None = None
    MaxPending = 2
    MaxBegin = 2
INVARIANTS
    TypeOK
    ParserIsLive
    TransactionsAgree
PROPERTIES
    ExitTerminates
    EndOfInputSpins
CHECK_DEADLOCK FALSE
