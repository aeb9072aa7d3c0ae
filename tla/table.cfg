SPECIFICATION Spec
CONSTANTS
    ColumnDef <- MCColumnDef
    Value <- MCValue
    Number <- MCNumber
    MaxColumns = 2
    MaxRecords = 2
    MaxSet = 2
    MaxFields = 3
    MaxFaults = 1
INVARIANTS
    TypeOK
    UniqueHolds
    NoGhostValue
    NotNullHolds
    FilesAgree
CHECK_DEADLOCK FALSE
