SPECIFICATION Spec
CONSTANTS
    ColumnDef <- MCColumnDef
    Value <- MCValue
    Number <- MCNumber
    MaxColumns = 2
    MaxRecords = 2
    MaxSet = 1
    MaxFields = 3
    MaxFaults = 1
INVARIANT UniqueAfterRefusedUpdate
CHECK_DEADLOCK FALSE
