SPECIFICATION Spec
CONSTANTS
    Database = {d1}
    Table = {t}
    Column = {a, b, c}
    PrimaryKey = {a, b}
    a = a
    b = b
    c = c
    Row = {r}
    Ddl <- ColumnLists
    Nothing = Nothing
PROPERTIES
    NewTableIsEmpty
CHECK_DEADLOCK FALSE
