SPECIFICATION Spec
CONSTANTS
    Database = {d1, d2}
    Table = {t}
    Column = {a, b, c}
    PrimaryKey = {a, b}
    a = a
    b = b
    c = c
    Row = {r}
    Ddl <- ColumnLists
    Nothing = Nothing
SYMMETRY Symmetry
INVARIANTS
    TypeOK
    MapsAgree
    DatabasesAsAnswered
    TablesAsAnswered
CHECK_DEADLOCK FALSE
