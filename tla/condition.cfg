SPECIFICATION Spec
CONSTANTS
    Text <- Texts
    Empty = ""
    NoNumber = NoNumber
    Digits <- Whole
    NumberOf <- Numbers
    MaxInt = 50
    PlaceOf <- Places
    UpperOf <- Uppers
    Date <- Dates
    TypeOf <- Types
    Single <- Singles
    Mark <- Marks
    Stored = {"", "2", "99", "a", "2024-01-01"}
    MaxSingles = 3
INVARIANTS
    TypeOK
    SelectsNothingElse
    MissesOnlyThen
    RefusedWhereverItStands
    RestIsNotRead
CHECK_DEADLOCK FALSE
