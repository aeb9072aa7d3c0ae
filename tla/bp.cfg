SPECIFICATION Spec
CONSTANTS
    PageId = {p1, p2, p3}
    Data = {zero, d1}
    Zero = zero
    Handle = {h1, h2}
    PoolSize = 2
    NoPage = NoPage
SYMMETRY Symmetry
INVARIANTS
    TypeOK
    PoolConsistent
    PinsAreUsers
    NoLostUpdate
    RefusedOnlyWhenFull
CHECK_DEADLOCK FALSE
