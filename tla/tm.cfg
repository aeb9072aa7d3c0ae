SPECIFICATION Spec
SYMMETRY Symmetry
CONSTANTS
    Resource = {r1, r2}
    MaxTxn = 2
    MaxRestarts = 1
    MaxLocks = 2
    MaxLog = 3
INVARIANTS
    TypeOK
    LockCompatibility
    LockAgreement
    DecidedOnce
    RecoveryIsReplay
PROPERTIES
    RecoveryFaithful
    ImplementsLockService
CHECK_DEADLOCK FALSE
