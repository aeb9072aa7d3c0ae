SPECIFICATION Spec
CONSTANTS
    Resource = {r1}
    MaxTxn = 1
    MaxRestarts = 2
    MaxLocks = 2
    MaxLog = 3
PROPERTY CommitSurvivesRecovery
CHECK_DEADLOCK FALSE
