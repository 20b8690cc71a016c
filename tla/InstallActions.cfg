SPECIFICATION FairSpec
CONSTANTS
    Actions <- MCActions
    NoAction = NoAction
    ErrorCodes <- MCErrorCodes
    kSuccess = "kSuccess"
    Partitions <- MCPartitions
    MaxChildren = 4
    ExitCodes = {0, 1, 3, 4}
    Plans <- MCPlans
    Images <- MCImages
    Unnoticed = {}
    MaxSessions = 2
    MaxInterrupts = 1
INVARIANTS
    NothingOutlivesItsAction
    OneMount
    BootsWhatWasVerified
    NoFalseAlarm
PROPERTIES
    MergesOnlyAfterGoodBoot
    PowerwashUndone
    SessionEnds
CHECK_DEADLOCK FALSE
