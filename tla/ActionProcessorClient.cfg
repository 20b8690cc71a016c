SPECIFICATION FairSpec
CONSTANTS
    MaxActions = 4
    Actions = {1, 2, 3, 4}
    NoAction = 0
    kSuccess = kSuccess
    ErrorCodes = {kSuccess, kError, kDownloadTransferError}
INVARIANTS
    RunningIffSessionOpen
    NothingRunsAfterFailure
    DoneReportsLastCode
PROPERTIES
    SessionEnds
CHECK_DEADLOCK FALSE
