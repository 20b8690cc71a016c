SPECIFICATION FairSpec
CONSTANTS
    MaxFailureCountPerUrl = 2
    kMaxBackoffDays = 2
    MaxAttempts = 2
    Delta <- MCFullUnreachable
    Full <- MCFullUnreachable
    Kind <- MCKind
    Dlc <- MCDlc
    Settings <- Plain
    Undisciplined = {}
    ScatterFactor = 3
    StagingDays = 1
    MaxDaysToScatter = 1
    kMaxWaitTimeStagingInDays = 1
    kDefaultMaxUpdateChecks = 1
    kMaxP2PAttempts = 1
    DeltaInstalls = TRUE
    kMaxDeltaUpdateFailures = 2
    MaxTrouble = 0
PROPERTIES
    FaultyUrlGivenUp
CHECK_DEADLOCK FALSE
