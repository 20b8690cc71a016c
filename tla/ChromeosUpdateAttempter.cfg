SPECIFICATION FairSpec
CONSTANTS
    MaxFailureCountPerUrl = 2
    kMaxBackoffDays = 2
    MaxAttempts = 2
    Delta <- MCDelta
    Full <- MCFull
    Kind <- MCKind
    Dlc <- MCDlc
    Settings <- MCSettings
    Undisciplined = {}
    ScatterFactor = 3
    StagingDays = 1
    MaxDaysToScatter = 1
    kMaxWaitTimeStagingInDays = 1
    kDefaultMaxUpdateChecks = 1
    kMaxP2PAttempts = 1
    DeltaInstalls = FALSE
    kMaxDeltaUpdateFailures = 2
    MaxTrouble = 2
INVARIANTS
    IndexInRange
    StaysScheduled
    RebootPending
    BootsWholeImage
PROPERTIES
    InstallsEventually
CHECK_DEADLOCK FALSE
