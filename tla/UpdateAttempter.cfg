SPECIFICATION FairSpec
CONSTANTS
    Actions <- MCActions
    NoAction <- MCNoAction
    kSuccess = "kSuccess"
    ErrorCodes = {"kSuccess", "kError", "kUserCanceled", "kUpdatedButNotActive",
                  "kFilesystemVerifierError", "kDownloadStateInitializationError"}
    Payloads = {p1, p2}
    NoPayload = NoPayload
    Devices = {TRUE, FALSE}
    Undisciplined = {}
    MaxAttempts = 2
    MaxCrashes = 1
    MaxBoots = 3
INVARIANTS
    TypeOK
    StatusMatchesProcessor
    TasksFindTheirAction
    BootsIntactImage
    RebootNeededIsKept
PROPERTIES
    SuccessMeansNextBoot
    UpdateEnds
