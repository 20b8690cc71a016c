SPECIFICATION Spec
CONSTANTS
    Actions <- MCActions
    NoAction <- MCNoAction
    kSuccess = "kSuccess"
    ErrorCodes = {"kSuccess", "kError", "kUserCanceled", "kUpdatedButNotActive",
                  "kFilesystemVerifierError", "kDownloadStateInitializationError"}
    Payloads = {p1}
    NoPayload = NoPayload
    Devices = {TRUE}
    Undisciplined = {}
    MaxAttempts = 2
    MaxCrashes = 1
    MaxBoots = 2
INVARIANT
    NetworkReleased
