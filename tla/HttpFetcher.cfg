SPECIFICATION FairSpec
CONSTANTS
    FileSize = 5
    Requests <- MCRequests
    Fetchers = {"libcurl", "file"}
    MaxChunk = 3
    MaxProxies = 2
    MaxRetryCount = 2
    NoNetworkRetries = 1
    NoNetworkBound = 4
    ReadBufferSize = 2
INVARIANTS
    ChecksHold
    WaitsForOneThing
PROPERTIES
    KeepsPromise
    PausedIsSilent
    TransferEnds
