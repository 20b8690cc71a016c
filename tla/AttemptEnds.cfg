SPECIFICATION FairSpec
CONSTANTS
    Payloads = {p1}
    NoPayload = NoPayload
    NumPartitions = 3
    NumOperations = 5
    Acc <- MCAcc
    DataOffset <- MCDataOffset
    PayloadEnd = 4
    kMaxResumedUpdateFailures = 2
    Writers = {TRUE}
    Unnoticed = {}
    MaxFaults = 1
PROPERTY
    AttemptEnds
CHECK_DEADLOCK FALSE
