SPECIFICATION Spec
CONSTANTS
    Payloads = {p1}
    NoPayload = NoPayload
    NumPartitions = 3
    NumOperations = 5
    Acc <- MCAcc
    DataOffset <- MCDataOffset
    PayloadEnd = 4
    kMaxResumedUpdateFailures = 2
    Writers = {TRUE}
    Unnoticed = {}
    MaxFaults = 1
INVARIANT
    VerifierFindsLabel
CHECK_DEADLOCK FALSE
