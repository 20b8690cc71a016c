SPECIFICATION FairSpec
CONSTANTS
    Payloads = {p1, p2}
    NoPayload = NoPayload
    NumPartitions = 3
    NumOperations = 5
    Acc <- MCAcc
    DataOffset <- MCDataOffset
    PayloadEnd = 4
    kMaxResumedUpdateFailures = 2
    Writers = {TRUE, FALSE}
    Unnoticed = {}
    MaxFaults = 3
INVARIANTS
    TypeOK
    ResumePointIsConsistent
    DigestedOnceInOrder
    AppliedCompletely
    ResumesAreBounded
PROPERTIES
    GoesOnWhereSaved
    UpdateCompletes
CHECK_DEADLOCK FALSE
