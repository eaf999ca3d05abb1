SPECIFICATION Spec
CONSTANTS
    Limit = 32
    Word = 2
    MaxPayload = 30
    Count = 2
    MaxName = 3
    MinStream = 2
    MaxStream = 6
    Ids <- MCIds
    NameLength <- MCNameLength
INVARIANTS ReadsStayInside RecordsTile RejectedForCause
\* Once the payload is rejected or its closures are loaded, the call is over.
CHECK_DEADLOCK FALSE
