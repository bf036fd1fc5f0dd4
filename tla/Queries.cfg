SPECIFICATION Spec
CONSTANTS
    MaxOffset = 7
    MaxInt = 16
    OpLimit = 3
    ScanLimit = 2
    EdgeLimit = 3
    FieldLimit = 3
    MaxSize = 4
    Programs <- MCPrograms
    Requests <- MCRequests
    Budget = 7
INVARIANTS HonestAccepted ContinuationsSent WholeAndOnce StableRows BoundReplies
CHECK_DEADLOCK FALSE
