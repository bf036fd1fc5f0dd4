SPECIFICATION Spec
CONSTANTS
    MaxOffset = 7
    MaxInt = 16
    OpLimit = 3
    ScanLimit = 2
    EdgeLimit = 3
    FieldLimit = 3
    MaxSize = 4
    Programs <- MCWholeSpace
    Requests <- MCPreviews
    Budget = 5
INVARIANT HonestAccepted
CHECK_DEADLOCK FALSE
