SPECIFICATION Spec
CONSTANTS
    MaxOffset = 4
    MaxInt = 16
    OpLimit = 3
    ScanLimit = 2
    FieldLimit = 3
    MaxSize = 8
    Programs = {A, B}
    Original <- MCOriginal
    Plans <- MCPlans
    UserRows <- MCUserRows
    TagLimit = 2
    MaxCommands = 2
    MaxUserSteps = 1
INVARIANTS TypeOK AllOrNothing NoLostUpdate HonestAccepted
PROPERTY ImplementsAtomicEdits
