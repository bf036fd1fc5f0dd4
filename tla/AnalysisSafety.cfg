CONSTANTS
    Jobs = {j1, j2, j3}
    NoJob = NoJob
    Capacity = 2
    Gui = FALSE
    Collects = FALSE
SPECIFICATION Spec
INVARIANTS
    TypeOK
    CommandsRunAlone
    CompletedIsOver
    FailureIsExplained
    UnfinishedIsKnown
    OwnershipCoversAnalysis
PROPERTY OutcomeIsFinal
CHECK_DEADLOCK FALSE
