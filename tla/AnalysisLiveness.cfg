CONSTANTS
    Jobs = {j1, j2}
    NoJob = NoJob
    Capacity = 2
    Gui = TRUE
    Collects = TRUE
SPECIFICATION FairSpec
PROPERTY EveryJobEnds
