SPECIFICATION FairSpec
CONSTANTS
    Clients  = {c1}
    Launches = {l1, l2}
    Other    = Other
    Nobody   = Nobody
    Crashes  = TRUE
PROPERTY LaunchEnds
CHECK_DEADLOCK FALSE
