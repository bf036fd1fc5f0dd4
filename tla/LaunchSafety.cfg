SPECIFICATION Spec
CONSTANTS
    Clients  = {c1, c2}
    Launches = {l1, l2}
    Other    = Other
    Nobody   = Nobody
    Crashes  = FALSE
INVARIANTS TypeOK OneUnconfirmedLaunch OneHelper NoWorkStopped
PROPERTY StopReachesBridge
CHECK_DEADLOCK FALSE
SYMMETRY Symmetry
