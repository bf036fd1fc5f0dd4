SPECIFICATION FairSpec
CONSTANTS
    Clients = {c1}
    Bridges = {b1}
    Requests = {r1, r2}
    NoRequest = NoRequest
    Nobody = Nobody
    Launcher = Launcher
PROPERTIES
    CallReturns
    RequestNoticed
    StopHonoured
