SPECIFICATION Spec
CONSTANTS
    Clients = {c1, c2}
    Bridges = {b1, b2}
    Requests = {r1, r2}
    NoRequest = NoRequest
    Nobody = Nobody
    Launcher = Launcher
SYMMETRY Symmetry
INVARIANTS
    TypeOK
    AtMostOnce
    TruthfulAnswer
    OneExchange
PROPERTIES
    GuardOutlivesDoubt
    ImplementsGuardedCall
