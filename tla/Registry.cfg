SPECIFICATION FairSpec
CONSTANTS
    Callers = {c1, c2}
INVARIANTS HintsHold DefiniteErrorsChangeNothing
PROPERTIES NothingAfterDoubt CallsEnd
