SPECIFICATION Spec
CONSTANTS
    Files = {f, g}
    Modes = {"headless", "gui"}
    Nobody = Nobody
    MaxIds = 5
    MaxCommands = 3
    MaxUserSteps = 2
    MaxStarts = 2
INVARIANTS StopNotLost WorkKept OneOutcome
