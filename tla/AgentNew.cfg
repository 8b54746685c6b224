CONSTANTS
    MaxTurns = 2
    MaxRounds = 2
    MaxEdits = 1
    MaxFaults = 0
    Scripts = {}
    None = None
SPECIFICATION Spec
INVARIANT NewMeansFresh
CHECK_DEADLOCK FALSE
