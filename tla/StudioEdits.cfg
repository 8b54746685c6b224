CONSTANTS
    d1 = d1
    d2 = d2
    Ids <- TwoDesigns
    Example = d1
    MaxFlights = 2
    MaxEdits = 1
    MaxWrites = 1
    MaxActs = 2
    None = None
SPECIFICATION FairSpec
PROPERTY EditsSurviveRefetch
CHECK_DEADLOCK FALSE
