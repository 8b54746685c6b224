CONSTANTS
    d1 = d1
    d2 = d2
    Ids <- TwoDesigns
    Example = d1
    MaxFlights = 2
    MaxEdits = 1
    MaxWrites = 2
    MaxActs = 2
    None = None
SPECIFICATION FairSpec
INVARIANTS
    SelectionIsShown
    BadgeIsHonest
    StaleIsExplained
PROPERTY ScreenCatchesUp
CHECK_DEADLOCK FALSE
