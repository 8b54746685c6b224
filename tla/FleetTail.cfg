CONSTANTS
    p1 = p1
    p2 = p2
    Pushes <- TwoPushes
    MaxLines = 2
    MaxFrames = 1
    None = None
SPECIFICATION FairSpec
INVARIANTS
    BuildIncludesPush
    OnlyOneCreates
    NoGapsNoRepeats
    SilentAfterClose
PROPERTIES
    TailEnds
    DialogIsATail
CHECK_DEADLOCK FALSE
