CONSTANTS
    MaxTurns = 2
    MaxRounds = 2
    MaxEdits = 1
    MaxFaults = 2
    Scripts = {2}
    None = None
SPECIFICATION FairSpec
INVARIANTS
    FailedTurnsLeaveNoTrace
    DoneMeansRemembered
    ContextCoversChat
    RepliesInTheirOwnBubble
    IdleMeansSettled
PROPERTIES
    LostEditsAreLate
    PendingEnds
CHECK_DEADLOCK FALSE
