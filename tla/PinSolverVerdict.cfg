CONSTANTS
    N = 3
    None = None
    Caps <- MCCaps
    ClassicEsp32 = TRUE
    LibraryOf <- MCLibraryOf
    PinKind <- MCPinKind
    HubOf <- MCHubOf
    ExpanderSize <- MCExpanderSize
    BusType <- MCBusType
    BusPins <- MCBusPins
    OverBudget = TRUE
    Boards <- AllBoards
    Designs <- MCDesigns
    LockMaps <- MCLockMaps
SPECIFICATION Spec
INVARIANT SameVerdict
CHECK_DEADLOCK FALSE
