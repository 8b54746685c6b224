CONSTANTS
    w1 = w1
    w2 = w2
    e1 = e1
    d1 = d1
    d2 = d2
    Ids <- TwoDesigns
    Workers = {w1, w2}
    Loop = Loop
    Streams = {s1}
    Edits <- OneEdit
    BrowserDocs <- EditedDocs
    MaxRequests = 3
    None = None
SPECIFICATION FairSpec
INVARIANTS
    EveryWriteAnnounced
    EditsSurvive
    SoloSavesAreIntact
    DanglingOnlyByLateSet
PROPERTY ClientsCatchUp
CHECK_DEADLOCK FALSE
