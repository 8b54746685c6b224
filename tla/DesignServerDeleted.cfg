CONSTANTS
    w1 = w1
    w2 = w2
    e1 = e1
    d1 = d1
    d2 = d2
    Ids <- OneDesign
    Workers = {w1, w2}
    Loop = Loop
    Streams = {s1}
    Edits <- NoEdits
    BrowserDocs <- PlainDocs
    MaxRequests = 4
    None = None
SPECIFICATION Spec
INVARIANT DeletedMeansGone
CHECK_DEADLOCK FALSE
