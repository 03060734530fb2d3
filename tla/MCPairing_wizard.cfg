CONSTANTS
    Scenes <- WizardScenes
    Absent = Absent
    Empty = Empty
    Garbage = Garbage
    Ragged = TRUE
    p1 = p1
    p2 = p2
    n1 = n1
    n2 = n2
    n3 = n3
    h1 = h1
    h2 = h2
    c1 = c1
    Handlers = {h1, h2}
    Cli = {c1}
    Onions = {p1, p2, own}
    Own = own
    Codes <- PeerCodes
    MaxTime = 1
    None = None
SPECIFICATION MCSpec
INVARIANTS UniqueEntries NoSilentDrift
PROPERTIES SuccessMeansApplied NoLostPeer HandlerEnds Converges
