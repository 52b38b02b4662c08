SPECIFICATION PublishSpec
CONSTANTS
    a = a
    b = b
    c = c
    p = p
    q = q
    n1 = n1
    n2 = n2
    k1 = k1
    NoCover = NoCover
    Track <- MCTrack
    Playable <- MCPlayable
    Client <- MCClient
    Name <- MCName
    Cover <- MCCover
    Target <- MCTarget
    MaxTracks = 3
    MaxRequests = 2
    Batch = 1
    MaxItems = 3
    MaxTrouble = 1
SYMMETRY MCSymmetry
INVARIANTS
    PublishTypeOK
    DriftFlagged
PROPERTIES
    OrderKept
    StableCopy
CHECK_DEADLOCK FALSE
