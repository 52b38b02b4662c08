SPECIFICATION FairCatalogSpec
CONSTANTS
    a = a
    b = b
    f = f
    r1 = r1
    r2 = r2
    k1 = k1
    k2 = k2
    u = u
    w = w
    Null = Null
    NoRun = NoRun
    BeatportId <- MCBeatportId
    Track <- MCTrack
    Field <- MCField
    Value <- MCValue
    LegacyRow <- MCLegacyRow
    Version <- MCVersion
    Content <- MCContent
    Run <- MCRun
    Chunk <- MCChunk
    Key <- MCKey
    KeyOf <- MCKeyOf
    Listing <- MCListing
    Worker <- MCWorker
    MaxReceive = 2
    MaxFaults = 1
    MaxReplays = 1
CONSTRAINT MCOrder
INVARIANTS
    CatalogTypeOK
    RowFollowsNewest
    OneRowPerId
    CompletedRunIsShown
PROPERTIES
    ChunksMergeAtomically
    QueuedRunSettles
CHECK_DEADLOCK FALSE
