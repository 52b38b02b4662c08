SPECIFICATION FairSpec
CONSTANTS
    t1 = t1
    t2 = t2
    Track = {t1, t2}
    Analyzer = {lofcz}
    PairAnalyzers = {lofcz}
    Rank <- MCRank
    Client = {k1, k2}
    Gone = Gone
    Limit = 1
    MaxTrouble = 1
INVARIANTS
    TypeOK
    NoSharedWork
PROPERTIES
    ResultsFinal
    EveryPairFinished
    FlaggedLeavesPlay
