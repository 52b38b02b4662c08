SPECIFICATION FairSpec
CONSTANTS
    t1 = t1
    t2 = t2
    Track = {t1, t2}
    Rank <- MCRank
    Early = {t1}
    Sweep = {s1, s2}
    Limit = 2
    Streak = 2
    MaxTrouble = 2
    MaxEvents = 2
INVARIANTS YoutubeTypeOK SearchedHasOutcome
PROPERTIES SettledStays NoTrackWaitsForever
CHECK_DEADLOCK FALSE
