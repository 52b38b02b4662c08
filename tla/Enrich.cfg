SPECIFICATION Spec
CONSTANTS
    Label = {l1, l2}
    Run = {r1, r2}
    Caller = {c1, c2}
    Worker = {w1, w2}
    None = None
    Vendors = 2
    MaxCopies = 1
    MaxMessages = 2
    MaxActive = 2
    MaxFaults = 1
INVARIANTS EnrichTypeOK SearchesAreAttempts CompletedRunHasItsCells FlagFollowsInfo
PROPERTIES ImplementsLedger
SYMMETRY MCSymmetry
CHECK_DEADLOCK FALSE
