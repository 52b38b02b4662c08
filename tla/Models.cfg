CONSTANTS
    q1 = q1
    q2 = q2
    q3 = q3
    w1 = w1
    w2 = w2
    Slot <- MCSlot
    Worker <- MCWorker
    Tracks = 2
    Page = 1
    MaxReceives = 3
    MaxAttempts = 2
    MaxRequests = 2
    MaxTrouble = 2
SYMMETRY MCSymmetry
CHECK_DEADLOCK FALSE
SPECIFICATION Spec
INVARIANTS
    ModelTypeOK
    ScoresOfTheirModel
    ScoredByCurrent
