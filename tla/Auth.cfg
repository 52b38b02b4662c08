SPECIFICATION Spec
CONSTANTS
    laptop = laptop
    phone = phone
    s1 = s1
    s2 = s2
    p = p
    q = q
    None = None
    Browser <- MCBrowser
    Session <- MCSession
    Request <- MCRequest
    Rotates <- MCRotates
    MaxRefresh = 3
    MaxGrant <- MCGrant
    MaxFaults = 1
SYMMETRY MCSymmetry
INVARIANTS
    AuthTypeOK
    NoFalseReplay
    GrantKept
PROPERTIES
    DisconnectStays
CHECK_DEADLOCK FALSE
