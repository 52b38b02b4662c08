SPECIFICATION Spec
CONSTANTS
    laptop = laptop
    phone = phone
    s1 = s1
    s2 = s2
    p = p
    q = q
    None = None
    Browser <- MCBrowser
    Session <- MCSession
    Request <- MCRequest
    Rotates <- MCRotates
    MaxGrant <- MCGrant
    MaxRefresh = 2
    MaxFaults = 0
PROPERTIES
    LogoutRevokes
CHECK_DEADLOCK FALSE
