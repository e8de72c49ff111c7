CONSTANTS
    k1 = k1
    k2 = k2
    k3 = k3
    Keys = {k1, k2, k3}
    Window <- MCWindow
    Limit <- MCLimit
    MaxItems = 2
    Ttl = 4
    Second = 2
    NoHint = NoHint
    MaxTime = 6
    MaxAttempts = 4
SPECIFICATION Spec
INVARIANTS
    TypeOK
    NeverOverLimit
    RetryHintIsHonest
PROPERTY
    ImplementsSlidingWindow
CHECK_DEADLOCK FALSE
