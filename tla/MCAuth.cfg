SPECIFICATION Spec
CONSTANTS
    NRequests = 3
    MaxOpen = 2
    MaxTime = 2
    Passwords = {p1, p2}
    Codes = {c1, c2}
    Threshold = 2
    LockBase = 1
    LockMax = 2
    SessionTTL = 2
    CodeTTL = 1
    CodeKept = 0
INVARIANTS FailuresLock ChangesTakeHold OneDevicePerCode
CHECK_DEADLOCK FALSE
