CONSTANTS
    p1 = p1
    p2 = p2
    r1 = r1
    r2 = r2
    Passwords = {p1, p2}
    Existing = {p1}
    Requests = {r1}
    MaxVersion = 3
    MaxBytes = 2
    MaxFailures = 0
    MaxRestarts = 0
SPECIFICATION Spec
INVARIANT NoIncrementLost
CHECK_DEADLOCK FALSE
