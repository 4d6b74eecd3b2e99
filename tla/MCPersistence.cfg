CONSTANTS
    p1 = p1
    p2 = p2
    r1 = r1
    r2 = r2
    Passwords = {p1}
    Existing = {}
    Requests = {r1}
    MaxVersion = 3
    MaxBytes = 2
    MaxFailures = 1
    MaxRestarts = 1
SPECIFICATION FairSpec
INVARIANTS QueueBounded AckedUnlessFailed CaughtUp
PROPERTIES CountersForward ImplementsStore AnswerComes
CHECK_DEADLOCK FALSE
