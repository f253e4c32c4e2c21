SPECIFICATION Spec
CONSTANTS
    Proc = {p1, p2, p3}
    InitValue = 1
    MaxPost = 1
INVARIANTS UpFindsSleeper
CHECK_DEADLOCK FALSE
