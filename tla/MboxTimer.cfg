SPECIFICATION Spec
CONSTANTS
    Proc = {p1, p2, p3}
    MaxSlots = 1
    Size = {1}
INVARIANTS TimerUnexpired
CHECK_DEADLOCK FALSE
