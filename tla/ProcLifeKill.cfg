SPECIFICATION FairSpec
CONSTANTS
    Proc = {p1, p2}
    initproc = initproc
    AnyPid = AnyPid
PROPERTIES KilledExits
CHECK_DEADLOCK FALSE
