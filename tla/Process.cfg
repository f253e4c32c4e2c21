SPECIFICATION ProcessSpec
CONSTANTS
    Proc = {p1, p2, p3}
    initproc = initproc
    AnyPid = AnyPid
    Fs = {f1, f2}
    Fd = {d1, d2}
    Std = {d1}
    NoFs = NoFs
    NoFd = NoFd
    BufSize = 2
    MaxLen = 2
    SemObj = {f1, f2}
    Queue = {l1, l2, l3}
    MaxValue = 1
SYMMETRY Symmetry
INVARIANTS ParentLive GroupLive NoZombieUnnoticed InitSeesAll FilesSound HandlesExact
CHECK_DEADLOCK FALSE
