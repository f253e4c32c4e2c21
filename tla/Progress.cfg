SPECIFICATION ProgressSpec
CONSTANTS
    MaxPid = 8
    MaxProcess = 6
    LcpuCount = 2
    Proc = {p1, p2}
    initproc = initproc
    AnyPid = AnyPid
    Lcpu = {c1, c2}
    Task = {k1, k2, k3}
    MM = {m1, m2, m3}
    Idle = Idle
    NoMm = NoMm
    NoCpu = NoCpu
    Pgdir = {g0, g1}
    La = {a0}
    Madt <- Tables
INVARIANTS UniqueInList UserSound StartUpSound
PROPERTIES GetPidReturns NoStarvation ProcessesEnd ShootdownCompletes ClosingFreed UserEnds StartUpEnds
CHECK_DEADLOCK FALSE
