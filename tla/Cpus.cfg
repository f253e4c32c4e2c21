SPECIFICATION CpusSpec
CONSTANTS
    NCPU = 2
    LapicCount = 3
    Pgdir = {g0, g1}
    La = {a0, a1}
    Lcpu = {c1, c2}
    Task = {p1, p2, p3}
    Kthread = {k1}
    Idle = Idle
    NoMm = NoMm
    NoCpu = NoCpu
    NQ = 2
    MaxSlice = 1
    Eproc = {"a", "b"}
    Event = {"tick", "ipe", "init"}
    IpiEvent = {"ipe"}
    Pool <- TwoPools
INVARIANTS MutualExclusion NoStaleTranslation SchedSound RiverSound
PROPERTIES WorkConserving
SYMMETRY Symmetry
