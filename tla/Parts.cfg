SPECIFICATION PartsSpec
CONSTANTS
    Proc = {p1, p2, p3}
    MaxSlots = 1
    Size = {1, 2}
    MM = {m1, m2}
    Shm = {h1}
    NoShm = NoShm
    c1 = c1
    c2 = c2
    NoCache = NoCache
INVARIANTS AreasSound SwapSound  TablesSound LibrarySound
    ShellSound MboxSound
PROPERTIES CallsKeepPromise
SYMMETRY Symmetry
CHECK_DEADLOCK FALSE
