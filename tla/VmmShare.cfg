SPECIFICATION Spec
CONSTANTS
    MM = {m1, m2}
    NVma = 5
    Shm = {h1}
    Base = 1
    Top = 7
    MaxLen = 3
    MaxCalls = 3
    NoShm = NoShm
INVARIANTS SharedHaveShmem
CHECK_DEADLOCK FALSE
