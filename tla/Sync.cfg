SPECIFICATION SyncSpec
CONSTANTS
    Proc = {p1, p2, p3}
    InitValue = 1
    MaxPost = 2
    Sleeper = {s1, s2, s3}
    MaxTicks = 4
    Peer = {e1, e2, e3}
INVARIANTS SemSound TimerAsserts EventSound
PROPERTIES TimesKept SleepersServed
CHECK_DEADLOCK FALSE
