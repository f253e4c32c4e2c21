SPECIFICATION StorageSpec
CONSTANTS
    Units = {"tree"}
    Thread = {"t1", "t2"}
    PName = {"n1"}
    Fd = {"f1", "f2"}
    BufSize = 2
    MaxLen = 3
    MaxKeys = 4
    Inode = {i1}
    Root = Root
    NoInode = NoInode
    Desc = {o1, o2}
    NBlock = 10
    NDirect = 1
    NEntry = 2
    BlkSize = 2
    MaxSize = 8
    MaxSlots = 2
INVARIANT LoadsInUse
CHECK_DEADLOCK FALSE
