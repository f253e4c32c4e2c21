SPECIFICATION Spec
CONSTANTS
    Inode = {i1}
    Root = Root
    Desc = {d1, d2}
    NBlock = 10
    NDirect = 1
    NEntry = 2
    BlkSize = 2
    MaxSize = 8
    MaxSlots = 2
    NoInode = NoInode
INVARIANTS LoadInRange
CHECK_DEADLOCK FALSE
