------------------------------- MODULE SfsFile -------------------------------
(***************************************************************************)
(* Files of the sfs file system of kern-ucore and the blocks they own      *)
(* (fs/sfs/sfs_inode.c, bitmap.c, with the file-level calls of fs/file.c   *)
(* and vfs/vfsfile.c): regular files in one directory, opened through      *)
(* several descriptors, written, seeked, truncated, linked and unlinked on *)
(* a disk that fills up.                                                   *)
(*                                                                         *)
(* No operation below gives the CPU away (the kernel semaphores are free   *)
(* and the disk driver polls), so each is one step.  The contents of data  *)
(* blocks and the names are left out, and disk transfers succeed.  Of the  *)
(* copy of an inode on disk only the block count is kept: every assignment *)
(* to another field sets dirty, and what is dirty is written back.         *)
(***************************************************************************)
EXTENDS Naturals, FiniteSets, FiniteSetsExt, SequencesExt

CONSTANTS
    Inode,       \* inodes of regular files
    Root,        \* the inode of the directory
    Desc,        \* open-file descriptors, of any process
    NBlock,      \* blocks of the disk behind the freemap
    NDirect,     \* SFS_NDIRECT
    NEntry,      \* SFS_BLK_NENTRY
    BlkSize,     \* SFS_BLKSIZE
    MaxSize,     \* SFS_MAX_FILE_SIZE
    MaxSlots,    \* bound on the directory
    NoInode      \* an unused descriptor or directory slot

Block == 1 .. NBlock
Pointer == 0 .. NBlock
Index == 0 .. NDirect + NEntry + NEntry * NEntry - 1

VARIABLES
    freemap,     \* free blocks
    unused,      \* super.unused_blocks
    entries,     \* contents of the index blocks
    din,         \* struct sfs_disk_inode, with ino and dirty of struct sfs_inode
    saved,       \* din->blocks on disk, while the inode in memory is not dirty
    slots,       \* directory entries
    desc,        \* struct file: inode and pos
    panic,       \* the assertion that failed, if one did
    lost,        \* history: inodes dropped from memory with blocks not written,
                 \* as long as these are behind their end
    short,       \* history: inodes left with other blocks than their size needs
                 \* by an allocation that failed
    leaked       \* history: blocks behind the end of a lost inode that was freed

vars == <<freemap, unused, entries, din, saved, slots, desc, panic, lost, short, leaked>>

Blank == [i \in 0 .. NEntry - 1 |-> 0]

FreshDin ==
    [ino |-> 0, nlinks |-> 0, size |-> 0, blocks |-> 0,
     direct |-> [i \in 0 .. NDirect - 1 |-> 0], indirect |-> 0, db_indirect |-> 0,
     dirty |-> FALSE]

Closed == [node |-> NoInode, pos |-> 0]

IsDin(d) ==
    d \in [ino : Pointer, nlinks : 0 .. MaxSlots + 1, size : 0 .. MaxSize, blocks : 0 .. NBlock,
           direct : [0 .. NDirect - 1 -> Pointer], indirect : Pointer, db_indirect : Pointer,
           dirty : BOOLEAN]

(* Of all assertions on the paths modelled, only these two can fail.  That *)
(* of sfs_bmap_load_nolock is LoadInRange below; FileSized says exactly    *)
(* when that of sfs_truncfile does.                                        *)
TypeOK ==
    /\ freemap \subseteq Block /\ unused \in 0 .. NBlock
    /\ entries \in [Block -> [0 .. NEntry - 1 -> Pointer]]
    /\ \A i \in Inode \cup {Root} : IsDin(din[i])
    /\ saved \in [Inode -> 0 .. NBlock]
    /\ slots \in [0 .. MaxSlots - 1 -> Inode \cup {NoInode}]
    /\ desc \in [Desc -> [node : Inode \cup {NoInode}, pos : 0 .. MaxSize]]
    /\ panic \in {"no", "bmap_load", "truncfile"}
    /\ lost \subseteq Inode /\ short \subseteq Inode /\ leaked \subseteq Block

(* An empty file system: block 1 holds the directory's inode.              *)
Init ==
    /\ freemap = Block \ {1} /\ unused = NBlock - 1
    /\ entries = [b \in Block |-> Blank]
    /\ din = [i \in Inode \cup {Root} |->
                IF i = Root THEN [FreshDin EXCEPT !.ino = 1, !.nlinks = 2] ELSE FreshDin]
    /\ saved = [i \in Inode |-> 0]
    /\ slots = [k \in 0 .. MaxSlots - 1 |-> NoInode]
    /\ desc = [d \in Desc |-> Closed]
    /\ panic = "no"
    /\ lost = {} /\ short = {} /\ leaked = {}

-----------------------------------------------------------------------------
(* The functions of sfs_inode.c take and return the disk together with the *)
(* inode they work on; ret is the return value, or the failed assertion,   *)
(* after which nothing more happens.  ino and ent are their result         *)
(* parameters; short tells whether i is in the history variable.           *)
Disk(i) == [free |-> freemap, unused |-> unused, entries |-> entries, d |-> din[i],
            ret |-> "ok", ino |-> 0, ent |-> 0, alen |-> 0, short |-> i \in short]

Ok(s) == s.ret = "ok"

Fails(s, what) == [s EXCEPT !.ret = what]

(* Go on with Op unless s has failed.                                      *)
Then(s, Op(_)) == IF Ok(s) THEN Op(s) ELSE s

NoSpace(s) == [s EXCEPT !.ret = "NO_MEM", !.short = TRUE]

Alloc_NoMark(s) ==
    IF s.free = {} THEN NoSpace(s)
    ELSE LET b == Min(s.free) IN [s EXCEPT !.entries[b] = Blank, !.ino = b]

(* sfs_block_alloc and bitmap_alloc: the lowest free block, cleared.       *)
BlockAlloc(s) ==
    IF s.free = {} THEN NoSpace(s)
    ELSE LET b == Min(s.free)
         IN  [s EXCEPT !.free = @ \ {b}, !.unused = @ - 1, !.entries[b] = Blank, !.ino = b]

(* sfs_block_free and bitmap_free                                          *)
BlockFree(s, b) ==
    IF b \in s.free \cup {0} THEN Fails(s, "block_free")
    ELSE [s EXCEPT !.free = @ \cup {b}, !.unused = @ + 1]

Stored_LeakTable(a, table, index, ent) ==
    Then(a, LAMBDA r : [r EXCEPT !.entries[table][index] = r.ino, !.ent = table])

(* The end of sfs_bmap_get_sub_nolock: the block just allocated goes into  *)
(* the table; without one, a new table is given back.                      *)
Stored(a, table, index, ent) ==
    IF Ok(a) THEN [a EXCEPT !.entries[table][index] = a.ino, !.ent = table]
    ELSE IF ent = 0 THEN BlockFree(a, table)
    ELSE a

(* sfs_bmap_get_sub_nolock: entry index of the index block ent, both made  *)
(* if missing.                                                             *)
BmapGetSub(s, ent, index, create) ==
    LET found == IF ent = 0 THEN 0 ELSE s.entries[ent][index]
    IN  IF found # 0 \/ ~create THEN [s EXCEPT !.ent = ent, !.ino = found]
        ELSE Then(IF ent = 0 THEN BlockAlloc(s) ELSE [s EXCEPT !.ino = ent],
                  LAMBDA r : Stored(BlockAlloc(r), r.ino, index, ent))

(* The second level of a doubly indirect block.                            *)
BmapGetSecond(s, index, create) ==
    IF s.ino = 0 THEN s ELSE BmapGetSub(s, s.ino, index, create)

(* sfs_bmap_get_nolock                                                     *)
BmapGet(s, index, create) ==
    LET sub == index - NDirect
        dbl == sub - NEntry
    IN  IF index < NDirect
        THEN IF s.d.direct[index] # 0 \/ ~create THEN [s EXCEPT !.ino = s.d.direct[index]]
             ELSE Then(BlockAlloc(s),
                       LAMBDA r : [r EXCEPT !.d.direct[index] = r.ino, !.d.dirty = TRUE])
        ELSE IF sub < NEntry
        THEN Then(BmapGetSub(s, s.d.indirect, sub, create),
                  LAMBDA r : [r EXCEPT !.d.indirect = r.ent,
                                       !.d.dirty = @ \/ r.ent # s.d.indirect])
        ELSE Then(BmapGetSub(s, s.d.db_indirect, dbl \div NEntry, create),
                  LAMBDA r : BmapGetSecond([r EXCEPT !.d.db_indirect = r.ent,
                                                     !.d.dirty = @ \/ r.ent # s.d.db_indirect],
                                           dbl % NEntry, create))

(* sfs_bmap_load_nolock: the block with this index, which may be the first *)
(* behind the end.                                                         *)
BmapLoad(s, index) ==
    LET create == index = s.d.blocks
    IN  IF ~Ok(s) THEN s
        ELSE IF index > s.d.blocks THEN Fails(s, "bmap_load")
        ELSE Then(BmapGet(s, index, create),
                  LAMBDA r : IF r.ino \in r.free \cup {0} THEN Fails(r, "block_inuse")
                             ELSE IF create THEN [r EXCEPT !.d.blocks = @ + 1]
                             ELSE r)

(* sfs_bmap_free_sub_nolock                                                *)
BmapFreeSub(s, ent, index) ==
    IF s.entries[ent][index] = 0 THEN s
    ELSE BlockFree([s EXCEPT !.entries[ent][index] = 0], s.entries[ent][index])

BmapFreeSecond(s, index) == IF s.ino = 0 THEN s ELSE BmapFreeSub(s, s.ino, index)

Free_KeepPointer(s, index) ==
    IF index < NDirect /\ s.d.direct[index] # 0 THEN BlockFree(s, s.d.direct[index]) ELSE s

(* sfs_bmap_free_nolock                                                    *)
BmapFree(s, index) ==
    LET sub == index - NDirect
        dbl == sub - NEntry
    IN  IF index < NDirect
        THEN IF s.d.direct[index] = 0 THEN s
             ELSE [BlockFree(s, s.d.direct[index]) EXCEPT !.d.direct[index] = 0, !.d.dirty = TRUE]
        ELSE IF sub < NEntry
        THEN IF s.d.indirect = 0 THEN s ELSE BmapFreeSub(s, s.d.indirect, sub)
        ELSE IF s.d.db_indirect = 0 THEN s
        ELSE BmapFreeSecond(BmapGetSub(s, s.d.db_indirect, dbl \div NEntry, FALSE), dbl % NEntry)

(* sfs_bmap_truncate_nolock                                                *)
BmapTruncate(s) ==
    [BmapFree(s, s.d.blocks - 1) EXCEPT !.d.blocks = @ - 1, !.d.dirty = TRUE]

Times(n, Op(_), s) == FoldLeft(LAMBDA r, i : Op(r), s, [i \in 1 .. n |-> i])

-----------------------------------------------------------------------------
(* The end of sfs_io_nolock: the size is moved up to what was transferred, *)
(* also when nothing was.                                                  *)
IoOut(s, offset) ==
    IF offset + s.alen <= s.d.size THEN s
    ELSE [s EXCEPT !.d.size = offset + s.alen, !.d.dirty = TRUE]

(* sfs_io_nolock: block by block until one cannot be loaded.               *)
SfsIo(s, offset, len, write) ==
    LET end == Min({offset + len, MaxSize} \cup IF write THEN {} ELSE {s.d.size})
        first == offset \div BlkSize
        blks == [k \in 1 .. ((end - 1) \div BlkSize) - first + 1 |-> first + k - 1]
        bytes(b) == Min({end, (b + 1) * BlkSize}) - Max({offset, b * BlkSize})
        step(r, b) == Then(BmapLoad(r, b), LAMBDA l : [l EXCEPT !.alen = @ + bytes(b)])
    IN  IF offset >= MaxSize THEN Fails(s, "INVAL")
        ELSE IF offset >= end THEN s
        ELSE IoOut(FoldLeft(step, s, blks), offset)

Needed(size) == (size + BlkSize - 1) \div BlkSize

(* sfs_truncfile: on failure the blocks already added stay.                *)
TruncFile(s, len) ==
    LET nblks == s.d.blocks
        tblks == Needed(len)
    IN  IF s.d.size = len
        THEN IF tblks = nblks THEN s ELSE Fails(s, "truncfile")
        ELSE Then(IF nblks < tblks
                  THEN FoldLeft(BmapLoad, s, [k \in 1 .. tblks - nblks |-> nblks + k - 1])
                  ELSE Times(nblks - tblks, BmapTruncate, s),
                  LAMBDA r : [r EXCEPT !.d.size = len, !.d.dirty = TRUE])

(* The index blocks of sfs_reclaim.                                        *)
FreeDouble(s) ==
    IF s.d.db_indirect = 0 THEN s
    ELSE BlockFree(FoldLeft(LAMBDA r, i : BmapFreeSub(r, r.d.db_indirect, i - 1),
                            s, [i \in 1 .. NEntry |-> i]),
                   s.d.db_indirect)

Tables_Unchecked(s) == FreeDouble(BlockFree(s, s.d.indirect))

FreeTables(s) == FreeDouble(IF s.d.indirect = 0 THEN s ELSE BlockFree(s, s.d.indirect))

(* The part of sfs_reclaim for an inode without links.                     *)
FreeInode(s) ==
    [FreeTables(BlockFree(Times(s.d.blocks, BmapTruncate, s), s.d.ino)) EXCEPT !.d = FreshDin]

(* The data blocks that the inode names behind its end: sfs_reclaim frees  *)
(* only those before it.                                                   *)
Behind(s) == {BmapGet(s, k, FALSE).ino : k \in s.d.blocks .. Max(Index)} \ {0}

-----------------------------------------------------------------------------
Refs(i) == {d \in Desc : desc[d].node = i}

Panics(s) == ~Ok(s) /\ s.ret \notin {"NO_MEM", "INVAL"}

(* A failed assertion stops the kernel.                                    *)
Stop(s) ==
    /\ panic' = s.ret
    /\ UNCHANGED <<freemap, unused, entries, din, saved, slots, desc, lost, short, leaked>>

OnDisk(s) == freemap' = s.free /\ unused' = s.unused /\ entries' = s.entries

(* An operation on the open inode i ends with disk and inode as in s.      *)
Done(i, s) ==
    /\ OnDisk(s) /\ din' = [din EXCEPT ![i] = s.d]
    /\ saved' = [saved EXCEPT ![i] = IF s.d.dirty THEN 0 ELSE @]
    /\ short' = IF s.short /\ s.d.blocks # Needed(s.d.size) THEN short \cup {i} ELSE short \ {i}
    /\ lost' = IF i \in lost /\ Behind(s) = {} THEN lost \ {i} ELSE lost
    /\ UNCHANGED <<panic, leaked>>

(* vop_ref_dec that drops the last reference: sfs_close and sfs_reclaim    *)
(* free the inode if it has no links, else write it if it is dirty; it is  *)
(* read from the disk when it is used next.                                *)
Reclaim(i, s) ==
    LET blocks == IF s.d.dirty THEN s.d.blocks ELSE saved[i] IN
    IF s.d.nlinks = 0
    THEN \E freed \in {FreeInode(s)} :
         /\ OnDisk(freed)
         /\ din' = [din EXCEPT ![i] = FreshDin] /\ saved' = [saved EXCEPT ![i] = 0]
         /\ panic' = IF Panics(freed) THEN freed.ret ELSE panic
         /\ lost' = lost \ {i} /\ short' = short \ {i}
         /\ leaked' = leaked \cup Behind(s)
    ELSE /\ OnDisk(s) /\ UNCHANGED <<panic, short, leaked>>
         /\ din' = [din EXCEPT ![i] = [s.d EXCEPT !.dirty = FALSE, !.blocks = blocks]]
         /\ saved' = [saved EXCEPT ![i] = blocks]
         /\ lost' = IF blocks = s.d.blocks THEN lost ELSE lost \cup {i}

Running == panic = "no"

(* sfs_dirent_search_nolock for a new name: the last empty slot, or a new  *)
(* one.                                                                    *)
EmptySlot ==
    LET n == din[Root].blocks
        empty == {k \in 0 .. n - 1 : slots[k] = NoInode}
    IN  IF empty = {} THEN n ELSE Max(empty)

(* sfs_create and vfs_open with O_CREAT, for a name that does not exist:   *)
(* a block for the inode, then perhaps one for the directory slot, and     *)
(* back if that fails.                                                     *)
Create(d, i) ==
    /\ Running /\ desc[d] = Closed /\ din[i].ino = 0 /\ EmptySlot < MaxSlots
    /\ \E s \in {BlockAlloc(Disk(Root))} : \E r \in {BmapLoad(s, EmptySlot)} :
           IF Ok(r)
           THEN /\ OnDisk(r)
                /\ din' = [din EXCEPT ![Root] = [r.d EXCEPT !.dirty = TRUE],
                                      ![i] = [FreshDin EXCEPT !.ino = s.ino, !.nlinks = 1,
                                                              !.dirty = TRUE]]
                /\ slots' = [slots EXCEPT ![EmptySlot] = i]
                /\ desc' = [desc EXCEPT ![d] = [node |-> i, pos |-> 0]]
           ELSE /\ OnDisk(IF Ok(s) THEN BlockFree(r, s.ino) ELSE s)
                /\ din' = [din EXCEPT ![Root] = r.d]
                /\ UNCHANGED <<slots, desc>>
    /\ UNCHANGED <<saved, panic, lost, short, leaked>>

(* An operation on the open inode i through descriptor d ends: with the    *)
(* state r, and pos if it succeeded.                                       *)
Ends(d, i, r, pos) ==
    IF Panics(r) THEN Stop(r)
    ELSE /\ Done(i, r) /\ UNCHANGED slots
         /\ desc' = IF Ok(r) THEN [desc EXCEPT ![d] = [node |-> i, pos |-> pos]] ELSE desc

(* file_open, vfs_open; O_TRUNC, O_APPEND                                  *)
Open(d, i, trunc, append) ==
    /\ Running /\ desc[d] = Closed /\ din[i].nlinks > 0
    /\ \E r \in {IF trunc THEN TruncFile(Disk(i), 0) ELSE Disk(i)} :
           Ends(d, i, r, IF append THEN r.d.size ELSE 0)

(* file_read and file_write: sysfile_read and sysfile_write call them with *)
(* at most one block.  What was transferred before a failure counts.       *)
FileIo(d, len, write) ==
    /\ Running /\ desc[d] # Closed
    /\ \E r \in {SfsIo(Disk(desc[d].node), desc[d].pos, len, write)} :
           Ends(d, desc[d].node, IF Panics(r) THEN r ELSE [r EXCEPT !.ret = "ok"],
                desc[d].pos + r.alen)

(* file_seek and sfs_tryseek: past the end the file is grown first.        *)
FileSeek(d, pos) ==
    LET i == desc[d].node IN
    /\ Running /\ desc[d] # Closed
    /\ \E r \in {IF pos > din[i].size THEN TruncFile(Disk(i), pos) ELSE Disk(i)} :
           Ends(d, i, r, pos)

FileClose(d) ==
    LET i == desc[d].node IN
    /\ Running /\ desc[d] # Closed
    /\ desc' = [desc EXCEPT ![d] = Closed]
    /\ IF Refs(i) = {d} THEN Reclaim(i, Disk(i))
       ELSE UNCHANGED <<freemap, unused, entries, din, saved, panic, lost, short, leaked>>
    /\ UNCHANGED slots

(* file_fsync, sfs_fsync                                                   *)
Fsync(d) ==
    LET i == desc[d].node IN
    /\ Running /\ desc[d] # Closed /\ din[i].nlinks # 0 /\ din[i].dirty
    /\ din' = [din EXCEPT ![i].dirty = FALSE]
    /\ saved' = [saved EXCEPT ![i] = din[i].blocks]
    /\ UNCHANGED <<freemap, unused, entries, slots, desc, panic, lost, short, leaked>>

(* sfs_link                                                                *)
Link(i) ==
    LET inMemory == Refs(i) # {} IN
    /\ Running /\ din[i].nlinks > 0 /\ EmptySlot < MaxSlots
    /\ \E r \in {BmapLoad(Disk(Root), EmptySlot)} :
        /\ OnDisk(r)
        /\ IF Ok(r)
           THEN /\ din' = [din EXCEPT ![Root] = [r.d EXCEPT !.dirty = TRUE],
                                      ![i].nlinks = @ + 1, ![i].dirty = inMemory]
                /\ saved' = [saved EXCEPT ![i] = IF inMemory THEN 0 ELSE din[i].blocks]
                /\ slots' = [slots EXCEPT ![EmptySlot] = i]
           ELSE din' = [din EXCEPT ![Root] = r.d] /\ UNCHANGED <<saved, slots>>
    /\ UNCHANGED <<desc, panic, lost, short, leaked>>

(* sfs_unlink of a regular file: the inode goes with the last link, or     *)
(* later with the last descriptor.                                         *)
Unlink(k) ==
    LET i == slots[k]
        s == [Disk(i) EXCEPT !.d.nlinks = @ - 1, !.d.dirty = TRUE]
    IN  /\ Running /\ i # NoInode
        /\ slots' = [slots EXCEPT ![k] = NoInode]
        /\ IF Refs(i) = {} THEN Reclaim(i, s) ELSE Done(i, s)
        /\ UNCHANGED desc

Next ==
    \/ \E d \in Desc :
         \/ \E i \in Inode : \/ Create(d, i)
                             \/ \E trunc, append \in BOOLEAN : Open(d, i, trunc, append)
         \/ \E len \in 1 .. BlkSize, write \in BOOLEAN : FileIo(d, len, write)
         \/ \E pos \in 0 .. MaxSize - 1 : FileSeek(d, pos)
         \/ FileClose(d) \/ Fsync(d)
    \/ \E i \in Inode : Link(i)
    \/ \E k \in DOMAIN slots : Unlink(k)

Spec == Init /\ [][Next]_vars

-----------------------------------------------------------------------------
(* The places that hold block numbers, of the files that exist.            *)
Pointers(i) ==
    LET d == din[i]
        table(b) == IF b = 0 THEN << >> ELSE [k \in 1 .. NEntry |-> entries[b][k - 1]]
        second == table(d.db_indirect)
    IN  <<d.ino, d.indirect, d.db_indirect>>
        \o [k \in 1 .. NDirect |-> d.direct[k - 1]]
        \o table(d.indirect) \o second
        \o FlattenSeq([k \in 1 .. Len(second) |-> table(second[k])])

Owned ==
    SelectSeq(FlattenSeq([k \in 1 .. Cardinality(Inode) |-> Pointers(SetToSeq(Inode)[k])])
                  \o Pointers(Root),
              LAMBDA b : b # 0)

(* No block belongs to two places, whatever was freed and allocated again, *)
(* and no block in use is free.                                            *)
BlocksUnshared ==
    LET owned == Owned IN IsInjective(owned) /\ ToSet(owned) \cap freemap = {}

(* Nothing leaks, in operations that run out of space half-way included:   *)
(* every block in use belongs to a file.  The one exception are the blocks *)
(* that an inode named behind its end when it was freed.  And unused_blocks *)
(* is right.                                                               *)
BlocksAccounted ==
    /\ ToSet(Owned) \cup freemap = Block \ leaked
    /\ unused = Cardinality(freemap)

BlockAt(i, index) == BmapGet(Disk(i), index, FALSE).ino

(* The blocks of a file are exactly those below blocks: none is missing,   *)
(* and none is left behind the end where a later write would find it,      *)
(* unless this very inode left memory without its last blocks.             *)
FileDense ==
    \A i \in Inode \cup {Root} : \A index \in Index :
        IF index < din[i].blocks THEN BlockAt(i, index) # 0
        ELSE i \in lost \/ BlockAt(i, index) = 0

(* A file has the blocks its size needs, which sfs_truncfile asserts of a  *)
(* size it need not change, unless the disk was full when the file last    *)
(* grew: then the blocks added before the failure stay while the size does *)
(* not follow.  The assertion fails exactly on a file left so with no      *)
(* bytes, the next time it is opened with O_TRUNC.  And only such a file   *)
(* has blocks that it does not know to be written.                         *)
FileSized ==
    /\ \A i \in Inode \ short : din[i].blocks = Needed(din[i].size)
    /\ panic = "truncfile" => \E i \in short : din[i].size = 0 /\ din[i].blocks # 0
    /\ \A i \in Inode : ~din[i].dirty /\ saved[i] # din[i].blocks => i \in short

(* The assertion of sfs_bmap_load_nolock: nobody asks for a block behind   *)
(* the one after the last.                                                 *)
LoadInRange == panic # "bmap_load"
=============================================================================
