-------------------------------- MODULE Mksfs --------------------------------
(***************************************************************************)
(* tools-mksfs, which makes the image that the kernel mounts               *)
(* (ht-mksfs/mksfs.c).  It walks a directory of the host; what it meets    *)
(* there is a free choice, with hard links, symbolic links and directories *)
(* within directories.  Blocks are handed out in order.  bug() ends the    *)
(* program: the superblock is then not written.                            *)
(***************************************************************************)
EXTENDS Integers, FiniteSets, SequencesExt, TLC

CONSTANTS
    NBlock,          \* sfs->ninos
    BlkBits,         \* SFS_BLKBITS
    NDirect, NEntry, MaxFileBlks,  \* SFS_NDIRECT, SFS_BLK_NENTRY, SFS_LN_NBLKS
    Real,            \* inode numbers of the host
    Name, Hidden     \* names; those that begin with a dot

VARIABLE img         \* the program's state; blk is the image, cache included

Super == 0
RootIno == 1
Freemap == 2
Freemaps == (NBlock + BlkBits - 1) \div BlkBits

L1 == NEntry + NDirect

(* Contents of a block.                                                    *)
Unwritten == <<"none">>
Index(at) == <<"index", at>>
NoIndex == [k \in 0 .. NEntry - 1 |-> 0]

NewInode(type) ==
    [type |-> type, nlinks |-> 0, slots |-> 0, parent |-> 0, size |-> 0, blocks |-> 0,
     direct |-> [k \in 0 .. NDirect - 1 |-> 0], indirect |-> 0, db_indirect |-> 0,
     l1 |-> 0, l2 |-> 0]

(* create_sfs with alloc_cache_inode and init_dir_cache_inode of the root. *)
Init ==
    img = [next |-> Freemap + Freemaps, unused |-> NBlock - (Freemap + Freemaps),
           inode |-> [x \in {RootIno} |-> [NewInode("dir") EXCEPT !.nlinks = 2, !.parent = RootIno]],
           blk |-> [x \in 0 .. NBlock - 1 |-> Unwritten],
           ino |-> [x \in {} |-> 0],
           subpath |-> << [ino |-> RootIno, name |-> ""] >>,
           bug |-> "no", free |-> {}, closed |-> FALSE]

(* sfs_alloc_ino: the block is img.next - 1 afterwards.                    *)
AllocIno(s) ==
    IF s.bug # "no" THEN s
    ELSE IF s.next < NBlock THEN [s EXCEPT !.next = @ + 1, !.unused = @ - 1]
    ELSE [s EXCEPT !.bug = "out of disk space"]

WriteBlock(s, ino, data) == IF s.bug # "no" THEN s ELSE [s EXCEPT !.blk[ino] = data]

(* alloc_cache_inode for a new inode of the host.                          *)
AllocCacheInode(s, real, type) ==
    LET r == AllocIno(s)
    IN  IF r.bug # "no" THEN r
        ELSE [r EXCEPT !.inode = @ @@ [x \in {s.next} |-> NewInode(type)],
                       !.ino = [x \in {real} |-> s.next] @@ @]

(* update_cache: *inop is at, cached the block in *cbp.  alloc_cache_block *)
(* enters a new block in the list of block 0, where search_cache_block     *)
(* does not look for it.  The result is in at.                             *)
UpdateCache(s, cached, at) ==
    IF at = 0
    THEN LET r == AllocIno(s) IN [s |-> WriteBlock(r, r.next - 1, Index(NoIndex)), at |-> r.next - 1]
    ELSE IF cached # at THEN [s |-> [s EXCEPT !.bug = "assert"], at |-> at]
    ELSE [s |-> s, at |-> at]

(* __append_block                                                          *)
AppendBlock(s, file, ino) ==
    LET n == s.inode[file].blocks
        d == s.inode[file]
        one == UpdateCache(s, d.l1, d.indirect)
        two == UpdateCache(s, d.l2, d.db_indirect)
        k == (n - L1) \div NEntry
        low == UpdateCache(two.s, d.l1, two.s.blk[two.at][2][k])
    IN  IF s.bug # "no" THEN s
        ELSE IF n >= MaxFileBlks THEN [s EXCEPT !.bug = "file is too big"]
        ELSE IF n < NDirect
        THEN [s EXCEPT !.inode[file].direct[n] = ino, !.inode[file].blocks = @ + 1]
        ELSE IF n < L1
        THEN IF one.s.bug # "no" THEN one.s
             ELSE [one.s EXCEPT !.inode[file].indirect = one.at, !.inode[file].l1 = one.at,
                                !.blk[one.at] = Index([@[2] EXCEPT ![n - NDirect] = ino]),
                                !.inode[file].blocks = @ + 1]
        ELSE IF two.s.bug # "no" THEN two.s
        ELSE IF low.s.bug # "no" THEN low.s
        ELSE [low.s EXCEPT !.inode[file].db_indirect = two.at, !.inode[file].l2 = two.at,
                           !.inode[file].l1 = low.at,
                           !.blk[two.at] = Index([@[2] EXCEPT ![k] = low.at]),
                           !.blk[low.at] = Index([@[2] EXCEPT ![(n - L1) % NEntry] = ino]),
                           !.inode[file].blocks = @ + 1]

(* A data block, and append_block_size with the size counted in blocks.    *)
AppendData(s, file) ==
    LET r == AllocIno(s)
        w == AppendBlock(WriteBlock(r, r.next - 1, <<"data", file>>), file, r.next - 1)
    IN  IF r.bug # "no" THEN r ELSE IF w.bug # "no" THEN w
        ELSE [w EXCEPT !.inode[file].size = @ + 1]

Entry_NoLink(s, dir, file, name) ==
    LET r == AllocIno(s)
        w == AppendBlock(WriteBlock(r, r.next - 1, <<"entry", file, name>>), dir, r.next - 1)
    IN  IF r.bug # "no" THEN r ELSE IF w.bug # "no" THEN w
        ELSE [w EXCEPT !.inode[dir].slots = @ + 1]

(* add_entry.  (It writes the size of a name, not of an entry: the last    *)
(* four characters of a name of full length are lost.  Names here are      *)
(* shorter.)                                                               *)
AddEntry(s, dir, file, name) ==
    LET r == AllocIno(s)
        w == AppendBlock(WriteBlock(r, r.next - 1, <<"entry", file, name>>), dir, r.next - 1)
    IN  IF r.bug # "no" THEN r ELSE IF w.bug # "no" THEN w
        ELSE [w EXCEPT !.inode[dir].slots = @ + 1, !.inode[file].nlinks = @ + 1]

-----------------------------------------------------------------------------
Current == Last(img.subpath).ino
Works == img.bug = "no" /\ ~img.closed

(* A name is met once in a directory, hidden ones are passed over.         *)
Unseen(name) ==
    /\ name \notin Hidden
    /\ \A b \in DOMAIN img.blk : img.blk[b][1] = "entry" =>
        ~(img.blk[b][3] = name /\ \E x \in {img.inode[Current]} :
            \/ \E k \in DOMAIN x.direct : x.direct[k] = b
            \/ x.indirect # 0 /\ \E k \in DOMAIN NoIndex : img.blk[x.indirect][2][k] = b)

(* open_dir meets a file: add_file, with open_file if it is new.           *)
AddFile(name, real, nblks) ==
    /\ Works /\ Unseen(name)
    /\ real \in DOMAIN img.ino => img.inode[img.ino[real]].type = "file"
    /\ \E s \in {IF real \in DOMAIN img.ino THEN img
                 ELSE LET a == AllocCacheInode(img, real, "file")
                      IN  IF a.bug # "no" THEN a
                          ELSE FoldLeft(LAMBDA r, i : AppendData(r, img.next), a,
                                        [i \in 1 .. nblks |-> i])} :
        img' = IF s.bug # "no" THEN s ELSE AddEntry(s, Current, s.ino[real], name)

(* A symbolic link: add_link, open_link; always a new inode, also for a    *)
(* hard link to a symbolic link that was met before.                       *)
AddLink(name, real) ==
    /\ Works /\ Unseen(name)
    /\ real \in DOMAIN img.ino => img.inode[img.ino[real]].type = "link"
    /\ \E s \in {AllocCacheInode(img, real, "link")} :
        img' = IF s.bug # "no" THEN s
               ELSE LET d == AppendData(s, img.next)
                    IN  IF d.bug # "no" THEN d ELSE AddEntry(d, Current, img.next, name)

(* add_dir up to the call of open_dir, ...                                 *)
AddDir(name, real) ==
    /\ Works /\ Unseen(name) /\ real \notin DOMAIN img.ino
    /\ \E s \in {AllocCacheInode(img, real, "dir")} :
        img' = IF s.bug # "no" THEN s
               ELSE [s EXCEPT !.inode[img.next].nlinks = @ + 1, !.inode[img.next].parent = Current,
                              !.inode[Current].nlinks = @ + 1,
                              !.subpath = Append(@, [ino |-> img.next, name |-> name])]

(* ... and from its return: the entry comes after all below it.            *)
LeaveDir ==
    /\ Works /\ Len(img.subpath) > 1
    /\ LET up == img.subpath[Len(img.subpath) - 1].ino
       IN  img' = [AddEntry(img, up, Current, Last(img.subpath).name)
                     EXCEPT !.subpath = Front(@)]

(* close_sfs: the bits of the free blocks, map block by map block.         *)
CloseSfs ==
    /\ Works /\ Len(img.subpath) = 1
    /\ img' = [img EXCEPT !.closed = TRUE, !.free =
            UNION {LET i == m * BlkBits
                       start == IF i < img.next THEN img.next - i ELSE 0
                       end == IF i + BlkBits > NBlock THEN NBlock - i ELSE BlkBits
                   IN  IF i + BlkBits > img.next THEN {i + j : j \in start .. end - 1} ELSE {}
                   : m \in 0 .. Freemaps - 1}]

Next ==
    \/ \E name \in Name, real \in Real :
        \/ \E nblks \in {0, 1, NDirect + 1, MaxFileBlks, MaxFileBlks + 1} : AddFile(name, real, nblks)
        \/ AddLink(name, real) \/ AddDir(name, real)
    \/ LeaveDir \/ CloseSfs

-----------------------------------------------------------------------------
(* What the kernel reads at index n of a file: sfs_bmap_get_nolock.        *)
Bmap(d, n) ==
    IF n < NDirect THEN d.direct[n]
    ELSE IF n < L1 THEN img.blk[d.indirect][2][n - NDirect]
    ELSE LET ent == img.blk[d.db_indirect][2][(n - L1) \div NEntry]
         IN  img.blk[ent][2][(n - L1) % NEntry]

Blocks(d) == {Bmap(d, n) : n \in 0 .. d.blocks - 1}
Indices(d) == {d.indirect, d.db_indirect} \cup
              (IF d.db_indirect = 0 THEN {} ELSE {img.blk[d.db_indirect][2][k] : k \in DOMAIN NoIndex})
Entries(d) == IF d.type = "dir" THEN Blocks(d) ELSE {}
EntriesOf(i) == {b \in UNION {Entries(img.inode[x]) : x \in DOMAIN img.inode} : img.blk[b][2] = i}

(* What the kernel counts on when it mounts the image and walks it         *)
(* (sfs_do_mount, sfs_load_inode, sfs_bmap_get_nolock): the free blocks    *)
(* are as many as the superblock says, behind all that is used; every used *)
(* block belongs to one file; a file's blocks are found in order through   *)
(* direct and indirect entries; link counts are those mkdir and link would *)
(* have given; and no assertion of the program fails on the way.           *)
ImageSound ==
    /\ img.bug # "assert"
    /\ img.closed =>
        LET used == DOMAIN img.inode
            data == UNION {Blocks(img.inode[i]) : i \in used}
            index == UNION {Indices(img.inode[i]) : i \in used} \ {0}
            meta == {Super} \cup (Freemap .. Freemap + Freemaps - 1)
        IN
        /\ img.unused = Cardinality(img.free) /\ img.free \cup (0 .. img.next - 1) = 0 .. NBlock - 1
        /\ used \cup data \cup index \cup meta = 0 .. img.next - 1
        /\ Cardinality(used) + Cardinality(data) + Cardinality(index) + Cardinality(meta) = img.next
        /\ \A i \in used : LET d == img.inode[i] IN
            /\ Cardinality(Blocks(d)) = d.blocks
            /\ d.nlinks = Cardinality(EntriesOf(i))
                          + (IF i = RootIno THEN 1 ELSE 0)
                          + IF d.type # "dir" THEN 0
                            ELSE 1 + Cardinality({x \in used \ {i} : img.inode[x].type = "dir"
                                                                     /\ img.inode[x].parent = i})
            /\ d.nlinks # 0
            /\ IF d.type = "dir" THEN d.slots = d.blocks /\ img.inode[d.parent].type = "dir"
               ELSE d.size = d.blocks /\ \A b \in Blocks(d) : img.blk[b] = <<"data", i>>
=============================================================================
