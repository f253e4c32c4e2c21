------------------------------- MODULE SfsTree -------------------------------
(***************************************************************************)
(* The directory tree of an sfs volume and the path names of kern-ucore    *)
(* (fs/sfs/sfs_inode.c, sfs_fs.c, sfs_io.c, vfs/*.c, the name calls of     *)
(* fs/sysfile.c): lookups from the current directory, "/", ":" and         *)
(* "dev:", mkdir, link, rename, unlink, open, getcwd, fsync and sync, on a *)
(* disk that fills up, with the reference counts of the inodes in memory.  *)
(*                                                                         *)
(* A system call is one step: no call gives the CPU away (SfsFile).  Names *)
(* are opaque and one character long, so a directory entry read as an      *)
(* inode has nlinks = 0.  Data blocks of files are in SfsFile.  kmalloc    *)
(* and disk transfers succeed.  Inode 0 stands for the inode of a device   *)
(* that has no file system.                                                *)
(***************************************************************************)
EXTENDS Naturals, FiniteSets, FiniteSetsExt, SequencesExt

CONSTANTS
    NBlock,      \* blocks of the volume, 1 (SFS_BLKN_ROOT) to NBlock
    Proc, Fd,    \* user processes, open files
    Path,        \* path names [from, comps]
    LongName,    \* a component longer than SFS_MAX_FNAME_LEN
    CwdLen       \* components that fit into the buffer of getcwd

VARIABLES
    tree,        \* the volume and its inodes in memory
    pwd,         \* fs_struct->pwd, 0 for no process
    opened       \* inodes of the open files, 0 for none

vars == <<tree, pwd, opened>>

RootIno == 1
Device == 0
Block == 1 .. NBlock

NoDin == [type |-> "none", nlinks |-> 0, slots |-> 0, parent |-> 0, blk |-> << >>]
NoEnt == [ino |-> 0, name |-> ""]
RootDin == [NoDin EXCEPT !.type = "dir", !.nlinks = 2, !.parent = RootIno]

(* An empty volume as mksfs leaves it, mounted; bootfs_node and the pwd of *)
(* init refer to the root.                                                 *)
Init ==
    /\ tree = [free |-> Block \ {RootIno}, unused |-> NBlock - 1, super_dirty |-> FALSE,
               saved |-> <<Block \ {RootIno}, NBlock - 1>>,
               din |-> [i \in 0 .. NBlock |-> CASE i = RootIno -> RootDin
                                                [] i = Device -> [NoDin EXCEPT !.type = "dev"]
                                                [] OTHER -> NoDin],
               disk |-> [i \in Block |-> IF i = RootIno THEN RootDin ELSE NoDin],
               ent |-> [i \in Block |-> NoEnt],
               ref |-> [i \in 0 .. NBlock |-> IF i = RootIno THEN 2 ELSE IF i = Device THEN 1 ELSE 0],
               dirty |-> {}, removed |-> {},
               ret |-> "ok", node |-> 0, slot |-> 0, path |-> << >>, panic |-> "no"]
    /\ pwd = [p \in Proc |-> 0] /\ opened = [f \in Fd |-> 0]

-----------------------------------------------------------------------------
(* The functions below take and return the tree; ret is their return value *)
(* and node, slot and path are their result parameters.                    *)
Ok(s) == s.ret = "ok"
Fails(s, error) == [s EXCEPT !.ret = error]
Panics(s, what) == [s EXCEPT !.ret = "panic", !.panic = what]
Then(s, Op(_)) == IF Ok(s) THEN Op(s) ELSE s
With(s, Op(_)) == Op(s)

(* bitmap_alloc takes the lowest free block; the contents of a free block  *)
(* do not matter, sfs_block_alloc clears it.                               *)
BlockAlloc(s) ==
    IF s.free = {} THEN Fails(s, "NO_MEM")
    ELSE [s EXCEPT !.free = @ \ {Min(s.free)}, !.unused = @ - 1, !.node = Min(s.free),
                   !.super_dirty = TRUE, !.saved = << >>]

(* sfs_block_free and bitmap_free                                          *)
BlockFree(s, b) ==
    IF b \in s.free THEN Panics(s, "block_free")
    ELSE [s EXCEPT !.free = @ \cup {b}, !.unused = @ + 1, !.super_dirty = TRUE, !.saved = << >>,
                   !.ent[b] = NoEnt]

(* An assignment to a field of sin->din: what the disk holds of the inode  *)
(* does not matter until it is written.                                    *)
SetDin(s, i, d) ==
    [s EXCEPT !.din[i] = d, !.dirty = @ \cup {i}, !.disk[i] = NoDin]

(* sfs_wbuf of an inode                                                    *)
WriteInode(s, i) == [s EXCEPT !.dirty = @ \ {i}, !.disk[i] = s.din[i]]

(* sfs_fsync                                                               *)
Fsync(s, i) ==
    IF s.din[i].nlinks = 0 \/ i \notin s.dirty \/ i \in s.removed THEN s
    ELSE WriteInode(s, i)

Forget(s, i) == [s EXCEPT !.din[i] = NoDin, !.dirty = @ \ {i}, !.removed = @ \ {i}]

(* sfs_reclaim: an inode without links gives its blocks back, any other    *)
(* one is written if it is dirty.                                          *)
Reclaim(s, i) ==
    IF s.din[i].nlinks # 0 THEN Forget(Fsync(s, i), i)
    ELSE With(FoldLeft(BlockFree, s, Append(s.din[i].blk, i)),
              LAMBDA r : Forget([r EXCEPT !.disk[i] = NoDin], i))

RefInc(s, i) == [s EXCEPT !.ref[i] = @ + 1]

(* inode_ref_dec; an error in s is kept.                                   *)
RefDec(s, i) ==
    IF s.ret = "panic" THEN s
    ELSE IF s.ref[i] = 1 THEN Reclaim([s EXCEPT !.ref[i] = 0], i)
    ELSE [s EXCEPT !.ref[i] = @ - 1]

(* sfs_load_inode, lookup_sfs_nolock, sfs_create_inode                     *)
Load(s, i) ==
    IF s.ref[i] > 0 THEN [RefInc(s, i) EXCEPT !.node = i]
    ELSE IF i \in s.free \/ s.disk[i].nlinks = 0 THEN Panics(s, "load_inode")
    ELSE [s EXCEPT !.ref[i] = 1, !.din[i] = s.disk[i], !.node = i]

-----------------------------------------------------------------------------
(* Directory entries.                                                      *)
Entry(s, d, k) == s.ent[s.din[d].blk[k]]
Slots(s, d) == DOMAIN s.din[d].blk
Named(s, d, name) == {k \in Slots(s, d) : Entry(s, d, k).ino # 0 /\ Entry(s, d, k).name = name}

(* sfs_dirent_search_nolock, for a name that is there: its slot and inode  *)
(* number; and for a new name: the last empty slot or one behind the end.  *)
Search(s, d, name) ==
    IF Named(s, d, name) = {} THEN Fails(s, "NOENT")
    ELSE With(Min(Named(s, d, name)),
              LAMBDA k : [s EXCEPT !.slot = k, !.node = Entry(s, d, k).ino])

EmptySlot(s, d) ==
    LET empty == {k \in Slots(s, d) : Entry(s, d, k).ino = 0}
    IN  IF empty = {} THEN Len(s.din[d].blk) + 1 ELSE Max(empty)

(* sfs_dirent_write_nolock; sfs_bmap_load_nolock adds a block at the end.  *)
DirentWrite(s, d, k, ino, name) ==
    Then(IF k \in Slots(s, d) THEN s
         ELSE Then(BlockAlloc(s), LAMBDA r :
                   SetDin(r, d, [r.din[d] EXCEPT !.blk = Append(@, r.node)])),
         LAMBDA r : [r EXCEPT !.ent[r.din[d].blk[k]] = [ino |-> ino, name |-> name]])

(* sfs_dirent_link_nolock                                                  *)
DirentLink(s, d, k, i, name) ==
    Then(DirentWrite(s, d, k, i, name), LAMBDA r :
         With(SetDin(r, d, [r.din[d] EXCEPT !.slots = @ + 1]), LAMBDA q :
              SetDin(q, i, [q.din[i] EXCEPT !.nlinks = @ + 1])))

NlinksInc(s, i) == SetDin(s, i, [s.din[i] EXCEPT !.nlinks = @ + 1])

NlinksDec(s, i) ==
    IF s.din[i].nlinks = 0 THEN Panics(s, "nlinks")
    ELSE SetDin(s, i, [s.din[i] EXCEPT !.nlinks = @ - 1])

(* sfs_dirent_unlink_nolock                                                *)
DirentUnlink(s, d, k, i) ==
    With(DirentWrite(s, d, k, 0, ""), LAMBDA r :
         IF r.din[d].slots = 0 THEN Panics(r, "slots")
         ELSE NlinksDec(SetDin(r, d, [r.din[d] EXCEPT !.slots = @ - 1]), i))

(* sfs_dirent_create_inode                                                 *)
CreateInode(s, type) ==
    Then(BlockAlloc(s), LAMBDA r :
         [r EXCEPT !.ref[r.node] = 1, !.din[r.node] = [NoDin EXCEPT !.type = type]])

(* trylock_sin refuses a directory that was removed.                       *)
SFSInodeRemoved(s, d) == d \in s.removed
Locked(s, d, Op(_)) == IF SFSInodeRemoved(s, d) THEN Fails(s, "NOENT") ELSE Op(s)

Dots == {".", ".."}

(* How sfs_mkdir, sfs_create and sfs_unlink begin: the checks on the name, *)
(* error is what "." gives, then the directory is locked.                  *)
Enter(s, d, name, error, Op(_)) ==
    IF name = LongName THEN Fails(s, "TOO_BIG")
    ELSE IF name \in Dots THEN Fails(s, error)
    ELSE Locked(s, d, Op)

Mkdir_NoDotDot(s, d, name) ==
    IF Named(s, d, name) # {} THEN Fails(s, "EXISTS")
    ELSE Then(CreateInode(s, "dir"), LAMBDA r :
         RefDec(Then(DirentLink(r, d, EmptySlot(r, d), r.node, name), LAMBDA q :
                     SetDin(q, r.node, [q.din[r.node] EXCEPT !.parent = d, !.nlinks = @ + 1])),
                r.node))

(* sfs_mkdir_nolock                                                        *)
Mkdir(s, d, name) ==
    IF Named(s, d, name) # {} THEN Fails(s, "EXISTS")
    ELSE Then(CreateInode(s, "dir"), LAMBDA r :
         RefDec(Then(DirentLink(r, d, EmptySlot(r, d), r.node, name), LAMBDA q :
                     NlinksInc(SetDin(q, r.node, [q.din[r.node] EXCEPT !.parent = d,
                                                                       !.nlinks = @ + 1]), d)),
                r.node))

SfsMkdir(s, d, name) == Enter(s, d, name, "EXISTS", LAMBDA r : Mkdir(r, d, name))

(* sfs_link, sfs_link_nolock; the type is looked at before the lock.       *)
Link(s, d, i, name) ==
    IF name \notin Dots \cup {LongName} /\ s.din[i].type = "dir" THEN Fails(s, "ISDIR")
    ELSE Enter(s, d, name, "EXISTS", LAMBDA r :
         IF Named(r, d, name) # {} THEN Fails(r, "EXISTS")
         ELSE DirentLink(r, d, EmptySlot(r, d), i, name))

Create_LeakExists(s, d, name, excl) ==
    IF Named(s, d, name) # {}
    THEN IF excl THEN Fails(s, "EXISTS")
         ELSE Then(With(Search(s, d, name), LAMBDA r : Load(r, r.node)), LAMBDA r :
              IF r.din[r.node].type = "file" THEN r ELSE Fails(r, "EXISTS"))
    ELSE Then(CreateInode(s, "file"), LAMBDA r :
         With(DirentLink(r, d, EmptySlot(r, d), r.node, name), LAMBDA q :
              IF Ok(q) THEN [q EXCEPT !.node = r.node] ELSE RefDec(q, r.node)))

(* sfs_create_nolock: the inode in node is referenced.                     *)
Create(s, d, name, excl) ==
    IF Named(s, d, name) # {}
    THEN IF excl THEN Fails(s, "EXISTS")
         ELSE Then(With(Search(s, d, name), LAMBDA r : Load(r, r.node)), LAMBDA r :
              IF r.din[r.node].type = "file" THEN r ELSE RefDec(Fails(r, "EXISTS"), r.node))
    ELSE Then(CreateInode(s, "file"), LAMBDA r :
         With(DirentLink(r, d, EmptySlot(r, d), r.node, name), LAMBDA q :
              IF Ok(q) THEN [q EXCEPT !.node = r.node] ELSE RefDec(q, r.node)))

SfsCreate(s, d, name, excl) ==
    Enter(s, d, name, "EXISTS", LAMBDA r : Create(r, d, name, excl))

(* The directory branch of sfs_unlink_nolock.  The semaphore of d is held: *)
(* a directory that contains itself waits for its own semaphore.           *)
Rmdir(s, d, k, i) ==
    IF i = d THEN Panics(s, "unlink")
    ELSE Locked(s, i, LAMBDA r :
         IF r.din[i].slots # 0 THEN Fails(r, "NOTEMPTY")
         ELSE Then(DirentUnlink(r, d, k, i), LAMBDA q :
              NlinksDec(NlinksDec([q EXCEPT !.removed = @ \cup {i}], i), d)))

(* sfs_unlink_nolock                                                       *)
Unlink(s, d, name) ==
    Then(Search(s, d, name), LAMBDA r :
    Then(Load(r, r.node), LAMBDA q :
         RefDec(IF q.din[q.node].type # "dir" THEN DirentUnlink(q, d, r.slot, q.node)
                ELSE Rmdir(q, d, r.slot, q.node),
                q.node)))

SfsUnlink(s, d, name) == Enter(s, d, name, "ISDIR", LAMBDA r : Unlink(r, d, name))

(* sfs_rename1_nolock                                                      *)
Rename1(s, d, name, new) ==
    IF name = new THEN s
    ELSE Then(Search(s, d, name), LAMBDA r :
         IF Named(r, d, new) # {} THEN Fails(r, "EXISTS")
         ELSE DirentWrite(r, d, r.slot, r.node, new))

(* The part of sfs_rename2_nolock behind the removal of the old entry. If  *)
(* the new one cannot be made, the old one is written back.                *)
MoveTo(s, d, k, name, e, new, i) ==
    LET isdir == s.din[i].type = "dir"
        moved == DirentLink(s, e, EmptySlot(s, e), i, new)
    IN  IF Ok(moved)
        THEN IF isdir
             THEN With(NlinksInc(moved, e), LAMBDA r :
                       SetDin(r, i, [r.din[i] EXCEPT !.parent = e]))
             ELSE moved
        ELSE With(DirentLink([moved EXCEPT !.ret = "ok"], d, k, i, name), LAMBDA r :
                  Fails(IF Ok(r) /\ isdir THEN NlinksInc(r, d) ELSE r, moved.ret))

Rename2_ParentKept(s, d, name, e, new) ==
    Then(Search(s, d, name), LAMBDA r :
    IF Named(r, e, new) # {} THEN Fails(r, "EXISTS")
    ELSE Then(Load(r, r.node), LAMBDA q :
         RefDec(Then(DirentUnlink(q, d, r.slot, q.node), LAMBDA u :
                     DirentLink(u, e, EmptySlot(u, e), q.node, new)),
                q.node)))

(* sfs_rename2_nolock                                                      *)
Rename2(s, d, name, e, new) ==
    Then(Search(s, d, name), LAMBDA r :
    IF Named(r, e, new) # {} THEN Fails(r, "EXISTS")
    ELSE Then(Load(r, r.node), LAMBDA q :
         RefDec(Then(DirentUnlink(q, d, r.slot, q.node), LAMBDA u :
                     MoveTo(IF u.din[q.node].type = "dir" THEN NlinksDec(u, d) ELSE u,
                            d, r.slot, name, e, new, q.node)),
                q.node)))

(* sfs_rename                                                              *)
Rename(s, d, name, e, new) ==
    IF LongName \in {name, new} THEN Fails(s, "TOO_BIG")
    ELSE IF name \in Dots THEN Fails(s, "INVAL")
    ELSE IF new \in Dots THEN Fails(s, "EXISTS")
    ELSE Locked(s, d, LAMBDA r :
         IF d = e THEN Rename1(r, d, name, new)
         ELSE Locked(r, e, LAMBDA q : Rename2(q, d, name, e, new)))

-----------------------------------------------------------------------------
(* One round of sfs_lookup and sfs_lookup_parent, from the directory node. *)
Step_LeakNotdir(s, name) ==
    IF ~Ok(s) THEN s
    ELSE IF s.din[s.node].type # "dir" THEN Fails(s, "NOTDIR")
    ELSE IF name = "." THEN s
    ELSE IF name = LongName THEN RefDec(Fails(s, "TOO_BIG"), s.node)
    ELSE RefDec(IF name = ".." THEN Load(s, s.din[s.node].parent)
                ELSE Locked(s, s.node, LAMBDA r :
                     Then(Search(r, r.node, name), LAMBDA q : Load(q, q.node))),
                s.node)

Step(s, name) ==
    IF ~Ok(s) THEN s
    ELSE IF s.din[s.node].type # "dir" THEN RefDec(Fails(s, "NOTDIR"), s.node)
    ELSE IF name = "." THEN s
    ELSE IF name = LongName THEN RefDec(Fails(s, "TOO_BIG"), s.node)
    ELSE RefDec(IF name = ".." THEN Load(s, s.din[s.node].parent)
                ELSE Locked(s, s.node, LAMBDA r :
                     Then(Search(r, r.node, name), LAMBDA q : Load(q, q.node))),
                s.node)

(* vfs_get_bootfs: bootfs_node is the root of the volume.                  *)
GetBootfs(s) == [RefInc(s, RootIno) EXCEPT !.node = RootIno]

(* get_device: where a path begins.                                        *)
GetDevice(s, p, from) ==
    CASE from = "cwd" -> [RefInc(s, pwd[p]) EXCEPT !.node = pwd[p]]
      [] from = "boot" -> GetBootfs(s)
      [] from = "curfs" -> RefDec(Load(RefInc(s, pwd[p]), RootIno), pwd[p])
      [] from = "disk0" -> Load(s, RootIno)
      [] from = "null" -> [RefInc(s, Device) EXCEPT !.node = Device]
      [] OTHER -> Fails(s, "NO_DEV")

(* vfs_lookup with sfs_lookup and dev_lookup.                              *)
VfsLookup(s, p, path) ==
    Then(GetDevice(s, p, path.from), LAMBDA g :
         IF path.comps = << >> THEN g
         ELSE RefDec(IF g.node = Device THEN Fails(g, "NOENT")
                     ELSE FoldLeft(Step, RefInc(g, g.node), path.comps),
                     g.node))

(* vfs_lookup_parent with sfs_lookup_parent.                               *)
VfsLookupParent(s, p, path) ==
    Then(GetDevice(s, p, path.from), LAMBDA g :
         RefDec(IF path.comps = << >> THEN Fails(g, "INVAL")
                ELSE IF g.node = Device THEN Fails(g, "NOTDIR")
                ELSE Then(FoldLeft(Step, RefInc(g, g.node), Front(path.comps)), LAMBDA r :
                     IF r.din[r.node].type = "dir" THEN r
                     ELSE RefDec(Fails(r, "NOTDIR"), r.node)),
                g.node))

(* vfs_mkdir and vfs_unlink: look the parent up, work in it, let it go.    *)
InParent(s, p, path, Op(_, _)) ==
    Then(VfsLookupParent(s, p, path), LAMBDA r : RefDec(Op(r, r.node), r.node))

VfsMkdir(s, p, path) ==
    InParent(s, p, path, LAMBDA r, d : SfsMkdir(r, d, Last(path.comps)))

VfsUnlink(s, p, path) ==
    InParent(s, p, path, LAMBDA r, d : SfsUnlink(r, d, Last(path.comps)))

VfsLink(s, p, old, new) ==
    Then(VfsLookup(s, p, old), LAMBDA a :
         RefDec(InParent(a, p, new, LAMBDA r, d :
                    IF a.node = Device THEN Fails(r, "XDEV")
                    ELSE Link(r, d, a.node, Last(new.comps))),
                a.node))

VfsRename(s, p, old, new) ==
    Then(VfsLookupParent(s, p, old), LAMBDA a :
         RefDec(InParent(a, p, new, LAMBDA r, e :
                    Rename(r, a.node, Last(old.comps), e, Last(new.comps))),
                a.node))

(* vfs_open with sfs_opendir and dev_open; the access mode w stands for    *)
(* O_WRONLY and O_RDWR.                                                    *)
VfsOpen(s, p, path, creat, excl, w) ==
    Then(IF creat
         THEN InParent(s, p, path, LAMBDA r, d : SfsCreate(r, d, Last(path.comps), excl))
         ELSE VfsLookup(s, p, path),
         LAMBDA r : IF w /\ r.din[r.node].type = "dir" THEN RefDec(Fails(r, "ISDIR"), r.node)
                    ELSE r)

(* vfs_chdir, vfs_set_curdir                                               *)
VfsChdir(s, p, path) ==
    Then(VfsLookup(s, p, path), LAMBDA r :
         IF r.din[r.node].type # "dir" THEN RefDec(Fails(r, "NOTDIR"), r.node)
         ELSE IF r.node = pwd[p] THEN RefDec(r, r.node)
         ELSE RefDec(RefDec(RefInc(r, r.node), pwd[p]), r.node))

(* A round of sfs_namefile, up to the root: the name of the directory in   *)
(* its parent goes in front of the path.                                   *)
NamefileStep(s) ==
    LET i == s.node IN
    IF ~Ok(s) \/ i = RootIno THEN s
    ELSE Then(Load(s, s.din[i].parent), LAMBDA q :
         With(RefDec(q, i), LAMBDA r :
         LET d == r.node
             at == {k \in Slots(r, d) : Entry(r, d, k).ino = i}
         IN  IF d = i \/ r.din[d].type # "dir" THEN Panics(r, "namefile")
             ELSE IF d \in r.removed \/ at = {} THEN RefDec(Fails(r, "NOENT"), d)
             ELSE IF Len(r.path) = CwdLen THEN RefDec(Fails(r, "NO_MEM"), d)
             ELSE [r EXCEPT !.path = <<Entry(r, d, Min(at)).name>> \o @]))

(* vfs_getcwd, sfs_namefile                                                *)
Namefile(s, i) ==
    With(FoldLeft(LAMBDA r, n : NamefileStep(r), [RefInc(s, i) EXCEPT !.node = i, !.path = << >>],
                  [n \in 1 .. CwdLen + 1 |-> n]),
         LAMBDA r : IF Ok(r) THEN RefDec(r, r.node) ELSE r)

(* sfs_fstat                                                               *)
Fstat(s, i) ==
    [nlinks |-> s.din[i].nlinks, blocks |-> Len(s.din[i].blk), size |-> s.din[i].slots + 2]

(* sfs_getdirentry: "." and "..", then the used slots in order.            *)
Getdirentry(s, d, n) ==
    LET used == SelectSeq(s.din[d].blk, LAMBDA b : s.ent[b].ino # 0)
    IN  IF n >= s.din[d].slots + 2 \/ (d \in s.removed /\ n > 1) THEN "NOENT"
        ELSE IF n = 0 THEN "." ELSE IF n = 1 THEN ".."
        ELSE IF n - 1 > Len(used) THEN "NOENT"
        ELSE s.ent[used[n - 1]].name

(* What a program gets that calls getdirentry for one entry after another. *)
ReadDir(s, d) == [n \in 1 .. Fstat(s, d).size |-> Getdirentry(s, d, n - 1)]

(* sfs_sync_super, sfs_sync_freemap                                        *)
SyncSuper(s) == [s EXCEPT !.super_dirty = FALSE, !.saved = <<s.free, s.unused>>]

(* sfs_sync: every inode in memory, then super block and freemap.          *)
Sync(s) ==
    With(FoldSet(LAMBDA i, r : Fsync(r, i), s, {i \in Block : s.ref[i] > 0}), LAMBDA r :
         IF r.super_dirty THEN SyncSuper(r) ELSE r)

(* sfs_do_mount and vfs_set_bootfs on what is on the disk.                 *)
Mount(s) ==
    IF s.saved[2] # Cardinality(s.saved[1]) THEN Panics(s, "mount")
    ELSE [s EXCEPT !.free = s.saved[1], !.unused = s.saved[2], !.super_dirty = FALSE,
                   !.dirty = {}, !.removed = {},
                   !.ref = [i \in 0 .. NBlock |-> IF i = RootIno THEN 2 ELSE IF i = Device THEN 1 ELSE 0],
                   !.din = [i \in 0 .. NBlock |-> IF i \in {RootIno} THEN s.disk[RootIno]
                                                  ELSE IF i = Device THEN @[i] ELSE NoDin]]

-----------------------------------------------------------------------------
Running == tree.panic = "no"

(* A call ends with the state s; a failed assertion stops the kernel.      *)
Ends(s) ==
    tree' = IF s.ret = "panic" THEN [tree EXCEPT !.panic = s.panic]
            ELSE [s EXCEPT !.ret = "ok", !.node = 0, !.slot = 0, !.path = << >>]

Calls(p) == Running /\ pwd[p] # 0

SysMkdir(p, path) == Calls(p) /\ Ends(VfsMkdir(tree, p, path)) /\ UNCHANGED <<pwd, opened>>
SysUnlink(p, path) == Calls(p) /\ Ends(VfsUnlink(tree, p, path)) /\ UNCHANGED <<pwd, opened>>
SysLink(p, old, new) == Calls(p) /\ Ends(VfsLink(tree, p, old, new)) /\ UNCHANGED <<pwd, opened>>
SysRename(p, old, new) == Calls(p) /\ Ends(VfsRename(tree, p, old, new)) /\ UNCHANGED <<pwd, opened>>
SysGetcwd(p) == Calls(p) /\ Ends(Namefile(tree, pwd[p])) /\ UNCHANGED <<pwd, opened>>

SysChdir(p, path) ==
    /\ Calls(p)
    /\ \E s \in {VfsChdir(tree, p, path)} :
        /\ Ends(s)
        /\ pwd' = IF Ok(s) THEN [pwd EXCEPT ![p] = s.node] ELSE pwd
    /\ UNCHANGED opened

(* file_open; devices are opened and closed again here.                    *)
FileOpen(s, f) ==
    IF Ok(s) /\ s.node = Device THEN Ends(RefDec(s, Device)) /\ UNCHANGED opened
    ELSE /\ Ends(s)
         /\ opened' = IF Ok(s) THEN [opened EXCEPT ![f] = s.node] ELSE opened

SysOpen(p, f, path, creat, excl, w) ==
    /\ Calls(p) /\ opened[f] = 0
    /\ \E s \in {VfsOpen(tree, p, path, creat, excl, w)} : FileOpen(s, f)
    /\ UNCHANGED pwd

(* vfs_close: sfs_close writes the inode when its open_count becomes zero. *)
SysClose(f) ==
    LET i == opened[f] IN
    /\ Running /\ i # 0
    /\ Ends(RefDec(IF \E g \in Fd \ {f} : opened[g] = i THEN tree ELSE Fsync(tree, i), i))
    /\ opened' = [opened EXCEPT ![f] = 0]
    /\ UNCHANGED pwd

SysFsync(f) ==
    /\ Running /\ opened[f] # 0
    /\ Ends(Fsync(tree, opened[f]))
    /\ UNCHANGED <<pwd, opened>>

(* dup_fs: a child of p, or of init, begins in its parent's directory.     *)
Fork(p, from) ==
    /\ Running /\ pwd[p] = 0 /\ from # 0
    /\ Ends(RefInc(tree, from))
    /\ pwd' = [pwd EXCEPT ![p] = from]
    /\ UNCHANGED opened

(* fs_destroy                                                              *)
Exit(p) ==
    /\ Calls(p)
    /\ Ends(RefDec(tree, pwd[p]))
    /\ pwd' = [pwd EXCEPT ![p] = 0]
    /\ UNCHANGED opened

(* When all processes have quit, init_main calls fs_cleanup; the volume is *)
(* mounted again at the next start.                                        *)
Restart ==
    /\ Running /\ \A p \in Proc : pwd[p] = 0
    /\ \A f \in Fd : opened[f] = 0
    /\ Ends(Mount(Sync(tree)))
    /\ UNCHANGED <<pwd, opened>>

Next ==
    \/ \E p \in Proc :
        \/ \E path \in Path : SysMkdir(p, path) \/ SysUnlink(p, path) \/ SysChdir(p, path)
        \/ \E old, new \in Path : SysLink(p, old, new) \/ SysRename(p, old, new)
        \/ \E path \in Path, f \in Fd, creat, excl, w \in BOOLEAN :
               SysOpen(p, f, path, creat, excl, w)
        \/ SysGetcwd(p) \/ Exit(p)
        \/ \E from \in {pwd[q] : q \in Proc} \cup {RootIno} : Fork(p, from)
    \/ \E f \in Fd : SysClose(f) \/ SysFsync(f)
    \/ Restart

Spec == Init /\ [][Next]_vars

-----------------------------------------------------------------------------
(* The inode i as it is in memory or, if it is not there, on the disk.     *)
InodeOf(i) == IF tree.ref[i] > 0 THEN tree.din[i] ELSE tree.disk[i]
InUse == {i \in Block : InodeOf(i).type # "none"}
Dirs == {i \in InUse : InodeOf(i).type = "dir"}
EntryBlocks == UNION {ToSet(InodeOf(d).blk) : d \in Dirs}

(* The entries of directory d that are in use.                             *)
Entries(d) == {b \in ToSet(InodeOf(d).blk) : tree.ent[b].ino # 0}
EntriesOf(i) == {b \in EntryBlocks : tree.ent[b].ino = i}
Subdirs(d) == {b \in Entries(d) : tree.ent[b].ino \in Dirs}

(* The volume is consistent after every call, failed ones and a restart    *)
(* included: blocks are free, an inode or a directory entry; the numbers   *)
(* of links, slots and free blocks are what they count; a name appears     *)
(* once in a directory and leads to an inode in use; a directory is in its *)
(* parent, once, and a removed one is empty; and reading a directory lists *)
(* each of its names once.                                                 *)
TreeSound ==
    /\ tree.panic \in {"no", "load_inode", "namefile", "unlink"}
    /\ tree.unused = Cardinality(tree.free)
    /\ InUse \cap EntryBlocks = {} /\ tree.free \cap (InUse \cup EntryBlocks) = {}
    /\ tree.free \cup InUse \cup EntryBlocks = Block
    /\ \A i \in InUse :
        LET n == InodeOf(i) removed == i \in tree.removed IN
        /\ n.nlinks = Cardinality(EntriesOf(i)) + (IF i = RootIno THEN 1 ELSE 0)
                      + IF i \in Dirs /\ ~removed THEN 1 + Cardinality(Subdirs(i)) ELSE 0
        /\ n.nlinks = 0 => tree.ref[i] > 0
        /\ i \in Dirs =>
            /\ n.slots = Cardinality(Entries(i))
            /\ \A b, c \in Entries(i) : b # c => tree.ent[b].name # tree.ent[c].name
            /\ \A b \in Entries(i) : tree.ent[b].ino \in InUse
            /\ removed => n.slots = 0 /\ EntriesOf(i) = {}
            /\ ~removed /\ i # RootIno =>
                \E b \in Entries(n.parent) : EntriesOf(i) = {b}
    /\ \A i \in Dirs : tree.ref[i] > 0 =>
        /\ IsInjective(ReadDir(tree, i))
        /\ ToSet(ReadDir(tree, i)) = Dots \cup {tree.ent[b].name : b \in Entries(i)}

(* Every path through the calls gives back the references it takes: an     *)
(* inode is in memory exactly as long as a process works in it or has it   *)
(* open.                                                                   *)
RefsExact ==
    \A i \in Block :
        tree.ref[i] = Cardinality({p \in Proc : pwd[p] = i})
                      + Cardinality({f \in Fd : opened[f] = i}) + IF i = RootIno THEN 2 ELSE 0

(* The inodes that some path from the root leads to.                       *)
Reachable ==
    FoldLeft(LAMBDA r, n : r \cup {tree.ent[b].ino : b \in UNION {Entries(d) : d \in r \cap Dirs}},
             {RootIno}, [n \in Block |-> n])

(* getcwd and chdir agree: in a directory that has a path, getcwd finds it *)
(* if it fits the buffer, whatever was renamed or removed in between; and  *)
(* what getcwd returns leads back to the directory it was asked for.       *)
CwdNamed ==
    \A p \in Proc : Calls(p) =>
        LET r == Namefile(tree, pwd[p])
        IN  /\ pwd[p] \in Reachable => r.ret \in {"ok", "NO_MEM"}
            /\ Ok(r) => VfsLookup(tree, p, [from |-> "disk0", comps |-> r.path]).node = pwd[p]

(* The assertion of sfs_load_inode: an inode is only loaded from a block   *)
(* in use.                                                                 *)
LoadsInUse == tree.panic # "load_inode"
=============================================================================
