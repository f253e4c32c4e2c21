----------------------------- MODULE MCStorage -----------------------------
(***************************************************************************)
(* Storage and devices, one unit per behaviour: the files of sfs and its   *)
(* names, the devices and volumes of the virtual file system, the          *)
(* transfers of the disk driver, of the block bitmap and of the boot       *)
(* loader, the images that mksfs writes, the device files (Devices, whose  *)
(* names stay as they are), and the console below them.  The units meet    *)
(* only through the contracts their properties state, so the others rest   *)
(* in their initial states.                                                *)
(***************************************************************************)
EXTENDS Devices, TLC

CONSTANTS
    Units,                                            \* the units that run
    Inode, Root, Desc, NBlock, NDirect, NEntry, BlkSize, MaxSize, MaxSlots, NoInode   \* of SfsFile

VARIABLES
    unit,
    freemap, unused, entries, din, saved, slots, desc, panic, lost, short, leaked,
    tree, pwd, opened,
    dev, io, map, boot, img,
    inp, scr

sfsVars == <<freemap, unused, entries, din, saved, slots, desc, panic, lost, short, leaked>>
treeVars == <<tree, pwd, opened>>
diskVars == <<dev, io, map, boot, img>>
consVars == <<inp, scr>>

From(from, comps) == [from |-> from, comps |-> comps]
Paths == {From("cwd", <<"a">>), From("cwd", <<"..">>), From("cwd", <<".", "b">>),
          From("boot", <<"a", "b">>), From("curfs", <<"a">>), From("null", << >>),
          From("disk0", <<"long", "a">>)}
F == INSTANCE SfsFile
T == INSTANCE SfsTree WITH
    NBlock <- 5, Proc <- {"p1"}, Fd <- {"f1"}, Path <- Paths, LongName <- "long", CwdLen <- 3

V == INSTANCE VfsDev WITH
    DevName <- {"null", "disk0", "disk1"}, BlockDev <- {"disk0", "disk1"}, MaxDev <- 4,
    MaxInodes <- 2, NoFs <- "nofs"
D == INSTANCE DiskIo WITH
    NSect <- 6, BlkSect <- 2, BufBlks <- 2, Byte <- 2, Nibble <- 2, WordBits <- 3, NBits <- 7, Value <- {0, 1}
I == INSTANCE Mksfs WITH
    NBlock <- 20, BlkBits <- 7, NDirect <- 1, NEntry <- 2, MaxFileBlks <- 6, Real <- 1..3,
    Name <- {"a", "b", "dot"}, Hidden <- {"dot"}
C == INSTANCE Console WITH
    ConsBufSize <- 2, MaxBytes <- 2, Key <- {"a", "lshift", "rshift", "rctl", "del"},
    MaxHeld <- 2, Rows <- 2, Cols <- 2, BufSize <- 3, MaxPos <- 7

StorageInit ==
    /\ unit \in Units
    /\ Init /\ F!Init /\ T!Init /\ V!Init /\ D!Init /\ I!Init /\ C!InitIn /\ C!InitOut

StorageNext ==
    /\ UNCHANGED unit
    /\ \/ unit = "sfs" /\ F!Next /\ UNCHANGED <<vars, treeVars, diskVars, consVars>>
       \/ unit = "tree" /\ T!Next /\ UNCHANGED <<vars, sfsVars, diskVars, consVars>>
       \/ /\ \/ unit = "dev" /\ V!Next /\ UNCHANGED <<io, map, boot, img>>
             \/ unit = "io" /\ D!NextIo /\ UNCHANGED <<dev, map, boot, img>>
             \/ unit = "map" /\ D!NextMap /\ UNCHANGED <<dev, io, boot, img>>
             \/ unit = "boot" /\ D!NextBoot /\ UNCHANGED <<dev, io, map, img>>
             \/ unit = "image" /\ I!Next /\ UNCHANGED <<dev, io, map, boot>>
          /\ UNCHANGED <<vars, sfsVars, treeVars, consVars>>
       \/ unit = "stdin" /\ KbdNext /\ UNCHANGED <<sfsVars, treeVars, diskVars, consVars>>
       \/ unit = "devfiles" /\ FileNext /\ UNCHANGED <<sfsVars, treeVars, diskVars, consVars>>
       \/ unit = "keys" /\ C!NextIn /\ UNCHANGED <<vars, sfsVars, treeVars, diskVars, scr>>
       \/ unit = "screen" /\ C!NextOut /\ UNCHANGED <<vars, sfsVars, treeVars, diskVars, inp>>

StorageSpec ==
    StorageInit /\ [][StorageNext]_<<unit, vars, sfsVars, treeVars, diskVars, consVars>>

Symmetry == Permutations(Desc)

-----------------------------------------------------------------------------
(* Of SfsFile: blocks are not shared, none leaks but those of an inode     *)
(* that lost them, files have no holes and the blocks their size needs     *)
(* unless the disk was full, and the assertion of sfs_truncfile can fail   *)
(* only then.                                                              *)
SfsSound == unit = "sfs" =>
    F!TypeOK /\ F!BlocksUnshared /\ F!BlocksAccounted /\ F!FileDense /\ F!FileSized

(* Of SfsTree: the volume is consistent; references are given back and     *)
(* getcwd agrees with chdir.                                               *)
TreeSound == unit = "tree" => T!TreeSound /\ T!RefsExact /\ T!CwdNamed

(* Of SfsTree: the assertion of sfs_load_inode that the block of an inode  *)
(* it loads is in use.                                                     *)
LoadsInUse == T!LoadsInUse

(* Of VfsDev and DiskIo: volumes are mounted once and their inodes found   *)
(* again; transfers, the bitmap and the loaded segments are exact.         *)
DriversSound ==
    /\ unit = "dev" => V!DevicesSound
    /\ unit = "io" => D!TransferExact
    /\ unit = "map" => D!BitmapExact
    /\ unit = "boot" => D!BootExact

(* Of Mksfs: the image that mksfs writes is one the kernel can mount:      *)
(* every inode and block is owned once and marked in the freemap, and      *)
(* links and entries agree with the tree of host files.                    *)
ImageSound == unit = "image" => I!ImageSound

(* Of Console: the ring holds the latest keys in order, a modifier is on   *)
(* only while its key is down, and the screen is the end of the paper,     *)
(* with the line that readline edits on it.                                *)
ConsoleSound ==
    /\ unit = "keys" => C!KeysSound
    /\ unit = "screen" => C!ScreenSound
=============================================================================
