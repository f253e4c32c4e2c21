------------------------------- MODULE VfsDev -------------------------------
(***************************************************************************)
(* The table of named devices of kern-ucore (fs/vfs/vfsdev.c) and the      *)
(* devices behind it (fs/pipe/pipe.c, sfs_mount, sfs_unmount, fs_init):    *)
(* what the prefix of a path names, mounting and unmounting.               *)
(*                                                                         *)
(* After the fixed part of fs_init any caller may add, mount and unmount;  *)
(* in this build only fs_init does.  A file system is a record of what     *)
(* holds it: the inodes in memory, and whether its super block is dirty.   *)
(***************************************************************************)
EXTENDS Naturals, Sequences, FiniteSets

CONSTANTS
    DevName,     \* names of devices, short enough
    BlockDev,        \* those among them that are block devices with an sfs volume
    MaxDev, MaxInodes,
    NoFs

VARIABLE dev     \* vdev_list and the state of the volumes

NoNode == "none"

(* A call in progress would hold vdev_list_sem; every call is one step.    *)
Init ==
    dev = [vdev_list |-> << >>,
           inodes |-> [n \in BlockDev |-> 0],         \* sfs->inode_list
           super_dirty |-> [n \in BlockDev |-> FALSE]]

-----------------------------------------------------------------------------
Names == {dev.vdev_list[k].devname : k \in DOMAIN dev.vdev_list}

Add_NoConflict(name, node, fs, mountable) ==
    /\ Len(dev.vdev_list) < MaxDev
    /\ dev' = [dev EXCEPT !.vdev_list =
                <<[devname |-> name, devnode |-> node, fs |-> fs, mountable |-> mountable]>> \o @]

(* vfs_do_add, check_devname_conflict: -E_EXISTS leaves the list alone.    *)
Add(name, node, fs, mountable) ==
    /\ Len(dev.vdev_list) < MaxDev
    /\ name \notin Names
    /\ dev' = [dev EXCEPT !.vdev_list =
                <<[devname |-> name, devnode |-> node, fs |-> fs, mountable |-> mountable]>> \o @]

(* dev_init_null, dev_init_stdin, dev_init_stdout                          *)
AddDev(name) == name \notin BlockDev /\ Add(name, "device", NoFs, FALSE)

(* dev_init_disk0                                                          *)
AddDisk(name) == name \in BlockDev /\ Add(name, "device", NoFs, TRUE)

(* pipe_init, vfs_add_fs: a file system without a device.                  *)
AddFs(name) == name \notin BlockDev /\ Add(name, NoNode, "pipe", FALSE)

(* The first entry in the list with this name, as vfs_get_root and         *)
(* find_mount meet it.                                                     *)
Find(name, mountable) ==
    {k \in DOMAIN dev.vdev_list :
        /\ dev.vdev_list[k].devname = name
        /\ mountable => dev.vdev_list[k].mountable}

First(S) == CHOOSE k \in S : \A j \in S : k <= j

(* vfs_get_root: the root of the file system, the device itself, or an     *)
(* error.                                                                  *)
GetRoot(name) ==
    IF Find(name, FALSE) = {} THEN "NO_DEV"
    ELSE LET v == dev.vdev_list[First(Find(name, FALSE))]
         IN  IF v.fs # NoFs THEN v.fs ELSE IF ~v.mountable THEN v.devnode ELSE "NA_DEV"

(* vfs_get_devname                                                         *)
GetDevname(fs) == {k \in DOMAIN dev.vdev_list : dev.vdev_list[k].fs = fs}

(* vfs_mount with sfs_do_mount: E_NO_DEV, E_BUSY or a mounted volume.      *)
Mount(name) ==
    /\ Find(name, TRUE) # {}
    /\ LET k == First(Find(name, TRUE)) IN
        /\ dev.vdev_list[k].fs = NoFs
        /\ dev' = [dev EXCEPT !.vdev_list[k].fs = name, !.super_dirty[name] = FALSE]

(* fsop_sync, then fsop_unmount: sfs_unmount refuses while inode_list is   *)
(* not empty, pipe_unmount always.                                         *)
Dropped_Unasked(d, k) ==
    LET fs == d.vdev_list[k].fs IN
    [d EXCEPT !.vdev_list[k].fs = NoFs, !.super_dirty[fs] = FALSE]

Dropped(d, k) ==
    LET fs == d.vdev_list[k].fs
        synced == [d EXCEPT !.super_dirty[fs] = FALSE]
    IN  IF d.inodes[fs] > 0 THEN synced ELSE [synced EXCEPT !.vdev_list[k].fs = NoFs]

(* vfs_unmount                                                             *)
Unmount(name) ==
    /\ Find(name, TRUE) # {}
    /\ LET k == First(Find(name, TRUE)) IN
        /\ dev.vdev_list[k].fs # NoFs
        /\ dev' = Dropped(dev, k)

(* vfs_unmount_all                                                         *)
UnmountAll ==
    LET mounted == {k \in DOMAIN dev.vdev_list :
                        dev.vdev_list[k].mountable /\ dev.vdev_list[k].fs # NoFs}
    IN  /\ mounted # {}
        /\ dev' = [dev EXCEPT
                    !.vdev_list = [k \in DOMAIN @ |->
                        IF k \in mounted THEN Dropped(dev, k).vdev_list[k] ELSE @[k]],
                    !.super_dirty = [n \in BlockDev |->
                        @[n] /\ \A k \in mounted : dev.vdev_list[k].fs # n]]

(* vfs_sync, vfs_cleanup                                                   *)
Sync == dev' = [dev EXCEPT !.super_dirty = [n \in BlockDev |-> @[n] /\ GetDevname(n) = {}]]

(* A path on the volume is looked up, and changes it; later the inode goes *)
(* out of memory again.                                                    *)
Use(name) ==
    /\ name \in BlockDev /\ GetRoot(name) = name /\ dev.inodes[name] < MaxInodes
    /\ dev' = [dev EXCEPT !.inodes[name] = @ + 1, !.super_dirty[name] = TRUE]

Release(name) ==
    /\ name \in BlockDev /\ dev.inodes[name] > 0
    /\ dev' = [dev EXCEPT !.inodes[name] = @ - 1]

Next ==
    \/ \E name \in DevName : AddDev(name) \/ AddDisk(name) \/ AddFs(name) \/ Mount(name)
                             \/ Unmount(name) \/ Use(name) \/ Release(name)
    \/ UnmountAll \/ Sync

Spec == Init /\ [][Next]_dev

-----------------------------------------------------------------------------
(* A name means one thing, and goes on meaning it while it is used: names  *)
(* are unique; a volume is mounted on its own device only; with an inode   *)
(* of it in memory it stays mounted, whatever is unmounted; and an         *)
(* unmounted volume has been written.                                      *)
DevicesSound ==
    /\ \A j, k \in DOMAIN dev.vdev_list :
        dev.vdev_list[j].devname = dev.vdev_list[k].devname => j = k
    /\ \A n \in BlockDev :
        /\ Cardinality(GetDevname(n)) <= 1
        /\ dev.inodes[n] > 0 => GetRoot(n) = n
        /\ GetRoot(n) # n => ~dev.super_dirty[n]
=============================================================================
