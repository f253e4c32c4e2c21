-------------------------------- MODULE Files --------------------------------
(***************************************************************************)
(* File tables and pipes of kern-ucore (fs/fs.c, fs/file.c, fs/sysfile.c,  *)
(* fs/pipe/pipe_state.c, fs/pipe/pipe_inode.c, vfs/inode.c): threads that  *)
(* share a file table read, write, duplicate and close the two ends of a   *)
(* pipe, fork, are killed and exit.                                        *)
(*                                                                         *)
(* A read or write gives the CPU away only in pipe_state_wait; everything  *)
(* up to there is one step, the loops of sysfile_read and sysfile_write    *)
(* included, which look the descriptor up again for each part.  The bytes  *)
(* in the pipe are counted: size is p_wpos - p_rpos.  ref_count of a pipe  *)
(* inode always equals its open_count here and is not kept separately.     *)
(* One pipe exists at a time.                                              *)
(***************************************************************************)
EXTENDS Integers, FiniteSets, FiniteSetTheorems

CONSTANTS
    Thread, Fs,     \* threads and file tables (struct fs_struct)
    Fd, Std,        \* descriptors; Std: those that exec keeps (0 and 1)
    BufSize,        \* PIPE_BUFSIZE
    MaxLen,         \* bound on the length of a read or write
    NoFs, NoFd      \* the thread does not exist, is in no system call

FilesAssumption ==
    /\ IsFiniteSet(Thread) /\ IsFiniteSet(Fs) /\ IsFiniteSet(Fd)
    /\ BufSize \in Nat \ {0} /\ MaxLen \in Nat
    /\ NoFs \notin Fs /\ NoFd \notin Fd

End == {"r", "w"}

VARIABLES
    fs,      \* proc->fs_struct
    slot,    \* fs_struct->filemap: status, end of the pipe, open_count
    pipe,    \* struct pipe_state, with the open_count of its two inodes
    wait,    \* pipe_state_wait: not in it, asleep, or woken (wakeup_flags)
    op,      \* system call in progress: what is left, whether a part is written
    killed   \* threads with PF_EXITING

vars == <<fs, slot, pipe, wait, op, killed>>

None == [status |-> "NONE", end |-> "r", count |-> 0]
Idle == [call |-> "none", fd |-> NoFd, left |-> 0, part |-> FALSE]
NoPipe == [size |-> 0, isclosed |-> FALSE, ref_count |-> 0, open |-> [e \in End |-> 0],
           reader_queue |-> {}, writer_queue |-> {}]

Files == [Fs -> [Fd -> [status : {"NONE", "OPENED", "CLOSED"}, end : End, count : Nat]]]
Pipes == [size : 0 .. BufSize, isclosed : BOOLEAN, ref_count : 0 .. 2, open : [End -> Nat],
          reader_queue : SUBSET Thread, writer_queue : SUBSET Thread]
Ops == [call : {"none", "r", "w"}, fd : Fd \cup {NoFd}, left : 0 .. MaxLen, part : BOOLEAN]

TypeOK ==
    /\ fs \in [Thread -> Fs \cup {NoFs}]
    /\ slot \in Files /\ pipe \in Pipes
    /\ wait \in [Thread -> {"no", "asleep", "PIPE", "INTERRUPTED"}]
    /\ op \in [Thread -> Ops]
    /\ killed \in SUBSET Thread

Init ==
    \E t \in Thread, f \in Fs :
        /\ fs = [u \in Thread |-> IF u = t THEN f ELSE NoFs]
        /\ slot = [g \in Fs |-> [d \in Fd |-> None]]
        /\ pipe = NoPipe
        /\ wait = [u \in Thread |-> "no"]
        /\ op = [u \in Thread |-> Idle]
        /\ killed = {}

-----------------------------------------------------------------------------
(* The operators below take and return the part of the state that the      *)
(* kernel's nested calls change: the slots, the pipe and its waiters.      *)
Here == [slot |-> slot, pipe |-> pipe, wait |-> wait]

Become(s) == slot' = s.slot /\ pipe' = s.pipe /\ wait' = s.wait

Woken(s, queue) == [t \in Thread |-> IF t \in queue THEN "PIPE" ELSE s.wait[t]]

WakeupReader(s) ==
    [s EXCEPT !.wait = Woken(s, s.pipe.reader_queue), !.pipe.reader_queue = {}]

WakeupWriter(s) ==
    [s EXCEPT !.wait = Woken(s, s.pipe.writer_queue), !.pipe.writer_queue = {}]

PipeStateClose(s) == WakeupWriter(WakeupReader([s EXCEPT !.pipe.isclosed = TRUE]))

(* vfs_close, n[e] times for each end: the last close of an end closes the *)
(* pipe and reclaims the inode, and with the second inode goes the pipe    *)
(* itself.                                                                 *)
VfsClose(s, n) ==
    LET s1 == [s EXCEPT !.pipe.open = [e \in End |-> s.pipe.open[e] - n[e]]]
        last == {e \in End : n[e] > 0 /\ s.pipe.open[e] = n[e]}
        s2 == PipeStateClose(s1)
    IN  IF last = {} THEN s1
        ELSE IF s.pipe.ref_count = Cardinality(last) THEN [s2 EXCEPT !.pipe = NoPipe]
        ELSE [s2 EXCEPT !.pipe.ref_count = @ - Cardinality(last)]

(* filemap_release, and the second half of filemap_close, of each of the   *)
(* descriptors ds of a table.                                              *)
FilemapRelease(s, f, ds) ==
    LET freed == {d \in ds : s.slot[f][d].count = 1}
        file(d) == IF d \in freed THEN None
                   ELSE [s.slot[f][d] EXCEPT !.count = IF d \in ds THEN @ - 1 ELSE @]
    IN  VfsClose([s EXCEPT !.slot[f] = [d \in Fd |-> file(d)]],
                 [e \in End |-> Cardinality({d \in freed : s.slot[f][d].end = e})])

Shut(s, f, ds) ==
    [s EXCEPT !.slot[f] = [d \in Fd |-> IF d \in ds THEN [s.slot[f][d] EXCEPT !.status = "CLOSED"]
                                        ELSE s.slot[f][d]]]

(* Bug: the slot is freed although another thread is inside.               *)
Close_Free(s, f, ds) ==
    VfsClose([s EXCEPT !.slot[f] = [d \in Fd |-> IF d \in ds THEN None ELSE s.slot[f][d]]],
             [e \in End |-> Cardinality({d \in ds : s.slot[f][d].end = e})])

FilemapClose(s, f, ds) == FilemapRelease(Shut(s, f, ds), f, ds)

FilemapAcquire(s, f, d) == [s EXCEPT !.slot[f][d].count = @ + 1]

(* The loops of fs_closeall and fs_destroy.  In which order they close the *)
(* descriptors makes no difference.                                        *)
CloseAll(s, f, ds) == FilemapClose(s, f, {d \in ds : s.slot[f][d].status = "OPENED"})

-----------------------------------------------------------------------------
(* The body of pipe_state_read and pipe_state_write.                       *)

Lesser(m, n) == IF m < n THEN m ELSE n

Room_AtLeastOne(s) == IF s.pipe.size = BufSize THEN 1 ELSE BufSize - s.pipe.size

(* What is_full leaves to a writer.                                        *)
Room(s) == BufSize - s.pipe.size

Read_NoWake(s, n) == [s EXCEPT !.pipe.size = @ - n]

(* Take n bytes out of the pipe.                                           *)
ReadBytes(s, n) ==
    IF n = 0 THEN s ELSE WakeupWriter([s EXCEPT !.pipe.size = @ - n])

(* Put n bytes into the pipe.                                              *)
WriteBytes(s, n) == WakeupReader([s EXCEPT !.pipe.size = @ + n])

Leave(t, s) ==
    /\ Become(s)
    /\ op' = [op EXCEPT ![t] = Idle]

(* pipe_state_wait, before and after it slept.                             *)
SleepIn(s, t, e) ==
    IF e = "r" THEN [s EXCEPT !.wait[t] = "asleep", !.pipe.reader_queue = @ \cup {t}]
    ELSE [s EXCEPT !.wait[t] = "asleep", !.pipe.writer_queue = @ \cup {t}]

WaitDel(s, t, e) ==
    IF e = "r" THEN [s EXCEPT !.wait[t] = "no", !.pipe.reader_queue = @ \ {t}]
    ELSE [s EXCEPT !.wait[t] = "no", !.pipe.writer_queue = @ \ {t}]

WaitFor(t, s, d, e, left, part) ==
    /\ Become(SleepIn(s, t, e))
    /\ op' = [op EXCEPT ![t] = [call |-> e, fd |-> d, left |-> left, part |-> part]]

(* sysfile_read from file_read on: take what there is, and wait if that    *)
(* was not enough.                                                         *)
Read(t, s, d, left) ==
    LET f == fs[t]
        got == Lesser(left, s.pipe.size)
        s1 == ReadBytes(s, got)
    IN  IF s.slot[f][d].status # "OPENED" THEN Leave(t, s)
        ELSE IF left = got \/ s.pipe.isclosed THEN Leave(t, s1)
        ELSE WaitFor(t, FilemapAcquire(s1, f, d), d, "r", left - got, FALSE)

(* sysfile_write from file_write on.                                       *)
Write(t, s, d, left) ==
    LET f == fs[t]
        put == Lesser(left, Room(s))
        s1 == WriteBytes(s, put)
    IN  IF s.slot[f][d].status # "OPENED" \/ s.pipe.isclosed THEN Leave(t, s)
        ELSE IF left = put THEN Leave(t, s1)
        ELSE WaitFor(t, FilemapAcquire(s1, f, d), d, "w", left - put, put > 0)

Calls(t) == fs[t] # NoFs /\ op[t] = Idle /\ t \notin killed

Opened(t, d) == slot[fs[t]][d].status = "OPENED"

SysfileRead(t, d, len) ==
    /\ Calls(t) /\ Opened(t, d) /\ slot[fs[t]][d].end = "r"
    /\ Read(t, Here, d, len)
    /\ UNCHANGED <<fs, killed>>

SysfileWrite(t, d, len) ==
    /\ Calls(t) /\ Opened(t, d) /\ slot[fs[t]][d].end = "w"
    /\ Write(t, Here, d, len)
    /\ UNCHANGED <<fs, killed>>

(* After pipe_state_wait: wait_current_del, then the loop goes on.  The    *)
(* return from file_read releases the slot, which closes it for good if    *)
(* another thread has closed the descriptor meanwhile.                     *)
ResumeRead(t) ==
    LET f == fs[t] d == op[t].fd left == op[t].left
        s == WaitDel(Here, t, "r")
        got == Lesser(left, s.pipe.size)
        released == FilemapRelease(ReadBytes(s, got), f, {d})
    IN  /\ op[t].call = "r" /\ wait[t] \in {"PIPE", "INTERRUPTED"}
        /\ IF wait[t] = "INTERRUPTED" THEN Leave(t, FilemapRelease(s, f, {d}))
           ELSE IF got = 0 /\ ~s.pipe.isclosed THEN WaitFor(t, s, d, "r", left, FALSE)
           ELSE IF got = 0 \/ got = left THEN Leave(t, released)
           ELSE Read(t, released, d, left - got)
        /\ UNCHANGED <<fs, killed>>

(* The same for a write.  An interrupted write that has written a part     *)
(* returns that part to sysfile_write, which goes on with the rest.        *)
ResumeWrite(t) ==
    LET f == fs[t] d == op[t].fd left == op[t].left
        s == WaitDel(Here, t, "w")
        put == Lesser(left, Room(s))
        s1 == WriteBytes(s, put)
    IN  /\ op[t].call = "w" /\ wait[t] \in {"PIPE", "INTERRUPTED"}
        /\ IF wait[t] = "INTERRUPTED" /\ op[t].part
           THEN Write(t, FilemapRelease(s, f, {d}), d, left)
           ELSE IF wait[t] = "INTERRUPTED" \/ s.pipe.isclosed
           THEN Leave(t, FilemapRelease(s, f, {d}))
           ELSE IF put = left THEN Leave(t, FilemapRelease(s1, f, {d}))
           ELSE WaitFor(t, s1, d, "w", left - put, op[t].part \/ put > 0)
        /\ UNCHANGED <<fs, killed>>

-----------------------------------------------------------------------------
(* file_pipe: which free slots filemap_alloc takes does not matter.        *)
FilePipe(t, d1, d2) ==
    /\ Calls(t) /\ pipe.ref_count = 0 /\ d1 # d2
    /\ \A d \in {d1, d2} : slot[fs[t]][d] = None
    /\ slot' = [slot EXCEPT ![fs[t]][d1] = [status |-> "OPENED", end |-> "r", count |-> 1],
                            ![fs[t]][d2] = [status |-> "OPENED", end |-> "w", count |-> 1]]
    /\ pipe' = [NoPipe EXCEPT !.ref_count = 2, !.open = [e \in End |-> 1]]
    /\ UNCHANGED <<fs, wait, op, killed>>

(* file_dup                                                                *)
FileDup(t, d1, d2) ==
    LET e == slot[fs[t]][d1].end IN
    /\ Calls(t) /\ Opened(t, d1) /\ slot[fs[t]][d2] = None
    /\ slot' = [slot EXCEPT ![fs[t]][d2] = [status |-> "OPENED", end |-> e, count |-> 1]]
    /\ pipe' = [pipe EXCEPT !.open[e] = @ + 1]
    /\ UNCHANGED <<fs, wait, op, killed>>

(* file_close: another thread may be inside a read or write of the slot.   *)
FileClose(t, d) ==
    /\ Calls(t) /\ Opened(t, d)
    /\ Become(FilemapClose(Here, fs[t], {d}))
    /\ UNCHANGED <<fs, op, killed>>

(* copy_fs with CLONE_FS: the new thread shares the file table.            *)
CloneFs(t, u) ==
    /\ Calls(t) /\ fs[u] = NoFs
    /\ fs' = [fs EXCEPT ![u] = fs[t]]
    /\ UNCHANGED <<slot, pipe, wait, op, killed>>

(* copy_fs without: dup_fs copies the open descriptors.                    *)
CopyFs(t, u, g) ==
    LET copied(e) == {d \in Fd : Opened(t, d) /\ slot[fs[t]][d].end = e} IN
    /\ Calls(t) /\ fs[u] = NoFs /\ \A v \in Thread : fs[v] # g
    /\ fs' = [fs EXCEPT ![u] = g]
    /\ slot' = [slot EXCEPT ![g] = [d \in Fd |->
                  IF Opened(t, d) THEN [slot[fs[t]][d] EXCEPT !.count = 1] ELSE None]]
    /\ pipe' = [pipe EXCEPT !.open = [e \in End |-> pipe.open[e] + Cardinality(copied(e))]]
    /\ UNCHANGED <<wait, op, killed>>

(* do_execve: fs_closeall, for every thread that shares the table.         *)
Execve(t) ==
    /\ Calls(t)
    /\ Become(CloseAll(Here, fs[t], Fd \ Std))
    /\ UNCHANGED <<fs, op, killed>>

(* __do_exit: put_fs, and fs_destroy by the last thread.                   *)
Exit(t) ==
    /\ fs[t] # NoFs /\ op[t] = Idle
    /\ IF \E u \in Thread \ {t} : fs[u] = fs[t]
       THEN UNCHANGED <<slot, pipe, wait>>
       ELSE Become(CloseAll(Here, fs[t], Fd))
    /\ fs' = [fs EXCEPT ![t] = NoFs]
    /\ killed' = killed \ {t}
    /\ UNCHANGED op

(* __do_kill: WT_PIPE is interruptible; the thread stays in the queue.     *)
Kill(t) ==
    /\ fs[t] # NoFs /\ t \notin killed
    /\ killed' = killed \cup {t}
    /\ wait' = [wait EXCEPT ![t] = IF @ = "asleep" THEN "INTERRUPTED" ELSE @]
    /\ UNCHANGED <<fs, slot, pipe, op>>

(* Most steps begin in user mode; Calls is repeated here so that it is     *)
(* looked at once.                                                         *)
Next ==
    \E t \in Thread :
        \/ /\ Calls(t)
           /\ \/ \E d \in Fd, len \in 1 .. MaxLen : SysfileRead(t, d, len) \/ SysfileWrite(t, d, len)
              \/ \E d1, d2 \in Fd : FilePipe(t, d1, d2) \/ FileDup(t, d1, d2)
              \/ \E d \in Fd : FileClose(t, d)
              \/ \E u \in Thread : CloneFs(t, u) \/ \E g \in Fs : CopyFs(t, u, g)
              \/ Execve(t)
        \/ ResumeRead(t) \/ ResumeWrite(t)
        \/ Exit(t) \/ Kill(t)

Spec == Init /\ [][Next]_vars

-----------------------------------------------------------------------------
(* No lost wake-up: a thread sleeps in a read only while the pipe is empty *)
(* and open, and in a write only while it is full and open.                *)
NoPipeWaiterStuck ==
    \A t \in Thread : wait[t] = "asleep" =>
        ~pipe.isclosed /\ pipe.size = IF op[t].call = "r" THEN 0 ELSE BufSize

(* close() of a descriptor another thread is blocked on: the slot is not   *)
(* given away, the inode and the pipe are not freed, before that thread    *)
(* has left.                                                               *)
KeptWhileUsed ==
    \A t \in Thread : op[t] # Idle =>
        LET file == slot[fs[t]][op[t].fd]
        IN  file.status # "NONE" /\ file.end = op[t].call /\ pipe.open[op[t].call] > 0

-----------------------------------------------------------------------------
(* The inductive invariant is stated of the tables p that threads have, of *)
(* the part s of the state that the operators above change and of the      *)
(* system calls o in progress, so that it can be followed through a step.  *)
(* In the middle of one, slots in extra count a thread that is not, or no  *)
(* longer, in o.                                                           *)
Parts == [slot : Files, pipe : Pipes, wait : [Thread -> {"no", "asleep", "PIPE", "INTERRUPTED"}]]

In(p, o, f, d) == {t \in Thread : p[t] = f /\ o[t] # Idle /\ o[t].fd = d}
Users(s, e) == {x \in Fs \X Fd : s.slot[x[1]][x[2]].count > 0 /\ s.slot[x[1]][x[2]].end = e}
OpenEnds(s) == {e \in End : s.pipe.open[e] > 0}

Slots(f, ds) == {f} \X ds

(* Every count is what it counts, so that the last one out closes: slots   *)
(* count their table and the threads inside ...                            *)
Counted(p, s, o, extra) ==
    \A f \in Fs, d \in Fd :
        /\ s.slot[f][d].count = Cardinality(In(p, o, f, d))
                                  + (IF s.slot[f][d].status = "OPENED" THEN 1 ELSE 0)
                                  + (IF <<f, d>> \in extra THEN 1 ELSE 0)
        /\ s.slot[f][d].status = "NONE" <=> s.slot[f][d].count = 0

(* ... inodes the slots, and the pipe its inodes.                          *)
Referenced(s) ==
    /\ \A e \in End : s.pipe.open[e] = Cardinality(Users(s, e))
    /\ s.pipe.ref_count = Cardinality(OpenEnds(s))

(* A call is on a slot of the caller's table and of its end of the pipe,   *)
(* and a table without threads is empty.                                   *)
OwnTables(p, s, o) ==
    /\ \A t \in Thread : o[t] # Idle =>
         /\ p[t] \in Fs /\ o[t].fd \in Fd /\ o[t].call \in End /\ o[t].left > 0
         /\ s.slot[p[t]][o[t].fd].end = o[t].call
    /\ \A f \in Fs, d \in Fd : s.slot[f][d].status # "NONE" => \E t \in Thread : p[t] = f

(* Whoever is in a call is in pipe_state_wait; whoever sleeps there is     *)
(* queued, and the pipe is open and has nothing for it.                    *)
Blocked(s, o) ==
    \A t \in Thread :
        /\ s.wait[t] = "no" <=> o[t] = Idle
        /\ t \in s.pipe.reader_queue => o[t].call = "r"
        /\ t \in s.pipe.writer_queue => o[t].call = "w"
        /\ s.wait[t] = "asleep" =>
              /\ ~s.pipe.isclosed
              /\ o[t].call = "r" => s.pipe.size = 0 /\ t \in s.pipe.reader_queue
              /\ o[t].call # "r" => s.pipe.size = BufSize /\ t \in s.pipe.writer_queue

Good(p, s, o, extra) ==
    /\ p \in [Thread -> Fs \cup {NoFs}] /\ s \in Parts /\ o \in [Thread -> Ops]
    /\ Counted(p, s, o, extra) /\ Referenced(s) /\ OwnTables(p, s, o) /\ Blocked(s, o)

IndInv == Good(fs, Here, op, {}) /\ killed \in SUBSET Thread
=============================================================================
