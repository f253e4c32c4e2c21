------------------------------- MODULE Devices -------------------------------
(***************************************************************************)
(* Character devices and named pipes of kern-ucore (fs/devs/dev.c,         *)
(* dev_stdin.c, dev_stdout.c, dev_null.c, fs/pipe/pipe_root.c,             *)
(* pipe_inode.c, file_mkfifo): the keyboard ring with its sleeping         *)
(* readers, the two inodes of a named pipe with the pipe they share, and   *)
(* the flags an open of a device accepts.                                  *)
(*                                                                         *)
(* Reading and writing a pipe is in Files.  A call gives the CPU away only *)
(* in the schedule of dev_stdin_read; key presses arrive from the console  *)
(* interrupt.  The keys are numbered in the order they are pressed.        *)
(***************************************************************************)
EXTENDS Integers, Sequences, FiniteSets, FiniteSetTheorems, SequenceTheorems, TLAPS

CONSTANTS
    Thread, PName, Fd,
    BufSize,     \* STDIN_BUFSIZE
    MaxLen,      \* bound on the length of a read
    MaxKeys      \* bound on the keys pressed

ASSUME DevicesAssumption ==
    /\ BufSize \in Nat \ {0} /\ MaxLen \in Nat /\ MaxKeys \in Nat
    /\ IsFiniteSet(Fd)
    /\ PName \cap {"none", "stdin", "stdout", "null"} = {}

VARIABLES
    kbd,         \* stdin_buffer, p_rpos, p_wpos, the wait queue and the readers
    fifo,        \* pipe_list: per name, the two inodes and the pipe
    file         \* open files on devices and named pipes

vars == <<kbd, fifo, file>>

End == {"r", "w"}
Other(e) == IF e = "r" THEN "w" ELSE "r"
NoFile == [on |-> "none", end |-> "r", flags |-> {}]
NoFifo == [ref |-> [e \in End |-> 0], open |-> [e \in End |-> 0],
           ref_count |-> 0, isclosed |-> FALSE, left |-> {}]
Away == [state |-> "away", len |-> 0, got |-> << >>]

Init ==
    /\ kbd = [buffer |-> [i \in 0 .. BufSize - 1 |-> 0], rpos |-> 0, wpos |-> 0, keys |-> 0,
              queue |-> {}, reader |-> [t \in Thread |-> Away], overrun |-> FALSE, read |-> << >>]
    /\ fifo = [n \in PName |-> NoFifo]
    /\ file = [f \in Fd |-> NoFile]

-----------------------------------------------------------------------------
(* Keyboard.                                                               *)
Store_Full(k, c) ==
    [k EXCEPT !.buffer[k.wpos % BufSize] = c, !.wpos = @ + 1]

(* The character goes into the ring before the ring is tested for space:   *)
(* when it is full the oldest unread character is overwritten and the      *)
(* position stays.                                                         *)
Store(k, c) ==
    IF k.wpos - k.rpos < BufSize
    THEN [k EXCEPT !.buffer[k.wpos % BufSize] = c, !.wpos = @ + 1]
    ELSE [k EXCEPT !.buffer[k.wpos % BufSize] = c, !.overrun = TRUE]

Wake_None(k) == k

(* wakeup_queue with WT_KBD: every waiter is woken and taken out.          *)
WakeReaders(k) ==
    [k EXCEPT !.reader = [t \in Thread |-> IF t \in k.queue THEN [@[t] EXCEPT !.state = "KBD"]
                                           ELSE @[t]],
              !.queue = {}]

(* dev_stdin_write                                                         *)
Key ==
    /\ kbd.keys < MaxKeys
    /\ kbd' = WakeReaders(Store([kbd EXCEPT !.keys = @ + 1], kbd.keys + 1))
    /\ UNCHANGED <<fifo, file>>

Lesser(m, n) == IF m < n THEN m ELSE n

(* The loop of dev_stdin_read: take what is there, return if that is all,  *)
(* else sleep with the part.                                               *)
Take(k, t, want) ==
    LET n == Lesser(want, k.wpos - k.rpos)
        chars == [i \in 1 .. n |-> k.buffer[(k.rpos + i - 1) % BufSize]]
        taken == [k EXCEPT !.rpos = @ + n, !.read = @ \o chars]
    IN  IF n = want THEN [taken EXCEPT !.reader[t] = Away]
        ELSE [taken EXCEPT !.reader[t] = [state |-> "asleep", len |-> want - n, got |-> chars],
                           !.queue = @ \cup {t}]

Read(t, len) ==
    /\ kbd.reader[t] = Away
    /\ kbd' = Take(kbd, t, len)
    /\ UNCHANGED <<fifo, file>>

(* After schedule(): woken by a key the loop goes on, woken by a kill the  *)
(* part read so far is returned.                                           *)
Resume(t) ==
    LET k == [kbd EXCEPT !.queue = @ \ {t}] IN
    /\ kbd.reader[t].state \in {"KBD", "INTERRUPTED"}
    /\ kbd' = IF kbd.reader[t].state = "KBD" THEN Take(k, t, kbd.reader[t].len)
              ELSE [k EXCEPT !.reader[t] = Away]
    /\ UNCHANGED <<fifo, file>>

(* __do_kill of a reader: it runs again, and is still in the queue.        *)
Kill(t) ==
    /\ kbd.reader[t].state = "asleep"
    /\ kbd' = [kbd EXCEPT !.reader[t].state = "INTERRUPTED"]
    /\ UNCHANGED <<fifo, file>>

-----------------------------------------------------------------------------
(* Named pipes.  p is the record of one name.                              *)
RefInc(p, e) == [p EXCEPT !.ref[e] = @ + 1]

(* vop_ref_dec with pipe_inode_reclaim and pipe_state_release.             *)
RefDec(p, e) ==
    IF p.ref[e] > 1 THEN [p EXCEPT !.ref[e] = @ - 1]
    ELSE IF p.ref_count = 1 THEN NoFifo
    ELSE [p EXCEPT !.ref[e] = 0, !.ref_count = @ - 1]

(* lookup_pipe_nolock references both inodes that exist.                   *)
LookupPipe(p) == [p EXCEPT !.ref = [e \in End |-> IF @[e] > 0 THEN @[e] + 1 ELSE 0]]

DropOther(p, e, found) == IF found THEN RefDec(p, Other(e)) ELSE p

Create_NewState(p, e, excl) ==
    LET l == LookupPipe(p) other == p.ref[Other(e)] > 0
    IN  IF p.ref[e] > 0
        THEN IF excl THEN <<"EXISTS", DropOther(RefDec(l, e), e, other)>>
             ELSE <<"ok", DropOther(l, e, other)>>
        ELSE <<"ok", DropOther([l EXCEPT !.ref[e] = 1, !.ref_count = 1, !.isclosed = FALSE],
                               e, other)>>

(* pipe_root_create: a missing inode is made, for the pipe of the other    *)
(* end if that exists.                                                     *)
Create(p, e, excl) ==
    LET l == LookupPipe(p) other == p.ref[Other(e)] > 0
    IN  IF p.ref[e] > 0
        THEN IF excl THEN <<"EXISTS", DropOther(RefDec(l, e), e, other)>>
             ELSE <<"ok", DropOther(l, e, other)>>
        ELSE <<"ok", DropOther([l EXCEPT !.ref[e] = 1, !.ref_count = @ + 1], e, other)>>

(* pipe_root_lookup                                                        *)
Lookup(p, e) ==
    LET l == DropOther(LookupPipe(p), e, p.ref[Other(e)] > 0)
    IN  IF p.ref[e] = 0 THEN <<"NOENT", l>> ELSE <<"ok", l>>

(* pipe_inode_open: the access mode has to fit the end.                    *)
InodeOpen(e, flags) ==
    /\ flags \cap {"TRUNC", "APPEND"} = {}
    /\ flags \cap {"RDONLY", "WRONLY", "RDWR"} = IF e = "r" THEN {"RDONLY"} ELSE {"WRONLY"}

(* file_mkfifo and file_open of "pipe:r_n" or "pipe:w_n" through vfs_open. *)
OpenFifo(f, n, e, flags) ==
    /\ file[f] = NoFile
    /\ \E found \in {IF "CREAT" \in flags THEN Create(fifo[n], e, "EXCL" \in flags)
                     ELSE Lookup(fifo[n], e)} :
        LET ok == found[1] = "ok" /\ InodeOpen(e, flags) IN
        /\ fifo' = [fifo EXCEPT ![n] =
                     IF ok THEN [found[2] EXCEPT !.open[e] = @ + 1]
                     ELSE IF found[1] = "ok" THEN RefDec(found[2], e)
                     ELSE found[2]]
        /\ file' = IF ok THEN [file EXCEPT ![f] = [on |-> n, end |-> e, flags |-> flags]] ELSE file
    /\ UNCHANGED kbd

(* vfs_close: with the last open of an end, pipe_inode_close closes the    *)
(* pipe for both.                                                          *)
CloseFifo(f) ==
    LET n == file[f].on e == file[f].end p == fifo[n]
        last == p.open[e] = 1
        closed == [p EXCEPT !.open[e] = @ - 1, !.isclosed = @ \/ last,
                            !.left = IF last THEN @ \cup {e} ELSE @]
    IN  /\ n \in PName
        /\ fifo' = [fifo EXCEPT ![n] = RefDec(closed, e)]
        /\ file' = [file EXCEPT ![f] = NoFile]
        /\ UNCHANGED kbd

-----------------------------------------------------------------------------
Dev_AnyMode(d, flags) == flags \cap {"CREAT", "TRUNC", "EXCL", "APPEND"} = {}

(* dev_open and the d_open of the three devices.                           *)
DevOpen(d, flags) ==
    /\ flags \cap {"CREAT", "TRUNC", "EXCL", "APPEND"} = {}
    /\ d = "stdin" => flags = {"RDONLY"}
    /\ d = "stdout" => flags = {"WRONLY"}

(* d_io: which transfers the device does.                                  *)
DevIo(d, write) ==
    CASE d = "stdin" -> ~write
      [] d = "stdout" -> write
      [] d = "null" -> TRUE

OpenDev(f, d, flags) ==
    /\ file[f] = NoFile /\ DevOpen(d, flags)
    /\ file' = [file EXCEPT ![f] = [on |-> d, end |-> "r", flags |-> flags]]
    /\ UNCHANGED <<kbd, fifo>>

CloseDev(f) ==
    /\ file[f].on \in {"stdin", "stdout", "null"}
    /\ file' = [file EXCEPT ![f] = NoFile]
    /\ UNCHANGED <<kbd, fifo>>

Mode == {{"RDONLY"}, {"WRONLY"}, {"RDWR"}}
Flags == {m \cup x : m \in Mode, x \in {{}, {"CREAT"}, {"CREAT", "EXCL"}, {"TRUNC"}}}

KbdNext ==
    \/ Key
    \/ \E t \in Thread : (\E len \in 1 .. MaxLen : Read(t, len)) \/ Resume(t) \/ Kill(t)

FileNext ==
    \E f \in Fd :
        \/ \E n \in PName, e \in End, flags \in Flags : OpenFifo(f, n, e, flags)
        \/ \E d \in {"stdin", "stdout", "null"}, flags \in Flags : OpenDev(f, d, flags)
        \/ CloseFifo(f) \/ CloseDev(f)

Next == KbdNext \/ FileNext

Spec == Init /\ [][Next]_vars

-----------------------------------------------------------------------------
Increasing(s) == \A i, j \in DOMAIN s : i < j => s[i] < s[j]

(* Keys are not lost, doubled or swapped while the ring has room, whoever  *)
(* reads and however reads are interrupted; and no reader sleeps while a   *)
(* key is unread.                                                          *)
StdinSound ==
    /\ \A t \in Thread : kbd.reader[t].state = "asleep" => kbd.rpos = kbd.wpos /\ t \in kbd.queue
    /\ kbd.wpos - kbd.rpos \in 0 .. BufSize
    /\ Len(kbd.read) = kbd.rpos
    /\ ~kbd.overrun => Increasing(kbd.read) /\ kbd.wpos = kbd.keys

Open(n, e) == {f \in Fd : file[f].on = n /\ file[f].end = e}

(* The two ends of a name share one pipe, from the first open to the last  *)
(* close: counts are exact on every way through create, look-up and a      *)
(* refused open, and the pipe is closed if and only if one of its ends has *)
(* been given up since it was made.                                        *)
FifoSound ==
    \A n \in PName :
        /\ \A e \in End : /\ fifo[n].ref[e] = Cardinality(Open(n, e))
                          /\ fifo[n].open[e] = fifo[n].ref[e]
        /\ fifo[n].ref_count = Cardinality({e \in End : Open(n, e) # {}})
        /\ fifo[n].isclosed <=> fifo[n].left # {}

Readable(flags) == flags \cap {"RDONLY", "RDWR"} # {}
Writable(flags) == flags \cap {"WRONLY", "RDWR"} # {}

(* Whatever file_read and file_write let through on an open device is a    *)
(* transfer the device does.                                               *)
DeviceModes ==
    \A f \in Fd : file[f].on \in {"stdin", "stdout", "null"} =>
        /\ Readable(file[f].flags) => DevIo(file[f].on, FALSE)
        /\ Writable(file[f].flags) => DevIo(file[f].on, TRUE)

(* The device files keep what their readers and writers rely on.           *)
DeviceFilesSound == StdinSound /\ FifoSound /\ DeviceModes

-----------------------------------------------------------------------------
(* The inductive invariant.  While no key was dropped the ring holds the   *)
(* keys after those read, each at its own place.                           *)
Reader == [state : {"away", "asleep", "KBD", "INTERRUPTED"}, len : Nat, got : Seq(Nat)]
IsKbd(k) ==
    /\ DOMAIN k = {"buffer", "rpos", "wpos", "keys", "queue", "reader", "overrun", "read"}
    /\ k.buffer \in [0 .. BufSize - 1 -> Nat]
    /\ k.rpos \in Nat /\ k.wpos \in Nat /\ k.keys \in Nat
    /\ k.queue \in SUBSET Thread /\ k.reader \in [Thread -> Reader]
    /\ k.read \in Seq(Nat)

RingInv(k) ==
    /\ k.wpos - k.rpos \in 0 .. BufSize
    /\ Len(k.read) = k.rpos
    /\ ~k.overrun => /\ k.wpos = k.keys
                     /\ \A i \in k.rpos .. k.wpos - 1 : k.buffer[i % BufSize] = i + 1
                     /\ \A j \in DOMAIN k.read : k.read[j] = j

SleepersInv(k) ==
    \A t \in Thread : k.reader[t].state = "asleep" => k.rpos = k.wpos /\ t \in k.queue

KbdInv == IsKbd(kbd) /\ RingInv(kbd) /\ SleepersInv(kbd)

(* A pipe counts its ends that have an inode; every inode is referenced by *)
(* the files open on it and by nothing else between two calls.             *)
One(m) == IF m > 0 THEN 1 ELSE 0

IsFifo(p) ==
    /\ DOMAIN p = {"ref", "open", "ref_count", "isclosed", "left"}
    /\ p.ref \in [End -> Nat] /\ p.open \in [End -> Nat]
    /\ p.ref_count = One(p.ref["r"]) + One(p.ref["w"])
    /\ p.isclosed <=> p.left # {}

Device == {"stdin", "stdout", "null"}

FifoInv ==
    /\ DOMAIN fifo = PName /\ fifo = [n \in PName |-> fifo[n]]
    /\ \A n \in PName : /\ IsFifo(fifo[n])
                        /\ \A e \in End : /\ fifo[n].ref[e] = Cardinality(Open(n, e))
                                          /\ fifo[n].open[e] = fifo[n].ref[e]

FileInv ==
    /\ file \in [Fd -> [on : PName \cup Device \cup {"none"}, end : End,
                       flags : SUBSET {"RDONLY", "WRONLY", "RDWR", "CREAT", "EXCL", "TRUNC"}]]
    /\ \A f \in Fd : file[f].on \in Device => DevOpen(file[f].on, file[f].flags)

IndInv == KbdInv /\ FifoInv /\ FileInv

-----------------------------------------------------------------------------
(* Two positions less than a ring apart are two places of the ring.        *)
LEMMA PlacesDiffer ==
  ASSUME NEW n \in Nat \ {0}, NEW a \in Nat, NEW b \in Nat, a < b, b < a + n
  PROVE  a % n # b % n
<1>1. /\ a = n * (a \div n) + (a % n) /\ b = n * (b \div n) + (b % n)
      /\ a \div n \in Int /\ b \div n \in Int
  BY SMT
<1> DEFINE x == a \div n
           y == b \div n
           u == a % n
           v == b % n
<1>2. x \in Int /\ y \in Int /\ u \in Int /\ v \in Int /\ a = n * x + u /\ b = n * y + v
  BY <1>1, SMT
<1> HIDE DEF x, y, u, v
<1>3. SUFFICES ASSUME u = v PROVE FALSE
  BY DEF u, v
<1>4. n * (y - x) = b - a
  BY <1>2, <1>3, SMT
<1>5. y - x \in Int /\ 0 < n * (y - x) /\ n * (y - x) < n
  BY <1>2, <1>4
<1>6. CASE y - x <= 0
  BY <1>5, <1>6, SMT
<1>7. CASE y - x >= 1
  BY <1>5, <1>7, SMT
<1> QED BY <1>5, <1>6, <1>7

(* A key that is pressed is stored behind the others, or over the oldest.  *)
LEMMA StoreKeeps ==
  ASSUME NEW k, IsKbd(k), RingInv(k), NEW s, s = Store([k EXCEPT !.keys = @ + 1], k.keys + 1)
  PROVE  IsKbd(s) /\ RingInv(s) /\ s.queue = k.queue /\ s.reader = k.reader
<1> USE DevicesAssumption
<1> DEFINE w == k.wpos % BufSize
           b == [k.buffer EXCEPT ![w] = k.keys + 1]
<1>1. /\ k.wpos \in Nat /\ k.rpos \in Nat /\ k.keys \in Nat
      /\ k.read \in Seq(Nat) /\ k.buffer \in [0 .. BufSize - 1 -> Nat]
      /\ k.queue \in SUBSET Thread /\ k.reader \in [Thread -> Reader]
  BY DEF IsKbd
<1>r. /\ k.wpos - k.rpos \in 0 .. BufSize /\ Len(k.read) = k.rpos
      /\ ~k.overrun => \A i \in k.rpos .. k.wpos - 1 : k.buffer[i % BufSize] = i + 1
  BY DEF RingInv
<1>2. w \in 0 .. BufSize - 1
  BY <1>1
<1> HIDE DEF w
<1>3. b \in [0 .. BufSize - 1 -> Nat] /\ b[w] = k.keys + 1
      /\ \A i \in 0 .. BufSize - 1 : i # w => b[i] = k.buffer[i]
  BY <1>1, <1>2
<1> HIDE DEF b
<1>4. CASE k.wpos - k.rpos < BufSize
  <2>1. s = [k EXCEPT !.keys = @ + 1, !.buffer = b, !.wpos = @ + 1]
    BY <1>1, <1>4 DEF Store, IsKbd, b, w
  <2>2. /\ s.buffer = b /\ s.wpos = k.wpos + 1 /\ s.keys = k.keys + 1 /\ s.rpos = k.rpos
        /\ s.read = k.read /\ s.overrun = k.overrun /\ s.queue = k.queue /\ s.reader = k.reader
    BY <2>1 DEF IsKbd
  <2>d. DOMAIN s = DOMAIN k
    BY <2>1
  <2>n. s.wpos \in Nat /\ s.keys \in Nat
    BY <2>2, <1>1
  <2>3. IsKbd(s)
    BY <2>2, <2>d, <2>n, <1>1, <1>3, Zenon DEF IsKbd
  <2>4. ASSUME ~k.overrun, NEW i \in k.rpos .. k.wpos PROVE b[i % BufSize] = i + 1
    <3>1. CASE i = k.wpos
      BY <1>3, <2>4, <3>1 DEF RingInv, w
    <3>2. CASE i # k.wpos
      <4>1. i \in Nat /\ i < k.wpos /\ k.wpos < i + BufSize
        BY <1>1, <1>4, <3>2
      <4>2. i % BufSize # w /\ i % BufSize \in 0 .. BufSize - 1
        BY <4>1, <1>1, PlacesDiffer DEF w
      <4>3. i \in k.rpos .. k.wpos - 1
        BY <4>1, <1>1
      <4>4. k.buffer[i % BufSize] = i + 1
        BY <2>4, <4>3, <1>r, Zenon
      <4> QED BY <1>3, <4>2, <4>4
    <3> QED BY <3>1, <3>2
  <2>5. ~s.overrun => \A i \in s.rpos .. s.wpos - 1 : s.buffer[i % BufSize] = i + 1
    BY <1>1, <2>2, <2>4
  <2>6. s.wpos - s.rpos \in 0 .. BufSize
    BY <1>1, <1>4, <1>r, <2>2
  <2> QED BY <2>2, <2>3, <2>5, <2>6 DEF RingInv
<1>5. CASE ~(k.wpos - k.rpos < BufSize)
  <2>1. s = [k EXCEPT !.keys = @ + 1, !.buffer = b, !.overrun = TRUE]
    BY <1>1, <1>5 DEF Store, IsKbd, b, w
  <2>2. /\ s.buffer = b /\ s.wpos = k.wpos /\ s.keys = k.keys + 1 /\ s.rpos = k.rpos
        /\ s.read = k.read /\ s.overrun /\ s.queue = k.queue /\ s.reader = k.reader
    BY <2>1 DEF IsKbd
  <2>d. DOMAIN s = DOMAIN k
    BY <2>1
  <2>n. s.wpos \in Nat /\ s.keys \in Nat
    BY <2>2, <1>1
  <2>3. IsKbd(s)
    BY <2>2, <2>d, <2>n, <1>1, <1>3, Zenon DEF IsKbd
  <2> QED BY <2>2, <2>3 DEF RingInv
<1> QED BY <1>4, <1>5

(* A pass of the loop of dev_stdin_read takes the oldest keys, and sleeps  *)
(* only when it has taken all.                                             *)
LEMMA TakeKeeps ==
  ASSUME NEW k, IsKbd(k), RingInv(k), NEW t \in Thread, NEW want \in Nat, NEW s,
         s = Take(k, t, want)
  PROVE  /\ IsKbd(s) /\ RingInv(s) /\ k.queue \subseteq s.queue
         /\ k.rpos = k.wpos => s.rpos = s.wpos
         /\ \A r \in Thread \ {t} : s.reader[r] = k.reader[r]
         /\ s.reader[t].state = "asleep" => s.rpos = s.wpos /\ t \in s.queue
<1> USE DevicesAssumption
<1> DEFINE n == Lesser(want, k.wpos - k.rpos)
           chars == [i \in 1 .. n |-> k.buffer[(k.rpos + i - 1) % BufSize]]
           c == k.read \o chars
           rd == IF n = want THEN Away ELSE [state |-> "asleep", len |-> want - n, got |-> chars]
           q == IF n = want THEN k.queue ELSE k.queue \cup {t}
<1> HIDE DEF n, chars, c, rd, q
<1>1. /\ k.wpos \in Nat /\ k.rpos \in Nat /\ k.keys \in Nat
      /\ k.read \in Seq(Nat) /\ k.buffer \in [0 .. BufSize - 1 -> Nat]
      /\ k.queue \in SUBSET Thread /\ k.reader \in [Thread -> Reader]
  BY DEF IsKbd
<1>0. k.wpos \in Nat /\ k.rpos \in Nat /\ k.keys \in Nat
  BY <1>1
<1>b. k.wpos - k.rpos \in 0 .. BufSize
  BY DEF RingInv
<1>2. /\ k.wpos - k.rpos \in 0 .. BufSize /\ Len(k.read) = k.rpos
      /\ ~k.overrun => \A i \in k.rpos .. k.wpos - 1 : k.buffer[i % BufSize] = i + 1
      /\ ~k.overrun => \A j \in DOMAIN k.read : k.read[j] = j
      /\ ~k.overrun => k.wpos = k.keys
  BY DEF RingInv
<1>3. /\ n \in Nat /\ n <= want /\ n <= k.wpos - k.rpos
      /\ n # want => n = k.wpos - k.rpos
  BY <1>0, <1>b DEF Lesser, n
<1>4. /\ chars \in Seq(Nat) /\ Len(chars) = n /\ DOMAIN chars = 1 .. n
      /\ \A i \in 1 .. n : chars[i] = k.buffer[(k.rpos + i - 1) % BufSize]
  <2>1. ASSUME NEW i \in 1 .. n PROVE (k.rpos + i - 1) % BufSize \in 0 .. BufSize - 1
    BY <1>0, <1>3
  <2>2. chars \in [1 .. n -> Nat]
    BY <1>1, <2>1 DEF chars
  <2> QED BY <1>3, <2>2 DEF chars
<1>5. /\ c \in Seq(Nat) /\ Len(c) = k.rpos + n /\ DOMAIN c = 1 .. k.rpos + n
      /\ \A j \in 1 .. k.rpos : c[j] = k.read[j]
      /\ \A j \in k.rpos + 1 .. k.rpos + n : c[j] = chars[j - k.rpos]
  <2>1. /\ c \in Seq(Nat) /\ Len(c) = Len(k.read) + Len(chars)
        /\ \A j \in 1 .. Len(k.read) + Len(chars) :
             c[j] = IF j <= Len(k.read) THEN k.read[j] ELSE chars[j - Len(k.read)]
    <3>1. k.read \in Seq(Nat) /\ chars \in Seq(Nat)
      BY <1>1, <1>4
    <3> QED BY <3>1, ConcatProperties DEF c
  <2>2. Len(k.read) = k.rpos /\ Len(chars) = n
    BY <1>2, <1>4
  <2>3. DOMAIN c = 1 .. Len(c)
    BY <2>1, LenProperties
  <2> QED BY <1>0, <1>3, <2>1, <2>2, <2>3
<1>6. ASSUME ~k.overrun, NEW j \in 1 .. k.rpos + n PROVE c[j] = j
  <2>1. CASE j <= k.rpos
    <3>1. j \in 1 .. k.rpos /\ c[j] = k.read[j]
      BY <1>0, <1>5, <2>1
    <3>2. j \in DOMAIN k.read
      BY <1>1, <1>2, <3>1
    <3> QED BY <1>2, <1>6, <3>1, <3>2, Zenon
  <2>2. CASE j > k.rpos
    <3>1. /\ j - k.rpos \in 1 .. n /\ k.rpos + (j - k.rpos) - 1 = j - 1
          /\ j - 1 \in k.rpos .. k.wpos - 1
      BY <1>0, <1>3, <1>b, <2>2
    <3>2. c[j] = chars[j - k.rpos]
      <4>1. j \in k.rpos + 1 .. k.rpos + n
        BY <1>0, <1>3, <2>2
      <4> QED BY <4>1, <1>5
    <3>3. chars[j - k.rpos] = k.buffer[(j - 1) % BufSize]
      BY <1>4, <3>1
    <3>4. k.buffer[(j - 1) % BufSize] = (j - 1) + 1
      BY <1>2, <1>6, <3>1, Zenon
    <3> QED BY <3>2, <3>3, <3>4, <1>0, <1>3
  <2> QED BY <2>1, <2>2, <1>0, <1>3
<1>7. rd \in Reader /\ (rd.state = "asleep" => n # want)
  BY <1>3, <1>4, EmptySeq DEF Reader, Away, rd
<1>8. q \in SUBSET Thread /\ k.queue \subseteq q /\ (n # want => t \in q)
  BY <1>1 DEF q
<1>9. /\ s.rpos = k.rpos + n /\ s.read = c /\ s.reader = [k.reader EXCEPT ![t] = rd]
      /\ s.queue = q /\ s.buffer = k.buffer /\ s.wpos = k.wpos /\ s.keys = k.keys
      /\ s.overrun = k.overrun /\ DOMAIN s = DOMAIN k
  <2> DEFINE k1 == [k EXCEPT !.rpos = @ + n, !.read = @ \o chars]
  <2>1. /\ k1.rpos = k.rpos + n /\ k1.read = c /\ k1.reader = k.reader
        /\ k1.queue = k.queue /\ k1.buffer = k.buffer /\ k1.wpos = k.wpos /\ k1.keys = k.keys
        /\ k1.overrun = k.overrun /\ DOMAIN k1 = DOMAIN k
    BY DEF IsKbd, c
  <2>2. s = IF n = want THEN [k1 EXCEPT !.reader[t] = Away]
            ELSE [k1 EXCEPT !.reader[t] = [state |-> "asleep", len |-> want - n, got |-> chars],
                            !.queue = @ \cup {t}]
    BY DEF Take, n, chars
  <2> HIDE DEF k1
  <2>3. CASE n = want
    BY <2>1, <2>2, <2>3 DEF IsKbd, rd, q
  <2>4. CASE n # want
    BY <2>1, <2>2, <2>4 DEF IsKbd, rd, q
  <2> QED BY <2>3, <2>4
<1>10. IsKbd(s)
  <2>1. s.rpos \in Nat /\ s.reader \in [Thread -> Reader]
    BY <1>1, <1>3, <1>7, <1>9
  <2> QED BY <1>1, <1>5, <1>8, <1>9, <2>1, Zenon DEF IsKbd
<1>11. RingInv(s)
  <2>1. s.wpos - s.rpos \in 0 .. BufSize /\ Len(s.read) = s.rpos
    <3>1. s.rpos = k.rpos + n /\ s.wpos = k.wpos /\ Len(s.read) = k.rpos + n
      BY <1>5, <1>9
    <3> QED BY <1>0, <1>b, <1>3, <3>1
  <2>2. ASSUME ~s.overrun PROVE s.wpos = s.keys /\ \A j \in DOMAIN s.read : s.read[j] = j
    BY <2>2, <1>2, <1>5, <1>6, <1>9
  <2>3. ASSUME ~s.overrun, NEW i \in s.rpos .. s.wpos - 1 PROVE s.buffer[i % BufSize] = i + 1
    <3>1. i \in k.rpos .. k.wpos - 1
      BY <1>0, <1>3, <1>9
    <3> QED BY <2>3, <3>1, <1>2, <1>9, Zenon
  <2> QED BY <2>1, <2>2, <2>3 DEF RingInv
<1>12. /\ \A r \in Thread \ {t} : s.reader[r] = k.reader[r]
       /\ s.reader[t] = rd
  BY <1>1, <1>9
<1>13. /\ k.rpos = k.wpos => s.rpos = s.wpos
       /\ n # want => s.rpos = s.wpos
  <2>1. s.rpos = k.rpos + n /\ s.wpos = k.wpos
    BY <1>9
  <2> QED BY <1>0, <1>b, <1>3, <2>1
<1> QED BY <1>7, <1>8, <1>9, <1>10, <1>11, <1>12, <1>13

(* A change of the waiting readers alone leaves the ring as it is.         *)
LEMMA RingSame ==
  ASSUME NEW k, IsKbd(k), RingInv(k), NEW s, DOMAIN s = DOMAIN k,
         s.buffer = k.buffer, s.rpos = k.rpos, s.wpos = k.wpos, s.keys = k.keys,
         s.overrun = k.overrun, s.read = k.read,
         s.reader \in [Thread -> Reader], s.queue \in SUBSET Thread
  PROVE  IsKbd(s) /\ RingInv(s)
BY Zenon DEF IsKbd, RingInv

(* A wake-up changes the state of a reader and nothing else of it.         *)
LEMMA ReaderWoken ==
  ASSUME NEW r \in Reader, NEW st \in {"away", "asleep", "KBD", "INTERRUPTED"}
  PROVE  [r EXCEPT !.state = st] \in Reader /\ [r EXCEPT !.state = st].state = st
BY DEF Reader

(* Whatever a key press or a reader does, the keyboard stays in order.     *)
LEMMA KbdStep ==
  ASSUME KbdInv, KbdNext
  PROVE  KbdInv'
<1> USE DEF KbdInv
<1>0. kbd.reader \in [Thread -> Reader] /\ kbd.queue \in SUBSET Thread
  BY DEF IsKbd
<1>1. CASE Key
  <2> DEFINE s == Store([kbd EXCEPT !.keys = @ + 1], kbd.keys + 1)
  <2>1. IsKbd(s) /\ RingInv(s) /\ s.queue = kbd.queue /\ s.reader = kbd.reader
    BY StoreKeeps
  <2>2. kbd' = WakeReaders(s)
    BY <1>1 DEF Key
  <2> HIDE DEF s
  <2>3. /\ kbd'.buffer = s.buffer /\ kbd'.rpos = s.rpos /\ kbd'.wpos = s.wpos
        /\ kbd'.keys = s.keys /\ kbd'.overrun = s.overrun /\ kbd'.read = s.read
        /\ DOMAIN kbd' = DOMAIN s /\ kbd'.queue = {}
        /\ kbd'.reader = [t \in Thread |-> IF t \in s.queue THEN [s.reader[t] EXCEPT !.state = "KBD"]
                                           ELSE s.reader[t]]
    BY <2>1, <2>2 DEF WakeReaders, IsKbd
  <2>4. kbd'.reader \in [Thread -> Reader] /\ kbd'.queue \in SUBSET Thread
    <3>1. \A t \in Thread : s.reader[t] \in Reader /\ [s.reader[t] EXCEPT !.state = "KBD"] \in Reader
      BY <1>0, <2>1, ReaderWoken
    <3> QED BY <2>3, <3>1
  <2>5. IsKbd(kbd') /\ RingInv(kbd')
    BY <2>1, <2>3, <2>4, RingSame
  <2>6. \A t \in Thread : kbd'.reader[t].state # "asleep"
    BY <1>0, <2>1, <2>3 DEF SleepersInv, Reader
  <2> QED BY <2>5, <2>6 DEF SleepersInv
<1>2. ASSUME NEW k, IsKbd(k), RingInv(k), NEW t \in Thread, NEW want \in Nat,
             kbd' = Take(k, t, want), k.rpos = kbd.rpos, k.wpos = kbd.wpos,
             k.reader = kbd.reader, kbd.queue \ {t} \subseteq k.queue
      PROVE  KbdInv'
  <2>1. /\ IsKbd(kbd') /\ RingInv(kbd') /\ k.queue \subseteq kbd'.queue
        /\ k.rpos = k.wpos => kbd'.rpos = kbd'.wpos
        /\ \A r \in Thread \ {t} : kbd'.reader[r] = k.reader[r]
        /\ kbd'.reader[t].state = "asleep" => kbd'.rpos = kbd'.wpos /\ t \in kbd'.queue
    BY <1>2, TakeKeeps
  <2>2. SleepersInv(kbd')
    BY <1>2, <2>1 DEF SleepersInv
  <2> QED BY <2>1, <2>2
<1>3. ASSUME NEW t \in Thread, NEW len \in 1 .. MaxLen, Read(t, len) PROVE KbdInv'
  BY <1>2, <1>3 DEF Read
<1>4. ASSUME NEW t \in Thread, Resume(t) PROVE KbdInv'
  <2> DEFINE k == [kbd EXCEPT !.queue = @ \ {t}]
  <2>1. /\ k.buffer = kbd.buffer /\ k.rpos = kbd.rpos /\ k.wpos = kbd.wpos /\ k.keys = kbd.keys
        /\ k.overrun = kbd.overrun /\ k.read = kbd.read /\ k.reader = kbd.reader
        /\ k.queue = kbd.queue \ {t} /\ DOMAIN k = DOMAIN kbd
    BY DEF IsKbd
  <2>2. IsKbd(k) /\ RingInv(k)
    <3>1. k.reader \in [Thread -> Reader] /\ k.queue \in SUBSET Thread
      BY <1>0, <2>1
    <3> HIDE DEF k
    <3> QED BY <2>1, <3>1, RingSame
  <2>3. \/ kbd' = Take(k, t, kbd.reader[t].len)
        \/ kbd' = [k EXCEPT !.reader[t] = Away]
    BY <1>4 DEF Resume
  <2> HIDE DEF k
  <2>4. CASE kbd' = Take(k, t, kbd.reader[t].len)
    <3>1. kbd.reader[t].len \in Nat
      BY <1>0 DEF Reader
    <3> QED BY <1>2, <2>1, <2>2, <2>4, <3>1
  <2>5. CASE kbd' = [k EXCEPT !.reader[t] = Away]
    <3>1. /\ kbd'.buffer = k.buffer /\ kbd'.rpos = k.rpos /\ kbd'.wpos = k.wpos
          /\ kbd'.keys = k.keys /\ kbd'.overrun = k.overrun /\ kbd'.read = k.read
          /\ DOMAIN kbd' = DOMAIN k /\ kbd'.queue = k.queue
          /\ kbd'.reader = [k.reader EXCEPT ![t] = Away]
      BY <2>2, <2>5 DEF IsKbd
    <3>2. kbd'.reader \in [Thread -> Reader] /\ kbd'.queue \in SUBSET Thread
      BY <1>0, <2>1, <3>1, EmptySeq DEF Reader, Away
    <3>3. IsKbd(kbd') /\ RingInv(kbd')
      BY <2>2, <3>1, <3>2, RingSame
    <3>4. SleepersInv(kbd')
      BY <1>0, <2>1, <3>1 DEF SleepersInv, Away
    <3> QED BY <3>3, <3>4
  <2> QED BY <2>3, <2>4, <2>5
<1>5. ASSUME NEW t \in Thread, Kill(t) PROVE KbdInv'
  <2>1. /\ kbd'.buffer = kbd.buffer /\ kbd'.rpos = kbd.rpos /\ kbd'.wpos = kbd.wpos
        /\ kbd'.keys = kbd.keys /\ kbd'.overrun = kbd.overrun /\ kbd'.read = kbd.read
        /\ DOMAIN kbd' = DOMAIN kbd /\ kbd'.queue = kbd.queue
        /\ kbd'.reader = [kbd.reader EXCEPT ![t].state = "INTERRUPTED"]
    BY <1>5 DEF Kill, IsKbd
  <2>2. kbd'.reader \in [Thread -> Reader] /\ kbd'.queue \in SUBSET Thread
    <3>1. [kbd.reader[t] EXCEPT !.state = "INTERRUPTED"] \in Reader
      BY <1>0, ReaderWoken
    <3> QED BY <1>0, <2>1, <3>1
  <2>3. IsKbd(kbd') /\ RingInv(kbd')
    BY <2>1, <2>2, RingSame
  <2>4. SleepersInv(kbd')
    BY <1>0, <2>1 DEF SleepersInv, Reader
  <2> QED BY <2>3, <2>4
<1> QED BY <1>1, <1>3, <1>4, <1>5 DEF KbdNext

(* The invariant says what readers of the keyboard rely on.                *)
LEMMA KbdSound == KbdInv => StdinSound
<1> SUFFICES ASSUME KbdInv PROVE StdinSound
  OBVIOUS
<1>1. /\ \A t \in Thread : kbd.reader[t].state = "asleep" => kbd.rpos = kbd.wpos /\ t \in kbd.queue
      /\ kbd.wpos - kbd.rpos \in 0 .. BufSize
      /\ Len(kbd.read) = kbd.rpos
      /\ ~kbd.overrun => kbd.wpos = kbd.keys /\ \A j \in DOMAIN kbd.read : kbd.read[j] = j
  BY DEF KbdInv, RingInv, SleepersInv
<1>2. ~kbd.overrun => Increasing(kbd.read)
  BY <1>1 DEF Increasing
<1> QED BY <1>1, <1>2 DEF StdinSound

-----------------------------------------------------------------------------
(* vop_ref_dec gives one reference back.  The pipe disappears with the     *)
(* last, when nothing is open any more.                                    *)
LEMMA RefDecFields ==
  ASSUME NEW p, IsFifo(p), NEW e \in End, p.ref[e] > 0,
         p.ref[e] = 1 /\ p.ref[Other(e)] = 0 => \A x \in End : p.open[x] = 0,
         NEW q, q = RefDec(p, e)
  PROVE  /\ IsFifo(q) /\ q.ref[e] = p.ref[e] - 1 /\ q.ref[Other(e)] = p.ref[Other(e)]
         /\ \A x \in End : q.open[x] = p.open[x]
<1>1. /\ p.ref \in [End -> Nat] /\ p.open \in [End -> Nat] /\ Other(e) \in End /\ Other(e) # e
      /\ End = {e, Other(e)} /\ p.ref[e] \in Nat /\ p.ref[Other(e)] \in Nat
      /\ p.ref_count = One(p.ref[e]) + One(p.ref[Other(e)])
  BY DEF IsFifo, End, Other, One
<1>2. CASE p.ref[e] > 1
  <2>1. q = [p EXCEPT !.ref[e] = @ - 1]
    BY <1>2 DEF RefDec
  <2>2. /\ q.ref = [p.ref EXCEPT ![e] = @ - 1] /\ q.open = p.open /\ q.isclosed = p.isclosed
        /\ q.left = p.left /\ q.ref_count = p.ref_count /\ DOMAIN q = DOMAIN p
    BY <2>1 DEF IsFifo
  <2>3. /\ q.ref \in [End -> Nat] /\ q.ref[e] = p.ref[e] - 1
        /\ q.ref[Other(e)] = p.ref[Other(e)]
    BY <1>1, <1>2, <2>2
  <2>4. q.ref_count = One(q.ref["r"]) + One(q.ref["w"])
    BY <1>1, <1>2, <2>2, <2>3 DEF One, End, Other
  <2> QED BY <2>2, <2>3, <2>4 DEF IsFifo
<1>3. CASE p.ref[e] = 1 /\ p.ref[Other(e)] = 0
  <2>1. q = NoFifo
    BY <1>1, <1>3 DEF RefDec, One
  <2>2. IsFifo(q)
    BY <2>1 DEF IsFifo, NoFifo, One, End
  <2> QED BY <1>1, <1>3, <2>1, <2>2 DEF NoFifo
<1>4. CASE p.ref[e] = 1 /\ p.ref[Other(e)] > 0
  <2>1. q = [p EXCEPT !.ref[e] = 0, !.ref_count = @ - 1]
    BY <1>1, <1>4 DEF RefDec, One
  <2>2. /\ q.ref = [p.ref EXCEPT ![e] = 0] /\ q.open = p.open /\ q.isclosed = p.isclosed
        /\ q.left = p.left /\ q.ref_count = p.ref_count - 1 /\ DOMAIN q = DOMAIN p
    BY <2>1 DEF IsFifo
  <2>3. /\ q.ref \in [End -> Nat] /\ q.ref[e] = 0 /\ q.ref[Other(e)] = p.ref[Other(e)]
    BY <1>1, <2>2
  <2>4. q.ref_count = One(q.ref["r"]) + One(q.ref["w"])
    BY <1>1, <1>4, <2>2, <2>3 DEF One, End, Other
  <2> QED BY <1>4, <2>2, <2>3, <2>4 DEF IsFifo
<1> QED BY <1>1, <1>2, <1>3, <1>4

(* lookup_pipe_nolock references both inodes, and what is not needed of    *)
(* that is given back: the inode of the end asked for keeps one reference. *)
LEMMA LookupFields ==
  ASSUME NEW p, IsFifo(p), NEW e \in End, NEW l, l = LookupPipe(p)
  PROVE  /\ DOMAIN l = DOMAIN p /\ l.ref \in [End -> Nat] /\ l.open = p.open
         /\ l.isclosed = p.isclosed /\ l.left = p.left /\ l.ref_count = p.ref_count
         /\ \A x \in End : l.ref[x] = IF p.ref[x] > 0 THEN p.ref[x] + 1 ELSE 0
         /\ IsFifo(l)
<1>1. p.ref \in [End -> Nat] /\ p.open \in [End -> Nat]
  BY DEF IsFifo
<1>2. /\ DOMAIN l = DOMAIN p /\ l.open = p.open
      /\ l.isclosed = p.isclosed /\ l.left = p.left /\ l.ref_count = p.ref_count
      /\ l.ref = [x \in End |-> IF p.ref[x] > 0 THEN p.ref[x] + 1 ELSE 0]
  BY DEF IsFifo, LookupPipe
<1>3. l.ref \in [End -> Nat]
  BY <1>1, <1>2
<1>4. l.ref_count = One(l.ref["r"]) + One(l.ref["w"])
  BY <1>1, <1>2 DEF One, IsFifo, End
<1> QED BY <1>1, <1>2, <1>3, <1>4 DEF IsFifo

(* DropOther after it, with one more end on the pipe or not.               *)
LEMMA DropOtherFields ==
  ASSUME NEW p, IsFifo(p), NEW e \in End, NEW l, IsFifo(l), l.open = p.open,
         l.ref[Other(e)] = IF p.ref[Other(e)] > 0 THEN p.ref[Other(e)] + 1 ELSE 0,
         NEW q, q = DropOther(l, e, p.ref[Other(e)] > 0)
  PROVE  /\ IsFifo(q) /\ q.ref[e] = l.ref[e] /\ q.ref[Other(e)] = p.ref[Other(e)]
         /\ \A x \in End : q.open[x] = p.open[x]
<1>1. /\ p.ref \in [End -> Nat] /\ Other(e) \in End /\ Other(Other(e)) = e
      /\ p.ref[Other(e)] \in Nat
  BY DEF IsFifo, End, Other
<1>2. CASE p.ref[Other(e)] > 0
  <2>1. q = RefDec(l, Other(e)) /\ l.ref[Other(e)] = p.ref[Other(e)] + 1 /\ l.ref[Other(e)] > 1
    BY <1>1, <1>2 DEF DropOther
  <2>2. /\ IsFifo(q) /\ q.ref[Other(e)] = l.ref[Other(e)] - 1
        /\ q.ref[Other(Other(e))] = l.ref[Other(Other(e))]
        /\ \A x \in End : q.open[x] = l.open[x]
    BY <1>1, <2>1, RefDecFields
  <2> QED BY <1>1, <2>1, <2>2
<1>3. CASE ~(p.ref[Other(e)] > 0)
  BY <1>1, <1>3 DEF DropOther
<1> QED BY <1>2, <1>3

(* pipe_root_lookup and pipe_root_create: one reference to the inode of    *)
(* the end, if they succeed, and no other change of the counts.            *)
LEMMA FoundFields ==
  ASSUME NEW p, IsFifo(p), NEW e \in End, NEW excl, NEW r,
         r = Create(p, e, excl) \/ r = Lookup(p, e)
  PROVE  /\ IsFifo(r[2]) /\ r[2].ref[Other(e)] = p.ref[Other(e)]
         /\ r[2].ref[e] = IF r[1] = "ok" THEN p.ref[e] + 1 ELSE p.ref[e]
         /\ \A x \in End : r[2].open[x] = p.open[x]
<1> DEFINE l == LookupPipe(p)
           other == p.ref[Other(e)] > 0
<1>1. /\ p.ref \in [End -> Nat] /\ p.open \in [End -> Nat] /\ Other(e) \in End /\ Other(e) # e
      /\ End = {e, Other(e)} /\ p.ref[e] \in Nat /\ p.ref[Other(e)] \in Nat
  BY DEF IsFifo, End, Other
<1>2. /\ DOMAIN l = DOMAIN p /\ l.ref \in [End -> Nat] /\ l.open = p.open
      /\ l.isclosed = p.isclosed /\ l.left = p.left /\ l.ref_count = p.ref_count
      /\ \A x \in End : l.ref[x] = IF p.ref[x] > 0 THEN p.ref[x] + 1 ELSE 0
      /\ IsFifo(l)
  BY LookupFields
<1> HIDE DEF l
<1>3. CASE r = Lookup(p, e)
  <2> DEFINE q == DropOther(l, e, other)
  <2>1. /\ IsFifo(q) /\ q.ref[e] = l.ref[e] /\ q.ref[Other(e)] = p.ref[Other(e)]
        /\ \A x \in End : q.open[x] = p.open[x]
    BY <1>1, <1>2, DropOtherFields
  <2>2. r[2] = q /\ (r[1] = "ok" <=> p.ref[e] # 0)
    BY <1>3 DEF Lookup, l
  <2> HIDE DEF q
  <2> QED BY <1>1, <1>2, <2>1, <2>2
<1>4. CASE r = Create(p, e, excl) /\ p.ref[e] > 0 /\ excl
  <2> DEFINE m == RefDec(l, e)
             q == DropOther(m, e, other)
  <2>1. l.ref[e] = p.ref[e] + 1 /\ l.ref[e] > 1 /\ l.ref[e] > 0
    BY <1>1, <1>2, <1>4
  <2>2. /\ IsFifo(m) /\ m.ref[e] = l.ref[e] - 1 /\ m.ref[Other(e)] = l.ref[Other(e)]
        /\ \A x \in End : m.open[x] = l.open[x]
    BY <1>2, <2>1, RefDecFields
  <2>3. m.open = p.open
    BY <1>1, <1>2, <2>2 DEF IsFifo
  <2> HIDE DEF m
  <2>4. /\ IsFifo(q) /\ q.ref[e] = m.ref[e] /\ q.ref[Other(e)] = p.ref[Other(e)]
        /\ \A x \in End : q.open[x] = p.open[x]
    BY <1>1, <1>2, <2>2, <2>3, DropOtherFields
  <2>5. r[2] = q /\ r[1] = "EXISTS"
    BY <1>4 DEF Create, l, m
  <2> HIDE DEF q
  <2> QED BY <1>1, <2>1, <2>2, <2>4, <2>5
<1>5. CASE r = Create(p, e, excl) /\ p.ref[e] > 0 /\ ~excl
  <2> DEFINE q == DropOther(l, e, other)
  <2>1. /\ IsFifo(q) /\ q.ref[e] = l.ref[e] /\ q.ref[Other(e)] = p.ref[Other(e)]
        /\ \A x \in End : q.open[x] = p.open[x]
    BY <1>1, <1>2, DropOtherFields
  <2>2. r[2] = q /\ r[1] = "ok"
    BY <1>5 DEF Create, l
  <2> HIDE DEF q
  <2> QED BY <1>1, <1>2, <1>5, <2>1, <2>2
<1>6. CASE r = Create(p, e, excl) /\ ~(p.ref[e] > 0)
  <2> DEFINE m == [l EXCEPT !.ref[e] = 1, !.ref_count = @ + 1]
             q == DropOther(m, e, other)
  <2>1. /\ m.ref = [l.ref EXCEPT ![e] = 1] /\ m.open = l.open /\ m.isclosed = l.isclosed
        /\ m.left = l.left /\ m.ref_count = l.ref_count + 1 /\ DOMAIN m = DOMAIN l
    BY <1>2 DEF IsFifo
  <2> HIDE DEF m
  <2>2. m.ref \in [End -> Nat] /\ m.ref[e] = 1 /\ m.ref[Other(e)] = l.ref[Other(e)]
    BY <1>1, <1>2, <2>1
  <2>3. m.ref_count = One(m.ref["r"]) + One(m.ref["w"])
    <3>1. l.ref[e] = 0 /\ l.ref_count = One(l.ref["r"]) + One(l.ref["w"])
      BY <1>1, <1>2, <1>6 DEF IsFifo
    <3> QED BY <1>1, <1>2, <2>1, <2>2, <3>1 DEF One, End, Other
  <2>4. IsFifo(m)
    BY <1>2, <2>1, <2>2, <2>3 DEF IsFifo
  <2>5. /\ IsFifo(q) /\ q.ref[e] = m.ref[e] /\ q.ref[Other(e)] = p.ref[Other(e)]
        /\ \A x \in End : q.open[x] = p.open[x]
    BY <1>1, <1>2, <2>1, <2>2, <2>4, DropOtherFields
  <2>6. r[2] = q /\ r[1] = "ok"
    BY <1>6 DEF Create, l, m
  <2> HIDE DEF q
  <2> QED BY <1>1, <1>6, <2>2, <2>5, <2>6
<1> QED BY <1>3, <1>4, <1>5, <1>6

(* The files open on an end are finitely many, and counted one by one.     *)
LEMMA OpenCount ==
  ASSUME NEW n, NEW e, NEW f, NEW S, S = Open(n, e)
  PROVE  /\ IsFiniteSet(S) /\ Cardinality(S) \in Nat
         /\ f \notin S => Cardinality(S \cup {f}) = Cardinality(S) + 1
         /\ f \in S => Cardinality(S) > 0 /\ Cardinality(S \ {f}) = Cardinality(S) - 1
<1>1. IsFiniteSet(S) /\ Cardinality(S) \in Nat
  BY DevicesAssumption, FS_Subset, FS_CardinalityType DEF Open
<1>2. f \notin S => Cardinality(S \cup {f}) = Cardinality(S) + 1
  BY <1>1, FS_AddElement
<1>3. f \in S => Cardinality(S) > 0 /\ Cardinality(S \ {f}) = Cardinality(S) - 1
  BY <1>1, FS_RemoveElement, FS_EmptySet
<1> QED BY <1>1, <1>2, <1>3

(* One name changes together with one file on it.                          *)
LEMMA NameStep ==
  ASSUME FifoInv, FileInv, NEW n \in PName, NEW f \in Fd, NEW q, IsFifo(q),
         fifo' = [fifo EXCEPT ![n] = q],
         \A e \in End : q.ref[e] = Cardinality(Open(n, e)') /\ q.open[e] = q.ref[e],
         \A m \in PName \ {n}, e \in End : Open(m, e)' = Open(m, e)
  PROVE  FifoInv'
<1>1. DOMAIN fifo' = PName /\ fifo' = [m \in PName |-> IF m = n THEN q ELSE fifo[m]]
  BY DEF FifoInv
<1>2. fifo'[n] = q /\ \A m \in PName \ {n} : fifo'[m] = fifo[m]
  BY <1>1
<1>3. fifo' = [m \in PName |-> fifo'[m]]
  BY <1>1
<1>4. ASSUME NEW m \in PName
      PROVE  /\ IsFifo(fifo'[m])
             /\ \A e \in End : /\ fifo'[m].ref[e] = Cardinality(Open(m, e)')
                               /\ fifo'[m].open[e] = fifo'[m].ref[e]
  <2>1. CASE m = n
    BY <1>2, <2>1
  <2>2. CASE m # n
    BY <1>2, <2>2 DEF FifoInv
  <2> QED BY <2>1, <2>2
<1> QED BY <1>1, <1>3, <1>4 DEF FifoInv

(* file_mkfifo and file_open of a named pipe.                              *)
LEMMA OpenFifoStep ==
  ASSUME FifoInv, FileInv, NEW f \in Fd, NEW n \in PName, NEW e \in End,
         NEW flags \in Flags, OpenFifo(f, n, e, flags)
  PROVE  FifoInv' /\ FileInv'
<1> USE DevicesAssumption
<1> DEFINE p == fifo[n]
<1>1. PICK found :
        /\ found = Create(p, e, "EXCL" \in flags) \/ found = Lookup(p, e)
        /\ LET ok == found[1] = "ok" /\ InodeOpen(e, flags) IN
           /\ fifo' = [fifo EXCEPT ![n] =
                        IF ok THEN [found[2] EXCEPT !.open[e] = @ + 1]
                        ELSE IF found[1] = "ok" THEN RefDec(found[2], e)
                        ELSE found[2]]
           /\ file' = IF ok THEN [file EXCEPT ![f] = [on |-> n, end |-> e, flags |-> flags]] ELSE file
  BY DEF OpenFifo
<1>2. /\ IsFifo(p) /\ Other(e) \in End /\ Other(e) # e /\ End = {e, Other(e)}
      /\ \A x \in End : /\ p.ref[x] = Cardinality(Open(n, x)) /\ p.open[x] = p.ref[x]
                        /\ p.ref[x] \in Nat
  BY DEF FifoInv, End, Other, IsFifo
<1> DEFINE q0 == found[2]
<1>3. /\ IsFifo(q0) /\ q0.ref[Other(e)] = p.ref[Other(e)]
      /\ q0.ref[e] = IF found[1] = "ok" THEN p.ref[e] + 1 ELSE p.ref[e]
      /\ \A x \in End : q0.open[x] = p.open[x]
  BY <1>1, <1>2, FoundFields
<1>4. file[f] = NoFile /\ file[f].on = "none" /\ n # "none" /\ n \notin Device
  BY DEF OpenFifo, NoFile, Device
<1> HIDE DEF q0, p
<1>5. CASE found[1] = "ok" /\ InodeOpen(e, flags)
  <2> DEFINE q == [q0 EXCEPT !.open[e] = @ + 1]
  <2>1. /\ fifo' = [fifo EXCEPT ![n] = q]
        /\ file' = [file EXCEPT ![f] = [on |-> n, end |-> e, flags |-> flags]]
    BY <1>1, <1>5 DEF q0
  <2>2. /\ q.ref = q0.ref /\ q.open = [q0.open EXCEPT ![e] = @ + 1] /\ q.ref_count = q0.ref_count
        /\ q.isclosed = q0.isclosed /\ q.left = q0.left /\ DOMAIN q = DOMAIN q0
    BY <1>3 DEF IsFifo
  <2> HIDE DEF q
  <2>3. q.open \in [End -> Nat] /\ q.open[e] = p.open[e] + 1 /\ q.open[Other(e)] = p.open[Other(e)]
    BY <1>2, <1>3, <2>2 DEF IsFifo
  <2>4. IsFifo(q)
    BY <1>3, <2>2, <2>3 DEF IsFifo
  <2>5. /\ \A m \in PName, x \in End : f \notin Open(m, x)
        /\ [on |-> n, end |-> e, flags |-> flags].on = n
        /\ [on |-> n, end |-> e, flags |-> flags].end = e
    BY <1>4 DEF Open
  <2>6. /\ Cardinality(Open(n, e)') = Cardinality(Open(n, e)) + 1
        /\ Open(n, Other(e))' = Open(n, Other(e))
        /\ \A m \in PName \ {n}, x \in End : Open(m, x)' = Open(m, x)
    <3> DEFINE y == [on |-> n, end |-> e, flags |-> flags]
    <3>1. /\ y.on = n /\ y.end = e
          /\ DOMAIN file = Fd /\ \A g \in Fd : file'[g] = IF g = f THEN y ELSE file[g]
      BY <2>1 DEF FileInv
    <3> HIDE DEF y
    <3>2. Cardinality(Open(n, e)') = Cardinality(Open(n, e)) + 1
      <4>1. Open(n, e)' = Open(n, e) \cup {f}
        BY <3>1 DEF Open
      <4>2. f \notin Open(n, e)
        BY <2>5
      <4> QED BY <4>1, <4>2, OpenCount
    <3>3. Open(n, Other(e))' = Open(n, Other(e))
      <4>1. file[f].on # n /\ Other(e) # e
        BY <1>2, <1>4
      <4> QED BY <3>1, <4>1 DEF Open
    <3>4. ASSUME NEW m \in PName \ {n}, NEW x \in End PROVE Open(m, x)' = Open(m, x)
      <4>1. file[f].on # m /\ m # n
        BY <1>4
      <4> QED BY <3>1, <4>1 DEF Open
    <3> QED BY <3>2, <3>3, <3>4
  <2>7. \A x \in End : q.ref[x] = Cardinality(Open(n, x)') /\ q.open[x] = q.ref[x]
    BY <1>2, <1>3, <1>5, <2>2, <2>3, <2>6
  <2>8. FifoInv'
    BY <2>1, <2>4, <2>6, <2>7, NameStep
  <2>9. FileInv'
    <3>1. flags \in SUBSET {"RDONLY", "WRONLY", "RDWR", "CREAT", "EXCL", "TRUNC"}
      BY DEF Flags, Mode
    <3> QED BY <1>4, <2>1, <3>1 DEF FileInv
  <2> QED BY <2>8, <2>9
<1>6. CASE ~(found[1] = "ok" /\ InodeOpen(e, flags))
  <2> DEFINE q == IF found[1] = "ok" THEN RefDec(q0, e) ELSE q0
  <2>1. fifo' = [fifo EXCEPT ![n] = q] /\ file' = file
    BY <1>1, <1>6 DEF q0
  <2>2. IsFifo(q) /\ \A x \in End : q.ref[x] = p.ref[x] /\ q.open[x] = p.open[x]
    <3>1. CASE found[1] = "ok"
      <4>1. q0.ref[e] = p.ref[e] + 1 /\ q0.ref[e] > 0 /\ q0.ref[e] - 1 = p.ref[e]
        BY <1>2, <1>3, <3>1
      <4>2. q0.ref[e] = 1 /\ q0.ref[Other(e)] = 0 => \A x \in End : q0.open[x] = 0
        <5> SUFFICES ASSUME q0.ref[e] = 1, q0.ref[Other(e)] = 0 PROVE \A x \in End : q0.open[x] = 0
          OBVIOUS
        <5>1. p.ref[e] = 0 /\ p.ref[Other(e)] = 0
          BY <1>2, <1>3, <4>1
        <5>2. q0.open[e] = 0 /\ q0.open[Other(e)] = 0
          BY <1>2, <1>3, <5>1
        <5> QED BY <1>2, <5>2
      <4>3. /\ IsFifo(q) /\ q.ref[e] = q0.ref[e] - 1 /\ q.ref[Other(e)] = q0.ref[Other(e)]
            /\ \A x \in End : q.open[x] = q0.open[x]
        BY <1>3, <3>1, <4>1, <4>2, RefDecFields
      <4> HIDE DEF q
      <4> QED BY <1>2, <1>3, <4>1, <4>3
    <3>2. CASE found[1] # "ok"
      BY <1>2, <1>3, <3>2
    <3> QED BY <3>1, <3>2
  <2> HIDE DEF q
  <2>3. \A m, x : Open(m, x)' = Open(m, x)
    BY <2>1 DEF Open
  <2>4. \A x \in End : q.ref[x] = Cardinality(Open(n, x)') /\ q.open[x] = q.ref[x]
    BY <1>2, <2>2, <2>3
  <2>5. FifoInv'
    BY <2>1, <2>2, <2>3, <2>4, NameStep
  <2> QED BY <2>1, <2>5 DEF FileInv
<1> QED BY <1>5, <1>6

(* vfs_close of a named pipe.                                              *)
LEMMA CloseFifoStep ==
  ASSUME FifoInv, FileInv, NEW f \in Fd, CloseFifo(f)
  PROVE  FifoInv' /\ FileInv'
<1> USE DevicesAssumption
<1>1. PICK n \in PName, e \in End : n = file[f].on /\ e = file[f].end
  BY DEF CloseFifo, FileInv
<1>2. PICK p : p = fifo[n]
  OBVIOUS
<1> DEFINE last == p.open[e] = 1
           closed == [p EXCEPT !.open[e] = @ - 1, !.isclosed = @ \/ last,
                               !.left = IF last THEN @ \cup {e} ELSE @]
           q == RefDec(closed, e)
<1>3. fifo' = [fifo EXCEPT ![n] = q] /\ file' = [file EXCEPT ![f] = NoFile]
  BY <1>1, <1>2 DEF CloseFifo
<1>4. Other(e) \in End /\ Other(e) # e /\ End = {e, Other(e)}
  BY DEF End, Other
<1>5. /\ IsFifo(p)
      /\ \A x \in End : /\ p.ref[x] = Cardinality(Open(n, x)) /\ p.open[x] = p.ref[x]
                        /\ p.ref[x] \in Nat
  BY <1>1, <1>2 DEF FifoInv, IsFifo
<1> HIDE DEF last, q, closed
<1>6. ASSUME NEW m \in PName, NEW x \in End
      PROVE  /\ m = n /\ x = e => /\ Cardinality(Open(m, x)) > 0
                                  /\ Cardinality(Open(m, x)') = Cardinality(Open(m, x)) - 1
             /\ ~(m = n /\ x = e) => Open(m, x)' = Open(m, x)
  <2>1. ~(NoFile.on = m /\ NoFile.end = x)
    BY DEF NoFile
  <2>2. f \in Open(m, x) <=> m = n /\ x = e
    BY <1>1 DEF Open
  <2>3. DOMAIN file = Fd /\ \A g \in Fd : file'[g] = IF g = f THEN NoFile ELSE file[g]
    BY <1>3 DEF FileInv
  <2>4. Open(m, x)' = Open(m, x) \ {f}
    BY <2>1, <2>3 DEF Open
  <2>5. CASE m = n /\ x = e
    BY <2>2, <2>4, <2>5, OpenCount
  <2>6. CASE ~(m = n /\ x = e)
    BY <2>2, <2>4, <2>6
  <2> QED BY <2>5, <2>6
<1>7. /\ closed.ref = p.ref /\ closed.open = [p.open EXCEPT ![e] = @ - 1]
      /\ closed.ref_count = p.ref_count /\ DOMAIN closed = DOMAIN p
      /\ closed.left = IF last THEN p.left \cup {e} ELSE p.left
  BY <1>5 DEF closed, IsFifo
<1>8. closed.isclosed <=> closed.left # {}
  <2>1. closed.isclosed <=> p.isclosed \/ last
    BY <1>5 DEF closed, IsFifo
  <2>2. p.isclosed <=> p.left # {}
    BY <1>5 DEF IsFifo
  <2> QED BY <1>7, <2>1, <2>2
<1>n. p.ref[e] > 0
  BY <1>5, <1>6
<1>9. /\ closed.open \in [End -> Nat] /\ closed.open[e] = p.open[e] - 1
      /\ closed.open[Other(e)] = p.open[Other(e)]
  BY <1>4, <1>5, <1>n, <1>7 DEF IsFifo
<1>10. IsFifo(closed)
  BY <1>5, <1>7, <1>8, <1>9 DEF IsFifo
<1>11. /\ closed.ref[e] > 0
       /\ closed.ref[e] = 1 /\ closed.ref[Other(e)] = 0 => \A x \in End : closed.open[x] = 0
  BY <1>4, <1>5, <1>n, <1>7, <1>9
<1>12. /\ IsFifo(q) /\ q.ref[e] = closed.ref[e] - 1 /\ q.ref[Other(e)] = closed.ref[Other(e)]
       /\ \A x \in End : q.open[x] = closed.open[x]
  BY <1>10, <1>11, RefDecFields DEF q
<1>13. ASSUME NEW x \in End PROVE q.ref[x] = Cardinality(Open(n, x)') /\ q.open[x] = q.ref[x]
  <2>1. CASE x = e
    <3>1. q.ref[e] = p.ref[e] - 1 /\ q.open[e] = p.open[e] - 1
      BY <1>7, <1>9, <1>12
    <3>2. Cardinality(Open(n, e)') = Cardinality(Open(n, e)) - 1
      BY <1>6
    <3> QED BY <1>5, <2>1, <3>1, <3>2
  <2>2. CASE x = Other(e)
    <3>1. q.ref[x] = p.ref[x] /\ q.open[x] = p.open[x]
      BY <1>7, <1>9, <1>12, <2>2
    <3>2. Open(n, x)' = Open(n, x)
      BY <1>4, <1>6, <2>2
    <3> QED BY <1>5, <3>1, <3>2
  <2> QED BY <1>4, <2>1, <2>2
<1>14. \A m \in PName \ {n}, x \in End : Open(m, x)' = Open(m, x)
  BY <1>6
<1>15. FifoInv'
  BY <1>3, <1>12, <1>13, <1>14, NameStep
<1>16. FileInv'
  BY <1>3 DEF FileInv, NoFile, End, Device
<1> QED BY <1>15, <1>16

(* A device is opened or closed: no named pipe is concerned.               *)
LEMMA DevStep ==
  ASSUME FifoInv, FileInv, NEW f \in Fd,
         \/ CloseDev(f)
         \/ \E d \in Device, flags \in Flags : OpenDev(f, d, flags)
  PROVE  FifoInv' /\ FileInv'
<1> USE DevicesAssumption
<1>1. /\ fifo' = fifo /\ file[f].on \notin PName
      /\ file \in [Fd -> [on : PName \cup Device \cup {"none"}, end : End,
                       flags : SUBSET {"RDONLY", "WRONLY", "RDWR", "CREAT", "EXCL", "TRUNC"}]]
  BY DEF CloseDev, OpenDev, NoFile, FileInv
<1>2. PICK x : /\ file' = [file EXCEPT ![f] = x] /\ x.on \notin PName
               /\ x \in [on : Device \cup {"none"}, end : End,
                         flags : SUBSET {"RDONLY", "WRONLY", "RDWR", "CREAT", "EXCL", "TRUNC"}]
               /\ x.on \in Device => DevOpen(x.on, x.flags)
  <2>1. CASE CloseDev(f)
    <3>1. file' = [file EXCEPT ![f] = NoFile]
      BY <2>1 DEF CloseDev
    <3>2. /\ NoFile.on \notin PName /\ NoFile.on \notin Device
          /\ NoFile \in [on : Device \cup {"none"}, end : End,
                         flags : SUBSET {"RDONLY", "WRONLY", "RDWR", "CREAT", "EXCL", "TRUNC"}]
      BY DEF NoFile, Device, End
    <3> QED BY <3>1, <3>2
  <2>2. CASE \E d \in Device, flags \in Flags : OpenDev(f, d, flags)
    <3>1. PICK d \in Device, flags \in Flags : OpenDev(f, d, flags)
      BY <2>2
    <3> DEFINE y == [on |-> d, end |-> "r", flags |-> flags]
    <3>2. file' = [file EXCEPT ![f] = y] /\ DevOpen(d, flags)
      BY <3>1 DEF OpenDev
    <3>3. flags \in SUBSET {"RDONLY", "WRONLY", "RDWR", "CREAT", "EXCL", "TRUNC"}
      BY DEF Flags, Mode
    <3>4. /\ y.on = d /\ y.flags = flags /\ d \notin PName
          /\ y \in [on : Device \cup {"none"}, end : End,
                    flags : SUBSET {"RDONLY", "WRONLY", "RDWR", "CREAT", "EXCL", "TRUNC"}]
      BY <3>3 DEF Device, End
    <3> HIDE DEF y
    <3> QED BY <3>2, <3>4
  <2> QED BY <2>1, <2>2
<1>3. \A m \in PName, e \in End : Open(m, e)' = Open(m, e)
  <2> SUFFICES ASSUME NEW m \in PName, NEW e \in End PROVE Open(m, e)' = Open(m, e)
    OBVIOUS
  <2>1. f \notin Open(m, e) /\ ~(x.on = m /\ x.end = e)
    BY <1>1, <1>2 DEF Open
  <2>2. DOMAIN file = Fd /\ \A g \in Fd : file'[g] = IF g = f THEN x ELSE file[g]
    BY <1>1, <1>2
  <2> QED BY <2>1, <2>2 DEF Open
<1>4. FifoInv'
  BY <1>1, <1>3 DEF FifoInv
<1>5. FileInv'
  BY <1>1, <1>2 DEF FileInv
<1> QED BY <1>4, <1>5

(* The ends of a name that have an inode, counted.                         *)
LEMMA EndsCount ==
  ASSUME NEW p, IsFifo(p), NEW S, S = {e \in End : p.ref[e] > 0}
  PROVE  p.ref_count = Cardinality(S)
<1>1. p.ref["r"] \in Nat /\ p.ref["w"] \in Nat
  BY DEF IsFifo, End
<1>2. p.ref_count = One(p.ref["r"]) + One(p.ref["w"])
  BY DEF IsFifo
<1>s. \A x : IsFiniteSet({x}) /\ Cardinality({x}) = 1
  BY FS_Singleton
<1>3. CASE p.ref["r"] > 0 /\ p.ref["w"] > 0
  <2>1. S = {"r"} \cup {"w"}
    BY <1>3 DEF End
  <2>2. Cardinality({"r"} \cup {"w"}) = Cardinality({"r"}) + 1
    BY <1>s, FS_AddElement
  <2>3. Cardinality(S) = 2
    <3>1. Cardinality({"r"}) = 1
      BY <1>s
    <3>2. Cardinality({"r"} \cup {"w"}) = 2
      BY <2>2, <3>1
    <3> QED BY <2>1, <3>2, Zenon
  <2>4. p.ref_count = 2
    BY <1>2, <1>3 DEF One
  <2> QED BY <2>3, <2>4
<1>4. CASE p.ref["r"] > 0 /\ p.ref["w"] = 0
  <2>1. S = {"r"}
    BY <1>4 DEF End
  <2>2. p.ref_count = 1
    BY <1>2, <1>4 DEF One
  <2> QED BY <1>s, <2>1, <2>2
<1>5. CASE p.ref["r"] = 0 /\ p.ref["w"] > 0
  <2>1. S = {"w"}
    BY <1>5 DEF End
  <2>2. p.ref_count = 1
    BY <1>2, <1>5 DEF One
  <2> QED BY <1>s, <2>1, <2>2
<1>6. CASE p.ref["r"] = 0 /\ p.ref["w"] = 0
  <2>1. S = {}
    BY <1>6 DEF End
  <2> QED BY <1>2, <1>6, <2>1, FS_EmptySet DEF One
<1> QED BY <1>1, <1>3, <1>4, <1>5, <1>6

(* The invariant says what the users of devices and named pipes rely on.   *)
LEMMA FilesSound == FifoInv /\ FileInv => FifoSound /\ DeviceModes
<1> SUFFICES ASSUME FifoInv, FileInv PROVE FifoSound /\ DeviceModes
  OBVIOUS
<1>1. FifoSound
  <2> SUFFICES ASSUME NEW n \in PName
               PROVE  /\ \A e \in End : /\ fifo[n].ref[e] = Cardinality(Open(n, e))
                                        /\ fifo[n].open[e] = fifo[n].ref[e]
                      /\ fifo[n].ref_count = Cardinality({e \in End : Open(n, e) # {}})
                      /\ fifo[n].isclosed <=> fifo[n].left # {}
    BY DEF FifoSound
  <2>1. /\ IsFifo(fifo[n])
        /\ \A e \in End : /\ fifo[n].ref[e] = Cardinality(Open(n, e))
                          /\ fifo[n].open[e] = fifo[n].ref[e]
    BY DEF FifoInv
  <2>2. \A e \in End : fifo[n].ref[e] > 0 <=> Open(n, e) # {}
    <3> SUFFICES ASSUME NEW e \in End PROVE fifo[n].ref[e] > 0 <=> Open(n, e) # {}
      OBVIOUS
    <3>1. IsFiniteSet(Open(n, e))
      BY DevicesAssumption, FS_Subset DEF Open
    <3> QED BY <2>1, <3>1, FS_EmptySet, FS_CardinalityType
  <2>3. {e \in End : fifo[n].ref[e] > 0} = {e \in End : Open(n, e) # {}}
    BY <2>2
  <2>4. fifo[n].ref_count = Cardinality({e \in End : Open(n, e) # {}})
    BY <2>1, <2>3, EndsCount
  <2> QED BY <2>1, <2>4 DEF IsFifo
<1>2. DeviceModes
  BY DEF FileInv, DeviceModes, Device, DevOpen, Readable, Writable, DevIo
<1> QED BY <1>1, <1>2

(* At boot the ring is empty and nothing is open.                          *)
LEMMA InitIndInv == Init => IndInv
<1> SUFFICES ASSUME Init PROVE IndInv
  OBVIOUS
<1> USE DevicesAssumption
<1>1. KbdInv
  <2>1. /\ kbd.buffer = [i \in 0 .. BufSize - 1 |-> 0] /\ kbd.rpos = 0 /\ kbd.wpos = 0
        /\ kbd.keys = 0 /\ kbd.queue = {} /\ kbd.reader = [t \in Thread |-> Away]
        /\ kbd.read = << >> /\ DOMAIN kbd = {"buffer", "rpos", "wpos", "keys", "queue", "reader",
                                             "overrun", "read"}
    BY DEF Init
  <2>2. Away \in Reader
    BY EmptySeq DEF Away, Reader
  <2>3. IsKbd(kbd)
    BY <2>1, <2>2, EmptySeq DEF IsKbd
  <2>4. RingInv(kbd)
    BY <2>1, EmptySeq DEF RingInv
  <2>5. SleepersInv(kbd)
    BY <2>1 DEF SleepersInv, Away
  <2> QED BY <2>3, <2>4, <2>5 DEF KbdInv
<1>2. FileInv
  BY DEF Init, FileInv, NoFile, End, Device
<1>3. FifoInv
  <2>1. IsFifo(NoFifo)
    BY DEF IsFifo, NoFifo, One, End
  <2>2. \A n \in PName, e \in End : Open(n, e) = {}
    BY DEF Init, Open, NoFile
  <2>3. \A e \in End : NoFifo.ref[e] = 0 /\ NoFifo.open[e] = 0
    BY DEF NoFifo
  <2>4. fifo = [n \in PName |-> NoFifo]
    BY DEF Init
  <2> HIDE DEF Init
  <2> QED BY <2>1, <2>2, <2>3, <2>4, FS_EmptySet DEF FifoInv
<1> QED BY <1>1, <1>2, <1>3 DEF IndInv

(* Every call and interrupt keeps the invariant.                           *)
LEMMA NextIndInv == IndInv /\ [Next]_vars => IndInv'
<1> SUFFICES ASSUME IndInv, [Next]_vars PROVE IndInv'
  OBVIOUS
<1> USE DEF IndInv
<1>1. CASE UNCHANGED vars
  BY <1>1 DEF vars, KbdInv, FifoInv, FileInv, Open
<1>2. CASE KbdNext
  <2>1. KbdInv'
    BY <1>2, KbdStep
  <2>2. UNCHANGED <<fifo, file>>
    BY <1>2 DEF KbdNext, Key, Read, Resume, Kill
  <2>3. FifoInv' /\ FileInv'
    BY <2>2 DEF FifoInv, FileInv, Open
  <2> QED BY <2>1, <2>3
<1>3. CASE FileNext
  <2>1. UNCHANGED kbd
    BY <1>3 DEF FileNext, OpenFifo, OpenDev, CloseFifo, CloseDev
  <2>2. FifoInv' /\ FileInv'
    BY <1>3, OpenFifoStep, CloseFifoStep, DevStep DEF FileNext, Device
  <2> QED BY <2>1, <2>2 DEF KbdInv
<1> QED BY <1>1, <1>2, <1>3 DEF Next

(* For rings, reads and histories of any length and any number of readers, *)
(* files and names: keys reach the readers in order, nobody sleeps over an *)
(* unread key, the ends of a named pipe share one pipe, and a device is    *)
(* open only in the modes it accepts.                                      *)
THEOREM DevicesHold == Spec => []DeviceFilesSound
<1>1. IndInv => DeviceFilesSound
  BY KbdSound, FilesSound DEF IndInv, DeviceFilesSound
<1> QED BY <1>1, InitIndInv, NextIndInv, PTL DEF Spec
=============================================================================
