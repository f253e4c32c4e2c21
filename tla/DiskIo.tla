------------------------------- MODULE DiskIo -------------------------------
(***************************************************************************)
(* From a file system's block to the sectors of a disk: the IDE driver     *)
(* (driver/ide.c), disk0 with its bounce buffer (fs/devs/dev_disk0.c),     *)
(* iobuf.c, swapfs.c and the block operations of sfs (sfs_io.c); the       *)
(* bitmap of free blocks in words (bitmap.c); and the three loaders that   *)
(* read sectors before there is a file system (bootloader/bootmain.c,      *)
(* supervisor/init/kern.c).                                                *)
(*                                                                         *)
(* The driver polls and never gives the CPU away, so an operation is one   *)
(* step.  Data are counted in sectors, of which each holds one value.      *)
(***************************************************************************)
EXTENDS Integers, FiniteSets, SequencesExt

CONSTANTS
    NSect,           \* sectors of the disk
    BlkSect,         \* DISK0_BLK_NSECT
    BufBlks,         \* DISK0_BUFSIZE / DISK0_BLKSIZE
    Byte, Nibble,    \* values of an address register (256), and of the last one (16)
    WordBits, NBits, \* of the bitmap
    Value            \* contents of a sector

VARIABLES io, map, boot

Sector == 0 .. NSect - 1
Lesser(m, n) == IF m < n THEN m ELSE n

-----------------------------------------------------------------------------
(* The four registers that ide_read_secs and ide_write_secs load, and the  *)
(* sector at which the controller then begins.                             *)
Regs(secno) == <<secno % Byte, (secno \div Byte) % Byte, (secno \div Byte^2) % Byte,
                 (secno \div Byte^3) % Nibble>>

Addressed(regs) == regs[1] + Byte * regs[2] + Byte^2 * regs[3] + Byte^3 * regs[4]

(* ide_write_secs: sector after sector until the drive reports an error;   *)
(* done is the number it has taken by then.                                *)
IdeWrite(disk, secno, data, done) ==
    LET first == Addressed(Regs(secno))
    IN  [x \in Sector |-> IF x \in first .. first + Lesser(done, Len(data)) - 1
                          THEN data[x - first + 1] ELSE disk[x]]

(* ide_read_secs: what the caller finds in its buffer.                     *)
IdeRead(disk, secno, n, done, old) ==
    LET first == Addressed(Regs(secno))
    IN  [i \in 1 .. Len(old) |-> IF i <= Lesser(n, done) THEN disk[first + i - 1] ELSE old[i]]

(* iobuf_move: at most len of what is left, to the caller's memory (m2b)   *)
(* or from it.                                                             *)
IobufMove(iob, data, len, m2b) ==
    LET n == Lesser(iob.resid, len)
        part == SubSeq(iob.base, iob.pos + 1, iob.pos + n)
        base == [i \in 1 .. Len(iob.base) |->
                   IF i \in iob.pos + 1 .. iob.pos + n THEN data[i - iob.pos] ELSE iob.base[i]]
        after == [iob EXCEPT !.pos = @ + n, !.resid = @ - n]
    IN  IF m2b THEN [iob |-> [after EXCEPT !.base = base], data |-> data, copied |-> n]
        ELSE [iob |-> after, copied |-> n,
              data |-> [i \in 1 .. Len(data) |-> IF i <= n THEN part[i] ELSE data[i]]]

Buffer == [i \in 1 .. BufBlks * BlkSect |-> 0]

Turn_SameBlock(r, write, done) ==
    LET alen == BufBlks * BlkSect
        in == IobufMove(r.iob, Buffer, alen, FALSE)
    IN  IF r.iob.resid = 0 THEN r
        ELSE [r EXCEPT !.iob = in.iob,
                       !.disk = IdeWrite(r.disk, r.blkno * BlkSect,
                                         SubSeq(in.data, 1, in.copied), done)]

(* One turn of the loop of disk0_io, through disk0_buffer.                 *)
Turn(r, write, done) ==
    LET alen == BufBlks * BlkSect
        n == Lesser(alen, r.iob.resid)
        in == IobufMove(r.iob, Buffer, alen, FALSE)
        out == IobufMove(r.iob, IdeRead(r.disk, r.blkno * BlkSect, n, done, Buffer), n, TRUE)
    IN  IF r.iob.resid = 0 \/ r.panic THEN r
        ELSE IF done < n /\ ~write THEN [r EXCEPT !.panic = TRUE]
        ELSE IF write
        THEN [r EXCEPT !.iob = in.iob, !.blkno = @ + (in.copied \div BlkSect), !.panic = done < n,
                       !.disk = IdeWrite(r.disk, r.blkno * BlkSect,
                                         SubSeq(in.data, 1, in.copied), done)]
        ELSE [r EXCEPT !.iob = out.iob, !.blkno = @ + (out.copied \div BlkSect)]

(* disk0_io                                                                *)
Disk0Io(disk, off, mem, write, done) ==
    LET start == [disk |-> disk, iob |-> [base |-> mem, pos |-> 0, resid |-> Len(mem)],
                  blkno |-> off \div BlkSect, panic |-> FALSE]
    IN  IF off % BlkSect # 0 \/ Len(mem) % BlkSect # 0 THEN [start EXCEPT !.blkno = -1]
        ELSE IF (off \div BlkSect) + (Len(mem) \div BlkSect) > NSect \div BlkSect
        THEN [start EXCEPT !.blkno = -1]
        ELSE FoldLeft(LAMBDA r, i : Turn(r, write, done), start, [i \in 1 .. Len(mem) |-> i])

-----------------------------------------------------------------------------
(* The operations, each on sectors off .. off + len - 1.  ref is the disk  *)
(* as it should be, got what a read brought.                               *)
InitIo == io = [disk |-> [x \in Sector |-> 0], ref |-> [x \in Sector |-> 0],
                got |-> << >>, want |-> << >>, panic |-> FALSE]

Overwritten(disk, off, data) ==
    [x \in Sector |-> IF x \in off .. off + Len(data) - 1 THEN data[x - off + 1] ELSE disk[x]]

Granted(off, len) == off % BlkSect = 0 /\ len % BlkSect = 0 /\ off + len <= NSect

(* disk0 through dev_io; an error of the drive ends in panic().            *)
Disk0Write(off, data, done) ==
    /\ ~io.panic
    /\ \E r \in {Disk0Io(io.disk, off, data, TRUE, done)} :
        io' = [io EXCEPT !.disk = r.disk, !.panic = r.panic, !.got = << >>, !.want = << >>,
                         !.ref = IF r.panic \/ ~Granted(off, Len(data)) THEN @
                                 ELSE Overwritten(@, off, data)]

Disk0Read(off, len, done) ==
    /\ ~io.panic
    /\ \E r \in {Disk0Io(io.disk, off, [i \in 1 .. len |-> -1], FALSE, done)} :
        io' = [io EXCEPT !.panic = r.panic, !.got = r.iob.base,
                         !.want = IF r.panic \/ ~Granted(off, len) THEN r.iob.base
                                  ELSE [i \in 1 .. len |-> io.ref[off + i - 1]]]

(* swapfs_write and swapfs_read of one page; the caller gets the error.    *)
SwapfsWrite(entry, v, done) ==
    /\ ~io.panic
    /\ LET data == [i \in 1 .. BlkSect |-> v] IN
       io' = [io EXCEPT !.disk = IdeWrite(@, entry * BlkSect, data, done), !.got = << >>,
                        !.want = << >>,
                        !.ref = Overwritten(@, entry * BlkSect, SubSeq(data, 1, Lesser(done, BlkSect)))]

SwapfsRead(entry) ==
    /\ ~io.panic
    /\ io' = [io EXCEPT !.got = IdeRead(io.disk, entry * BlkSect, BlkSect, BlkSect,
                                        [i \in 1 .. BlkSect |-> -1]),
                        !.want = [i \in 1 .. BlkSect |-> io.ref[entry * BlkSect + i - 1]]]

(* sfs_wbuf: one block read into sfs_buffer, changed in part and written.  *)
SfsWbuf(blkno, at, v) ==
    /\ ~io.panic
    /\ \E r \in {Disk0Io(io.disk, blkno * BlkSect, [i \in 1 .. BlkSect |-> -1], FALSE, BlkSect)} :
        io' = [io EXCEPT !.disk = Disk0Io(@, blkno * BlkSect, [r.iob.base EXCEPT ![at] = v],
                                          TRUE, BlkSect).disk,
                         !.ref = Overwritten(@, blkno * BlkSect + at - 1, <<v>>),
                         !.got = << >>, !.want = << >>]

NextIo ==
    \/ \E off \in Sector, len \in 0 .. NSect, v, w \in Value, done \in {1, NSect} :
        \/ Disk0Write(off, [i \in 1 .. len |-> IF i <= BlkSect THEN v ELSE w], done)
        \/ Disk0Read(off, len, done)
    \/ \E entry \in 0 .. (NSect \div BlkSect) - 1 :
        \/ \E v \in Value, done \in {1, BlkSect} : SwapfsWrite(entry, v, done)
        \/ SwapfsRead(entry)
        \/ \E at \in 1 .. BlkSect, v \in Value : SfsWbuf(entry, at, v)

-----------------------------------------------------------------------------
(* bitmap.c.  A word is the set of its bits that are 1, that is free.      *)
NWords == (NBits + WordBits - 1) \div WordBits
Bit == 0 .. WordBits - 1

(* bitmap_create: bits behind the end are in use.                          *)
InitMap ==
    map = [word |-> [ix \in 0 .. NWords - 1 |->
                        IF ix = NWords - 1 /\ NBits # NWords * WordBits
                        THEN Bit \ (NBits - ix * WordBits .. WordBits - 1) ELSE Bit],
           free |-> 0 .. NBits - 1, last |-> -1]

Alloc_Any == {<<ix, offset>> \in (0 .. NWords - 1) \X Bit : offset \in map.word[ix]}

(* bitmap_alloc: the first word that is not 0, its lowest bit.             *)
FirstFree ==
    {<<ix, offset>> \in (0 .. NWords - 1) \X Bit :
        /\ \A j \in 0 .. ix - 1 : map.word[j] = {}
        /\ offset \in map.word[ix] /\ \A o \in 0 .. offset - 1 : o \notin map.word[ix]}

BitmapAlloc ==
    \/ \E at \in FirstFree :
        LET index == at[1] * WordBits + at[2] IN
        map' = [map EXCEPT !.word[at[1]] = @ \ {at[2]}, !.last = index, !.free = @ \ {index}]
    \/ FirstFree = {} /\ map' = [map EXCEPT !.last = -1]

Free_FixedWord(index) ==
    /\ index \notin map.free
    /\ map' = [map EXCEPT !.word[0] = @ \cup {index % WordBits}, !.free = @ \cup {index},
                          !.last = -1]

(* bitmap_free, bitmap_translate                                           *)
BitmapFree(index) ==
    /\ index \notin map.free
    /\ map' = [map EXCEPT !.word[index \div WordBits] = @ \cup {index % WordBits},
                          !.free = @ \cup {index}, !.last = -1]

NextMap == BitmapAlloc \/ \E index \in 0 .. NBits - 1 : BitmapFree(index)

-----------------------------------------------------------------------------
(* Loading.  The image on disk begins at sector 1; its bytes, SectSize to  *)
(* a sector, are numbered.  A segment goes to physical address pa.         *)
SectSize == 2
MaxAddr == 15
KernStart == 1

ReadSeg_NoRound(mem, pa, count, offset) ==
    [a \in 0 .. MaxAddr |-> IF a \in pa .. pa + count - 1
                            THEN (offset \div SectSize) * SectSize + a - pa ELSE mem[a]]

(* readseg, readsect: whole sectors from the one that holds offset on.     *)
ReadSeg(mem, pa, count, offset) ==
    LET from == pa - (offset % SectSize)
        secno == (offset \div SectSize) + KernStart
        sects == {k \in 0 .. MaxAddr : from + k * SectSize < pa + count}
        file(a) == ((secno - KernStart) + ((a - from) \div SectSize)) * SectSize + ((a - from) % SectSize)
    IN  [a \in 0 .. MaxAddr |->
           IF a >= from /\ (a - from) \div SectSize \in sects THEN file(a) ELSE mem[a]]

(* load_kern reads in pieces of at most piece sectors (64); jump_kern maps *)
(* each page of the kernel for one CPU: to the image, to a page of its own *)
(* or to the shared copy, whose end is cleared.                            *)
Layout == [text : {0}, pls : 1 .. 2, data : 2 .. 3, bss : 3 .. 4, end : 4 .. 5]

ReadSecs(n, piece) ==
    FoldLeft(LAMBDA r, i : LET cur == Lesser(piece, n - r.at)
                           IN  [at |-> r.at + cur,
                                dst |-> r.dst \o [k \in 1 .. cur |-> r.at + k - 1]],
             [at |-> 0, dst |-> << >>], [i \in 1 .. n |-> i]).dst

PageOf(l, cpu, i) ==
    IF i < l.pls THEN <<"image", i - l.text>>
    ELSE IF i < l.data THEN <<"own", cpu, i>>
    ELSE <<"share", i - l.data>>

Content(l, data, page) ==
    CASE page[1] = "image" -> data[page[2] + 1]
      [] page[1] = "own" -> data[page[3] - l.text + 1]
      [] page[1] = "share" -> IF page[2] < l.bss - l.data THEN data[l.data - l.text + page[2] + 1]
                              ELSE -1

InitBoot == boot = [mem |-> [a \in 0 .. MaxAddr |-> -1], seg |-> << >>]

(* bootmain loads the segments in the order of the program header, which   *)
(* ld sorts by address; they do not share a sector of memory.              *)
LoadSegment(pa, count, offset) ==
    /\ Len(boot.seg) < 2
    /\ pa % SectSize = offset % SectSize
    /\ \A i \in DOMAIN boot.seg :
         pa - (pa % SectSize) >= boot.seg[i].pa + boot.seg[i].count
    /\ pa >= 1 /\ pa + count <= MaxAddr
    /\ boot' = [mem |-> ReadSeg(boot.mem, pa, count, offset),
                seg |-> Append(boot.seg, [pa |-> pa, count |-> count, offset |-> offset])]

NextBoot == \E pa, count, offset \in 1 .. 6 : LoadSegment(2 * (pa - 1) + (offset % 2), count, offset)

-----------------------------------------------------------------------------
Init == InitIo /\ InitMap /\ InitBoot

(* The sectors read and written are those asked for, through registers,    *)
(* bounce buffer and pieces: the disk is what the granted requests make of *)
(* it, a refused request changes nothing, and a drive error half-way ends  *)
(* in panic() or leaves the part before it.                                *)
TransferExact ==
    /\ ~io.panic => io.disk = io.ref
    /\ io.got = io.want

(* The bitmap in words is the set of free blocks; the block handed out is  *)
(* a block of the disk, and full means full.                               *)
BitmapExact ==
    /\ {ix * WordBits + o : ix \in 0 .. NWords - 1, o \in Bit}
         \cap {ix * WordBits + o : <<ix, o>> \in Alloc_Any} = map.free
    /\ map.last < NBits
    /\ FirstFree = {} <=> map.free = {}

(* Every byte of every segment is in its place after the boot loader, also *)
(* when segments begin and end inside a sector; and every CPU sees the     *)
(* whole kernel image, with data shared, per-CPU data of its own and a     *)
(* cleared bss.                                                            *)
BootExact ==
    /\ \A i \in DOMAIN boot.seg : \A a \in 0 .. boot.seg[i].count - 1 :
         boot.mem[boot.seg[i].pa + a] = boot.seg[i].offset + a
    /\ boot.seg = << >> =>
        \A l \in {l \in Layout : l.pls <= l.data /\ l.data <= l.bss /\ l.bss <= l.end} :
        \A piece \in 1 .. 3 : \A i \in l.text .. l.end - 1 :
            LET data == ReadSecs(l.bss - l.text, piece) IN
            /\ Content(l, data, PageOf(l, 1, i)) = IF i < l.bss THEN i ELSE -1
            /\ (PageOf(l, 1, i) = PageOf(l, 2, i)) <=> i \notin l.pls .. l.data - 1
=============================================================================
