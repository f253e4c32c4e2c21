------------------------------- MODULE Umalloc -------------------------------
(***************************************************************************)
(* malloc, shmem_malloc and free of the user library                       *)
(* (libs-user-ucore/malloc.c): one circular free list, sorted by address,  *)
(* of blocks of both types, ordinary memory from sys_brk and shared memory *)
(* from sys_shmem.  Addresses and sizes count headers.  The lock makes a   *)
(* call one step for the threads of a process.                             *)
(***************************************************************************)
EXTENDS Integers, FiniteSets, SequencesExt

CONSTANTS
    Brk0, Top,       \* the heap grows up from Brk0, shared areas down from Top
    Page,            \* headers to a page
    MaxUnits,        \* bound: units of one request
    MaxBlocks        \* more than the blocks that fit: bound of the loops

VARIABLE heap        \* ptr, size, type of the headers; freep, brk, shm; live: blocks in use

Base == 0            \* &base: below the heap
Header == {Base} \cup (Brk0 .. Top)
Null == -1
RoundUp(n) == ((n + Page - 1) \div Page) * Page

Init == heap = [ptr |-> [a \in Header |-> Null], size |-> [a \in Header |-> 0],
                type |-> [a \in Header |-> 0], freep |-> Null, brk |-> 0, top |-> Top,
                live |-> {}]

Times(n) == [i \in 1 .. n |-> i]

(* The loop of free_locked: the free block behind which bp belongs.        *)
Place(h, bp) ==
    FoldLeft(LAMBDA p, i :
                IF bp > p /\ bp < h.ptr[p] THEN p
                ELSE IF p >= h.ptr[p] /\ (bp > p \/ bp < h.ptr[p]) THEN p
                ELSE h.ptr[p],
             h.freep, Times(MaxBlocks))

Free_NoTypes(h, bp) ==
    LET p == Place(h, bp)
        next == h.ptr[p]
        up == bp + h.size[bp] = next
        h1 == [h EXCEPT !.size[bp] = IF up THEN @ + h.size[next] ELSE @,
                        !.ptr[bp] = IF up THEN h.ptr[next] ELSE next]
        down == p + h1.size[p] = bp
    IN  [h1 EXCEPT !.size[p] = IF down THEN @ + h1.size[bp] ELSE @,
                   !.ptr[p] = IF down THEN h1.ptr[bp] ELSE bp, !.freep = p]

(* free_locked: joined to the block above and to the block below if they   *)
(* touch and are of one type.                                              *)
FreeLocked(h, bp) ==
    LET p == Place(h, bp)
        next == h.ptr[p]
        up == h.type[bp] = h.type[next] /\ bp + h.size[bp] = next
        h1 == [h EXCEPT !.size[bp] = IF up THEN @ + h.size[next] ELSE @,
                        !.ptr[bp] = IF up THEN h.ptr[next] ELSE next]
        down == h1.type[p] = h1.type[bp] /\ p + h1.size[p] = bp
    IN  [h1 EXCEPT !.size[p] = IF down THEN @ + h1.size[bp] ELSE @,
                   !.ptr[p] = IF down THEN h1.ptr[bp] ELSE bp, !.freep = p]

(* morecore_brk_locked; do_brk rounds the new end up to a page and keeps a *)
(* page free above it.                                                     *)
MorecoreBrk(h, nu) ==
    LET brk == IF h.brk = 0 THEN Brk0 ELSE h.brk
        newbrk == RoundUp(brk + nu)
        h1 == [h EXCEPT !.brk = brk, !.size[brk] = newbrk - brk, !.type[brk] = 0]
    IN  IF newbrk + Page > h.top THEN [h |-> [h EXCEPT !.brk = brk], ok |-> FALSE]
        ELSE [h |-> [FreeLocked(h1, brk) EXCEPT !.brk = newbrk], ok |-> TRUE]

(* morecore_shmem_locked; get_unmapped_area takes the highest gap.         *)
MorecoreShmem(h, nu) ==
    LET mem == h.top - RoundUp(nu)
        h1 == [h EXCEPT !.size[mem] = RoundUp(nu), !.type[mem] = 1, !.top = mem]
    IN  IF mem < (IF h.brk = 0 THEN Brk0 ELSE h.brk) THEN [h |-> h, ok |-> FALSE]
        ELSE [h |-> FreeLocked(h1, mem), ok |-> TRUE]

Morecore(h, nu, type) == IF type = 0 THEN MorecoreBrk(h, nu) ELSE MorecoreShmem(h, nu)

(* One turn of the loop of malloc_locked at block r.p behind r.prevp.      *)
Turn(r, nunits, type) ==
    LET h == r.h p == r.p
        np == p + nunits
        more == Morecore(h, nunits, type)
    IN  IF r.done THEN r
        ELSE IF h.type[p] = type /\ h.size[p] >= nunits
        THEN [r EXCEPT !.done = TRUE, !.got = p, !.h =
                IF h.size[p] = nunits
                THEN [h EXCEPT !.ptr[r.prevp] = h.ptr[p], !.freep = r.prevp]
                ELSE [h EXCEPT !.ptr = [@ EXCEPT ![r.prevp] = np, ![np] = h.ptr[p]],
                               !.size = [@ EXCEPT ![np] = h.size[p] - nunits, ![p] = nunits],
                               !.type[np] = type, !.freep = r.prevp]]
        ELSE IF p = h.freep /\ ~more.ok THEN [r EXCEPT !.done = TRUE, !.h = more.h]
        ELSE LET h1 == IF p = h.freep THEN more.h ELSE h
             IN  [r EXCEPT !.h = h1, !.prevp = p, !.p = h1.ptr[p]]

(* malloc_locked                                                           *)
MallocLocked(h0, nunits, type) ==
    LET h == IF h0.freep = Null THEN [h0 EXCEPT !.ptr[Base] = Base, !.freep = Base, !.size[Base] = 0]
             ELSE h0
    IN  FoldLeft(LAMBDA r, i : Turn(r, nunits, type),
                 [h |-> h, prevp |-> h.freep, p |-> h.ptr[h.freep], done |-> FALSE, got |-> Null],
                 Times(2 * MaxBlocks))

-----------------------------------------------------------------------------
(* What a header was before its memory was given out or joined to another  *)
(* block is not read again: it is forgotten.                               *)
FreeList(h) ==
    FoldLeft(LAMBDA S, i : S \cup {h.ptr[x] : x \in S}, {Base}, Times(MaxBlocks)) \ {Base}
Forget(h) ==
    LET free == FreeList(h) \cup {Base}
        heads == free \cup {b.at : b \in h.live}
    IN  [h EXCEPT !.ptr = [a \in Header |-> IF a \in free THEN @[a] ELSE Null],
                  !.size = [a \in Header |-> IF a \in heads THEN @[a] ELSE 0],
                  !.type = [a \in Header |-> IF a \in heads THEN @[a] ELSE 0]]

Malloc(nunits, type) ==
    \E r \in {MallocLocked(heap, nunits, type)} :
        heap' = IF r.got = Null THEN Forget(r.h)
                ELSE Forget([r.h EXCEPT !.live = @ \cup {[at |-> r.got, units |-> nunits, type |-> type]}])

Free(b) == heap' = Forget([FreeLocked(heap, b.at) EXCEPT !.live = @ \ {b}])

Next == \/ \E nunits \in 2 .. MaxUnits, type \in {0, 1} : Malloc(nunits, type)
        \/ \E b \in heap.live : Free(b)

-----------------------------------------------------------------------------
Span(a, n) == a .. a + n - 1
Live(b) == Span(b.at, heap.size[b.at])

(* Blocks in use keep their size and type and overlap neither each other   *)
(* nor a free block; together they are all the memory that the kernel has  *)
(* given; the list is sorted, and no two free blocks of one type that      *)
(* touch are left apart, although heap and shared memory may meet.         *)
HeapSound ==
    heap.freep # Null =>
        /\ \A b \in heap.live : /\ heap.size[b.at] = b.units /\ heap.type[b.at] = b.type
                                /\ b.type = 1 <=> b.at >= heap.top
        /\ \A b, c \in heap.live : b # c => Live(b) \cap Live(c) = {}
        /\ \A a \in FreeList(heap) :
            /\ \A b \in heap.live : Span(a, heap.size[a]) \cap Live(b) = {}
            /\ heap.ptr[a] > a \/ heap.ptr[a] = Base
            /\ \A c \in FreeList(heap) \ {a} :
                /\ Span(a, heap.size[a]) \cap Span(c, heap.size[c]) = {}
                /\ ~(a + heap.size[a] = c /\ heap.type[a] = heap.type[c])
        /\ UNION {Span(a, heap.size[a]) : a \in FreeList(heap)} \cup UNION {Live(b) : b \in heap.live}
             = (IF heap.brk = 0 THEN {} ELSE Span(Brk0, heap.brk - Brk0)) \cup Span(heap.top, Top - heap.top)
=============================================================================
