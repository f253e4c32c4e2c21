--------------------------------- MODULE Kmm ---------------------------------
(***************************************************************************)
(* The allocator of kern-river (kern-river/mm/kmm.c): per CPU one list of  *)
(* free blocks for each power of two, cut from runs of pages that double   *)
(* in length.  A block that was never used is not linked: its first word   *)
(* is 0, and the next block follows it in memory.                          *)
(*                                                                         *)
(* Addresses are bytes; META_SIZE and MIN_ALLOC are one word.  The list    *)
(* heads lie at the same address on every CPU, each with its own memory    *)
(* behind it: what one CPU frees goes to its own list.  kalloc_pages       *)
(* always finds pages (NPages bounds it): kmm_ialloc tests for 0, which    *)
(* page2pa(NULL) is not.                                                   *)
(***************************************************************************)
EXTENDS Integers, FiniteSets, FiniteSetsExt

CONSTANTS
    Cpu,
    MinShift, Delta,         \* MIN_SHIFT, ALLOC_DELTA_SHIFT
    PGSIZE,
    MinBlock, MaxBlock,      \* MIN_BLOCK_PAGE, MAX_BLOCK_PAGE
    NPages, Sizes, MaxUsed

VARIABLE km                  \* ctrl, word, free (pages), used (blocks)

META == 2 ^ MinShift
Words == {a \in PGSIZE .. (NPages + 1) * PGSIZE - 1 : a % META = 0}
Class == 0 .. Delta
AllocSize(i) == META * 2 ^ i
None == -1
Junk == -2                   \* what a user may write
CtrlOf(i) == -3 - i          \* the address of ctrl[i]

(* kmm_init                                                                *)
Init ==
    km = [ctrl |-> [c \in Cpu |-> [i \in Class |-> [head |-> None, psize |-> MinBlock]]],
          word |-> [a \in Words |-> Junk],
          free |-> 1 .. NPages,
          used |-> {}]

(* kalloc_pages: a run of n free pages, the first there is.                *)
Runs(k, n) == {p \in k.free : p .. p + n - 1 \subseteq k.free}
TakePages(k, n) == [k EXCEPT !.free = @ \ (Min(Runs(k, n)) .. Min(Runs(k, n)) + n - 1)]

Bsr(x) == CHOOSE b \in 0 .. 16 : 2 ^ b <= x /\ x < 2 ^ (b + 1)

(* kalloc's size_index; no caller asks for 0 bytes.                        *)
SizeIndex(size) == Bsr(size + META - 1) - MinShift + 1

(* Bug: the pages are not cleared.                                         *)
Grow_NoClear(k, c, i) ==
    LET n == k.ctrl[c][i].psize
        b == Min(Runs(k, n)) * PGSIZE
        tail == b + ((n * PGSIZE) \div AllocSize(i) - 1) * AllocSize(i)
    IN  [TakePages(k, n) EXCEPT
            !.ctrl[c][i] = [head |-> b, psize |-> IF n < MaxBlock THEN 2 * n ELSE n],
            !.word[tail] = None]

(* kmm_ialloc when the list is empty: a run of zeroed pages, the last      *)
(* block of which ends the list.                                           *)
Grow(k, c, i) ==
    LET n == k.ctrl[c][i].psize
        b == Min(Runs(k, n)) * PGSIZE
        tail == b + ((n * PGSIZE) \div AllocSize(i) - 1) * AllocSize(i)
    IN  [TakePages(k, n) EXCEPT
            !.ctrl[c][i] = [head |-> b, psize |-> IF n < MaxBlock THEN 2 * n ELSE n],
            !.word = [a \in DOMAIN @ |-> IF a = tail THEN None
                                      ELSE IF a \in b .. b + n * PGSIZE - 1 THEN 0 ELSE @[a]]]

NextFree(k, i, h) == IF k.word[h] = 0 THEN h + AllocSize(i) ELSE k.word[h]

(* The user of a block may write all of it.                                *)
Written(w, from, len) == [a \in DOMAIN w |-> IF a \in from .. from + len - 1 THEN Junk ELSE w[a]]

Ialloc(k, c, i, size) ==
    LET g == IF k.ctrl[c][i].head = None THEN Grow(k, c, i) ELSE k
        h == g.ctrl[c][i].head
    IN  [g EXCEPT !.ctrl[c][i].head = NextFree(g, i, h),
                  !.word = [Written(@, h + META, size) EXCEPT ![h] = CtrlOf(i)],
                  !.used = @ \cup {[ptr |-> h + META, size |-> size]}]

(* The pages of a large block are preceded by one that holds their number. *)
LargePages_NoHeader(size) == (size + PGSIZE - 1) \div PGSIZE  \* bug
LargePages(size) == (size + 2 * PGSIZE - 1) \div PGSIZE
AllocLarge(k, size) ==
    LET n == LargePages(size)
        ptr == Min(Runs(k, n)) * PGSIZE + PGSIZE
    IN  [TakePages(k, n) EXCEPT
            !.word = [Written(@, ptr, size) EXCEPT ![ptr - META] = n],
            !.used = @ \cup {[ptr |-> ptr, size |-> size]}]

Kalloc(c, size) ==
    /\ Cardinality(km.used) < MaxUsed
    /\ LET i == SizeIndex(size)
           need == IF i > Delta THEN LargePages(size)
                   ELSE IF km.ctrl[c][i].head = None THEN km.ctrl[c][i].psize ELSE 0
       IN  /\ need > 0 => Runs(km, need) # {}
           /\ km' = IF i > Delta THEN AllocLarge(km, size) ELSE Ialloc(km, c, i, size)

(* kfree: a pointer to the start of a page is that of a large block.       *)
Kfree(c, u) ==
    LET h == u.ptr - META
        i == -3 - km.word[h]
    IN  km' = IF u.ptr % PGSIZE # 0
              THEN [km EXCEPT !.word[h] = km.ctrl[c][i].head, !.ctrl[c][i].head = h,
                              !.used = @ \ {u}]
              ELSE LET p == u.ptr \div PGSIZE - 1
                   IN  [km EXCEPT !.free = @ \cup p .. p + km.word[h] - 1, !.used = @ \ {u}]

Next ==
    \E c \in Cpu :
        \/ \E size \in Sizes : Kalloc(c, size)
        \/ \E u \in km.used : Kfree(c, u)

Spec == Init /\ [][Next]_km

-----------------------------------------------------------------------------
(* The blocks of a list.                                                   *)
ListOf(c, i) ==
    LET seen[n \in Nat] ==
            IF n = 0 THEN {km.ctrl[c][i].head} \cap DOMAIN km.word
            ELSE LET s == seen[n - 1] IN s \cup ({NextFree(km, i, h) : h \in s} \cap DOMAIN km.word)
    IN  seen[(NPages * PGSIZE) \div AllocSize(i)]

ListEnds(c, i) ==
    \/ km.ctrl[c][i].head = None
    \/ /\ km.ctrl[c][i].head \in DOMAIN km.word
       /\ \A h \in ListOf(c, i) : NextFree(km, i, h) \in DOMAIN km.word \cup {None}
       /\ \E h \in ListOf(c, i) : NextFree(km, i, h) = None

(* All there is, as <<owner, class, first byte, length>>.                  *)
UsedBlock(u) ==
    IF SizeIndex(u.size) > Delta
    THEN <<"used", 0, u.ptr - PGSIZE, LargePages(u.size) * PGSIZE>>
    ELSE <<"used", 0, u.ptr - META, AllocSize(SizeIndex(u.size))>>
Extents ==
    {UsedBlock(u) : u \in km.used}
    \cup {<<"page", 0, p * PGSIZE, PGSIZE>> : p \in km.free}
    \cup UNION {{<<c, i, h, AllocSize(i)>> : h \in ListOf(c, i)} : c \in Cpu, i \in Class}

(* Every word is in exactly one place: a free page, a free block of one    *)
(* list, or a block in use, which is as large as it was asked for.  It     *)
(* holds although lists run through memory that users have written, and    *)
(* blocks are freed on another CPU than they came from.                    *)
KmmSound ==
    /\ \A c \in Cpu, i \in Class : ListEnds(c, i)
    /\ LET all == Extents
       IN  \A a \in DOMAIN km.word : Cardinality({x \in all : a \in x[3] .. x[3] + x[4] - 1}) = 1
    /\ \A u \in km.used : u.ptr + u.size <= UsedBlock(u)[3] + UsedBlock(u)[4]
=============================================================================
