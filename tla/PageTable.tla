----------------------------- MODULE PageTable -----------------------------
(***************************************************************************)
(* The four-level page tables of one address space and the loops of        *)
(* kern-ucore/glue-ucore/pmm.c that walk a range of them.  Addresses count *)
(* pages and wrap at WORD; a table has NPGENTRY entries.  d.tab holds the  *)
(* tables that are present, each named by the indices that lead to it      *)
(* (<<pgx>> a pud table, <<pgx, pux>> a pmd table, ... ); d.pte the        *)
(* entries that are not zero.  alloc_pages never answers NULL: it does not *)
(* look at the result of kalloc_pages.                                     *)
(***************************************************************************)
EXTENDS Integers, Sequences, FiniteSets, FiniteSetsExt

CONSTANTS
    NPGENTRY,
    Area          \* the areas mapped in the address space, as <<start, end>>

VARIABLE d
ptvars == <<d>>

PTSIZE == NPGENTRY
PMSIZE == NPGENTRY * PTSIZE
PUSIZE == NPGENTRY * PMSIZE
WORD == NPGENTRY * PUSIZE
RoundDown(n, a) == (n \div a) * a
PGX(la) == la \div PUSIZE
PUX(la) == (la % PUSIZE) \div PMSIZE
PMX(la) == (la % PMSIZE) \div PTSIZE
Fresh == [tab |-> {}, pte |-> {}]

(* get_pud, get_pmd and get_pte without create: the table is there         *)
HasPud(g, la) == <<PGX(la)>> \in g.tab
HasPmd(g, la) == HasPud(g, la) /\ <<PGX(la), PUX(la)>> \in g.tab
HasPte(g, la) == HasPmd(g, la) /\ <<PGX(la), PUX(la), PMX(la)>> \in g.tab

(* and with create                                                         *)
MakePte(g, la) ==
    [g EXCEPT !.tab = @ \cup {<<PGX(la)>>, <<PGX(la), PUX(la)>>,
                              <<PGX(la), PUX(la), PMX(la)>>}]
Entry(g, la) == HasPte(g, la) /\ la \in g.pte

(* page_insert, and page_remove_pte: the use counts are those of Swap      *)
PageInsert(g, la) == [MakePte(g, la) EXCEPT !.pte = @ \cup {la}]
PageRemovePte(g, la) == [g EXCEPT !.pte = @ \ {la}]

(* One loop for unmap_range_pmd, _pud and _pgd, which differ in the size   *)
(* of their entries: Sub(g, base, off, end) is the call on the table below *)
(* the entry at la, if that table is present.                              *)
Chunk_WholeEntry(start, end, la, size) == size - (start - la)
Chunk(start, end, la, size) == IF size - (start - la) > end - start
                               THEN end - start ELSE size - (start - la)

RECURSIVE UnmapPte(_, _, _, _)
UnmapPte(g, base, start, end) ==
    LET h == PageRemovePte(g, base + start) IN
    IF start + 1 < end THEN UnmapPte(h, base, start + 1, end) ELSE h

RECURSIVE UnmapPmd(_, _, _, _, _)
UnmapPmd(g, base, start, end, la) ==
    LET size == Chunk(start, end, la, PTSIZE)
        off == start - la
        h == IF HasPte(g, base + la) THEN UnmapPte(g, base + la, off, off + size) ELSE g
    IN IF start + size < end THEN UnmapPmd(h, base, start + size, end, la + PTSIZE) ELSE h

RECURSIVE UnmapPud(_, _, _, _, _)
UnmapPud(g, base, start, end, la) ==
    LET size == Chunk(start, end, la, PMSIZE)
        off == start - la
        h == IF HasPmd(g, base + la)
             THEN UnmapPmd(g, base + la, off, off + size, RoundDown(off, PTSIZE)) ELSE g
    IN IF start + size < end THEN UnmapPud(h, base, start + size, end, la + PMSIZE) ELSE h

RECURSIVE UnmapPgd(_, _, _, _)
UnmapPgd(g, start, end, la) ==
    LET size == Chunk(start, end, la, PUSIZE)
        off == start - la
        next == (start + size) % WORD
        h == IF HasPud(g, la)
             THEN UnmapPud(g, la, off, off + size, RoundDown(off, PMSIZE)) ELSE g
    IN IF next # 0 /\ next < end THEN UnmapPgd(h, next, end, la + PUSIZE) ELSE h
UnmapRange(g, start, end) == UnmapPgd(g, start, end, RoundDown(start, PUSIZE))

(* exit_range: all the tables below the pgd entries the range touches go,  *)
(* with exit_range_pud and exit_range_pmd, whatever their entries hold.    *)
RECURSIVE ExitPgd(_, _, _)
ExitPgd(g, start, end) ==
    LET h == IF HasPud(g, start)
             THEN [g EXCEPT !.tab = {p \in @ : p[1] # PGX(start)}] ELSE g
        next == (start + PUSIZE) % WORD
    IN IF next # 0 /\ next < end THEN ExitPgd(h, next, end) ELSE h
ExitRange(g, start, end) == ExitPgd(g, RoundDown(start, PUSIZE), end)

(* copy_range: where a table is missing its whole span is skipped.         *)
RECURSIVE CopyRange(_, _, _, _)
CopyRange(to, from, start, end) ==
    LET skip(size) == RoundDown(start + size, size) % WORD
        next == IF HasPte(from, start) THEN (start + 1) % WORD
                ELSE IF ~HasPud(from, start) THEN skip(PUSIZE)
                ELSE IF ~HasPmd(from, start) THEN skip(PMSIZE)
                ELSE skip(PTSIZE)
        copied == IF Entry(from, start) THEN PageInsert(to, start) ELSE to
    IN IF next # 0 /\ next < end THEN CopyRange(copied, from, next, end) ELSE copied

(* exit_mmap and dup_mmap of mm/vmm.c, over the list of areas              *)
ExitMmap(g) ==
    LET unmap(a, h) == UnmapRange(h, a[1], a[2])
        leave(a, h) == ExitRange(h, a[1], a[2])
    IN FoldSet(leave, FoldSet(unmap, g, Area), Area)
DupMmap(g) == FoldSet(LAMBDA a, h : CopyRange(h, g, a[1], a[2]), Fresh, Area)

Init == d = Fresh
Map(a, la) == a[1] <= la /\ la < a[2] /\ ~Entry(d, la) /\ d' = PageInsert(d, la)
Unmap(a, s, e) == a[1] <= s /\ s < e /\ e <= a[2] /\ d' = UnmapRange(d, s, e)
Fork == d.pte # {} /\ d' = DupMmap(d)          \* on with the child's tables
Exit == d # Fresh /\ d' = ExitMmap(d)

Next ==
    \/ \E a \in Area : \E la \in 0..(WORD - 1) : Map(a, la)
    \/ \E a \in Area : \E s, e \in 0..WORD : Unmap(a, s, e)
    \/ Fork
    \/ Exit

Spec == Init /\ [][Next]_ptvars
-----------------------------------------------------------------------------
Span(s, e) == {la \in 0..(WORD - 1) : s <= la /\ la < e}

(* The loops over the levels touch what their range names and nothing      *)
(* else, wherever it starts and ends in the tables: an unmapped range has  *)
(* no entry left and the rest has all of its own; a copy has the entries   *)
(* of the original; and an exit leaves neither an entry nor a table, so    *)
(* that put_pgdir frees the last page of the address space.                *)
RangesExact ==
    /\ \A a \in Area : \A s, e \in Span(a[1], a[2] + 1) :
          s < e => UnmapRange(d, s, e) = [d EXCEPT !.pte = @ \ Span(s, e)]
    /\ DupMmap(d).pte = d.pte
    /\ ExitMmap(d) = Fresh
    /\ \A p \in d.tab : \A n \in 1..Len(p) : SubSeq(p, 1, n) \in d.tab
    /\ \A la \in d.pte : HasPte(d, la)
=============================================================================
