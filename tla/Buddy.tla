------------------------------- MODULE Buddy -------------------------------
(***************************************************************************)
(* The physical pages of the machine: supervisor/mm/buddy_pmm.c behind     *)
(* alloc_pages and free_pages of supervisor/mm/pmm.c, which run it with    *)
(* interrupts off and under pmm_lock, so that each call is one step.       *)
(* Pages are numbered as in the array pages[]; those in no zone are        *)
(* reserved.                                                               *)
(***************************************************************************)
EXTENDS Integers, Sequences, FiniteSets, SequencesExt

CONSTANTS
    ZoneBase, ZoneSize,   \* sequences: the zones init_memmap was called for
    NPage,                \* npage
    MaxOrder              \* MAX_ORDER

VARIABLES
    area,                 \* area[o]: the free list of order o, with nr_free
    property,             \* property[p]: the order of a PageProperty page, or -1
    used                  \* the blocks handed out, as <<first page, pages>>

bvars == <<area, property, used>>

Order == 0..MaxOrder
Zone == DOMAIN ZoneBase
InZone(z, p) == ZoneBase[z] <= p /\ p < ZoneBase[z] + ZoneSize[z]
ZoneNum(p) == IF \E z \in Zone : InZone(z, p) THEN CHOOSE z \in Zone : InZone(z, p) ELSE 0
Idx(p) == p - ZoneBase[ZoneNum(p)]                            \* page2idx
Bit(x, o) == (x \div 2^o) % 2 = 1
Flip(x, o) == IF Bit(x, o) THEN x - 2^o ELSE x + 2^o          \* x ^ (1 << o)

(* The lists and flags as one value b, which the operators return changed. *)
FreeLists == [area |-> area, property |-> property]
ListAdd(b, p, o) ==
    [b EXCEPT !.area[o].list = <<p>> \o @, !.area[o].nr_free = @ + 1, !.property[p] = o]
ListDel(b, p, o) ==
    [b EXCEPT !.area[o].list = SelectSeq(@, LAMBDA q : q # p),
              !.area[o].nr_free = @ - 1, !.property[p] = -1]

(* buddy_init_memmap: the largest blocks first, each at the next place     *)
InitMemmap(b, z) ==
    LET step(r, o) ==
            LET k == (ZoneSize[z] - r.at) \div 2^o
                ps == [i \in 1..k |-> ZoneBase[z] + r.at + (i - 1) * 2^o]
            IN [at |-> r.at + k * 2^o,
                b |-> FoldLeft(LAMBDA c, p : ListAdd(c, p, o), r.b, ps)]
    IN FoldLeft(step, [at |-> 0, b |-> b], [i \in 1..(MaxOrder + 1) |-> MaxOrder + 1 - i]).b

(* getorder                                                                *)
GetOrder(n) == CHOOSE o \in Order : n <= 2^o /\ \A k \in 0..(o - 1) : 2^k < n

(* page_is_buddy                                                           *)
IsBuddy_AnyOrder(b, p, o, z) == p \in 0..(NPage - 1) /\ ZoneNum(p) = z /\ b.property[p] >= 0
IsBuddy(b, p, o, z) == p \in 0..(NPage - 1) /\ ZoneNum(p) = z /\ b.property[p] = o

(* buddy_free_pages_sub: merge with the buddy as long as it is free.       *)
FreeSub(b, base, order) ==
    LET z == ZoneNum(base)
        merge(r, o) ==
            LET buddy == ZoneBase[z] + Flip(r.idx, o) IN
            IF o < order \/ r.stop THEN r
            ELSE IF ~IsBuddy(r.b, buddy, o, z) THEN [r EXCEPT !.stop = TRUE]
            ELSE [b |-> ListDel(r.b, buddy, o), stop |-> FALSE, order |-> o + 1,
                  idx |-> IF Bit(r.idx, o) THEN r.idx - 2^o ELSE r.idx]
        end == FoldLeft(merge, [b |-> b, idx |-> Idx(base), order |-> order, stop |-> FALSE],
                        [i \in 1..MaxOrder |-> i - 1])
    IN ListAdd(end.b, ZoneBase[z] + end.idx, end.order)

(* buddy_free_pages: cut the range into aligned blocks, upwards while they *)
(* grow and then downwards.                                                *)
FreePages(b, base, n) ==
    LET Cut(r, o) == [b |-> FreeSub(r.b, r.at, o), at |-> r.at + 2^o, n |-> r.n - 2^o]
        up(r, o) == IF r.n >= 2^o /\ Bit(Idx(r.at), o) THEN Cut(r, o) ELSE r
        down(r, o) == IF r.n >= 2^o THEN Cut(r, o) ELSE r
        grown == FoldLeft(up, [b |-> b, at |-> base, n |-> n],
                          [i \in 1..(MaxOrder + 1) |-> i - 1])
    IN FoldLeft(down, grown, [i \in 1..(MaxOrder + 1) |-> MaxOrder + 1 - i]).b

(* buddy_alloc_pages_sub: the first block of the smallest order that has   *)
(* one, halved until it fits.                                              *)
AllocSub(b, p, from, order) ==
    FoldLeft(LAMBDA c, o : IF o < order \/ o >= from THEN c ELSE ListAdd(c, p + 2^o, o),
             ListDel(b, p, from), [i \in 1..(MaxOrder + 1) |-> MaxOrder + 1 - i])

(* buddy_alloc_pages: the pages behind the n wanted go back at once.       *)
AllocFrom(b, p, from, n) ==
    LET order == GetOrder(n)
        c == AllocSub(b, p, from, order)
    IN IF n = 2^order THEN c ELSE FreePages(c, p + n, 2^order - n)

Fits(n) == {o \in Order : GetOrder(n) <= o /\ area[o].list # << >>}

Init ==
    LET empty == [area |-> [o \in Order |-> [list |-> << >>, nr_free |-> 0]],
                  property |-> [p \in 0..(NPage - 1) |-> -1]]
        b == FoldLeft(InitMemmap, empty, [z \in Zone |-> z])
    IN area = b.area /\ property = b.property /\ used = {}

AllocPages(n) ==
    /\ n <= 2^MaxOrder /\ Fits(n) # {}
    /\ LET from == CHOOSE o \in Fits(n) : \A k \in Fits(n) : o <= k
           p == Head(area[from].list)
       IN \E b \in {AllocFrom(FreeLists, p, from, n)} :
            area' = b.area /\ property' = b.property /\ used' = used \cup {<<p, n>>}

ReleasePages(block) ==
    /\ block \in used
    /\ \E b \in {FreePages(FreeLists, block[1], block[2])} :
         area' = b.area /\ property' = b.property /\ used' = used \ {block}

Next == (\E n \in 1..2^MaxOrder : AllocPages(n)) \/ (\E block \in used : ReleasePages(block))

Spec == Init /\ [][Next]_bvars
-----------------------------------------------------------------------------
FreeBlocks == UNION {{<<p, 2^o>> : p \in ToSet(area[o].list)} : o \in Order}
PagesOf(block) == block[1]..(block[1] + block[2] - 1)

(* Every page of every zone is in exactly one block, free or handed out;   *)
(* the free blocks are aligned in their zone and on the list of the order  *)
(* their first page says, nr_free counts them, and buddies that are both   *)
(* free have been merged, however requests were cut and freed.             *)
BuddySound ==
    /\ \A p \in 0..(NPage - 1) :
          Cardinality({x \in used \cup FreeBlocks : p \in PagesOf(x)})
            = IF ZoneNum(p) = 0 THEN 0 ELSE 1
    /\ \A o \in Order :
          /\ area[o].nr_free = Len(area[o].list) /\ IsInjective(area[o].list)
          /\ ToSet(area[o].list) = {p \in 0..(NPage - 1) : property[p] = o}
          /\ \A p \in ToSet(area[o].list) :
                /\ Idx(p) % 2^o = 0
                /\ o < MaxOrder => LET q == ZoneBase[ZoneNum(p)] + Flip(Idx(p), o)
                                   IN q \in 0..(NPage - 1) /\ ZoneNum(q) = ZoneNum(p)
                                      => property[q] # o
=============================================================================
