------------------------------- MODULE MemMap -------------------------------
(***************************************************************************)
(* What the supervisor makes of the memory map of the firmware when it     *)
(* starts: memmap.c sorts the ends of the ranges and keeps the boundaries  *)
(* of usable memory, which boot_alloc.c reads to give out memory behind    *)
(* the kernel image; page_init (mm/pmm.c) hands zones to the page          *)
(* allocator straight from the firmware's ranges, one range at a time.     *)
(* Addresses are counted in units of which PGSIZE make a page; 0 is        *)
(* RESERVED_DRIVER_OS_SIZE, below which everything is cut off.             *)
(***************************************************************************)
EXTENDS Integers, Sequences, SequencesExt, FiniteSets, FiniteSetsExt

CONSTANTS
    E820,         \* the memory maps considered: sequences of [begin, end, type]
    PGSIZE, SVSIZE, Freemem,
    KernEnd,      \* __end
    Sizes, Aligns,
    MaxBlocks     \* bound on the calls of boot_alloc

VARIABLE mm       \* a record: e820, the firmware's map; step; node, the table
                  \* mmnode_*; bound, memmap_addr; zones, what init_memmap got;
                  \* boot_free and bf_memmap; blocks, what boot_alloc returned
mmvars == <<mm>>

FREE == 1
RECLAIMABLE == 3
AboveReserve(r) == r.end > 0
Cut(r) == [r EXCEPT !.begin = IF @ < 0 THEN 0 ELSE @]

(* The first loop of page_init with memmap_append.                         *)
Append2(s, r) ==
    IF AboveReserve(r)
    THEN s \o <<[addr |-> Cut(r).begin, flag |-> r.type], [addr |-> r.end, flag |-> -r.type]>>
    ELSE s

(* memmap_process.  The sort is a selection sort by address; nodes of one  *)
(* address are then taken together, in whatever order.                     *)
Addrs(node) == {node[i].addr : i \in DOMAIN node}
Sorted(S) == SetToSortSeq(S, <)
Weight_NoReserve(f) == IF f = FREE THEN 1 ELSE IF f = -FREE THEN -1 ELSE 0
Weight(f) ==
    IF f = FREE THEN 1 ELSE IF f = -FREE THEN -1
    ELSE IF f \in {RECLAIMABLE, -RECLAIMABLE} THEN 0
    ELSE IF f > 0 THEN -1 ELSE 1
Level(node, a, W(_)) ==
    FoldLeft(LAMBDA n, x : IF x.addr <= a THEN n + W(x.flag) ELSE n, 0, node)
ReclaimWeight(f) == IF f = RECLAIMABLE THEN 1 ELSE IF f = -RECLAIMABLE THEN -1 ELSE 0
Valid(node, a) ==
    LET v == Level(node, a, Weight) IN
    IF v = 0 THEN Level(node, a, ReclaimWeight) > 0 ELSE v > 0
Process(node) ==
    FoldLeft(LAMBDA r, a : IF Valid(node, a) = r.v THEN r
                           ELSE [v |-> ~r.v, bound |-> Append(r.bound, a)],
             [v |-> FALSE, bound |-> << >>], Sorted(Addrs(node))).bound

(* The second loop of page_init: the zone of a usable range, if any.       *)
RoundUp(n) == ((n + PGSIZE - 1) \div PGSIZE) * PGSIZE
RoundDown(n) == (n \div PGSIZE) * PGSIZE
ZoneOf(r) ==
    LET b == IF Cut(r).begin < Freemem THEN Freemem ELSE Cut(r).begin
        e == IF r.end > SVSIZE THEN SVSIZE ELSE r.end
    IN IF AboveReserve(r) /\ r.type = FREE /\ b < e /\ RoundUp(b) < RoundDown(e)
       THEN <<[begin |-> RoundUp(b), end |-> RoundDown(e)]>> ELSE << >>
(* npage, from the highest end of usable memory                            *)
MaxPa(s) ==
    LET top == Max({r.end : r \in {x \in ToSet(s) : AboveReserve(x) /\ x.type = FREE
                                                    /\ Cut(x).begin < SVSIZE}} \cup {0})
    IN IF top > SVSIZE THEN SVSIZE ELSE top

(* memmap_enumerate                                                        *)
Areas == Len(mm.bound) \div 2
AreaStart(n) == mm.bound[2 * n + 1]
AreaEnd(n) == mm.bound[2 * n + 2]

(* memmap_bin_search and memmap_test: l and r close in on the first        *)
(* boundary above the address.                                             *)
RECURSIVE BinSearch(_, _, _)
BinSearch(a, l, r) ==
    IF l >= r THEN l
    ELSE LET m == (l + r) \div 2 IN
         IF mm.bound[m + 1] > a THEN BinSearch(a, l, m) ELSE BinSearch(a, m + 1, r)
Test(start, end) ==
    LET i == BinSearch(start, 0, Len(mm.bound) - 1)
        j == BinSearch(end - 1, 0, Len(mm.bound) - 1)
    IN i % 2 = 1 /\ i = j

Init ==
    \E s \in E820 :
        mm = [e820 |-> s, step |-> "boot", node |-> << >>, bound |-> << >>, zones |-> << >>,
              boot_free |-> KernEnd, bf_memmap |-> 0, blocks |-> {}]

PageInit ==
    /\ mm.step = "boot"
    /\ LET node == FoldLeft(Append2, << >>, mm.e820) IN
       mm' = [mm EXCEPT !.step = "pages", !.node = node, !.bound = Process(node),
                        !.zones = FoldLeft(LAMBDA q, r : q \o ZoneOf(r), << >>, mm.e820)]

(* boot_alloc_init, which stops the machine when there is no area          *)
BootAllocInit ==
    /\ mm.step = "pages"
    /\ LET from == {n \in 0..(Areas - 1) : mm.boot_free < AreaEnd(n)} IN
       mm' = IF from = {} THEN [mm EXCEPT !.step = "panic"]
             ELSE [mm EXCEPT !.step = "alloc", !.bf_memmap = Min(from)]

(* boot_alloc: boot_free |= align - 1 is the last address before the block *)
Ored(n, align) == (n \div align) * align + align - 1
Raised(bf, n) == IF bf < AreaStart(n) THEN AreaStart(n) ELSE bf
RECURSIVE Place(_, _, _, _)
Place(bf, n, size, align) ==
    IF n >= Areas THEN [bf |-> bf, n |-> n, at |-> 0]
    ELSE LET o == Ored(Raised(bf, n), align) IN
         IF o + size < AreaEnd(n) THEN [bf |-> o + 1 + size, n |-> n, at |-> o + 1]
         ELSE Place(o, n + 1, size, align)
BootAlloc(size, align) ==
    /\ mm.step = "alloc" /\ Cardinality(mm.blocks) < MaxBlocks
    /\ LET p == Place(mm.boot_free, mm.bf_memmap, size, align) IN
       mm' = [mm EXCEPT !.boot_free = p.bf, !.bf_memmap = p.n,
                        !.blocks = IF p.at = 0 THEN @ ELSE @ \cup {[at |-> p.at, size |-> size]}]

Next == PageInit \/ BootAllocInit \/ \E size \in Sizes, align \in Aligns : BootAlloc(size, align)

Spec == Init /\ [][Next]_mmvars
-----------------------------------------------------------------------------
Covers(r, a) == AboveReserve(r) /\ Cut(r).begin <= a /\ a < r.end
Over(a) == {i \in DOMAIN mm.e820 : Covers(mm.e820[i], a)}
Types(a) == {mm.e820[i].type : i \in Over(a)}
InZone(a) == {i \in DOMAIN mm.zones : mm.zones[i].begin <= a /\ a < mm.zones[i].end}
Usable(a) ==
    \E n \in 0..(Areas - 1) : AreaStart(n) <= a /\ a < AreaEnd(n)
Inside(b) == b.at..(b.at + b.size - 1)

(* Once the map is processed: the areas of the table are in order, and     *)
(* hold an address if the one or two ranges over it are usable or          *)
(* reclaimable, no other; memmap_test agrees with them below the last      *)
(* boundary.  The zones are whole pages behind the image and within npage  *)
(* of ranges that are usable; no whole page of such a range is left out.   *)
(* Where only one range of the firmware covers an address, it is in one    *)
(* zone at most, and only if the table has it too.  Where ranges overlap   *)
(* page_init does not see it: an address is in as many zones as there are  *)
(* usable ranges over its page, reserved by another range or not.  The     *)
(* blocks of boot_alloc are usable, behind the image and disjoint,         *)
(* whichever areas they skipped.                                           *)
MapSound ==
    mm.step \in {"pages", "alloc"} =>
    /\ \A i \in 1..(Len(mm.bound) - 1) : mm.bound[i] < mm.bound[i + 1]
    /\ Len(mm.bound) % 2 = 0
    /\ \A a \in 0..SVSIZE :
          Cardinality(Over(a)) <= 2 =>
             (Usable(a) <=> Types(a) # {} /\ Types(a) \subseteq {FREE, RECLAIMABLE})
    /\ \A a, b \in 0..SVSIZE :
          a < b /\ mm.bound # << >> /\ b <= mm.bound[Len(mm.bound)] =>
             (Test(a, b) <=> \E n \in 0..(Areas - 1) : AreaStart(n) <= a /\ b <= AreaEnd(n))
    /\ \A i \in DOMAIN mm.zones :
          LET z == mm.zones[i] IN
          /\ z.begin >= Freemem /\ z.end <= MaxPa(mm.e820)
          /\ z.begin % PGSIZE = 0 /\ z.end % PGSIZE = 0
    /\ \A a \in 0..SVSIZE :
          /\ Cardinality(Over(a)) = 1 =>
                /\ Cardinality(InZone(a)) <= 1
                /\ InZone(a) # {} => Types(a) = {FREE} /\ Usable(a)
          /\ Cardinality(InZone(a)) =
                Cardinality({i \in Over(a) :
                   /\ mm.e820[i].type = FREE
                   /\ \A b \in RoundDown(a)..(RoundDown(a) + PGSIZE - 1) :
                         i \in Over(b) /\ b \in Freemem..(SVSIZE - 1)})
    /\ \A x, y \in mm.blocks :
          /\ \A a \in Inside(x) : Usable(a) /\ a >= KernEnd
          /\ x # y => Inside(x) \cap Inside(y) = {}
=============================================================================
