-------------------------------- MODULE Swap --------------------------------
(***************************************************************************)
(* The pages behind the areas of module Vmm: mm/swap.c, mm/shmem.c, the    *)
(* reference counting of glue-ucore/pmm.c and the filling and copying      *)
(* branches of do_pgfault.  Every address space maps the addresses         *)
(* 1..Priv as private and writable and the address Shared from one shared  *)
(* memory of one page.                                                     *)
(*                                                                         *)
(* No operation sleeps (pages are never refused and the disk is polled),   *)
(* so each is one step; the operators take the state s and return it.  The *)
(* hash list finds a page by its entry and is the pages' swap and index    *)
(* fields here.  A page's contents are one value.                          *)
(***************************************************************************)
EXTENDS Integers, Sequences, FiniteSets, FiniteSetsExt, SequencesExt

CONSTANTS
    MM,           \* the address spaces
    Priv,         \* the number of private pages of each
    NPages,       \* physical pages, enough for every page that can be in use
    NSwap,        \* max_swap_offset - 1: the entries are 1..NSwap
    MaxWrites     \* bound on the writes; each writes a new value

VARIABLES
    mem,          \* the state of the memory, a record:
    (* page[g]: a struct Page with its contents; active, inactive: the swap    *)
    (* lists; map: mem_map, -1 for SWAP_UNUSED; next of try_alloc_swap_entry;  *)
    (* disk: the swap device; pte[m]: a page table; sh: the entry of the       *)
    (* shared memory; at[m]: swap_address; live: the address spaces in use;    *)
    (* ret: an error code; panic: an assertion failed, or swap_offset was      *)
    (* given the entry 0 and has called panic.                                 *)
    use,          \* the addresses the processes of this behaviour touch
    wrote,        \* history: what m last wrote at an address, or fork copied
    writes        \* the number of writes made

vars == <<mem, use, wrote, writes>>

Shared == Priv + 1
Addr == 1..Shared
Entry == 1..NSwap
UNUSED == -1
Blank == 0                           \* never written

(* A page table entry: nothing, a swap entry <<e>>, or a present page with *)
(* its W, A and D bits.                                                    *)
None == << >>
InSwap(e) == <<e>>
Present(x) == Len(x) = 4
Swapped(x) == Len(x) = 1

FreePage == [used |-> FALSE, ref |-> 0, swap |-> FALSE, act |-> FALSE, index |-> 0,
             dirty |-> FALSE, data |-> Blank]

TypeOK ==
    /\ \A g \in 1..NPages : mem.page[g].ref \in 0..(2 * Cardinality(MM) + 1)
                            /\ mem.page[g].index \in 0..NSwap
    /\ \A e \in Entry : mem.map[e] \in UNUSED..(Cardinality(MM) + 1)
    /\ mem.next \in Entry /\ mem.live \subseteq MM
    /\ \A m \in MM : mem.at[m] \in 0..(Shared + 1)
    /\ mem.panic \in {"no", "assert", "entry0"} /\ writes \in 0..MaxWrites

-----------------------------------------------------------------------------
(* The kernel stops; an assertion goes on with t only if cond holds.       *)
Stopped(s) == s.panic # "no"
Stops(s, why) == IF Stopped(s) THEN s ELSE [s EXCEPT !.panic = why]
Demand(s, cond, t) == IF ~Stopped(s) /\ cond THEN t ELSE Stops(s, "assert")

(* alloc_page, free_page.  A free page keeps no name: the lowest is taken. *)
FreePages(s) == {g \in 1..NPages : ~s.page[g].used}
NewPage(s) == Min(FreePages(s))
AllocPage(s) == [s EXCEPT !.page[NewPage(s)].used = TRUE]
ReleasePage(s, g) == [s EXCEPT !.page[g] = FreePage]

RefDec(s, g) == [s EXCEPT !.page[g].ref = @ - 1]
SetDirty(s, g, d) == IF d THEN [s EXCEPT !.page[g].dirty = TRUE] ELSE s

(* The lists.                                                              *)
ActiveAdd(s, g) == [s EXCEPT !.active = Append(@, g), !.page[g].act = TRUE]
InactiveAdd(s, g) == [s EXCEPT !.inactive = Append(@, g), !.page[g].act = FALSE]
SwapListDel(s, g) ==
    IF s.page[g].act THEN [s EXCEPT !.active = SelectSeq(@, LAMBDA x : x # g)]
    ELSE [s EXCEPT !.inactive = SelectSeq(@, LAMBDA x : x # g)]

(* swap_hash_find: the page of an entry, 0 if there is none.               *)
HashFind(s, e) ==
    IF \E g \in 1..NPages : s.page[g].swap /\ s.page[g].index = e
    THEN CHOOSE g \in 1..NPages : s.page[g].swap /\ s.page[g].index = e ELSE 0

PageDel(s, g) == Demand(s, s.page[g].swap, [s EXCEPT !.page[g].swap = FALSE, !.page[g].index = 0])
SwapFreePage(s, g) == Demand(s, s.page[g].swap /\ s.page[g].ref = 0, ReleasePage(s, g))

(* swap_duplicate                                                          *)
Duplicate(s, e) == Demand(s, s.map[e] >= 0, [s EXCEPT !.map[e] = @ + 1])

(* swap_remove_entry                                                       *)
Dropped(s, e) ==
    LET g == HashFind(s, e) IN
    IF s.map[e] # 0 THEN s
    ELSE IF g = 0 THEN [s EXCEPT !.map[e] = UNUSED]
    ELSE IF s.page[g].ref # 0 THEN s
    ELSE [SwapFreePage(SwapListDel(s, g), g) EXCEPT !.map[e] = UNUSED]
RemoveEntry_Always(s, e) == [s EXCEPT !.map[e] = IF @ = 1 THEN UNUSED ELSE @ - 1]
RemoveEntry(s, e) == Demand(s, s.map[e] > 0, Dropped([s EXCEPT !.map[e] = @ - 1], e))

(* try_alloc_swap_entry: from next on, the first unused entry; without one *)
(* the first that only a page in memory holds, which loses it.             *)
Scan(s) == [i \in 1..NSwap |-> ((s.next + i - 2) % NSwap) + 1]
FirstIn(s, v) ==
    LET hits == {i \in 1..NSwap : s.map[Scan(s)[i]] = v} IN
    IF hits = {} THEN 0 ELSE Min(hits)
TakenFrom(s, g) ==
    IF s.page[g].ref = 0 THEN SwapFreePage(SwapListDel(s, g), g)
    ELSE PageDel(SwapListDel(s, g), g)
Stolen(s, e) ==
    LET g == HashFind(s, e) IN
    Demand(s, g # 0, [(IF g = 0 THEN s ELSE TakenFrom(s, g)) EXCEPT !.map[e] = UNUSED])
AllocEntry(s) ==         \* the state and the entry, 0 for none
    LET empty == FirstIn(s, UNUSED)
        zero == FirstIn(s, 0)
    IN IF empty # 0
       THEN <<[s EXCEPT !.next = (Scan(s)[empty] % NSwap) + 1], Scan(s)[empty]>>
       ELSE IF zero # 0 THEN <<Stolen(s, Scan(s)[zero]), Scan(s)[zero]>>
       ELSE <<s, 0>>

(* swap_page_add with and without an entry; the second may fail and leave  *)
(* the page as it was.                                                     *)
PageAdd(s, g, e) ==
    Demand(s, ~s.page[g].swap, [s EXCEPT !.page[g].swap = TRUE, !.page[g].index = e])
PageAddNew(s, g) ==
    LET got == AllocEntry(s) IN
    IF got[2] = 0 THEN got[1]
    ELSE Demand(got[1], got[1].map[got[2]] = UNUSED,
                PageAdd([got[1] EXCEPT !.map[got[2]] = 0, !.page[g].dirty = TRUE], g, got[2]))

(* swap_in_page: the state and the page; the read may fail (ok false), and *)
(* then there is no page.                                                  *)
ReadIn(s, e, g) ==
    ActiveAdd(PageAdd([AllocPage(s) EXCEPT !.page[g].data = s.disk[e]], g, e), g)
SwapInPage(s, e, ok) ==
    IF s.map[e] < 0 THEN <<Stops(s, "assert"), 0>>
    ELSE IF HashFind(s, e) # 0 THEN <<s, HashFind(s, e)>>
    ELSE IF ~ok THEN <<s, 0>>
    ELSE <<ReadIn(s, e, NewPage(s)), NewPage(s)>>

(* What page_remove_pte and shmem_remove_entry_pte do with an entry that   *)
(* is taken away.                                                          *)
Unref(s, x) ==
    IF Present(x)
    THEN IF s.page[x[1]].swap THEN RefDec(SetDirty(s, x[1], x[4]), x[1])
         ELSE IF s.page[x[1]].ref = 1 THEN ReleasePage(s, x[1]) ELSE RefDec(s, x[1])
    ELSE IF Swapped(x) THEN RemoveEntry(s, x[1]) ELSE s
RemovePte(s, m, a) == [Unref(s, s.pte[m][a]) EXCEPT !.pte[m][a] = None]

(* page_insert                                                             *)
PageInsert(s, m, a, x) ==
    LET old == s.pte[m][a]
        t == [s EXCEPT !.page[x[1]].ref = @ + 1]
    IN IF Present(old) /\ old[1] = x[1] THEN [s EXCEPT !.pte[m][a] = x]
       ELSE [RemovePte(t, m, a) EXCEPT !.pte[m][a] = x]
Fresh(g, w) == <<g, w, FALSE, FALSE>>    \* A and D clear

(* shmem_get_entry with create: the page of the shared memory              *)
ShmemGet(s) ==
    IF s.sh # None THEN s
    ELSE [AllocPage(s) EXCEPT !.sh = Fresh(NewPage(s), FALSE), !.page[NewPage(s)].ref = 1]
(* shmem_insert_entry of a swap entry                                      *)
ShmemInsert(s, e) == [Duplicate(Unref(s, s.sh), e) EXCEPT !.sh = InSwap(e)]
-----------------------------------------------------------------------------
(* do_pgfault.  On an empty entry: a page of its own, or the page of the   *)
(* shared memory; if that is swapped out, swap_duplicate is given the      *)
(* empty entry (vmm.c:777) and panics.                                     *)
FillShared(s, m) ==
    IF Present(s.sh) THEN PageInsert(s, m, Shared, Fresh(s.sh[1], TRUE))
    ELSE Stops(s, "entry0")
FillEmpty(s, m, a) ==
    IF a = Shared THEN FillShared(ShmemGet(s), m)
    ELSE PageInsert(AllocPage(s), m, a, Fresh(NewPage(s), TRUE))

(* page_ref + swap_page_count > 1: somebody else uses the page             *)
Elsewhere_RefOnly(s, g) == s.page[g].ref > 1
Elsewhere(s, g) ==
    s.page[g].ref + (IF s.page[g].swap THEN s.map[s.page[g].index] ELSE 0) > 1

(* With the page g in memory: copy it before a write to what others use.   *)
Copied(s, m, a, g) ==
    PageInsert([AllocPage(s) EXCEPT !.page[NewPage(s)].data = s.page[g].data],
               m, a, Fresh(NewPage(s), TRUE))
FillFrom(s, m, a, g, write, swapped) ==
    LET cow == a # Shared
        mayCopy == ~(swapped /\ ~write /\ cow)
    IN IF g = 0 THEN [s EXCEPT !.ret = "E_SWAP_FAULT"]
       ELSE IF cow /\ mayCopy /\ s.page[g].swap /\ s.map[s.page[g].index] < 0
       THEN Stops(s, "assert")
       ELSE IF cow /\ mayCopy /\ Elsewhere(s, g) THEN Copied(s, m, a, g)
       ELSE PageInsert(s, m, a, Fresh(g, mayCopy))
PgFault(s, m, a, write, ok) ==
    LET x == s.pte[m][a]
        in == SwapInPage(s, x[1], ok)
    IN IF x = None THEN FillEmpty(s, m, a)
       ELSE IF Present(x)            \* asserted to be a write to a private page
       THEN Demand(s, write /\ ~x[2] /\ a # Shared, FillFrom(s, m, a, x[1], write, FALSE))
       ELSE FillFrom(in[1], m, a, in[2], write, TRUE)

(* copy_range for one address                                              *)
CopyPte(s, to, from, a) ==
    LET x == s.pte[from][a]
        w == x[2] /\ a = Shared
        marked == [s EXCEPT !.pte[from][a] = <<x[1], w, x[3], x[4]>>]
    IN IF x = None THEN s
       ELSE IF Swapped(x) THEN [Duplicate(s, x[1]) EXCEPT !.pte[to][a] = x]
       ELSE PageInsert(marked, to, a, Fresh(x[1], w))
From(lo, hi) == [i \in 1..(hi - lo + 1) |-> lo + i - 1]

(* swap_out_vma for one address, unless enough was found.                  *)
SetSwap(s, g) == IF s.page[g].swap THEN ActiveAdd(s, g) ELSE s
Marked(s, x) == IF s.page[x[1]].swap THEN SetDirty(s, x[1], x[4])
                ELSE SetSwap(PageAddNew(s, x[1]), x[1])
OutShared(s, a, g, e) ==
    IF a = Shared /\ s.page[g].ref = 1
    THEN Demand(s, s.sh # None, IF Present(s.sh) THEN ShmemInsert(s, e) ELSE s) ELSE s
OutTo(s, m, a, g, e) ==
    OutShared([RefDec(Duplicate(s, e), g) EXCEPT !.pte[m][a] = InSwap(e), !.at[m] = a + 1],
              a, g, e)
OutPte(r, m, a) ==       \* r: the state and the number still required
    LET s == r[1]
        x == s.pte[m][a]
        t == Marked(s, x)
    IN IF r[2] = 0 \/ Stopped(s) \/ ~Present(x) THEN r
       ELSE IF x[3] THEN <<[s EXCEPT !.pte[m][a] = <<x[1], x[2], FALSE, x[4]>>], r[2]>>
       ELSE IF ~t.page[x[1]].swap THEN <<t, r[2]>>
       ELSE <<OutTo(t, m, a, x[1], t.page[x[1]].index), r[2] - 1>>

(* swap_out_mm: the rest of the area of swap_address, the other one, and   *)
(* the first one again.                                                    *)
Visits(at) ==
    IF at \in 1..Priv THEN From(at, Priv) \o <<Shared>> \o From(1, Priv)
    ELSE IF at = Shared THEN <<Shared>> \o From(1, Priv) \o <<Shared>>
    ELSE From(1, Priv) \o <<Shared>> \o From(1, Priv)
SwapOutMm(s, m, require) ==
    LET t == IF s.at[m] \in Addr THEN s ELSE [s EXCEPT !.at[m] = 0]
    IN FoldLeft(LAMBDA r, a : OutPte(r, m, a), <<t, require>>, Visits(s.at[m]))[1]

(* page_launder for one page of the inactive list                          *)
TryFreeEntry(s, e) == IF s.map[e] = 0 THEN [s EXCEPT !.map[e] = UNUSED] ELSE s
Laundered(s, g, ok) ==
    LET e == s.page[g].index
        out == SwapListDel(s, g)
    IN IF ~(s.page[g].swap /\ ~s.page[g].act) THEN Stops(s, "assert")
       ELSE IF s.page[g].ref # 0 THEN ActiveAdd(out, g)
       ELSE IF s.map[e] = 0 \/ ~s.page[g].dirty THEN SwapFreePage(TryFreeEntry(out, e), g)
       ELSE IF ~ok THEN InactiveAdd(out, g)
       ELSE SwapFreePage([out EXCEPT !.disk[e] = s.page[g].data, !.page[g].dirty = FALSE], g)
PageLaunder(s, ok) == FoldLeft(LAMBDA t, g : Laundered(t, g, ok), s, s.inactive)

(* refill_inactive_scan                                                    *)
Refill(s) ==
    FoldLeft(LAMBDA t, g :
                 Demand(t, t.page[g].swap /\ t.page[g].act,
                        IF t.page[g].ref = 0 THEN InactiveAdd(SwapListDel(t, g), g) ELSE t),
             s, s.active)
-----------------------------------------------------------------------------
Init ==
    \E m \in {CHOOSE m \in MM : TRUE} :
        /\ mem = [page |-> [g \in 1..NPages |-> FreePage], active |-> << >>,
                  inactive |-> << >>, map |-> [e \in Entry |-> UNUSED], next |-> 1,
                  disk |-> [e \in Entry |-> Blank],
                  pte |-> [n \in MM |-> [a \in Addr |-> None]], sh |-> None,
                  at |-> [n \in MM |-> 0], live |-> {m}, ret |-> "ok", panic |-> "no"]
        /\ wrote = [n \in MM |-> [a \in Addr |-> Blank]] /\ writes = 0
        /\ use \in {1..Priv, {Shared}}

Runs == ~Stopped(mem)
Becomes(s) == mem' = s

(* A process reads or writes: the processor sets A and D, or faults, and   *)
(* do_pgfault changes the entry (ok: the disk can be read).                *)
Allowed(m, a, write) ==
    LET x == mem.pte[m][a] IN Present(x) /\ (write => x[2])
Served(m, a, write, ok) ==
    IF Allowed(m, a, write) THEN mem ELSE PgFault(mem, m, a, write, ok)
Touched(s, m, a, write) ==
    LET x == s.pte[m][a] IN [s EXCEPT !.pte[m][a] = <<x[1], x[2], TRUE, x[4] \/ write>>]
MayFail(m, a) == Swapped(mem.pte[m][a]) /\ HashFind(mem, mem.pte[m][a][1]) = 0

(* The instruction is repeated after the fault at once: see the README for *)
(* a kswapd that runs in between.  A process whose page cannot be read is  *)
(* told to exit.                                                           *)
FaultFails(m, a, write) ==
    /\ Runs /\ m \in mem.live /\ MayFail(m, a)
    /\ Becomes([Served(m, a, write, FALSE) EXCEPT !.ret = "ok"])
    /\ UNCHANGED <<use, wrote, writes>>
Read(m, a) ==
    /\ Runs /\ m \in mem.live
    /\ \E s \in {Served(m, a, FALSE, TRUE)} :
           Becomes(IF Stopped(s) THEN s ELSE Touched(s, m, a, FALSE))
    /\ UNCHANGED <<use, wrote, writes>>
Write(m, a) ==
    /\ Runs /\ m \in mem.live /\ writes < MaxWrites
    /\ \E s \in {Served(m, a, TRUE, TRUE)} :
           IF Stopped(s) THEN Becomes(s) /\ UNCHANGED <<writes, wrote>>
           ELSE /\ Becomes([Touched(s, m, a, TRUE) EXCEPT
                               !.page[s.pte[m][a][1]].data = writes + 1])
                /\ writes' = writes + 1
                /\ wrote' = [n \in MM |->
                                IF n = m \/ a = Shared THEN [wrote[n] EXCEPT ![a] = writes']
                                ELSE wrote[n]]
    /\ UNCHANGED use

(* dup_mmap and exit_mmap of the whole address space; the last one to      *)
(* leave destroys the shared memory.                                       *)
Fork(m, n) ==
    /\ Runs /\ m \in mem.live /\ n \notin mem.live
    /\ Becomes(FoldLeft(LAMBDA s, a : CopyPte(s, n, m, a),
                        [mem EXCEPT !.live = @ \cup {n}, !.at[n] = 0],
                        <<Shared>> \o From(1, Priv)))
    /\ wrote' = [wrote EXCEPT ![n] = wrote[m]] /\ UNCHANGED <<use, writes>>
Exit(m) ==
    /\ Runs /\ m \in mem.live
    /\ \E s \in {FoldLeft(LAMBDA t, a : RemovePte(t, m, a),
                          [mem EXCEPT !.live = @ \ {m}, !.at[m] = 0], From(1, Shared))} :
           Becomes(IF s.live = {} THEN [Unref(s, s.sh) EXCEPT !.sh = None] ELSE s)
    /\ wrote' = [wrote EXCEPT ![m] = [a \in Addr |-> Blank]] /\ UNCHANGED <<use, writes>>

(* The three parts of a pass of kswapd_main, in any order, as the          *)
(* self-tests call them too.                                               *)
KswapdOut(m, require) ==
    Runs /\ m \in mem.live /\ Becomes(SwapOutMm(mem, m, require)) /\ UNCHANGED <<use, wrote, writes>>
KswapdLaunder(ok) ==
    Runs /\ mem.inactive # << >> /\ Becomes(PageLaunder(mem, ok)) /\ UNCHANGED <<use, wrote, writes>>
KswapdRefill == Runs /\ mem.active # << >> /\ Becomes(Refill(mem)) /\ UNCHANGED <<use, wrote, writes>>

Next ==
    \/ \E m \in MM :
        \/ Exit(m) \/ \E n \in MM : Fork(m, n)
        \/ \E a \in use :
              \/ Read(m, a) \/ Write(m, a)
              \/ \E write \in BOOLEAN : FaultFails(m, a, write)
        \/ \E n \in 1..2 : KswapdOut(m, n)
    \/ \E ok \in BOOLEAN : KswapdLaunder(ok)
    \/ KswapdRefill

Spec == Init /\ [][Next]_vars
-----------------------------------------------------------------------------
(* What an address space would read at a page it has touched: the page in  *)
(* memory, the page its entry is found under, or the disk.                 *)
Held(x) ==
    IF Present(x) THEN mem.page[x[1]].data
    ELSE IF HashFind(mem, x[1]) # 0 THEN mem.page[HashFind(mem, x[1])].data
    ELSE mem.disk[x[1]]

(* Every process finds at every address what it, or the process it was     *)
(* forked from, wrote there last, and in the shared memory what anybody    *)
(* wrote last, through copy-on-write, eviction, laundering, stolen entries *)
(* and failing disk reads and writes.                                      *)
ContentsKept ==
    \A m \in mem.live : \A a \in Addr :
        mem.pte[m][a] # None /\ wrote[m][a] # Blank => Held(mem.pte[m][a]) = wrote[m][a]

(* The counts say what is there: the references of a page are the present  *)
(* entries, mem_map counts the swapped ones, a page of the hash list is on *)
(* exactly the list its flag says, an entry in use is on disk or in        *)
(* memory, and nothing is used that nobody holds (no leak, no early free). *)
Holding(g) == {<<m, a>> \in MM \X Addr : Present(mem.pte[m][a]) /\ mem.pte[m][a][1] = g}
Waiting(e) == {<<m, a>> \in MM \X Addr : mem.pte[m][a] = InSwap(e)}
One(cond) == IF cond THEN 1 ELSE 0
CountsExact ==
    /\ \A g \in 1..NPages :
        LET p == mem.page[g] IN
        /\ p.ref = Cardinality(Holding(g)) + One(Present(mem.sh) /\ mem.sh[1] = g)
        /\ p.used <=> p.ref > 0 \/ p.swap
        /\ (p.swap /\ p.act) <=> g \in ToSet(mem.active)
        /\ (p.swap /\ ~p.act) <=> g \in ToSet(mem.inactive)
        /\ p.swap => mem.map[p.index] # UNUSED /\ HashFind(mem, p.index) = g
    /\ \A e \in Entry : mem.map[e] =
          IF Waiting(e) = {} /\ mem.sh # InSwap(e) /\ HashFind(mem, e) = 0 THEN UNUSED
          ELSE Cardinality(Waiting(e)) + One(mem.sh = InSwap(e))
    /\ IsInjective(mem.active) /\ IsInjective(mem.inactive)

(* No assertion of swap.c fails, nor the one of do_pgfault that a fault on *)
(* a present page is a write to a private one.  swap_duplicate is given    *)
(* the entry 0, and swap_offset panics, in one case only: a process        *)
(* touches the shared memory for the first time after kswapd has put its   *)
(* entry into the shared memory's own table, where it stays even when      *)
(* another process has its page back.                                      *)
AssertsHold ==
    /\ mem.panic # "assert"
    /\ mem.panic = "entry0" =>
          Swapped(mem.sh) /\ \E m \in mem.live : mem.pte[m][Shared] = None
=============================================================================
