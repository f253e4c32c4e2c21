-------------------------------- MODULE Vmm --------------------------------
(***************************************************************************)
(* The address spaces of kern-ucore: mm/vmm.c with the system calls of     *)
(* process/proc.c that change them (fork, exec, exit, brk, mmap, munmap,   *)
(* shmem) and the page faults that fill them.                              *)
(*                                                                         *)
(* Every operation runs under the mm's semaphore without sleeping, so it   *)
(* is one step; the operators below take the state and return it, as the   *)
(* nested C calls change it, with the result in ret.  An address counts    *)
(* PG units per page, so that rounding does something.  The red-black tree *)
(* has the order of the list (module RbTree) and is not kept apart.  Of a  *)
(* page table only what backs a page is kept: nothing, a page of its own,  *)
(* or a page of a shared memory; module Swap has the pages themselves.     *)
(***************************************************************************)
EXTENDS Integers, Sequences, FiniteSets, FiniteSetsExt, SequencesExt

CONSTANTS
    MM,          \* the mm_structs
    NVma,        \* the number of vma_structs kmalloc can give out
    Shm,         \* the shmem_structs
    Base, Top,   \* USERBASE and USERTOP, as page numbers
    MaxLen,      \* longest request, in pages
    MaxCalls,    \* bound on the calls that change areas
    NoShm        \* the NULL pointer

PG == 2

VARIABLES
    calls,       \* the number of calls made that change areas
    vm           \* the state of all address spaces
    (* list[m]: mmap_list, a sequence of areas; cache[m]: mmap_cache, the      *)
    (* place of the area in the list, 0 for none, -1 for one that is freed;    *)
    (* mcount[m]: mm_count; brk[m] in pages; pte[m]: the page table; sref[h],  *)
    (* slen[h]: a shared memory; ret: the result of a call; bad: an assertion  *)
    (* failed or a NULL pointer was followed, which stops the kernel.          *)

vars == <<calls, vm>>

Page == Base..(Top - 1)
NoArea == [s |-> 0, e |-> 0, w |-> FALSE, stack |-> FALSE, share |-> FALSE,
           shm |-> NoShm, off |-> 0]
None == << >>            \* what a page table entry holds: nothing,
Own == <<0>>             \* a page of its own, or <<h, off>> of a shared memory
Empty == [p \in Page |-> None]

TypeOK ==
    /\ \A m \in MM :
        /\ \A i \in DOMAIN vm.list[m] : vm.list[m][i].shm \in Shm \cup {NoShm}
        /\ vm.cache[m] \in 0..Len(vm.list[m])
        /\ vm.mcount[m] \in Nat /\ vm.brk[m] \in 0..Top
        /\ vm.pte[m] \in [Page -> {None, Own} \cup (Shm \X Nat)]
    /\ calls \in 0..MaxCalls
    /\ vm.sref \in [Shm -> Nat] /\ vm.slen \in [Shm -> Nat]
    /\ vm.ret \in {"ok", "E_INVAL", "E_NO_MEM"} /\ vm.bad \in {"no", "assert", "null"}

-----------------------------------------------------------------------------
RoundDown(a) == (a \div PG) * PG
RoundUp(a) == RoundDown(a + PG - 1)
UserAccess(start, end) == PG * Base <= start /\ start < end /\ end <= PG * Top

Returns(s, code) == [s EXCEPT !.ret = code]
Stops(s, why) == [s EXCEPT !.bad = IF @ = "no" THEN why ELSE @]
Then(s, Op(_)) == IF s.bad = "no" THEN Op(s) ELSE s

(* find_vma: the place of the area, 0 if there is none; and its effect on  *)
(* the cache.                                                              *)
FindVma(s, m, a) ==
    LET c == s.cache[m]
        hits == {i \in DOMAIN s.list[m] : a < s.list[m][i].e}
    IN IF c # 0 /\ s.list[m][c].s <= a /\ a < s.list[m][c].e THEN c
       ELSE IF hits = {} THEN 0 ELSE Min(hits)
Found(s, m, a) ==
    IF FindVma(s, m, a) = 0 THEN s ELSE [s EXCEPT !.cache[m] = FindVma(s, m, a)]

(* find_vma_intersection finds nothing                                     *)
Unoccupied(s, m, start, end) ==
    FindVma(s, m, start) = 0 \/ end <= s.list[m][FindVma(s, m, start)].s

(* vma_create: kmalloc gives a structure, or fails.                        *)
CanCreate(s) == FoldSet(LAMBDA m, n : n + Len(s.list[m]), 0, MM) < NVma
Area(start, end, fl) ==
    [NoArea EXCEPT !.s = start, !.e = end, !.w = fl.w, !.stack = fl.stack, !.share = fl.share]
Flags(w, stack, share) == [w |-> w, stack |-> stack, share |-> share]

(* insert_vma_struct: behind the last area that does not start later;      *)
(* check_vma_overlap asserts that it fits between its neighbours.          *)
PlaceFor(s, m, a) == Cardinality({i \in DOMAIN s.list[m] : s.list[m][i].s <= a.s}) + 1
InsertVma(s, m, a) ==
    LET q == s.list[m]
        n == PlaceFor(s, m, a)
        t == [s EXCEPT !.list[m] = InsertAt(q, n, a), !.cache[m] = IF @ >= n THEN @ + 1 ELSE @]
    IN IF /\ a.s < a.e
          /\ n > 1 => q[n - 1].e <= a.s
          /\ n <= Len(q) => a.e <= q[n].s
       THEN t ELSE Stops(t, "assert")

(* remove_vma_struct, of the area at place i                               *)
RemoveVma_KeepCache(s, m, i) ==
    [s EXCEPT !.list[m] = RemoveAt(@, i),
              !.cache[m] = IF @ = i THEN -1 ELSE IF @ > i THEN @ - 1 ELSE @]
RemoveVma(s, m, i) ==
    [s EXCEPT !.list[m] = RemoveAt(@, i),
              !.cache[m] = IF @ = i THEN 0 ELSE IF @ > i THEN @ - 1 ELSE @]

(* shmem_ref_inc, shmem_ref_dec; the last reference destroys.              *)
ShmemRef(s, h, d) ==
    IF h = NoShm THEN Stops(s, "null") ELSE [s EXCEPT !.sref[h] = @ + d]

(* vma_destroy of an area that is in no list any more                      *)
VmaDestroy(s, a) == IF a.share THEN ShmemRef(s, a.shm, -1) ELSE s

(* unmap_range                                                             *)
UnmapRange(s, m, start, end) ==
    [s EXCEPT !.pte[m] = [p \in Page |-> IF start <= PG * p /\ PG * p < end
                                          THEN None ELSE @[p]]]

(* vma_resize                                                              *)
Resized_KeepOffset(a, start, end) == [a EXCEPT !.s = start, !.e = end]
Resized(a, start, end) ==
    [a EXCEPT !.s = start, !.e = end,
              !.off = IF a.share THEN @ + (start - a.s) ELSE @]

(* mm_map                                                                  *)
MmMap(s, m, start, end, fl) ==
    IF ~UserAccess(start, end) THEN Returns(s, "E_INVAL")
    ELSE IF ~Unoccupied(s, m, start, end) THEN Returns(Found(s, m, start), "E_INVAL")
    ELSE IF ~CanCreate(s) THEN Returns(Found(s, m, start), "E_NO_MEM")
    ELSE Returns(InsertVma(Found(s, m, start), m, Area(start, end, fl)), "ok")

(* mm_map_shmem of a new shared memory h of the length of the range        *)
MmMapShmem(s, m, start, end, fl, h) ==
    LET t == MmMap(s, m, start, end, fl)
        n == PlaceFor(s, m, Area(start, end, fl))
    IN IF t.ret # "ok" THEN t
       ELSE [t EXCEPT !.list[m][n].shm = h, !.list[m][n].share = TRUE,
                      !.sref[h] = 1, !.slen[h] = end - start]

(* The second loop of mm_unmap, for one area taken out of the list.        *)
CutVma(s, m, a, start, end) ==
    IF a.s < start
    THEN UnmapRange(InsertVma(s, m, Resized(a, a.s, start)), m, start, a.e)
    ELSE IF end < a.e
    THEN UnmapRange(InsertVma(s, m, Resized(a, end, a.e)), m, a.s, end)
    ELSE UnmapRange(VmaDestroy(s, a), m, a.s, a.e)

(* The split in mm_unmap: the area is moved behind the hole, and a new one *)
(* with its flags, but without its shared memory, is put in front of it.   *)
SplitVma(s, m, i, start, end) ==
    LET a == s.list[m][i]
        t == [s EXCEPT !.list[m][i] = Resized(a, end, a.e)]
    IN UnmapRange(InsertVma(t, m, Area(a.s, start, a)), m, start, end)

(* mm_unmap, from the first area that the range touches                    *)
MmUnmapFrom(s, m, i, start, end) ==
    LET cut == {j \in i..Len(s.list[m]) : s.list[m][j].s < end}
        out == FoldSet(LAMBDA j, t : RemoveVma(t, m, i), s, cut)
    IN IF s.list[m][i].s < start /\ end < s.list[m][i].e
       THEN IF CanCreate(s) THEN Returns(SplitVma(s, m, i, start, end), "ok")
            ELSE Returns(s, "E_NO_MEM")
       ELSE Returns(FoldSet(LAMBDA j, t : Then(t, LAMBDA r :
                                CutVma(r, m, s.list[m][j], start, end)), out, cut), "ok")

MmUnmap(s, m, start, end) ==
    IF ~UserAccess(start, end) THEN Returns(s, "E_INVAL")
    ELSE IF Unoccupied(s, m, start, end) THEN Returns(Found(s, m, start), "ok")
    ELSE MmUnmapFrom(Found(s, m, start), m, FindVma(s, m, start), start, end)

(* mm_brk: grow the area that ends where the new range starts, or add one. *)
MmBrkAt(s, m, start, end) ==
    LET i == FindVma(s, m, start - 1)
        rw == Flags(TRUE, FALSE, FALSE)
    IN IF i # 0 /\ s.list[m][i] = [Area(s.list[m][i].s, start, rw) EXCEPT !.off = s.list[m][i].off]
       THEN Returns([Found(s, m, start - 1) EXCEPT !.list[m][i].e = end], "ok")
       ELSE IF ~CanCreate(s) THEN Returns(Found(s, m, start - 1), "E_NO_MEM")
       ELSE Returns(InsertVma(Found(s, m, start - 1), m, Area(start, end, rw)), "ok")
MmBrk(s, m, start, end) ==
    LET t == MmUnmap(s, m, start, end) IN
    IF t.ret # "ok" THEN t ELSE Then(t, LAMBDA r : MmBrkAt(r, m, start, end))

(* exit_mmap, put_pgdir and mm_destroy                                     *)
MmDestroy(s, m) ==
    LET t == FoldLeft(LAMBDA r, a : Then(r, LAMBDA q : VmaDestroy(q, a)), s, s.list[m])
    IN [t EXCEPT !.list[m] = << >>, !.cache[m] = 0, !.brk[m] = 0, !.mcount[m] = 0,
                 !.pte[m] = Empty]

(* copy_range of an area; no table can be made for the page full.          *)
CopyRange(s, to, from, a, full) ==
    LET area == {p \in Page : a.s <= PG * p /\ PG * p < a.e}
        stops == full \in area /\ s.pte[from][full] # None
        done == IF stops THEN {p \in area : p < full} ELSE area
    IN  [s EXCEPT !.ret = IF stops THEN "E_NO_MEM" ELSE "ok",
                  !.pte[to] = [p \in Page |-> IF p \in done THEN s.pte[from][p] ELSE @[p]]]

(* One turn of the loop of dup_mmap.                                       *)
DupVma(s, to, from, a, full) ==
    IF ~CanCreate(s) THEN Returns(s, "E_NO_MEM")
    ELSE Then(IF a.share THEN ShmemRef(s, a.shm, 1) ELSE s,
              LAMBDA t : CopyRange(InsertVma(t, to, a), to, from, a, full))
DupMmap(s, to, from, full) ==
    FoldLeft(LAMBDA t, a : IF t.ret = "ok" THEN Then(t, LAMBDA r : DupVma(r, to, from, a, full))
                          ELSE t,
            Returns(s, "ok"), Reverse(s.list[from]))

(* copy_mm without CLONE_VM.  It fails before it copies when there is no   *)
(* memory for the mm or its page directory (full = 0).                     *)
CopyMm_KeepPartial(s, to, from, full) ==
    Then(DupMmap(s, to, from, full),
         LAMBDA t : [t EXCEPT !.brk[to] = t.brk[from], !.mcount[to] = 1])
CopyMm(s, to, from, full) ==
    IF full = 0 THEN Returns(s, "E_NO_MEM")
    ELSE Then(DupMmap(s, to, from, full),
              LAMBDA t : IF t.ret # "ok" THEN MmDestroy(t, to)
                         ELSE [t EXCEPT !.brk[to] = t.brk[from], !.mcount[to] = 1])

(* load_icode for a program of one segment: its area, then the page read    *)
(* into it, if there is one.                                                *)
LoadSegment(s, m, page) ==
    Then(MmMap(s, m, PG * Base, PG * (Base + 1), Flags(TRUE, FALSE, FALSE)),
         LAMBDA t : IF t.ret # "ok" THEN t
                    ELSE IF page THEN [t EXCEPT !.pte[m][Base] = Own]
                    ELSE Returns(t, "E_NO_MEM"))

(* brk behind the program, the stack at the top, and the first user.        *)
LoadStack(s, m) ==
    Then(MmMap([s EXCEPT !.brk[m] = Base + 1], m, PG * (Top - 2), PG * Top,
               Flags(TRUE, TRUE, FALSE)),
         LAMBDA t : IF t.ret # "ok" THEN t ELSE [t EXCEPT !.mcount[m] = 1])

(* Both, and bad_cleanup_mmap where one of them fails.                      *)
LoadIcode(s, m, page) ==
    LET prog == LoadSegment(s, m, page)
    IN Then(IF prog.ret = "ok" THEN LoadStack(prog, m) ELSE prog,
            LAMBDA t : IF t.ret # "ok" THEN MmDestroy(t, m) ELSE t)

(* get_unmapped_area: from the top down, between the areas; 0 if none.     *)
GetUnmappedArea(s, m, len) ==
    LET below == FoldLeft(
            LAMBDA r, a : IF r.done \/ r.at >= a.e THEN [r EXCEPT !.done = TRUE]
                          ELSE IF r.at + len > a.s
                          THEN IF len >= a.s THEN [at |-> 0, done |-> TRUE]
                               ELSE [at |-> a.s - len, done |-> FALSE]
                          ELSE r,
            [at |-> PG * Top - len, done |-> FALSE], Reverse(s.list[m]))
    IN IF below.done \/ below.at >= PG * Base THEN below.at ELSE 0

(* user_mem_check: area by area through the range; and what do_pgfault     *)
(* lets a process do with one address.                                     *)
Permits(a, write) == write => a.w
UserMemCheck(s, m, addr, len, write) ==
    /\ UserAccess(addr, addr + len)
    /\ \A x \in addr..(addr + len - 1) :
          LET i == FindVma(s, m, x) IN
          /\ i # 0 /\ s.list[m][i].s <= x /\ Permits(s.list[m][i], write)
          /\ write /\ s.list[m][i].stack => Max({addr, s.list[m][i].s}) >= s.list[m][i].s + PG
MayFault(s, m, addr, write) ==
    LET i == FindVma(s, m, addr) IN
    /\ i # 0 /\ s.list[m][i].s <= addr /\ Permits(s.list[m][i], write)
    /\ s.list[m][i].stack => addr >= s.list[m][i].s + PG

(* do_pgfault of a page that is not there: a new page, or the page of the  *)
(* shared memory, whose offset shmem_get_entry asserts to be in range.     *)
Fill(s, m, p) ==
    LET i == FindVma(s, m, PG * p)
        a == s.list[m][i]
        off == PG * p - a.s + a.off
    IN IF ~a.share THEN [Found(s, m, PG * p) EXCEPT !.pte[m][p] = Own]
       ELSE IF a.shm = NoShm THEN Stops(s, "null")
       ELSE IF off >= s.slen[a.shm] THEN Stops(s, "assert")
       ELSE [Found(s, m, PG * p) EXCEPT !.pte[m][p] = <<a.shm, off>>]
-----------------------------------------------------------------------------
Runs == calls < MaxCalls /\ vm.bad = "no"
Live(m) == Runs /\ vm.mcount[m] > 0
Dead(m) == Runs /\ vm.mcount[m] = 0
Dead0 == [list |-> [m \in MM |-> << >>],
          cache |-> [m \in MM |-> 0], mcount |-> [m \in MM |-> 0],
          brk |-> [m \in MM |-> 0], pte |-> [m \in MM |-> Empty],
          sref |-> [h \in Shm |-> 0], slen |-> [h \in Shm |-> 0],
          ret |-> "ok", bad |-> "no"]

(* mm_create for the first program                                         *)
Init == calls = 0 /\ \E m \in {CHOOSE m \in MM : TRUE} : vm = LoadIcode(Dead0, m, TRUE)

(* shmem_destroy; the result is only the caller's.                         *)
Freed(s) == [s EXCEPT !.ret = "ok", !.slen = [h \in Shm |-> IF s.sref[h] = 0 THEN 0 ELSE @[h]]]
Becomes(s) == vm' = Freed(s) /\ UNCHANGED calls
Changes(s) == calls' = calls + 1 /\ vm' = Freed(s)

(* do_fork with and without CLONE_VM; the page for which memory runs out,  *)
(* if any, is Top or one of the others.                                    *)
CloneVm(m) == Live(m) /\ vm.mcount[m] < 2 /\ Changes([vm EXCEPT !.mcount[m] = @ + 1])
Fork(m, n, full) == Live(m) /\ Dead(n) /\ Changes(CopyMm(vm, n, m, full))

(* __do_exit, do_execve: leave an address space; the last one destroys it. *)
Exit(m) ==
    /\ Live(m)
    /\ Changes(IF vm.mcount[m] > 1 THEN [vm EXCEPT !.mcount[m] = @ - 1] ELSE MmDestroy(vm, m))
Execve(m, page) == Dead(m) /\ Changes(LoadIcode(vm, m, page))

(* do_brk to a given page                                                  *)
DoBrk(m, newbrk) ==
    LET old == vm.brk[m]
        low == PG * old
        high == PG * newbrk
    IN /\ Live(m) /\ newbrk >= Base + 1 /\ newbrk # old
       /\ \/ /\ newbrk < old
             /\ \E s \in {MmUnmap(vm, m, high, low)} :
                    Changes(IF s.ret = "ok" THEN [s EXCEPT !.brk[m] = newbrk] ELSE s)
          \/ /\ newbrk > old
             /\ IF Unoccupied(vm, m, low, high + PG)
                THEN \E s \in {MmBrk(vm, m, low, high)} :
                         Changes(IF s.ret = "ok" THEN [s EXCEPT !.brk[m] = newbrk] ELSE s)
                ELSE Changes(Returns(Found(vm, m, low), "ok"))

(* do_mmap and do_shmem; address 0 lets the kernel choose.                 *)
PlaceOf(m, addr, len) ==
    IF RoundDown(addr) = 0 THEN GetUnmappedArea(vm, m, RoundUp(addr + len) - RoundDown(addr))
    ELSE RoundDown(addr)
DoMmap(m, addr, len, w, stack) ==
    LET at == PlaceOf(m, addr, len)
        n == RoundUp(addr + len) - RoundDown(addr)
    IN /\ Live(m)
       /\ Changes(IF at = 0 THEN Returns(vm, "E_NO_MEM")
                  ELSE MmMap(vm, m, at, at + n, Flags(w, stack, FALSE)))
DoShmem(m, addr, len, h) ==
    LET at == PlaceOf(m, addr, len)
        n == RoundUp(addr + len) - RoundDown(addr)
    IN /\ Live(m) /\ vm.sref[h] = 0
       /\ Changes(IF at = 0 THEN Returns(vm, "E_NO_MEM")
                  ELSE MmMapShmem(vm, m, at, at + n, Flags(TRUE, FALSE, FALSE), h))

(* do_munmap                                                               *)
DoMunmap(m, addr, len) ==
    Live(m) /\ Changes(MmUnmap(vm, m, RoundDown(addr), RoundUp(addr + len)))

(* do_pgfault: a process touches a page that is not there.                 *)
PgFault(m, p, write) ==
    /\ Live(m) /\ vm.pte[m][p] = None
    /\ IF MayFault(vm, m, PG * p, write) THEN Changes(Fill(vm, m, p))
       ELSE Becomes(Returns(Found(vm, m, PG * p), "E_INVAL"))

(* Addresses and lengths that are no multiples of a page; address 0 leaves *)
(* the choice to the kernel.                                               *)
Request == {<<0, PG * n - 1>> : n \in 1..MaxLen}
           \cup {<<PG * p + 1, PG * n - 1>> : p \in (Base - 1)..Top, n \in 1..MaxLen}

Next ==
    \E m \in MM :
        \/ CloneVm(m) \/ Exit(m) \/ (\E page \in BOOLEAN : Execve(m, page))
        \/ \E n \in MM \ {m}, full \in Page \cup {0, Top} : Fork(m, n, full)
        \/ \E b \in Page : DoBrk(m, b)
        \/ \E r \in Request :
              \/ DoMunmap(m, r[1], r[2])
              \/ DoMmap(m, r[1], r[2], TRUE, FALSE) \/ DoMmap(m, r[1], r[2], FALSE, FALSE)
              \/ DoMmap(m, r[1], r[2], TRUE, TRUE)
              \/ \E h \in Shm : DoShmem(m, r[1], r[2], h)
        \/ \E p \in Page, write \in BOOLEAN : PgFault(m, p, write)

Spec == Init /\ [][Next]_vars
-----------------------------------------------------------------------------
AreasOf(m) == ToSet(vm.list[m])
AreaAt(m, p) == {a \in AreasOf(m) : a.s <= PG * p /\ PG * p < a.e}

(* The areas of an address space are page aligned, ordered and disjoint,   *)
(* and the cached area is one of them: a stale mmap_cache would make       *)
(* find_vma return freed memory.  The assertions never fail, and what      *)
(* user_mem_check lets the kernel write for a process a fault can supply:  *)
(* otherwise the copy would stop the kernel (trap.c:168).                  *)
AreasSound ==
    /\ vm.bad # "assert"
    /\ \A m \in MM :
        /\ vm.cache[m] \in 0..Len(vm.list[m])
        /\ \A i \in DOMAIN vm.list[m] :
              LET a == vm.list[m][i] IN
              /\ a.s % PG = 0 /\ a.e % PG = 0 /\ UserAccess(a.s, a.e)
              /\ i < Len(vm.list[m]) => a.e <= vm.list[m][i + 1].s
        /\ vm.mcount[m] > 0 /\ vm.bad = "no" =>
              \A addr \in (PG * Base)..(PG * Top) :
                 UserMemCheck(vm, m, addr, 1, TRUE) => MayFault(vm, m, addr, TRUE)

(* A page table holds pages only inside the areas, and in a shared area    *)
(* the page of that memory which belongs to the address, also after the    *)
(* area was cut; a shared memory is counted once per area.                 *)
PagesInAreas == vm.bad = "no" =>
    /\ \A m \in MM : \A p \in Page : vm.pte[m][p] # None =>
          \E a \in AreaAt(m, p) :
             IF a.share THEN a.shm # NoShm => vm.pte[m][p] = <<a.shm, PG * p - a.s + a.off>>
             ELSE vm.pte[m][p] = Own
    /\ \A h \in Shm : vm.sref[h] = FoldSet(LAMBDA m, n : n + Cardinality({i \in
          DOMAIN vm.list[m] : vm.list[m][i].shm = h}), 0, MM)

(* Every call changes the use of one range of pages of the caller's own    *)
(* address space, all of it or nothing, however the areas are cut, joined  *)
(* and copied and whichever allocation fails in between: Vmm implements    *)
(* VmmAbs.                                                                 *)
UseOf(m, p) ==
    IF AreaAt(m, p) = {} THEN << >>
    ELSE LET a == CHOOSE a \in AreaAt(m, p) : TRUE IN [w |-> a.w, stack |-> a.stack]
Abs == INSTANCE VmmAbs WITH
    perm <- [m \in MM |-> [p \in Page |-> UseOf(m, p)]],
    Free <- << >>
CallsKeepPromise == Abs!Spec

(* Every area with VM_SHARE has its shared memory, as the self-test        *)
(* check_mm_shm_swap asserts after mapping one (mm/swap.c:1276).           *)
SharedHaveShmem == \A m \in MM : \A a \in AreasOf(m) : a.share => a.shm # NoShm
=============================================================================
