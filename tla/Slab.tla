-------------------------------- MODULE Slab --------------------------------
(***************************************************************************)
(* kmalloc and kfree of kern-ucore: mm/slab.c.  First the geometry of the  *)
(* caches, computed from the sizes as init_kmem_cache computes it; then    *)
(* the lists, slabs and free chains of a few small caches, of which some   *)
(* keep the slab_t of a slab in an object of another cache.                *)
(***************************************************************************)
EXTENDS Integers, Sequences, FiniteSets, FiniteSetsExt, SequencesExt

CONSTANTS
    Cache,        \* the caches whose lists are modelled
    Num,          \* Num[c]: objects per slab
    SlabCachep,   \* SlabCachep[c]: the cache of its slab_t's, NoCache if on the slab
    NoCache,
    MaxSlabs      \* bound on the slabs in use at a time

VARIABLE slabs    \* a record: slab[i], a slab_t with its bufctl, or Unused;
                  \* full[c], notfull[c]: the lists; mine: the objects kmalloc
                  \* gave to callers, as <<slab, number>>; obj: the last result
svars == <<slabs>>

-----------------------------------------------------------------------------
PGSIZE == 4096
SizeofSlab == 48
SizeofBufctl == 8
Align == 16
MinSizeOrder == 5
MaxSizeOrder == 17
KmallocMaxOrder == 10
RoundUp(n, a) == ((n + a - 1) \div a) * a

MgmtSize(num) == RoundUp(SizeofSlab + num * SizeofBufctl, Align)

(* cache_estimate: the number of objects, and what is left over            *)
EstimateNum(order, objsize, off) ==
    LET size == PGSIZE * 2^order
        guess == (size - SizeofSlab) \div (objsize + SizeofBufctl)
    IN IF off THEN size \div objsize
       ELSE Max({n \in (guess - Align)..guess : MgmtSize(n) + n * objsize <= size} \cup {0})
EstimateLeft(order, objsize, off) ==
    LET n == EstimateNum(order, objsize, off)
    IN PGSIZE * 2^order - n * objsize - (IF off THEN 0 ELSE MgmtSize(n))

(* calculate_slab_order                                                    *)
FitsOrder(order, objsize, off) ==
    /\ EstimateNum(order, objsize, off) > 0
    /\ EstimateLeft(order, objsize, off) * 8 <= PGSIZE * 2^order
SlabOrder(objsize, off) ==
    Min({o \in 0..KmallocMaxOrder : FitsOrder(o, objsize, off)})

(* getorder and init_kmem_cache for the cache of objects of 2^k bytes      *)
GetOrder(n) == Min({o \in MinSizeOrder..MaxSizeOrder : n <= 2^o})
Geometry(k) ==
    LET objsize == RoundUp(2^k, Align)
        off == objsize >= PGSIZE \div 8
        order == SlabOrder(objsize, off)
        num == EstimateNum(order, objsize, off)
        keep == off /\ EstimateLeft(order, objsize, off) < MgmtSize(num)
    IN [objsize |-> objsize, order |-> order, num |-> num, off_slab |-> keep,
        offset |-> IF keep THEN 0 ELSE MgmtSize(num),
        mgmt |-> IF keep THEN GetOrder(MgmtSize(num)) ELSE 0]

-----------------------------------------------------------------------------
END == -1                                                \* BUFCTL_END
Unused == << >>
FreeIds(s) == {i \in 1..MaxSlabs : s.slab[i] = Unused}
OffSlab(c) == SlabCachep[c] # NoCache

(* kmem_cache_slabmgmt and kmem_cache_grow, with the object for the slab_t *)
Grow(s, c, at) ==
    LET i == Min(FreeIds(s)) IN
    [s EXCEPT !.slab[i] = [cache |-> c, inuse |-> 0, free |-> 0, at |-> at,
                           bufctl |-> [n \in 0..(Num[c] - 1) |->
                                          IF n = Num[c] - 1 THEN END ELSE n + 1]],
              !.notfull[c] = <<i>> \o @]

(* kmem_cache_alloc_one, of the first slab that is not full                *)
AllocOne(s, c) ==
    LET i == Head(s.notfull[c])
        n == s.slab[i].free
        next == s.slab[i].bufctl[n]
        t == [s EXCEPT !.slab[i].inuse = @ + 1, !.slab[i].free = next, !.obj = <<i, n>>]
    IN IF next # END THEN t
       ELSE [t EXCEPT !.notfull[c] = Tail(@), !.full[c] = <<i>> \o @]

(* kmem_cache_alloc.  The slab_t of an off-slab cache comes from a cache   *)
(* that keeps its own on the slab (Geometry), so that the recursion is one *)
(* deep.                                                                   *)
AllocOn(s, c) == AllocOne(IF s.notfull[c] = << >> THEN Grow(s, c, Unused) ELSE s, c)
AllocOff(s, c) ==
    LET t == AllocOn(s, SlabCachep[c]) IN
    AllocOne(IF s.notfull[c] = << >> THEN Grow(t, c, t.obj) ELSE s, c)
CacheAlloc(s, c) == IF OffSlab(c) THEN AllocOff(s, c) ELSE AllocOn(s, c)

(* kmem_cache_free_one: back to the head of the chain; the slab is given   *)
(* back if it is empty, or leaves the list of the full ones.               *)
Del(q, i) == SelectSeq(q, LAMBDA x : x # i)
Chained(s, i, n) ==
    [s EXCEPT !.slab[i].bufctl[n] = s.slab[i].free, !.slab[i].free = n,
              !.slab[i].inuse = @ - 1]
Unlinked(s, i) ==
    LET c == s.slab[i].cache IN
    [s EXCEPT !.full[c] = Del(@, i), !.notfull[c] = Del(@, i)]
FreeOne_StayFull(s, i, n) ==
    LET t == Chained(s, i, n) IN
    IF t.slab[i].inuse = 0 THEN [Unlinked(t, i) EXCEPT !.slab[i] = Unused] ELSE t
FreeOne(s, i, n) ==
    LET t == Chained(s, i, n)
        c == s.slab[i].cache
    IN IF t.slab[i].inuse = 0 THEN [Unlinked(t, i) EXCEPT !.slab[i] = Unused]
       ELSE IF t.slab[i].inuse = Num[c] - 1
       THEN [Unlinked(t, i) EXCEPT !.notfull[c] = <<i>> \o @]
       ELSE t

(* kmem_cache_free; kmem_slab_destroy frees the slab_t of an off-slab one. *)
CacheFree(s, o) ==
    LET t == FreeOne(s, o[1], o[2])
        at == s.slab[o[1]].at
    IN IF t.slab[o[1]] = Unused /\ at # Unused THEN FreeOne(t, at[1], at[2]) ELSE t

Init ==
    slabs = [slab |-> [i \in 1..MaxSlabs |-> Unused], full |-> [c \in Cache |-> << >>],
             notfull |-> [c \in Cache |-> << >>], mine |-> {}, obj |-> Unused]

Kmalloc(c) ==
    /\ Cardinality(FreeIds(slabs)) >= 2
    /\ slabs' = LET t == CacheAlloc(slabs, c) IN [t EXCEPT !.mine = @ \cup {t.obj}, !.obj = Unused]
Kfree(o) ==
    /\ o \in slabs.mine
    /\ slabs' = [CacheFree(slabs, o) EXCEPT !.mine = @ \ {o}]

Next == (\E c \in Cache : Kmalloc(c)) \/ (\E o \in slabs.mine : Kfree(o))

Spec == Init /\ [][Next]_svars
-----------------------------------------------------------------------------
(* The objects in use: those of the callers, and the slab_t's.             *)
Ids == 1..MaxSlabs \ FreeIds(slabs)
MgmtObjs == {slabs.slab[i].at : i \in Ids} \ {Unused}
InUse(i) == {n \in 0..(Num[slabs.slab[i].cache] - 1) : <<i, n>> \in slabs.mine \cup MgmtObjs}
RECURSIVE Chain(_, _, _)
Chain(b, n, k) == IF n = END \/ k = 0 THEN << >> ELSE <<n>> \o Chain(b, b[n], k - 1)

(* Every cache has a geometry that fits: init_kmem_cache panics for none,  *)
(* the slab_t and its bufctl lie in front of the objects or in an object   *)
(* that holds them, and the cache of those keeps its own on the slab.      *)
GeometrySound ==
    \A k \in MinSizeOrder..MaxSizeOrder :
        LET g == Geometry(k) IN
        /\ g.num > 0 /\ g.offset + g.num * g.objsize <= PGSIZE * 2^g.order
        /\ IF g.off_slab THEN MgmtSize(g.num) <= 2^g.mgmt /\ ~Geometry(g.mgmt).off_slab
           ELSE g.offset >= SizeofSlab + g.num * SizeofBufctl
        /\ 2^k >= PGSIZE \div 8 =>
              EstimateNum(g.order, g.objsize, TRUE)
                 <= (g.objsize - SizeofSlab) \div SizeofBufctl

(* Across allocation and release in every order, no object is handed out   *)
(* twice, as a slab_t or to a caller; a slab's chain holds each of its     *)
(* other objects once; a slab is on the list its count calls for, once;    *)
(* and no empty slab is kept, so that after everything is freed the caches *)
(* are empty, as check_slab_empty asserts.  The geometry is sound.         *)
SlabSound ==
    /\ slabs.mine = {} => GeometrySound
    /\ slabs.mine \cap MgmtObjs = {}
    /\ \A i, j \in Ids : i # j /\ slabs.slab[i].at # Unused => slabs.slab[i].at # slabs.slab[j].at
    /\ \A i \in Ids :
          LET x == slabs.slab[i]
              c == x.cache
              chain == Chain(x.bufctl, x.free, Num[c] + 1)
          IN /\ x.inuse = Cardinality(InUse(i)) /\ x.inuse > 0
             /\ IsInjective(chain) /\ ToSet(chain) = 0..(Num[c] - 1) \ InUse(i)
             /\ (i \in ToSet(slabs.full[c])) <=> x.inuse = Num[c]
             /\ (i \in ToSet(slabs.notfull[c])) <=> x.inuse < Num[c]
    /\ \A c \in Cache : IsInjective(slabs.full[c] \o slabs.notfull[c])
=============================================================================
