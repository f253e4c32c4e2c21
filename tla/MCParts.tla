------------------------------ MODULE MCParts ------------------------------
(***************************************************************************)
(* What processes use of the kernel and its libraries, one unit per        *)
(* behaviour.  Memory, from the firmware's map to the pages of a process:  *)
(* the memory map and the page allocator of the supervisor, the slabs, the *)
(* red-black trees, the page tables, the address spaces and the swapping   *)
(* of kern-ucore, and the allocator of kern-river.  Then what runs above   *)
(* it: the libraries, the heap of a user program, the shell, and a mailbox *)
(* between processes (Mbox, whose names stay as they are).  The units meet *)
(* only through the contracts their properties state, so the others rest.  *)
(***************************************************************************)
EXTENDS Mbox, TLC

CONSTANTS MM, Shm, NoShm, c1, c2, NoCache

VARIABLES
    unit,
    calls, vm,
    mem, use, wrote, writes,
    area, property, used,
    slabs, km, t, d, mm,
    call, heap, sh

memoryVars == <<calls, vm, mem, use, wrote, writes, area, property, used, slabs, km, t, d, mm>>
userVars == <<call, heap, sh>>

V == INSTANCE Vmm WITH NVma <- 5, Base <- 1, Top <- 7, MaxLen <- 3, MaxCalls <- 3
W == INSTANCE Swap WITH Priv <- 1, NPages <- 6, NSwap <- 1, MaxWrites <- 2
B == INSTANCE Buddy WITH ZoneBase <- <<1, 8>>, ZoneSize <- <<6, 3>>, NPage <- 11, MaxOrder <- 2
S == INSTANCE Slab WITH
    Cache <- {c1, c2}, Num <- c1 :> 2 @@ c2 :> 1, SlabCachep <- c1 :> NoCache @@ c2 :> c1,
    MaxSlabs <- 5
A == INSTANCE Kmm WITH
    Cpu <- {"a", "b"}, MinShift <- 1, Delta <- 2, PGSIZE <- 4, MinBlock <- 2, MaxBlock <- 4,
    NPages <- 6, Sizes <- {2, 5, 7}, MaxUsed <- 3
KeyOf(x) == IF x > 6 THEN x - 1 ELSE x               \* two nodes of one key
R == INSTANCE RbTree WITH Node <- 1..9
P == INSTANCE PageTable WITH NPGENTRY <- 2, Area <- {<<1, 5>>, <<7, 10>>}

Ram(b, e, t0) == [begin |-> b, end |-> e, type |-> t0]
Maps == {<<Ram(-4, b, 1), Ram(c, e, x), Ram(f, 16, y)>> :
            b \in {-1, 3, 6}, c \in {5, 6}, e \in {8, 9}, f \in {7, 9, 11}, x \in 1..4, y \in 1..3}
M == INSTANCE MemMap WITH E820 <- Maps, PGSIZE <- 2, SVSIZE <- 14, Freemem <- 2, KernEnd <- 2,
    Sizes <- {1, 3}, Aligns <- {1, 2}, MaxBlocks <- 3

L == INSTANCE Libc WITH MemSize <- 4, WordBits <- 6
H == INSTANCE Umalloc WITH Brk0 <- 4, Top <- 16, Page <- 4, MaxUnits <- 3, MaxBlocks <- 7
Lines == {<<"a", "|", "b", "|", "c">>, <<"a", ">", "f", ";", "b", "<", "g">>,
          <<"a", "|", "b", ";", "c">>, <<"cd", "d">>, <<"a", "&">>, <<"a", "x", "y">>, <<"a", "<">>, << >>}
C == INSTANCE Shell WITH Line <- Lines, Pid <- 1..6, MaxLine <- 2, MaxArg <- 2

-----------------------------------------------------------------------------
(* A unit that does not run has variables that are 0; the mailbox and the  *)
(* address spaces, whose properties are stated of every behaviour, rest in *)
(* their initial state.                                                    *)
PartsInit ==
    /\ unit \in {"vmm", "swap", "buddy", "slab", "kmm", "tree", "table", "map",
                "libc", "heap", "shell", "mbox"}
    /\ V!Init
    /\ IF unit = "swap" THEN W!Init ELSE mem = 0 /\ use = 0 /\ wrote = 0 /\ writes = 0
    /\ IF unit = "buddy" THEN B!Init ELSE area = 0 /\ property = 0 /\ used = 0
    /\ IF unit = "slab" THEN S!Init ELSE slabs = 0
    /\ IF unit = "kmm" THEN A!Init ELSE km = 0
    /\ IF unit = "tree" THEN R!Init ELSE t = 0
    /\ IF unit = "table" THEN P!Init ELSE d = 0
    /\ IF unit = "map" THEN M!Init ELSE mm = 0
    /\ IF unit = "libc" THEN L!Init ELSE call = 0
    /\ IF unit = "heap" THEN H!Init ELSE heap = 0
    /\ IF unit = "shell" THEN C!Init ELSE sh = 0
    /\ Init

MemoryNext ==
    \/ unit = "vmm" /\ V!Next
       /\ UNCHANGED <<mem, use, wrote, writes, area, property, used, slabs, km, t, d, mm>>
    \/ unit = "swap" /\ W!Next
       /\ UNCHANGED <<calls, vm, area, property, used, slabs, km, t, d, mm>>
    \/ unit = "buddy" /\ B!Next
       /\ UNCHANGED <<calls, vm, mem, use, wrote, writes, slabs, km, t, d, mm>>
    \/ unit = "slab" /\ S!Next
       /\ UNCHANGED <<calls, vm, mem, use, wrote, writes, area, property, used, km, t, d, mm>>
    \/ unit = "kmm" /\ A!Next
       /\ UNCHANGED <<calls, vm, mem, use, wrote, writes, area, property, used, slabs, t, d, mm>>
    \/ unit = "tree" /\ R!Next
       /\ UNCHANGED <<calls, vm, mem, use, wrote, writes, area, property, used, slabs, km, d, mm>>
    \/ unit = "table" /\ P!Next
       /\ UNCHANGED <<calls, vm, mem, use, wrote, writes, area, property, used, slabs, km, t, mm>>
    \/ unit = "map" /\ M!Next
       /\ UNCHANGED <<calls, vm, mem, use, wrote, writes, area, property, used, slabs, km, t, d>>

UserNext ==
    \/ unit = "libc" /\ L!Next /\ UNCHANGED <<heap, sh>>
    \/ unit = "heap" /\ H!Next /\ UNCHANGED <<call, sh>>
    \/ unit = "shell" /\ C!Next /\ UNCHANGED <<call, heap>>

PartsNext ==
    /\ UNCHANGED unit
    /\ \/ MemoryNext /\ UNCHANGED <<userVars, vars>>
       \/ UserNext /\ UNCHANGED <<memoryVars, vars>>
       \/ unit = "mbox" /\ Next /\ UNCHANGED <<memoryVars, userVars>>

PartsSpec == PartsInit /\ [][PartsNext]_<<unit, memoryVars, userVars, vars>>

Symmetry == Permutations(Proc)

-----------------------------------------------------------------------------
(* Of Vmm: the areas of an address space are disjoint, sorted and the ones *)
(* the cache names, pages lie in them; a call does what VmmAbs promises or *)
(* nothing.                                                                *)
AreasSound == unit = "vmm" => V!AreasSound /\ V!PagesInAreas
CallsKeepPromise == V!CallsKeepPromise

(* Of Swap: no page loses its contents, all counts are exact, and no       *)
(* assertion fails.                                                        *)
SwapSound == unit = "swap" => W!TypeOK /\ W!ContentsKept /\ W!CountsExact /\ W!AssertsHold


(* Of RbTree and PageTable: the trees stay balanced and complete; walks    *)
(* over a range touch that range and no more.                              *)
TablesSound ==
    /\ unit = "tree" => R!RbSound
    /\ unit = "table" => P!RangesExact

(* Of Libc and Umalloc: memory and string functions, formatting, the heap. *)
LibrarySound ==
    /\ unit = "libc" => L!MemoryExact /\ L!PrintedReadBack /\ L!BufferKept
    /\ unit = "heap" => H!HeapSound

(* Of Shell: a pipe joins two programs at a time, and nobody is stuck.     *)
ShellSound == unit = "shell" => C!PipesJoinTwo /\ C!NobodyStuck
=============================================================================
