------------------------------ MODULE KernLock ------------------------------
(***************************************************************************)
(* The big kernel lock and the TLB shootdown of kern-ucore                 *)
(* (glue-ucore/mp.c, glue-ucore/trap.c, x86/spinlock.h).                   *)
(*                                                                         *)
(* Every CPU is outside the kernel (user mode or idle, interrupts on),     *)
(* spinning in kern_enter with interrupts off, or inside the kernel with   *)
(* kern_lock held.  Inside the kernel it may change a page-table entry and *)
(* run mp_tlb_invalidate, which interrupts every other CPU and spins until *)
(* each of them has acknowledged.  A CPU that spins in kern_enter cannot   *)
(* take the interrupt, so it polls ipi_raise.                              *)
(*                                                                         *)
(* A CPU has an index and the id of its local APIC, in no fixed relation   *)
(* (Boot).  ipi_raise and the interrupts go by id; the initiator's loops   *)
(* run over the indexes, leave out its own index and use each of the       *)
(* others as an id ("XXX: idx=>lapic_id MAP!!!???").                       *)
(*                                                                         *)
(* The model starts when init_finished = lcpu_count, so the early return   *)
(* of mp_tlb_invalidate during the boot is never taken.                    *)
(***************************************************************************)
EXTENDS Naturals, Functions

CONSTANTS
    NCPU,        \* lcpu_count
    LapicCount,  \* LAPIC_COUNT, the length of ipi_raise
    Pgdir,       \* page directories that CR3 may hold
    La           \* linear addresses

ASSUME NCPUAssumption == NCPU \in Nat \ {0} /\ LapicCount \in Nat /\ NCPU <= LapicCount

CPU == 0 .. NCPU - 1             \* lcpu_idx
LapicId == 0 .. LapicCount - 1

VARIABLES
    lapic_id,    \* the id of the CPU's local APIC, read once by mp_init
    pc,          \* where the CPU is with respect to the lock
    kern_lock,   \* the spinlock word
    ipi,         \* progress of the T_IPI handler on the CPU
    ipi_raise,   \* shootdown request to an APIC id, set by the initiator
    irq,         \* ids of the local APICs that have a T_IPI pending
    mpti_end,    \* the initiator has flushed its own TLB
    mpti,        \* page directory and address being shot down
    idx,         \* loop index i of mp_tlb_invalidate
    cr3,         \* page directory loaded on the CPU
    tlb          \* what the CPU has cached for each address under cr3

vars == <<lapic_id, pc, kern_lock, ipi, ipi_raise, irq, mpti_end, mpti, idx, cr3, tlb>>

Initiating == {"raise", "flush", "wait"}
InKern == {"kern"} \cup Initiating

TypeOK ==
    /\ lapic_id \in Injection(CPU, LapicId)
    /\ pc \in [CPU -> {"out", "poll", "try"} \cup InKern]
    /\ kern_lock \in {0, 1}
    /\ ipi \in [CPU -> {"none", "check", "spin"}]
    /\ ipi_raise \in [LapicId -> {0, 1}]
    /\ irq \in SUBSET LapicId
    /\ mpti_end \in {0, 1}
    /\ mpti \in [pgdir : Pgdir, la : La]
    /\ idx \in 0 .. NCPU
    /\ cr3 \in [CPU -> Pgdir]
    /\ tlb \in [CPU -> [La -> {"none", "fresh", "stale"}]]

Init ==
    /\ lapic_id \in Injection(CPU, LapicId)     \* different CPUs, different ids
    /\ pc = [c \in CPU |-> "out"]
    /\ kern_lock = 0
    /\ ipi = [c \in CPU |-> "none"]
    /\ ipi_raise = [i \in LapicId |-> 0]
    /\ irq = {}
    /\ mpti_end = 0
    /\ mpti \in [pgdir : Pgdir, la : La]
    /\ idx = 0
    /\ cr3 \in [CPU -> Pgdir]
    /\ tlb = [c \in CPU |-> [a \in La |-> "none"]]

-----------------------------------------------------------------------------
(* Entering and leaving the kernel.  No step of a CPU happens while its    *)
(* T_IPI handler runs.                                                     *)

At(c, l) == pc[c] = l /\ ipi[c] = "none"

Goto(c, l) == pc' = [pc EXCEPT ![c] = l]

tlbVars == <<lapic_id, mpti_end, mpti, idx, cr3, tlb>>

(* A trap from user mode or from the idle loop: interrupts go off.         *)
KernEnter(c) ==
    /\ At(c, "out")
    /\ Goto(c, "poll")
    /\ UNCHANGED <<kern_lock, ipi, ipi_raise, irq, tlbVars>>

Poll_Never(c) ==
    /\ At(c, "poll")
    /\ Goto(c, "try")
    /\ UNCHANGED <<kern_lock, ipi, ipi_raise, irq, tlbVars>>

(* kern_enter: a raised request is served by a software interrupt.         *)
KernEnterPoll(c) ==
    /\ At(c, "poll")
    /\ Goto(c, "try")
    /\ ipi' = [ipi EXCEPT ![c] = IF ipi_raise[lapic_id[c]] = 1 THEN "check" ELSE "none"]
    /\ UNCHANGED <<kern_lock, ipi_raise, irq, tlbVars>>

Try_NoExchange(c) ==
    /\ At(c, "try")
    /\ kern_lock' = 1
    /\ Goto(c, "kern")
    /\ UNCHANGED <<ipi, ipi_raise, irq, tlbVars>>

(* kern_enter: spinlock_acquire_try, an atomic exchange.                   *)
KernEnterTry(c) ==
    /\ At(c, "try")
    /\ kern_lock' = 1
    /\ Goto(c, IF kern_lock = 1 THEN "poll" ELSE "kern")
    /\ UNCHANGED <<ipi, ipi_raise, irq, tlbVars>>

KernLeave(c) ==
    /\ At(c, "kern")
    /\ kern_lock' = 0
    /\ Goto(c, "out")
    /\ UNCHANGED <<ipi, ipi_raise, irq, tlbVars>>

(* proc_run -> mp_set_mm_pagetable: loading CR3 empties the TLB.           *)
SetMmPagetable(c, g) ==
    /\ At(c, "kern")
    /\ cr3' = [cr3 EXCEPT ![c] = g]
    /\ tlb' = [tlb EXCEPT ![c] = [a \in La |-> "none"]]
    /\ UNCHANGED <<lapic_id, pc, kern_lock, ipi, ipi_raise, irq, mpti_end, mpti, idx>>

-----------------------------------------------------------------------------
(* The shootdown.                                                          *)

(* tlb_invalidate: invlpg only if the page directory is the loaded one.    *)
TlbInvalidate(c) ==
    tlb' = IF cr3[c] = mpti.pgdir
           THEN [tlb EXCEPT ![c][mpti.la] = "none"]
           ELSE tlb

(* The page-table entry of a in g changes (page_remove_pte, page_insert,   *)
(* swap_out_vma), which makes every cached translation of it stale, and    *)
(* mp_tlb_invalidate publishes what is to be flushed.                      *)
ShootdownBegin(c, g, a) ==
    /\ At(c, "kern")
    /\ Goto(c, "raise")
    /\ tlb' = [d \in CPU |->
                 IF cr3[d] = g /\ tlb[d][a] = "fresh"
                 THEN [tlb[d] EXCEPT ![a] = "stale"]
                 ELSE tlb[d]]
    /\ mpti_end' = 0
    /\ mpti' = [pgdir |-> g, la |-> a]
    /\ idx' = 0
    /\ UNCHANGED <<lapic_id, kern_lock, ipi, ipi_raise, irq, cr3>>

(* First loop: every index but the own one is taken for an APIC id, raised *)
(* and interrupted, the initiator itself included where that is its id.    *)
(* lapic_ipi_issue fails when the local APIC is busy; its result is        *)
(* ignored.  An interrupt to an id without a CPU is lost.                  *)
ShootdownRaise(c) ==
    /\ At(c, "raise")
    /\ idx < NCPU
    /\ idx' = idx + 1
    /\ IF idx = c
       THEN UNCHANGED <<ipi_raise, irq>>
       ELSE /\ ipi_raise' = [ipi_raise EXCEPT ![idx] = 1]
            /\ irq' = irq \cup ({idx} \cap Range(lapic_id)) \/ irq' = irq
    /\ UNCHANGED <<lapic_id, pc, kern_lock, ipi, mpti_end, mpti, cr3, tlb>>

ShootdownRaised(c) ==
    /\ At(c, "raise")
    /\ idx = NCPU
    /\ Goto(c, "flush")
    /\ UNCHANGED <<kern_lock, ipi, ipi_raise, irq, tlbVars>>

(* The local flush, mpti_end = 1 and the start of the second loop.         *)
ShootdownFlush(c) ==
    /\ At(c, "flush")
    /\ Goto(c, "wait")
    /\ TlbInvalidate(c)
    /\ mpti_end' = 1
    /\ idx' = 0
    /\ UNCHANGED <<lapic_id, kern_lock, ipi, ipi_raise, irq, mpti, cr3>>

Wait_NoSpin(c) ==
    /\ At(c, "wait")
    /\ idx < NCPU
    /\ idx' = idx + 1
    /\ UNCHANGED <<lapic_id, pc, kern_lock, ipi, ipi_raise, irq, mpti_end, mpti, cr3, tlb>>

(* Second loop: spin until the id has been acknowledged.                   *)
ShootdownWait(c) ==
    /\ At(c, "wait")
    /\ idx < NCPU
    /\ idx = c \/ ipi_raise[idx] = 0
    /\ idx' = idx + 1
    /\ UNCHANGED <<lapic_id, pc, kern_lock, ipi, ipi_raise, irq, mpti_end, mpti, cr3, tlb>>

ShootdownEnd(c) ==
    /\ At(c, "wait")
    /\ idx = NCPU
    /\ Goto(c, "kern")
    /\ UNCHANGED <<kern_lock, ipi, ipi_raise, irq, tlbVars>>

-----------------------------------------------------------------------------
(* The T_IPI handler ipi() and the hardware.                               *)

(* The local APIC delivers a pending T_IPI where interrupts are on; it may *)
(* be one whose request was already served by polling.                     *)
IpiDeliver(c) ==
    /\ lapic_id[c] \in irq
    /\ At(c, "out") \/ At(c, "kern")
    /\ irq' = irq \ {lapic_id[c]}
    /\ ipi' = [ipi EXCEPT ![c] = "check"]
    /\ UNCHANGED <<pc, kern_lock, ipi_raise, tlbVars>>

IpiCheck(c) ==
    /\ ipi[c] = "check"
    /\ IF ipi_raise[lapic_id[c]] = 1
       THEN ipi' = [ipi EXCEPT ![c] = "spin"] /\ TlbInvalidate(c)
       ELSE ipi' = [ipi EXCEPT ![c] = "none"] /\ UNCHANGED tlb
    /\ UNCHANGED <<lapic_id, pc, kern_lock, ipi_raise, irq, mpti_end, mpti, idx, cr3>>

IpiAck(c) ==
    /\ ipi[c] = "spin"
    /\ mpti_end = 1
    /\ ipi_raise' = [ipi_raise EXCEPT ![lapic_id[c]] = 0]
    /\ ipi' = [ipi EXCEPT ![c] = "none"]
    /\ UNCHANGED <<pc, kern_lock, irq, tlbVars>>

(* The MMU may load the current translation at any time.                   *)
TlbLoad(c, a) ==
    /\ tlb[c][a] = "none"
    /\ tlb' = [tlb EXCEPT ![c][a] = "fresh"]
    /\ UNCHANGED <<lapic_id, pc, kern_lock, ipi, ipi_raise, irq, mpti_end, mpti, idx, cr3>>

-----------------------------------------------------------------------------
Shootdown(c) ==
    \/ ShootdownRaise(c) \/ ShootdownRaised(c) \/ ShootdownFlush(c)
    \/ ShootdownWait(c) \/ ShootdownEnd(c)

Next ==
    \E c \in CPU :
        \/ KernEnter(c) \/ KernEnterPoll(c) \/ KernEnterTry(c) \/ KernLeave(c)
        \/ \E g \in Pgdir : SetMmPagetable(c, g)
        \/ \E g \in Pgdir, a \in La : ShootdownBegin(c, g, a)
        \/ Shootdown(c)
        \/ IpiDeliver(c) \/ IpiCheck(c) \/ IpiAck(c)
        \/ \E a \in La : TlbLoad(c, a)

Spec == Init /\ [][Next]_vars

(* A CPU that runs keeps executing, and the periodic local APIC timer      *)
(* (lapic.c) brings every CPU that is outside into kern_enter.             *)
Fairness ==
    \A c \in CPU :
        /\ WF_vars(KernEnter(c))
        /\ WF_vars(KernEnterPoll(c) \/ KernEnterTry(c))
        /\ WF_vars(Shootdown(c))
        /\ WF_vars(IpiCheck(c) \/ IpiAck(c))

FairSpec == Spec /\ Fairness

-----------------------------------------------------------------------------
(* kern_enter/kern_leave: at most one CPU is inside the kernel, and the    *)
(* lock word says so.                                                      *)
MutualExclusion ==
    /\ \A c, d \in CPU : pc[c] \in InKern /\ pc[d] \in InKern => c = d
    /\ (kern_lock = 1) <=> \E c \in CPU : pc[c] \in InKern

(* mp_tlb_invalidate returns only when no CPU holds a translation that the *)
(* changed page-table entry no longer gives: whenever no shootdown is in   *)
(* progress nothing stale is cached anywhere, whatever the APIC ids are.   *)
NoStaleTranslation ==
    (\A c \in CPU : pc[c] \notin Initiating)
        => \A c \in CPU, a \in La : tlb[c][a] # "stale"

(* The ids that c raises are those of the other CPUs.  It is so for every  *)
(* c when ids and indexes are the same.                                    *)
Reaches(c) == {lapic_id[d] : d \in CPU \ {c}} = CPU \ {c}

(* mp_tlb_invalidate returns where the ids it raises are those of the      *)
(* other CPUs: a CPU that spins for kern_lock with interrupts off, or      *)
(* whose interrupt was never issued, still answers.  Elsewhere it never    *)
(* does: it waits for an answer of itself, or of an id without a CPU.      *)
ShootdownCompletes ==
    \A c \in CPU :
        /\ pc[c] = "raise" /\ Reaches(c) ~> pc[c] = "kern"
        /\ pc[c] = "raise" /\ ~Reaches(c) ~> [](pc[c] = "wait")

-----------------------------------------------------------------------------
(* The strengthening of the safety properties that is inductive.           *)

(* Requests exist only during a shootdown, never for the index of the      *)
(* initiator, and follow its two loops.                                    *)
RaiseInv ==
    \A i \in LapicId : ipi_raise[i] = 1 =>
        \E c \in CPU :
            /\ c # i /\ i < NCPU
            /\ \/ pc[c] = "raise" /\ i < idx
               \/ pc[c] = "flush"
               \/ pc[c] = "wait" /\ i >= idx

(* A CPU in the handler's spin has been asked and has flushed.  The        *)
(* initiator is in no handler.                                             *)
SpinInv ==
    \A d \in CPU :
        /\ ipi[d] = "spin" => ipi_raise[lapic_id[d]] = 1
        /\ pc[d] \in Initiating => ipi[d] = "none"

(* A request that is gone was one to another CPU.                          *)
AnswerInv ==
    \A c, i \in CPU :
        (/\ c # i /\ ipi_raise[i] = 0
         /\ \/ pc[c] = "raise" /\ i < idx
            \/ pc[c] \in {"flush", "wait"})
        => \E d \in CPU \ {c} : lapic_id[d] = i

(* d is still going to flush, or is out of the initiator's reach.          *)
Owes(d) ==
    \/ pc[d] \in {"raise", "flush"}
    \/ ipi_raise[lapic_id[d]] = 1 /\ ipi[d] # "spin"
    \/ \E c \in CPU :
          /\ c # d
          /\ \/ pc[c] = "raise" /\ lapic_id[d] >= idx
             \/ pc[c] \in Initiating /\ lapic_id[d] \notin CPU \ {c}

(* A stale translation belongs to the entry being shot down, on a CPU that *)
(* owes a flush.                                                           *)
StaleInv ==
    \A d \in CPU, a \in La :
        tlb[d][a] = "stale" => a = mpti.la /\ cr3[d] = mpti.pgdir /\ Owes(d)

(* mpti_end and idx follow the initiator's two loops.                      *)
LoopInv ==
    \A c \in CPU :
        /\ pc[c] \in {"raise", "flush"} => mpti_end = 0
        /\ pc[c] = "flush" => idx = NCPU

IndInv ==
    TypeOK /\ MutualExclusion /\ RaiseInv /\ SpinInv /\ AnswerInv /\ StaleInv /\ LoopInv
=============================================================================
