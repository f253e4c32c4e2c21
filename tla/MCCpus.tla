------------------------------- MODULE MCCpus -------------------------------
(***************************************************************************)
(* What CPUs and processes share, one unit per behaviour: the kernel lock  *)
(* and the TLB shootdown (KernLock, whose names stay as they are), the     *)
(* scheduler (Sched, its CPU is Lcpu), and the event processes, timers and *)
(* channels of kern-river.  The units share no state; the others rest.     *)
(* Page directories, CPUs of the scheduler and user processes are          *)
(* interchangeable; a page directory of KernLock is an address space of    *)
(* Sched, so that one set of permutations serves both.                     *)
(***************************************************************************)
EXTENDS KernLock, TLC

CONSTANTS
    Lcpu, Task, Kthread, Idle, NoMm, NoCpu, NQ, MaxSlice,   \* of Sched
    Eproc, Event, Pool, IpiEvent                            \* of River

VARIABLES
    unit,
    state, where, mm, lapic, need_resched, rs, current, kern,
    e_status, e_slice, e_pc, queue, proc_current, pool, event, owed, torn, wheel, ipe, dos

schedVars == <<state, where, mm, lapic, need_resched, rs, current, kern>>
eventVars == <<e_status, e_slice, e_pc, queue, proc_current, pool, event, owed, torn>>
riverVars == <<eventVars, wheel, ipe, dos>>

S == INSTANCE Sched WITH
    CPU <- Lcpu, Proc <- Task \cup Kthread, MM <- Pgdir

(* A value for Pool: an event process of its own for the event of init.    *)
TwoPools == [e \in Event |-> IF e = "init" THEN "b" ELSE "a"]

E == INSTANCE River WITH
    status <- e_status, slice <- e_slice, pc <- e_pc
T == INSTANCE RiverTimer WITH
    Timer <- {"a", "b"}, Bits <- 2, Segs <- 3, IntSegs <- 2, MaxDelay <- 16, MaxTick <- 68,
    MaxAcc <- 17,
    t <- wheel
N == INSTANCE RiverComm WITH
    Cpu <- {"c1", "c2"}, Packet <- {"x", "y", "z"}, From <- [x |-> "c1", y |-> "c2", z |-> "c1"],
    Slots <- 2

(* The constants of Sched and River are what the modules expect.           *)
ASSUME SchedConstants == S!SchedAssumption
ASSUME RiverConstants == E!RiverAssumption

(* A unit that does not run: nothing loaded yet, or variables that are 0;  *)
(* both look the same after every permutation.                             *)
LockRests ==
    /\ lapic_id = [c \in CPU |-> c]
    /\ pc = [c \in CPU |-> "out"] /\ kern_lock = 0 /\ ipi = [c \in CPU |-> "none"]
    /\ ipi_raise = [i \in LapicId |-> 0] /\ irq = {} /\ mpti_end = 0 /\ mpti = 0 /\ idx = 0
    /\ cr3 = 0 /\ tlb = [c \in CPU |-> [a \in La |-> "none"]]
SchedRests == \E x \in {0} :
    /\ state = x /\ where = x /\ mm = x /\ lapic = x /\ need_resched = x
    /\ rs = x /\ current = x /\ kern = x

CpusInit ==
    /\ \/ unit = "lock" /\ Init /\ SchedRests
       \/ unit = "sched" /\ S!Init /\ LockRests
       \/ unit \in {"event", "timer", "ipe", "dos"} /\ LockRests /\ SchedRests
    /\ E!Init /\ T!Init /\ N!Init

RiverNext ==
    \/ unit = "event" /\ E!Next /\ UNCHANGED <<wheel, ipe, dos>>
    \/ /\ \/ unit = "timer" /\ T!Next /\ UNCHANGED <<ipe, dos>>
          \/ unit = "ipe" /\ N!IpeNext /\ UNCHANGED wheel
          \/ unit = "dos" /\ N!DosNext /\ UNCHANGED wheel
       /\ UNCHANGED eventVars

(* What follows on a torn list of kern-river is not modelled.              *)
MayStop ==
    /\ unit = "event" /\ torn # "no"
    /\ UNCHANGED <<vars, schedVars, riverVars>>

CpusNext ==
    /\ UNCHANGED unit
    /\ \/ unit = "lock" /\ Next /\ UNCHANGED <<schedVars, riverVars>>
       \/ unit = "sched" /\ S!Next /\ UNCHANGED <<vars, riverVars>>
       \/ RiverNext /\ UNCHANGED <<vars, schedVars>>
       \/ MayStop

CpusSpec == CpusInit /\ [][CpusNext]_<<unit, vars, schedVars, riverVars>>

Symmetry == Permutations(Lcpu) \cup Permutations(Pgdir) \cup Permutations(Task)

-----------------------------------------------------------------------------
(* Of Sched: every process that should be is queued once, on the CPUs its  *)
(* address space allows; and no CPU goes idle over a process it could run. *)
SchedSound == unit = "sched" => S!IndInv
WorkConserving == [][unit = "sched" => S!IdleOnlyIfBusy]_schedVars

(* Of River, RiverTimer and RiverComm: no event, timer or packet is lost.  *)
RiverSound ==
    /\ unit = "event" => E!EventsKept
    /\ unit = "timer" => T!CrhSound
    /\ unit = "ipe" => N!PacketsKept
    /\ unit = "dos" => N!DosKept
=============================================================================
