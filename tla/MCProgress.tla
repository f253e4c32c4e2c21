----------------------------- MODULE MCProgress -----------------------------
(***************************************************************************)
(* What must eventually happen: a process gets a pid (GetPid, whose names  *)
(* stay as they are), is scheduled (Sched, compute-bound processes), dies  *)
(* when it is killed in a sleep and is reaped (ProcLife); a TLB shootdown  *)
(* ends (KernLock); a closed mailbox is freed (Mbox); the readers, writers *)
(* and pipes of user programs come to their end (UserSync); and the CPUs   *)
(* come up together (Boot).  The modules share no state, so a behaviour is *)
(* one of a single unit; the others stay in their initial states.          *)
(***************************************************************************)
EXTENDS GetPid

CONSTANTS
    Lcpu, Task, MM, Idle, NoMm, NoCpu,                \* of Sched; Proc is Task
    Proc, initproc, AnyPid,                           \* of ProcLife
    Pgdir, La,                                        \* of KernLock
    Madt                                              \* of Boot

VARIABLES
    unit,
    s_state, where, mm, lapic, need_resched, rs, current, kern,
    state, p_pc, wait_state, target, parent, group, exiting, exit_code,
    lapic_id, k_pc, kern_lock, ipi, ipi_raise, irq, mpti_end, mpti, idx, cr3, tlb,
    mbox, senders, receivers, runnable, flags, timer, m_pc, size, panicked,
    rw, sp,
    hw, low, cpu, mem

schedVars == <<s_state, where, mm, lapic, need_resched, rs, current, kern>>
procVars == <<state, p_pc, wait_state, target, parent, group, exiting, exit_code>>
lockVars == <<lapic_id, k_pc, kern_lock, ipi, ipi_raise, irq, mpti_end, mpti, idx, cr3, tlb>>
mboxVars == <<mbox, senders, receivers, runnable, flags, timer, m_pc, size, panicked>>
userVars == <<rw, sp>>
bootVars == <<hw, low, cpu, mem>>
allVars == <<unit, vars, schedVars, procVars, lockVars, mboxVars, userVars, bootVars>>

S == INSTANCE Sched WITH
    CPU <- Lcpu, Proc <- Task, Kthread <- {}, state <- s_state, NQ <- 2, MaxSlice <- 1
P == INSTANCE ProcLife WITH pc <- p_pc
K == INSTANCE KernLock WITH NCPU <- 2, LapicCount <- 3, pc <- k_pc
M == INSTANCE Mbox WITH MaxSlots <- 1, Size <- {1, 2}, pc <- m_pc
U == INSTANCE UserSync WITH
    Reader <- {"r1", "r2"}, Writer <- {"v1", "v2"}, BufSize <- 2, Rounds <- 3,
    WriteLen <- 3, ReadLen <- 2

(* A value for Madt: three CPUs, and four of which the last is Linux's;    *)
(* their ids are in no order, one more is disabled, and there is the entry *)
(* of an I/O APIC.                                                         *)
Lapic(i, on) == [type |-> 0, id |-> i, enabled |-> on]
Tables == {<<Lapic(0, TRUE), Lapic(1, TRUE), Lapic(2, TRUE)>>,
           <<Lapic(0, TRUE), Lapic(3, TRUE), Lapic(5, FALSE),
             [type |-> 1, id |-> 4, enabled |-> TRUE], Lapic(2, TRUE), Lapic(1, TRUE)>>}
B == INSTANCE Boot
ASSUME FirmwareTables == B!MadtAssumption

ProgressInit ==
    /\ unit \in {"pid", "sched", "proc", "lock", "mbox", "rf", "wf", "spipe", "boot"}
    /\ Init /\ S!InitCpuBound /\ P!Init /\ M!Init /\ U!InitSp
    /\ U!InitRw(IF unit = "wf" THEN "wf" ELSE "rf")
    /\ K!Init /\ B!Init
    /\ hw.dos <=> Len(hw.ids) = 4
    /\ unit # "boot" => ~hw.dos /\ hw.kernel = "ucore"
    /\ unit # "lock" => /\ mpti = CHOOSE e \in [pgdir : Pgdir, la : La] : TRUE
                        /\ lapic_id = [c \in 0 .. 1 |-> c]
                        /\ cr3 = CHOOSE f \in [0 .. 1 -> Pgdir] : TRUE
    /\ unit # "proc" => state = [p \in P!All |-> IF p = initproc \/ p = CHOOSE q \in Proc : TRUE
                                                 THEN "RUNNABLE" ELSE "none"]

ProgressNext ==
    /\ UNCHANGED unit
    /\ \/ unit = "pid" /\ Next /\ UNCHANGED <<schedVars, procVars, lockVars, mboxVars, userVars, bootVars>>
       \/ unit = "sched" /\ S!NextCpuBound /\ UNCHANGED <<vars, procVars, lockVars, mboxVars, userVars, bootVars>>
       \/ unit = "proc" /\ P!Next /\ UNCHANGED <<vars, schedVars, lockVars, mboxVars, userVars, bootVars>>
       \/ unit = "lock" /\ K!Next /\ UNCHANGED <<vars, schedVars, procVars, mboxVars, userVars, bootVars>>
       \/ unit = "mbox" /\ M!Next /\ UNCHANGED <<vars, schedVars, procVars, lockVars, userVars, bootVars>>
       \/ /\ \/ unit \in {"rf", "wf"} /\ U!RwNext /\ UNCHANGED sp
             \/ unit = "spipe" /\ U!SpNext /\ UNCHANGED rw
          /\ UNCHANGED <<vars, schedVars, procVars, lockVars, mboxVars, bootVars>>
       \/ /\ unit = "boot" /\ B!Next
          /\ UNCHANGED <<vars, schedVars, procVars, lockVars, mboxVars, userVars>>

(* The fairness of each module, asked only of the unit that runs.          *)
ProcFairness ==
    /\ WF_procVars(unit = "proc" /\ P!InitWait)
    /\ \A p \in Proc :
         /\ WF_procVars(unit = "proc" /\ P!TrapTick(p))
         /\ WF_procVars(unit = "proc" /\ P!BecomeZombie(p))
         /\ WF_procVars(unit = "proc" /\ P!WaitAgain(p))
         /\ WF_procVars(unit = "proc" /\ P!BlockReturn(p))
         /\ WF_procVars(unit = "proc" /\ P!Unblock(p, "KSEM"))

SchedFairness ==
    /\ \A c \in Lcpu : SF_schedVars(unit = "sched" /\ (S!TimerTrap(c) \/ S!IdleTrap(c)))
    /\ []<>(kern = NoCpu)

LockFairness ==
    \A c \in 0 .. 1 :
        /\ WF_lockVars(unit = "lock" /\ K!KernEnter(c))
        /\ WF_lockVars(unit = "lock" /\ (K!KernEnterPoll(c) \/ K!KernEnterTry(c)))
        /\ WF_lockVars(unit = "lock" /\ K!Shootdown(c))
        /\ WF_lockVars(unit = "lock" /\ (K!IpiCheck(c) \/ K!IpiAck(c)))

UserFairness ==
    /\ \A p \in U!User :
         WF_rw(unit \in {"rf", "wf"} /\ ~U!Done(p) /\ ~U!Asleep(p) /\ U!Runs(p))
    /\ WF_sp(unit = "spipe" /\ U!Read) /\ WF_sp(unit = "spipe" /\ U!Close)
    /\ \A u \in {"w1", "w2"} : WF_sp(unit = "spipe" /\ U!Write(u))
    /\ \A u \in U!SpUser : WF_sp(unit = "spipe" /\ U!TryAgain(u))

BootFairness == \A c \in 0 .. 3 : WF_bootVars(unit = "boot" /\ c \in B!Cpu /\ B!Step(c))

ProgressSpec ==
    /\ ProgressInit /\ [][ProgressNext]_allVars
    /\ Fairness /\ M!Fairness
    /\ ProcFairness /\ SchedFairness /\ LockFairness /\ UserFairness /\ BootFairness

-----------------------------------------------------------------------------
(* Of Sched: a compute-bound process that waits in a run queue is put on a *)
(* CPU by schedule() again and again.                                      *)
NoStarvation == \A p \in Task : unit = "sched" /\ ~S!OnCpu(p) ~> S!OnCpu(p)

(* Of ProcLife: zombies that fall to initproc are reaped, and a process    *)
(* that is killed in do_wait exits.                                        *)
ProcessesEnd == P!OrphansReaped /\ P!KilledSleeperExits

(* Of KernLock: mp_tlb_invalidate returns, although the other CPUs spin in *)
(* kern_enter with interrupts off and an IPI may never be issued, exactly  *)
(* where the indexes it raises are the APIC ids of the other CPUs.         *)
ShootdownCompletes == K!ShootdownCompletes

(* Of Mbox: a mailbox that is being closed is freed once its users have    *)
(* left.                                                                   *)
ClosingFreed == M!ClosingFreed

(* Of UserSync: readers and writers exclude each other, and a pipe in      *)
(* shared memory delivers what was sent.                                   *)
UserSound ==
    /\ unit \in {"rf", "wf"} => U!ReadersWritersExclude
    /\ unit = "spipe" => U!SpipeExact

(* Of UserSync: each reader and writer gets its turn, and the pipe is read *)
(* to its end.                                                             *)
UserEnds ==
    <>(/\ unit \in {"rf", "wf"} => \A p \in U!User : U!Done(p)
       /\ unit = "spipe" => sp.pc["reader"] = "end")

(* Of Boot: no CPU runs code that is being overwritten, and none leaves    *)
(* the start-up barrier before all can take its interrupts and packets.    *)
StartUpSound == unit = "boot" => B!TrampolineKept /\ B!ReadyTogether /\ B!IndInv

(* Of Boot: every CPU comes up, whatever the order in which they count     *)
(* themselves.                                                             *)
StartUpEnds == <>(unit = "boot" => B!Started)
=============================================================================
