-------------------------------- MODULE Sched --------------------------------
(***************************************************************************)
(* The scheduler of kern-ucore on several CPUs (schedule/sched.c,          *)
(* sched_MLFQ.c, sched_RR.c, with the callers in trap.c and proc.c).       *)
(*                                                                         *)
(* Kernel code runs under the big kernel lock, so a kernel section of one  *)
(* CPU is atomic for the others (module KernLock).  All gates are          *)
(* interrupt gates: a system call of a user process runs with interrupts   *)
(* off; only kernel threads (and the idle loop) are interrupted inside the *)
(* kernel, in particular between marking themselves SLEEPING and calling   *)
(* schedule().  An address space runs on at most one CPU: mm->lapic.       *)
(***************************************************************************)
EXTENDS WaitQueue, FiniteSets, FiniteSetTheorems

CONSTANTS
    CPU,        \* logical CPUs
    Proc,       \* processes other than the idle processes
    Kthread,    \* those that are kernel threads
    MM,         \* address spaces
    Idle,       \* stands for the idle process of each CPU
    NoMm, NoCpu,
    NQ,         \* number of run queues in __rq
    MaxSlice    \* __rq[0].max_time_slice

Queue == 1 .. NQ
NoQueue == 0

(* sched_init: the slice doubles from one queue to the next.               *)
MaxTimeSlice(i) == MaxSlice * 2^(i - 1)

(* The last conjunct follows from the one before it: it is for the         *)
(* provers, which know nothing of powers.                                  *)
SchedAssumption ==
    /\ Kthread \subseteq Proc
    /\ Idle \notin Proc /\ NoMm \notin MM /\ NoCpu \notin CPU
    /\ IsFiniteSet(Proc)
    /\ NQ \in Nat \ {0} /\ MaxSlice \in Nat \ {0}
    /\ \A i \in Queue : MaxTimeSlice(i) \in Nat \ {0}

VARIABLES
    state,         \* proc->state
    where,         \* the point of the kernel at which the process is
    mm,            \* proc->mm
    lapic,         \* mm->lapic
    need_resched,  \* proc->need_resched
    rs,            \* run queues, proc->rq and proc->time_slice
    current,       \* the process on each CPU
    kern           \* the CPU that holds the big kernel lock

vars == <<state, where, mm, lapic, need_resched, rs, current, kern>>

RunQueues ==
    [queue : [Queue -> Seq(Proc)],
     rq    : [Proc -> Queue \cup {NoQueue}],
     slice : [Proc -> Nat]]

TypeOK ==
    /\ state \in [Proc -> {"UNINIT", "RUNNABLE", "SLEEPING", "ZOMBIE"}]
    /\ where \in [Proc -> {"user", "kernel", "presleep", "trapret"}]
    /\ mm \in [Proc -> MM \cup {NoMm}]
    /\ lapic \in [MM -> CPU \cup {NoCpu}]
    /\ need_resched \in [Proc -> BOOLEAN]
    /\ rs \in RunQueues
    /\ current \in [CPU -> Proc \cup {Idle}]
    /\ kern \in CPU \cup {NoCpu}

(* After the boot: every CPU is idle and one process (user_main, which has *)
(* no address space yet) is runnable.                                      *)
Init ==
    \E p0 \in Proc \ Kthread :
        /\ state = [p \in Proc |-> IF p = p0 THEN "RUNNABLE" ELSE "UNINIT"]
        /\ where = [p \in Proc |-> "kernel"]
        /\ mm = [p \in Proc |-> NoMm]
        /\ lapic = [m \in MM |-> NoCpu]
        /\ need_resched = [p \in Proc |-> FALSE]
        /\ rs = [queue |-> [i \in Queue |-> IF i = 1 THEN <<p0>> ELSE << >>],
                 rq |-> [p \in Proc |-> IF p = p0 THEN 1 ELSE NoQueue],
                 slice |-> [p \in Proc |-> IF p = p0 THEN MaxSlice ELSE 0]]
        /\ current = [c \in CPU |-> Idle]
        /\ kern = NoCpu

-----------------------------------------------------------------------------
(* The MLFQ policy over RR queues, as functions of the queue state r.      *)

(* MLFQ_enqueue: demote a process that used its slice up, send any other   *)
(* to the first queue.                                                     *)
MLFQ_queue(r, p) ==
    IF r.rq[p] # NoQueue /\ r.slice[p] = 0
    THEN IF r.rq[p] = NQ THEN NQ ELSE r.rq[p] + 1
    ELSE 1

Enqueue_Head(r, p) ==
    LET i == MLFQ_queue(r, p)
    IN  [queue |-> [r.queue EXCEPT ![i] = <<p>> \o @],
         rq    |-> [r.rq EXCEPT ![p] = i],
         slice |-> [r.slice EXCEPT ![p] = MaxTimeSlice(i)]]

(* RR_enqueue on the chosen queue.                                         *)
Enqueue(r, p) ==
    LET i == MLFQ_queue(r, p)
        s == r.slice[p]
    IN  [queue |-> [r.queue EXCEPT ![i] = Append(@, p)],
         rq    |-> [r.rq EXCEPT ![p] = i],
         slice |-> [r.slice EXCEPT ![p] =
                      IF s = 0 \/ s > MaxTimeSlice(i) THEN MaxTimeSlice(i) ELSE s]]

Empty_FirstOnly(r) == r.queue[1] = << >>

(* MLFQ_pick_next: the head of the first queue that is not empty; RR's     *)
(* dequeue takes it off.                                                   *)
Empty(r) == \A i \in Queue : r.queue[i] = << >>

FirstQueue(r) == Min({i \in Queue : r.queue[i] # << >>})

PickNext(r) == Head(r.queue[FirstQueue(r)])

Dequeue(r) == [r EXCEPT !.queue[FirstQueue(r)] = Tail(@)]

QueuedSet(r) == UNION {ToSet(r.queue[i]) : i \in Queue}

Tick_Unchecked(p) ==
    /\ rs' = [rs EXCEPT !.slice[p] = @ - 1]
    /\ need_resched' = [need_resched EXCEPT ![p] = @ \/ rs.slice[p] = 1]

(* proc_tick: RR_proc_tick.                                                *)
ProcTick(p) ==
    LET left == IF rs.slice[p] > 0 THEN rs.slice[p] - 1 ELSE 0
    IN  /\ rs' = [rs EXCEPT !.slice[p] = left]
        /\ need_resched' = [need_resched EXCEPT ![p] = @ \/ left = 0]

-----------------------------------------------------------------------------
(* schedule(): called with interrupts off by the current process of c.     *)

ReleaseMm(l, p) == IF p \in Proc /\ mm[p] # NoMm THEN [l EXCEPT ![mm[p]] = NoCpu] ELSE l
TakeMm(l, p, c) == IF p \in Proc /\ mm[p] # NoMm THEN [l EXCEPT ![mm[p]] = c] ELSE l

MmFree(l, p) == mm[p] = NoMm \/ l[mm[p]] = NoCpu

Ends_AnyMm(r, l) == TRUE

Ends(r, l) == Empty(r) \/ MmFree(l, PickNext(r))

(* A round of the loop of schedule(): a process whose address space is     *)
(* busy is taken off its queue and kept on the list head.                  *)
Round(s, l) ==
    IF Ends(s.r, l) THEN s
    ELSE [r |-> Dequeue(s.r), busy |-> Append(s.busy, PickNext(s.r))]

(* Each round takes a process, so that no more rounds than processes are   *)
(* needed.                                                                 *)
PickLoop(r, l) ==
    LET at[k \in 0 .. Cardinality(Proc)] ==
          IF k = 0 THEN [r |-> r, busy |-> << >>] ELSE Round(at[k - 1], l)
    IN  at[Cardinality(Proc)]

(* Its end: the list is emptied, the most recent first.                    *)
EnqueueAll(r, busy) ==
    LET at[k \in 0 .. Len(busy)] ==
          IF k = 0 THEN r ELSE Enqueue(at[k - 1], busy[Len(busy) - k + 1])
    IN  at[Len(busy)]

ReEnqueue(p) ==
    IF p \in Proc /\ state[p] = "RUNNABLE" THEN Enqueue(rs, p) ELSE rs

(* An idle process that is switched to returns from its own schedule() and *)
(* leaves the kernel at once.                                              *)
Schedule(c) ==
    LET p == current[c]
        free == ReleaseMm(lapic, p)
        s == PickLoop(ReEnqueue(p), free)
        next == IF Empty(s.r) THEN Idle ELSE PickNext(s.r)
    IN  /\ need_resched' = [q \in Proc |-> IF q = p THEN FALSE ELSE need_resched[q]]
        /\ rs' = EnqueueAll(IF next = Idle THEN s.r ELSE Dequeue(s.r), s.busy)
        /\ lapic' = TakeMm(free, next, c)
        /\ current' = [current EXCEPT ![c] = next]
        /\ kern' = IF next = Idle THEN NoCpu ELSE c
        /\ UNCHANGED <<state, mm>>

-----------------------------------------------------------------------------
(* Entering the kernel.                                                    *)

InKernel(c) == kern = c /\ current[c] \in Proc /\ where[current[c]] = "kernel"

(* A timer interrupt of a user process; its tail is TrapReturn.            *)
TimerTrap(c) ==
    /\ kern = NoCpu /\ current[c] \in Proc
    /\ kern' = c
    /\ where' = [where EXCEPT ![current[c]] = "kernel"]
    /\ ProcTick(current[c])
    /\ UNCHANGED <<state, mm, lapic, current>>

Syscall(c) ==
    /\ kern = NoCpu /\ current[c] \in Proc
    /\ kern' = c
    /\ where' = [where EXCEPT ![current[c]] = "kernel"]
    /\ UNCHANGED <<state, mm, lapic, need_resched, rs, current>>

(* An interrupt out of the idle loop.                                      *)
IdleTrap(c) ==
    /\ kern = NoCpu /\ current[c] = Idle
    /\ kern' = c
    /\ UNCHANGED <<state, where, mm, lapic, need_resched, rs, current>>

(* The timer interrupts a kernel thread.                                   *)
KernelTick(c) ==
    /\ kern = c /\ current[c] \in Kthread
    /\ ProcTick(current[c])
    /\ UNCHANGED <<state, where, mm, lapic, current, kern>>

-----------------------------------------------------------------------------
(* What the current process does in the kernel.                            *)

(* wait_current_set, do_wait, do_sleep: state = PROC_SLEEPING; the call of *)
(* schedule() follows.                                                     *)
SetSleeping(c) ==
    LET p == current[c] IN
    /\ InKernel(c)
    /\ state' = [state EXCEPT ![p] = "SLEEPING"]
    /\ where' = [where EXCEPT ![p] = "presleep"]
    /\ UNCHANGED <<mm, lapic, need_resched, rs, current, kern>>

(* init_main calls schedule() while it is runnable.                        *)
KernelYield(c) ==
    LET p == current[c] IN
    /\ InKernel(c) /\ p \in Kthread
    /\ where' = [where EXCEPT ![p] = "presleep"]
    /\ UNCHANGED <<state, mm, lapic, need_resched, rs, current, kern>>

SleepSchedule(c) ==
    LET p == current[c] IN
    /\ kern = c /\ p \in Proc /\ where[p] = "presleep"
    /\ Schedule(c)
    /\ where' = [where EXCEPT ![p] = "kernel"]

IdleSchedule(c) ==
    /\ kern = c /\ current[c] = Idle
    /\ Schedule(c)
    /\ UNCHANGED where

Wake_Twice(c, q) ==
    /\ InKernel(c) \/ (kern = c /\ current[c] \in Kthread \cup {Idle})
    /\ state[q] = "SLEEPING"
    /\ state' = [state EXCEPT ![q] = "RUNNABLE"]
    /\ rs' = Enqueue(rs, q)
    /\ UNCHANGED <<where, mm, lapic, need_resched, current, kern>>

(* wakeup_proc, by the current process or by an interrupt handler.         *)
WakeupProc(c, q) ==
    /\ InKernel(c) \/ (kern = c /\ current[c] \in Kthread \cup {Idle})
    /\ state[q] = "SLEEPING"
    /\ state' = [state EXCEPT ![q] = "RUNNABLE"]
    /\ rs' = IF q # current[c] THEN Enqueue(rs, q) ELSE rs
    /\ UNCHANGED <<where, mm, lapic, need_resched, current, kern>>

(* do_fork: the child gets half of the time slice and, with CLONE_VM, the  *)
(* same address space.  A child of a kernel thread has none.               *)
Fork(c, q) ==
    LET p == current[c]
        half == rs.slice[p] \div 2
        given == [rs.slice EXCEPT ![q] = half, ![p] = @ - half]
    IN  /\ InKernel(c) /\ state[q] = "UNINIT"
        /\ q \in Kthread => mm[p] = NoMm
        /\ IF mm[p] = NoMm
           THEN UNCHANGED mm
           ELSE \E m \in {mm[p]} \cup {x \in MM : \A s \in Proc : mm[s] # x} :
                    mm' = [mm EXCEPT ![q] = m]
        /\ state' = [state EXCEPT ![q] = "RUNNABLE"]
        /\ where' = [where EXCEPT ![q] = IF mm[p] = NoMm THEN "kernel" ELSE "trapret"]
        /\ rs' = Enqueue([rs EXCEPT !.slice = given], q)
        /\ UNCHANGED <<lapic, need_resched, current, kern>>

Drop_KeepLapic(c) ==
    LET p == current[c] IN
    /\ InKernel(c) /\ mm[p] # NoMm
    /\ mm' = [mm EXCEPT ![p] = NoMm]
    /\ UNCHANGED <<state, where, lapic, need_resched, rs, current, kern>>

(* __do_exit and do_execve give up the address space.                      *)
DropMm(c) ==
    LET p == current[c] IN
    /\ InKernel(c) /\ mm[p] # NoMm
    /\ lapic' = [lapic EXCEPT ![mm[p]] = NoCpu]
    /\ mm' = [mm EXCEPT ![p] = NoMm]
    /\ UNCHANGED <<state, where, need_resched, rs, current, kern>>

(* load_icode installs a new address space.                                *)
LoadIcode(c, m) ==
    LET p == current[c] IN
    /\ InKernel(c) /\ p \notin Kthread /\ mm[p] = NoMm
    /\ \A s \in Proc : mm[s] # m
    /\ mm' = [mm EXCEPT ![p] = m]
    /\ lapic' = [lapic EXCEPT ![m] = c]
    /\ UNCHANGED <<state, where, need_resched, rs, current, kern>>

(* __do_exit: state = PROC_ZOMBIE; schedule() follows.                     *)
SetZombie(c) ==
    LET p == current[c] IN
    /\ InKernel(c) /\ p \notin Kthread /\ mm[p] = NoMm
    /\ state' = [state EXCEPT ![p] = "ZOMBIE"]
    /\ where' = [where EXCEPT ![p] = "presleep"]
    /\ UNCHANGED <<mm, lapic, need_resched, rs, current, kern>>

(* do_wait frees the zombie; alloc_proc may use the slot again.            *)
Reap(c, q) ==
    /\ InKernel(c) /\ state[q] = "ZOMBIE"
    /\ state' = [state EXCEPT ![q] = "UNINIT"]
    /\ rs' = [rs EXCEPT !.rq[q] = NoQueue, !.slice[q] = 0]
    /\ need_resched' = [need_resched EXCEPT ![q] = FALSE]
    /\ UNCHANGED <<where, mm, lapic, current, kern>>

(* do_yield                                                                *)
Yield(c) ==
    /\ InKernel(c) /\ current[c] \notin Kthread
    /\ need_resched' = [need_resched EXCEPT ![current[c]] = TRUE]
    /\ UNCHANGED <<state, where, mm, lapic, rs, current, kern>>

-----------------------------------------------------------------------------
(* The end of trap(): back to user mode.                                   *)

Leave(c) ==
    /\ kern' = NoCpu
    /\ where' = [where EXCEPT ![current[c]] = "user"]
    /\ UNCHANGED <<state, mm, lapic, need_resched, rs, current>>

TrapReturn(c) ==
    LET p == current[c] IN
    /\ InKernel(c) /\ mm[p] # NoMm
    /\ IF need_resched[p]
       THEN Schedule(c) /\ where' = [where EXCEPT ![p] = "trapret"]
       ELSE Leave(c)

(* After the schedule() of trap(), or from forkret.                        *)
KernLeave(c) ==
    /\ kern = c /\ current[c] \in Proc /\ where[current[c]] = "trapret"
    /\ Leave(c)

Running(c) ==
    \/ TimerTrap(c) \/ IdleTrap(c) \/ IdleSchedule(c)
    \/ TrapReturn(c) \/ KernLeave(c)

Next ==
    \E c \in CPU :
        \/ Running(c)
        \/ Syscall(c) \/ KernelTick(c) \/ SetSleeping(c) \/ KernelYield(c)
        \/ SleepSchedule(c) \/ DropMm(c) \/ SetZombie(c) \/ Yield(c)
        \/ \E m \in MM : LoadIcode(c, m)
        \/ \E q \in Proc : WakeupProc(c, q) \/ Fork(c, q) \/ Reap(c, q)

Spec == Init /\ [][Next]_vars

-----------------------------------------------------------------------------
(* Every process is where the scheduler can find it, exactly once: a       *)
(* runnable process that is on no CPU is in exactly one run queue (also    *)
(* when an interrupt woke it before it reached schedule()), the one its rq *)
(* points to, with a slice left; a sleeping or dead one is in none, and a  *)
(* running one is on one CPU only.                                         *)
OnCpu(p) == \E c \in CPU : current[c] = p

Good(r) ==
    /\ r \in RunQueues
    /\ \A i \in Queue :
        /\ IsInjective(r.queue[i])
        /\ \A p \in ToSet(r.queue[i]) : r.rq[p] = i /\ r.slice[p] \in 1 .. MaxTimeSlice(i)

QueuedOnce ==
    /\ Good(rs)
    /\ QueuedSet(rs) = {p \in Proc : state[p] = "RUNNABLE" /\ ~OnCpu(p)}
    /\ \A c, d \in CPU : current[c] = current[d] /\ current[c] # Idle => c = d

(* No address space runs on two CPUs, and mm->lapic names the CPU it runs  *)
(* on: the assertions of schedule() hold.                                  *)
MmOnOneCpu ==
    \A m \in MM, c \in CPU :
        lapic[m] = c <=> current[c] \in Proc /\ mm[current[c]] = m

(* A process that does not run any more is still on its CPU only between   *)
(* the assignment of its state and the schedule() that follows it.         *)
StoppedInKernel ==
    \A c \in CPU :
        current[c] \in Proc /\ state[current[c]] # "RUNNABLE"
            => kern = c /\ where[current[c]] = "presleep"

IndInv == TypeOK /\ QueuedOnce /\ MmOnOneCpu /\ StoppedInKernel

(* A CPU goes idle only when each runnable process is waiting for an       *)
(* address space that is busy on another CPU.                              *)
Dispatchable == \E p \in QueuedSet(rs) : MmFree(lapic, p)

IdleOnlyIfBusy ==
    \A c \in CPU : kern = c /\ kern' = NoCpu /\ current'[c] = Idle => ~Dispatchable'

WorkConserving == [][IdleOnlyIfBusy]_vars

-----------------------------------------------------------------------------
(* Processes that only compute, each with its own address space.           *)

InitCpuBound ==
    /\ state = [p \in Proc |-> "RUNNABLE"]
    /\ where = [p \in Proc |-> "trapret"]
    /\ mm = CHOOSE f \in Injection(Proc, MM) : TRUE
    /\ lapic = [m \in MM |-> NoCpu]
    /\ need_resched = [p \in Proc |-> FALSE]
    /\ rs = [queue |-> [i \in Queue |-> IF i = 1 THEN SetToSeq(Proc) ELSE << >>],
             rq |-> [p \in Proc |-> 1],
             slice |-> [p \in Proc |-> MaxSlice]]
    /\ current = [c \in CPU |-> Idle]
    /\ kern = NoCpu

NextCpuBound == \E c \in CPU : Running(c)

(* The periodic timer of each CPU keeps interrupting it, and a CPU that    *)
(* asks for the kernel lock again and again gets it (an exchange in a loop *)
(* gives no order, so this is an assumption on the memory system).  The    *)
(* kernel section of every trap ends: it is straight-line code.            *)
CpuBoundFairness ==
    /\ \A c \in CPU : SF_vars(TimerTrap(c) \/ IdleTrap(c))
    /\ []<>(kern = NoCpu)

(* Round robin: among processes that only compute and share no address     *)
(* space, so that schedule() has none to skip, none waits forever for a    *)
(* CPU.                                                                    *)
NoStarvation == \A p \in Proc : ~OnCpu(p) ~> OnCpu(p)
=============================================================================
