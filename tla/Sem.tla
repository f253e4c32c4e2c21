--------------------------------- MODULE Sem ---------------------------------
(***************************************************************************)
(* One semaphore of kern-ucore and its wait queue (sync/sem.c, wait.c,     *)
(* ipc.h, with the wake-ups of sched.c and proc.c that reach a waiter).    *)
(*                                                                         *)
(* __up hands the unit straight to the first waiter instead of adding it   *)
(* to value.  A user semaphore (user) can also be waited for with          *)
(* a timeout and by a process that is killed meanwhile, and it can be      *)
(* freed.  Both the timer and the kill only make the waiter runnable: it   *)
(* stays in the wait queue until it runs.  Each operation is atomic under  *)
(* the big kernel lock, except that __down gives the CPU away while it     *)
(* sleeps (SleepDown ... ResumeDown).                                      *)
(***************************************************************************)
EXTENDS WaitQueue, FiniteSets

CONSTANTS
    Proc,            \* processes that use the semaphore
    InitValue,       \* argument of sem_init
    MaxPost          \* bound on posts by processes that hold no unit

ASSUME SemAssumption ==
    /\ IsFiniteSet(Proc)
    /\ InitValue \in Nat /\ MaxPost \in Nat

VARIABLES
    user,           \* a user semaphore (WT_USEM), else a kernel one (WT_KSEM)
    value, valid,   \* sem->value, sem->valid
    queue,          \* sem->wait_queue: the waiting processes, first in first out
    runnable,       \* processes in state PROC_RUNNABLE
    wait_state,     \* proc->wait_state
    wakeup_flags,   \* wait->wakeup_flags
    timer,          \* processes whose timer is on the timer list
    pc,             \* "out", "down" (inside __down), "held", "gone" (killed)
    killed,         \* processes with PF_EXITING
    posted,         \* number of posts by processes that hold no unit
    panicked        \* the assertion of __up failed: the kernel is in its monitor

vars == <<user, value, valid, queue, runnable, wait_state, wakeup_flags, timer, pc,
          killed, posted, panicked>>

TypeOK ==
    /\ user \in BOOLEAN /\ value \in Nat /\ valid \in BOOLEAN
    /\ queue \in Seq(Proc)
    /\ runnable \in SUBSET Proc
    /\ wait_state \in [Proc -> {"0", "SEM"}]
    /\ wakeup_flags \in [Proc -> {"INTERRUPTED", "SEM"}]
    /\ timer \in SUBSET Proc
    /\ pc \in [Proc -> {"out", "down", "held", "gone"}]
    /\ killed \in SUBSET Proc
    /\ posted \in 0 .. MaxPost
    /\ panicked \in BOOLEAN

Init ==
    /\ user \in BOOLEAN
    /\ value = InitValue /\ valid = TRUE
    /\ queue = << >>
    /\ runnable = Proc
    /\ wait_state = [p \in Proc |-> "0"]
    /\ wakeup_flags = [p \in Proc |-> "INTERRUPTED"]
    /\ timer = {}
    /\ pc = [p \in Proc |-> "out"]
    /\ killed = {}
    /\ posted = 0
    /\ panicked = FALSE

-----------------------------------------------------------------------------
(* wakeup_proc of every process in ps.                                     *)
WakeupProcs(ps) ==
    /\ runnable' = runnable \cup ps
    /\ wait_state' = [p \in Proc |-> IF p \in ps THEN "0" ELSE wait_state[p]]

Running(p) == p \in runnable /\ ~panicked

(* A killed process leaves the kernel only to exit: it issues no further   *)
(* system call, so a unit of a user semaphore dies with it.                *)
MayPost(p) == Running(p) /\ (user => p \notin killed)

procVars == <<runnable, wait_state, wakeup_flags, timer>>

-----------------------------------------------------------------------------
(* __down and try_down when a unit is available.                           *)
TakeDown(p) ==
    /\ Running(p) /\ pc[p] = "out" /\ valid
    /\ value > 0
    /\ value' = value - 1
    /\ pc' = [pc EXCEPT ![p] = "held"]
    /\ UNCHANGED <<user, valid, queue, procVars, killed, posted, panicked>>

(* __down otherwise: wait_current_set, ipc_add_timer, schedule().          *)
SleepDown(p, timeout) ==
    /\ Running(p) /\ pc[p] = "out" /\ valid
    /\ value = 0
    /\ timeout => user
    /\ queue' = Append(queue, p)
    /\ wakeup_flags' = [wakeup_flags EXCEPT ![p] = "INTERRUPTED"]
    /\ runnable' = runnable \ {p}
    /\ wait_state' = [wait_state EXCEPT ![p] = "SEM"]
    /\ timer' = IF timeout THEN timer \cup {p} ELSE timer
    /\ pc' = [pc EXCEPT ![p] = "down"]
    /\ UNCHANGED <<user, value, valid, killed, posted, panicked>>

Resume_IgnoreFlags(p) ==
    /\ Running(p) /\ pc[p] = "down"
    /\ timer' = timer \ {p}
    /\ queue' = WaitQueueDel(queue, p)
    /\ pc' = [pc EXCEPT ![p] = "held"]
    /\ UNCHANGED <<user, value, valid, runnable, wait_state, wakeup_flags, killed, posted, panicked>>

(* The rest of __down once the process runs again: ipc_del_timer,          *)
(* wait_current_del, and the outcome by wakeup_flags.  A killed process    *)
(* goes on to exit instead of returning to user mode.                      *)
ResumeDown(p) ==
    /\ Running(p) /\ pc[p] = "down"
    /\ timer' = timer \ {p}
    /\ queue' = WaitQueueDel(queue, p)
    /\ pc' = [pc EXCEPT ![p] =
                IF wakeup_flags[p] = "SEM" THEN "held"
                ELSE IF p \in killed THEN "gone" ELSE "out"]
    /\ UNCHANGED <<user, value, valid, runnable, wait_state, wakeup_flags, killed, posted, panicked>>

-----------------------------------------------------------------------------
Up_ValueToo ==
    IF queue = << >>
    THEN value' = value + 1 /\ UNCHANGED <<queue, runnable, wait_state, wakeup_flags, panicked>>
    ELSE /\ queue' = Tail(queue)
         /\ value' = value + 1
         /\ wakeup_flags' = [wakeup_flags EXCEPT ![Head(queue)] = "SEM"]
         /\ WakeupProcs({Head(queue)})
         /\ UNCHANGED panicked

Up_Last ==
    IF queue = << >>
    THEN value' = value + 1 /\ UNCHANGED <<queue, runnable, wait_state, wakeup_flags, panicked>>
    ELSE LET last == queue[Len(queue)] IN
         /\ queue' = SubSeq(queue, 1, Len(queue) - 1)
         /\ wakeup_flags' = [wakeup_flags EXCEPT ![last] = "SEM"]
         /\ WakeupProcs({last})
         /\ UNCHANGED <<value, panicked>>

(* __up: add the unit to value, or assert that the first waiter sleeps on  *)
(* the semaphore and hand it over.                                         *)
Up ==
    IF queue = << >>
    THEN value' = value + 1 /\ UNCHANGED <<queue, runnable, wait_state, wakeup_flags, panicked>>
    ELSE IF wait_state[Head(queue)] # "SEM"
    THEN panicked' = TRUE /\ UNCHANGED <<value, queue, runnable, wait_state, wakeup_flags>>
    ELSE /\ queue' = Tail(queue)
         /\ wakeup_flags' = [wakeup_flags EXCEPT ![Head(queue)] = "SEM"]
         /\ WakeupProcs({Head(queue)})
         /\ UNCHANGED <<value, panicked>>

(* up, or ipc_sem_post, by a process that holds a unit; the post of a      *)
(* freed user semaphore fails with -E_INVAL.                               *)
Release(p) ==
    /\ MayPost(p) /\ pc[p] = "held"
    /\ pc' = [pc EXCEPT ![p] = "out"]
    /\ IF valid THEN Up
       ELSE UNCHANGED <<value, queue, runnable, wait_state, wakeup_flags, panicked>>
    /\ UNCHANGED <<user, valid, timer, killed, posted>>

(* ipc_sem_post by any other process.                                      *)
Post(p) ==
    /\ user /\ valid
    /\ Running(p) /\ pc[p] = "out"
    /\ posted < MaxPost
    /\ posted' = posted + 1
    /\ Up
    /\ UNCHANGED <<user, valid, timer, pc, killed>>

(* ipc_sem_free: wakeup_queue takes every waiter off the queue.            *)
SemFree(p) ==
    /\ user /\ valid
    /\ MayPost(p) /\ pc[p] \in {"out", "held"}
    /\ valid' = FALSE
    /\ queue' = << >>
    /\ wakeup_flags' = [q \in Proc |-> IF InQueue(queue, q) THEN "INTERRUPTED" ELSE wakeup_flags[q]]
    /\ WakeupProcs({q \in Proc : InQueue(queue, q)})
    /\ UNCHANGED <<user, value, timer, pc, killed, posted, panicked>>

-----------------------------------------------------------------------------
(* run_timer_list: the waiter's timer expires.                             *)
Timeout(p) ==
    /\ ~panicked /\ p \in timer
    /\ timer' = timer \ {p}
    /\ WakeupProcs({p})
    /\ UNCHANGED <<user, value, valid, queue, wakeup_flags, pc, killed, posted, panicked>>

Kill_Any(p) ==
    /\ ~panicked /\ p \notin killed /\ pc[p] = "down"
    /\ killed' = killed \cup {p}
    /\ WakeupProcs({p})
    /\ UNCHANGED <<user, value, valid, queue, wakeup_flags, timer, pc, posted, panicked>>

(* __do_kill of a process that waits for a unit or holds one: it is woken  *)
(* only if its wait state is interruptible.                                *)
Kill(p) ==
    /\ ~panicked /\ p \notin killed /\ pc[p] \in {"down", "held"}
    /\ killed' = killed \cup {p}
    /\ WakeupProcs(IF user /\ wait_state[p] = "SEM" THEN {p} ELSE {})
    /\ UNCHANGED <<user, value, valid, queue, wakeup_flags, timer, pc, posted, panicked>>

Next ==
    \E p \in Proc :
        \/ TakeDown(p) \/ ResumeDown(p) \/ Release(p) \/ Post(p)
        \/ \E timeout \in BOOLEAN : SleepDown(p, timeout)
        \/ SemFree(p) \/ Timeout(p) \/ Kill(p)

Spec == Init /\ [][Next]_vars

(* Runnable processes are scheduled, and whoever holds a kernel semaphore  *)
(* releases it eventually.                                                 *)
Fairness ==
    \A p \in Proc : WF_vars(ResumeDown(p)) /\ WF_vars(~user /\ Release(p))

FairSpec == Spec /\ Fairness

-----------------------------------------------------------------------------
(* Processes that own a unit, those included to which __up handed one and  *)
(* that have not run since.                                                *)
Owners == {p \in Proc : pc[p] = "held" \/ (pc[p] = "down" /\ wakeup_flags[p] = "SEM")}

(* No unit is lost or made up by the hand-over, whatever timeouts and      *)
(* kills race with it: value and the units owned add up to what was put    *)
(* in.                                                                     *)
UnitsConserved == valid /\ ~panicked => value + Cardinality(Owners) = InitValue + posted

(* No lost wake-up: a process is never left waiting while a unit is        *)
(* available.                                                              *)
NoWaiterWhileFree == value > 0 => queue = << >>

(* down() asserts that it was not interrupted: a kernel semaphore's waiter *)
(* is only ever woken by being handed a unit.                              *)
KernelWaitUninterrupted ==
    ~user => \A p \in runnable : pc[p] = "down" => wakeup_flags[p] = "SEM"

(* The assertion of __up: the first waiter is asleep on this semaphore.    *)
UpFindsSleeper == ~panicked

(* It holds at least where nothing but a hand-over wakes a waiter.         *)
KernelUpFindsSleeper == ~user => UpFindsSleeper

(* Every waiter of a kernel semaphore gets its unit: the hand-over is      *)
(* first in first out, so no later process overtakes it forever.           *)
WaiterServed == \A p \in Proc : ~user /\ pc[p] = "down" ~> pc[p] = "held"

(* First come, first served: of those who go on waiting none overtakes     *)
(* another, a unit is handed to the one who has waited longest, and nobody *)
(* takes a unit past those who wait.                                       *)
ServedInOrder ==
    /\ \A a, b \in ToSet(queue') : Before(queue, a, b) => Before(queue', a, b)
    /\ \A p \in Proc : wakeup_flags[p] # "SEM" /\ wakeup_flags'[p] = "SEM" =>
            queue # << >> /\ p = Head(queue)
    /\ value' < value => queue = << >>

-----------------------------------------------------------------------------
QueueInv ==
    /\ IsInjective(queue)
    /\ \A p \in ToSet(queue) : pc[p] = "down" /\ wakeup_flags[p] = "INTERRUPTED"
    /\ ~user => valid /\ timer = {}
    /\ ~user => \A p \in ToSet(queue) : wait_state[p] = "SEM"

(* The inductive invariant: with the above, a waiter of a kernel semaphore *)
(* is woken by nothing but a hand-over, so that the assertions of down and *)
(* __up hold for it, and a queue holds each waiter once.                   *)
IndInv ==
    /\ TypeOK /\ QueueInv
    /\ UnitsConserved /\ NoWaiterWhileFree
    /\ KernelWaitUninterrupted /\ KernelUpFindsSleeper

(* Units are neither lost nor made up, nobody sleeps while one is free,    *)
(* and a kernel semaphore's assertions hold.                               *)
SemSound == UnitsConserved /\ NoWaiterWhileFree /\ IndInv
=============================================================================
