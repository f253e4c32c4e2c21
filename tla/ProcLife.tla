------------------------------ MODULE ProcLife ------------------------------
(***************************************************************************)
(* The life of processes and threads in kern-ucore (process/proc.c):       *)
(* do_fork, do_exit, do_exit_thread, do_wait, do_kill, do_execve and the   *)
(* reaper loop of init_main.                                               *)
(*                                                                         *)
(* A step is what a process does in the kernel before it sleeps or returns *)
(* to user mode (kernel lock held, interrupts off).  __do_exit is cut in   *)
(* two, because put_fs and exit_mmap may sleep.  The thread ring of a      *)
(* process is the set of its members: which of them next_thread finds      *)
(* first makes no difference below.  Neither does the order of siblings.   *)
(* kswapd, which never exits, is not a process of the model; nobody kills  *)
(* initproc.                                                               *)
(***************************************************************************)
EXTENDS FiniteSets

CONSTANTS
    Proc,        \* process structures for user processes
    initproc,
    AnyPid       \* the pid argument 0 of do_wait

ASSUME ProcAssumption == initproc \notin Proc /\ AnyPid \notin Proc

VARIABLES
    state,       \* proc->state; "none": no such process
    pc,          \* where the process is
    wait_state,  \* proc->wait_state: "CHILD" and "TIMER" are interruptible
    target,      \* pid argument of the do_wait in progress
    parent,      \* proc->parent
    group,       \* the members of proc->thread_group
    exiting,     \* processes with PF_EXITING
    exit_code    \* proc->exit_code: "exit" by itself, "kill" by another

vars == <<state, pc, wait_state, target, parent, group, exiting, exit_code>>

All == Proc \cup {initproc}

TypeOK ==
    /\ state \in [All -> {"none", "RUNNABLE", "SLEEPING", "ZOMBIE"}]
    /\ pc \in [All -> {"user", "wait", "block", "exit", "done"}]
    /\ wait_state \in [All -> {"0", "CHILD", "TIMER", "KSEM"}]
    /\ target \in [All -> Proc \cup {AnyPid}]
    /\ parent \in [Proc -> All]
    /\ group \in [All -> SUBSET All]
    /\ exiting \in SUBSET All
    /\ exit_code \in [All -> {"0", "exit", "kill"}]

(* init_main has created user_main and waits for its children.             *)
Init ==
    \E p0 \in Proc :
        /\ state = [p \in All |-> IF p \in {p0, initproc} THEN "RUNNABLE" ELSE "none"]
        /\ pc = [p \in All |-> IF p = initproc THEN "wait" ELSE "user"]
        /\ wait_state = [p \in All |-> "0"]
        /\ target = [p \in All |-> AnyPid]
        /\ parent = [p \in Proc |-> initproc]
        /\ group = [p \in All |-> {p}]
        /\ exiting = {}
        /\ exit_code = [p \in All |-> "0"]

-----------------------------------------------------------------------------
Exists(p) == state[p] # "none"
Live(p) == state[p] \in {"RUNNABLE", "SLEEPING"}

At(p, l) == state[p] = "RUNNABLE" /\ pc[p] = l

Children(p) == {c \in Proc : Exists(c) /\ parent[c] = p}

(* Where a system call returns to: trap() ends with may_killed.            *)
Return(p) == IF p \in exiting' THEN "exit" ELSE "user"

(* wakeup_proc of the processes in ps.                                     *)
Wakeup(st, ps) == [p \in All |-> IF p \in ps THEN "RUNNABLE" ELSE st[p]]
WaitOver(ps) == [p \in All |-> IF p \in ps THEN "0" ELSE wait_state[p]]

Interruptible(p) == wait_state[p] \in {"CHILD", "TIMER"}

(* de_thread                                                               *)
DeThread(p) ==
    [q \in All |-> IF q = p THEN {p} ELSE group[q] \ {p}]

-----------------------------------------------------------------------------
(* do_fork; with thread, CLONE_THREAD.  The structure q is fresh.          *)
Fork(p, q, thread) ==
    /\ At(p, "user") /\ ~Exists(q)
    /\ state' = [state EXCEPT ![q] = "RUNNABLE"]
    /\ parent' = [parent EXCEPT ![q] = p]
    /\ group' = IF thread
                THEN [r \in All |-> IF r \in group[p] \cup {q}
                                    THEN group[p] \cup {q} ELSE group[r]]
                ELSE [group EXCEPT ![q] = {q}]
    /\ exiting' = exiting \ {q}
    /\ exit_code' = [exit_code EXCEPT ![q] = "0"]
    /\ pc' = [pc EXCEPT ![q] = "user", ![p] = Return(p)]
    /\ UNCHANGED <<wait_state, target>>

(* __do_kill of every process in ps; code is exit_code before it.          *)
DoKill(ps, code) ==
    LET hit == {q \in ps : q \notin exiting}
        woken == {q \in hit : Interruptible(q)}
    IN  /\ exiting' = exiting \cup hit
        /\ exit_code' = [q \in All |-> IF q \in hit THEN "kill" ELSE code[q]]
        /\ state' = Wakeup(state, woken)
        /\ wait_state' = WaitOver(woken)

(* do_kill: q may be running, asleep, exiting or a zombie.                 *)
Kill(p, q) ==
    /\ At(p, "user") /\ Exists(q)
    /\ DoKill({q}, exit_code)
    /\ pc' = [pc EXCEPT ![p] = Return(p)]
    /\ UNCHANGED <<target, parent, group>>

(* do_exit: kill the other threads of the group and exit.  A do_execve     *)
(* that fails ends here too.                                               *)
Exit(p) ==
    /\ At(p, "user")
    /\ DoKill(group[p] \ {p}, [exit_code EXCEPT ![p] = "exit"])
    /\ pc' = [pc EXCEPT ![p] = "exit"]
    /\ UNCHANGED <<target, parent, group>>

ExitThread(p) ==
    /\ At(p, "user")
    /\ exit_code' = [exit_code EXCEPT ![p] = "exit"]
    /\ pc' = [pc EXCEPT ![p] = "exit"]
    /\ UNCHANGED <<state, wait_state, target, parent, group, exiting>>

(* An interrupt of a process in user mode: may_killed.                     *)
TrapTick(p) ==
    /\ At(p, "user") /\ p \in exiting
    /\ pc' = [pc EXCEPT ![p] = "exit"]
    /\ UNCHANGED <<state, wait_state, target, parent, group, exiting, exit_code>>

(* next_thread, or initproc if there is no other thread.                   *)
Heirs(p) == IF group[p] = {p} THEN {initproc} ELSE group[p] \ {p}

Zombie_ParentOnly(p) ==
    /\ At(p, "exit")
    /\ \E heir \in Heirs(p) :
         LET woken == {w \in {parent[p]} : wait_state[w] = "CHILD"}
         IN  /\ state' = [Wakeup(state, woken) EXCEPT ![p] = "ZOMBIE"]
             /\ wait_state' = WaitOver(woken)
             /\ parent' = [c \in Proc |-> IF c \in Children(p) THEN heir ELSE parent[c]]
    /\ group' = DeThread(p)
    /\ UNCHANGED <<pc, target, exiting, exit_code>>

Zombie_KeepThread(p) ==
    /\ At(p, "exit")
    /\ \E heir \in Heirs(p) :
         LET woken == {w \in group[parent[p]] \cup {heir} : wait_state[w] = "CHILD"}
         IN  /\ state' = [Wakeup(state, woken) EXCEPT ![p] = "ZOMBIE"]
             /\ wait_state' = WaitOver(woken)
             /\ parent' = [c \in Proc |-> IF c \in Children(p) THEN heir ELSE parent[c]]
    /\ UNCHANGED <<pc, target, group, exiting, exit_code>>

Zombie_Orphans(p) ==
    /\ At(p, "exit")
    /\ LET woken == {w \in group[parent[p]] : wait_state[w] = "CHILD"}
       IN  /\ state' = [Wakeup(state, woken) EXCEPT ![p] = "ZOMBIE"]
           /\ wait_state' = WaitOver(woken)
    /\ group' = DeThread(p)
    /\ UNCHANGED <<pc, target, parent, exiting, exit_code>>

Zombie_NoHeirWake(p) ==
    /\ At(p, "exit")
    /\ \E heir \in Heirs(p) :
         LET woken == {w \in group[parent[p]] : wait_state[w] = "CHILD"}
         IN  /\ state' = [Wakeup(state, woken) EXCEPT ![p] = "ZOMBIE"]
             /\ wait_state' = WaitOver(woken)
             /\ parent' = [c \in Proc |-> IF c \in Children(p) THEN heir ELSE parent[c]]
    /\ group' = DeThread(p)
    /\ UNCHANGED <<pc, target, exiting, exit_code>>

(* The end of __do_exit: the process becomes a zombie, the waiters of its  *)
(* parent's group are woken, and its children go to another thread of its  *)
(* own group or to initproc.                                               *)
BecomeZombie(p) ==
    /\ At(p, "exit")
    /\ \E heir \in Heirs(p) :
         LET inherited == \E c \in Children(p) : c = p \/ state[c] = "ZOMBIE"
             woken == {w \in group[parent[p]] \cup (IF inherited THEN {heir} ELSE {}) :
                         wait_state[w] = "CHILD"}
         IN  /\ state' = [Wakeup(state, woken) EXCEPT ![p] = "ZOMBIE"]
             /\ wait_state' = WaitOver(woken)
             /\ parent' = [c \in Proc |-> IF c \in Children(p) THEN heir ELSE parent[c]]
    /\ group' = DeThread(p)
    /\ UNCHANGED <<pc, target, exiting, exit_code>>

-----------------------------------------------------------------------------
(* The processes a do_wait of p with argument t is about.                  *)
Kids(p, t) ==
    {c \in Proc : Exists(c) /\ parent[c] \in group[p] /\ (t = AnyPid \/ c = t)}

(* unhash_proc, remove_links and kfree of a zombie.                        *)
Reap(z) ==
    /\ state' = [state EXCEPT ![z] = "none"]
    /\ parent' = [parent EXCEPT ![z] = initproc]
    /\ exiting' = exiting \ {z}
    /\ exit_code' = [exit_code EXCEPT ![z] = "0"]

(* One pass of the loop of do_wait: reap a zombie, or sleep, or fail.      *)
WaitPass(p, t) ==
    LET zombies == {c \in Kids(p, t) : state[c] = "ZOMBIE"}
    IN  /\ \/ \E z \in zombies :
                /\ Reap(z)
                /\ pc' = [pc EXCEPT ![z] = "user", ![p] = Return(p)]
                /\ target' = [target EXCEPT ![p] = AnyPid]
                /\ UNCHANGED wait_state
           \/ /\ zombies = {} /\ Kids(p, t) # {}
              /\ state' = [state EXCEPT ![p] = "SLEEPING"]
              /\ wait_state' = [wait_state EXCEPT ![p] = "CHILD"]
              /\ pc' = [pc EXCEPT ![p] = "wait"]
              /\ target' = [target EXCEPT ![p] = t]
              /\ UNCHANGED <<parent, exiting, exit_code>>
           \/ /\ Kids(p, t) = {}
              /\ UNCHANGED exiting
              /\ pc' = [pc EXCEPT ![p] = Return(p)]
              /\ target' = [target EXCEPT ![p] = AnyPid]
              /\ UNCHANGED <<state, wait_state, parent, exit_code>>
        /\ UNCHANGED group

Wait(p, t) ==
    /\ At(p, "user")
    /\ WaitPass(p, t)

WaitAgain_Unchecked(p) ==
    /\ At(p, "wait")
    /\ WaitPass(p, target[p])

(* do_wait after its schedule(): may_killed, then the next pass.           *)
WaitAgain(p) ==
    /\ At(p, "wait")
    /\ IF p \in exiting
       THEN /\ pc' = [pc EXCEPT ![p] = "exit"]
            /\ target' = [target EXCEPT ![p] = AnyPid]
            /\ UNCHANGED <<state, wait_state, parent, group, exiting, exit_code>>
       ELSE WaitPass(p, target[p])

Init_OwnChildren ==
    LET zombies == {c \in Kids(initproc, AnyPid) : state[c] = "ZOMBIE"}
    IN  /\ At(initproc, "wait")
        /\ \/ \E z \in zombies :
                /\ Reap(z)
                /\ pc' = [pc EXCEPT ![z] = "user", ![initproc] =
                            IF Children(initproc) = {z} THEN "done" ELSE "wait"]
                /\ UNCHANGED wait_state
           \/ /\ zombies = {}
              /\ state' = [state EXCEPT ![initproc] = "SLEEPING"]
              /\ wait_state' = [wait_state EXCEPT ![initproc] = "CHILD"]
              /\ UNCHANGED <<pc, parent, exiting, exit_code>>
        /\ UNCHANGED <<target, group>>

(* The loop of init_main: do_wait(0) until no user process is left.  It    *)
(* always has a child, kswapd.                                             *)
InitWait ==
    LET zombies == {c \in Kids(initproc, AnyPid) : state[c] = "ZOMBIE"}
    IN  /\ At(initproc, "wait")
        /\ \/ \E z \in zombies :
                /\ Reap(z)
                /\ pc' = [pc EXCEPT ![z] = "user", ![initproc] =
                            IF \A p \in Proc \ {z} : ~Exists(p) THEN "done" ELSE "wait"]
                /\ UNCHANGED wait_state
           \/ /\ zombies = {}
              /\ state' = [state EXCEPT ![initproc] = "SLEEPING"]
              /\ wait_state' = [wait_state EXCEPT ![initproc] = "CHILD"]
              /\ UNCHANGED <<pc, parent, exiting, exit_code>>
        /\ UNCHANGED <<target, group>>

-----------------------------------------------------------------------------
(* do_sleep and every other wait for something outside this module:        *)
(* interruptible ("TIMER") or not ("KSEM").                                *)
Block(p, w) ==
    /\ At(p, "user")
    /\ state' = [state EXCEPT ![p] = "SLEEPING"]
    /\ wait_state' = [wait_state EXCEPT ![p] = w]
    /\ pc' = [pc EXCEPT ![p] = "block"]
    /\ UNCHANGED <<target, parent, group, exiting, exit_code>>

(* What it waits for arrives.                                              *)
Unblock(p, w) ==
    /\ state[p] = "SLEEPING" /\ wait_state[p] = w
    /\ state' = [state EXCEPT ![p] = "RUNNABLE"]
    /\ wait_state' = [wait_state EXCEPT ![p] = "0"]
    /\ UNCHANGED <<pc, target, parent, group, exiting, exit_code>>

BlockReturn(p) ==
    /\ At(p, "block")
    /\ UNCHANGED exiting
    /\ pc' = [pc EXCEPT ![p] = Return(p)]
    /\ UNCHANGED <<state, wait_state, target, parent, group, exit_code>>

(* do_execve that succeeds: the process leaves its thread group.           *)
Execve(p) ==
    /\ At(p, "user")
    /\ group' = DeThread(p)
    /\ UNCHANGED exiting
    /\ pc' = [pc EXCEPT ![p] = Return(p)]
    /\ UNCHANGED <<state, wait_state, target, parent, exit_code>>

-----------------------------------------------------------------------------
Next ==
    \/ InitWait
    \/ \E p \in Proc :
         \/ \E q \in Proc, thread \in BOOLEAN : Fork(p, q, thread)
         \/ \E q \in Proc : Kill(p, q)
         \/ \E t \in Proc \cup {AnyPid} : Wait(p, t)
         \/ \E w \in {"TIMER", "KSEM"} : Block(p, w) \/ Unblock(p, w)
         \/ Exit(p) \/ ExitThread(p) \/ TrapTick(p) \/ BecomeZombie(p)
         \/ WaitAgain(p) \/ BlockReturn(p) \/ Execve(p)

Spec == Init /\ [][Next]_vars

(* Runnable processes run and are interrupted by the timer; a kernel       *)
(* semaphore is released eventually.  Nothing says that any other wait     *)
(* ends, or that a process calls the kernel.                               *)
Fairness ==
    /\ WF_vars(InitWait)
    /\ \A p \in Proc :
         /\ WF_vars(TrapTick(p)) /\ WF_vars(BecomeZombie(p))
         /\ WF_vars(WaitAgain(p)) /\ WF_vars(BlockReturn(p))
         /\ WF_vars(Unblock(p, "KSEM"))

FairSpec == Spec /\ Fairness

-----------------------------------------------------------------------------
(* Whoever exits when, every process has a living parent, so that somebody *)
(* can reap it: __do_exit never hands children to a dead thread.           *)
ParentLive ==
    \A p \in Proc : Exists(p) => Live(parent[p])

(* Thread groups hold living threads only, and each knows the others.      *)
GroupLive ==
    \A p \in All : /\ p \in group[p]
                   /\ \A q \in group[p] : group[q] = group[p] /\ (q # p => Live(q))

(* No lost wake-up: a process asleep in do_wait has no child, and no child *)
(* of a thread of its group, that it could reap.                           *)
NoZombieUnnoticed ==
    \A p \in All : state[p] = "SLEEPING" /\ wait_state[p] = "CHILD"
        => \A c \in Kids(p, target[p]) : state[c] # "ZOMBIE"

(* The assertions at the end of init_main: initproc leaves its loop only   *)
(* when no process is left.                                                *)
InitSeesAll == pc[initproc] = "done" => \A p \in Proc : ~Exists(p)

(* A zombie that falls to initproc is reaped.                              *)
OrphansReaped ==
    \A p \in Proc : state[p] = "ZOMBIE" /\ parent[p] = initproc ~> ~Exists(p)

(* A process that was killed in an interruptible sleep dies: it does not   *)
(* go back to sleep.                                                       *)
KilledSleeperExits ==
    \A p \in Proc : At(p, "wait") /\ p \in exiting ~> ~Live(p)

(* SYS_kill: "do_kill --> flags |= PF_EXITING --> ... --> do_exit": a      *)
(* killed process exits, whatever it was doing when it was killed.         *)
KilledExits == \A p \in Proc : p \in exiting /\ Live(p) ~> ~Live(p)

-----------------------------------------------------------------------------
(* The inductive invariant: initproc never dies and waits for any child,   *)
(* and wait_state is set exactly while a process sleeps.                   *)
InitAlive == Live(initproc) /\ group[initproc] = {initproc} /\ target[initproc] = AnyPid

WaitSane == \A p \in All : state[p] = "SLEEPING" <=> wait_state[p] # "0"

IndInv ==
    /\ TypeOK /\ GroupLive /\ ParentLive /\ NoZombieUnnoticed
    /\ InitAlive /\ WaitSane
=============================================================================
