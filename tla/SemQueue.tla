------------------------------ MODULE SemQueue ------------------------------
(***************************************************************************)
(* The handles of user semaphores in kern-ucore: sem_undo_t, sem_queue_t   *)
(* (sync/sem.c from sem_queue_create on, copy_sem and put_sem_queue in     *)
(* process/proc.c).                                                        *)
(*                                                                         *)
(* A process reaches a semaphore only through the list of its sem_queue,   *)
(* which threads share (CLONE_SEM) and fork copies.  A freed semaphore     *)
(* stays in memory until the last list that has it has let it go: at the   *)
(* next look-up, or when the list goes.  The semaphore of the list itself  *)
(* is never held across a schedule(), so a call is one step except for the *)
(* sleep in __down; what goes on inside the sleep is module Sem's.         *)
(***************************************************************************)
EXTENDS WaitQueue, FiniteSets, FiniteSetTheorems

CONSTANTS
    User,            \* processes with a sem_queue
    SemObj,          \* memory for semaphore_t
    Queue,           \* memory for sem_queue_t
    MaxValue         \* bound on a semaphore's value

HandlesAssumption ==
    IsFiniteSet(User) /\ IsFiniteSet(Queue) /\ MaxValue \in Nat

VARIABLES
    sems, valid,     \* the semaphores in memory, those not freed by sem_free
    value, count,    \* sem->value, sem->count
    waiters,         \* sem->wait_queue
    lists,           \* the sem_queue_t in memory
    lcount, semu,    \* sem_queue->count, the semaphores on sem_queue->semu_list
    of,              \* proc->sem_queue, none or one
    on,              \* the semaphore a process sleeps on
    flags            \* wait->wakeup_flags of a sleeper that was woken

semVars == <<sems, valid, value, count, waiters>>
vars == <<semVars, lists, lcount, semu, of, on, flags>>

TypeOK ==
    /\ sems \in SUBSET SemObj /\ valid \in SUBSET SemObj
    /\ value \in [SemObj -> Nat] /\ count \in [SemObj -> Nat]
    /\ waiters \in [SemObj -> Seq(User)]
    /\ lists \in SUBSET Queue
    /\ lcount \in [Queue -> Nat] /\ semu \in [Queue -> SUBSET SemObj]
    /\ of \in [User -> SUBSET Queue] /\ on \in [User -> SUBSET SemObj]
    /\ flags \in [User -> {"none", "USEM", "INTERRUPTED"}]

Init ==
    \E p0 \in User, l \in Queue :
        /\ sems = {} /\ valid = {}
        /\ value = [s \in SemObj |-> 0] /\ count = [s \in SemObj |-> 0]
        /\ waiters = [s \in SemObj |-> << >>]
        /\ lists = {l}
        /\ lcount = [k \in Queue |-> IF k = l THEN 1 ELSE 0]
        /\ semu = [k \in Queue |-> {}]
        /\ of = [p \in User |-> IF p = p0 THEN {l} ELSE {}]
        /\ on = [p \in User |-> {}]
        /\ flags = [p \in User |-> "none"]

-----------------------------------------------------------------------------
ListOf(p) == CHOOSE l \in of[p] : TRUE
Runs(p) == of[p] # {} /\ on[p] = {}

Counted_Not(c, S) == c

(* semu_create, once for each semaphore of S: c are the counts before.     *)
SemuCreate(c, S) == [s \in SemObj |-> IF s \in S THEN c[s] + 1 ELSE c[s]]

(* semu_destroy, once for each semaphore of S; the ones that reach zero    *)
(* are given back.                                                         *)
SemuDestroy(c, S) ==
    LET gone == {s \in S : c[s] = 1} IN
    /\ count' = [s \in SemObj |-> IF s \in S THEN c[s] - 1 ELSE c[s]]
    /\ sems' = sems \ gone
    /\ valid' = valid \ gone
    /\ value' = [s \in SemObj |-> IF s \in gone THEN 0 ELSE value[s]]
    /\ waiters' = [s \in SemObj |-> IF s \in gone THEN << >> ELSE waiters[s]]

(* semu_list_search                                                        *)
Finds(p, s) == s \in semu[ListOf(p)] /\ s \in valid

(* semu_list_search finds nothing: an entry whose semaphore was freed goes.*)
Misses(p, s) ==
    /\ ~Finds(p, s)
    /\ SemuDestroy(count, semu[ListOf(p)] \cap {s})
    /\ semu' = [semu EXCEPT ![ListOf(p)] = @ \ {s}]
    /\ UNCHANGED <<lists, lcount, of, on, flags>>

LastUser_Always(l) == TRUE

(* put_sem_queue by the last process that has list l: exit_sem_queue and   *)
(* sem_queue_destroy.                                                      *)
LastUser(l) == lcount[l] = 1

(* put_sem_queue: the lists in memory, their counts and their entries.     *)
PutLists(l) == IF LastUser(l) THEN lists \ {l} ELSE lists
PutCount(l) == [lcount EXCEPT ![l] = @ - 1]
PutSemu(l) == IF LastUser(l) THEN [semu EXCEPT ![l] = {}] ELSE semu

(* put_sem_queue: the semaphores.                                          *)
PutSems(l) == SemuDestroy(count, IF LastUser(l) THEN semu[l] ELSE {})

-----------------------------------------------------------------------------
(* ipc_sem_init                                                            *)
SemInit(p, n) ==
    /\ Runs(p)
    /\ \E s \in SemObj \ sems :
        /\ sems' = sems \cup {s} /\ valid' = valid \cup {s}
        /\ value' = [value EXCEPT ![s] = n]
        /\ count' = SemuCreate([count EXCEPT ![s] = 0], {s})
        /\ waiters' = [waiters EXCEPT ![s] = << >>]
        /\ semu' = [semu EXCEPT ![ListOf(p)] = @ \cup {s}]
    /\ UNCHANGED <<lists, lcount, of, on, flags>>

(* __up: the unit, or wakeup_wait of the first waiter.  Sem shows when its *)
(* assertion about the first waiter fails; here it is a guard.             *)
Up(s) ==
    /\ IF waiters[s] = << >>
       THEN /\ value[s] < MaxValue
            /\ value' = [value EXCEPT ![s] = @ + 1]
            /\ UNCHANGED <<waiters, flags>>
       ELSE /\ flags[Head(waiters[s])] = "none"
            /\ waiters' = [waiters EXCEPT ![s] = Tail(@)]
            /\ flags' = [flags EXCEPT ![Head(waiters[s])] = "USEM"]
            /\ UNCHANGED value
    /\ UNCHANGED <<sems, valid, count, lists, lcount, semu, of, on>>

(* ipc_sem_post                                                            *)
SemPost(p, s) ==
    /\ Runs(p)
    /\ (Finds(p, s) /\ Up(s)) \/ Misses(p, s)

(* __down up to schedule()                                                 *)
Down(p, s) ==
    /\ IF value[s] > 0
       THEN value' = [value EXCEPT ![s] = @ - 1] /\ UNCHANGED <<waiters, on>>
       ELSE /\ waiters' = [waiters EXCEPT ![s] = Append(@, p)]
            /\ on' = [on EXCEPT ![p] = {s}]
            /\ UNCHANGED value
    /\ UNCHANGED <<sems, valid, count, lists, lcount, semu, of, flags>>

(* ipc_sem_wait up to schedule()                                           *)
SemWait(p, s) ==
    /\ Runs(p)
    /\ (Finds(p, s) /\ Down(p, s)) \/ Misses(p, s)

(* A timeout or a kill makes the waiter run; it is still in the queue.     *)
Interrupt(p) ==
    /\ on[p] # {} /\ flags[p] = "none"
    /\ flags' = [flags EXCEPT ![p] = "INTERRUPTED"]
    /\ UNCHANGED <<semVars, lists, lcount, semu, of, on>>

(* __down after schedule(): wait_current_del touches the semaphore only if *)
(* the waiter is still queued.                                             *)
Resume(p) ==
    /\ on[p] # {} /\ flags[p] # "none"
    /\ waiters' = [s \in SemObj |-> WaitQueueDel(waiters[s], p)]
    /\ on' = [on EXCEPT ![p] = {}]
    /\ flags' = [flags EXCEPT ![p] = "none"]
    /\ UNCHANGED <<sems, valid, value, count, lists, lcount, semu, of>>

Free_KeepWaiters(p, s) ==
    /\ Runs(p)
    /\ \/ /\ Finds(p, s)
          /\ valid' = valid \ {s}
          /\ UNCHANGED <<sems, value, count, waiters, lists, lcount, semu, of, on, flags>>
       \/ Misses(p, s)

(* ipc_sem_free: wakeup_queue empties the queue.                           *)
SemFree(p, s) ==
    /\ Runs(p)
    /\ \/ /\ Finds(p, s)
          /\ valid' = valid \ {s}
          /\ waiters' = [waiters EXCEPT ![s] = << >>]
          /\ flags' = [x \in User |-> IF x \in ToSet(waiters[s]) THEN "INTERRUPTED" ELSE flags[x]]
          /\ UNCHANGED <<sems, value, count, lists, lcount, semu, of, on>>
       \/ Misses(p, s)

(* ipc_sem_get_value: only the search changes anything.                    *)
SemGetValue(p, s) == Runs(p) /\ ((Finds(p, s) /\ UNCHANGED vars) \/ Misses(p, s))

(* copy_sem in do_fork with CLONE_SEM.                                     *)
ForkShare(p, child) ==
    /\ Runs(p) /\ of[child] = {} /\ on[child] = {}
    /\ lcount' = [lcount EXCEPT ![ListOf(p)] = @ + 1]
    /\ of' = [of EXCEPT ![child] = of[p]]
    /\ UNCHANGED <<semVars, lists, semu, on, flags>>

Copied(p) == {s \in semu[ListOf(p)] : s \in valid}

(* copy_sem in do_fork without CLONE_SEM: dup_sem_queue.                   *)
ForkCopy(p, child) ==
    /\ Runs(p) /\ of[child] = {} /\ on[child] = {}
    /\ \E l \in Queue \ lists :
        /\ lists' = lists \cup {l}
        /\ lcount' = [lcount EXCEPT ![l] = 1]
        /\ semu' = [semu EXCEPT ![l] = Copied(p)]
        /\ of' = [of EXCEPT ![child] = {l}]
    /\ count' = SemuCreate(count, Copied(p))
    /\ UNCHANGED <<sems, valid, value, waiters, on, flags>>

(* The same without memory for the rest of the entries, or for a later     *)
(* step of do_fork: what was made goes again.                              *)
ForkFails(p) ==
    /\ Runs(p) /\ lists # Queue
    /\ \E made \in SUBSET Copied(p) : SemuDestroy(SemuCreate(count, made), made)
    /\ UNCHANGED <<lists, lcount, semu, of, on, flags>>

(* put_sem_queue in __do_exit; a sleeper that is killed runs first.        *)
Exit(p) ==
    /\ Runs(p)
    /\ \E x \in User \ {p} : of[x] # {}
    /\ PutSems(ListOf(p))
    /\ lists' = PutLists(ListOf(p))
    /\ lcount' = PutCount(ListOf(p))
    /\ semu' = PutSemu(ListOf(p))
    /\ of' = [of EXCEPT ![p] = {}]
    /\ UNCHANGED <<on, flags>>

(* do_execve: the old list goes, then a new one is made (without memory    *)
(* for it the process exits: Exit).                                        *)
Execve(p) ==
    /\ Runs(p)
    /\ PutSems(ListOf(p))
    /\ \E l \in Queue \ PutLists(ListOf(p)) :
        /\ lists' = PutLists(ListOf(p)) \cup {l}
        /\ lcount' = [PutCount(ListOf(p)) EXCEPT ![l] = 1]
        /\ semu' = [PutSemu(ListOf(p)) EXCEPT ![l] = {}]
        /\ of' = [of EXCEPT ![p] = {l}]
    /\ UNCHANGED <<on, flags>>

Next ==
    \E p \in User :
        \/ \E n \in 0 .. 1 : SemInit(p, n)
        \/ \E s \in SemObj : SemPost(p, s) \/ SemWait(p, s) \/ SemFree(p, s) \/ SemGetValue(p, s)
        \/ Interrupt(p) \/ Resume(p) \/ Exit(p) \/ Execve(p) \/ ForkFails(p)
        \/ \E child \in User : ForkShare(p, child) \/ ForkCopy(p, child)

Spec == Init /\ [][Next]_vars

-----------------------------------------------------------------------------
(* The lists that name a semaphore, and the processes that have a list.    *)
Naming(s) == {l \in Queue : s \in semu[l]}
Having(l) == {p \in User : l \in of[p]}

(* A semaphore is in memory exactly as long as some list names it, and a   *)
(* list as long as some process has it, on every way through fork, exec,   *)
(* exit and the failures half-way.                                         *)
CountsExact ==
    /\ \A s \in SemObj : count[s] = Cardinality(Naming(s)) /\ (s \in sems <=> Naming(s) # {})
    /\ \A l \in Queue : lcount[l] = Cardinality(Having(l)) /\ (l \in lists <=> Having(l) # {})

(* A process sleeps only on a semaphore that is in memory and not freed,   *)
(* in a list of its own: nobody can free it from under the sleeper, nor    *)
(* leave him asleep on a dead one.                                         *)
SleepersSafe ==
    /\ \A p \in User : on[p] # {} /\ flags[p] = "none" =>
        \E s \in on[p] : s \in valid /\ s \in semu[ListOf(p)] /\ p \in ToSet(waiters[s])
    /\ \A s \in SemObj : waiters[s] # << >> => s \in sems /\ s \in valid

(* A process has at most one list, and sleeps only while it has one.       *)
OneEach ==
    /\ \A p \in User : of[p] = {} \/ \E l \in Queue : of[p] = {l}
    /\ \A p \in User : on[p] = {} => flags[p] = "none"
    /\ \A p \in User : on[p] # {} => of[p] # {}

(* Who is in a wait queue is there once, sleeps on that semaphore, and     *)
(* reaches it through its own list; who sleeps and was not woken is in the *)
(* queue.                                                                  *)
Waiting ==
    /\ \A s \in SemObj : IsInjective(waiters[s])
    /\ \A s \in SemObj : \A p \in ToSet(waiters[s]) :
        on[p] = {s} /\ flags[p] # "USEM" /\ s \in valid /\ s \in semu[ListOf(p)]
    /\ \A p \in User, s \in SemObj : s \in on[p] /\ flags[p] = "none" => p \in ToSet(waiters[s])

(* What is not in memory holds nothing.                                    *)
InMemory ==
    /\ valid \subseteq sems
    /\ \A l \in Queue : l \notin lists => semu[l] = {}

(* The inductive invariant.                                                *)
IndInv == TypeOK /\ OneEach /\ Waiting /\ InMemory /\ CountsExact

(* Handles count exactly, and no sleeper is left behind.                   *)
HandlesExact == CountsExact /\ SleepersSafe /\ IndInv
=============================================================================
