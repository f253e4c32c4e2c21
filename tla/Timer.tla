-------------------------------- MODULE Timer --------------------------------
(***************************************************************************)
(* The timer list of kern-ucore (schedule/sched.c, sched.h) with the       *)
(* processes that sleep on it (do_sleep, the timed waits of ipc.h).        *)
(*                                                                         *)
(* The list is ordered by expiry and each timer's expires counts from the  *)
(* one before it, so that a tick only touches the head.  A timer lives on  *)
(* the stack of its sleeping process, which deletes it as soon as it runs  *)
(* again, whoever woke it.                                                 *)
(***************************************************************************)
EXTENDS Integers, Sequences, SequencesExt

CONSTANTS Proc, MaxTicks   \* MaxTicks bounds the arguments of do_sleep

VARIABLES
    timer_list,   \* the pending timers: [proc, expires]
    state,        \* proc->state
    wait_state,   \* proc->wait_state: "TIMER" interruptible, "KSEM" not
    insleep       \* processes between add_timer and del_timer

vars == <<timer_list, state, wait_state, insleep>>

TypeOK ==
    /\ timer_list \in Seq([proc : Proc, expires : Nat])
    /\ state \in [Proc -> {"RUNNABLE", "SLEEPING"}]
    /\ wait_state \in [Proc -> {"0", "TIMER", "KSEM"}]
    /\ insleep \in SUBSET Proc

Init ==
    /\ timer_list = << >>
    /\ state = [p \in Proc |-> "RUNNABLE"]
    /\ wait_state = [p \in Proc |-> "0"]
    /\ insleep = {}

-----------------------------------------------------------------------------
(* The ticks from now until the i-th timer of the list expires.            *)
Expiry(list) ==
    LET at[i \in 0 .. Len(list)] == IF i = 0 THEN 0 ELSE at[i - 1] + list[i].expires
    IN  at

(* The position of the timer of p; 0 if it is not in the list.             *)
Position(list, p) == SelectInSeq(list, LAMBDA t : t.proc = p)

(* add_timer: t.expires counts down along the list until the next timer is *)
(* later, which then counts from t.                                        *)
AddTimer(list, t) ==
    LET rest(i) == t.expires - Expiry(list)[i]
        n == Min({i \in 0 .. Len(list) : i = Len(list) \/ rest(i) < list[i + 1].expires})
    IN  [j \in 1 .. Len(list) + 1 |->
            IF j <= n THEN list[j]
            ELSE IF j = n + 1 THEN [t EXCEPT !.expires = rest(n)]
            ELSE IF j = n + 2 THEN [list[n + 1] EXCEPT !.expires = @ - rest(n)]
            ELSE list[j - 1]]

Del_Drop(list, p) == SelectSeq(list, LAMBDA t : t.proc # p)

(* del_timer: the timer after it, if any, takes over its delta.            *)
DelTimer(list, p) ==
    LET i == Position(list, p) IN
    IF i = 0 THEN list
    ELSE [j \in 1 .. Len(list) - 1 |->
            IF j < i THEN list[j]
            ELSE IF j = i THEN [list[j + 1] EXCEPT !.expires = @ + list[i].expires]
            ELSE list[j + 1]]

(* wakeup_proc                                                             *)
Wakeup(ps) ==
    /\ state' = [p \in Proc |-> IF p \in ps THEN "RUNNABLE" ELSE state[p]]
    /\ wait_state' = [p \in Proc |-> IF p \in ps THEN "0" ELSE wait_state[p]]

-----------------------------------------------------------------------------
(* do_sleep, or a wait with a timeout, up to schedule().                   *)
Sleep(p, n) ==
    /\ state[p] = "RUNNABLE" /\ p \notin insleep
    /\ timer_list' = AddTimer(timer_list, [proc |-> p, expires |-> n])
    /\ state' = [state EXCEPT ![p] = "SLEEPING"]
    /\ wait_state' = [wait_state EXCEPT ![p] = "TIMER"]
    /\ insleep' = insleep \cup {p}

(* The sleeper is killed, or gets what it waits for.                       *)
Wake(p) ==
    /\ wait_state[p] = "TIMER"
    /\ Wakeup({p})
    /\ UNCHANGED <<timer_list, insleep>>

Resume_NoDel(p) ==
    /\ state[p] = "RUNNABLE" /\ p \in insleep
    /\ insleep' = insleep \ {p}
    /\ UNCHANGED <<timer_list, state, wait_state>>

(* The sleeper runs again: del_timer.                                      *)
Resume(p) ==
    /\ state[p] = "RUNNABLE" /\ p \in insleep
    /\ timer_list' = DelTimer(timer_list, p)
    /\ insleep' = insleep \ {p}
    /\ UNCHANGED <<state, wait_state>>

(* The timers at the head of the list that have reached zero.              *)
Fired(list) ==
    LET later == SelectInSeq(list, LAMBDA t : t.expires # 0)
    IN  IF later = 0 THEN Len(list) ELSE later - 1

Tick_WakeFirst ==
    IF timer_list = << >> THEN UNCHANGED vars
    ELSE LET list == [timer_list EXCEPT ![1].expires = @ - 1]
         IN  /\ timer_list' = SubSeq(list, Fired(list) + 1, Len(list))
             /\ Wakeup(IF Fired(list) = 0 THEN {} ELSE {list[1].proc})
             /\ UNCHANGED insleep

(* run_timer_list: count the head down; wake and delete the timers that    *)
(* have reached zero.                                                      *)
RunTimerList ==
    IF timer_list = << >> THEN UNCHANGED vars
    ELSE LET list == [timer_list EXCEPT ![1].expires = @ - 1]
         IN  /\ timer_list' = SubSeq(list, Fired(list) + 1, Len(list))
             /\ Wakeup({list[i].proc : i \in 1 .. Fired(list)})
             /\ UNCHANGED insleep

(* A wait for a kernel semaphore, which has no timer.                      *)
KernelWait(p) ==
    /\ state[p] = "RUNNABLE" /\ p \notin insleep
    /\ state' = [state EXCEPT ![p] = "SLEEPING"]
    /\ wait_state' = [wait_state EXCEPT ![p] = "KSEM"]
    /\ UNCHANGED <<timer_list, insleep>>

KernelWake(p) ==
    /\ wait_state[p] = "KSEM"
    /\ Wakeup({p})
    /\ UNCHANGED <<timer_list, insleep>>

Next ==
    \/ RunTimerList
    \/ \E p \in Proc :
         \/ \E n \in 1 .. MaxTicks : Sleep(p, n)
         \/ Wake(p) \/ Resume(p) \/ KernelWait(p) \/ KernelWake(p)

Spec == Init /\ [][Next]_vars

(* The timer keeps ticking.                                                *)
Fairness == WF_vars(RunTimerList)

FairSpec == Spec /\ Fairness

-----------------------------------------------------------------------------
(* A process has at most one timer and it is pending only while it sleeps  *)
(* or is about to resume; then no kernel wait can have begun.              *)
OwnersSleep ==
    /\ \A i, j \in DOMAIN timer_list : timer_list[i].proc = timer_list[j].proc => i = j
    /\ \A i \in DOMAIN timer_list : timer_list[i].proc \in insleep
    /\ \A p \in insleep : wait_state[p] # "KSEM"
    /\ \A p \in Proc : wait_state[p] = "TIMER" => p \in insleep /\ state[p] = "SLEEPING"

(* The inductive invariant.                                                *)
IndInv == TypeOK /\ OwnersSleep /\ (timer_list # << >> => timer_list[1].expires > 0)

(* The assertions of run_timer_list: the head has not expired yet, and the *)
(* process of a pending timer is in no wait that must not be interrupted.  *)
TimerAsserts ==
    /\ timer_list # << >> => timer_list[1].expires > 0
    /\ \A i \in DOMAIN timer_list : wait_state[timer_list[i].proc] # "KSEM"
    /\ IndInv

(* Every sleeper wakes up.                                                 *)
SleepEnds == \A p \in Proc : wait_state[p] = "TIMER" ~> wait_state[p] # "TIMER"

-----------------------------------------------------------------------------
(* The ticks left of a timer, 0 if there is none.                          *)
TicksLeft(p) == Expiry(timer_list)[Position(timer_list, p)]

Phase(p) ==
    CASE p \notin insleep -> "run"
      [] p \in insleep /\ state[p] = "SLEEPING" -> "sleep"
      [] OTHER -> "woken"

Abs == INSTANCE TimerAbs WITH
    left <- [p \in Proc |-> TicksLeft(p)],
    phase <- [p \in Proc |-> Phase(p)]

(* The delta list keeps every expiry: each timer fires at exactly its      *)
(* tick, whichever timers were added and deleted around it meanwhile.      *)
TimesKept == Abs!Spec
=============================================================================
