-------------------------------- MODULE Event --------------------------------
(***************************************************************************)
(* Events between processes of kern-ucore (sync/event.c, with the end of   *)
(* __do_exit in proc.c).                                                   *)
(*                                                                         *)
(* A send is a rendezvous: the sender wakes a receiver that waits, queues  *)
(* itself in the receiver's event box and sleeps until the receiver has    *)
(* read the event.  Either side may have a timeout, be killed meanwhile,   *)
(* or find the other side gone.  A step is what a process does in the      *)
(* kernel before it sleeps or returns.  The value of an event is left out: *)
(* it is fixed while its sender sleeps.                                    *)
(***************************************************************************)
EXTENDS WaitQueue

CONSTANT Proc    \* process structures of user processes

VARIABLES
    state,          \* proc->state; a "ZOMBIE" is reaped and its structure reused
    wait_state,     \* proc->wait_state, "SEND" and "RECV" are interruptible
    pc,             \* "user", or inside ipc_event_send or ipc_event_recv
    box,            \* proc->event_box.wait_queue: the senders that wait
    dest,           \* receiver of the send in progress
    wakeup_flags,   \* wait->wakeup_flags of a sender
    timer,          \* processes with a pending timer
    killed,         \* processes with PF_EXITING
    reads           \* how many receivers have read the event being sent

vars == <<state, wait_state, pc, box, dest, wakeup_flags, timer, killed, reads>>

TypeOK ==
    /\ state \in [Proc -> {"RUNNABLE", "SLEEPING", "ZOMBIE"}]
    /\ wait_state \in [Proc -> {"0", "SEND", "RECV"}]
    /\ pc \in [Proc -> {"user", "send", "recv"}]
    /\ box \in [Proc -> Seq(Proc)]
    /\ dest \in [Proc -> Proc]
    /\ wakeup_flags \in [Proc -> {"INTERRUPTED", "SEND"}]
    /\ timer \in SUBSET Proc
    /\ killed \in SUBSET Proc
    /\ reads \in [Proc -> Nat]

Init ==
    /\ state = [p \in Proc |-> "RUNNABLE"]
    /\ wait_state = [p \in Proc |-> "0"]
    /\ pc = [p \in Proc |-> "user"]
    /\ box = [p \in Proc |-> << >>]
    /\ dest = [p \in Proc |-> p]
    /\ wakeup_flags = [p \in Proc |-> "INTERRUPTED"]
    /\ timer = {}
    /\ killed = {}
    /\ reads = [p \in Proc |-> 0]

-----------------------------------------------------------------------------
At(p, l) == state[p] = "RUNNABLE" /\ pc[p] = l

Live(p) == state[p] # "ZOMBIE"

(* may_killed: a killed process issues no further system call.             *)
Calls(p) == At(p, "user") /\ p \notin killed

(* wakeup_proc of the processes in ps.                                     *)
Woken(ps, st) == [p \in Proc |-> IF p \in ps THEN "RUNNABLE" ELSE st[p]]
WaitOver(ps, ws) == [p \in Proc |-> IF p \in ps THEN "0" ELSE ws[p]]

WithTimer(p, timeout) == IF timeout THEN timer \cup {p} ELSE timer

(* wait_current_del                                                        *)
Without(p) == [q \in Proc |-> WaitQueueDel(box[q], p)]

-----------------------------------------------------------------------------
Send_NoWake(p, q, timeout) ==
    /\ Calls(p) /\ q # p /\ Live(q)
    /\ box' = [box EXCEPT ![q] = Append(@, p)]
    /\ state' = [state EXCEPT ![p] = "SLEEPING"]
    /\ wait_state' = [wait_state EXCEPT ![p] = "SEND"]
    /\ wakeup_flags' = [wakeup_flags EXCEPT ![p] = "INTERRUPTED"]
    /\ dest' = [dest EXCEPT ![p] = q]
    /\ timer' = WithTimer(p, timeout)
    /\ pc' = [pc EXCEPT ![p] = "send"]
    /\ UNCHANGED <<killed, reads>>

(* ipc_event_send and send_event up to schedule().                         *)
Send(p, q, timeout) ==
    LET woken == {r \in {q} : wait_state[r] = "RECV"} IN
    /\ Calls(p) /\ q # p /\ Live(q)
    /\ box' = [box EXCEPT ![q] = Append(@, p)]
    /\ state' = [Woken(woken, state) EXCEPT ![p] = "SLEEPING"]
    /\ wait_state' = [WaitOver(woken, wait_state) EXCEPT ![p] = "SEND"]
    /\ wakeup_flags' = [wakeup_flags EXCEPT ![p] = "INTERRUPTED"]
    /\ dest' = [dest EXCEPT ![p] = q]
    /\ timer' = WithTimer(p, timeout)
    /\ pc' = [pc EXCEPT ![p] = "send"]
    /\ UNCHANGED <<killed, reads>>

(* What ipc_event_send returns, success or not.                            *)
SendOk(p) == wakeup_flags[p] = "SEND"

(* send_event after schedule(): ipc_del_timer, wait_current_del, and the   *)
(* return.  The wait structure on the stack is gone.                       *)
SendReturn(p) ==
    /\ At(p, "send")
    /\ timer' = timer \ {p}
    /\ box' = Without(p)
    /\ pc' = [pc EXCEPT ![p] = "user"]
    /\ dest' = [dest EXCEPT ![p] = p]
    /\ wakeup_flags' = [wakeup_flags EXCEPT ![p] = "INTERRUPTED"]
    /\ reads' = [reads EXCEPT ![p] = 0]
    /\ UNCHANGED <<state, wait_state, killed>>

-----------------------------------------------------------------------------
Read_Keep(p) ==
    LET first == {box[p][i] : i \in {j \in DOMAIN box[p] : j = 1}} IN
    /\ UNCHANGED box
    /\ state' = Woken(first, state)
    /\ wait_state' = WaitOver(first, wait_state)
    /\ wakeup_flags' = [q \in Proc |-> IF q \in first THEN "SEND" ELSE wakeup_flags[q]]
    /\ reads' = [q \in Proc |-> IF q \in first THEN reads[q] + 1 ELSE reads[q]]

(* The end of recv_event: read the first sender's event, if there is one,  *)
(* take it out of the box and wake it.                                     *)
ReadEvent(p) ==
    LET first == {box[p][i] : i \in {j \in DOMAIN box[p] : j = 1}} IN
    /\ box' = [box EXCEPT ![p] = IF @ = << >> THEN @ ELSE Tail(@)]
    /\ state' = Woken(first, state)
    /\ wait_state' = WaitOver(first, wait_state)
    /\ wakeup_flags' = [q \in Proc |-> IF q \in first THEN "SEND" ELSE wakeup_flags[q]]
    /\ reads' = [q \in Proc |-> IF q \in first THEN reads[q] + 1 ELSE reads[q]]

(* ipc_event_recv when a sender waits already.                             *)
RecvNow(p) ==
    /\ Calls(p) /\ box[p] # << >>
    /\ ReadEvent(p)
    /\ UNCHANGED <<pc, dest, timer, killed>>

(* ipc_event_recv otherwise, up to schedule().                             *)
RecvSleep(p, timeout) ==
    /\ Calls(p) /\ box[p] = << >>
    /\ state' = [state EXCEPT ![p] = "SLEEPING"]
    /\ wait_state' = [wait_state EXCEPT ![p] = "RECV"]
    /\ timer' = WithTimer(p, timeout)
    /\ pc' = [pc EXCEPT ![p] = "recv"]
    /\ UNCHANGED <<box, dest, wakeup_flags, killed, reads>>

(* The receiver runs again, woken by a sender, its timer or a kill; the    *)
(* sender that woke it may have left the box meanwhile.                    *)
RecvReturn(p) ==
    /\ At(p, "recv")
    /\ timer' = timer \ {p}
    /\ ReadEvent(p)
    /\ pc' = [pc EXCEPT ![p] = "user"]
    /\ UNCHANGED <<dest, killed>>

-----------------------------------------------------------------------------
(* run_timer_list                                                          *)
Timeout(p) ==
    /\ p \in timer
    /\ timer' = timer \ {p}
    /\ state' = Woken({p}, state)
    /\ wait_state' = WaitOver({p}, wait_state)
    /\ UNCHANGED <<pc, box, dest, wakeup_flags, killed, reads>>

(* __do_kill: every wait of this module is interruptible.                  *)
Kill(p) ==
    LET woken == {q \in {p} : wait_state[q] # "0"} IN
    /\ Live(p) /\ p \notin killed
    /\ killed' = killed \cup {p}
    /\ state' = Woken(woken, state)
    /\ wait_state' = WaitOver(woken, wait_state)
    /\ UNCHANGED <<pc, box, dest, wakeup_flags, timer, reads>>

Exit_KeepBox(p) ==
    /\ At(p, "user")
    /\ state' = [state EXCEPT ![p] = "ZOMBIE"]
    /\ UNCHANGED <<wait_state, pc, box, dest, wakeup_flags, timer, killed, reads>>

(* __do_exit: the process becomes a zombie and wakeup_queue empties its    *)
(* event box.                                                              *)
Exit(p) ==
    LET senders == {box[p][i] : i \in DOMAIN box[p]} IN
    /\ At(p, "user")
    /\ state' = [Woken(senders, state) EXCEPT ![p] = "ZOMBIE"]
    /\ wait_state' = WaitOver(senders, wait_state)
    /\ wakeup_flags' = [q \in Proc |-> IF q \in senders THEN "INTERRUPTED" ELSE wakeup_flags[q]]
    /\ box' = [box EXCEPT ![p] = << >>]
    /\ UNCHANGED <<pc, dest, timer, killed, reads>>

(* The parent reaps the zombie and do_fork allocates the structure again   *)
(* (alloc_proc, event_box_init).                                           *)
Reuse(p) ==
    /\ state[p] = "ZOMBIE"
    /\ state' = [state EXCEPT ![p] = "RUNNABLE"]
    /\ box' = [box EXCEPT ![p] = << >>]
    /\ killed' = killed \ {p}
    /\ UNCHANGED <<wait_state, pc, dest, wakeup_flags, timer, reads>>

Next ==
    \E p \in Proc :
        \/ \E q \in Proc, timeout \in BOOLEAN : Send(p, q, timeout)
        \/ \E timeout \in BOOLEAN : RecvSleep(p, timeout)
        \/ SendReturn(p) \/ RecvNow(p) \/ RecvReturn(p)
        \/ Timeout(p) \/ Kill(p) \/ Exit(p) \/ Reuse(p)

Spec == Init /\ [][Next]_vars

(* Runnable processes run, and timers expire.                              *)
Fairness ==
    \A p \in Proc : WF_vars(SendReturn(p) \/ RecvReturn(p)) /\ WF_vars(Timeout(p))

FairSpec == Spec /\ Fairness

-----------------------------------------------------------------------------
(* The result of ipc_event_send is the truth, whatever timeout, kill or    *)
(* exit raced with it: 0 if exactly one receiver read the event, an error  *)
(* if none did.                                                            *)
SentOnce ==
    \A p \in Proc : At(p, "send") => reads[p] = IF SendOk(p) THEN 1 ELSE 0

(* No lost wake-up: a process asleep in recv_event has an empty box.       *)
NoReceiverAsleep ==
    \A p \in Proc : wait_state[p] = "RECV" => box[p] = << >>

(* Nobody waits in the box of a process that is gone, where wait_current_  *)
(* del would touch freed memory: who is in a box is in a send to its       *)
(* living owner.                                                           *)
BoxesLive ==
    \A p \in Proc : \A q \in ToSet(box[p]) :
        Live(p) /\ pc[q] = "send" /\ dest[q] = p

(* A send returns when its receiver exits, and when its time is over.      *)
SendEnds ==
    \A p \in Proc : pc[p] = "send" /\ (p \in timer \/ ~Live(dest[p])) ~> pc[p] # "send"

-----------------------------------------------------------------------------
(* Who is in a box has not been read or woken for a read, and is there     *)
(* once; only a send counts reads; a dead process is in no call and has no *)
(* timer.                                                                  *)
BoxInv ==
    /\ \A p \in Proc : IsInjective(box[p])
    /\ \A p \in Proc : \A q \in ToSet(box[p]) : wakeup_flags[q] = "INTERRUPTED"
    /\ \A p \in Proc : reads[p] = IF pc[p] = "send" /\ SendOk(p) THEN 1 ELSE 0
    /\ \A p \in Proc : ~Live(p) => pc[p] = "user"
    /\ \A p \in timer : pc[p] # "user"

(* The inductive invariant.                                                *)
IndInv == TypeOK /\ BoxInv /\ BoxesLive /\ NoReceiverAsleep

(* A send reports success exactly if one receiver read it, no receiver     *)
(* sleeps over a sender, no sender waits at a process that is gone.        *)
EventSound == SentOnce /\ NoReceiverAsleep /\ BoxesLive /\ IndInv
-----------------------------------------------------------------------------
(* Before the first send all boxes are empty.                              *)
LEMMA InitIndInv == Init => IndInv
<1> SUFFICES ASSUME Init PROVE IndInv
  OBVIOUS
<1>1. TypeOK
  BY EmptyElements DEF Init, TypeOK
<1>2. \A p \in Proc : box[p] = << >>
  BY DEF Init
<1>3. BoxInv /\ BoxesLive /\ NoReceiverAsleep
  BY <1>2, EmptyElements DEF Init, BoxInv, BoxesLive, NoReceiverAsleep, SendOk, Live
<1> QED BY <1>1, <1>3 DEF IndInv

(* send_event up to schedule(): the sender joins one box and wakes its     *)
(* owner.                                                                  *)
LEMMA SendStep ==
    ASSUME IndInv, NEW p \in Proc, NEW q \in Proc, NEW timeout \in BOOLEAN, Send(p, q, timeout)
    PROVE  IndInv'
<1> USE DEF IndInv
<1>1. /\ p # q /\ Live(q) /\ state[p] = "RUNNABLE" /\ pc[p] = "user"
      /\ box' = [box EXCEPT ![q] = Append(@, p)]
      /\ wakeup_flags' = [wakeup_flags EXCEPT ![p] = "INTERRUPTED"]
      /\ dest' = [dest EXCEPT ![p] = q]
      /\ pc' = [pc EXCEPT ![p] = "send"]
      /\ reads' = reads /\ killed' = killed
      /\ timer' \in SUBSET (timer \cup {p})
  BY DEF Send, Calls, At, WithTimer
<1>2. /\ state' \in [Proc -> {"RUNNABLE", "SLEEPING", "ZOMBIE"}]
      /\ \A r \in Proc : state'[r] = "ZOMBIE" <=> state[r] = "ZOMBIE"
      /\ wait_state' \in [Proc -> {"0", "SEND", "RECV"}]
      /\ \A r \in Proc : wait_state'[r] = "RECV" => r # q /\ wait_state[r] = "RECV"
  BY <1>1 DEF Send, TypeOK, Woken, WaitOver, Live
<1>3. \A r \in Proc : p \notin ToSet(box[r])
  BY <1>1 DEF BoxesLive
<1>4. /\ box[q] \in Seq(Proc) /\ IsInjective(box[q])
  BY DEF TypeOK, BoxInv
<1>5. /\ box'[q] \in Seq(Proc) /\ IsInjective(box'[q])
      /\ ToSet(box'[q]) = ToSet(box[q]) \cup {p}
      /\ \A r \in Proc \ {q} : box'[r] = box[r]
  BY <1>1, <1>3, <1>4, AppendElements DEF TypeOK
<1>6. TypeOK'
  BY <1>1, <1>2, <1>5 DEF TypeOK
<1>7. BoxesLive'
  BY <1>1, <1>2, <1>3, <1>5 DEF BoxesLive, TypeOK, Live
<1>8. BoxInv'
  <2>1. \A r \in Proc : IsInjective(box'[r])
    BY <1>5 DEF BoxInv
  <2>2. \A r \in Proc : \A x \in ToSet(box'[r]) : wakeup_flags'[x] = "INTERRUPTED"
    BY <1>1, <1>3, <1>5 DEF BoxInv, TypeOK
  <2>3. \A r \in Proc : reads'[r] = IF pc'[r] = "send" /\ SendOk(r)' THEN 1 ELSE 0
    BY <1>1 DEF BoxInv, TypeOK, SendOk
  <2>4. \A r \in Proc : ~Live(r)' => pc'[r] = "user"
    BY <1>1, <1>2 DEF BoxInv, TypeOK, Live
  <2>5. \A r \in timer' : pc'[r] # "user"
    BY <1>1 DEF BoxInv, TypeOK
  <2> QED BY <2>1, <2>2, <2>3, <2>4, <2>5 DEF BoxInv
<1>9. NoReceiverAsleep'
  BY <1>2, <1>5 DEF NoReceiverAsleep
<1> QED BY <1>6, <1>7, <1>8, <1>9

(* The end of send_event: the sender leaves every box it may still be in.  *)
LEMMA SendReturnStep ==
    ASSUME IndInv, NEW p \in Proc, SendReturn(p)
    PROVE  IndInv'
<1> USE DEF IndInv, SendReturn
<1>1. \A r \in Proc : /\ box'[r] \in Seq(Proc) /\ IsInjective(box'[r])
                      /\ ToSet(box'[r]) = ToSet(box[r]) \ {p}
                      /\ box[r] = << >> => box'[r] = << >>
  <2> SUFFICES ASSUME NEW r \in Proc
               PROVE  /\ box'[r] \in Seq(Proc) /\ IsInjective(box'[r])
                      /\ ToSet(box'[r]) = ToSet(box[r]) \ {p}
                      /\ box[r] = << >> => box'[r] = << >>
    OBVIOUS
  <2>1. box[r] \in Seq(Proc) /\ IsInjective(box[r]) /\ box'[r] = WaitQueueDel(box[r], p)
    BY DEF TypeOK, BoxInv, Without
  <2>2. box[r] = << >> => box'[r] = << >>
    BY <2>1 DEF WaitQueueDel, InQueue
  <2> QED BY <2>1, <2>2, DelElements
<1>2. box' \in [Proc -> Seq(Proc)]
  BY <1>1 DEF Without
<1>3. TypeOK'
  BY <1>2 DEF TypeOK
<1>4. BoxesLive'
  BY <1>1 DEF BoxesLive, TypeOK, Live
<1>5. BoxInv'
  BY <1>1 DEF BoxInv, TypeOK, SendOk, Live, At
<1>6. NoReceiverAsleep'
  BY <1>1 DEF NoReceiverAsleep
<1> QED BY <1>3, <1>4, <1>5, <1>6

(* The end of recv_event, and what a receive that sleeps and one that does *)
(* not have in common.  The sender that is read, if any, is in no other    *)
(* box: it is in a send to p.                                              *)
LEMMA ReadStep ==
    ASSUME IndInv, NEW p \in Proc, state[p] = "RUNNABLE", pc[p] \in {"user", "recv"},
           ReadEvent(p), pc' = [pc EXCEPT ![p] = "user"], timer' = timer \ {p},
           UNCHANGED <<dest, killed>>
    PROVE  IndInv'
<1> USE DEF IndInv
<1>0. box[p] \in Seq(Proc) /\ IsInjective(box[p])
  BY DEF TypeOK, BoxInv
<1>1. CASE box[p] = << >>
  <2>1. {box[p][i] : i \in {j \in DOMAIN box[p] : j = 1}} = {}
    BY <1>1
  <2>2. /\ \A r \in Proc : state'[r] = state[r] /\ wait_state'[r] = wait_state[r]
        /\ \A r \in Proc : wakeup_flags'[r] = wakeup_flags[r] /\ reads'[r] = reads[r]
        /\ \A r \in Proc : box'[r] = box[r]
    BY <1>1, <2>1 DEF ReadEvent, Woken, WaitOver, TypeOK
  <2>3. TypeOK'
    BY <1>1, <2>1, <2>2 DEF ReadEvent, Woken, WaitOver, TypeOK
  <2>4. BoxInv'
    <3>1. \A r \in Proc : ToSet(box[r]) \subseteq Proc
      BY DEF TypeOK, ToSet
    <3>2. \A r \in Proc : SendOk(r)' = SendOk(r) /\ Live(r)' = Live(r)
      BY <2>2 DEF SendOk, Live
    <3>3. \A r \in Proc : pc'[r] = IF r = p THEN "user" ELSE pc[r]
      BY DEF TypeOK
    <3> QED BY <2>2, <3>1, <3>2, <3>3 DEF BoxInv, TypeOK
  <2>5. BoxesLive' /\ NoReceiverAsleep'
    BY <2>2 DEF BoxesLive, NoReceiverAsleep, TypeOK, Live
  <2> QED BY <2>3, <2>4, <2>5
<1>2. CASE box[p] # << >>
  <2> DEFINE h == Head(box[p])
  <2>1. /\ h \in ToSet(box[p]) /\ h \in Proc
        /\ Tail(box[p]) \in Seq(Proc) /\ IsInjective(Tail(box[p]))
        /\ ToSet(Tail(box[p])) = ToSet(box[p]) \ {h}
    BY <1>0, <1>2, TailElements
  <2>2. {box[p][i] : i \in {j \in DOMAIN box[p] : j = 1}} = {h}
    BY <1>0, <1>2
  <2> HIDE DEF h
  <2>3. /\ pc[h] = "send" /\ dest[h] = p /\ wakeup_flags[h] = "INTERRUPTED"
        /\ reads[h] = 0 /\ state[h] # "ZOMBIE" /\ h # p
    BY <2>1 DEF BoxesLive, BoxInv, SendOk, Live
  <2>4. \A r \in Proc \ {p} : h \notin ToSet(box[r])
    BY <2>3 DEF BoxesLive
  <2>5. /\ box' = [box EXCEPT ![p] = Tail(@)]
        /\ state' = [r \in Proc |-> IF r = h THEN "RUNNABLE" ELSE state[r]]
        /\ wait_state' = [r \in Proc |-> IF r = h THEN "0" ELSE wait_state[r]]
        /\ wakeup_flags' = [r \in Proc |-> IF r = h THEN "SEND" ELSE wakeup_flags[r]]
        /\ reads' = [r \in Proc |-> IF r = h THEN reads[r] + 1 ELSE reads[r]]
    BY <1>2, <2>2 DEF ReadEvent, Woken, WaitOver
  <2>6. TypeOK'
    BY <2>1, <2>5 DEF TypeOK
  <2>7. /\ \A r \in Proc : IsInjective(box'[r]) /\ h \notin ToSet(box'[r])
        /\ \A r \in Proc : ToSet(box'[r]) \subseteq ToSet(box[r])
        /\ \A r \in Proc \ {p} : box'[r] = box[r]
    BY <2>1, <2>4, <2>5 DEF TypeOK, BoxInv
  <2>8. ASSUME NEW r \in Proc, NEW x \in ToSet(box'[r])
        PROVE  x \in ToSet(box[r]) /\ x # h /\ x # p /\ x \in Proc
    <3>1. x \in ToSet(box[r]) /\ x # h
      BY <2>7
    <3>2. x \in Proc
      BY <3>1 DEF TypeOK, ToSet
    <3> QED BY <3>1, <3>2 DEF BoxesLive
  <2>9. BoxesLive'
    BY <2>5, <2>8 DEF BoxesLive, TypeOK, Live
  <2>10. BoxInv'
    <3>1. \A r \in Proc : \A x \in ToSet(box'[r]) : wakeup_flags'[x] = "INTERRUPTED"
      BY <2>5, <2>8 DEF BoxInv, TypeOK
    <3>2. \A r \in Proc : reads'[r] = IF pc'[r] = "send" /\ SendOk(r)' THEN 1 ELSE 0
      BY <2>3, <2>5 DEF BoxInv, TypeOK, SendOk
    <3>3. \A r \in Proc : ~Live(r)' => pc'[r] = "user"
      BY <2>3, <2>5 DEF BoxInv, TypeOK, Live
    <3>4. \A r \in timer' : pc'[r] # "user"
      BY DEF BoxInv, TypeOK
    <3> QED BY <2>7, <3>1, <3>2, <3>3, <3>4 DEF BoxInv
  <2>11. NoReceiverAsleep'
    <3>1. wait_state[p] # "RECV"
      BY <1>2 DEF NoReceiverAsleep
    <3> QED BY <2>5, <2>7, <3>1 DEF NoReceiverAsleep, TypeOK
  <2> QED BY <2>6, <2>9, <2>10, <2>11
<1> QED BY <1>1, <1>2

(* ipc_event_recv sleeps only while its box is empty.                      *)
LEMMA RecvSleepStep ==
    ASSUME IndInv, NEW p \in Proc, NEW timeout \in BOOLEAN, RecvSleep(p, timeout)
    PROVE  IndInv'
<1> USE DEF IndInv, RecvSleep
<1>1. state[p] = "RUNNABLE" /\ pc[p] = "user" /\ timer' \in SUBSET (timer \cup {p})
  BY DEF Calls, At, WithTimer
<1>2. TypeOK'
  BY <1>1 DEF TypeOK
<1>3. \A r \in Proc : p \notin ToSet(box[r])
  BY <1>1 DEF BoxesLive
<1>4. BoxesLive'
  BY <1>1, <1>3 DEF BoxesLive, TypeOK, Live
<1>5. BoxInv'
  BY <1>1 DEF BoxInv, TypeOK, SendOk, Live
<1>6. NoReceiverAsleep'
  BY DEF NoReceiverAsleep, TypeOK
<1> QED BY <1>2, <1>4, <1>5, <1>6

(* run_timer_list and __do_kill make living processes runnable and change  *)
(* nothing else that the invariant speaks of.                              *)
LEMMA WakeStep ==
    ASSUME IndInv, NEW ps \in SUBSET Proc, \A r \in ps : Live(r),
           state' = Woken(ps, state), wait_state' = WaitOver(ps, wait_state),
           timer' \in SUBSET timer, killed' \in SUBSET Proc,
           UNCHANGED <<pc, box, dest, wakeup_flags, reads>>
    PROVE  IndInv'
<1> USE DEF IndInv
<1>1. TypeOK'
  BY DEF TypeOK, Woken, WaitOver
<1>2. /\ \A r \in Proc : Live(r)' <=> Live(r)
      /\ \A r \in Proc : wait_state'[r] = "RECV" => wait_state[r] = "RECV"
  BY DEF TypeOK, Woken, WaitOver, Live
<1>3. BoxInv'
  BY <1>2 DEF BoxInv, SendOk
<1>4. BoxesLive' /\ NoReceiverAsleep'
  BY <1>2 DEF BoxesLive, NoReceiverAsleep
<1> QED BY <1>1, <1>3, <1>4

(* __do_exit empties the box of the process that ends and wakes its        *)
(* senders.                                                                *)
LEMMA ExitStep ==
    ASSUME IndInv, NEW p \in Proc, Exit(p)
    PROVE  IndInv'
<1> USE DEF IndInv, Exit
<1>1. {box[p][i] : i \in DOMAIN box[p]} = ToSet(box[p])
  BY DEF ToSet
<1>2. /\ pc[p] = "user" /\ p \notin timer
      /\ \A r \in Proc : p \notin ToSet(box[r])
  BY DEF At, BoxInv, BoxesLive
<1>3. /\ state' = [Woken(ToSet(box[p]), state) EXCEPT ![p] = "ZOMBIE"]
      /\ wait_state' = WaitOver(ToSet(box[p]), wait_state)
      /\ wakeup_flags' = [q \in Proc |-> IF q \in ToSet(box[p]) THEN "INTERRUPTED"
                                         ELSE wakeup_flags[q]]
  BY <1>1
<1>4. TypeOK'
  BY <1>3, EmptyElements DEF TypeOK, Woken, WaitOver
<1>5. \A r \in Proc : ToSet(box[r]) \subseteq Proc
  BY DEF TypeOK, ToSet
<1>6. /\ \A r \in Proc \ {p} : Live(r) => Live(r)'
      /\ \A r \in Proc \ {p} : ~Live(r)' => ~Live(r)
      /\ \A r \in Proc : wait_state'[r] = "RECV" => wait_state[r] = "RECV"
      /\ \A r \in Proc : wakeup_flags'[r] = wakeup_flags[r]
      /\ box'[p] = << >> /\ \A r \in Proc \ {p} : box'[r] = box[r]
  <2>1. /\ \A r \in Proc \ {p} : state'[r] = IF r \in ToSet(box[p]) THEN "RUNNABLE" ELSE state[r]
        /\ \A r \in Proc : wait_state'[r] = IF r \in ToSet(box[p]) THEN "0" ELSE wait_state[r]
    BY <1>3 DEF Woken, WaitOver
  <2>2. \A r \in ToSet(box[p]) : Live(r)
    BY <1>5 DEF BoxesLive, BoxInv
  <2>3. \A r \in Proc : wakeup_flags'[r] = wakeup_flags[r]
    BY <1>3 DEF BoxInv
  <2>4. box'[p] = << >> /\ \A r \in Proc \ {p} : box'[r] = box[r]
    BY DEF TypeOK
  <2> QED BY <2>1, <2>2, <2>3, <2>4 DEF Live
<1>7. BoxesLive'
  BY <1>6, EmptyElements DEF BoxesLive
<1>8. BoxInv'
  BY <1>2, <1>5, <1>6, EmptyElements DEF BoxInv, SendOk
<1>9. NoReceiverAsleep'
  BY <1>6 DEF NoReceiverAsleep
<1> QED BY <1>4, <1>7, <1>8, <1>9

(* The structure of a reaped process serves a new one, with an empty box.  *)
LEMMA ReuseStep ==
    ASSUME IndInv, NEW p \in Proc, Reuse(p)
    PROVE  IndInv'
<1> USE DEF IndInv, Reuse
<1>1. TypeOK'
  BY EmptyElements DEF TypeOK
<1>2. /\ box'[p] = << >> /\ \A r \in Proc \ {p} : box'[r] = box[r]
      /\ \A r \in Proc : Live(r) => Live(r)'
  BY DEF TypeOK, Live
<1>3. BoxInv'
  BY <1>2, EmptyElements DEF BoxInv, SendOk
<1>4. BoxesLive' /\ NoReceiverAsleep'
  BY <1>2, EmptyElements DEF BoxesLive, NoReceiverAsleep
<1> QED BY <1>1, <1>3, <1>4

(* Every step of every process keeps the invariant.                        *)
LEMMA NextIndInv == IndInv /\ [Next]_vars => IndInv'
<1> SUFFICES ASSUME IndInv, [Next]_vars PROVE IndInv'
  OBVIOUS
<1>1. CASE UNCHANGED vars
  BY <1>1 DEF vars, IndInv, TypeOK, BoxInv, BoxesLive, NoReceiverAsleep, SendOk, Live
<1>2. ASSUME NEW p \in Proc, RecvNow(p) PROVE IndInv'
  <2>1. pc[p] = "user" /\ state[p] = "RUNNABLE" /\ p \notin timer
    BY <1>2 DEF RecvNow, Calls, At, IndInv, BoxInv
  <2>2. pc' = [pc EXCEPT ![p] = "user"] /\ timer' = timer \ {p}
    BY <1>2, <2>1 DEF RecvNow, IndInv, TypeOK
  <2> QED BY <1>2, <2>1, <2>2, ReadStep DEF RecvNow
<1>3. ASSUME NEW p \in Proc, RecvReturn(p) PROVE IndInv'
  BY <1>3, ReadStep DEF RecvReturn, At
<1>4. ASSUME NEW p \in Proc, Timeout(p) PROVE IndInv'
  <2>1. \A r \in {p} : Live(r)
    BY <1>4 DEF Timeout, IndInv, BoxInv
  <2>2. /\ state' = Woken({p}, state) /\ wait_state' = WaitOver({p}, wait_state)
        /\ {p} \in SUBSET Proc /\ timer' \in SUBSET timer /\ killed' \in SUBSET Proc
        /\ UNCHANGED <<pc, box, dest, wakeup_flags, reads>>
    BY <1>4 DEF Timeout, IndInv, TypeOK
  <2> QED BY <2>1, <2>2, WakeStep
<1>5. ASSUME NEW p \in Proc, Kill(p) PROVE IndInv'
  <2> DEFINE ps == {q \in {p} : wait_state[q] # "0"}
  <2>1. /\ state' = Woken(ps, state) /\ wait_state' = WaitOver(ps, wait_state)
        /\ ps \in SUBSET Proc /\ timer' \in SUBSET timer /\ killed' \in SUBSET Proc
        /\ UNCHANGED <<pc, box, dest, wakeup_flags, reads>>
        /\ \A r \in ps : Live(r)
    BY <1>5 DEF Kill, IndInv, TypeOK
  <2> HIDE DEF ps
  <2> QED BY <2>1, WakeStep
<1> QED BY <1>1, <1>2, <1>3, <1>4, <1>5, SendStep, SendReturnStep, RecvSleepStep, ExitStep,
           ReuseStep DEF Next

(* However timeouts, kills, exits and the reuse of process structures race *)
(* with the rendezvous: ipc_event_send succeeds exactly if one receiver    *)
(* read the event, no receiver sleeps over a sender, and no sender waits   *)
(* in the box of a process that is gone.                                   *)
THEOREM EventsSound == Spec => []EventSound
<1>1. IndInv => EventSound
  BY DEF IndInv, EventSound, BoxInv, SentOnce, At
<1> QED BY <1>1, InitIndInv, NextIndInv, PTL DEF Spec
=============================================================================
