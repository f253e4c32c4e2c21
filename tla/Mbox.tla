-------------------------------- MODULE Mbox --------------------------------
(***************************************************************************)
(* A mailbox of kern-ucore (sync/mbox.c) with its senders and receivers.   *)
(*                                                                         *)
(* Every operation is atomic under the big kernel lock except where it may *)
(* sleep: in lock_mm around the copies from and to user memory, and in     *)
(* send_msg and recv_msg on the wait queues.  A waiter whose timer expires *)
(* or that is killed becomes runnable but stays in its queue until it      *)
(* runs.  A mailbox is identified by its number, which is looked up again  *)
(* after each lock_mm and may then belong to a new mailbox.  Messages and  *)
(* receive buffers are represented by their sizes.                         *)
(***************************************************************************)
EXTENDS WaitQueue, FiniteSets, FiniteSetTheorems

CONSTANTS
    Proc,        \* processes that use the mailbox
    MaxSlots,    \* argument of ipc_mbox_init
    Size         \* sizes of messages and buffers

ASSUME MboxAssumption ==
    IsFiniteSet(Proc) /\ MaxSlots \in Nat \ {0} /\ Size \subseteq Nat \ {0}

VARIABLES
    mbox,        \* the struct msg_mbox: state, inuse, slots and the messages
    senders, receivers,   \* its wait queues
    runnable,    \* processes in state PROC_RUNNABLE
    flags,       \* wait->wakeup_flags
    timer,       \* "none"; "set": expires > 0; "zero": expires = 0
    pc,          \* where the process is in the system call
    size,        \* size of the message to send, the buffer, or the message picked
    panicked     \* an assertion failed: the kernel is in its monitor

vars == <<mbox, senders, receivers, runnable, flags, timer, pc, size, panicked>>

TypeOK ==
    /\ mbox \in [state : {"CLOSED", "OPENED", "CLOSING"}, inuse : Nat, slots : Nat,
                 msgs : Seq(Size)]
    /\ senders \in Seq(Proc) /\ receivers \in Seq(Proc)
    /\ runnable \in SUBSET Proc
    /\ flags \in [Proc -> {"INTERRUPTED", "SEND", "RECV"}]
    /\ timer \in [Proc -> {"none", "set", "zero"}]
    /\ pc \in [Proc -> {"user", "load", "send", "check", "recv", "store"}]
    /\ size \in [Proc -> Size \cup {0}]
    /\ panicked \in BOOLEAN

Closed == [state |-> "CLOSED", inuse |-> 0, slots |-> 0, msgs |-> << >>]

Init ==
    /\ mbox = Closed
    /\ senders = << >> /\ receivers = << >>
    /\ runnable = Proc
    /\ flags = [p \in Proc |-> "INTERRUPTED"]
    /\ timer = [p \in Proc |-> "none"]
    /\ pc = [p \in Proc |-> "user"]
    /\ size = [p \in Proc |-> 0]
    /\ panicked = FALSE

-----------------------------------------------------------------------------
Running(p, l) == p \in runnable /\ pc[p] = l /\ ~panicked
Goto(p, l) == pc' = [pc EXCEPT ![p] = l]

(* wakeup_first(queue, flag, 1): what is left of the queue, and its effect *)
(* on the process, which may be runnable already.                          *)
Pop(q) == IF q = << >> THEN q ELSE Tail(q)
WakeupFirst(q, flag) ==
    IF q = << >> THEN UNCHANGED <<runnable, flags>>
    ELSE /\ runnable' = runnable \cup {Head(q)}
         /\ flags' = [flags EXCEPT ![Head(q)] = flag]

(* get_mbox                                                                *)
Opened == mbox.state = "OPENED"

(* wait_current_set and ipc_add_timer, which asserts timer->expires > 0.   *)
Sleep(p, timeout) ==
    /\ runnable' = runnable \ {p}
    /\ flags' = [flags EXCEPT ![p] = "INTERRUPTED"]
    /\ timer' = [timer EXCEPT ![p] = IF timeout = "none" THEN "none" ELSE "set"]
    /\ panicked' = (timeout = "zero")

(* What ipc_del_timer leaves in the timer: expires counts from the timer   *)
(* before it on the list, so it may be zero although the time is not up.   *)
DelTimer(t) == IF t = "set" THEN {"set", "zero"} ELSE {t}

Return(p) ==
    /\ Goto(p, "user")
    /\ size' = [size EXCEPT ![p] = 0]
    /\ timer' = [timer EXCEPT ![p] = "none"]
    /\ UNCHANGED panicked

Leave_NoFree(mb) == [mb EXCEPT !.inuse = @ - 1]

(* The end of send_msg and recv_msg: the last one to leave a mailbox that  *)
(* is being closed frees it (mbox_free).                                   *)
Leave(mb) ==
    IF mb.state # "OPENED" /\ mb.inuse = 1 THEN Closed
    ELSE [mb EXCEPT !.inuse = @ - 1]

Enter(mb) == [mb EXCEPT !.inuse = @ + 1]

-----------------------------------------------------------------------------
(* ipc_mbox_init -> new_mbox                                               *)
MboxInit(p) ==
    /\ Running(p, "user") /\ mbox.state = "CLOSED"
    /\ mbox' = [mbox EXCEPT !.state = "OPENED"]
    /\ UNCHANGED <<senders, receivers, runnable, flags, timer, pc, size, panicked>>

(* ipc_mbox_send, up to lock_mm.                                           *)
Send(p) ==
    /\ Running(p, "user") /\ Opened
    /\ Goto(p, "load")
    /\ UNCHANGED <<mbox, senders, receivers, runnable, flags, timer, size, panicked>>

(* One pass of the loop of send_msg, for a mailbox mb that p has entered;  *)
(* q are the other waiting senders.                                        *)
SendPass(p, mb, q, n, timeout) ==
    IF MaxSlots <= mb.slots
    THEN /\ Sleep(p, timeout)
         /\ mbox' = mb
         /\ senders' = Append(q, p)
         /\ Goto(p, "send")
         /\ size' = [size EXCEPT ![p] = n]
         /\ UNCHANGED receivers
    ELSE /\ mbox' = Leave([mb EXCEPT !.slots = @ + 1, !.msgs = Append(@, n)])
         /\ senders' = q
         /\ receivers' = Pop(receivers)
         /\ WakeupFirst(receivers, "RECV")
         /\ Return(p)

(* ipc_mbox_send after unlock_mm: the number may mean a new mailbox, or    *)
(* none; load_msg or the check of the user's buffer may have failed.       *)
LoadMsg(p, n, timeout) ==
    /\ Running(p, "load")
    /\ \/ /\ Opened
          /\ SendPass(p, Enter(mbox), senders, n, IF timeout THEN "set" ELSE "none")
       \/ /\ Return(p)
          /\ UNCHANGED <<mbox, senders, receivers, runnable, flags>>

(* send_msg after schedule().                                              *)
ResumeSend(p) ==
    LET q == WaitQueueDel(senders, p) IN
    /\ Running(p, "send")
    /\ IF ~Opened \/ flags[p] # "SEND"
       THEN /\ mbox' = Leave(mbox)
            /\ senders' = q
            /\ Return(p)
            /\ UNCHANGED <<receivers, runnable, flags>>
       ELSE \E t \in DelTimer(timer[p]) : SendPass(p, mbox, q, size[p], t)

-----------------------------------------------------------------------------
(* ipc_mbox_recv, up to lock_mm.                                           *)
Recv(p) ==
    /\ Running(p, "user") /\ Opened
    /\ Goto(p, "check")
    /\ UNCHANGED <<mbox, senders, receivers, runnable, flags, timer, size, panicked>>

Pick_NoSend(p, mb, q, n) ==
    LET msg == Head(mb.msgs) IN
    IF n < msg
    THEN /\ mbox' = Leave(mb)
         /\ receivers' = Pop(q)
         /\ WakeupFirst(q, "RECV")
         /\ UNCHANGED senders
         /\ Return(p)
    ELSE /\ mbox' = Leave([mb EXCEPT !.slots = @ - 1, !.msgs = Tail(@)])
         /\ receivers' = q
         /\ UNCHANGED <<senders, runnable, flags>>
         /\ Goto(p, "store")
         /\ size' = [size EXCEPT ![p] = msg]
         /\ timer' = [timer EXCEPT ![p] = "none"]
         /\ UNCHANGED panicked

Pick_NoRecv(p, mb, q, n) ==
    LET msg == Head(mb.msgs) IN
    IF n < msg
    THEN /\ mbox' = Leave(mb)
         /\ receivers' = q
         /\ UNCHANGED <<senders, runnable, flags>>
         /\ Return(p)
    ELSE /\ mbox' = Leave([mb EXCEPT !.slots = @ - 1, !.msgs = Tail(@)])
         /\ receivers' = q
         /\ senders' = Pop(senders)
         /\ WakeupFirst(senders, "SEND")
         /\ Goto(p, "store")
         /\ size' = [size EXCEPT ![p] = msg]
         /\ timer' = [timer EXCEPT ![p] = "none"]
         /\ UNCHANGED panicked

(* pick_msg: if the first message does not fit it stays, and the next      *)
(* receiver is woken for it.                                               *)
PickMsg(p, mb, q, n) ==
    LET msg == Head(mb.msgs) IN
    IF n < msg
    THEN /\ mbox' = Leave(mb)
         /\ receivers' = Pop(q)
         /\ WakeupFirst(q, "RECV")
         /\ UNCHANGED senders
         /\ Return(p)
    ELSE /\ mbox' = Leave([mb EXCEPT !.slots = @ - 1, !.msgs = Tail(@)])
         /\ receivers' = q
         /\ senders' = Pop(senders)
         /\ WakeupFirst(senders, "SEND")
         /\ Goto(p, "store")
         /\ size' = [size EXCEPT ![p] = msg]
         /\ timer' = [timer EXCEPT ![p] = "none"]
         /\ UNCHANGED panicked

RecvPass(p, mb, q, n, timeout) ==
    IF mb.slots = 0
    THEN /\ Sleep(p, timeout)
         /\ mbox' = mb
         /\ receivers' = Append(q, p)
         /\ Goto(p, "recv")
         /\ size' = [size EXCEPT ![p] = n]
         /\ UNCHANGED senders
    ELSE PickMsg(p, mb, q, n)

(* ipc_mbox_recv after unlock_mm, with a buffer of size n, or a bad one.   *)
CheckBuf(p, n, timeout) ==
    /\ Running(p, "check")
    /\ \/ /\ Opened
          /\ RecvPass(p, Enter(mbox), receivers, n, IF timeout THEN "set" ELSE "none")
       \/ /\ Return(p)
          /\ UNCHANGED <<mbox, senders, receivers, runnable, flags>>

(* recv_msg after schedule().                                              *)
ResumeRecv(p) ==
    LET q == WaitQueueDel(receivers, p) IN
    /\ Running(p, "recv")
    /\ IF ~Opened \/ flags[p] # "RECV"
       THEN /\ mbox' = Leave(mbox)
            /\ receivers' = q
            /\ Return(p)
            /\ UNCHANGED <<senders, runnable, flags>>
       ELSE \E t \in DelTimer(timer[p]) : RecvPass(p, mbox, q, size[p], t)

(* The message is copied to the user's buffer.  If that has become invalid *)
(* the message goes back to the front of the mailbox of that number.       *)
StoreMsg(p, ok) ==
    /\ Running(p, "store")
    /\ Return(p)
    /\ IF ~ok /\ Opened
       THEN /\ mbox' = [mbox EXCEPT !.slots = @ + 1, !.msgs = <<size[p]>> \o @]
            /\ receivers' = Pop(receivers)
            /\ WakeupFirst(receivers, "RECV")
       ELSE UNCHANGED <<mbox, receivers, runnable, flags>>
    /\ UNCHANGED senders

-----------------------------------------------------------------------------
Free_SendersLeft(p) ==
    LET waiting == {r \in Proc : InQueue(receivers, r)} IN
    /\ Running(p, "user") /\ Opened
    /\ mbox' = IF mbox.inuse = 0 THEN Closed
               ELSE [mbox EXCEPT !.state = "CLOSING", !.msgs = << >>]
    /\ receivers' = << >>
    /\ runnable' = runnable \cup waiting
    /\ flags' = [r \in Proc |-> IF r \in waiting THEN "INTERRUPTED" ELSE flags[r]]
    /\ UNCHANGED <<senders, timer, pc, size, panicked>>

(* ipc_mbox_free: drop the messages, wake everybody, and free the mailbox  *)
(* at once if nobody is inside.                                            *)
MboxFree(p) ==
    LET waiting == {r \in Proc : InQueue(senders, r) \/ InQueue(receivers, r)} IN
    /\ Running(p, "user") /\ Opened
    /\ mbox' = IF mbox.inuse = 0 THEN Closed
               ELSE [mbox EXCEPT !.state = "CLOSING", !.msgs = << >>]
    /\ senders' = << >> /\ receivers' = << >>
    /\ runnable' = runnable \cup waiting
    /\ flags' = [r \in Proc |-> IF r \in waiting THEN "INTERRUPTED" ELSE flags[r]]
    /\ UNCHANGED <<timer, pc, size, panicked>>

(* run_timer_list wakes a waiter; it may have been woken already.          *)
Timeout(p) ==
    /\ timer[p] = "set" /\ ~panicked
    /\ timer' = [timer EXCEPT ![p] = "zero"]
    /\ runnable' = runnable \cup {p}
    /\ UNCHANGED <<mbox, senders, receivers, flags, pc, size, panicked>>

(* __do_kill wakes a waiter; when it has left the mailbox it exits, and p  *)
(* stands for another process.                                             *)
Kill(p) ==
    /\ p \notin runnable /\ ~panicked
    /\ runnable' = runnable \cup {p}
    /\ UNCHANGED <<mbox, senders, receivers, flags, timer, pc, size, panicked>>

Next ==
    \E p \in Proc :
        \/ MboxInit(p) \/ MboxFree(p) \/ Send(p) \/ Recv(p)
        \/ \E n \in Size, timeout \in BOOLEAN : LoadMsg(p, n, timeout) \/ CheckBuf(p, n, timeout)
        \/ ResumeSend(p) \/ ResumeRecv(p)
        \/ \E ok \in BOOLEAN : StoreMsg(p, ok)
        \/ Timeout(p) \/ Kill(p)

Spec == Init /\ [][Next]_vars

(* Runnable processes run.                                                 *)
Fairness == \A p \in Proc : WF_vars(ResumeSend(p)) /\ WF_vars(ResumeRecv(p))

FairSpec == Spec /\ Fairness

-----------------------------------------------------------------------------
Asleep(q) == \E p \in ToSet(q) : p \notin runnable

(* Waiters that were woken for a message, or for a free slot, and have not *)
(* run since.                                                              *)
Woken(flag) == {p \in Proc : pc[p] \in {"send", "recv"} /\ flags[p] = flag}

(* No lost wake-up of a receiver: while one sleeps, every message in the   *)
(* mailbox has a receiver that was woken for it, whichever timed out, was  *)
(* killed, had too small a buffer or put its message back.                 *)
NoReceiverStuck == Opened /\ Asleep(receivers) => mbox.slots <= Cardinality(Woken("RECV"))

(* No lost wake-up of a sender: while one sleeps, every free slot has a    *)
(* sender that was woken for it.                                           *)
NoSenderStuck ==
    Opened /\ Asleep(senders) => MaxSlots - mbox.slots <= Cardinality(Woken("SEND"))

Inside == {p \in Proc : pc[p] \in {"send", "recv"}}

(* The assertions of mbox_free, and no leak: inuse counts the processes    *)
(* inside; a mailbox is CLOSING only while one of them is left to free it, *)
(* and once it is CLOSED none is left that could touch it.                 *)
FreedByLast ==
    /\ mbox.inuse = Cardinality(Inside)
    /\ mbox.state = "CLOSING" => mbox.inuse > 0
    /\ mbox.state = "CLOSED" => mbox = Closed
    /\ ~Opened => senders = << >> /\ receivers = << >> /\ mbox.msgs = << >>

(* A mailbox that is being closed is freed eventually.                     *)
ClosingFreed == mbox.state = "CLOSING" ~> mbox.state = "CLOSED" \/ panicked

(* The assertion of add_timer, "timer->expires > 0".                       *)
TimerUnexpired == ~panicked

-----------------------------------------------------------------------------
QueueInv ==
    /\ IsInjective(senders) /\ IsInjective(receivers)
    /\ \A p \in ToSet(senders) : pc[p] = "send" /\ flags[p] = "INTERRUPTED"
    /\ \A p \in ToSet(receivers) : pc[p] = "recv" /\ flags[p] = "INTERRUPTED"
    /\ \A p \in Proc : p \notin runnable => p \in ToSet(senders) \cup ToSet(receivers)
    /\ \A p \in Proc : pc[p] = "send" => flags[p] # "RECV"
    /\ \A p \in Proc : pc[p] = "recv" => flags[p] # "SEND"
    /\ \A p \in Proc : pc[p] \in {"send", "recv", "store"} => size[p] \in Size
    /\ Opened => mbox.slots = Len(mbox.msgs)

(* The inductive invariant.                                                *)
IndInv == TypeOK /\ QueueInv /\ FreedByLast /\ NoReceiverStuck /\ NoSenderStuck

(* Nobody waits for a message or slot that is there without somebody woken *)
(* for it, and the last one out frees the mailbox.                         *)
MboxSound == NoReceiverStuck /\ NoSenderStuck /\ FreedByLast /\ IndInv

-----------------------------------------------------------------------------
(* The proof, for any number of processes, slots and sizes: nobody sleeps  *)
(* at a mailbox over a message or a free slot that nobody was woken for,   *)
(* and the last one out of a mailbox that is being closed frees it.        *)


(* The sets that the invariant counts are finite.                          *)
LEMMA CountsFinite ==
    /\ IsFiniteSet(Inside) /\ Cardinality(Inside) \in Nat
    /\ \A f : IsFiniteSet(Woken(f)) /\ Cardinality(Woken(f)) \in Nat
    /\ IsFiniteSet(Inside') /\ Cardinality(Inside') \in Nat
    /\ \A f : IsFiniteSet(Woken(f)') /\ Cardinality(Woken(f)') \in Nat
<1>1. \A S \in SUBSET Proc : IsFiniteSet(S) /\ Cardinality(S) \in Nat
  BY MboxAssumption, FS_Subset, FS_CardinalityType
<1>2. /\ Inside \in SUBSET Proc /\ Inside' \in SUBSET Proc
      /\ \A f : Woken(f) \in SUBSET Proc /\ Woken(f)' \in SUBSET Proc
  BY DEF Inside, Woken
<1> QED BY <1>1, <1>2

(* Putting an element in, or taking one out, changes a count by one at     *)
(* most.                                                                   *)
LEMMA CountChange ==
    ASSUME NEW S, IsFiniteSet(S), NEW x
    PROVE  /\ Cardinality(S) \in Nat
           /\ IsFiniteSet(S \cup {x}) /\ IsFiniteSet(S \ {x})
           /\ Cardinality(S \cup {x}) = IF x \in S THEN Cardinality(S) ELSE Cardinality(S) + 1
           /\ Cardinality(S \ {x}) = IF x \in S THEN Cardinality(S) - 1 ELSE Cardinality(S)
<1>1. /\ Cardinality(S) \in Nat
      /\ IsFiniteSet(S \cup {x})
      /\ Cardinality(S \cup {x}) = IF x \in S THEN Cardinality(S) ELSE Cardinality(S) + 1
  BY FS_CardinalityType, FS_AddElement
<1>2. /\ IsFiniteSet(S \ {x})
      /\ Cardinality(S \ {x}) = IF x \in S THEN Cardinality(S) - 1 ELSE Cardinality(S)
  BY FS_RemoveElement
<1> QED BY <1>1, <1>2

(* Only processes wait in the queues.                                      *)
LEMMA WaitersTyped ==
    ASSUME TypeOK
    PROVE  ToSet(senders) \subseteq Proc /\ ToSet(receivers) \subseteq Proc
BY DEF TypeOK, ToSet

(* A closed mailbox, used by nobody, satisfies the invariant.              *)
LEMMA InitIndInv == Init => IndInv
<1> SUFFICES ASSUME Init PROVE IndInv
  OBVIOUS
<1>1. panicked \in BOOLEAN
  BY DEF Init
<1>2. TypeOK
  BY <1>1, EmptyElements DEF Init, TypeOK, Closed
<1>3. QueueInv
  BY EmptyElements DEF Init, QueueInv, Opened, Closed
<1>4. FreedByLast
  <2>1. Inside = {}
    BY DEF Init, Inside
  <2> QED BY <2>1, FS_EmptySet DEF Init, FreedByLast, Opened, Closed
<1>5. NoReceiverStuck /\ NoSenderStuck
  BY DEF Init, NoReceiverStuck, NoSenderStuck, Opened, Closed
<1> QED BY <1>2, <1>3, <1>4, <1>5 DEF IndInv

(* wakeup_first on the queue of the processes that wait at l: it takes its *)
(* first process out, if there is one, and notes why it was woken.         *)
LEMMA WakeupFirstCases ==
    ASSUME TypeOK, NEW q \in Seq(Proc), IsInjective(q), NEW flag \in {"SEND", "RECV"},
           WakeupFirst(q, flag)
    PROVE  /\ Pop(q) \in Seq(Proc) /\ IsInjective(Pop(q)) /\ ToSet(Pop(q)) \subseteq ToSet(q)
           /\ runnable' \in SUBSET Proc /\ runnable \subseteq runnable'
           /\ flags' \in [Proc -> {"INTERRUPTED", "SEND", "RECV"}]
           /\ \/ q = << >> /\ Pop(q) = << >> /\ flags' = flags /\ runnable' = runnable
              \/ \E h \in Proc :
                   /\ h \in ToSet(q) /\ ToSet(Pop(q)) = ToSet(q) \ {h}
                   /\ flags' = [flags EXCEPT ![h] = flag]
                   /\ runnable' = runnable \cup {h}
<1>1. CASE q = << >>
  BY <1>1, EmptyElements DEF WakeupFirst, Pop, TypeOK
<1>2. CASE q # << >>
  <2> DEFINE h == Head(q)
  <2>1. /\ h \in Proc /\ h \in ToSet(q) /\ Pop(q) = Tail(q)
        /\ Tail(q) \in Seq(Proc) /\ IsInjective(Tail(q)) /\ ToSet(Tail(q)) = ToSet(q) \ {h}
    BY <1>2, TailElements DEF Pop
  <2>2. flags' = [flags EXCEPT ![h] = flag] /\ runnable' = runnable \cup {h}
    BY <1>2 DEF WakeupFirst
  <2> HIDE DEF h
  <2> QED BY <2>1, <2>2 DEF TypeOK
<1> QED BY <1>1, <1>2

-----------------------------------------------------------------------------
(* p runs, is about to make a pass of the loop of send_msg or recv_msg, at *)
(* l, and mb is the mailbox once p has entered it.                         *)
Passes(p, mb, l) ==
    /\ p \in Proc /\ p \in runnable /\ Opened
    /\ mb \in [state : {"OPENED"}, inuse : Nat, slots : Nat, msgs : Seq(Size)]
    /\ mb.slots = mbox.slots /\ mb.msgs = mbox.msgs
    /\ mb.inuse = Cardinality(Inside \cup {p})
    /\ p \notin ToSet(senders) /\ p \notin ToSet(receivers)
    /\ pc[p] \in {"load", "check", l}

(* ipc_mbox_send and ipc_mbox_recv enter the mailbox.                      *)
LEMMA EnterPasses ==
    ASSUME IndInv, NEW p \in Proc, p \in runnable, pc[p] \in {"load", "check"}, Opened, NEW l
    PROVE  Passes(p, Enter(mbox), l)
<1>1. p \notin Inside /\ mbox.inuse = Cardinality(Inside)
  BY DEF IndInv, FreedByLast, Inside
<1>2. Cardinality(Inside \cup {p}) = mbox.inuse + 1
  BY <1>1, CountsFinite, CountChange
<1>3. p \notin ToSet(senders) /\ p \notin ToSet(receivers)
  BY DEF IndInv, QueueInv
<1>4. mbox \in [state : {"OPENED"}, inuse : Nat, slots : Nat, msgs : Seq(Size)]
  BY DEF IndInv, TypeOK, Opened
<1>5. /\ Enter(mbox) \in [state : {"OPENED"}, inuse : Nat, slots : Nat, msgs : Seq(Size)]
      /\ Enter(mbox).slots = mbox.slots /\ Enter(mbox).msgs = mbox.msgs
      /\ Enter(mbox).inuse = mbox.inuse + 1
  BY <1>4 DEF Enter
<1> QED BY <1>2, <1>3, <1>5 DEF Passes

(* A waiter that was woken for what it waits for is not in the queue any   *)
(* more, and goes round the loop again.                                    *)
LEMMA AgainPasses ==
    ASSUME IndInv, NEW p \in Proc, p \in runnable, Opened,
           NEW l \in {"send", "recv"}, pc[p] = l, flags[p] # "INTERRUPTED"
    PROVE  /\ Passes(p, mbox, l)
           /\ WaitQueueDel(senders, p) = senders /\ WaitQueueDel(receivers, p) = receivers
<1>1. Inside \cup {p} = Inside
  BY DEF Inside
<1>2. p \notin ToSet(senders) /\ p \notin ToSet(receivers)
  BY DEF IndInv, QueueInv
<1>3. ~InQueue(senders, p) /\ ~InQueue(receivers, p)
  BY <1>2 DEF InQueue, ToSet
<1> QED BY <1>1, <1>2, <1>3 DEF IndInv, TypeOK, FreedByLast, Passes, Opened, WaitQueueDel
(* inuse stays the number of processes inside when p leaves, and when it   *)
(* goes to sleep.                                                          *)
LEMMA InsideCount ==
    ASSUME TypeOK, NEW p \in Proc, NEW l, pc' = [pc EXCEPT ![p] = l]
    PROVE  /\ l \in {"send", "recv"} => Inside' = Inside \cup {p}
           /\ l \notin {"send", "recv"} =>
                /\ Inside' = Inside \ {p}
                /\ Cardinality(Inside') = Cardinality(Inside \cup {p}) - 1
<1>1. l \in {"send", "recv"} => Inside' = Inside \cup {p}
  BY DEF Inside, TypeOK
<1>2. ASSUME l \notin {"send", "recv"}
      PROVE  /\ Inside' = Inside \ {p}
             /\ Cardinality(Inside') = Cardinality(Inside \cup {p}) - 1
  <2>1. Inside' = Inside \ {p}
    BY <1>2 DEF Inside, TypeOK
  <2>2. Inside' = (Inside \cup {p}) \ {p} /\ p \in Inside \cup {p}
    BY <2>1
  <2>3. IsFiniteSet(Inside \cup {p})
    BY CountsFinite, CountChange
  <2> QED BY <2>1, <2>2, <2>3, CountChange
<1> QED BY <1>1, <1>2

(* A sender that finds the mailbox full goes to sleep.                     *)
LEMMA SendSleeps ==
    ASSUME IndInv, NEW p \in Proc, NEW mb, Passes(p, mb, "send"), MaxSlots <= mb.slots,
           NEW n \in Size, NEW timeout, SendPass(p, mb, senders, n, timeout)
    PROVE  IndInv'
<1>1. /\ mbox' = mb /\ senders' = Append(senders, p) /\ receivers' = receivers
      /\ runnable' = runnable \ {p} /\ flags' = [flags EXCEPT ![p] = "INTERRUPTED"]
      /\ timer' = [timer EXCEPT ![p] = IF timeout = "none" THEN "none" ELSE "set"]
      /\ pc' = [pc EXCEPT ![p] = "send"] /\ size' = [size EXCEPT ![p] = n]
      /\ panicked' = (timeout = "zero")
  BY DEF SendPass, Sleep, Goto
<1>2. panicked' \in BOOLEAN
  BY <1>1
<1>3. /\ mb.state = "OPENED" /\ mb.slots = mbox.slots /\ mb.msgs = mbox.msgs
      /\ mb.inuse = Cardinality(Inside \cup {p})
      /\ mb \in [state : {"OPENED"}, inuse : Nat, slots : Nat, msgs : Seq(Size)]
      /\ p \notin ToSet(senders) /\ p \notin ToSet(receivers)
      /\ pc[p] \in {"load", "check", "send"} /\ Opened
  BY DEF Passes
<1>4. /\ senders' \in Seq(Proc) /\ IsInjective(senders')
      /\ ToSet(senders') = ToSet(senders) \cup {p}
  BY <1>1, <1>3, AppendElements DEF IndInv, TypeOK, QueueInv
<1>5. TypeOK'
  BY <1>1, <1>2, <1>3, <1>4 DEF IndInv, TypeOK
<1>6. QueueInv'
  BY <1>1, <1>3, <1>4 DEF IndInv, TypeOK, QueueInv, Opened
<1>7. FreedByLast'
  <2>1. Inside' = Inside \cup {p}
    BY <1>1, InsideCount DEF IndInv
  <2> QED BY <1>1, <1>3, <2>1 DEF FreedByLast, Opened
<1>8. NoReceiverStuck'
  <2>1. Woken("RECV")' = Woken("RECV")
    BY <1>1, <1>3 DEF IndInv, QueueInv, TypeOK, Woken
  <2>2. Asleep(receivers)' => Asleep(receivers)
    BY <1>1, <1>3 DEF Asleep
  <2> QED BY <1>1, <1>3, <2>1, <2>2 DEF IndInv, NoReceiverStuck
<1>9. NoSenderStuck'
  <2>1. Cardinality(Woken("SEND")') \in Nat
    BY CountsFinite
  <2> QED BY <1>1, <1>3, <2>1, MboxAssumption DEF NoSenderStuck
<1> QED BY <1>5, <1>6, <1>7, <1>8, <1>9 DEF IndInv

(* How p's leaving changes the number of those woken for flag.             *)
Drops(p, flag) == IF p \in Woken(flag) THEN 1 ELSE 0

(* How many woken waiters of a kind are left when one process is done with *)
(* its wakeup.                                                             *)
LEMMA DropsCount ==
    ASSUME NEW p, NEW flag
    PROVE  /\ Drops(p, flag) \in 0 .. 1
           /\ IsFiniteSet(Woken(flag) \ {p})
           /\ Cardinality(Woken(flag) \ {p}) = Cardinality(Woken(flag)) - Drops(p, flag)
<1>1. IsFiniteSet(Woken(flag)) /\ Cardinality(Woken(flag)) \in Nat
  BY CountsFinite
<1>2. /\ IsFiniteSet(Woken(flag) \ {p})
      /\ Cardinality(Woken(flag) \ {p}) =
            IF p \in Woken(flag) THEN Cardinality(Woken(flag)) - 1 ELSE Cardinality(Woken(flag))
  BY <1>1, CountChange
<1> QED BY <1>1, <1>2 DEF Drops

(* Senders that sleep have the free slots covered, if p takes one with it  *)
(* whenever it was woken for one.                                          *)
LEMMA SlotsCovered ==
    ASSUME IndInv, NEW p, Opened, mbox'.slots \in Nat, Asleep(senders)' => Asleep(senders),
           mbox'.slots >= mbox.slots + Drops(p, "SEND"), Woken("SEND")' = Woken("SEND") \ {p}
    PROVE  NoSenderStuck'
<1> DEFINE a == mbox.slots
           b == mbox'.slots
           dr == Drops(p, "SEND")
           WS == Woken("SEND")
<1>1. a \in Nat /\ b \in Nat /\ dr \in 0 .. 1 /\ b >= a + dr /\ MaxSlots \in Nat
  BY DropsCount, MboxAssumption DEF IndInv, TypeOK
<1>2. Asleep(senders) => MaxSlots - a <= Cardinality(WS)
  BY DEF IndInv, NoSenderStuck
<1>3. Cardinality(WS) \in Nat /\ Cardinality(WS') = Cardinality(WS) - dr
  BY DropsCount, CountsFinite
<1> HIDE DEF a, b, dr, WS
<1>4. Asleep(senders)' => MaxSlots - b <= Cardinality(WS')
  BY <1>1, <1>2, <1>3
<1> QED BY <1>4 DEF NoSenderStuck, WS, b

(* p wakes the first receiver and leaves an open mailbox: all is well if   *)
(* it leaves at most one message more than there was, none if it had been  *)
(* woken for one, and no message less, one more if it had been woken for   *)
(* a slot.                                                                 *)
LEMMA WakesReceiver ==
    ASSUME IndInv, NEW p \in Proc, Opened, p \in runnable,
           p \notin ToSet(senders) /\ p \notin ToSet(receivers),
           WakeupFirst(receivers, "RECV"),
           senders' = senders, receivers' = Pop(receivers), Return(p),
           mbox' \in [state : {"OPENED"}, inuse : Nat, slots : Nat, msgs : Seq(Size)],
           mbox'.inuse = Cardinality(Inside'), mbox'.slots = Len(mbox'.msgs),
           mbox'.slots <= mbox.slots + 1 - Drops(p, "RECV"),
           mbox'.slots >= mbox.slots + Drops(p, "SEND")
    PROVE  IndInv'
<1>1. /\ pc' = [pc EXCEPT ![p] = "user"] /\ size' = [size EXCEPT ![p] = 0]
      /\ timer' = [timer EXCEPT ![p] = "none"] /\ panicked' = panicked
  BY DEF Return, Goto
<1>2. /\ receivers' \in Seq(Proc) /\ IsInjective(receivers')
      /\ ToSet(receivers') \subseteq ToSet(receivers)
      /\ runnable' \in SUBSET Proc /\ runnable \subseteq runnable'
      /\ flags' \in [Proc -> {"INTERRUPTED", "SEND", "RECV"}]
  BY WakeupFirstCases DEF IndInv, TypeOK, QueueInv
<1>3. TypeOK'
  BY <1>1, <1>2 DEF IndInv, TypeOK
<1>4. FreedByLast'
  BY DEF FreedByLast, Opened
<1> DEFINE WS == Woken("SEND")
           WR == Woken("RECV")
<1>5. /\ Cardinality(WS) \in Nat /\ Cardinality(WR) \in Nat
      /\ IsFiniteSet(WS) /\ IsFiniteSet(WR)
      /\ Cardinality(WS') \in Nat /\ Cardinality(WR') \in Nat
      /\ mbox.slots \in Nat /\ mbox'.slots \in Nat /\ MaxSlots \in Nat
  BY CountsFinite, MboxAssumption DEF IndInv, TypeOK
<1>6. /\ Asleep(receivers)' => Asleep(receivers)
      /\ Asleep(senders)' => Asleep(senders)
  BY <1>2 DEF Asleep
<1>7. /\ IsFiniteSet(WS \ {p}) /\ Cardinality(WS \ {p}) = Cardinality(WS) - Drops(p, "SEND")
      /\ IsFiniteSet(WR \ {p}) /\ Cardinality(WR \ {p}) = Cardinality(WR) - Drops(p, "RECV")
      /\ Drops(p, "SEND") \in 0 .. 1 /\ Drops(p, "RECV") \in 0 .. 1
  BY DropsCount
<1>8. CASE receivers = << >> /\ Pop(receivers) = << >> /\ flags' = flags /\ runnable' = runnable
  <2>1. QueueInv'
    BY <1>1, <1>2, <1>8, WaitersTyped DEF IndInv, TypeOK, QueueInv
  <2>2. NoReceiverStuck'
    BY <1>8, EmptyElements DEF NoReceiverStuck, Asleep
  <2>3. WS' = WS \ {p}
    BY <1>1, <1>8 DEF IndInv, TypeOK, Woken
  <2> HIDE DEF WS, WR
  <2>4. NoSenderStuck'
    BY <1>5, <1>6, <2>3, SlotsCovered DEF WS
  <2> QED BY <1>3, <1>4, <2>1, <2>2, <2>4 DEF IndInv
<1>9. ASSUME NEW h \in Proc, h \in ToSet(receivers),
             ToSet(receivers') = ToSet(receivers) \ {h},
             flags' = [flags EXCEPT ![h] = "RECV"], runnable' = runnable \cup {h}
      PROVE  IndInv'
  <2>1. h # p /\ pc[h] = "recv" /\ flags[h] = "INTERRUPTED" /\ h \notin ToSet(senders)
    BY <1>9 DEF IndInv, QueueInv
  <2>2. QueueInv'
    <3>1. \A r \in ToSet(senders') : pc'[r] = "send" /\ flags'[r] = "INTERRUPTED"
      BY <1>1, <1>9, <2>1, WaitersTyped DEF IndInv, TypeOK, QueueInv
    <3>2. \A r \in ToSet(receivers') : pc'[r] = "recv" /\ flags'[r] = "INTERRUPTED"
      BY <1>1, <1>9, <2>1, WaitersTyped DEF IndInv, TypeOK, QueueInv
    <3>3. \A r \in Proc : r \notin runnable' => r \in ToSet(senders') \cup ToSet(receivers')
      BY <1>1, <1>9 DEF IndInv, QueueInv
    <3>4. /\ \A r \in Proc : pc'[r] = "send" => flags'[r] # "RECV"
          /\ \A r \in Proc : pc'[r] = "recv" => flags'[r] # "SEND"
      BY <1>1, <1>9, <2>1 DEF IndInv, TypeOK, QueueInv
    <3>5. \A r \in Proc : pc'[r] \in {"send", "recv", "store"} => size'[r] \in Size
      BY <1>1 DEF IndInv, TypeOK, QueueInv
    <3> QED BY <1>2, <3>1, <3>2, <3>3, <3>4, <3>5 DEF IndInv, QueueInv
  <2>3. WR' = (WR \ {p}) \cup {h} /\ h \notin WR
    BY <1>1, <1>9, <2>1 DEF IndInv, TypeOK, Woken
  <2>4. WS' = WS \ {p}
    BY <1>1, <1>9, <2>1 DEF IndInv, TypeOK, Woken
  <2> HIDE DEF WS, WR
  <2>5. Cardinality(WR') = Cardinality(WR \ {p}) + 1
    BY <1>7, <2>3, CountChange
  <2>6. NoReceiverStuck'
    BY <1>5, <1>6, <1>7, <2>5 DEF IndInv, NoReceiverStuck, WR
  <2>7. NoSenderStuck'
    BY <1>5, <1>6, <2>4, SlotsCovered DEF WS
  <2> QED BY <1>3, <1>4, <2>2, <2>6, <2>7 DEF IndInv
<1> QED BY <1>8, <1>9, WakeupFirstCases DEF IndInv, TypeOK, QueueInv

(* p leaves an open mailbox.                                               *)
LEMMA LeaveOpened ==
    ASSUME TypeOK, NEW p \in Proc, NEW l \in {"user", "store"}, pc' = [pc EXCEPT ![p] = l],
           NEW m \in [state : {"OPENED"}, inuse : Nat, slots : Nat, msgs : Seq(Size)],
           m.inuse = Cardinality(Inside \cup {p}), mbox' = Leave(m)
    PROVE  /\ mbox' \in [state : {"OPENED"}, inuse : Nat, slots : Nat, msgs : Seq(Size)]
           /\ mbox'.inuse = Cardinality(Inside')
           /\ mbox'.slots = m.slots /\ mbox'.msgs = m.msgs
<1>1. mbox' = [m EXCEPT !.inuse = @ - 1]
  BY DEF Leave
<1>2. Cardinality(Inside') = Cardinality(Inside \cup {p}) - 1
  BY InsideCount
<1>3. Cardinality(Inside') \in Nat
  BY CountsFinite
<1> QED BY <1>1, <1>2, <1>3

(* A sender that finds a free slot puts its message there, wakes the first *)
(* receiver and leaves.                                                    *)
LEMMA SendDelivers ==
    ASSUME IndInv, NEW p \in Proc, NEW mb, Passes(p, mb, "send"), ~(MaxSlots <= mb.slots),
           NEW n \in Size, NEW timeout, SendPass(p, mb, senders, n, timeout)
    PROVE  IndInv'
<1> DEFINE m == [mb EXCEPT !.slots = @ + 1, !.msgs = Append(@, n)]
<1>1. /\ mbox' = Leave(m) /\ senders' = senders /\ receivers' = Pop(receivers)
      /\ WakeupFirst(receivers, "RECV") /\ Return(p)
      /\ pc' = [pc EXCEPT ![p] = "user"]
  BY DEF SendPass, Return, Goto
<1>2. mb \in [state : {"OPENED"}, inuse : Nat, slots : Nat, msgs : Seq(Size)]
  BY DEF Passes
<1>3. /\ mb.slots = mbox.slots /\ mb.msgs = mbox.msgs
      /\ mb.inuse = Cardinality(Inside \cup {p})
      /\ p \notin ToSet(senders) /\ p \notin ToSet(receivers)
      /\ pc[p] \in {"load", "check", "send"} /\ Opened /\ p \in runnable
  BY DEF Passes
<1>4. Append(mb.msgs, n) \in Seq(Size) /\ mb.slots + 1 \in Nat
  BY <1>2
<1>5. m \in [state : {"OPENED"}, inuse : Nat, slots : Nat, msgs : Seq(Size)]
  BY <1>2, <1>4
<1>6. m.inuse = mb.inuse /\ m.slots = mb.slots + 1 /\ m.msgs = Append(mb.msgs, n)
  BY <1>2
<1> HIDE DEF m
<1>7. /\ mbox' \in [state : {"OPENED"}, inuse : Nat, slots : Nat, msgs : Seq(Size)]
      /\ mbox'.inuse = Cardinality(Inside')
      /\ mbox'.slots = mbox.slots + 1 /\ mbox'.msgs = Append(mbox.msgs, n)
  BY <1>1, <1>3, <1>5, <1>6, LeaveOpened DEF IndInv
<1>8. mbox.msgs \in Seq(Size) /\ mbox.slots = Len(mbox.msgs)
  BY <1>2, <1>3 DEF IndInv, QueueInv
<1>9. mbox'.slots = Len(mbox'.msgs)
  BY <1>7, <1>8
<1>10. Drops(p, "RECV") = 0 /\ Drops(p, "SEND") \in 0 .. 1 /\ mbox.slots \in Nat
  <2>1. p \notin Woken("RECV")
    BY <1>3 DEF IndInv, QueueInv, Woken
  <2> QED BY <2>1, <1>8, DropsCount DEF Drops
<1>11. /\ mbox'.slots <= mbox.slots + 1 - Drops(p, "RECV")
       /\ mbox'.slots >= mbox.slots + Drops(p, "SEND")
  BY <1>7, <1>10
<1> QED BY <1>1, <1>3, <1>7, <1>9, <1>11, WakesReceiver

(* A receiver whose buffer is too small wakes the next one for the message *)
(* and leaves.                                                             *)
LEMMA PickTooSmall ==
    ASSUME IndInv, NEW p \in Proc, NEW mb, Passes(p, mb, "recv"), NEW n,
           PickMsg(p, mb, receivers, n), n < Head(mb.msgs)
    PROVE  IndInv'
<1>1. /\ mbox' = Leave(mb) /\ senders' = senders /\ receivers' = Pop(receivers)
      /\ WakeupFirst(receivers, "RECV") /\ Return(p)
      /\ pc' = [pc EXCEPT ![p] = "user"]
  BY DEF PickMsg, Return, Goto
<1>2. /\ mb \in [state : {"OPENED"}, inuse : Nat, slots : Nat, msgs : Seq(Size)]
      /\ mb.slots = mbox.slots /\ mb.msgs = mbox.msgs
      /\ mb.inuse = Cardinality(Inside \cup {p})
      /\ p \notin ToSet(senders) /\ p \notin ToSet(receivers)
      /\ pc[p] \in {"load", "check", "recv"} /\ Opened /\ p \in runnable
  BY DEF Passes
<1>3. /\ mbox' \in [state : {"OPENED"}, inuse : Nat, slots : Nat, msgs : Seq(Size)]
      /\ mbox'.inuse = Cardinality(Inside')
      /\ mbox'.slots = mbox.slots /\ mbox'.msgs = mbox.msgs
  BY <1>1, <1>2, LeaveOpened DEF IndInv
<1>4. mbox'.slots = Len(mbox'.msgs) /\ mbox.slots \in Nat
  BY <1>2, <1>3 DEF IndInv, QueueInv
<1>5. p \notin Woken("SEND")
  BY <1>2 DEF IndInv, QueueInv, Woken
<1>6. Drops(p, "SEND") = 0 /\ Drops(p, "RECV") \in 0 .. 1
  BY <1>5, DropsCount DEF Drops
<1>7. /\ mbox'.slots <= mbox.slots + 1 - Drops(p, "RECV")
      /\ mbox'.slots >= mbox.slots + Drops(p, "SEND")
  BY <1>3, <1>4, <1>6
<1> QED BY <1>1, <1>2, <1>3, <1>4, <1>7, WakesReceiver

(* A process outside the mailbox moves on and touches nothing that others  *)
(* see.                                                                    *)
LEMMA OutsideStep ==
    ASSUME IndInv, NEW p \in Proc, pc[p] \in {"user", "load", "check", "store"},
           NEW l \in {"user", "load", "check"}, pc' = [pc EXCEPT ![p] = l],
           UNCHANGED <<mbox, senders, receivers, runnable, flags, panicked>>,
           size' \in [Proc -> Size \cup {0}], \A r \in Proc \ {p} : size'[r] = size[r],
           timer' \in [Proc -> {"none", "set", "zero"}]
    PROVE  IndInv'
<1>1. TypeOK'
  BY DEF IndInv, TypeOK
<1>2. p \notin ToSet(senders) /\ p \notin ToSet(receivers)
  BY DEF IndInv, QueueInv
<1>3. QueueInv'
  BY <1>2, WaitersTyped DEF IndInv, TypeOK, QueueInv, Opened
<1>4. FreedByLast'
  <2>1. Inside' = Inside
    BY DEF IndInv, TypeOK, Inside
  <2> QED BY <2>1 DEF IndInv, FreedByLast, Opened
<1>5. \A f : Woken(f)' = Woken(f)
  BY DEF IndInv, TypeOK, Woken
<1>6. NoReceiverStuck' /\ NoSenderStuck'
  BY <1>5 DEF IndInv, NoReceiverStuck, NoSenderStuck, Opened, Asleep
<1> QED BY <1>1, <1>3, <1>4, <1>6 DEF IndInv

(* The receiver that cannot store its message puts it back.                *)
LEMMA StoreStep ==
    ASSUME IndInv, NEW p \in Proc, NEW ok \in BOOLEAN, StoreMsg(p, ok)
    PROVE  IndInv'
<1>1. p \in runnable /\ pc[p] = "store" /\ Return(p) /\ senders' = senders
  BY DEF StoreMsg, Running
<1>2. p \notin ToSet(senders) /\ p \notin ToSet(receivers) /\ p \notin Inside
  BY <1>1 DEF IndInv, QueueInv, Inside
<1>3. pc' = [pc EXCEPT ![p] = "user"]
  BY <1>1 DEF Return, Goto
<1>4. Inside' = Inside
  BY <1>1, <1>3 DEF IndInv, TypeOK, Inside
<1>5. CASE ~ok /\ Opened
  <2> DEFINE s == size[p]
  <2>1. /\ mbox' = [mbox EXCEPT !.slots = @ + 1, !.msgs = <<s>> \o @]
        /\ receivers' = Pop(receivers) /\ WakeupFirst(receivers, "RECV")
    BY <1>5 DEF StoreMsg
  <2>2. s \in Size
    BY <1>1 DEF IndInv, QueueInv
  <2> HIDE DEF s
  <2>3. /\ mbox \in [state : {"OPENED"}, inuse : Nat, slots : Nat, msgs : Seq(Size)]
        /\ mbox.inuse = Cardinality(Inside)
    BY <1>5 DEF IndInv, TypeOK, Opened, FreedByLast
  <2>4. mbox.slots = Len(mbox.msgs)
    BY <1>5 DEF IndInv, QueueInv
  <2>5. /\ <<s>> \o mbox.msgs \in Seq(Size) /\ mbox.slots + 1 \in Nat
        /\ Len(<<s>> \o mbox.msgs) = Len(mbox.msgs) + 1
    BY <2>2, <2>3
  <2>6. mbox' \in [state : {"OPENED"}, inuse : Nat, slots : Nat, msgs : Seq(Size)]
    BY <2>1, <2>3, <2>5
  <2>7. /\ mbox'.slots = mbox.slots + 1 /\ mbox'.msgs = <<s>> \o mbox.msgs
        /\ mbox'.inuse = Cardinality(Inside')
    BY <1>4, <2>1, <2>3
  <2>8. mbox'.slots = Len(mbox'.msgs)
    BY <2>4, <2>5, <2>7
  <2>9. p \notin Woken("SEND") /\ p \notin Woken("RECV")
    BY <1>1 DEF Woken
  <2>10. /\ mbox'.slots <= mbox.slots + 1 - Drops(p, "RECV")
         /\ mbox'.slots >= mbox.slots + Drops(p, "SEND")
    BY <2>3, <2>7, <2>9 DEF Drops
  <2> QED BY <1>1, <1>2, <1>5, <2>1, <2>6, <2>7, <2>8, <2>10, WakesReceiver
<1>6. CASE ~(~ok /\ Opened)
  <2>1. /\ UNCHANGED <<mbox, senders, receivers, runnable, flags, panicked>>
        /\ size' = [size EXCEPT ![p] = 0] /\ timer' = [timer EXCEPT ![p] = "none"]
    BY <1>1, <1>6 DEF StoreMsg, Return
  <2> QED BY <1>1, <1>3, <2>1, OutsideStep DEF IndInv, TypeOK
<1> QED BY <1>5, <1>6

(* A receiver that finds no message goes to sleep.                         *)
LEMMA RecvSleeps ==
    ASSUME IndInv, NEW p \in Proc, NEW mb, Passes(p, mb, "recv"), mb.slots = 0,
           NEW n \in Size, NEW timeout, RecvPass(p, mb, receivers, n, timeout)
    PROVE  IndInv'
<1>1. /\ mbox' = mb /\ receivers' = Append(receivers, p) /\ senders' = senders
      /\ runnable' = runnable \ {p} /\ flags' = [flags EXCEPT ![p] = "INTERRUPTED"]
      /\ timer' = [timer EXCEPT ![p] = IF timeout = "none" THEN "none" ELSE "set"]
      /\ pc' = [pc EXCEPT ![p] = "recv"] /\ size' = [size EXCEPT ![p] = n]
      /\ panicked' = (timeout = "zero")
  BY DEF RecvPass, Sleep, Goto
<1>2. panicked' \in BOOLEAN
  BY <1>1
<1>3. /\ mb.state = "OPENED" /\ mb.slots = mbox.slots /\ mb.msgs = mbox.msgs
      /\ mb.inuse = Cardinality(Inside \cup {p})
      /\ mb \in [state : {"OPENED"}, inuse : Nat, slots : Nat, msgs : Seq(Size)]
      /\ p \notin ToSet(senders) /\ p \notin ToSet(receivers)
      /\ pc[p] \in {"load", "check", "recv"} /\ Opened
  BY DEF Passes
<1>4. /\ receivers' \in Seq(Proc) /\ IsInjective(receivers')
      /\ ToSet(receivers') = ToSet(receivers) \cup {p}
  BY <1>1, <1>3, AppendElements DEF IndInv, TypeOK, QueueInv
<1>5. TypeOK'
  BY <1>1, <1>2, <1>3, <1>4 DEF IndInv, TypeOK
<1>6. QueueInv'
  BY <1>1, <1>3, <1>4 DEF IndInv, TypeOK, QueueInv, Opened
<1>7. FreedByLast'
  <2>1. Inside' = Inside \cup {p}
    BY <1>1, InsideCount DEF IndInv
  <2> QED BY <1>1, <1>3, <2>1 DEF FreedByLast, Opened
<1>8. NoSenderStuck'
  <2>1. Woken("SEND")' = Woken("SEND")
    BY <1>1, <1>3 DEF IndInv, QueueInv, TypeOK, Woken
  <2>2. Asleep(senders)' => Asleep(senders)
    BY <1>1, <1>3 DEF Asleep
  <2> QED BY <1>1, <1>3, <2>1, <2>2 DEF IndInv, NoSenderStuck
<1>9. NoReceiverStuck'
  <2>1. Cardinality(Woken("RECV")') \in Nat
    BY CountsFinite
  <2> QED BY <1>1, <1>3, <2>1 DEF NoReceiverStuck
<1> QED BY <1>5, <1>6, <1>7, <1>8, <1>9 DEF IndInv

(* A receiver that takes the first message wakes the first sender for the  *)
(* slot.                                                                   *)
LEMMA PickFits ==
    ASSUME IndInv, NEW p \in Proc, NEW mb, Passes(p, mb, "recv"), NEW n, mb.slots # 0,
           PickMsg(p, mb, receivers, n), ~(n < Head(mb.msgs))
    PROVE  IndInv'
<1> DEFINE m == [mb EXCEPT !.slots = @ - 1, !.msgs = Tail(@)]
           msg == Head(mb.msgs)
<1>1. /\ mbox' = Leave(m) /\ receivers' = receivers /\ senders' = Pop(senders)
      /\ WakeupFirst(senders, "SEND")
      /\ pc' = [pc EXCEPT ![p] = "store"] /\ size' = [size EXCEPT ![p] = msg]
      /\ timer' = [timer EXCEPT ![p] = "none"] /\ panicked' = panicked
  BY DEF PickMsg, Goto
<1>2. mb \in [state : {"OPENED"}, inuse : Nat, slots : Nat, msgs : Seq(Size)]
  BY DEF Passes
<1>3. /\ mb.slots = mbox.slots /\ mb.msgs = mbox.msgs
      /\ mb.inuse = Cardinality(Inside \cup {p})
      /\ p \notin ToSet(senders) /\ p \notin ToSet(receivers)
      /\ pc[p] \in {"load", "check", "recv"} /\ Opened /\ p \in runnable
  BY DEF Passes
<1>4. mb.slots = Len(mb.msgs)
  BY <1>3 DEF IndInv, QueueInv
<1>5. /\ Tail(mb.msgs) \in Seq(Size) /\ mb.slots - 1 \in Nat /\ msg \in Size
      /\ Len(Tail(mb.msgs)) = Len(mb.msgs) - 1
  BY <1>2, <1>4
<1>6. m \in [state : {"OPENED"}, inuse : Nat, slots : Nat, msgs : Seq(Size)]
  BY <1>2, <1>5
<1>7. m.inuse = mb.inuse /\ m.slots = mb.slots - 1 /\ m.msgs = Tail(mb.msgs)
  BY <1>2
<1> HIDE DEF m, msg
<1>8. /\ mbox' \in [state : {"OPENED"}, inuse : Nat, slots : Nat, msgs : Seq(Size)]
      /\ mbox'.inuse = Cardinality(Inside')
      /\ mbox'.slots = mbox.slots - 1 /\ mbox'.msgs = Tail(mbox.msgs)
  BY <1>1, <1>3, <1>6, <1>7, LeaveOpened DEF IndInv
<1>9. mbox'.slots = Len(mbox'.msgs) /\ mbox.slots \in Nat /\ mbox'.slots \in Nat
  BY <1>2, <1>3, <1>4, <1>5, <1>8
<1>10. /\ senders' \in Seq(Proc) /\ IsInjective(senders')
       /\ ToSet(senders') \subseteq ToSet(senders)
       /\ runnable' \in SUBSET Proc /\ runnable \subseteq runnable'
       /\ flags' \in [Proc -> {"INTERRUPTED", "SEND", "RECV"}]
  BY <1>1, WakeupFirstCases DEF IndInv, TypeOK, QueueInv
<1>11. TypeOK'
  BY <1>1, <1>5, <1>8, <1>10 DEF IndInv, TypeOK
<1>12. FreedByLast'
  BY <1>8 DEF FreedByLast, Opened
<1>13. /\ Asleep(receivers)' => Asleep(receivers)
       /\ Asleep(senders)' => Asleep(senders)
  BY <1>1, <1>10 DEF Asleep
<1> DEFINE WS == Woken("SEND")
           WR == Woken("RECV")
<1>14. /\ Cardinality(WS) \in Nat /\ Cardinality(WR) \in Nat /\ IsFiniteSet(WS)
       /\ Cardinality(WR \ {p}) = Cardinality(WR) - Drops(p, "RECV")
       /\ Drops(p, "RECV") \in 0 .. 1 /\ MaxSlots \in Nat
  BY CountsFinite, DropsCount, MboxAssumption
<1>15. WR' = WR \ {p} => NoReceiverStuck'
  <2> HIDE DEF WS
  <2> SUFFICES ASSUME WR' = WR \ {p}, Asleep(receivers)' PROVE mbox'.slots <= Cardinality(WR')
    BY DEF NoReceiverStuck
  <2>1. mbox.slots <= Cardinality(WR)
    BY <1>3, <1>13 DEF IndInv, NoReceiverStuck
  <2> HIDE DEF WR
  <2> QED BY <1>8, <1>9, <1>14, <2>1
<1>16. CASE senders = << >> /\ Pop(senders) = << >> /\ flags' = flags /\ runnable' = runnable
  <2>1. QueueInv'
    BY <1>1, <1>3, <1>5, <1>9, <1>10, <1>16, WaitersTyped DEF IndInv, TypeOK, QueueInv
  <2>2. NoSenderStuck'
    BY <1>1, <1>16, EmptyElements DEF NoSenderStuck, Asleep
  <2>3. WR' = WR \ {p}
    BY <1>1, <1>16 DEF IndInv, TypeOK, Woken
  <2> QED BY <1>11, <1>12, <1>15, <2>1, <2>2, <2>3 DEF IndInv
<1>17. ASSUME NEW h \in Proc, h \in ToSet(senders),
              ToSet(senders') = ToSet(senders) \ {h},
              flags' = [flags EXCEPT ![h] = "SEND"], runnable' = runnable \cup {h}
       PROVE  IndInv'
  <2>1. h # p /\ pc[h] = "send" /\ flags[h] = "INTERRUPTED" /\ h \notin ToSet(receivers)
    BY <1>3, <1>17 DEF IndInv, QueueInv
  <2>2. QueueInv'
    <3>1. \A r \in ToSet(senders') : pc'[r] = "send" /\ flags'[r] = "INTERRUPTED"
      BY <1>1, <1>3, <1>17, <2>1, WaitersTyped DEF IndInv, TypeOK, QueueInv
    <3>2. \A r \in ToSet(receivers') : pc'[r] = "recv" /\ flags'[r] = "INTERRUPTED"
      BY <1>1, <1>3, <1>17, <2>1, WaitersTyped DEF IndInv, TypeOK, QueueInv
    <3>3. \A r \in Proc : r \notin runnable' => r \in ToSet(senders') \cup ToSet(receivers')
      BY <1>1, <1>17 DEF IndInv, QueueInv
    <3>4. /\ \A r \in Proc : pc'[r] = "send" => flags'[r] # "RECV"
          /\ \A r \in Proc : pc'[r] = "recv" => flags'[r] # "SEND"
      BY <1>1, <1>17, <2>1 DEF IndInv, TypeOK, QueueInv
    <3>5. \A r \in Proc : pc'[r] \in {"send", "recv", "store"} => size'[r] \in Size
      BY <1>1, <1>5 DEF IndInv, TypeOK, QueueInv
    <3> QED BY <1>1, <1>9, <1>10, <3>1, <3>2, <3>3, <3>4, <3>5 DEF IndInv, QueueInv
  <2>3. WR' = WR \ {p}
    BY <1>1, <1>17, <2>1 DEF IndInv, TypeOK, Woken
  <2>4. WS' = WS \cup {h} /\ h \notin WS
    BY <1>1, <1>3, <1>17, <2>1 DEF IndInv, TypeOK, QueueInv, Woken
  <2>5. NoSenderStuck'
    <3> SUFFICES ASSUME Asleep(senders)' PROVE MaxSlots - mbox'.slots <= Cardinality(WS')
      BY DEF NoSenderStuck
    <3>1. MaxSlots - mbox.slots <= Cardinality(WS)
      BY <1>3, <1>13 DEF IndInv, NoSenderStuck
    <3> HIDE DEF WS
    <3>2. Cardinality(WS') = Cardinality(WS) + 1
      BY <1>14, <2>4, CountChange
    <3> QED BY <1>8, <1>9, <1>14, <3>1, <3>2
  <2> QED BY <1>11, <1>12, <1>15, <2>2, <2>3, <2>5 DEF IndInv
<1> QED BY <1>1, <1>16, <1>17, WakeupFirstCases DEF IndInv, TypeOK, QueueInv

(* wait_current_del on either queue, whether p is in it or not.            *)
LEMMA DelQueue ==
    ASSUME NEW q \in Seq(Proc), IsInjective(q), NEW p
    PROVE  /\ WaitQueueDel(q, p) \in Seq(Proc) /\ IsInjective(WaitQueueDel(q, p))
           /\ ToSet(WaitQueueDel(q, p)) = ToSet(q) \ {p}
           /\ q = << >> => WaitQueueDel(q, p) = << >>
           /\ p \notin ToSet(q) => WaitQueueDel(q, p) = q
<1>1. q = << >> => WaitQueueDel(q, p) = << >>
  BY DEF WaitQueueDel, InQueue
<1>2. p \notin ToSet(q) => WaitQueueDel(q, p) = q
  BY DEF WaitQueueDel, InQueue, ToSet
<1> QED BY <1>1, <1>2, DelElements

(* A waiter that was interrupted, or finds the mailbox closed, leaves; if  *)
(* it is the last one in a mailbox that is being closed it frees it.       *)
LEMMA WaiterLeaves ==
    ASSUME IndInv, NEW p \in Proc, p \in runnable, pc[p] \in {"send", "recv"},
           ~Opened \/ flags[p] = "INTERRUPTED",
           senders' = WaitQueueDel(senders, p), receivers' = WaitQueueDel(receivers, p),
           mbox' = Leave(mbox), Return(p), UNCHANGED <<runnable, flags>>
    PROVE  IndInv'
<1>1. /\ pc' = [pc EXCEPT ![p] = "user"] /\ size' = [size EXCEPT ![p] = 0]
      /\ timer' = [timer EXCEPT ![p] = "none"] /\ panicked' = panicked
  BY DEF Return, Goto
<1>2. /\ senders' \in Seq(Proc) /\ IsInjective(senders') /\ ToSet(senders') = ToSet(senders) \ {p}
      /\ senders = << >> => senders' = << >>
  BY DelQueue DEF IndInv, TypeOK, QueueInv
<1>3. /\ receivers' \in Seq(Proc) /\ IsInjective(receivers')
      /\ ToSet(receivers') = ToSet(receivers) \ {p}
      /\ receivers = << >> => receivers' = << >>
  BY DelQueue DEF IndInv, TypeOK, QueueInv
<1>4. Inside \cup {p} = Inside
  BY DEF Inside
<1>5. Cardinality(Inside') = mbox.inuse - 1 /\ Cardinality(Inside') \in Nat /\ mbox.inuse \in Nat
  <2>0. TypeOK /\ pc' = [pc EXCEPT ![p] = "user"] /\ "user" \notin {"send", "recv"}
    BY <1>1 DEF IndInv
  <2>1. Cardinality(Inside') = Cardinality(Inside \cup {p}) - 1
    BY <2>0, InsideCount
  <2> QED BY <1>4, <2>1, CountsFinite DEF IndInv, TypeOK, FreedByLast
<1>6. mbox.state \in {"OPENED", "CLOSING"}
  <2>1. mbox = Closed => mbox.inuse = 0
    BY DEF Closed
  <2> QED BY <1>5, <2>1 DEF IndInv, TypeOK, FreedByLast
<1>7. CASE mbox.state # "OPENED" /\ mbox.inuse = 1
  <2>1. mbox' = Closed
    BY <1>7 DEF Leave
  <2>2. Closed \in [state : {"CLOSED"}, inuse : {0}, slots : {0}, msgs : Seq(Size)]
        /\ Closed.msgs = << >>
    BY EmptyElements DEF Closed
  <2>3. TypeOK'
    BY <1>1, <1>2, <1>3, <2>1, <2>2 DEF IndInv, TypeOK
  <2>4. senders' = << >> /\ receivers' = << >>
    BY <1>2, <1>3, <1>7 DEF IndInv, FreedByLast, Opened
  <2>5. ~Opened'
    BY <2>1, <2>2 DEF Opened
  <2>6. FreedByLast'
    BY <1>5, <1>7, <2>1, <2>2, <2>4 DEF FreedByLast
  <2>7. QueueInv'
    BY <1>1, <1>2, <1>3, <2>5, WaitersTyped DEF IndInv, TypeOK, QueueInv
  <2> QED BY <2>3, <2>5, <2>6, <2>7 DEF IndInv, NoReceiverStuck, NoSenderStuck
<1>8. CASE ~(mbox.state # "OPENED" /\ mbox.inuse = 1)
  <2>1. mbox' = [mbox EXCEPT !.inuse = @ - 1] /\ mbox.inuse - 1 \in Nat
    BY <1>5, <1>8 DEF Leave
  <2>2. /\ mbox' \in [state : {"OPENED", "CLOSING"}, inuse : Nat, slots : Nat, msgs : Seq(Size)]
        /\ mbox'.state = mbox.state /\ mbox'.inuse = mbox.inuse - 1
        /\ mbox'.slots = mbox.slots /\ mbox'.msgs = mbox.msgs
    BY <1>6, <2>1 DEF IndInv, TypeOK
  <2>3. TypeOK'
    BY <1>1, <1>2, <1>3, <2>2 DEF IndInv, TypeOK
  <2>4. QueueInv'
    BY <1>1, <1>2, <1>3, <2>2, WaitersTyped DEF IndInv, TypeOK, QueueInv, Opened
  <2>5. FreedByLast'
    BY <1>2, <1>3, <1>5, <1>8, <2>2 DEF IndInv, FreedByLast, Opened
  <2>6. ASSUME Opened PROVE Woken("SEND")' = Woken("SEND") /\ Woken("RECV")' = Woken("RECV")
    BY <1>1, <2>6 DEF IndInv, TypeOK, Woken
  <2>7. /\ Asleep(receivers)' => Asleep(receivers)
        /\ Asleep(senders)' => Asleep(senders)
    BY <1>2, <1>3 DEF Asleep
  <2>8. NoReceiverStuck' /\ NoSenderStuck'
    BY <2>2, <2>6, <2>7 DEF IndInv, NoReceiverStuck, NoSenderStuck, Opened
  <2> QED BY <2>3, <2>4, <2>5, <2>8 DEF IndInv
<1> QED BY <1>7, <1>8

(* ipc_mbox_init opens the mailbox.                                        *)
LEMMA MboxInitStep ==
    ASSUME IndInv, NEW p \in Proc, MboxInit(p)
    PROVE  IndInv'
<1> USE DEF MboxInit
<1>1. mbox = Closed /\ senders = << >> /\ receivers = << >>
  BY DEF IndInv, FreedByLast, Opened
<1>2. /\ mbox' \in [state : {"OPENED"}, inuse : {0}, slots : {0}, msgs : Seq(Size)]
      /\ mbox'.msgs = << >>
  BY <1>1, EmptyElements DEF Closed
<1>3. TypeOK'
  BY <1>2 DEF IndInv, TypeOK
<1>4. QueueInv'
  BY <1>2 DEF IndInv, QueueInv
<1>5. FreedByLast'
  <2>1. Inside' = Inside /\ mbox.inuse = 0
    BY <1>1 DEF Inside, Closed
  <2> QED BY <1>2, <2>1 DEF IndInv, FreedByLast, Opened
<1>6. NoReceiverStuck' /\ NoSenderStuck'
  BY <1>1, EmptyElements DEF NoReceiverStuck, NoSenderStuck, Asleep
<1> QED BY <1>3, <1>4, <1>5, <1>6 DEF IndInv

(* ipc_mbox_free wakes everybody who waits.                                *)
LEMMA MboxFreeStep ==
    ASSUME IndInv, NEW p \in Proc, MboxFree(p)
    PROVE  IndInv'
<1> USE DEF MboxFree
<1> DEFINE waiting == {r \in Proc : InQueue(senders, r) \/ InQueue(receivers, r)}
<1>1. waiting = ToSet(senders) \cup ToSet(receivers)
  BY WaitersTyped DEF InQueue, ToSet, IndInv
<1>2. /\ runnable' = runnable \cup waiting
      /\ flags' = [r \in Proc |-> IF r \in waiting THEN "INTERRUPTED" ELSE flags[r]]
      /\ senders' = << >> /\ receivers' = << >>
      /\ UNCHANGED <<timer, pc, size, panicked>> /\ Opened
  OBVIOUS
<1> HIDE DEF waiting
<1>3. /\ runnable' = Proc
      /\ flags' \in [Proc -> {"INTERRUPTED", "SEND", "RECV"}]
      /\ \A r \in Proc : flags'[r] = flags[r] \/ flags'[r] = "INTERRUPTED"
  BY <1>1, <1>2, WaitersTyped DEF IndInv, TypeOK, QueueInv
<1>4. Inside' = Inside /\ mbox.inuse = Cardinality(Inside) /\ mbox.inuse \in Nat
  BY <1>2 DEF Inside, IndInv, FreedByLast, TypeOK
<1>5. CASE mbox.inuse = 0
  <2>1. mbox' = Closed
    BY <1>5
  <2>2. Closed \in [state : {"CLOSED"}, inuse : {0}, slots : {0}, msgs : Seq(Size)]
        /\ Closed.msgs = << >>
    BY EmptyElements DEF Closed
  <2>3. TypeOK'
    BY <1>2, <1>3, <2>1, <2>2, EmptyElements DEF IndInv, TypeOK
  <2>4. QueueInv'
    BY <1>2, <1>3, <2>1, <2>2, EmptyElements DEF IndInv, QueueInv, Opened
  <2>5. FreedByLast'
    BY <1>2, <1>4, <1>5, <2>1, <2>2 DEF FreedByLast
  <2> QED BY <2>1, <2>2, <2>3, <2>4, <2>5 DEF IndInv, NoReceiverStuck, NoSenderStuck, Opened
<1>6. CASE mbox.inuse # 0
  <2>1. mbox' = [mbox EXCEPT !.state = "CLOSING", !.msgs = << >>]
    BY <1>6
  <2>2. /\ mbox' \in [state : {"CLOSING"}, inuse : Nat, slots : Nat, msgs : Seq(Size)]
        /\ mbox'.inuse = mbox.inuse /\ mbox'.msgs = << >>
    BY <2>1, EmptyElements DEF IndInv, TypeOK
  <2>3. TypeOK'
    BY <1>2, <1>3, <2>2, EmptyElements DEF IndInv, TypeOK
  <2>4. QueueInv'
    BY <1>2, <1>3, <2>2, EmptyElements DEF IndInv, QueueInv, Opened
  <2>5. FreedByLast'
    BY <1>2, <1>4, <1>6, <2>2 DEF FreedByLast
  <2> QED BY <2>2, <2>3, <2>4, <2>5 DEF IndInv, NoReceiverStuck, NoSenderStuck, Opened
<1> QED BY <1>5, <1>6

(* run_timer_list and __do_kill only make a process runnable.              *)
LEMMA WakeStep ==
    ASSUME IndInv, NEW p \in Proc, runnable' = runnable \cup {p},
           timer' \in [Proc -> {"none", "set", "zero"}],
           UNCHANGED <<mbox, senders, receivers, flags, pc, size, panicked>>
    PROVE  IndInv'
<1>1. TypeOK'
  BY DEF IndInv, TypeOK
<1>2. QueueInv' /\ FreedByLast'
  BY DEF IndInv, QueueInv, FreedByLast, Inside, Opened
<1>3. /\ Asleep(receivers)' => Asleep(receivers)
      /\ Asleep(senders)' => Asleep(senders)
      /\ \A f : Woken(f)' = Woken(f)
  BY DEF Asleep, Woken
<1>4. NoReceiverStuck' /\ NoSenderStuck'
  BY <1>3 DEF IndInv, NoReceiverStuck, NoSenderStuck, Opened
<1> QED BY <1>1, <1>2, <1>4 DEF IndInv

-----------------------------------------------------------------------------
(* One pass of send_msg, and one of recv_msg.                              *)
LEMMA SendPassStep ==
    ASSUME IndInv, NEW p \in Proc, NEW mb, Passes(p, mb, "send"), NEW n \in Size, NEW timeout,
           SendPass(p, mb, senders, n, timeout)
    PROVE  IndInv'
BY SendSleeps, SendDelivers

(* mbox_recv from its slot test on, with or without a message.             *)
LEMMA RecvPassStep ==
    ASSUME IndInv, NEW p \in Proc, NEW mb, Passes(p, mb, "recv"), NEW n \in Size, NEW timeout,
           RecvPass(p, mb, receivers, n, timeout)
    PROVE  IndInv'
<1>1. CASE mb.slots = 0
  BY <1>1, RecvSleeps
<1>2. CASE mb.slots # 0
  <2>1. PickMsg(p, mb, receivers, n)
    BY <1>2 DEF RecvPass
  <2> QED BY <1>2, <2>1, PickTooSmall, PickFits
<1> QED BY <1>1, <1>2

(* Every step of every process keeps the invariant.                        *)
LEMMA NextIndInv == IndInv /\ [Next]_vars => IndInv'
<1> SUFFICES ASSUME IndInv, [Next]_vars PROVE IndInv'
  OBVIOUS
<1>1. CASE UNCHANGED vars
  BY <1>1 DEF vars, IndInv, TypeOK, QueueInv, FreedByLast, Inside, NoReceiverStuck,
              NoSenderStuck, Asleep, Woken, Opened
<1>2. ASSUME NEW p \in Proc, Send(p) \/ Recv(p) PROVE IndInv'
  BY <1>2, OutsideStep DEF Send, Recv, Running, Goto, IndInv, TypeOK
<1>3. ASSUME NEW p \in Proc, NEW n \in Size, NEW timeout \in BOOLEAN,
             LoadMsg(p, n, timeout) \/ CheckBuf(p, n, timeout)
      PROVE  IndInv'
  <2>0. p \in runnable /\ pc[p] \in {"load", "check"}
    BY <1>3 DEF LoadMsg, CheckBuf, Running
  <2>1. CASE Return(p) /\ UNCHANGED <<mbox, senders, receivers, runnable, flags>>
    BY <2>0, <2>1, OutsideStep DEF Return, Goto, IndInv, TypeOK
  <2>2. CASE Opened /\ SendPass(p, Enter(mbox), senders, n, IF timeout THEN "set" ELSE "none")
    BY <2>0, <2>2, EnterPasses, SendPassStep
  <2>3. CASE Opened /\ RecvPass(p, Enter(mbox), receivers, n, IF timeout THEN "set" ELSE "none")
    BY <2>0, <2>3, EnterPasses, RecvPassStep
  <2> QED BY <1>3, <2>1, <2>2, <2>3 DEF LoadMsg, CheckBuf
<1>4. ASSUME NEW p \in Proc, ResumeSend(p) PROVE IndInv'
  <2>0. /\ p \in runnable /\ pc[p] = "send" /\ size[p] \in Size
        /\ flags[p] \in {"INTERRUPTED", "SEND"}
        /\ WaitQueueDel(receivers, p) = receivers
    <3>1. p \in runnable /\ pc[p] = "send"
      BY <1>4 DEF ResumeSend, Running
    <3>2. p \notin ToSet(receivers) /\ receivers \in Seq(Proc) /\ IsInjective(receivers)
      BY <3>1 DEF IndInv, QueueInv, TypeOK
    <3>3. size[p] \in Size /\ flags[p] \in {"INTERRUPTED", "SEND"}
      BY <3>1 DEF IndInv, QueueInv, TypeOK
    <3> QED BY <3>1, <3>2, <3>3, DelQueue
  <2>1. CASE ~Opened \/ flags[p] # "SEND"
    BY <1>4, <2>0, <2>1, WaiterLeaves DEF ResumeSend
  <2>2. CASE Opened /\ flags[p] = "SEND"
    <3>1. Passes(p, mbox, "send") /\ WaitQueueDel(senders, p) = senders
      BY <2>0, <2>2, AgainPasses
    <3>2. PICK t \in DelTimer(timer[p]) : SendPass(p, mbox, senders, size[p], t)
      BY <1>4, <2>2, <3>1 DEF ResumeSend
    <3> QED BY <2>0, <3>1, <3>2, SendPassStep
  <2> QED BY <2>1, <2>2
<1>5. ASSUME NEW p \in Proc, ResumeRecv(p) PROVE IndInv'
  <2>0. /\ p \in runnable /\ pc[p] = "recv" /\ size[p] \in Size
        /\ flags[p] \in {"INTERRUPTED", "RECV"}
        /\ WaitQueueDel(senders, p) = senders
    <3>1. p \in runnable /\ pc[p] = "recv"
      BY <1>5 DEF ResumeRecv, Running
    <3>2. p \notin ToSet(senders) /\ senders \in Seq(Proc) /\ IsInjective(senders)
      BY <3>1 DEF IndInv, QueueInv, TypeOK
    <3>3. size[p] \in Size /\ flags[p] \in {"INTERRUPTED", "RECV"}
      BY <3>1 DEF IndInv, QueueInv, TypeOK
    <3> QED BY <3>1, <3>2, <3>3, DelQueue
  <2>1. CASE ~Opened \/ flags[p] # "RECV"
    BY <1>5, <2>0, <2>1, WaiterLeaves DEF ResumeRecv
  <2>2. CASE Opened /\ flags[p] = "RECV"
    <3>1. Passes(p, mbox, "recv") /\ WaitQueueDel(receivers, p) = receivers
      BY <2>0, <2>2, AgainPasses
    <3>2. PICK t \in DelTimer(timer[p]) : RecvPass(p, mbox, receivers, size[p], t)
      BY <1>5, <2>2, <3>1 DEF ResumeRecv
    <3> QED BY <2>0, <3>1, <3>2, RecvPassStep
  <2> QED BY <2>1, <2>2
<1>6. ASSUME NEW p \in Proc, Timeout(p) \/ Kill(p) PROVE IndInv'
  BY <1>6, WakeStep DEF Timeout, Kill, IndInv, TypeOK
<1> QED BY <1>1, <1>2, <1>3, <1>4, <1>5, <1>6, MboxInitStep, MboxFreeStep, StoreStep DEF Next

(* Whoever times out, is killed, has too small a buffer or puts a message  *)
(* back, and whenever the mailbox is freed: while a receiver sleeps every  *)
(* message has a receiver that was woken for it, while a sender sleeps     *)
(* every free slot has one, and the last one out frees the mailbox.        *)
THEOREM MailboxSound == Spec => []MboxSound
<1>1. IndInv => MboxSound
  BY DEF IndInv, MboxSound
<1> QED BY <1>1, InitIndInv, NextIndInv, PTL DEF Spec
=============================================================================
