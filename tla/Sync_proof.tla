----------------------------- MODULE Sync_proof -----------------------------
(***************************************************************************)
(* For any number of processes: a semaphore loses and makes up no unit,    *)
(* leaves nobody asleep while one is free, and the assertions of down and  *)
(* __up hold for those the kernel itself uses; the assertions of           *)
(* run_timer_list hold, and the delta-encoded timer list implements        *)
(* independent countdowns; events are delivered exactly once.              *)
(***************************************************************************)
EXTENDS MCSync, FiniteSetTheorems, NaturalsInduction, WellFoundedInduction, TLAPS

(* The processes that own a unit can be counted.                           *)
LEMMA OwnersFinite ==
    IsFiniteSet(Owners) /\ Cardinality(Owners) \in Nat
<1>1. Owners \subseteq Proc
  BY DEF Owners
<1> QED BY <1>1, SemAssumption, FS_Subset, FS_CardinalityType

(* A semaphore fresh from sem_init satisfies the invariant.                *)
LEMMA InitIndInv == Init => IndInv
<1> SUFFICES ASSUME Init PROVE IndInv
  OBVIOUS
<1>1. TypeOK
  <2>1. InitValue \in Nat /\ MaxPost \in Nat /\ << >> \in Seq(Proc)
    BY SemAssumption, EmptyElements
  <2>2. user \in BOOLEAN /\ valid \in BOOLEAN /\ panicked \in BOOLEAN
    BY DEF Init
  <2>3. /\ value \in Nat /\ queue \in Seq(Proc) /\ posted \in 0 .. MaxPost
        /\ runnable \in SUBSET Proc /\ timer \in SUBSET Proc /\ killed \in SUBSET Proc
    BY <2>1 DEF Init
  <2>4. /\ wait_state \in [Proc -> {"0", "SEM"}]
        /\ wakeup_flags \in [Proc -> {"INTERRUPTED", "SEM"}]
        /\ pc \in [Proc -> {"out", "down", "held", "gone"}]
    BY DEF Init
  <2> QED BY <2>2, <2>3, <2>4 DEF TypeOK
<1>2. QueueInv
  BY EmptyElements DEF Init, QueueInv
<1>3. UnitsConserved
  <2>1. Owners = {}
    BY DEF Init, Owners
  <2> QED BY <2>1, FS_EmptySet, SemAssumption DEF Init, UnitsConserved
<1>4. NoWaiterWhileFree /\ KernelWaitUninterrupted /\ KernelUpFindsSleeper
  BY DEF Init, NoWaiterWhileFree, KernelWaitUninterrupted, KernelUpFindsSleeper,
         UpFindsSleeper
<1> QED BY <1>1, <1>2, <1>3, <1>4 DEF IndInv

(* wakeup_proc keeps the type.                                             *)
LEMMA WakeupType ==
    ASSUME TypeOK, NEW ps \in SUBSET Proc, WakeupProcs(ps)
    PROVE  /\ runnable' \in SUBSET Proc
           /\ wait_state' \in [Proc -> {"0", "SEM"}]
           /\ \A p \in Proc \ ps : wait_state'[p] = wait_state[p]
           /\ runnable' = runnable \cup ps
BY DEF TypeOK, WakeupProcs

(* __up on a queue that is not empty, when its assertion holds: the first  *)
(* waiter becomes an owner.                                                *)
LEMMA HandOver ==
    ASSUME IndInv, Up, queue # << >>, wait_state[Head(queue)] = "SEM",
           NEW h, h = Head(queue)
    PROVE  /\ h \in Proc /\ h \in ToSet(queue) /\ pc[h] = "down"
           /\ wakeup_flags[h] = "INTERRUPTED"
           /\ queue' \in Seq(Proc) /\ IsInjective(queue')
           /\ ToSet(queue') = ToSet(queue) \ {h}
           /\ wakeup_flags' = [wakeup_flags EXCEPT ![h] = "SEM"]
           /\ WakeupProcs({h})
           /\ value' = value /\ panicked' = panicked
<1>1. queue \in Seq(Proc) /\ IsInjective(queue)
  BY DEF IndInv, TypeOK, QueueInv
<1>2. /\ queue' = Tail(queue)
      /\ wakeup_flags' = [wakeup_flags EXCEPT ![h] = "SEM"]
      /\ WakeupProcs({h}) /\ value' = value /\ panicked' = panicked
  BY DEF Up
<1>3. /\ Tail(queue) \in Seq(Proc) /\ h \in ToSet(queue) /\ ToSet(queue) \subseteq Proc
      /\ IsInjective(Tail(queue)) /\ ToSet(Tail(queue)) = ToSet(queue) \ {h}
  BY <1>1, TailElements
<1> QED BY <1>2, <1>3 DEF IndInv, QueueInv

(* What __up does, in each of its cases.                                   *)
LEMMA UpCases ==
    ASSUME IndInv, Up
    PROVE  \/ /\ queue = << >> /\ value' = value + 1
              /\ UNCHANGED <<queue, runnable, wait_state, wakeup_flags, panicked>>
           \/ /\ user /\ panicked'
              /\ UNCHANGED <<value, queue, runnable, wait_state, wakeup_flags>>
           \/ \E h \in Proc :
              /\ queue # << >> /\ h \in ToSet(queue) /\ pc[h] = "down"
              /\ wakeup_flags[h] = "INTERRUPTED"
              /\ queue' \in Seq(Proc) /\ IsInjective(queue')
              /\ ToSet(queue') = ToSet(queue) \ {h}
              /\ wakeup_flags' = [wakeup_flags EXCEPT ![h] = "SEM"]
              /\ WakeupProcs({h})
              /\ value' = value /\ panicked' = panicked
<1>1. CASE queue = << >>
  BY <1>1 DEF Up
<1>2. CASE queue # << >> /\ wait_state[Head(queue)] # "SEM"
  <2>1. Head(queue) \in ToSet(queue)
    BY <1>2, TailElements DEF IndInv, TypeOK, QueueInv
  <2>2. user
    BY <1>2, <2>1 DEF IndInv, QueueInv, TypeOK
  <2> QED BY <1>2, <2>2 DEF Up
<1>3. CASE queue # << >> /\ wait_state[Head(queue)] = "SEM"
  BY <1>3, HandOver
<1> QED BY <1>1, <1>2, <1>3

-----------------------------------------------------------------------------
(* Nothing a unit can be lost in: value stays, and the owners stay.        *)
LEMMA SameUnits ==
    ASSUME UnitsConserved, value' = value, Owners' = Owners, posted' = posted,
           valid' => valid, panicked' = panicked
    PROVE  UnitsConserved'
BY DEF UnitsConserved

(* A process that takes a unit is one owner more.                          *)
LEMMA OwnerAdded ==
    ASSUME NEW p \in Proc, p \notin Owners, Owners' = Owners \cup {p}
    PROVE  Cardinality(Owners') = Cardinality(Owners) + 1
BY OwnersFinite, FS_AddElement

(* A process that gives its unit back is one owner less.                   *)
LEMMA OwnerRemoved ==
    ASSUME NEW p \in Owners, Owners' = Owners \ {p}
    PROVE  Cardinality(Owners') = Cardinality(Owners) - 1
BY OwnersFinite, FS_RemoveElement

(* down of a semaphore with a free unit.                                   *)
LEMMA TakeDownStep ==
    ASSUME IndInv, NEW p \in Proc, TakeDown(p)
    PROVE  IndInv'
<1>1. TypeOK'
  BY DEF IndInv, TakeDown, TypeOK, procVars
<1>2. QueueInv'
  BY DEF IndInv, TakeDown, TypeOK, QueueInv, procVars
<1>3. UnitsConserved'
  <2>1. p \notin Owners /\ Owners' = Owners \cup {p}
    BY DEF IndInv, TypeOK, TakeDown, Owners, procVars
  <2>2. Cardinality(Owners') = Cardinality(Owners) + 1
    BY <2>1, OwnerAdded
  <2> QED BY <2>2, OwnersFinite DEF IndInv, TypeOK, TakeDown, UnitsConserved
<1>4. NoWaiterWhileFree'
  BY DEF IndInv, TypeOK, TakeDown, NoWaiterWhileFree
<1>5. KernelWaitUninterrupted' /\ KernelUpFindsSleeper'
  BY DEF IndInv, TypeOK, TakeDown, KernelWaitUninterrupted, KernelUpFindsSleeper,
         UpFindsSleeper, procVars
<1> QED BY <1>1, <1>2, <1>3, <1>4, <1>5 DEF IndInv

(* down of a semaphore without one: the process queues itself and sleeps.  *)
LEMMA SleepDownStep ==
    ASSUME IndInv, NEW p \in Proc, NEW timeout \in BOOLEAN, SleepDown(p, timeout)
    PROVE  IndInv'
<1>1. p \notin ToSet(queue)
  BY DEF IndInv, QueueInv, SleepDown
<1>2. /\ queue' \in Seq(Proc) /\ IsInjective(queue')
      /\ ToSet(queue') = ToSet(queue) \cup {p}
  BY <1>1, AppendElements DEF IndInv, TypeOK, QueueInv, SleepDown
<1>3. TypeOK'
  BY <1>2 DEF IndInv, SleepDown, TypeOK
<1>4. QueueInv'
  BY <1>2 DEF IndInv, SleepDown, TypeOK, QueueInv
<1>5. UnitsConserved'
  <2>1. Owners' = Owners
    BY DEF IndInv, TypeOK, SleepDown, Owners
  <2> QED BY <2>1, SameUnits DEF IndInv, SleepDown
<1>6. NoWaiterWhileFree'
  BY DEF IndInv, TypeOK, SleepDown, NoWaiterWhileFree
<1>7. KernelWaitUninterrupted' /\ KernelUpFindsSleeper'
  BY DEF IndInv, TypeOK, SleepDown, KernelWaitUninterrupted, KernelUpFindsSleeper,
         UpFindsSleeper
<1> QED BY <1>3, <1>4, <1>5, <1>6, <1>7 DEF IndInv

(* The end of down: the woken process leaves the queue, as an owner or     *)
(* interrupted.                                                            *)
LEMMA ResumeDownStep ==
    ASSUME IndInv, NEW p \in Proc, ResumeDown(p)
    PROVE  IndInv'
<1>1. /\ queue' \in Seq(Proc) /\ IsInjective(queue')
      /\ ToSet(queue') = ToSet(queue) \ {p}
  BY DelElements DEF IndInv, TypeOK, QueueInv, ResumeDown
<1>2. queue = << >> => queue' = << >>
  BY DEF ResumeDown, WaitQueueDel, InQueue
<1>3. TypeOK'
  BY <1>1 DEF IndInv, ResumeDown, TypeOK
<1>4. QueueInv'
  BY <1>1 DEF IndInv, ResumeDown, TypeOK, QueueInv
<1>5. UnitsConserved'
  <2>1. Owners' = Owners
    BY DEF IndInv, TypeOK, ResumeDown, Owners
  <2> QED BY <2>1, SameUnits DEF IndInv, ResumeDown
<1>6. NoWaiterWhileFree'
  BY <1>2 DEF IndInv, ResumeDown, NoWaiterWhileFree
<1>7. KernelWaitUninterrupted' /\ KernelUpFindsSleeper'
  BY DEF IndInv, TypeOK, ResumeDown, KernelWaitUninterrupted, KernelUpFindsSleeper,
         UpFindsSleeper
<1> QED BY <1>3, <1>4, <1>5, <1>6, <1>7 DEF IndInv

(* up by an owner: its unit goes to the first waiter or back to the count. *)
LEMMA ReleaseStep ==
    ASSUME IndInv, NEW p \in Proc, Release(p)
    PROVE  IndInv'
<1> USE DEF Release
<1>p. p \in Owners
  BY DEF Owners
<1>1. CASE ~valid
  BY <1>1 DEF IndInv, TypeOK, QueueInv, UnitsConserved, NoWaiterWhileFree,
              KernelWaitUninterrupted, KernelUpFindsSleeper, UpFindsSleeper
<1>2. CASE valid
  <2>0. Up
    BY <1>2
  <2>1. CASE /\ queue = << >> /\ value' = value + 1
             /\ UNCHANGED <<queue, runnable, wait_state, wakeup_flags, panicked>>
    <3>1. Owners' = Owners \ {p}
      BY <2>1 DEF IndInv, TypeOK, Owners
    <3>2. Cardinality(Owners') = Cardinality(Owners) - 1
      BY <1>p, <3>1, OwnerRemoved
    <3>3. UnitsConserved'
      BY <2>1, <3>2, OwnersFinite, SemAssumption DEF IndInv, TypeOK, UnitsConserved
    <3>4. TypeOK' /\ QueueInv'
      BY <2>1 DEF IndInv, TypeOK, QueueInv
    <3>5. NoWaiterWhileFree' /\ KernelWaitUninterrupted' /\ KernelUpFindsSleeper'
      BY <2>1 DEF IndInv, TypeOK, NoWaiterWhileFree, KernelWaitUninterrupted,
                  KernelUpFindsSleeper, UpFindsSleeper
    <3> QED BY <3>3, <3>4, <3>5 DEF IndInv
  <2>2. CASE /\ user /\ panicked'
             /\ UNCHANGED <<value, queue, runnable, wait_state, wakeup_flags>>
    <3>1. panicked' \in BOOLEAN
      BY <2>0 DEF Up, IndInv, TypeOK
    <3>2. TypeOK' /\ QueueInv'
      BY <2>2, <3>1 DEF IndInv, TypeOK, QueueInv
    <3> QED BY <2>2, <3>2 DEF IndInv, TypeOK, UnitsConserved, NoWaiterWhileFree,
                    KernelWaitUninterrupted, KernelUpFindsSleeper
  <2>3. ASSUME NEW h \in Proc,
               queue # << >> /\ h \in ToSet(queue) /\ pc[h] = "down",
               wakeup_flags[h] = "INTERRUPTED",
               queue' \in Seq(Proc) /\ IsInjective(queue'),
               ToSet(queue') = ToSet(queue) \ {h},
               wakeup_flags' = [wakeup_flags EXCEPT ![h] = "SEM"],
               WakeupProcs({h}),
               value' = value /\ panicked' = panicked
        PROVE  IndInv'
    <3>1. /\ runnable' = runnable \cup {h} /\ runnable' \in SUBSET Proc
          /\ wait_state' \in [Proc -> {"0", "SEM"}]
          /\ \A q \in Proc \ {h} : wait_state'[q] = wait_state[q]
      BY <2>3, WakeupType DEF IndInv
    <3>2. TypeOK'
      BY <2>3, <3>1 DEF IndInv, TypeOK
    <3>3. QueueInv'
      <4>1. \A q \in ToSet(queue') : pc'[q] = "down" /\ wakeup_flags'[q] = "INTERRUPTED"
        BY <2>3 DEF IndInv, TypeOK, QueueInv
      <4>2. ~user => \A q \in ToSet(queue') : wait_state'[q] = "SEM"
        <5>1. \A q \in ToSet(queue') : q \in Proc \ {h} /\ q \in ToSet(queue)
          BY <2>3, TailElements DEF IndInv, TypeOK, QueueInv
        <5> QED BY <3>1, <5>1 DEF IndInv, QueueInv
      <4> QED BY <2>3, <4>1, <4>2 DEF IndInv, QueueInv
    <3>4. UnitsConserved'
      <4>1. h \notin Owners /\ h # p /\ Owners' = (Owners \ {p}) \cup {h}
        BY <2>3 DEF IndInv, TypeOK, Owners
      <4>2. /\ IsFiniteSet(Owners \ {p})
            /\ Cardinality(Owners \ {p}) = Cardinality(Owners) - 1
        BY <1>p, OwnersFinite, FS_RemoveElement
      <4>3. Cardinality((Owners \ {p}) \cup {h}) = Cardinality(Owners \ {p}) + 1
        BY <4>1, <4>2, FS_AddElement
      <4>4. Cardinality(Owners') = Cardinality(Owners)
        BY <4>1, <4>2, <4>3, OwnersFinite
      <4> QED BY <2>3, <4>4 DEF IndInv, UnitsConserved
    <3>5. NoWaiterWhileFree'
      BY <2>3 DEF IndInv, TypeOK, NoWaiterWhileFree
    <3>6. KernelWaitUninterrupted' /\ KernelUpFindsSleeper'
      BY <2>3, <3>1 DEF IndInv, TypeOK, KernelWaitUninterrupted, KernelUpFindsSleeper,
                        UpFindsSleeper
    <3> QED BY <3>2, <3>3, <3>4, <3>5, <3>6 DEF IndInv
  <2> QED BY <2>0, <2>1, <2>2, <2>3, UpCases
<1> QED BY <1>1, <1>2

(* up by a process that owns nothing: a new unit.                          *)
LEMMA PostStep ==
    ASSUME IndInv, NEW p \in Proc, Post(p)
    PROVE  IndInv'
<1> USE DEF Post
<1>0. /\ Up /\ posted' \in 0 .. MaxPost /\ posted' = posted + 1
      /\ posted \in Nat /\ InitValue \in Nat
  BY SemAssumption DEF IndInv, TypeOK
<1>1. CASE /\ queue = << >> /\ value' = value + 1
           /\ UNCHANGED <<queue, runnable, wait_state, wakeup_flags, panicked>>
  <2>1. Owners' = Owners
    BY <1>1 DEF IndInv, TypeOK, Owners
  <2>2. UnitsConserved'
    BY <1>0, <1>1, <2>1, OwnersFinite DEF IndInv, TypeOK, UnitsConserved
  <2>3. TypeOK' /\ QueueInv'
    BY <1>0, <1>1 DEF IndInv, TypeOK, QueueInv
  <2>4. NoWaiterWhileFree' /\ KernelWaitUninterrupted' /\ KernelUpFindsSleeper'
    BY <1>1 DEF IndInv, TypeOK, NoWaiterWhileFree, KernelWaitUninterrupted,
                KernelUpFindsSleeper, UpFindsSleeper
  <2> QED BY <2>2, <2>3, <2>4 DEF IndInv
<1>2. CASE /\ user /\ panicked'
           /\ UNCHANGED <<value, queue, runnable, wait_state, wakeup_flags>>
  <2>1. panicked' \in BOOLEAN
    BY <1>0 DEF Up, IndInv, TypeOK
  <2>2. TypeOK' /\ QueueInv'
    BY <1>0, <1>2, <2>1 DEF IndInv, TypeOK, QueueInv
  <2> QED BY <1>2, <2>2 DEF IndInv, TypeOK, UnitsConserved, NoWaiterWhileFree,
                  KernelWaitUninterrupted, KernelUpFindsSleeper
<1>3. ASSUME NEW h \in Proc,
             queue # << >> /\ h \in ToSet(queue) /\ pc[h] = "down",
             wakeup_flags[h] = "INTERRUPTED",
             queue' \in Seq(Proc) /\ IsInjective(queue'),
             ToSet(queue') = ToSet(queue) \ {h},
             wakeup_flags' = [wakeup_flags EXCEPT ![h] = "SEM"],
             WakeupProcs({h}),
             value' = value /\ panicked' = panicked
      PROVE  IndInv'
  <2>1. /\ runnable' = runnable \cup {h} /\ runnable' \in SUBSET Proc
        /\ wait_state' \in [Proc -> {"0", "SEM"}]
    BY <1>3, WakeupType DEF IndInv
  <2>2. TypeOK'
    BY <1>0, <1>3, <2>1 DEF IndInv, TypeOK
  <2>3. QueueInv'
    BY <1>3 DEF IndInv, TypeOK, QueueInv
  <2>4. UnitsConserved'
    <3>1. h \notin Owners /\ Owners' = Owners \cup {h}
      BY <1>3 DEF IndInv, TypeOK, Owners
    <3>2. Cardinality(Owners') = Cardinality(Owners) + 1
      BY <3>1, OwnerAdded
    <3> QED BY <1>0, <1>3, <3>2, OwnersFinite DEF IndInv, TypeOK, UnitsConserved
  <2>5. NoWaiterWhileFree' /\ KernelWaitUninterrupted' /\ KernelUpFindsSleeper'
    BY <1>3 DEF IndInv, TypeOK, NoWaiterWhileFree, KernelWaitUninterrupted,
                KernelUpFindsSleeper
  <2> QED BY <2>2, <2>3, <2>4, <2>5 DEF IndInv
<1> QED BY <1>0, <1>1, <1>2, <1>3, UpCases

(* sem_free: every waiter is woken as interrupted.                         *)
LEMMA SemFreeStep ==
    ASSUME IndInv, NEW p \in Proc, SemFree(p)
    PROVE  IndInv'
<1> USE DEF SemFree
<1>1. /\ runnable' \in SUBSET Proc /\ wait_state' \in [Proc -> {"0", "SEM"}]
  BY WakeupType DEF IndInv
<1>2. TypeOK'
  BY <1>1, EmptyElements DEF IndInv, TypeOK
<1>3. QueueInv'
  BY EmptyElements DEF QueueInv
<1> QED BY <1>2, <1>3 DEF IndInv, UnitsConserved, NoWaiterWhileFree,
                KernelWaitUninterrupted, KernelUpFindsSleeper

(* run_timer_list and __do_kill wake a process and leave the queue alone;  *)
(* they reach a waiter of a user semaphore only.                           *)
LEMMA WakeStep ==
    ASSUME IndInv, NEW ps \in SUBSET Proc, WakeupProcs(ps), user \/ ps = {},
           timer' \in SUBSET timer, killed' \in SUBSET Proc,
           UNCHANGED <<user, value, valid, queue, wakeup_flags, pc, posted, panicked>>
    PROVE  IndInv'
<1>1. /\ runnable' \in SUBSET Proc /\ wait_state' \in [Proc -> {"0", "SEM"}]
      /\ runnable' = runnable \cup ps
  BY WakeupType DEF IndInv
<1>2. TypeOK'
  BY <1>1 DEF IndInv, TypeOK
<1>3. QueueInv'
  <2>1. ~user => \A q \in Proc : wait_state'[q] = wait_state[q]
    BY DEF IndInv, TypeOK, WakeupProcs
  <2>2. ToSet(queue) \subseteq Proc
    BY DEF IndInv, TypeOK, ToSet
  <2> QED BY <2>1, <2>2 DEF IndInv, QueueInv
<1>4. UnitsConserved'
  BY SameUnits DEF IndInv, Owners
<1>5. NoWaiterWhileFree' /\ KernelWaitUninterrupted' /\ KernelUpFindsSleeper'
  BY <1>1 DEF IndInv, NoWaiterWhileFree, KernelWaitUninterrupted, KernelUpFindsSleeper,
              UpFindsSleeper
<1> QED BY <1>2, <1>3, <1>4, <1>5 DEF IndInv

(* Every step of every process keeps the invariant.                        *)
LEMMA NextIndInv == IndInv /\ [Next]_vars => IndInv'
<1> SUFFICES ASSUME IndInv, [Next]_vars PROVE IndInv'
  OBVIOUS
<1>1. CASE UNCHANGED vars
  BY <1>1 DEF vars, IndInv, TypeOK, QueueInv, UnitsConserved, Owners, NoWaiterWhileFree,
              KernelWaitUninterrupted, KernelUpFindsSleeper, UpFindsSleeper
<1>2. ASSUME NEW p \in Proc, Timeout(p) PROVE IndInv'
  BY <1>2, WakeStep DEF Timeout, IndInv, TypeOK, QueueInv
<1>3. ASSUME NEW p \in Proc, Kill(p) PROVE IndInv'
  BY <1>3, WakeStep DEF Kill, IndInv, TypeOK
<1> QED
  BY <1>1, <1>2, <1>3, TakeDownStep, SleepDownStep, ResumeDownStep, ReleaseStep,
     PostStep, SemFreeStep DEF Next

-----------------------------------------------------------------------------
(* However posts, timeouts, kills and frees race with the waiters, value   *)
(* and the units owned add up, no waiter is left while a unit is free, and *)
(* for a kernel semaphore the assertions of down and __up hold.            *)
THEOREM SemaphoreSound == Spec => []SemSound
<1>1. IndInv => SemSound
  BY DEF SemSound, IndInv
<1> QED BY <1>1, InitIndInv, NextIndInv, PTL DEF Spec

(* One step of __up hands the unit to the first of the queue.              *)
LEMMA UpInOrder ==
    ASSUME IndInv, Up
    PROVE  ServedInOrder
<1>0. queue \in Seq(Proc) /\ IsInjective(queue) /\ value \in Nat
  BY DEF IndInv, TypeOK, QueueInv
<1>1. CASE UNCHANGED <<queue, wakeup_flags>>
  <2>1. value' >= value
    BY <1>0, <1>1 DEF Up
  <2> QED BY <1>0, <1>1, <2>1 DEF ServedInOrder, Up
<1>2. CASE ~UNCHANGED <<queue, wakeup_flags>>
  <2>1. /\ queue # << >> /\ queue' = Tail(queue) /\ value' = value
        /\ wakeup_flags' = [wakeup_flags EXCEPT ![Head(queue)] = "SEM"]
    BY <1>2 DEF Up
  <2>2. ToSet(queue') = ToSet(queue) \ {Head(queue)}
    BY <1>0, <2>1, TailElements
  <2>3. \A a, b \in ToSet(queue') : Before(queue, a, b) => Before(queue', a, b)
    BY <1>0, <2>1, <2>2, TailOrder
  <2>4. \A p \in Proc : wakeup_flags[p] # "SEM" /\ wakeup_flags'[p] = "SEM" => p = Head(queue)
    BY <2>1 DEF IndInv, TypeOK
  <2>5. ~(value' < value)
    BY <1>0, <2>1
  <2> QED BY <2>1, <2>3, <2>4, <2>5 DEF ServedInOrder
<1> QED BY <1>1, <1>2

(* No step of any process serves the waiters out of order.                 *)
LEMMA StepInOrder ==
    ASSUME IndInv, [Next]_vars
    PROVE  ServedInOrder
<1>0. queue \in Seq(Proc) /\ IsInjective(queue) /\ value \in Nat
  BY DEF IndInv, TypeOK, QueueInv
<1>1. ASSUME UNCHANGED <<value, queue, wakeup_flags>> PROVE ServedInOrder
  BY <1>0, <1>1 DEF ServedInOrder
<1>2. ASSUME NEW p \in Proc, TakeDown(p) PROVE ServedInOrder
  <2>1. UNCHANGED <<queue, wakeup_flags>> /\ value > 0
    BY <1>2 DEF TakeDown, procVars
  <2>2. queue = << >>
    BY <2>1 DEF IndInv, NoWaiterWhileFree
  <2> QED BY <2>1, <2>2 DEF ServedInOrder
<1>3. ASSUME NEW p \in Proc, NEW timeout \in BOOLEAN, SleepDown(p, timeout) PROVE ServedInOrder
  <2>1. /\ queue' = Append(queue, p) /\ value' = value
        /\ wakeup_flags' = [wakeup_flags EXCEPT ![p] = "INTERRUPTED"]
    BY <1>3 DEF SleepDown
  <2>2. \A a, b \in ToSet(queue') : Before(queue, a, b) => Before(queue', a, b)
    BY <1>0, <2>1, AppendOrder
  <2>3. \A q \in Proc : ~(wakeup_flags[q] # "SEM" /\ wakeup_flags'[q] = "SEM")
    BY <2>1 DEF IndInv, TypeOK
  <2>4. ~(value' < value)
    BY <1>0, <2>1
  <2> QED BY <2>2, <2>3, <2>4 DEF ServedInOrder
<1>4. ASSUME NEW p \in Proc, ResumeDown(p) PROVE ServedInOrder
  <2>1. queue' = WaitQueueDel(queue, p) /\ UNCHANGED <<value, wakeup_flags>>
    BY <1>4 DEF ResumeDown
  <2>2. ToSet(queue') = ToSet(queue) \ {p}
    BY <1>0, <2>1, DelElements
  <2>3. \A a, b \in ToSet(queue') : Before(queue, a, b) => Before(queue', a, b)
    BY <1>0, <2>1, <2>2, DelOrder
  <2>4. ~(value' < value)
    BY <1>0, <2>1
  <2> QED BY <2>1, <2>3, <2>4 DEF ServedInOrder
<1>5. ASSUME NEW p \in Proc, SemFree(p) PROVE ServedInOrder
  <2>1. /\ queue' = << >> /\ value' = value
        /\ wakeup_flags' = [q \in Proc |-> IF InQueue(queue, q) THEN "INTERRUPTED" ELSE wakeup_flags[q]]
    BY <1>5 DEF SemFree
  <2>2. ToSet(queue') = {}
    BY <2>1, EmptyElements
  <2>3. \A q \in Proc : ~(wakeup_flags[q] # "SEM" /\ wakeup_flags'[q] = "SEM")
    BY <2>1
  <2>4. ~(value' < value)
    BY <1>0, <2>1
  <2> QED BY <2>2, <2>3, <2>4 DEF ServedInOrder
<1>6. ASSUME NEW p \in Proc, Release(p) \/ Post(p) PROVE ServedInOrder
  BY <1>1, <1>6, UpInOrder DEF Release, Post
<1>7. ASSUME NEW p \in Proc, Timeout(p) \/ Kill(p) PROVE ServedInOrder
  BY <1>1, <1>7 DEF Timeout, Kill
<1>8. CASE UNCHANGED vars
  BY <1>1, <1>8 DEF vars
<1> QED BY <1>2, <1>3, <1>4, <1>5, <1>6, <1>7, <1>8 DEF Next

(* down and __up serve the waiters in the order they came, whichever of    *)
(* them time out or are killed on the way.                                 *)
THEOREM FirstComeFirstServed == Spec => [][ServedInOrder]_vars
<1>1. IndInv /\ [Next]_vars => [ServedInOrder]_vars
  BY StepInOrder
<1> QED BY <1>1, InitIndInv, NextIndInv, PTL DEF Spec

-----------------------------------------------------------------------------
(* Timers.  What a recursive definition computes is shown by induction     *)
(* over the set of the numbers for which it does: such a set, if it is not *)
(* all of Nat, has a least number missing, as < is well-founded.           *)

(* A timer_t: its process and its delta.                                   *)
Timers == [proc : Sleeper, expires : Nat]

(* A set of naturals that is not empty has a least member.                 *)
LEMMA LeastNatural ==
    ASSUME NEW S \in SUBSET Nat, S # {}
    PROVE  \E n \in S : \A m \in S : n <= m
<1>1. PICK n \in S : \A y \in S : ~(<<y, n>> \in OpToRel(<, Nat))
  BY NatLessThanWellFounded, WFMin
<1>2. \A y \in S : ~(y < n)
  BY <1>1 DEF OpToRel
<1> QED BY <1>2

(* Induction over the naturals, for the set where a formula holds.         *)
LEMMA SetInduction ==
    ASSUME NEW S \in SUBSET Nat, 0 \in S, \A n \in S : n + 1 \in S
    PROVE  S = Nat
<1> SUFFICES ASSUME S # Nat PROVE FALSE
  OBVIOUS
<1>1. PICK n \in Nat \ S : \A m \in Nat \ S : n <= m
  BY LeastNatural
<1>2. n # 0 /\ n - 1 \in Nat
  BY <1>1
<1>3. n - 1 \in S
  BY <1>1, <1>2
<1> QED BY <1>1, <1>3

(* What Min of the library returns.                                        *)
LEMMA LeastChosen ==
    ASSUME NEW S \in SUBSET Nat, S # {}
    PROVE  T!Min(S) \in S /\ \A m \in S : T!Min(S) <= m
BY LeastNatural DEF T!Min

(* The sums of the deltas exist: the recursion of Expiry is well-founded.  *)
LEMMA ExpiryExists ==
    ASSUME NEW list, NEW k \in Nat
    PROVE  \E at : at = [i \in 0 .. k |-> IF i = 0 THEN 0 ELSE at[i - 1] + list[i].expires]
<1> DEFINE F(at, m) == at = [i \in 0 .. m |-> IF i = 0 THEN 0 ELSE at[i - 1] + list[i].expires]
           S == {m \in Nat : \E at : F(at, m)}
<1>1. 0 \in S
  <2>1. F([i \in 0 .. 0 |-> 0], 0)
    OBVIOUS
  <2> QED BY <2>1
<1>2. ASSUME NEW m \in S PROVE m + 1 \in S
  <2>1. PICK at : F(at, m)
    BY <1>2
  <2> DEFINE g == [i \in 0 .. m + 1 |-> IF i <= m THEN at[i] ELSE at[m] + list[m + 1].expires]
  <2>2. F(g, m + 1)
    BY <2>1
  <2>3. m + 1 \in Nat
    OBVIOUS
  <2> HIDE DEF F, g
  <2> QED BY <2>2, <2>3
<1>3. S = Nat
  <2>1. S \in SUBSET Nat
    OBVIOUS
  <2> HIDE DEF S
  <2> QED BY <1>1, <1>2, <2>1, SetInduction
<1> QED BY <1>3

(* Expiry adds up the deltas.                                              *)
LEMMA ExpirySteps ==
    ASSUME NEW list, Len(list) \in Nat
    PROVE  /\ T!Expiry(list)[0] = 0
           /\ \A i \in 1 .. Len(list) :
                T!Expiry(list)[i] = T!Expiry(list)[i - 1] + list[i].expires
<1> DEFINE E0 == T!Expiry(list)
<1>1. E0 = [i \in 0 .. Len(list) |-> IF i = 0 THEN 0 ELSE E0[i - 1] + list[i].expires]
  BY ExpiryExists DEF T!Expiry
<1> HIDE DEF E0
<1>2. E0[0] = 0 /\ \A i \in 1 .. Len(list) : E0[i] = E0[i - 1] + list[i].expires
  BY <1>1
<1> QED BY <1>2 DEF E0

(* And it is the only function that does.                                  *)
LEMMA ExpiryUnique ==
    ASSUME NEW list, Len(list) \in Nat, NEW f, f[0] = 0,
           \A i \in 1 .. Len(list) : f[i] = f[i - 1] + list[i].expires
    PROVE  \A i \in 0 .. Len(list) : T!Expiry(list)[i] = f[i]
<1> DEFINE S == {i \in Nat : i <= Len(list) => T!Expiry(list)[i] = f[i]}
<1>1. 0 \in S
  BY ExpirySteps
<1>2. ASSUME NEW i \in S PROVE i + 1 \in S
  <2>1. i + 1 \in Nat /\ i \in Nat /\ (i + 1) - 1 = i
    BY <1>2
  <2>2. ASSUME i + 1 <= Len(list) PROVE T!Expiry(list)[i + 1] = f[i + 1]
    <3>1. i + 1 \in 1 .. Len(list) /\ T!Expiry(list)[i] = f[i]
      BY <1>2, <2>1, <2>2
    <3> QED BY <2>1, <3>1, ExpirySteps
  <2> QED BY <2>1, <2>2
<1>3. S = Nat
  <2>1. S \in SUBSET Nat
    OBVIOUS
  <2> HIDE DEF S
  <2> QED BY <1>1, <1>2, <2>1, SetInduction
<1> QED BY <1>3

(* The entries of a list of timers.                                        *)
LEMMA TimerFields ==
    ASSUME NEW list \in Seq(Timers)
    PROVE  /\ Len(list) \in Nat /\ DOMAIN list = 1 .. Len(list)
           /\ \A i \in 1 .. Len(list) :
                list[i] \in Timers /\ list[i].expires \in Nat /\ list[i].proc \in Sleeper
<1>1. \A i \in 1 .. Len(list) : list[i] \in Timers
  OBVIOUS
<1>2. \A t \in Timers : t.expires \in Nat /\ t.proc \in Sleeper
  BY DEF Timers
<1> QED BY <1>1, <1>2

(* The deltas are not negative, so the timers expire in the order of the   *)
(* list.                                                                   *)
LEMMA ExpiryGrows ==
    ASSUME NEW list \in Seq(Timers)
    PROVE  /\ \A i \in 0 .. Len(list) : T!Expiry(list)[i] \in Nat
           /\ \A i, j \in 0 .. Len(list) : i <= j => T!Expiry(list)[i] <= T!Expiry(list)[j]
<1>0. Len(list) \in Nat /\ \A i \in 1 .. Len(list) : list[i].expires \in Nat
  BY TimerFields
<1> DEFINE E0 == T!Expiry(list)
           S == {j \in Nat : j <= Len(list) => \A i \in 0 .. j : E0[i] \in Nat /\ E0[i] <= E0[j]}
<1>1. E0[0] = 0 /\ \A i \in 1 .. Len(list) : E0[i] = E0[i - 1] + list[i].expires
  BY <1>0, ExpirySteps
<1> HIDE DEF E0
<1>2. 0 \in S
  BY <1>1
<1>3. ASSUME NEW j \in S PROVE j + 1 \in S
  <2>1. j + 1 \in Nat /\ j \in Nat /\ (j + 1) - 1 = j
    BY <1>3
  <2>2. ASSUME j + 1 <= Len(list) PROVE \A i \in 0 .. j + 1 : E0[i] \in Nat /\ E0[i] <= E0[j + 1]
    <3>1. j + 1 \in 1 .. Len(list) /\ \A i \in 0 .. j : E0[i] \in Nat /\ E0[i] <= E0[j]
      BY <1>0, <1>3, <2>1, <2>2
    <3>2. E0[j + 1] = E0[j] + list[j + 1].expires /\ list[j + 1].expires \in Nat
      BY <1>0, <1>1, <2>1, <3>1
    <3> QED BY <2>1, <3>1, <3>2
  <2> QED BY <2>1, <2>2
<1>4. S = Nat
  <2>1. S \in SUBSET Nat
    OBVIOUS
  <2> HIDE DEF S
  <2> QED BY <1>2, <1>3, <2>1, SetInduction
<1> QED BY <1>0, <1>4 DEF E0

(* A function over 1 .. n is a sequence of length n.                       *)
LEMMA TableIsSeq ==
    ASSUME NEW S, NEW n \in Nat, NEW f \in [1 .. n -> S]
    PROVE  f \in Seq(S) /\ Len(f) = n
OBVIOUS

(* Where SelectInSeq finds the timer of a process.                         *)
LEMMA PositionFound ==
    ASSUME NEW list \in Seq(Timers), NEW p
    PROVE  /\ T!Position(list, p) \in 0 .. Len(list)
           /\ T!Position(list, p) # 0 => list[T!Position(list, p)].proc = p
           /\ T!Position(list, p) = 0 => \A i \in 1 .. Len(list) : list[i].proc # p
<1> DEFINE I == {i \in 1 .. Len(list) : list[i].proc = p}
<1>1. T!Position(list, p) = IF I # {} THEN T!Min(I) ELSE 0
  BY DEF T!Position, T!SelectInSeq
<1>2. I \in SUBSET Nat /\ Len(list) \in Nat
  OBVIOUS
<1>3. I # {} => T!Min(I) \in I
  BY <1>2, LeastChosen
<1> QED BY <1>1, <1>2, <1>3

(* The list new is list with a timer of p, due in k ticks, at n + 1.       *)
Added(list, new, p, k, n) ==
    /\ Len(new) = Len(list) + 1
    /\ \A j \in 1 .. Len(new) :
         /\ new[j].proc = IF j <= n THEN list[j].proc
                          ELSE IF j = n + 1 THEN p ELSE list[j - 1].proc
         /\ T!Expiry(new)[j] = IF j <= n THEN T!Expiry(list)[j]
                               ELSE IF j = n + 1 THEN k ELSE T!Expiry(list)[j - 1]

(* add_timer: where the new timer goes, and that every timer, the new one  *)
(* too, expires when it should.                                            *)
LEMMA AddTimerKeeps ==
    ASSUME NEW list \in Seq(Timers), NEW p \in Sleeper, NEW k \in Nat \ {0},
           NEW new, new = T!AddTimer(list, [proc |-> p, expires |-> k]),
           list # << >> => list[1].expires > 0
    PROVE  /\ new \in Seq(Timers) /\ new[1].expires > 0
           /\ \E n \in 0 .. Len(list) : Added(list, new, p, k, n)
<1> DEFINE X == T!Expiry(list)
           t == [proc |-> p, expires |-> k]
           I == {i \in 0 .. Len(list) : i = Len(list) \/ k - X[i] < list[i + 1].expires}
           n == T!Min(I)
           r == k - X[n]
<1>1. /\ Len(list) \in Nat
      /\ \A i \in 1 .. Len(list) : list[i] \in Timers /\ list[i].expires \in Nat /\ list[i].proc \in Sleeper
  BY TimerFields
<1>2. X[0] = 0 /\ (\A i \in 0 .. Len(list) : X[i] \in Nat)
      /\ \A i \in 1 .. Len(list) : X[i] = X[i - 1] + list[i].expires
  BY <1>1, ExpirySteps, ExpiryGrows
<1>3. new = [j \in 1 .. Len(list) + 1 |->
               IF j <= n THEN list[j]
               ELSE IF j = n + 1 THEN [t EXCEPT !.expires = r]
               ELSE IF j = n + 2 THEN [list[n + 1] EXCEPT !.expires = @ - r]
               ELSE list[j - 1]]
  BY DEF T!AddTimer
<1> HIDE DEF X
<1>4. n \in I /\ \A m \in I : n <= m
  <2>1. Len(list) \in I /\ I \in SUBSET Nat
    BY <1>1
  <2> HIDE DEF I
  <2> QED BY <2>1, LeastChosen
<1> HIDE DEF n
<1>5. n \in 0 .. Len(list) /\ n \in Nat /\ (n = Len(list) \/ r < list[n + 1].expires)
  BY <1>4
<1>6. r \in Nat
  <2>1. CASE n = 0
    BY <1>2, <2>1
  <2>2. CASE n # 0
    <3>1. n - 1 \in 0 .. Len(list) /\ n - 1 # Len(list) /\ n \in 1 .. Len(list) /\ (n - 1) + 1 = n
      BY <1>1, <1>5, <2>2
    <3>2. n - 1 \notin I
      BY <1>4, <1>5, <3>1
    <3>3. ~(k - X[n - 1] < list[n].expires)
      BY <3>1, <3>2
    <3>4. X[n] = X[n - 1] + list[n].expires /\ X[n - 1] \in Nat /\ list[n].expires \in Nat
      BY <1>1, <1>2, <3>1
    <3> QED BY <3>3, <3>4
  <2> QED BY <2>1, <2>2
<1> HIDE DEF I
<1>7. \A j \in 1 .. Len(list) + 1 :
        /\ new[j] \in Timers
        /\ new[j].proc = IF j <= n THEN list[j].proc ELSE IF j = n + 1 THEN p ELSE list[j - 1].proc
        /\ new[j].expires = IF j <= n THEN list[j].expires ELSE IF j = n + 1 THEN r
                            ELSE IF j = n + 2 THEN list[n + 1].expires - r ELSE list[j - 1].expires
  <2> SUFFICES ASSUME NEW j \in 1 .. Len(list) + 1
               PROVE  /\ new[j] \in Timers
                      /\ new[j].proc = IF j <= n THEN list[j].proc ELSE IF j = n + 1 THEN p ELSE list[j - 1].proc
                      /\ new[j].expires = IF j <= n THEN list[j].expires ELSE IF j = n + 1 THEN r
                            ELSE IF j = n + 2 THEN list[n + 1].expires - r ELSE list[j - 1].expires
    OBVIOUS
  <2>1. CASE j <= n
    BY <1>1, <1>3, <1>5, <2>1
  <2>2. CASE j = n + 1
    <3>1. new[j] = [proc |-> p, expires |-> r]
      BY <1>3, <1>5, <2>2
    <3> HIDE DEF r
    <3> QED BY <1>5, <1>6, <2>2, <3>1 DEF Timers
  <2>3. CASE j = n + 2
    <3>1. n + 1 \in 1 .. Len(list) /\ j - 1 = n + 1 /\ ~(j <= n) /\ j # n + 1
      BY <1>1, <1>5, <2>3
    <3>2. new[j] = [list[n + 1] EXCEPT !.expires = @ - r] /\ r < list[n + 1].expires
      BY <1>1, <1>3, <1>5, <2>3, <3>1
    <3>3. list[n + 1] \in [proc : Sleeper, expires : Nat]
      BY <1>1, <3>1 DEF Timers
    <3> HIDE DEF r
    <3>4. new[j] = [proc |-> list[n + 1].proc, expires |-> list[n + 1].expires - r]
      BY <3>2, <3>3
    <3>5. list[n + 1].expires - r \in Nat
      BY <1>6, <3>2, <3>3
    <3> QED BY <2>3, <3>1, <3>3, <3>4, <3>5 DEF Timers
  <2>4. CASE j > n + 2
    <3>1. j - 1 \in 1 .. Len(list) /\ ~(j <= n) /\ j # n + 1 /\ j # n + 2
      BY <1>1, <1>5, <2>4
    <3>2. new[j] = list[j - 1]
      BY <1>3, <3>1
    <3> QED BY <1>1, <3>1, <3>2
  <2> QED BY <1>5, <2>1, <2>2, <2>3, <2>4
<1>8. new \in Seq(Timers) /\ Len(new) = Len(list) + 1
  <2>1. Len(list) + 1 \in Nat /\ new \in [1 .. Len(list) + 1 -> Timers]
    BY <1>1, <1>3, <1>7
  <2> QED BY <2>1, TableIsSeq
<1>9. new[1].expires > 0
  <2>1. 1 \in 1 .. Len(list) + 1
    BY <1>1
  <2>2. CASE n = 0
    BY <1>2, <1>7, <2>1, <2>2
  <2>3. CASE n # 0
    <3>1. 1 <= n /\ 1 \in 1 .. Len(list)
      BY <1>1, <1>5, <2>3
    <3>2. list # << >>
      BY <3>1
    <3> QED BY <1>7, <2>1, <3>1, <3>2
  <2> QED BY <2>2, <2>3
<1> DEFINE f == [j \in 0 .. Len(new) |-> IF j <= n THEN X[j] ELSE IF j = n + 1 THEN k ELSE X[j - 1]]
<1>10. \A j \in 0 .. Len(new) : T!Expiry(new)[j] = f[j]
  <2>1. f[0] = 0
    BY <1>2, <1>5, <1>8
  <2>2. ASSUME NEW j \in 1 .. Len(new) PROVE f[j] = f[j - 1] + new[j].expires
    <3>1. j \in 1 .. Len(list) + 1 /\ j - 1 \in 0 .. Len(new) /\ j \in 0 .. Len(new)
      BY <1>1, <1>8
    <3>2. CASE j <= n
      <4>1. j \in 1 .. Len(list) /\ j - 1 <= n
        BY <1>1, <1>5, <3>1, <3>2
      <4>2. f[j] = X[j] /\ f[j - 1] = X[j - 1]
        BY <3>1, <3>2, <4>1
      <4> QED BY <1>2, <1>7, <3>1, <3>2, <4>1, <4>2
    <3>3. CASE j = n + 1
      <4>1. f[j] = k /\ f[j - 1] = X[n] /\ new[j].expires = r
        BY <1>5, <1>7, <3>1, <3>3
      <4> QED BY <1>2, <1>5, <4>1
    <3>4. CASE j = n + 2
      <4>1. n + 1 \in 1 .. Len(list) /\ (n + 1) - 1 = n
        BY <1>1, <1>5, <3>1, <3>4
      <4>2. f[j] = X[n + 1] /\ f[j - 1] = k /\ new[j].expires = list[n + 1].expires - r
        BY <1>5, <1>7, <3>1, <3>4
      <4>3. X[n + 1] = X[n] + list[n + 1].expires /\ X[n] \in Nat
        BY <1>2, <1>5, <4>1
      <4>4. list[n + 1].expires \in Nat
        BY <1>1, <4>1
      <4> QED BY <4>2, <4>3, <4>4
    <3>5. CASE j > n + 2
      <4>1. j - 1 \in 1 .. Len(list) /\ ~(j <= n) /\ j # n + 1 /\ j # n + 2
            /\ ~(j - 1 <= n) /\ j - 1 # n + 1
        BY <1>1, <1>5, <3>1, <3>5
      <4>2. f[j] = X[j - 1] /\ f[j - 1] = X[(j - 1) - 1] /\ new[j].expires = list[j - 1].expires
        BY <1>7, <3>1, <4>1
      <4> QED BY <1>2, <4>1, <4>2
    <3> QED BY <1>5, <3>1, <3>2, <3>3, <3>4, <3>5
  <2> HIDE DEF f
  <2>3. Len(new) \in Nat
    BY <1>1, <1>8
  <2> QED BY <2>1, <2>2, <2>3, ExpiryUnique
<1>11. \A j \in 1 .. Len(new) : T!Expiry(new)[j] = IF j <= n THEN X[j] ELSE IF j = n + 1 THEN k ELSE X[j - 1]
  BY <1>1, <1>8, <1>10
<1> HIDE DEF f, r
<1>12. Added(list, new, p, k, n)
  BY <1>7, <1>8, <1>11 DEF X, Added
<1> QED BY <1>5, <1>8, <1>9, <1>12

(* del_timer: the timers that stay expire when they did before.            *)
LEMMA DelTimerKeeps ==
    ASSUME NEW list \in Seq(Timers), NEW p, NEW new, new = T!DelTimer(list, p),
           T!Position(list, p) # 0, list[1].expires > 0
    PROVE  \E i \in 1 .. Len(list) :
             /\ list[i].proc = p
             /\ new \in Seq(Timers) /\ Len(new) = Len(list) - 1
             /\ new # << >> => new[1].expires > 0
             /\ \A j \in 1 .. Len(new) :
                  /\ new[j].proc = IF j < i THEN list[j].proc ELSE list[j + 1].proc
                  /\ T!Expiry(new)[j] = IF j < i THEN T!Expiry(list)[j] ELSE T!Expiry(list)[j + 1]
<1> DEFINE X == T!Expiry(list)
           i == T!Position(list, p)
<1>1. /\ Len(list) \in Nat
      /\ \A j \in 1 .. Len(list) : list[j] \in Timers /\ list[j].expires \in Nat /\ list[j].proc \in Sleeper
  BY TimerFields
<1>2. X[0] = 0 /\ (\A j \in 0 .. Len(list) : X[j] \in Nat)
      /\ \A j \in 1 .. Len(list) : X[j] = X[j - 1] + list[j].expires
  BY <1>1, ExpirySteps, ExpiryGrows
<1>3. i \in 0 .. Len(list) /\ i # 0 /\ list[i].proc = p
  BY PositionFound
<1>4. new = [j \in 1 .. Len(list) - 1 |->
               IF j < i THEN list[j]
               ELSE IF j = i THEN [list[j + 1] EXCEPT !.expires = @ + list[i].expires]
               ELSE list[j + 1]]
  BY DEF T!DelTimer
<1> HIDE DEF X, i
<1>5. i \in 1 .. Len(list) /\ Len(list) - 1 \in Nat /\ list[i].expires \in Nat
  BY <1>1, <1>3
<1>6. \A j \in 1 .. Len(list) - 1 :
        /\ new[j] \in Timers
        /\ new[j].proc = IF j < i THEN list[j].proc ELSE list[j + 1].proc
        /\ new[j].expires = IF j < i THEN list[j].expires
                            ELSE IF j = i THEN list[j + 1].expires + list[i].expires
                            ELSE list[j + 1].expires
  <2> SUFFICES ASSUME NEW j \in 1 .. Len(list) - 1
               PROVE  /\ new[j] \in Timers
                      /\ new[j].proc = IF j < i THEN list[j].proc ELSE list[j + 1].proc
                      /\ new[j].expires = IF j < i THEN list[j].expires
                                          ELSE IF j = i THEN list[j + 1].expires + list[i].expires
                                          ELSE list[j + 1].expires
    OBVIOUS
  <2>0. j \in 1 .. Len(list) /\ j + 1 \in 1 .. Len(list)
    BY <1>1
  <2>1. CASE j < i
    BY <1>1, <1>4, <1>5, <2>0, <2>1
  <2>2. CASE j = i
    <3>1. new[j] = [list[j + 1] EXCEPT !.expires = @ + list[i].expires]
      BY <1>4, <1>5, <2>2
    <3>2. list[j + 1] \in [proc : Sleeper, expires : Nat]
      BY <1>1, <2>0 DEF Timers
    <3>3. new[j] = [proc |-> list[j + 1].proc, expires |-> list[j + 1].expires + list[i].expires]
      BY <3>1, <3>2
    <3>4. list[j + 1].expires + list[i].expires \in Nat
      BY <1>5, <3>2
    <3> QED BY <1>5, <2>2, <3>2, <3>3, <3>4 DEF Timers
  <2>3. CASE j > i
    BY <1>1, <1>4, <1>5, <2>0, <2>3
  <2> QED BY <1>5, <2>1, <2>2, <2>3
<1>7. new \in Seq(Timers) /\ Len(new) = Len(list) - 1
  <2>1. new \in [1 .. Len(list) - 1 -> Timers]
    BY <1>4, <1>6
  <2> QED BY <1>5, <2>1, TableIsSeq
<1>8. new # << >> => new[1].expires > 0
  <2> SUFFICES ASSUME new # << >> PROVE new[1].expires > 0
    OBVIOUS
  <2>1. 1 \in 1 .. Len(list) - 1 /\ 1 \in 1 .. Len(list) /\ 2 \in 1 .. Len(list)
    BY <1>1, <1>5, <1>7
  <2>2. CASE 1 < i
    BY <1>6, <2>1, <2>2
  <2>3. CASE i = 1
    <3>1. new[1].expires = list[2].expires + list[1].expires
      BY <1>6, <2>1, <2>3
    <3> QED BY <1>1, <2>1, <3>1
  <2> QED BY <1>5, <2>2, <2>3
<1> DEFINE f == [j \in 0 .. Len(new) |-> IF j < i THEN X[j] ELSE X[j + 1]]
<1>9. \A j \in 0 .. Len(new) : T!Expiry(new)[j] = f[j]
  <2>1. f[0] = 0
    BY <1>2, <1>5, <1>7
  <2>2. ASSUME NEW j \in 1 .. Len(new) PROVE f[j] = f[j - 1] + new[j].expires
    <3>1. j \in 1 .. Len(list) - 1 /\ j - 1 \in 0 .. Len(new) /\ j \in 0 .. Len(new)
          /\ j \in 1 .. Len(list) /\ j + 1 \in 1 .. Len(list)
      BY <1>1, <1>7
    <3>2. CASE j < i
      <4>1. f[j] = X[j] /\ f[j - 1] = X[j - 1]
        BY <1>5, <3>1, <3>2
      <4> QED BY <1>2, <1>6, <3>1, <3>2, <4>1
    <3>3. CASE j = i
      <4>1. f[j] = X[j + 1] /\ f[j - 1] = X[j - 1] /\ new[j].expires = list[j + 1].expires + list[j].expires
        BY <1>5, <1>6, <3>1, <3>3
      <4>2. X[j + 1] = X[(j + 1) - 1] + list[j + 1].expires /\ (j + 1) - 1 = j
        BY <1>2, <3>1
      <4>3. X[j] = X[j - 1] + list[j].expires /\ X[j - 1] \in Nat
        BY <1>2, <1>7, <3>1
      <4>4. list[j].expires \in Nat /\ list[j + 1].expires \in Nat
        BY <1>1, <3>1
      <4> QED BY <4>1, <4>2, <4>3, <4>4
    <3>4. CASE j > i
      <4>1. f[j] = X[j + 1] /\ f[j - 1] = X[(j - 1) + 1] /\ new[j].expires = list[j + 1].expires
        BY <1>5, <1>6, <3>1, <3>4
      <4>2. (j - 1) + 1 = j /\ (j + 1) - 1 = j
        BY <3>1
      <4>3. X[j + 1] = X[(j + 1) - 1] + list[j + 1].expires
        BY <1>2, <3>1
      <4> QED BY <4>1, <4>2, <4>3
    <3> QED BY <1>5, <3>1, <3>2, <3>3, <3>4
  <2> HIDE DEF f
  <2>3. Len(new) \in Nat
    BY <1>5, <1>7
  <2> QED BY <2>1, <2>2, <2>3, ExpiryUnique
<1>10. \A j \in 1 .. Len(new) : T!Expiry(new)[j] = IF j < i THEN X[j] ELSE X[j + 1]
  BY <1>5, <1>7, <1>9
<1> HIDE DEF f
<1> QED BY <1>3, <1>5, <1>6, <1>7, <1>8, <1>10 DEF X

(* The loop of run_timer_list stops at the first timer that is not zero.   *)
LEMMA FiredZero ==
    ASSUME NEW list \in Seq(Timers)
    PROVE  /\ T!Fired(list) \in 0 .. Len(list)
           /\ \A j \in 1 .. T!Fired(list) : list[j].expires = 0
           /\ T!Fired(list) < Len(list) => list[T!Fired(list) + 1].expires # 0
<1> DEFINE I == {i \in 1 .. Len(list) : list[i].expires # 0}
           later == IF I # {} THEN T!Min(I) ELSE 0
<1>1. T!Fired(list) = IF later = 0 THEN Len(list) ELSE later - 1
  BY DEF T!Fired, T!SelectInSeq
<1>2. Len(list) \in Nat /\ I \in SUBSET Nat
  BY TimerFields
<1>3. CASE I = {}
  BY <1>1, <1>2, <1>3
<1>4. CASE I # {}
  <2>1. later \in I /\ \A m \in I : later <= m
    BY <1>2, <1>4, LeastChosen
  <2> HIDE DEF later
  <2>2. later \in 1 .. Len(list) /\ list[later].expires # 0 /\ T!Fired(list) = later - 1
    BY <1>1, <2>1
  <2>3. T!Fired(list) \in 0 .. Len(list) /\ T!Fired(list) + 1 = later
    BY <1>2, <2>2
  <2>4. \A j \in 1 .. T!Fired(list) : j \in 1 .. Len(list) /\ j \notin I
    BY <1>2, <2>1, <2>2, <2>3
  <2> QED BY <2>2, <2>3, <2>4
<1> QED BY <1>3, <1>4

(* The list dec is list with its head counted down by one.                 *)
Counted(list, dec) ==
    /\ dec \in Seq(Timers) /\ Len(dec) = Len(list)
    /\ \A j \in 1 .. Len(list) :
         /\ dec[j].proc = list[j].proc
         /\ dec[j].expires = IF j = 1 THEN list[1].expires - 1 ELSE list[j].expires

(* The list new is dec without the first ones, those that are zero.        *)
Dropped(dec, fired, new) ==
    /\ fired \in 0 .. Len(dec)
    /\ \A j \in 1 .. fired : dec[j].expires = 0
    /\ fired < Len(dec) => dec[fired + 1].expires # 0
    /\ new \in Seq(Timers) /\ Len(new) = Len(dec) - fired
    /\ \A j \in 1 .. Len(new) : fired + j \in 1 .. Len(dec) /\ new[j] = dec[fired + j]

(* One tick from list to new: the first ones fire, the others come closer. *)
Ticked(list, fired, new) ==
    /\ new \in Seq(Timers) /\ Len(new) = Len(list) - fired
    /\ fired \in 0 .. Len(list)
    /\ Len(new) > 0 => new[1].expires > 0
    /\ \A i \in 1 .. fired : T!Expiry(list)[i] = 1
    /\ \A j \in 1 .. Len(new) :
         /\ new[j].proc = list[fired + j].proc
         /\ T!Expiry(list)[fired + j] > 1
         /\ T!Expiry(new)[j] = T!Expiry(list)[fired + j] - 1

(* run_timer_list counts the head down...                                  *)
LEMMA HeadCounted ==
    ASSUME NEW list \in Seq(Timers), list # << >>, list[1].expires > 0,
           NEW dec, dec = [list EXCEPT ![1].expires = @ - 1]
    PROVE  Counted(list, dec)
<1>1. Len(list) \in Nat /\ \A j \in 1 .. Len(list) : list[j] \in Timers
  BY TimerFields
<1>2. 1 \in 1 .. Len(list) /\ list[1] \in [proc : Sleeper, expires : Nat]
  BY <1>1 DEF Timers
<1> DEFINE first == [list[1] EXCEPT !.expires = @ - 1]
<1>3. first = [proc |-> list[1].proc, expires |-> list[1].expires - 1]
  BY <1>2
<1>4. first \in Timers /\ first.proc = list[1].proc /\ first.expires = list[1].expires - 1
  <2>1. list[1].expires - 1 \in Nat
    BY <1>2
  <2> QED BY <1>2, <1>3, <2>1 DEF Timers
<1>5. dec = [list EXCEPT ![1] = first]
  OBVIOUS
<1> HIDE DEF first
<1>6. dec = [j \in 1 .. Len(list) |-> IF j = 1 THEN first ELSE list[j]]
  BY <1>5, TimerFields
<1>7. dec \in [1 .. Len(list) -> Timers]
  BY <1>1, <1>4, <1>6
<1>8. dec \in Seq(Timers) /\ Len(dec) = Len(list)
  BY <1>1, <1>7, TableIsSeq
<1> QED BY <1>4, <1>6, <1>8 DEF Counted

(* ... and drops the first ones.                                           *)
LEMMA RestOfList ==
    ASSUME NEW list \in Seq(Timers), NEW fired, fired = T!Fired(list),
           NEW new, new = SubSeq(list, fired + 1, Len(list))
    PROVE  Dropped(list, fired, new)
<1>0. fired \in 0 .. Len(list)
  BY FiredZero
<1>1. Len(list) \in Nat /\ \A j \in 1 .. Len(list) : list[j] \in Timers
  BY TimerFields
<1>2. Len(list) - fired \in Nat /\ \A j \in 1 .. Len(list) - fired : fired + j \in 1 .. Len(list)
  BY <1>0, <1>1
<1>3. new = [j \in 1 .. Len(list) - fired |-> list[fired + j]]
  <2>1. new = [j \in 1 .. (Len(list) - (fired + 1)) + 1 |-> list[((fired + 1) + j) - 1]]
    BY <1>0, <1>1
  <2>2. (Len(list) - (fired + 1)) + 1 = Len(list) - fired
    BY <1>0, <1>1
  <2>3. \A j \in 1 .. Len(list) - fired : ((fired + 1) + j) - 1 = fired + j
    BY <1>0, <1>1
  <2> QED BY <2>1, <2>2, <2>3
<1>4. new \in [1 .. Len(list) - fired -> Timers]
  BY <1>1, <1>2, <1>3
<1>5. new \in Seq(Timers) /\ Len(new) = Len(list) - fired
  BY <1>2, <1>4, TableIsSeq
<1>6. \A j \in 1 .. Len(new) : fired + j \in 1 .. Len(list) /\ new[j] = list[fired + j]
  BY <1>2, <1>3, <1>5
<1>7. /\ fired \in 0 .. Len(list)
      /\ \A j \in 1 .. fired : list[j].expires = 0
      /\ fired < Len(list) => list[fired + 1].expires # 0
  BY FiredZero
<1> QED BY <1>5, <1>6, <1>7 DEF Dropped

(* run_timer_list: exactly the timers with one tick left fire, the others  *)
(* have one tick less.                                                     *)
LEMMA TickKeeps ==
    ASSUME NEW list \in Seq(Timers), Len(list) > 0, list[1].expires > 0,
           NEW dec, Counted(list, dec), NEW fired, NEW new, Dropped(dec, fired, new)
    PROVE  Ticked(list, fired, new)
<1> DEFINE X == T!Expiry(list)
<1>0. /\ Len(list) \in Nat
      /\ \A j \in 1 .. Len(list) : list[j] \in Timers /\ list[j].expires \in Nat /\ list[j].proc \in Sleeper
  BY TimerFields, Zenon
<1>1. /\ Len(list) \in Nat /\ Len(list) >= 1
      /\ \A j \in 1 .. Len(list) : list[j].expires \in Nat
  BY <1>0
<1>2. X[0] = 0 /\ (\A j \in 0 .. Len(list) : X[j] \in Nat)
      /\ (\A j \in 1 .. Len(list) : X[j] = X[j - 1] + list[j].expires)
      /\ \A i, j \in 0 .. Len(list) : i <= j => X[i] <= X[j]
  BY <1>1, ExpirySteps, ExpiryGrows
<1> HIDE DEF X
<1>3. /\ Len(dec) = Len(list)
      /\ \A j \in 1 .. Len(list) :
           /\ dec[j].proc = list[j].proc
           /\ dec[j].expires = IF j = 1 THEN list[1].expires - 1 ELSE list[j].expires
  BY DEF Counted
<1>5. /\ fired \in 0 .. Len(list)
      /\ \A j \in 1 .. fired : dec[j].expires = 0
      /\ fired < Len(list) => dec[fired + 1].expires # 0
  BY <1>3 DEF Dropped
<1>6. /\ new \in Seq(Timers) /\ Len(new) = Len(list) - fired
      /\ \A j \in 1 .. Len(new) : fired + j \in 1 .. Len(list) /\ new[j] = dec[fired + j]
  BY <1>3 DEF Dropped
<1>7. \A i \in 1 .. fired : X[i] = 1
  <2> DEFINE S == {i \in Nat : i \in 1 .. fired => X[i] = 1}
  <2>1. 0 \in S
    OBVIOUS
  <2>2. ASSUME NEW i \in S PROVE i + 1 \in S
    <3>1. i \in Nat /\ i + 1 \in Nat /\ (i + 1) - 1 = i
      BY <2>2
    <3>2. ASSUME i + 1 \in 1 .. fired PROVE X[i + 1] = 1
      <4>1. i + 1 \in 1 .. Len(list) /\ dec[i + 1].expires = 0
        BY <1>1, <1>5, <3>2
      <4>2. X[i + 1] = X[i] + list[i + 1].expires
        BY <1>2, <3>1, <4>1
      <4>3. CASE i = 0
        <5>1. list[1].expires - 1 = 0 /\ list[1].expires \in Nat
          BY <1>1, <1>3, <4>1, <4>3
        <5> QED BY <1>2, <4>2, <4>3, <5>1
      <4>4. CASE i # 0
        <5>1. X[i] = 1
          BY <1>5, <2>2, <3>1, <3>2, <4>4
        <5>2. list[i + 1].expires = 0
          BY <1>3, <3>1, <4>1, <4>4
        <5> QED BY <4>2, <5>1, <5>2
      <4> QED BY <4>3, <4>4
    <3> QED BY <3>1, <3>2
  <2>3. S = Nat
    <3>1. S \in SUBSET Nat
      OBVIOUS
    <3> HIDE DEF S
    <3> QED BY <2>1, <2>2, <3>1, SetInduction
  <2> QED BY <1>5, <2>3
<1>8. fired < Len(list) => new[1].expires > 0 /\ X[fired + 1] - 1 = new[1].expires /\ X[fired + 1] > 1
  <2> SUFFICES ASSUME fired < Len(list)
               PROVE  new[1].expires > 0 /\ X[fired + 1] - 1 = new[1].expires /\ X[fired + 1] > 1
    OBVIOUS
  <2>1. /\ 1 \in 1 .. Len(new) /\ fired + 1 \in 1 .. Len(list) /\ (fired + 1) - 1 = fired
        /\ new[1] = dec[fired + 1]
    BY <1>1, <1>5, <1>6
  <2>2. X[fired + 1] = X[fired] + list[fired + 1].expires /\ list[fired + 1].expires \in Nat
    BY <1>1, <1>2, <2>1
  <2>3. CASE fired = 0
    <3>1. dec[1].expires = list[1].expires - 1 /\ dec[1].expires # 0 /\ new[1] = dec[1]
      BY <1>3, <1>5, <2>1, <2>3
    <3> QED BY <1>2, <2>2, <2>3, <3>1
  <2>4. CASE fired # 0
    <3>0. fired \in 1 .. fired
      BY <1>5, <2>4
    <3>1. X[fired] = 1
      BY <1>7, <3>0
    <3>2. dec[fired + 1].expires = list[fired + 1].expires /\ dec[fired + 1].expires # 0
      BY <1>3, <1>5, <2>1, <2>4
    <3>3. new[1].expires = list[fired + 1].expires
      BY <2>1, <3>2
    <3> QED BY <2>2, <3>1, <3>2, <3>3
  <2> QED BY <2>3, <2>4
<1> DEFINE f == [j \in 0 .. Len(new) |-> IF j = 0 THEN 0 ELSE X[fired + j] - 1]
<1>9. \A j \in 0 .. Len(new) : T!Expiry(new)[j] = f[j]
  <2>0. Len(new) \in Nat
    BY <1>1, <1>5, <1>6
  <2>1. f[0] = 0
    BY <2>0
  <2>2. ASSUME NEW j \in 1 .. Len(new) PROVE f[j] = f[j - 1] + new[j].expires
    <3>1. j \in 0 .. Len(new) /\ j - 1 \in 0 .. Len(new) /\ fired < Len(list)
      BY <1>1, <1>5, <1>6, <2>0
    <3>2. CASE j = 1
      <4>1. f[1] = X[fired + 1] - 1 /\ f[0] = 0 /\ new[1].expires = X[fired + 1] - 1
        BY <1>8, <2>1, <3>1, <3>2
      <4>2. X[fired + 1] \in Nat
        BY <1>1, <1>2, <1>5, <3>1
      <4> QED BY <3>2, <4>1, <4>2
    <3>3. CASE j # 1
      <4>1. f[j] = X[fired + j] - 1 /\ f[j - 1] = X[fired + (j - 1)] - 1
        BY <3>1, <3>3
      <4>2. fired + j \in 1 .. Len(list) /\ fired + (j - 1) = (fired + j) - 1 /\ fired + j # 1
            /\ fired + (j - 1) \in 0 .. Len(list)
        BY <1>1, <1>5, <1>6, <3>3
      <4>3. X[fired + j] = X[fired + (j - 1)] + list[fired + j].expires /\ X[fired + (j - 1)] \in Nat
        BY <1>2, <4>2
      <4>4. new[j].expires = list[fired + j].expires /\ list[fired + j].expires \in Nat
        BY <1>1, <1>3, <1>6, <4>2
      <4> HIDE DEF f
      <4> QED BY <4>1, <4>3, <4>4
    <3> QED BY <3>2, <3>3
  <2> HIDE DEF f
  <2>3. \A j \in 1 .. Len(new) : f[j] = f[j - 1] + new[j].expires
    BY <2>2
  <2> QED BY <2>0, <2>1, <2>3, ExpiryUnique, SMTT(30)
<1>10. \A j \in 1 .. Len(new) : X[fired + j] > 1
  <2> SUFFICES ASSUME NEW j \in 1 .. Len(new) PROVE X[fired + j] > 1
    OBVIOUS
  <2>1. fired < Len(list) /\ fired + 1 \in 0 .. Len(list) /\ fired + j \in 0 .. Len(list)
        /\ fired + 1 <= fired + j
    BY <1>1, <1>5, <1>6
  <2> QED BY <1>2, <1>8, <2>1
<1>11. \A j \in 1 .. Len(new) : T!Expiry(new)[j] = X[fired + j] - 1 /\ new[j].proc = list[fired + j].proc
  <2> SUFFICES ASSUME NEW j \in 1 .. Len(new)
               PROVE  T!Expiry(new)[j] = X[fired + j] - 1 /\ new[j].proc = list[fired + j].proc
    OBVIOUS
  <2>1. j \in 0 .. Len(new) /\ j # 0
    BY <1>1, <1>5, <1>6
  <2>2. T!Expiry(new)[j] = f[j] /\ f[j] = X[fired + j] - 1
    BY <1>9, <2>1
  <2> QED BY <1>3, <1>6, <2>2
<1>12. Len(new) > 0 => fired < Len(list)
  BY <1>1, <1>5, <1>6
<1> HIDE DEF f
<1> QED BY <1>5, <1>6, <1>7, <1>8, <1>10, <1>11, <1>12 DEF X, Ticked

(* No process has two timers in a list.                                    *)
OneTimerEach(list) == \A i, j \in 1 .. Len(list) : list[i].proc = list[j].proc => i = j

(* The ticks that a list leaves to a process.                              *)
TicksIn(list, p) == T!Expiry(list)[T!Position(list, p)]

(* They are those of its own timer.                                        *)
LEMMA TicksFound ==
    ASSUME NEW list \in Seq(Timers), OneTimerEach(list), NEW p
    PROVE  /\ \A i \in 1 .. Len(list) : list[i].proc = p => TicksIn(list, p) = T!Expiry(list)[i]
           /\ (\A i \in 1 .. Len(list) : list[i].proc # p) => TicksIn(list, p) = 0
<1> DEFINE k == T!Position(list, p)
<1>1. k \in 0 .. Len(list) /\ (k # 0 => list[k].proc = p)
      /\ (k = 0 => \A i \in 1 .. Len(list) : list[i].proc # p)
  BY PositionFound
<1>2. Len(list) \in Nat /\ T!Expiry(list)[0] = 0
  BY TimerFields, ExpirySteps
<1>3. TicksIn(list, p) = T!Expiry(list)[k]
  BY DEF TicksIn
<1> HIDE DEF k
<1>4. k # 0 => k \in 1 .. Len(list)
  BY <1>1, <1>2
<1>5. \A i \in 1 .. Len(list) : list[i].proc = p => i = k
  BY <1>1, <1>4 DEF OneTimerEach
<1> QED BY <1>1, <1>2, <1>3, <1>4, <1>5

(* The list new leaves k ticks to p and to the others what list does.      *)
Leaves(list, new, p, k) ==
    /\ OneTimerEach(new)
    /\ \A j \in 1 .. Len(new) : new[j].proc = p \/ \E i \in 1 .. Len(list) : new[j].proc = list[i].proc
    /\ k = 0 => \A j \in 1 .. Len(new) : new[j].proc # p
    /\ \A x : TicksIn(new, x) = IF x = p THEN k ELSE TicksIn(list, x)

(* do_sleep gives the sleeper its ticks and leaves the others theirs.      *)
LEMMA SleepTicks ==
    ASSUME NEW list \in Seq(Timers), OneTimerEach(list),
           NEW p \in Sleeper, \A i \in 1 .. Len(list) : list[i].proc # p,
           NEW k \in Nat \ {0}, NEW new \in Seq(Timers), NEW n \in 0 .. Len(list), Added(list, new, p, k, n)
    PROVE  Leaves(list, new, p, k)
<1> USE DEF Added
<1>2. Len(list) \in Nat /\ n \in Nat
  BY TimerFields
<1>3. \A j \in 1 .. Len(new) :
        \/ j = n + 1 /\ new[j].proc = p /\ T!Expiry(new)[j] = k
        \/ j <= n /\ j \in 1 .. Len(list) /\ new[j].proc = list[j].proc
                  /\ T!Expiry(new)[j] = T!Expiry(list)[j]
        \/ j > n + 1 /\ j - 1 \in 1 .. Len(list) /\ new[j].proc = list[j - 1].proc
                     /\ T!Expiry(new)[j] = T!Expiry(list)[j - 1]
  BY <1>2
<1>4. \A i \in 1 .. Len(list) : \E j \in 1 .. Len(new) : new[j].proc = list[i].proc
  <2> SUFFICES ASSUME NEW i \in 1 .. Len(list)
               PROVE  \E j \in 1 .. Len(new) : new[j].proc = list[i].proc
    OBVIOUS
  <2>1. CASE i <= n
    <3>1. i \in 1 .. Len(new)
      BY <1>2
    <3> QED BY <2>1, <3>1
  <2>2. CASE ~(i <= n)
    <3>1. i + 1 \in 1 .. Len(new) /\ ~(i + 1 <= n) /\ i + 1 # n + 1 /\ (i + 1) - 1 = i
      BY <1>2, <2>2
    <3>2. new[i + 1].proc = list[(i + 1) - 1].proc
      BY <3>1
    <3> QED BY <3>1, <3>2
  <2> QED BY <2>1, <2>2
<1>5. n + 1 \in 1 .. Len(new) /\ new[n + 1].proc = p /\ T!Expiry(new)[n + 1] = k
  <2>1. n + 1 \in 1 .. Len(new) /\ ~(n + 1 <= n)
    BY <1>2
  <2> QED BY <2>1
<1> HIDE DEF Added
<1>6. OneTimerEach(new)
  <2> SUFFICES ASSUME NEW i \in 1 .. Len(new), NEW j \in 1 .. Len(new), new[i].proc = new[j].proc
               PROVE  i = j
    BY DEF OneTimerEach
  <2>1. i \in Nat /\ j \in Nat
    OBVIOUS
  <2>2. CASE i = n + 1
    BY <1>2, <1>3, <2>1, <2>2
  <2>3. CASE i <= n
    BY <1>2, <1>3, <2>1, <2>3 DEF OneTimerEach
  <2>4. CASE i > n + 1
    <3>1. i - 1 \in 1 .. Len(list) /\ new[i].proc = list[i - 1].proc
      BY <1>2, <1>3, <2>1, <2>4
    <3>2. CASE j > n + 1
      <4>1. j - 1 \in 1 .. Len(list) /\ new[j].proc = list[j - 1].proc
        BY <1>2, <1>3, <2>1, <3>2
      <4>2. i - 1 = j - 1
        BY <3>1, <4>1 DEF OneTimerEach
      <4> QED BY <2>1, <4>2
    <3>3. CASE j <= n
      <4>1. j \in 1 .. Len(list) /\ new[j].proc = list[j].proc
        BY <1>2, <1>3, <2>1, <3>3
      <4>2. i - 1 = j
        BY <3>1, <4>1 DEF OneTimerEach
      <4> QED BY <1>2, <2>1, <2>4, <3>3, <4>2
    <3>4. CASE j = n + 1
      <4>1. new[j].proc = p
        BY <1>5, <3>4
      <4> QED BY <3>1, <4>1
    <3> QED BY <1>2, <2>1, <3>2, <3>3, <3>4
  <2> QED BY <1>2, <2>1, <2>2, <2>3, <2>4
<1>7. \A x : TicksIn(new, x) = IF x = p THEN k ELSE TicksIn(list, x)
  <2> SUFFICES ASSUME NEW x PROVE TicksIn(new, x) = IF x = p THEN k ELSE TicksIn(list, x)
    OBVIOUS
  <2>1. CASE x = p
    BY <1>5, <1>6, <2>1, TicksFound
  <2>2. CASE x # p /\ \E i \in 1 .. Len(list) : list[i].proc = x
    <3>1. PICK i \in 1 .. Len(list) : list[i].proc = x
      BY <2>2
    <3>2. PICK j \in 1 .. Len(new) : new[j].proc = x
      BY <1>4, <3>1
    <3>3. \E m \in 1 .. Len(list) : list[m].proc = x /\ T!Expiry(new)[j] = T!Expiry(list)[m]
      BY <1>3, <2>2, <3>2
    <3>4. TicksIn(new, x) = T!Expiry(new)[j]
      BY <1>6, <3>2, TicksFound
    <3> QED BY <2>2, <3>3, <3>4, TicksFound
  <2>3. CASE x # p /\ \A i \in 1 .. Len(list) : list[i].proc # x
    <3>1. \A j \in 1 .. Len(new) : new[j].proc # x
      BY <1>3, <2>3
    <3>2. TicksIn(new, x) = 0
      BY <1>6, <3>1, TicksFound
    <3> QED BY <2>3, <3>2, TicksFound
  <2> QED BY <2>1, <2>2, <2>3
<1>8. \A j \in 1 .. Len(new) : new[j].proc = p \/ \E i \in 1 .. Len(list) : new[j].proc = list[i].proc
  BY <1>3
<1> QED BY <1>6, <1>7, <1>8 DEF Leaves

(* del_timer takes the ticks of its owner and leaves the others theirs.    *)
LEMMA ResumeTicks ==
    ASSUME NEW list \in Seq(Timers), OneTimerEach(list), list # << >> => list[1].expires > 0,
           NEW p \in Sleeper, NEW new, new = T!DelTimer(list, p)
    PROVE  new \in Seq(Timers) /\ (new # << >> => new[1].expires > 0) /\ Leaves(list, new, p, 0)
<1>1. CASE T!Position(list, p) = 0
  <2>1. new = list
    BY <1>1 DEF T!DelTimer
  <2>2. \A i \in 1 .. Len(list) : list[i].proc # p
    BY <1>1, PositionFound
  <2>3. TicksIn(list, p) = 0
    BY <2>2, TicksFound
  <2>4. Leaves(list, list, p, 0)
    BY <2>2, <2>3 DEF Leaves
  <2> QED BY <2>1, <2>4
<1>2. CASE T!Position(list, p) # 0
  <2>0. list # << >> /\ Len(list) \in Nat
    <3>1. T!Position(list, p) \in 0 .. Len(list) /\ Len(list) \in Nat
      BY PositionFound, TimerFields
    <3>2. Len(list) # 0
      BY <1>2, <3>1
    <3> QED BY <3>1, <3>2
  <2>1. PICK k \in 1 .. Len(list) :
             /\ list[k].proc = p
             /\ new \in Seq(Timers) /\ Len(new) = Len(list) - 1
             /\ new # << >> => new[1].expires > 0
             /\ \A j \in 1 .. Len(new) :
                  /\ new[j].proc = IF j < k THEN list[j].proc ELSE list[j + 1].proc
                  /\ T!Expiry(new)[j] = IF j < k THEN T!Expiry(list)[j] ELSE T!Expiry(list)[j + 1]
    BY <1>2, <2>0, DelTimerKeeps
  <2>2. \A j \in 1 .. Len(new) :
        \/ j < k /\ j \in 1 .. Len(list) /\ new[j].proc = list[j].proc
                 /\ T!Expiry(new)[j] = T!Expiry(list)[j]
        \/ j >= k /\ j + 1 # k /\ j + 1 \in 1 .. Len(list) /\ new[j].proc = list[j + 1].proc
                 /\ T!Expiry(new)[j] = T!Expiry(list)[j + 1]
    BY <2>0, <2>1
  <2>3. \A i \in 1 .. Len(list) :
        \/ i = k
        \/ i < k /\ i \in 1 .. Len(new) /\ new[i].proc = list[i].proc
        \/ i > k /\ i - 1 \in 1 .. Len(new) /\ new[i - 1].proc = list[i].proc
    BY <2>0, <2>1
  <2>4. OneTimerEach(new)
    <3> SUFFICES ASSUME NEW i \in 1 .. Len(new), NEW j \in 1 .. Len(new), new[i].proc = new[j].proc
                 PROVE  i = j
      BY DEF OneTimerEach
    <3>1. i \in Nat /\ j \in Nat /\ k \in Nat
      OBVIOUS
    <3>2. CASE i < k
      BY <2>2, <3>1, <3>2 DEF OneTimerEach
    <3>3. CASE i >= k
      BY <2>2, <3>1, <3>3 DEF OneTimerEach
    <3> QED BY <3>1, <3>2, <3>3
  <2>5. \A j \in 1 .. Len(new) : new[j].proc # p
    BY <2>1, <2>2 DEF OneTimerEach
  <2>6. \A x : TicksIn(new, x) = IF x = p THEN 0 ELSE TicksIn(list, x)
    <3> SUFFICES ASSUME NEW x PROVE TicksIn(new, x) = IF x = p THEN 0 ELSE TicksIn(list, x)
      OBVIOUS
    <3>1. CASE x = p
      BY <2>1, <2>4, <2>5, <3>1, TicksFound
    <3>2. CASE x # p /\ \E i \in 1 .. Len(list) : list[i].proc = x
      <4>1. PICK i \in 1 .. Len(list) : list[i].proc = x
        BY <3>2
      <4>2. PICK j \in 1 .. Len(new) : new[j].proc = x
        BY <2>1, <2>3, <3>2, <4>1
      <4>3. \E m \in 1 .. Len(list) : list[m].proc = x /\ T!Expiry(new)[j] = T!Expiry(list)[m]
        BY <2>2, <4>2
      <4>4. TicksIn(new, x) = T!Expiry(new)[j]
        BY <2>1, <2>4, <4>2, TicksFound
      <4> QED BY <3>2, <4>3, <4>4, TicksFound
    <3>3. CASE x # p /\ \A i \in 1 .. Len(list) : list[i].proc # x
      <4>1. \A j \in 1 .. Len(new) : new[j].proc # x
        BY <2>2, <3>3
      <4>2. TicksIn(new, x) = 0
        BY <2>1, <2>4, <4>1, TicksFound
      <4> QED BY <3>3, <4>2, TicksFound
    <3> QED BY <3>1, <3>2, <3>3
  <2>7. \A j \in 1 .. Len(new) : \E i \in 1 .. Len(list) : new[j].proc = list[i].proc
    BY <2>2
  <2>8. Leaves(list, new, p, 0)
    BY <2>4, <2>5, <2>6, <2>7 DEF Leaves
  <2> QED BY <2>1, <2>8
<1> QED BY <1>1, <1>2

(* run_timer_list: who has one tick left is woken, the others lose one.    *)
LEMMA TickTicks ==
    ASSUME NEW list \in Seq(Timers), OneTimerEach(list),
           NEW fired, NEW new, Ticked(list, fired, new)
    PROVE  /\ new \in Seq(Timers) /\ OneTimerEach(new) /\ (new # << >> => new[1].expires > 0)
           /\ \A j \in 1 .. Len(new) : \E i \in 1 .. Len(list) : new[j].proc = list[i].proc
           /\ \A x : TicksIn(new, x) = IF TicksIn(list, x) = 0 THEN 0 ELSE TicksIn(list, x) - 1
           /\ \A x : TicksIn(list, x) = 1 <=> \E i \in 1 .. fired : list[i].proc = x
<1>0. /\ new \in Seq(Timers) /\ Len(new) = Len(list) - fired
      /\ fired \in 0 .. Len(list)
      /\ (Len(new) > 0 => new[1].expires > 0)
      /\ \A i \in 1 .. fired : T!Expiry(list)[i] = 1
      /\ \A j \in 1 .. Len(new) :
           /\ new[j].proc = list[fired + j].proc
           /\ T!Expiry(list)[fired + j] > 1
           /\ T!Expiry(new)[j] = T!Expiry(list)[fired + j] - 1
  BY DEF Ticked
<1>1. Len(list) \in Nat /\ fired \in Nat /\ Len(new) \in Nat
  BY <1>0, TimerFields
<1>2. \A j \in 1 .. Len(new) : fired + j \in 1 .. Len(list)
  BY <1>0, <1>1
<1>3. \A i \in 1 .. Len(list) :
        i \in 1 .. fired \/ (i - fired \in 1 .. Len(new) /\ fired + (i - fired) = i)
  BY <1>0, <1>1
<1>4. OneTimerEach(new)
  <2> SUFFICES ASSUME NEW i \in 1 .. Len(new), NEW j \in 1 .. Len(new), new[i].proc = new[j].proc
               PROVE  i = j
    BY DEF OneTimerEach
  <2>1. fired + i = fired + j
    BY <1>0, <1>2 DEF OneTimerEach
  <2> QED BY <1>1, <2>1
<1>5. ASSUME NEW x, NEW i \in 1 .. fired, list[i].proc = x
      PROVE  TicksIn(list, x) = 1 /\ TicksIn(new, x) = 0
  <2>1. i \in 1 .. Len(list)
    BY <1>0, <1>1
  <2>2. TicksIn(list, x) = 1
    BY <1>0, <1>5, <2>1, TicksFound
  <2>3. \A j \in 1 .. Len(new) : new[j].proc # x
    <3> SUFFICES ASSUME NEW j \in 1 .. Len(new), new[j].proc = x PROVE FALSE
      OBVIOUS
    <3>1. fired + j \in 1 .. Len(list) /\ list[fired + j].proc = x
      BY <1>0, <1>2
    <3>2. fired + j = i
      BY <1>0, <1>5, <2>1, <3>1 DEF OneTimerEach
    <3> QED BY <1>1, <3>2
  <2> QED BY <1>0, <1>4, <2>2, <2>3, TicksFound
<1>6. ASSUME NEW x, NEW i \in 1 .. Len(list), list[i].proc = x, i \notin 1 .. fired
      PROVE  TicksIn(list, x) > 1 /\ TicksIn(list, x) \in Nat /\ TicksIn(new, x) = TicksIn(list, x) - 1
  <2>1. PICK j \in 1 .. Len(new) : fired + j = i
    BY <1>3, <1>6
  <2>2. T!Expiry(list)[i] > 1 /\ T!Expiry(new)[j] = T!Expiry(list)[i] - 1 /\ new[j].proc = x
    BY <1>0, <1>6, <2>1
  <2>3. TicksIn(list, x) = T!Expiry(list)[i] /\ TicksIn(new, x) = T!Expiry(new)[j]
    BY <1>0, <1>4, <1>6, <2>2, TicksFound
  <2>4. i \in 0 .. Len(list)
    BY <1>0, <1>1
  <2>5. T!Expiry(list)[i] \in Nat
    BY <2>4, ExpiryGrows
  <2> QED BY <2>2, <2>3, <2>5
<1>7. ASSUME NEW x, \A i \in 1 .. Len(list) : list[i].proc # x
      PROVE  TicksIn(list, x) = 0 /\ TicksIn(new, x) = 0
  <2>1. \A j \in 1 .. Len(new) : new[j].proc # x
    BY <1>0, <1>2, <1>7
  <2> QED BY <1>0, <1>4, <1>7, <2>1, TicksFound
<1>8. ASSUME NEW x
      PROVE  /\ TicksIn(new, x) = IF TicksIn(list, x) = 0 THEN 0 ELSE TicksIn(list, x) - 1
             /\ TicksIn(list, x) = 1 <=> \E i \in 1 .. fired : list[i].proc = x
  <2>1. CASE \E i \in 1 .. fired : list[i].proc = x
    <3>1. TicksIn(list, x) = 1 /\ TicksIn(new, x) = 0
      BY <1>0, <1>5, <2>1
    <3> QED BY <2>1, <3>1
  <2>2. CASE (\A i \in 1 .. fired : list[i].proc # x) /\ \E i \in 1 .. Len(list) : list[i].proc = x
    <3>1. TicksIn(list, x) > 1 /\ TicksIn(list, x) \in Nat /\ TicksIn(new, x) = TicksIn(list, x) - 1
      BY <1>6, <2>2
    <3> QED BY <2>2, <3>1
  <2>3. CASE (\A i \in 1 .. fired : list[i].proc # x) /\ \A i \in 1 .. Len(list) : list[i].proc # x
    <3>1. TicksIn(list, x) = 0 /\ TicksIn(new, x) = 0
      BY <1>7, <2>3
    <3> QED BY <2>3, <3>1
  <2> QED BY <2>1, <2>2, <2>3
<1>9. \A j \in 1 .. Len(new) : \E i \in 1 .. Len(list) : new[j].proc = list[i].proc
  BY <1>0, <1>2
<1>10. new # << >> => new[1].expires > 0
  BY <1>0, <1>1
<1> QED BY <1>0, <1>4, <1>8, <1>9, <1>10

-----------------------------------------------------------------------------
(* What the invariant says of the list.                                    *)
LEMMA TimerListFacts ==
    ASSUME T!IndInv
    PROVE  /\ timer_list \in Seq(Timers) /\ OneTimerEach(timer_list)
           /\ timer_list # << >> => timer_list[1].expires > 0
           /\ DOMAIN timer_list = 1 .. Len(timer_list)
           /\ \A i \in 1 .. Len(timer_list) : timer_list[i].proc \in insleep
<1>1. timer_list \in Seq(Timers)
  BY DEF T!IndInv, T!TypeOK, Timers
<1>2. DOMAIN timer_list = 1 .. Len(timer_list)
  BY <1>1, TimerFields
<1> QED BY <1>1, <1>2 DEF T!IndInv, T!OwnersSleep, OneTimerEach

(* And what makes the invariant again: a list with one timer each, of      *)
(* processes in a wait that may be interrupted.                            *)
LEMMA TimerInvariantAgain ==
    ASSUME timer_list' \in Seq(Timers), OneTimerEach(timer_list'),
           timer_list' # << >> => timer_list'[1].expires > 0,
           \A i \in 1 .. Len(timer_list') : timer_list'[i].proc \in insleep',
           t_state' \in [Sleeper -> {"RUNNABLE", "SLEEPING"}],
           t_wait_state' \in [Sleeper -> {"0", "TIMER", "KSEM"}], insleep' \in SUBSET Sleeper,
           \A p \in insleep' : t_wait_state'[p] # "KSEM",
           \A p \in Sleeper : t_wait_state'[p] = "TIMER" => p \in insleep' /\ t_state'[p] = "SLEEPING"
    PROVE  T!IndInv'
<1>1. DOMAIN timer_list' = 1 .. Len(timer_list')
  BY TimerFields
<1>2. T!TypeOK'
  BY DEF T!TypeOK, Timers
<1>3. T!OwnersSleep'
  BY <1>1 DEF T!OwnersSleep, OneTimerEach
<1> QED BY <1>2, <1>3 DEF T!IndInv

(* The table of countdowns that the list stands for.                       *)
LEMMA TicksLeftIn ==
    /\ \A p : T!TicksLeft(p) = TicksIn(timer_list, p)
    /\ \A p : T!TicksLeft(p)' = TicksIn(timer_list', p)
BY DEF T!TicksLeft, TicksIn

(* A step that keeps the list keeps the countdowns.                        *)
LEMMA CountdownsKept ==
    ASSUME timer_list' = timer_list
    PROVE  \A p : T!TicksLeft(p)' = T!TicksLeft(p)
BY TicksLeftIn

(* do_sleep                                                                *)
LEMMA SleepStep ==
    ASSUME T!IndInv, NEW p \in Sleeper, NEW n \in 1 .. MaxTicks, MaxTicks \in Nat, T!Sleep(p, n)
    PROVE  T!IndInv' /\ T!Abs!Sleep(p, n)
<1>1. /\ t_state[p] = "RUNNABLE" /\ p \notin insleep
      /\ timer_list' = T!AddTimer(timer_list, [proc |-> p, expires |-> n])
      /\ t_state' = [t_state EXCEPT ![p] = "SLEEPING"]
      /\ t_wait_state' = [t_wait_state EXCEPT ![p] = "TIMER"]
      /\ insleep' = insleep \cup {p}
  BY DEF T!Sleep
<1>2. /\ timer_list \in Seq(Timers) /\ OneTimerEach(timer_list)
      /\ timer_list # << >> => timer_list[1].expires > 0
      /\ \A i \in 1 .. Len(timer_list) : timer_list[i].proc \in insleep
  BY TimerListFacts
<1>3. /\ t_state \in [Sleeper -> {"RUNNABLE", "SLEEPING"}]
      /\ t_wait_state \in [Sleeper -> {"0", "TIMER", "KSEM"}] /\ insleep \in SUBSET Sleeper
      /\ \A q \in insleep : t_wait_state[q] # "KSEM"
      /\ \A q \in Sleeper : t_wait_state[q] = "TIMER" => q \in insleep /\ t_state[q] = "SLEEPING"
  BY DEF T!IndInv, T!TypeOK, T!OwnersSleep
<1>4. n \in Nat \ {0} /\ \A i \in 1 .. Len(timer_list) : timer_list[i].proc # p
  BY <1>1, <1>2
<1>5. /\ timer_list' \in Seq(Timers) /\ timer_list'[1].expires > 0
      /\ \E k \in 0 .. Len(timer_list) : Added(timer_list, timer_list', p, n, k)
  BY <1>1, <1>2, <1>4, AddTimerKeeps
<1>6. Leaves(timer_list, timer_list', p, n)
  BY <1>2, <1>4, <1>5, SleepTicks
<1>7. \A j \in 1 .. Len(timer_list') : timer_list'[j].proc \in insleep'
  BY <1>1, <1>2, <1>6 DEF Leaves
<1>8. T!IndInv'
  BY <1>1, <1>3, <1>5, <1>6, <1>7, TimerInvariantAgain DEF Leaves
<1>9. T!Abs!Sleep(p, n)
  <2>1. \A x \in Sleeper : T!TicksLeft(x)' = IF x = p THEN n ELSE T!TicksLeft(x)
    BY <1>6, TicksLeftIn DEF Leaves
  <2>2. T!Phase(p) = "run"
    BY <1>1 DEF T!Phase
  <2>3. \A x \in Sleeper : T!Phase(x)' = IF x = p THEN "sleep" ELSE T!Phase(x)
    BY <1>1, <1>3 DEF T!Phase
  <2> QED BY <2>1, <2>2, <2>3 DEF T!Abs!Sleep
<1> QED BY <1>8, <1>9

(* The sleeper is woken early, or a kernel wait begins or ends: the timers *)
(* stay as they are.                                                       *)
LEMMA OtherTimerSteps ==
    ASSUME T!IndInv, NEW p \in Sleeper
    PROVE  /\ T!Wake(p) => T!IndInv' /\ T!Abs!Wake(p)
           /\ T!KernelWait(p) \/ T!KernelWake(p) => T!IndInv' /\ UNCHANGED T!Abs!absVars
<1>1. /\ timer_list \in Seq(Timers) /\ OneTimerEach(timer_list)
      /\ timer_list # << >> => timer_list[1].expires > 0
      /\ \A i \in 1 .. Len(timer_list) : timer_list[i].proc \in insleep
  BY TimerListFacts
<1>2. /\ t_state \in [Sleeper -> {"RUNNABLE", "SLEEPING"}]
      /\ t_wait_state \in [Sleeper -> {"0", "TIMER", "KSEM"}] /\ insleep \in SUBSET Sleeper
      /\ \A q \in insleep : t_wait_state[q] # "KSEM"
      /\ \A q \in Sleeper : t_wait_state[q] = "TIMER" => q \in insleep /\ t_state[q] = "SLEEPING"
  BY DEF T!IndInv, T!TypeOK, T!OwnersSleep
<1>3. ASSUME T!Wake(p) PROVE T!IndInv' /\ T!Abs!Wake(p)
  <2>1. /\ t_wait_state[p] = "TIMER" /\ timer_list' = timer_list /\ insleep' = insleep
        /\ t_state' = [q \in Sleeper |-> IF q = p THEN "RUNNABLE" ELSE t_state[q]]
        /\ t_wait_state' = [q \in Sleeper |-> IF q = p THEN "0" ELSE t_wait_state[q]]
    BY <1>3 DEF T!Wake, T!Wakeup
  <2>2. T!IndInv'
    BY <1>1, <1>2, <2>1, TimerInvariantAgain
  <2>3. T!Phase(p) = "sleep" /\ \A q \in Sleeper : T!Phase(q)' = IF q = p THEN "woken" ELSE T!Phase(q)
    BY <1>2, <2>1 DEF T!Phase
  <2>4. T!Abs!Wake(p)
    BY <2>1, <2>3, CountdownsKept DEF T!Abs!Wake
  <2> QED BY <2>2, <2>4
<1>4. ASSUME T!KernelWait(p) \/ T!KernelWake(p) PROVE T!IndInv' /\ UNCHANGED T!Abs!absVars
  <2>1. timer_list' = timer_list /\ insleep' = insleep /\ p \notin insleep
    BY <1>2, <1>4 DEF T!KernelWait, T!KernelWake
  <2>2. /\ t_state' \in [Sleeper -> {"RUNNABLE", "SLEEPING"}]
        /\ t_wait_state' \in [Sleeper -> {"0", "TIMER", "KSEM"}]
        /\ \A q \in Sleeper : q # p => t_state'[q] = t_state[q] /\ t_wait_state'[q] = t_wait_state[q]
        /\ t_wait_state'[p] # "TIMER"
    BY <1>2, <1>4 DEF T!KernelWait, T!KernelWake, T!Wakeup
  <2>3. T!IndInv'
    BY <1>1, <1>2, <2>1, <2>2, TimerInvariantAgain
  <2>4. \A q \in Sleeper : T!Phase(q)' = T!Phase(q)
    BY <1>2, <2>1, <2>2 DEF T!Phase
  <2> QED BY <2>1, <2>3, <2>4, CountdownsKept DEF T!Abs!absVars
<1> QED BY <1>3, <1>4

(* The sleeper runs again and deletes its timer.                           *)
LEMMA ResumeStep ==
    ASSUME T!IndInv, NEW p \in Sleeper, T!Resume(p)
    PROVE  T!IndInv' /\ T!Abs!Resume(p)
<1>1. /\ t_state[p] = "RUNNABLE" /\ p \in insleep
      /\ timer_list' = T!DelTimer(timer_list, p)
      /\ insleep' = insleep \ {p} /\ t_state' = t_state /\ t_wait_state' = t_wait_state
  BY DEF T!Resume
<1>2. /\ timer_list \in Seq(Timers) /\ OneTimerEach(timer_list)
      /\ timer_list # << >> => timer_list[1].expires > 0
      /\ \A i \in 1 .. Len(timer_list) : timer_list[i].proc \in insleep
  BY TimerListFacts
<1>3. /\ t_state \in [Sleeper -> {"RUNNABLE", "SLEEPING"}]
      /\ t_wait_state \in [Sleeper -> {"0", "TIMER", "KSEM"}] /\ insleep \in SUBSET Sleeper
      /\ \A q \in insleep : t_wait_state[q] # "KSEM"
      /\ \A q \in Sleeper : t_wait_state[q] = "TIMER" => q \in insleep /\ t_state[q] = "SLEEPING"
  BY DEF T!IndInv, T!TypeOK, T!OwnersSleep
<1>4. /\ timer_list' \in Seq(Timers) /\ (timer_list' # << >> => timer_list'[1].expires > 0)
      /\ Leaves(timer_list, timer_list', p, 0)
  BY <1>1, <1>2, ResumeTicks
<1>5. OneTimerEach(timer_list') /\ \A j \in 1 .. Len(timer_list') : timer_list'[j].proc \in insleep'
  BY <1>1, <1>2, <1>4 DEF Leaves
<1>6. T!IndInv'
  <2>1. /\ t_state' \in [Sleeper -> {"RUNNABLE", "SLEEPING"}]
        /\ t_wait_state' \in [Sleeper -> {"0", "TIMER", "KSEM"}] /\ insleep' \in SUBSET Sleeper
        /\ \A q \in insleep' : t_wait_state'[q] # "KSEM"
        /\ \A q \in Sleeper : t_wait_state'[q] = "TIMER" => q \in insleep' /\ t_state'[q] = "SLEEPING"
    BY <1>1, <1>3
  <2> QED BY <1>4, <1>5, <2>1, TimerInvariantAgain
<1>7. T!Abs!Resume(p)
  <2>1. \A x \in Sleeper : T!TicksLeft(x)' = IF x = p THEN 0 ELSE T!TicksLeft(x)
    BY <1>4, TicksLeftIn DEF Leaves
  <2>2. T!Phase(p) = "woken" /\ \A x \in Sleeper : T!Phase(x)' = IF x = p THEN "run" ELSE T!Phase(x)
    BY <1>1, <1>3 DEF T!Phase
  <2> QED BY <2>1, <2>2 DEF T!Abs!Resume
<1> QED BY <1>6, <1>7

(* A tick of the clock.                                                    *)
LEMMA TickStep ==
    ASSUME T!IndInv, T!RunTimerList, timer_list # << >>
    PROVE  T!IndInv' /\ T!Abs!Tick
<1> DEFINE list == [timer_list EXCEPT ![1].expires = @ - 1]
           fired == T!Fired(list)
           woken == {list[i].proc : i \in 1 .. fired}
<1>1. /\ timer_list' = SubSeq(list, fired + 1, Len(list))
      /\ t_state' = [p \in Sleeper |-> IF p \in woken THEN "RUNNABLE" ELSE t_state[p]]
      /\ t_wait_state' = [p \in Sleeper |-> IF p \in woken THEN "0" ELSE t_wait_state[p]]
      /\ insleep' = insleep
  BY DEF T!RunTimerList, T!Wakeup
<1>2. /\ timer_list \in Seq(Timers) /\ OneTimerEach(timer_list)
      /\ timer_list[1].expires > 0
      /\ \A i \in 1 .. Len(timer_list) : timer_list[i].proc \in insleep
  BY TimerListFacts
<1>3. /\ t_state \in [Sleeper -> {"RUNNABLE", "SLEEPING"}]
      /\ t_wait_state \in [Sleeper -> {"0", "TIMER", "KSEM"}] /\ insleep \in SUBSET Sleeper
      /\ \A q \in insleep : t_wait_state[q] # "KSEM"
      /\ \A q \in Sleeper : t_wait_state[q] = "TIMER" => q \in insleep /\ t_state[q] = "SLEEPING"
  BY DEF T!IndInv, T!TypeOK, T!OwnersSleep
<1>4. Counted(timer_list, list)
  BY <1>2, HeadCounted
<1> HIDE DEF list
<1>5. list \in Seq(Timers) /\ Len(list) = Len(timer_list)
      /\ \A i \in 1 .. Len(timer_list) : list[i].proc = timer_list[i].proc
  BY <1>4 DEF Counted
<1>6. Dropped(list, fired, timer_list')
  BY <1>1, <1>5, RestOfList
<1> HIDE DEF fired
<1>7. Len(timer_list) > 0
  BY <1>2
<1>8. Ticked(timer_list, fired, timer_list')
  BY <1>2, <1>4, <1>6, <1>7, TickKeeps
<1>9. /\ timer_list' \in Seq(Timers) /\ OneTimerEach(timer_list')
      /\ timer_list' # << >> => timer_list'[1].expires > 0
      /\ \A j \in 1 .. Len(timer_list') : \E i \in 1 .. Len(timer_list) : timer_list'[j].proc = timer_list[i].proc
      /\ \A x : TicksIn(timer_list', x) = IF TicksIn(timer_list, x) = 0 THEN 0 ELSE TicksIn(timer_list, x) - 1
      /\ \A x : TicksIn(timer_list, x) = 1 <=> \E i \in 1 .. fired : timer_list[i].proc = x
  BY <1>2, <1>8, TickTicks
<1>10. \A x : x \in woken <=> TicksIn(timer_list, x) = 1
  <2>1. \A i \in 1 .. fired : i \in 1 .. Len(timer_list) /\ list[i].proc = timer_list[i].proc
    BY <1>5, <1>8 DEF Ticked
  <2> QED BY <1>9, <2>1
<1>11. woken \subseteq insleep
  BY <1>2, <1>5, <1>8 DEF Ticked
<1> HIDE DEF woken
<1>12. T!IndInv'
  <2>1. \A i \in 1 .. Len(timer_list') : timer_list'[i].proc \in insleep'
    BY <1>1, <1>2, <1>9
  <2>3. /\ t_state' \in [Sleeper -> {"RUNNABLE", "SLEEPING"}]
        /\ t_wait_state' \in [Sleeper -> {"0", "TIMER", "KSEM"}] /\ insleep' \in SUBSET Sleeper
        /\ \A q \in insleep' : t_wait_state'[q] # "KSEM"
        /\ \A q \in Sleeper : t_wait_state'[q] = "TIMER" => q \in insleep' /\ t_state'[q] = "SLEEPING"
    BY <1>1, <1>3
  <2> QED BY <1>9, <2>1, <2>3, TimerInvariantAgain
<1>13. T!Abs!Tick
  <2>1. \A x \in Sleeper : T!TicksLeft(x)' = IF T!TicksLeft(x) = 0 THEN 0 ELSE T!TicksLeft(x) - 1
    BY <1>9, TicksLeftIn
  <2>2. \A x \in Sleeper : x \in woken <=> T!TicksLeft(x) = 1
    BY <1>10, TicksLeftIn
  <2>3. \A x \in Sleeper : T!Phase(x)' = IF x \in woken THEN "woken" ELSE T!Phase(x)
    BY <1>1, <1>3, <1>11 DEF T!Phase
  <2> QED BY <2>1, <2>2, <2>3 DEF T!Abs!Tick
<1> QED BY <1>12, <1>13

(* No timer is pending when the kernel starts.                             *)
LEMMA TimerInit == T!Init => T!IndInv /\ T!Abs!Init
<1> SUFFICES ASSUME T!Init PROVE T!IndInv /\ T!Abs!Init
  OBVIOUS
<1>1. /\ timer_list = << >> /\ insleep = {}
      /\ t_state = [p \in Sleeper |-> "RUNNABLE"] /\ t_wait_state = [p \in Sleeper |-> "0"]
  BY DEF T!Init
<1>2. << >> \in Seq(Timers) /\ OneTimerEach(<< >>) /\ Len(<< >>) = 0
  BY DEF OneTimerEach
<1>3. T!IndInv
  BY <1>1, <1>2 DEF T!IndInv, T!TypeOK, T!OwnersSleep, Timers
<1>4. \A p : TicksIn(<< >>, p) = 0
  <2>1. \A p : \A i \in 1 .. Len(<< >>) : << >>[i].proc # p
    BY <1>2
  <2> QED BY <1>2, <2>1, TicksFound
<1>5. \A p \in Sleeper : T!TicksLeft(p) = 0 /\ T!Phase(p) = "run"
  BY <1>1, <1>4, TicksLeftIn DEF T!Phase
<1>6. T!Abs!Init
  BY <1>5 DEF T!Abs!Init
<1> QED BY <1>3, <1>6

(* Every step keeps the invariant and is a step of the countdowns.         *)
LEMMA TimerNext ==
    ASSUME T!IndInv, [T!Next]_(T!vars)
    PROVE  T!IndInv' /\ [T!Abs!Next]_(T!Abs!absVars)
<1>1. ASSUME UNCHANGED T!vars PROVE T!IndInv' /\ UNCHANGED T!Abs!absVars
  <2>1. timer_list' = timer_list /\ t_state' = t_state /\ t_wait_state' = t_wait_state /\ insleep' = insleep
    BY <1>1 DEF T!vars
  <2>2. T!IndInv'
    BY <2>1 DEF T!IndInv, T!TypeOK, T!OwnersSleep
  <2>3. \A q \in Sleeper : T!Phase(q)' = T!Phase(q)
    BY <2>1 DEF T!Phase
  <2> QED BY <2>1, <2>2, <2>3, CountdownsKept DEF T!Abs!absVars
<1>2. ASSUME T!RunTimerList PROVE T!IndInv' /\ [T!Abs!Next]_(T!Abs!absVars)
  <2>1. CASE timer_list = << >>
    <3>1. UNCHANGED T!vars
      BY <1>2, <2>1 DEF T!RunTimerList
    <3> QED BY <1>1, <3>1
  <2>2. CASE timer_list # << >>
    BY <1>2, <2>2, TickStep DEF T!Abs!Next
  <2> QED BY <2>1, <2>2
<1>3. ASSUME NEW p \in Sleeper, NEW n \in 1 .. MaxTicks, T!Sleep(p, n)
      PROVE  T!IndInv' /\ T!Abs!Next
  BY <1>3, SleepStep, TimerConstants DEF T!Abs!Next
<1>4. ASSUME NEW p \in Sleeper, T!Wake(p) \/ T!Resume(p) PROVE T!IndInv' /\ T!Abs!Next
  BY <1>4, OtherTimerSteps, ResumeStep DEF T!Abs!Next
<1>5. ASSUME NEW p \in Sleeper, T!KernelWait(p) \/ T!KernelWake(p)
      PROVE  T!IndInv' /\ UNCHANGED T!Abs!absVars
  BY <1>5, OtherTimerSteps
<1> QED BY <1>1, <1>2, <1>3, <1>4, <1>5 DEF T!Next

(* The assertions of run_timer_list hold for any set of sleepers and any   *)
(* times, whoever is woken, killed or resumed between two ticks: the head  *)
(* of the list has not expired, and the owner of a pending timer is in a   *)
(* wait that may be interrupted.                                           *)
THEOREM TimersAssert == T!Spec => []TimerAsserts
<1>1. T!IndInv => TimerAsserts
  <2> SUFFICES ASSUME T!IndInv PROVE T!TimerAsserts
    BY DEF TimerAsserts
  <2>1. \A i \in DOMAIN timer_list : t_wait_state[timer_list[i].proc] # "KSEM"
    BY DEF T!IndInv, T!OwnersSleep
  <2> QED BY <2>1 DEF T!TimerAsserts, T!IndInv
<1> QED BY <1>1, TimerInit, TimerNext, PTL DEF T!Spec

(* The delta-encoded list of any timers implements independent countdowns: *)
(* every timer fires at its own tick, whichever were added before it or    *)
(* deleted around it.                                                      *)
THEOREM DeltaListKeepsTimes == T!Spec => TimesKept
BY TimerInit, TimerNext, PTL DEF T!Spec, T!Abs!Spec, TimesKept, T!TimesKept

(* For any set of processes an event is received once and only if it was   *)
(* sent, no receiver sleeps over a sender, and senders wait in the boxes   *)
(* of living processes only.                                               *)
THEOREM EventsDelivered == E!Spec => []EventSound
BY E!EventsSound DEF EventSound
=============================================================================
