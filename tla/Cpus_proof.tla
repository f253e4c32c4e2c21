----------------------------- MODULE Cpus_proof -----------------------------
(***************************************************************************)
(* For every number of CPUs, processes, address spaces and run queues: the *)
(* big kernel lock excludes, a finished shootdown leaves no stale          *)
(* translation, and the scheduler keeps every runnable process in exactly  *)
(* one place, an address space on one CPU, and no CPU idle over a process  *)
(* it could run.  In kern-river, for every number of processes and events, *)
(* no activation of an event is lost.                                      *)
(***************************************************************************)
EXTENDS MCCpus, Sequences, NaturalsInduction, WellFoundedInduction, FiniteSetTheorems, TLAPS

USE DEF CPU, LapicId

(* When all indexes but the own one are ids of other CPUs, all other CPUs  *)
(* have such ids: there are as many of the ones as of the others.          *)
LEMMA AllReached ==
    ASSUME NEW f \in Injection(CPU, LapicId), NEW c \in CPU,
           \A i \in CPU \ {c} : \E d \in CPU \ {c} : f[d] = i
    PROVE  \A d \in CPU \ {c} : f[d] \in CPU \ {c}
<1> DEFINE A == CPU \ {c}
           g == [i \in A |-> CHOOSE d \in A : f[d] = i]
<1>1. \A i \in A : g[i] \in A /\ f[g[i]] = i
  OBVIOUS
<1>2. IsFiniteSet(A)
  <2>1. IsFiniteSet(CPU)
    BY NCPUAssumption, FS_Interval
  <2> QED BY <2>1, FS_RemoveElement
<1>3. g \in [A -> A]
  OBVIOUS
<1> HIDE DEF A, g
<1>4. g \in Injection(A, A)
  <2>1. \A i, j \in A : g[i] = g[j] => i = j
    BY <1>1
  <2> QED BY <1>3, <2>1 DEF Injection, IsInjective
<1>5. g \in Surjection(A, A)
  BY <1>2, <1>4, FS_Injection
<1>6. ASSUME NEW d \in A PROVE f[d] \in A
  <2>1. PICK i \in A : g[i] = d
    BY <1>5 DEF Surjection
  <2> QED BY <1>1, <2>1
<1> QED BY <1>6 DEF A

(* What the type invariant says of the ids.                                *)
LEMMA IdsOfCpus ==
    ASSUME TypeOK
    PROVE  /\ CPU \subseteq LapicId
           /\ \A c \in CPU : lapic_id[c] \in LapicId
           /\ \A c, d \in CPU : lapic_id[c] = lapic_id[d] => c = d
           /\ idx \in Nat
<1>1. lapic_id \in [CPU -> LapicId] /\ \A c, d \in CPU : lapic_id[c] = lapic_id[d] => c = d
  BY DEF TypeOK, Injection, IsInjective
<1>2. CPU \subseteq LapicId /\ idx \in Nat
  BY NCPUAssumption DEF TypeOK
<1> QED BY <1>1, <1>2

(* At boot nobody holds the kernel lock and no translation is cached.      *)
LEMMA InitIndInv == Init => IndInv
<1> SUFFICES ASSUME Init PROVE IndInv
  OBVIOUS
<1>1. TypeOK
  BY NCPUAssumption DEF Init, TypeOK, InKern, Initiating
<1>2. MutualExclusion /\ RaiseInv /\ LoopInv
  BY DEF Init, MutualExclusion, RaiseInv, LoopInv, InKern, Initiating
<1>3. SpinInv /\ AnswerInv /\ StaleInv
  BY DEF Init, SpinInv, AnswerInv, StaleInv, Initiating
<1> QED BY <1>1, <1>2, <1>3 DEF IndInv

(* A step outside the shootdown: who is in mp_tlb_invalidate, where it is, *)
(* the requests and the handlers that serve them stay as they are, and no  *)
(* translation goes stale.                                                 *)
Quiet ==
    /\ UNCHANGED <<lapic_id, ipi_raise, mpti_end, mpti, idx>>
    /\ \A c \in CPU : \/ pc'[c] = pc[c] /\ (pc[c] \in Initiating => ipi'[c] = ipi[c])
                      \/ pc[c] \notin Initiating /\ pc'[c] \notin Initiating
    /\ \A c \in CPU : ipi'[c] = "spin" <=> ipi[c] = "spin"
    /\ \A c \in CPU, a \in La : tlb'[c][a] = "stale" => tlb[c][a] = "stale" /\ cr3'[c] = cr3[c]

(* Such a step preserves what the shootdown relies on.                     *)
LEMMA QuietStep ==
    ASSUME IndInv, Quiet
    PROVE  RaiseInv' /\ SpinInv' /\ AnswerInv' /\ StaleInv' /\ LoopInv'
<1> USE DEF IndInv, Quiet
<1>1. RaiseInv'
  BY DEF RaiseInv, Initiating
<1>2. SpinInv' /\ LoopInv'
  BY DEF SpinInv, LoopInv, Initiating
<1>3. AnswerInv'
  BY DEF AnswerInv, Initiating
<1>4. ASSUME NEW d \in CPU, Owes(d) PROVE Owes(d)'
  <2>1. CASE pc[d] \in {"raise", "flush"}
    BY <2>1 DEF Owes, Initiating
  <2>2. CASE ipi_raise[lapic_id[d]] = 1 /\ ipi[d] # "spin"
    BY <2>2 DEF Owes
  <2>3. ASSUME NEW c \in CPU, c # d,
               \/ pc[c] = "raise" /\ lapic_id[d] >= idx
               \/ pc[c] \in Initiating /\ lapic_id[d] \notin CPU \ {c}
        PROVE  Owes(d)'
    <3>1. pc'[c] = pc[c]
      BY <2>3 DEF Initiating
    <3> QED BY <2>3, <3>1 DEF Owes
  <2> QED BY <1>4, <2>1, <2>2, <2>3 DEF Owes
<1>5. StaleInv'
  BY <1>4 DEF StaleInv
<1> QED BY <1>1, <1>2, <1>3, <1>5

(* One step per action of KernLock: each preserves the inductive invariant *)
(* that ties lock word, requests, handlers and cached translations.        *)
LEMMA NextIndInv == IndInv /\ [Next]_vars => IndInv'
<1> SUFFICES ASSUME IndInv, [Next]_vars PROVE IndInv'
  OBVIOUS
<1> USE NCPUAssumption
<1>q. ASSUME TypeOK', MutualExclusion', Quiet PROVE IndInv'
  BY <1>q, QuietStep DEF IndInv
<1>u. CASE UNCHANGED vars
  <2>1. TypeOK' /\ MutualExclusion'
    BY <1>u DEF vars, IndInv, TypeOK, MutualExclusion
  <2>2. Quiet
    BY <1>u DEF vars, Quiet
  <2> QED BY <1>q, <2>1, <2>2
<1>n. CASE Next
  <2> PICK c \in CPU :
        \/ KernEnter(c) \/ KernEnterPoll(c) \/ KernEnterTry(c) \/ KernLeave(c)
        \/ \E g \in Pgdir : SetMmPagetable(c, g)
        \/ \E g \in Pgdir, a \in La : ShootdownBegin(c, g, a)
        \/ Shootdown(c)
        \/ IpiDeliver(c) \/ IpiCheck(c) \/ IpiAck(c)
        \/ \E a \in La : TlbLoad(c, a)
    BY <1>n DEF Next
  <2>m. TypeOK /\ MutualExclusion
    BY DEF IndInv
  <2>i. /\ CPU \subseteq LapicId
        /\ \A e \in CPU : lapic_id[e] \in LapicId
        /\ \A e, d \in CPU : lapic_id[e] = lapic_id[d] => e = d
        /\ idx \in Nat
    BY <2>m, IdsOfCpus
  <2> USE DEF InKern, Initiating, At, Goto, tlbVars
  <2>1. CASE KernEnter(c)
    <3>1. TypeOK'
      BY <2>1, <2>m DEF KernEnter, TypeOK
    <3>2. MutualExclusion'
      BY <2>1, <2>m DEF KernEnter, TypeOK, MutualExclusion
    <3>3. Quiet
      BY <2>1, <2>m DEF KernEnter, TypeOK, Quiet
    <3> QED BY <1>q, <3>1, <3>2, <3>3
  <2>2. CASE KernEnterPoll(c)
    <3>1. TypeOK'
      BY <2>2, <2>m DEF KernEnterPoll, TypeOK
    <3>2. MutualExclusion'
      BY <2>2, <2>m DEF KernEnterPoll, TypeOK, MutualExclusion
    <3>3. Quiet
      BY <2>2, <2>m DEF KernEnterPoll, TypeOK, Quiet
    <3> QED BY <1>q, <3>1, <3>2, <3>3
  <2>3. CASE KernEnterTry(c)
    <3>1. TypeOK'
      BY <2>3, <2>m DEF KernEnterTry, TypeOK
    <3>2. MutualExclusion'
      BY <2>3, <2>m DEF KernEnterTry, TypeOK, MutualExclusion
    <3>3. Quiet
      BY <2>3, <2>m DEF KernEnterTry, TypeOK, Quiet
    <3> QED BY <1>q, <3>1, <3>2, <3>3
  <2>4. CASE KernLeave(c)
    <3>1. TypeOK'
      BY <2>4, <2>m DEF KernLeave, TypeOK
    <3>2. MutualExclusion'
      BY <2>4, <2>m DEF KernLeave, TypeOK, MutualExclusion
    <3>3. Quiet
      BY <2>4, <2>m DEF KernLeave, TypeOK, Quiet
    <3> QED BY <1>q, <3>1, <3>2, <3>3
  <2>5. ASSUME NEW g \in Pgdir, SetMmPagetable(c, g) PROVE IndInv'
    <3>1. TypeOK'
      BY <2>5, <2>m DEF SetMmPagetable, TypeOK
    <3>2. MutualExclusion'
      BY <2>5, <2>m DEF SetMmPagetable, TypeOK, MutualExclusion
    <3>3. Quiet
      BY <2>5, <2>m DEF SetMmPagetable, TypeOK, Quiet
    <3> QED BY <1>q, <3>1, <3>2, <3>3
  <2>6. ASSUME NEW g \in Pgdir, NEW a \in La, ShootdownBegin(c, g, a)
        PROVE IndInv'
    <3>0. /\ pc' = [pc EXCEPT ![c] = "raise"] /\ pc[c] = "kern" /\ ipi[c] = "none"
          /\ idx' = 0 /\ mpti_end' = 0 /\ mpti' = [pgdir |-> g, la |-> a]
          /\ UNCHANGED <<lapic_id, kern_lock, ipi, ipi_raise, irq, cr3>>
      BY <2>6 DEF ShootdownBegin
    <3>n. \A d \in CPU : pc[d] \notin Initiating
      BY <3>0, <2>m DEF MutualExclusion
    <3>r. \A i \in LapicId : ipi_raise[i] = 0
      BY <3>n DEF IndInv, RaiseInv, TypeOK
    <3>1. TypeOK'
      BY <2>6, <2>m DEF ShootdownBegin, TypeOK
    <3>2. MutualExclusion' /\ LoopInv'
      BY <3>0, <3>n, <2>m DEF TypeOK, MutualExclusion, LoopInv
    <3>3. RaiseInv' /\ SpinInv'
      BY <3>0, <3>n, <3>r, <2>m, <2>i DEF IndInv, TypeOK, RaiseInv, SpinInv
    <3>4. AnswerInv'
      BY <3>0, <3>n, <2>m DEF TypeOK, AnswerInv
    <3>5. ASSUME NEW d \in CPU, NEW b \in La, tlb[d][b] # "stale", tlb'[d][b] = "stale"
          PROVE  b = mpti'.la /\ cr3'[d] = mpti'.pgdir /\ Owes(d)'
      <4>1. cr3[d] = g /\ b = a
        BY <2>6, <2>m, <3>5 DEF ShootdownBegin, TypeOK
      <4>2. Owes(d)'
        <5>1. CASE d = c
          BY <5>1, <3>0, <2>m DEF Owes, TypeOK
        <5>2. CASE d # c
          <6>1. pc'[c] = "raise" /\ lapic_id'[d] >= idx'
            BY <3>0, <2>m, <2>i DEF TypeOK
          <6> QED BY <5>2, <6>1 DEF Owes
        <5> QED BY <5>1, <5>2
      <4> QED BY <3>0, <4>1, <4>2
    <3>6. \A d \in CPU, b \in La : tlb[d][b] # "stale"
      <4> SUFFICES ASSUME NEW d \in CPU, NEW b \in La, Owes(d) PROVE FALSE
        BY DEF IndInv, StaleInv
      <4> QED BY <3>n, <3>r, <2>i DEF Owes
    <3> QED BY <3>1, <3>2, <3>3, <3>4, <3>5, <3>6 DEF IndInv, StaleInv
  <2>7. CASE ShootdownRaise(c)
    <3>t. /\ idx \in CPU /\ idx' = idx + 1 /\ idx' \in 0 .. NCPU /\ pc[c] = "raise"
          /\ ipi[c] = "none"
          /\ UNCHANGED <<lapic_id, pc, kern_lock, ipi, mpti_end, mpti, cr3, tlb>>
      BY <2>7, <2>m DEF ShootdownRaise, TypeOK
    <3>r. \A i \in LapicId : ipi_raise'[i] =
              IF i = idx /\ idx # c THEN 1 ELSE ipi_raise[i]
      BY <2>7, <2>m, <2>i, <3>t DEF ShootdownRaise, TypeOK
    <3>o. \A e \in CPU : pc[e] \in Initiating => e = c
      BY <2>m, <3>t DEF MutualExclusion
    <3>1. TypeOK'
      <4>1. irq' \in SUBSET LapicId
        <5>1. irq' \subseteq irq \cup {idx}
          BY <2>7 DEF ShootdownRaise
        <5>2. irq \in SUBSET LapicId /\ idx \in LapicId
          BY <2>m, <2>i, <3>t DEF TypeOK
        <5> QED BY <5>1, <5>2
      <4>2. ipi_raise' \in [LapicId -> {0, 1}]
        BY <2>7, <2>m, <3>t DEF ShootdownRaise, TypeOK
      <4> QED BY <2>m, <3>t, <4>1, <4>2 DEF TypeOK
    <3>2. MutualExclusion' /\ LoopInv'
      BY <2>m, <3>t DEF IndInv, MutualExclusion, LoopInv
    <3>3. SpinInv'
      BY <2>i, <3>t, <3>r DEF IndInv, SpinInv
    <3>4. RaiseInv'
      <4> SUFFICES ASSUME NEW i \in LapicId, ipi_raise'[i] = 1
                   PROVE  c # i /\ i < NCPU /\ i < idx'
        BY <3>t DEF RaiseInv
      <4>1. CASE ipi_raise[i] = 1
        <5>1. PICK e \in CPU : /\ e # i /\ i < NCPU /\ pc[e] \in Initiating
                               /\ pc[e] = "raise" => i < idx
          BY <4>1 DEF IndInv, RaiseInv
        <5> QED BY <5>1, <3>o, <3>t, <2>i
      <4>2. CASE ipi_raise[i] # 1
        BY <4>2, <3>r, <3>t, <2>i
      <4> QED BY <4>1, <4>2
    <3>5. AnswerInv'
      <4> SUFFICES ASSUME NEW i \in CPU, c # i, ipi_raise'[i] = 0, i < idx + 1
                   PROVE  \E d \in CPU \ {c} : lapic_id[d] = i
        BY <3>t, <3>o DEF AnswerInv
      <4>1. i # idx /\ ipi_raise[i] = 0
        BY <3>r, <2>i
      <4>2. i < idx
        BY <4>1, <3>t
      <4> QED BY <4>1, <4>2, <3>t DEF IndInv, AnswerInv
    <3>6. ASSUME NEW d \in CPU, Owes(d) PROVE Owes(d)'
      <4>1. CASE d = c
        BY <4>1, <3>t DEF Owes
      <4>2. CASE d # c /\ lapic_id[d] = idx
        <5>1. CASE c = idx
          BY <4>2, <5>1, <3>t DEF Owes
        <5>2. CASE c # idx
          <6>1. ipi_raise[idx] = 0
            <7> SUFFICES ASSUME ipi_raise[idx] = 1 PROVE FALSE
              BY <2>m, <2>i, <3>t DEF TypeOK
            <7>1. PICK e \in CPU : pc[e] \in Initiating /\ (pc[e] = "raise" => idx < idx)
              BY <2>i, <3>t DEF IndInv, RaiseInv
            <7> QED BY <7>1, <3>o, <3>t, <2>i
          <6>2. ipi[d] # "spin"
            BY <4>2, <6>1 DEF IndInv, SpinInv
          <6> QED BY <4>2, <5>2, <6>2, <3>r, <3>t, <2>i DEF Owes
        <5> QED BY <5>1, <5>2
      <4>3. CASE d # c /\ lapic_id[d] # idx
        <5>1. CASE ipi_raise[lapic_id[d]] = 1 /\ ipi[d] # "spin"
          BY <4>3, <5>1, <3>r, <3>t, <2>i DEF Owes
        <5>2. CASE lapic_id[d] >= idx
          <6>1. lapic_id[d] >= idx'
            BY <4>3, <5>2, <3>t, <2>i
          <6> QED BY <4>3, <6>1, <3>t DEF Owes
        <5>3. CASE lapic_id[d] \notin CPU \ {c}
          BY <4>3, <5>3, <3>t DEF Owes
        <5> QED BY <4>3, <5>1, <5>2, <5>3, <3>6, <3>o DEF Owes
      <4> QED BY <4>1, <4>2, <4>3
    <3>7. StaleInv'
      BY <3>6, <3>t DEF IndInv, StaleInv
    <3> QED BY <3>1, <3>2, <3>3, <3>4, <3>5, <3>7 DEF IndInv
  <2>8. CASE ShootdownRaised(c)
    <3>0. /\ pc' = [pc EXCEPT ![c] = "flush"] /\ pc[c] = "raise" /\ ipi[c] = "none" /\ idx = NCPU
          /\ UNCHANGED <<lapic_id, kern_lock, ipi, ipi_raise, irq, mpti_end, mpti, idx, cr3, tlb>>
      BY <2>8 DEF ShootdownRaised
    <3>o. \A e \in CPU : pc[e] \in Initiating => e = c
      BY <2>m, <3>0 DEF MutualExclusion
    <3>p. pc \in [CPU -> {"out", "poll", "try"} \cup InKern]
      BY <2>m DEF TypeOK
    <3>1. TypeOK'
      BY <2>m, <3>0 DEF TypeOK
    <3>2. MutualExclusion' /\ LoopInv'
      BY <2>m, <3>0, <3>p, <3>o DEF IndInv, MutualExclusion, LoopInv
    <3>3. RaiseInv' /\ SpinInv'
      BY <3>0, <3>p, <3>o DEF IndInv, RaiseInv, SpinInv
    <3>4. AnswerInv'
      BY <3>0, <3>p, <3>o DEF IndInv, AnswerInv
    <3>5. ASSUME NEW d \in CPU, Owes(d) PROVE Owes(d)'
      <4>1. CASE d = c
        BY <4>1, <3>0, <3>p DEF Owes
      <4>2. CASE d # c
        <5>1. CASE ipi_raise[lapic_id[d]] = 1 /\ ipi[d] # "spin"
          BY <5>1, <3>0 DEF Owes
        <5>2. CASE lapic_id[d] >= idx \/ lapic_id[d] \notin CPU \ {c}
          <6>1. lapic_id[d] \notin CPU \ {c}
            BY <5>2, <3>0
          <6> QED BY <4>2, <6>1, <3>0, <3>p DEF Owes
        <5> QED BY <4>2, <5>1, <5>2, <3>5, <3>o DEF Owes
      <4> QED BY <4>1, <4>2
    <3>6. StaleInv'
      BY <3>5, <3>0 DEF IndInv, StaleInv
    <3> QED BY <3>1, <3>2, <3>3, <3>4, <3>6 DEF IndInv
  <2>9. CASE ShootdownFlush(c)
    <3>0. /\ pc' = [pc EXCEPT ![c] = "wait"] /\ pc[c] = "flush" /\ ipi[c] = "none" /\ idx' = 0
          /\ mpti_end' = 1 /\ TlbInvalidate(c)
          /\ UNCHANGED <<lapic_id, kern_lock, ipi, ipi_raise, irq, mpti, cr3>>
      BY <2>9 DEF ShootdownFlush
    <3>o. \A e \in CPU : pc[e] \in Initiating => e = c
      BY <2>m, <3>0 DEF MutualExclusion
    <3>p. pc \in [CPU -> {"out", "poll", "try"} \cup InKern]
      BY <2>m DEF TypeOK
    <3>1. TypeOK'
      BY <2>9, <2>m DEF ShootdownFlush, TlbInvalidate, TypeOK
    <3>2. MutualExclusion' /\ LoopInv'
      BY <2>m, <3>0, <3>p, <3>o DEF IndInv, MutualExclusion, LoopInv
    <3>3. RaiseInv' /\ SpinInv'
      BY <3>0, <3>p, <3>o, <2>i DEF IndInv, RaiseInv, SpinInv
    <3>4. AnswerInv'
      BY <3>0, <3>p, <3>o DEF IndInv, AnswerInv
    <3>5. ASSUME NEW d \in CPU, d # c, Owes(d) PROVE Owes(d)'
      <4>1. CASE ipi_raise[lapic_id[d]] = 1 /\ ipi[d] # "spin"
        BY <4>1, <3>0 DEF Owes
      <4>2. CASE lapic_id[d] \notin CPU \ {c}
        BY <3>5, <4>2, <3>0, <3>p DEF Owes
      <4> QED BY <4>1, <4>2, <3>0, <3>5, <3>o DEF Owes
    <3>6. ASSUME NEW d \in CPU, NEW a \in La, tlb'[d][a] = "stale"
          PROVE  tlb[d][a] = "stale" /\ (cr3[d] = mpti.pgdir /\ a = mpti.la => d # c)
      BY <3>6, <3>0, <2>m DEF TlbInvalidate, TypeOK
    <3>7. StaleInv'
      BY <3>0, <3>5, <3>6 DEF IndInv, StaleInv
    <3> QED BY <3>1, <3>2, <3>3, <3>4, <3>7 DEF IndInv
  <2>10. CASE ShootdownWait(c)
    <3>0. /\ idx' = idx + 1 /\ idx < NCPU /\ (idx = c \/ ipi_raise[idx] = 0)
          /\ pc[c] = "wait" /\ ipi[c] = "none"
          /\ UNCHANGED <<lapic_id, pc, kern_lock, ipi, ipi_raise, irq, mpti_end, mpti, cr3, tlb>>
      BY <2>10 DEF ShootdownWait
    <3>o. \A e \in CPU : pc[e] \in Initiating => e = c
      BY <2>m, <3>0 DEF MutualExclusion
    <3>1. TypeOK'
      BY <2>m, <3>0 DEF TypeOK
    <3>2. MutualExclusion' /\ LoopInv' /\ SpinInv'
      BY <2>m, <3>0, <3>o DEF IndInv, MutualExclusion, LoopInv, SpinInv
    <3>3. RaiseInv'
      <4> SUFFICES ASSUME NEW i \in LapicId, ipi_raise[i] = 1
                   PROVE  c # i /\ i < NCPU /\ i >= idx + 1
        BY <3>0 DEF RaiseInv
      <4>1. PICK e \in CPU : /\ e # i /\ i < NCPU /\ pc[e] \in Initiating
                             /\ pc[e] = "wait" => i >= idx
        BY DEF IndInv, RaiseInv
      <4>2. e = c /\ i >= idx /\ i # idx
        BY <4>1, <3>o, <3>0
      <4> QED BY <4>1, <4>2, <2>i
    <3>4. AnswerInv'
      BY <3>0, <3>o DEF IndInv, AnswerInv
    <3>5. ASSUME NEW d \in CPU, Owes(d) PROVE Owes(d)'
      BY <3>5, <3>0, <3>o DEF Owes
    <3>6. StaleInv'
      BY <3>5, <3>0 DEF IndInv, StaleInv
    <3> QED BY <3>1, <3>2, <3>3, <3>4, <3>6 DEF IndInv
  <2>11. CASE ShootdownEnd(c)
    <3>0. /\ pc' = [pc EXCEPT ![c] = "kern"] /\ pc[c] = "wait" /\ ipi[c] = "none" /\ idx = NCPU
          /\ UNCHANGED <<lapic_id, kern_lock, ipi, ipi_raise, irq, mpti_end, mpti, idx, cr3, tlb>>
      BY <2>11 DEF ShootdownEnd
    <3>o. \A e \in CPU : pc[e] \in Initiating => e = c
      BY <2>m, <3>0 DEF MutualExclusion
    <3>p. pc \in [CPU -> {"out", "poll", "try"} \cup InKern]
      BY <2>m DEF TypeOK
    <3>r. \A i \in LapicId : ipi_raise[i] = 0
      <4> SUFFICES ASSUME NEW i \in LapicId, ipi_raise[i] = 1 PROVE FALSE
        BY <2>m DEF TypeOK
      <4>1. PICK e \in CPU : i < NCPU /\ pc[e] \in Initiating /\ (pc[e] = "wait" => i >= idx)
        BY DEF IndInv, RaiseInv
      <4> QED BY <4>1, <3>o, <3>0
    <3>a. \A d \in CPU \ {c} : lapic_id[d] \in CPU \ {c}
      <4>1. \A i \in CPU \ {c} : \E d \in CPU \ {c} : lapic_id[d] = i
        BY <3>0, <3>r, <2>i DEF IndInv, AnswerInv
      <4>2. lapic_id \in Injection(CPU, LapicId)
        BY <2>m DEF TypeOK
      <4> QED BY <4>1, <4>2, AllReached
    <3>s. \A d \in CPU, a \in La : tlb[d][a] # "stale"
      <4> SUFFICES ASSUME NEW d \in CPU, NEW a \in La, Owes(d) PROVE FALSE
        BY DEF IndInv, StaleInv
      <4>1. CASE d = c
        BY <4>1, <3>0, <3>r, <3>o, <2>i DEF Owes
      <4>2. CASE d # c
        BY <4>2, <3>0, <3>r, <3>o, <3>a, <2>i DEF Owes
      <4> QED BY <4>1, <4>2
    <3>1. TypeOK'
      BY <2>m, <3>0 DEF TypeOK
    <3>2. MutualExclusion' /\ LoopInv' /\ SpinInv'
      BY <2>m, <3>0, <3>p, <3>o DEF IndInv, MutualExclusion, LoopInv, SpinInv
    <3>3. RaiseInv' /\ StaleInv'
      BY <3>0, <3>r, <3>s DEF RaiseInv, StaleInv
    <3>4. AnswerInv'
      BY <3>0, <3>p, <3>o DEF AnswerInv
    <3> QED BY <3>1, <3>2, <3>3, <3>4 DEF IndInv
  <2>12. CASE IpiDeliver(c)
    <3>1. TypeOK'
      BY <2>12, <2>m DEF IpiDeliver, TypeOK
    <3>2. MutualExclusion'
      BY <2>12, <2>m DEF IpiDeliver, TypeOK, MutualExclusion
    <3>3. Quiet
      BY <2>12, <2>m DEF IpiDeliver, TypeOK, Quiet
    <3> QED BY <1>q, <3>1, <3>2, <3>3
  <2>13. CASE IpiCheck(c)
    <3>0. /\ ipi[c] = "check"
          /\ UNCHANGED <<lapic_id, pc, kern_lock, ipi_raise, irq, mpti_end, mpti, idx, cr3>>
      BY <2>13 DEF IpiCheck
    <3>i. ipi \in [CPU -> {"none", "check", "spin"}]
      BY <2>m DEF TypeOK
    <3>x. /\ ipi' = [ipi EXCEPT ![c] = IF ipi_raise[lapic_id[c]] = 1 THEN "spin" ELSE "none"]
          /\ IF ipi_raise[lapic_id[c]] = 1 THEN TlbInvalidate(c) ELSE tlb' = tlb
      BY <2>13 DEF IpiCheck
    <3>1. TypeOK'
      <4>1. tlb' \in [CPU -> [La -> {"none", "fresh", "stale"}]]
        <5>1. tlb' = tlb \/ tlb' = [tlb EXCEPT ![c][mpti.la] = "none"]
          BY <3>x DEF TlbInvalidate
        <5>2. mpti.la \in La
          BY <2>m DEF TypeOK
        <5>3. CASE tlb' = tlb
          BY <2>m, <5>3 DEF TypeOK
        <5>4. CASE tlb' = [tlb EXCEPT ![c][mpti.la] = "none"]
          BY <2>m, <5>2, <5>4 DEF TypeOK
        <5> QED BY <5>1, <5>3, <5>4
      <4>2. ipi' \in [CPU -> {"none", "check", "spin"}]
        BY <3>x, <3>i
      <4> QED BY <2>m, <3>0, <4>1, <4>2 DEF TypeOK
    <3>2. MutualExclusion' /\ LoopInv' /\ RaiseInv' /\ AnswerInv'
      BY <2>m, <3>0 DEF IndInv, MutualExclusion, LoopInv, RaiseInv, AnswerInv
    <3>3. SpinInv'
      BY <3>0, <3>x, <3>i DEF IndInv, SpinInv
    <3>4. ASSUME NEW d \in CPU, NEW a \in La, tlb'[d][a] = "stale"
          PROVE  /\ tlb[d][a] = "stale"
                 /\ cr3[d] = mpti.pgdir /\ a = mpti.la /\ d = c => ipi_raise[lapic_id[c]] # 1
      BY <3>4, <3>x, <2>m DEF TlbInvalidate, TypeOK
    <3>5. ASSUME NEW d \in CPU, Owes(d), d = c => ipi_raise[lapic_id[c]] # 1
          PROVE  Owes(d)'
      BY <3>5, <3>0, <3>x, <3>i DEF Owes
    <3>6. StaleInv'
      BY <3>0, <3>4, <3>5 DEF IndInv, StaleInv
    <3> QED BY <3>1, <3>2, <3>3, <3>6 DEF IndInv
  <2>14. CASE IpiAck(c)
    <3>0. /\ ipi[c] = "spin" /\ mpti_end = 1
          /\ ipi_raise' = [ipi_raise EXCEPT ![lapic_id[c]] = 0]
          /\ ipi' = [ipi EXCEPT ![c] = "none"]
          /\ UNCHANGED <<lapic_id, pc, kern_lock, irq, mpti_end, mpti, idx, cr3, tlb>>
      BY <2>14 DEF IpiAck
    <3>i. /\ ipi \in [CPU -> {"none", "check", "spin"}]
          /\ ipi_raise \in [LapicId -> {0, 1}]
      BY <2>m DEF TypeOK
    <3>r. /\ \A d \in CPU : ipi'[d] = IF d = c THEN "none" ELSE ipi[d]
          /\ \A i \in LapicId : ipi_raise'[i] = IF i = lapic_id[c] THEN 0 ELSE ipi_raise[i]
      BY <3>0, <3>i
    <3>1. TypeOK'
      BY <2>m, <2>i, <3>0 DEF TypeOK
    <3>2. MutualExclusion' /\ LoopInv'
      BY <2>m, <3>0 DEF IndInv, MutualExclusion, LoopInv
    <3>3. RaiseInv'
      BY <3>0, <3>r DEF IndInv, RaiseInv
    <3>4. SpinInv'
      BY <3>0, <3>r, <2>i DEF IndInv, SpinInv
    <3>5. AnswerInv'
      <4> SUFFICES ASSUME NEW e \in CPU, NEW i \in CPU, e # i, ipi_raise'[i] = 0,
                          \/ pc[e] = "raise" /\ i < idx
                          \/ pc[e] \in {"flush", "wait"}
                   PROVE  \E d \in CPU \ {e} : lapic_id[d] = i
        BY <3>0 DEF AnswerInv
      <4>1. CASE i = lapic_id[c]
        <5>1. e # c
          BY <3>0 DEF IndInv, SpinInv
        <5> QED BY <4>1, <5>1
      <4>2. CASE i # lapic_id[c]
        BY <4>2, <3>r, <2>i DEF IndInv, AnswerInv
      <4> QED BY <4>1, <4>2
    <3>6. ASSUME NEW d \in CPU, Owes(d) PROVE Owes(d)'
      <4>1. CASE ipi_raise[lapic_id[d]] = 1 /\ ipi[d] # "spin"
        <5>1. d # c
          BY <4>1, <3>0
        <5> QED BY <4>1, <5>1, <3>0, <3>r, <2>i DEF Owes
      <4> QED BY <4>1, <3>6, <3>0 DEF Owes
    <3>7. StaleInv'
      BY <3>0, <3>6 DEF IndInv, StaleInv
    <3> QED BY <3>1, <3>2, <3>3, <3>4, <3>5, <3>7 DEF IndInv
  <2>15. ASSUME NEW a \in La, TlbLoad(c, a) PROVE IndInv'
    <3>1. TypeOK'
      BY <2>15, <2>m DEF TlbLoad, TypeOK
    <3>2. MutualExclusion'
      BY <2>15, <2>m DEF TlbLoad, TypeOK, MutualExclusion
    <3>3. Quiet
      BY <2>15, <2>m DEF TlbLoad, TypeOK, Quiet
    <3> QED BY <1>q, <3>1, <3>2, <3>3
  <2> QED
    BY <2>1, <2>2, <2>3, <2>4, <2>5, <2>6, <2>7, <2>8, <2>9, <2>10, <2>11,
       <2>12, <2>13, <2>14, <2>15 DEF Shootdown
<1> QED BY <1>u, <1>n

(* The invariant holds in every reachable state.                           *)
LEMMA SpecIndInv == Spec => []IndInv
BY InitIndInv, NextIndInv, PTL DEF Spec

(* kern_enter and kern_leave keep at most one CPU inside the kernel.       *)
THEOREM KernLockExcludes == Spec => []MutualExclusion
<1>1. IndInv => MutualExclusion
  BY DEF IndInv
<1> QED BY <1>1, SpecIndInv, PTL

(* Once mp_tlb_invalidate has returned no CPU caches a stale translation,  *)
(* however the firmware numbers the local APICs: where an index it raises  *)
(* is not the id of another CPU, it does not return.                       *)
THEOREM ShootdownSound == Spec => []NoStaleTranslation
<1>1. IndInv => NoStaleTranslation
  <2> SUFFICES ASSUME IndInv, \A c \in CPU : pc[c] \notin Initiating,
                      NEW d \in CPU, NEW a \in La, tlb[d][a] = "stale"
               PROVE  FALSE
    BY DEF NoStaleTranslation
  <2>1. Owes(d) /\ lapic_id[d] \in LapicId
    BY IdsOfCpus DEF IndInv, StaleInv
  <2>2. ipi_raise[lapic_id[d]] # 1
    BY <2>1 DEF IndInv, RaiseInv, Initiating
  <2> QED BY <2>1, <2>2 DEF Owes, Initiating
<1> QED BY <1>1, SpecIndInv, PTL

HIDE DEF CPU, LapicId

-----------------------------------------------------------------------------
(* The scheduler.  The lemmas speak of the run queues of any state r and   *)
(* what they hold, QueuedSet(r); Good(r) stays closed.                     *)

(* The processes of Sched.                                                 *)
Procs == Task \cup Kthread

(* What the constants of Sched are.                                        *)
LEMMA SchedFacts ==
    /\ S!IsFiniteSet(Procs) /\ Idle \notin Procs /\ NoMm \notin Pgdir /\ NoCpu \notin Lcpu
    /\ Kthread \subseteq Procs
    /\ NQ \in Nat \ {0} /\ MaxSlice \in Nat \ {0} /\ S!Queue = 1 .. NQ /\ S!NoQueue = 0
    /\ \A i \in S!Queue : S!MaxTimeSlice(i) \in Nat \ {0}
BY SchedConstants DEF S!SchedAssumption, Procs, S!Queue, S!NoQueue

(* A set of naturals that is not empty has a least member.                 *)
LEMMA LeastNatural ==
    ASSUME NEW A \in SUBSET Nat, A # {}
    PROVE  \E n \in A : \A m \in A : n <= m
<1>1. PICK n \in A : \A y \in A : ~(<<y, n>> \in OpToRel(<, Nat))
  BY NatLessThanWellFounded, WFMin
<1>2. \A y \in A : ~(y < n)
  BY <1>1 DEF OpToRel
<1> QED BY <1>2

(* Induction over the naturals, for the set where a formula holds.         *)
LEMMA SetInduction ==
    ASSUME NEW A \in SUBSET Nat, 0 \in A, \A n \in A : n + 1 \in A
    PROVE  A = Nat
<1> SUFFICES ASSUME A # Nat PROVE FALSE
  OBVIOUS
<1>1. PICK n \in Nat \ A : \A m \in Nat \ A : n <= m
  BY LeastNatural
<1>2. n # 0 /\ n - 1 \in Nat
  BY <1>1
<1>3. n - 1 \in A
  BY <1>1, <1>2
<1> QED BY <1>1, <1>3

(* MLFQ_enqueue chooses one of the queues.                                 *)
LEMMA ChosenQueue ==
    ASSUME NEW r \in S!RunQueues, NEW p \in Procs
    PROVE  S!MLFQ_queue(r, p) \in S!Queue
<1>1. r.rq[p] \in (1 .. NQ) \cup {0}
  BY SchedFacts DEF S!RunQueues, Procs
<1> QED BY <1>1, SchedFacts DEF S!MLFQ_queue

(* The members of the queues.                                              *)
LEMMA Members ==
    ASSUME NEW r, S!Good(r)
    PROVE  /\ S!QueuedSet(r) \subseteq Procs
           /\ \A p : p \in S!QueuedSet(r) <=> \E i \in S!Queue : p \in S!ToSet(r.queue[i])
           /\ \A i \in S!Queue : /\ r.queue[i] \in Seq(Procs)
                                 /\ S!ToSet(r.queue[i]) \subseteq Procs
                                 /\ S!IsInjective(r.queue[i])
<1>1. \A i \in S!Queue : r.queue[i] \in Seq(Procs) /\ S!IsInjective(r.queue[i])
  BY DEF S!Good, S!RunQueues, Procs
<1>2. \A i \in S!Queue : S!ToSet(r.queue[i]) \subseteq Procs
  BY <1>1 DEF S!ToSet
<1>3. \A p : p \in S!QueuedSet(r) <=> \E i \in S!Queue : p \in S!ToSet(r.queue[i])
  BY DEF S!QueuedSet
<1> QED BY <1>1, <1>2, <1>3

(* MLFQ_enqueue of a process that is in no queue adds it.                  *)
LEMMA EnqueueAdds ==
    ASSUME NEW r, S!Good(r), NEW p \in Procs, p \notin S!QueuedSet(r)
    PROVE  /\ S!Good(S!Enqueue(r, p))
           /\ S!QueuedSet(S!Enqueue(r, p)) = S!QueuedSet(r) \cup {p}
<1> DEFINE i == S!MLFQ_queue(r, p)
           e == S!Enqueue(r, p)
           a == Append(r.queue[i], p)
           v == IF r.slice[p] = 0 \/ r.slice[p] > S!MaxTimeSlice(i)
                THEN S!MaxTimeSlice(i) ELSE r.slice[p]
<1>1. i \in S!Queue /\ r \in S!RunQueues
  BY ChosenQueue DEF S!Good
<1>2. /\ r.queue[i] \in Seq(Procs) /\ S!IsInjective(r.queue[i]) /\ p \notin S!ToSet(r.queue[i])
  BY <1>1, Members
<1>3. /\ a \in Seq(Procs) /\ S!IsInjective(a) /\ S!ToSet(a) = S!ToSet(r.queue[i]) \cup {p}
  BY <1>2, S!AppendElements
<1>4. /\ r.queue \in [S!Queue -> Seq(Procs)] /\ r.rq \in [Procs -> S!Queue \cup {S!NoQueue}]
      /\ r.slice \in [Procs -> Nat]
  BY <1>1 DEF S!RunQueues, Procs
<1>5. v \in 1 .. S!MaxTimeSlice(i) /\ v \in Nat
  <2>1. r.slice[p] \in Nat /\ S!MaxTimeSlice(i) \in Nat \ {0}
    BY <1>1, <1>4, SchedFacts
  <2> QED BY <2>1
<1>6. e = [queue |-> [r.queue EXCEPT ![i] = a], rq |-> [r.rq EXCEPT ![p] = i],
           slice |-> [r.slice EXCEPT ![p] = v]]
  BY DEF S!Enqueue
<1> HIDE DEF i, e, a, v
<1>7. /\ e.queue = [r.queue EXCEPT ![i] = a] /\ e.rq = [r.rq EXCEPT ![p] = i]
      /\ e.slice = [r.slice EXCEPT ![p] = v]
  BY <1>6
<1>8. /\ \A j \in S!Queue : e.queue[j] = IF j = i THEN a ELSE r.queue[j]
      /\ \A q \in Procs : e.rq[q] = IF q = p THEN i ELSE r.rq[q]
      /\ \A q \in Procs : e.slice[q] = IF q = p THEN v ELSE r.slice[q]
  BY <1>4, <1>7
<1>9. e \in S!RunQueues
  BY <1>1, <1>3, <1>4, <1>5, <1>6 DEF S!RunQueues, Procs
<1>10. ASSUME NEW j \in S!Queue
       PROVE  /\ S!IsInjective(e.queue[j])
              /\ \A q \in S!ToSet(e.queue[j]) : e.rq[q] = j /\ e.slice[q] \in 1 .. S!MaxTimeSlice(j)
  <2>1. /\ S!IsInjective(r.queue[j]) /\ S!ToSet(r.queue[j]) \subseteq Procs
        /\ p \notin S!ToSet(r.queue[j])
    BY Members
  <2>2. \A q \in S!ToSet(r.queue[j]) : r.rq[q] = j /\ r.slice[q] \in 1 .. S!MaxTimeSlice(j)
    BY DEF S!Good
  <2>3. CASE j = i
    BY <1>3, <1>5, <1>8, <2>1, <2>2, <2>3
  <2>4. CASE j # i
    BY <1>8, <2>1, <2>2, <2>4
  <2> QED BY <2>3, <2>4
<1>11. S!Good(e)
  BY <1>9, <1>10 DEF S!Good
<1>12. S!QueuedSet(e) = S!QueuedSet(r) \cup {p}
  <2>1. \A q : q \in S!QueuedSet(e) <=> \E j \in S!Queue : q \in S!ToSet(e.queue[j])
    BY <1>11, Members
  <2>2. \A q : q \in S!QueuedSet(r) <=> \E j \in S!Queue : q \in S!ToSet(r.queue[j])
    BY Members
  <2> QED BY <1>1, <1>3, <1>8, <2>1, <2>2
<1> QED BY <1>11, <1>12 DEF e

(* The first queue that is not empty exists unless all are.                *)
LEMMA FirstFound ==
    ASSUME NEW r, ~S!Empty(r)
    PROVE  S!FirstQueue(r) \in S!Queue /\ r.queue[S!FirstQueue(r)] # << >>
<1> DEFINE A == {i \in S!Queue : r.queue[i] # << >>}
<1>1. A # {} /\ A \in SUBSET Nat
  BY SchedFacts DEF S!Empty
<1>2. S!FirstQueue(r) = S!Min(A)
  BY DEF S!FirstQueue
<1> HIDE DEF A
<1>3. S!Min(A) \in A
  BY <1>1, LeastNatural DEF S!Min
<1> QED BY <1>2, <1>3 DEF A

(* A change of one queue leaves the rest of the record.                    *)
LEMMA OneQueueChanged ==
    ASSUME NEW x, NEW y, NEW z, NEW i, NEW a, NEW r,
           r = [queue |-> x, rq |-> y, slice |-> z]
    PROVE  [r EXCEPT !.queue[i] = a] = [queue |-> [x EXCEPT ![i] = a], rq |-> y, slice |-> z]
OBVIOUS

(* The dequeue of the next process removes it and no other.                *)
LEMMA DequeueRemoves ==
    ASSUME NEW r, S!Good(r), ~S!Empty(r)
    PROVE  /\ S!PickNext(r) \in S!QueuedSet(r) /\ S!PickNext(r) \in Procs
           /\ S!Good(S!Dequeue(r))
           /\ S!QueuedSet(S!Dequeue(r)) = S!QueuedSet(r) \ {S!PickNext(r)}
<1> DEFINE i == S!FirstQueue(r)
           e == S!Dequeue(r)
           h == S!PickNext(r)
           a == Tail(r.queue[i])
<1>1. i \in S!Queue /\ r.queue[i] # << >> /\ r \in S!RunQueues
  BY FirstFound DEF S!Good
<1>2. /\ r.queue[i] \in Seq(Procs) /\ S!IsInjective(r.queue[i])
  BY <1>1, Members
<1>3. h = Head(r.queue[i])
  BY DEF S!PickNext
<1>4. /\ a \in Seq(Procs) /\ S!IsInjective(a) /\ h \in S!ToSet(r.queue[i])
      /\ S!ToSet(a) = S!ToSet(r.queue[i]) \ {h}
  BY <1>1, <1>2, <1>3, S!TailElements
<1>5. /\ r.queue \in [S!Queue -> Seq(Procs)] /\ r.rq \in [Procs -> S!Queue \cup {S!NoQueue}]
      /\ r.slice \in [Procs -> Nat]
      /\ r = [queue |-> r.queue, rq |-> r.rq, slice |-> r.slice]
  BY <1>1 DEF S!RunQueues, Procs
<1>6. e = [queue |-> [r.queue EXCEPT ![i] = a], rq |-> r.rq, slice |-> r.slice]
  <2>1. e = [r EXCEPT !.queue[i] = a]
    BY DEF S!Dequeue
  <2> HIDE DEF e, i, a
  <2> QED BY <1>1, <1>5, <2>1, OneQueueChanged
<1> HIDE DEF i, e, a, h
<1>7. /\ e.queue = [r.queue EXCEPT ![i] = a] /\ e.rq = r.rq /\ e.slice = r.slice
  BY <1>6
<1>8. \A j \in S!Queue : e.queue[j] = IF j = i THEN a ELSE r.queue[j]
  BY <1>5, <1>7
<1>9. e \in S!RunQueues
  BY <1>1, <1>4, <1>5, <1>6 DEF S!RunQueues, Procs
<1>10. \A j \in S!Queue : /\ S!IsInjective(r.queue[j])
                          /\ \A q \in S!ToSet(r.queue[j]) :
                                r.rq[q] = j /\ r.slice[q] \in 1 .. S!MaxTimeSlice(j)
  BY DEF S!Good
<1>11. \A j \in S!Queue : S!ToSet(e.queue[j]) = S!ToSet(r.queue[j]) \ {h}
  <2> SUFFICES ASSUME NEW j \in S!Queue PROVE S!ToSet(e.queue[j]) = S!ToSet(r.queue[j]) \ {h}
    OBVIOUS
  <2>1. CASE j = i
    BY <1>4, <1>8, <2>1
  <2>2. CASE j # i
    <3>1. h \notin S!ToSet(r.queue[j])
      <4> SUFFICES ASSUME h \in S!ToSet(r.queue[j]) PROVE FALSE
        OBVIOUS
      <4>1. r.rq[h] = j
        BY <1>10
      <4>2. r.rq[h] = i
        BY <1>1, <1>4, <1>10
      <4> QED BY <2>2, <4>1, <4>2
    <3> QED BY <1>8, <2>2, <3>1
  <2> QED BY <2>1, <2>2
<1>12. S!Good(e)
  <2>1. ASSUME NEW j \in S!Queue
        PROVE  /\ S!IsInjective(e.queue[j])
               /\ \A q \in S!ToSet(e.queue[j]) : e.rq[q] = j /\ e.slice[q] \in 1 .. S!MaxTimeSlice(j)
    BY <1>4, <1>7, <1>8, <1>10, <1>11
  <2> QED BY <1>9, <2>1 DEF S!Good
<1>13. S!QueuedSet(e) = S!QueuedSet(r) \ {h}
  <2>1. \A q : q \in S!QueuedSet(e) <=> \E j \in S!Queue : q \in S!ToSet(e.queue[j])
    BY <1>12, Members
  <2>2. \A q : q \in S!QueuedSet(r) <=> \E j \in S!Queue : q \in S!ToSet(r.queue[j])
    BY Members
  <2> QED BY <1>11, <2>1, <2>2
<1>14. h \in S!QueuedSet(r) /\ h \in Procs
  BY <1>1, <1>4, Members
<1> QED BY <1>12, <1>13, <1>14 DEF e, h

(* No queue has a member exactly when pick_next returns NULL.              *)
LEMMA EmptyQueues ==
    ASSUME NEW r, S!Good(r)
    PROVE  S!Empty(r) <=> S!QueuedSet(r) = {}
<1>1. CASE S!Empty(r)
  <2>1. \A i \in S!Queue : S!ToSet(r.queue[i]) = {}
    BY <1>1, S!EmptyElements DEF S!Empty
  <2> QED BY <1>1, <2>1, Members
<1>2. CASE ~S!Empty(r)
  BY <1>2, DequeueRemoves
<1> QED BY <1>1, <1>2

-----------------------------------------------------------------------------
(* at holds what n rounds make of z.                                       *)
Rounds(at, z, l, n) == at = [k \in 0 .. n |-> IF k = 0 THEN z ELSE S!Round(at[k - 1], l)]

(* The recursion of PickLoop is well-founded.                              *)
LEMMA LoopExists ==
    ASSUME NEW z, NEW l, NEW n \in Nat
    PROVE  \E at : Rounds(at, z, l, n)
<1> DEFINE F(at, m) == Rounds(at, z, l, m)
           A == {m \in Nat : \E at : F(at, m)}
<1>1. 0 \in A
  <2>1. F([k \in 0 .. 0 |-> z], 0)
    BY DEF Rounds
  <2> QED BY <2>1
<1>2. ASSUME NEW m \in A PROVE m + 1 \in A
  <2>1. PICK at : F(at, m)
    BY <1>2
  <2> DEFINE g == [k \in 0 .. m + 1 |-> IF k <= m THEN at[k] ELSE S!Round(at[m], l)]
  <2>2. F(g, m + 1)
    BY <2>1 DEF Rounds
  <2>3. m + 1 \in Nat
    OBVIOUS
  <2> HIDE DEF F, g
  <2> QED BY <2>2, <2>3
<1>3. A = Nat
  <2>1. A \in SUBSET Nat
    OBVIOUS
  <2> HIDE DEF A
  <2> QED BY <1>1, <1>2, <2>1, SetInduction
<1> QED BY <1>3

(* PickLoop runs its rounds one after the other.                           *)
LEMMA LoopSteps ==
    ASSUME NEW r, NEW l, S!Cardinality(Procs) \in Nat
    PROVE  \E at : /\ at[0] = [r |-> r, busy |-> << >>]
                   /\ \A k \in 1 .. S!Cardinality(Procs) : at[k] = S!Round(at[k - 1], l)
                   /\ S!PickLoop(r, l) = at[S!Cardinality(Procs)]
<1> DEFINE n == S!Cardinality(Procs)
           z == [r |-> r, busy |-> << >>]
           f == CHOOSE at : Rounds(at, z, l, n)
<1>1. n \in Nat
  OBVIOUS
<1>2. S!PickLoop(r, l) = f[n]
  BY DEF S!PickLoop, Procs, Rounds
<1> HIDE DEF n, z
<1>3. \E at : Rounds(at, z, l, n)
  BY <1>1, LoopExists
<1>4. Rounds(f, z, l, n)
  BY <1>3
<1> HIDE DEF f
<1>5. f[0] = z /\ \A k \in 1 .. n : f[k] = S!Round(f[k - 1], l)
  BY <1>1, <1>4 DEF Rounds
<1> QED BY <1>2, <1>5 DEF n, z

(* Where the loop is after k rounds: it has put processes aside that may   *)
(* not run, and if it has not found one that may, or none, it has put k    *)
(* aside.                                                                  *)
AfterRounds(r, l, s, k) ==
    /\ S!Good(s.r)
    /\ s.busy \in Seq(Procs) /\ S!IsInjective(s.busy)
    /\ S!ToSet(s.busy) \cap S!QueuedSet(s.r) = {}
    /\ S!ToSet(s.busy) \cup S!QueuedSet(s.r) = S!QueuedSet(r)
    /\ \A p \in S!ToSet(s.busy) : ~S!MmFree(l, p)
    /\ S!Ends(s.r, l) \/ S!Cardinality(S!QueuedSet(s.r)) + k <= S!Cardinality(Procs)

(* A set of processes is finite, and has no more members than there are.   *)
LEMMA ProcSets ==
    ASSUME NEW A \in SUBSET Procs
    PROVE  /\ S!IsFiniteSet(A) /\ S!Cardinality(A) \in Nat
           /\ S!Cardinality(Procs) \in Nat /\ S!Cardinality(A) <= S!Cardinality(Procs)
           /\ S!Cardinality(A) = 0 => A = {}
           /\ \A x \in A : S!Cardinality(A \ {x}) = S!Cardinality(A) - 1
<1>1. S!IsFiniteSet(Procs)
  BY SchedFacts
<1>2. S!IsFiniteSet(A) /\ S!Cardinality(A) <= S!Cardinality(Procs)
  BY <1>1, S!FS_Subset
<1>3. S!Cardinality(A) \in Nat /\ S!Cardinality(Procs) \in Nat
  BY <1>1, <1>2, S!FS_CardinalityType
<1>4. S!Cardinality(A) = 0 => A = {}
  BY <1>2, S!FS_EmptySet
<1>5. ASSUME NEW x \in A PROVE S!Cardinality(A \ {x}) = S!Cardinality(A) - 1
  BY <1>2, S!FS_RemoveElement
<1> QED BY <1>2, <1>3, <1>4, <1>5

(* One round more.                                                         *)
LEMMA RoundKeeps ==
    ASSUME NEW r, NEW l, NEW s, NEW k \in Nat, AfterRounds(r, l, s, k)
    PROVE  AfterRounds(r, l, S!Round(s, l), k + 1)
<1>1. CASE S!Ends(s.r, l)
  BY <1>1 DEF S!Round, AfterRounds
<1>2. CASE ~S!Ends(s.r, l)
  <2> DEFINE h == S!PickNext(s.r)
             d == S!Dequeue(s.r)
             b == Append(s.busy, h)
             t == S!Round(s, l)
  <2>1. t = [r |-> d, busy |-> b]
    BY <1>2 DEF S!Round
  <2>2. ~S!Empty(s.r) /\ ~S!MmFree(l, h)
    BY <1>2 DEF S!Ends
  <2>3. /\ S!Good(s.r) /\ s.busy \in Seq(Procs) /\ S!IsInjective(s.busy)
        /\ S!ToSet(s.busy) \cap S!QueuedSet(s.r) = {}
        /\ S!ToSet(s.busy) \cup S!QueuedSet(s.r) = S!QueuedSet(r)
        /\ \A p \in S!ToSet(s.busy) : ~S!MmFree(l, p)
        /\ S!Cardinality(S!QueuedSet(s.r)) + k <= S!Cardinality(Procs)
    BY <1>2 DEF AfterRounds
  <2>4. /\ h \in S!QueuedSet(s.r) /\ h \in Procs /\ S!Good(d)
        /\ S!QueuedSet(d) = S!QueuedSet(s.r) \ {h}
    BY <2>2, <2>3, DequeueRemoves
  <2>5. h \notin S!ToSet(s.busy)
    BY <2>3, <2>4
  <2>6. /\ b \in Seq(Procs) /\ S!IsInjective(b) /\ S!ToSet(b) = S!ToSet(s.busy) \cup {h}
    BY <2>3, <2>4, <2>5, S!AppendElements
  <2>7. t.r = d /\ t.busy = b
    BY <2>1
  <2> HIDE DEF h, d, b, t
  <2>8. S!ToSet(b) \cap S!QueuedSet(d) = {} /\ S!ToSet(b) \cup S!QueuedSet(d) = S!QueuedSet(r)
    BY <2>3, <2>4, <2>6
  <2>9. \A p \in S!ToSet(b) : ~S!MmFree(l, p)
    BY <2>2, <2>3, <2>6
  <2>10. S!Cardinality(S!QueuedSet(d)) + (k + 1) <= S!Cardinality(Procs)
    <3>1. S!QueuedSet(s.r) \in SUBSET Procs
      BY <2>3, Members
    <3>2. /\ S!Cardinality(S!QueuedSet(s.r)) \in Nat /\ S!Cardinality(Procs) \in Nat
          /\ S!Cardinality(S!QueuedSet(d)) = S!Cardinality(S!QueuedSet(s.r)) - 1
      BY <2>4, <3>1, ProcSets
    <3> QED BY <2>3, <3>2
  <2>11. AfterRounds(r, l, t, k + 1)
    BY <2>4, <2>6, <2>7, <2>8, <2>9, <2>10 DEF AfterRounds
  <2> QED BY <2>11 DEF t
<1> QED BY <1>1, <1>2

(* The loop ends: it stops at a process that may run, or at none at all.   *)
LEMMA LoopEnds ==
    ASSUME NEW r, NEW l, S!Good(r)
    PROVE  /\ AfterRounds(r, l, S!PickLoop(r, l), S!Cardinality(Procs))
           /\ S!Ends(S!PickLoop(r, l).r, l)
<1> DEFINE n == S!Cardinality(Procs)
           e == S!PickLoop(r, l)
           z == [r |-> r, busy |-> << >>]
<1>1. S!QueuedSet(r) \in SUBSET Procs
  BY Members
<1>2. n \in Nat /\ S!Cardinality(S!QueuedSet(r)) \in Nat /\ S!Cardinality(S!QueuedSet(r)) <= n
  BY <1>1, ProcSets
<1>3. PICK at : at[0] = z /\ (\A k \in 1 .. n : at[k] = S!Round(at[k - 1], l)) /\ e = at[n]
  BY <1>2, LoopSteps
<1>4. AfterRounds(r, l, z, 0)
  <2>1. z.r = r /\ z.busy = << >>
    OBVIOUS
  <2> HIDE DEF z
  <2>2. z.busy \in Seq(Procs) /\ S!IsInjective(z.busy) /\ S!ToSet(z.busy) = {}
    BY <2>1, S!EmptyElements
  <2> HIDE DEF n
  <2>3. S!Cardinality(S!QueuedSet(z.r)) + 0 <= S!Cardinality(Procs)
    BY <1>2, <2>1 DEF n
  <2> QED BY <2>1, <2>2, <2>3 DEF AfterRounds
<1> HIDE DEF n, e, z
<1> DEFINE A == {k \in Nat : k <= n => AfterRounds(r, l, at[k], k)}
<1>5. 0 \in A
  BY <1>3, <1>4
<1>6. ASSUME NEW k \in A PROVE k + 1 \in A
  <2> SUFFICES ASSUME k + 1 <= n PROVE AfterRounds(r, l, at[k + 1], k + 1)
    OBVIOUS
  <2>1. k \in Nat /\ k + 1 \in 1 .. n /\ (k + 1) - 1 = k /\ k <= n
    BY <1>2
  <2>2. at[k + 1] = S!Round(at[k], l)
    BY <1>3, <2>1
  <2>3. AfterRounds(r, l, at[k], k)
    BY <1>6, <2>1
  <2> QED BY <2>1, <2>2, <2>3, RoundKeeps
<1>7. A = Nat
  <2>1. A \in SUBSET Nat
    OBVIOUS
  <2> HIDE DEF A
  <2> QED BY <1>5, <1>6, <2>1, SetInduction
<1>8. AfterRounds(r, l, e, n)
  BY <1>2, <1>3, <1>7
<1>9. S!Ends(e.r, l)
  <2> SUFFICES ASSUME ~S!Ends(e.r, l) PROVE FALSE
    OBVIOUS
  <2>1. S!Good(e.r) /\ S!Cardinality(S!QueuedSet(e.r)) + n <= n
    BY <1>8 DEF AfterRounds, n
  <2>2. S!QueuedSet(e.r) \in SUBSET Procs
    BY <2>1, Members
  <2>3. S!Cardinality(S!QueuedSet(e.r)) = 0
    BY <1>2, <2>1, <2>2, ProcSets
  <2>4. S!Empty(e.r)
    BY <2>1, <2>2, <2>3, ProcSets, EmptyQueues
  <2> QED BY <2>4 DEF S!Ends
<1> QED BY <1>8, <1>9 DEF n, e

(* at holds what the first n processes, from the last of busy on, make of  *)
(* the queues r.                                                           *)
Enqueues(at, r, busy, n) ==
    at = [k \in 0 .. n |-> IF k = 0 THEN r ELSE S!Enqueue(at[k - 1], busy[Len(busy) - k + 1])]

(* The recursion of EnqueueAll is well-founded.                            *)
LEMMA EnqueuesExist ==
    ASSUME NEW r, NEW busy, NEW n \in Nat
    PROVE  \E at : Enqueues(at, r, busy, n)
<1> DEFINE A == {m \in Nat : \E at : Enqueues(at, r, busy, m)}
<1>1. 0 \in A
  <2>1. Enqueues([k \in 0 .. 0 |-> r], r, busy, 0)
    BY DEF Enqueues
  <2> QED BY <2>1
<1>2. ASSUME NEW m \in A PROVE m + 1 \in A
  <2>1. PICK at : Enqueues(at, r, busy, m)
    BY <1>2
  <2> DEFINE x == S!Enqueue(at[m], busy[Len(busy) - (m + 1) + 1])
             g == [k \in 0 .. m + 1 |-> IF k <= m THEN at[k] ELSE x]
  <2>2. Enqueues(g, r, busy, m + 1)
    BY <2>1 DEF Enqueues
  <2>3. m + 1 \in Nat
    OBVIOUS
  <2> HIDE DEF g
  <2> QED BY <2>2, <2>3
<1>3. A = Nat
  <2>1. A \in SUBSET Nat
    OBVIOUS
  <2> HIDE DEF A
  <2> QED BY <1>1, <1>2, <2>1, SetInduction
<1> QED BY <1>3

(* Every process that was put aside is in a queue again.                   *)
LEMMA EnqueueAllAdds ==
    ASSUME NEW r, S!Good(r), NEW busy \in Seq(Procs), S!IsInjective(busy),
           S!ToSet(busy) \cap S!QueuedSet(r) = {}
    PROVE  /\ S!Good(S!EnqueueAll(r, busy))
           /\ S!QueuedSet(S!EnqueueAll(r, busy)) = S!QueuedSet(r) \cup S!ToSet(busy)
<1> DEFINE n == Len(busy)
           e == S!EnqueueAll(r, busy)
           f == CHOOSE at : Enqueues(at, r, busy, n)
           Done(k) == {busy[j] : j \in n - k + 1 .. n}
           A == {k \in Nat : k <= n => /\ S!Good(f[k])
                                       /\ S!QueuedSet(f[k]) = S!QueuedSet(r) \cup Done(k)}
<1>1. /\ n \in Nat /\ DOMAIN busy = 1 .. n
      /\ \A j \in 1 .. n : busy[j] \in Procs /\ busy[j] \notin S!QueuedSet(r)
      /\ \A i, j \in 1 .. n : busy[i] = busy[j] => i = j
      /\ S!ToSet(busy) = {busy[j] : j \in 1 .. n}
  BY DEF S!ToSet, S!IsInjective
<1>2. e = f[n]
  BY DEF S!EnqueueAll, Enqueues
<1>3. Enqueues(f, r, busy, n)
  <2>1. \E at : Enqueues(at, r, busy, n)
    BY <1>1, EnqueuesExist
  <2> QED BY <2>1
<1> HIDE DEF f
<1>4. f[0] = r /\ \A k \in 1 .. n : f[k] = S!Enqueue(f[k - 1], busy[n - k + 1])
  BY <1>1, <1>3 DEF Enqueues
<1> HIDE DEF n, e
<1>5. 0 \in A
  <2>1. Done(0) = {}
    BY <1>1
  <2> HIDE DEF Done
  <2> QED BY <1>4, <2>1
<1>6. ASSUME NEW k \in A PROVE k + 1 \in A
  <2> SUFFICES ASSUME k + 1 <= n
               PROVE  S!Good(f[k + 1]) /\ S!QueuedSet(f[k + 1]) = S!QueuedSet(r) \cup Done(k + 1)
    OBVIOUS
  <2> DEFINE x == busy[n - k]
  <2>1. k \in Nat /\ k + 1 \in 1 .. n /\ (k + 1) - 1 = k /\ k <= n
        /\ n - (k + 1) + 1 = n - k /\ n - k \in 1 .. n
    BY <1>1
  <2>2. S!Good(f[k]) /\ S!QueuedSet(f[k]) = S!QueuedSet(r) \cup Done(k)
    BY <1>6, <2>1
  <2>3. f[k + 1] = S!Enqueue(f[k], x)
    BY <1>4, <2>1
  <2>4. x \in Procs /\ x \notin S!QueuedSet(r) /\ x \notin Done(k)
    <3>1. ASSUME NEW j \in n - k + 1 .. n PROVE busy[j] # x
      BY <1>1, <2>1
    <3> QED BY <1>1, <2>1, <3>1
  <2>5. Done(k + 1) = Done(k) \cup {x}
    <3>1. \A j : j \in n - (k + 1) + 1 .. n <=> j \in n - k + 1 .. n \/ j = n - k
      BY <1>1, <2>1
    <3> QED BY <3>1
  <2> HIDE DEF x, Done
  <2>6. S!Good(f[k + 1]) /\ S!QueuedSet(f[k + 1]) = S!QueuedSet(f[k]) \cup {x}
    BY <2>2, <2>3, <2>4, EnqueueAdds
  <2> QED BY <2>2, <2>5, <2>6
<1>7. A = Nat
  <2>1. A \in SUBSET Nat
    OBVIOUS
  <2> HIDE DEF A
  <2> QED BY <1>5, <1>6, <2>1, SetInduction
<1>8. S!ToSet(busy) = Done(n)
  <2>1. \A j : j \in n - n + 1 .. n <=> j \in 1 .. n
    BY <1>1
  <2> QED BY <1>1, <2>1
<1> HIDE DEF Done
<1>9. S!Good(f[n]) /\ S!QueuedSet(f[n]) = S!QueuedSet(r) \cup Done(n)
  BY <1>1, <1>7
<1> QED BY <1>2, <1>8, <1>9 DEF e

(* What schedule() does with the queues r when the address spaces run as l *)
(* says: next is the process it switches to and t the queues it leaves.    *)
Dispatched(r, l, next, t) ==
    /\ S!Good(t)
    /\ next = Idle => /\ S!QueuedSet(t) = S!QueuedSet(r)
                      /\ \A p \in S!QueuedSet(r) : ~S!MmFree(l, p)
    /\ next # Idle => /\ next \in S!QueuedSet(r) /\ next \in Procs /\ S!MmFree(l, next)
                      /\ S!QueuedSet(t) = S!QueuedSet(r) \ {next}

(* It switches to a process that may run, or to idle when none may, and    *)
(* every other process is in the queues as before.                         *)
LEMMA ScheduleDispatches ==
    ASSUME NEW r, NEW l, S!Good(r), NEW s, s = S!PickLoop(r, l),
           NEW next, next = IF S!Empty(s.r) THEN Idle ELSE S!PickNext(s.r)
    PROVE  Dispatched(r, l, next,
              S!EnqueueAll(IF next = Idle THEN s.r ELSE S!Dequeue(s.r), s.busy))
<1> DEFINE d == IF next = Idle THEN s.r ELSE S!Dequeue(s.r)
           t == S!EnqueueAll(d, s.busy)
<1>1. AfterRounds(r, l, s, S!Cardinality(Procs)) /\ S!Ends(s.r, l)
  BY LoopEnds
<1>2. /\ S!Good(s.r) /\ s.busy \in Seq(Procs) /\ S!IsInjective(s.busy)
      /\ S!ToSet(s.busy) \cap S!QueuedSet(s.r) = {}
      /\ S!ToSet(s.busy) \cup S!QueuedSet(s.r) = S!QueuedSet(r)
      /\ \A p \in S!ToSet(s.busy) : ~S!MmFree(l, p)
  BY <1>1 DEF AfterRounds
<1>3. CASE S!Empty(s.r)
  <2>1. next = Idle /\ d = s.r /\ S!QueuedSet(s.r) = {}
    BY <1>2, <1>3, EmptyQueues
  <2> HIDE DEF d, t
  <2>2. S!Good(t) /\ S!QueuedSet(t) = S!QueuedSet(d) \cup S!ToSet(s.busy)
    BY <1>2, <2>1, EnqueueAllAdds DEF t
  <2>3. Dispatched(r, l, next, t)
    BY <1>2, <2>1, <2>2 DEF Dispatched
  <2> QED BY <2>3 DEF t, d
<1>4. CASE ~S!Empty(s.r)
  <2>1. /\ next = S!PickNext(s.r) /\ next \in S!QueuedSet(s.r) /\ next \in Procs
        /\ S!Good(S!Dequeue(s.r)) /\ S!QueuedSet(S!Dequeue(s.r)) = S!QueuedSet(s.r) \ {next}
    BY <1>2, <1>4, DequeueRemoves
  <2>2. next # Idle /\ d = S!Dequeue(s.r)
    BY <2>1, SchedFacts
  <2>3. S!MmFree(l, next)
    BY <1>1, <1>4, <2>1 DEF S!Ends
  <2> HIDE DEF d, t
  <2>4. /\ S!Good(d) /\ S!QueuedSet(d) = S!QueuedSet(s.r) \ {next}
        /\ S!ToSet(s.busy) \cap S!QueuedSet(d) = {}
    BY <1>2, <2>1, <2>2
  <2>5. S!Good(t) /\ S!QueuedSet(t) = S!QueuedSet(d) \cup S!ToSet(s.busy)
    BY <1>2, <2>4, EnqueueAllAdds DEF t
  <2>6. S!QueuedSet(t) = S!QueuedSet(r) \ {next}
    BY <1>2, <2>1, <2>4, <2>5
  <2>7. Dispatched(r, l, next, t)
    BY <1>2, <2>1, <2>2, <2>3, <2>5, <2>6 DEF Dispatched
  <2> QED BY <2>7 DEF t, d
<1> QED BY <1>3, <1>4

-----------------------------------------------------------------------------
(* Who should be in a queue, as QueuedOnce says.                           *)
Ready(st, cur) == {p \in Procs : st[p] = "RUNNABLE" /\ \A c \in Lcpu : cur[c] # p}

(* The invariant of Sched in the terms of the lemmas.                      *)
LEMMA SchedInv ==
    S!IndInv <=> /\ S!TypeOK /\ S!Good(rs) /\ S!QueuedSet(rs) = Ready(state, current)
                 /\ \A c, d \in Lcpu : current[c] = current[d] /\ current[c] # Idle => c = d
                 /\ S!MmOnOneCpu /\ S!StoppedInKernel
<1>1. Ready(state, current) = {p \in Task \cup Kthread : state[p] = "RUNNABLE" /\ ~S!OnCpu(p)}
  BY DEF Ready, S!OnCpu, Procs
<1> QED BY <1>1 DEF S!IndInv, S!QueuedOnce

(* The same after a step.                                                  *)
LEMMA SchedInvNext ==
    S!IndInv' <=> /\ S!TypeOK' /\ S!Good(rs') /\ S!QueuedSet(rs') = Ready(state', current')
                  /\ \A c, d \in Lcpu : current'[c] = current'[d] /\ current'[c] # Idle => c = d
                  /\ S!MmOnOneCpu' /\ S!StoppedInKernel'
<1>1. Ready(state', current') = {p \in Task \cup Kthread : state'[p] = "RUNNABLE" /\ ~S!OnCpu(p)'}
  BY DEF Ready, S!OnCpu, Procs
<1>2. S!Good(rs)' <=> S!Good(rs')
  BY DEF S!Good, S!RunQueues
<1>3. S!QueuedSet(rs)' = S!QueuedSet(rs')
  BY DEF S!QueuedSet
<1> QED BY <1>1, <1>2, <1>3 DEF S!IndInv, S!QueuedOnce

(* The types, by name.                                                     *)
LEMMA SchedTypes ==
    ASSUME S!TypeOK
    PROVE  /\ state \in [Procs -> {"UNINIT", "RUNNABLE", "SLEEPING", "ZOMBIE"}]
           /\ where \in [Procs -> {"user", "kernel", "presleep", "trapret"}]
           /\ mm \in [Procs -> Pgdir \cup {NoMm}]
           /\ lapic \in [Pgdir -> Lcpu \cup {NoCpu}]
           /\ need_resched \in [Procs -> BOOLEAN]
           /\ rs \in S!RunQueues
           /\ current \in [Lcpu -> Procs \cup {Idle}]
           /\ kern \in Lcpu \cup {NoCpu}
BY DEF S!TypeOK, Procs

(* The same after a step.                                                  *)
LEMMA SchedTypesNext ==
    ASSUME state' \in [Procs -> {"UNINIT", "RUNNABLE", "SLEEPING", "ZOMBIE"}],
           where' \in [Procs -> {"user", "kernel", "presleep", "trapret"}],
           mm' \in [Procs -> Pgdir \cup {NoMm}],
           lapic' \in [Pgdir -> Lcpu \cup {NoCpu}],
           need_resched' \in [Procs -> BOOLEAN],
           rs' \in S!RunQueues,
           current' \in [Lcpu -> Procs \cup {Idle}],
           kern' \in Lcpu \cup {NoCpu}
    PROVE  S!TypeOK'
<1>1. S!RunQueues' = S!RunQueues
  BY DEF S!RunQueues
<1> QED BY <1>1 DEF S!TypeOK, Procs

(* What schedule() assigns, with its local variables next and free and the *)
(* queues r after the process that calls it is back in one.                *)
Switch(c, next, free, r) ==
    /\ S!Good(r)
    /\ S!QueuedSet(r) = {p \in Procs : state[p] = "RUNNABLE" /\ \A d \in Lcpu \ {c} : current[d] # p}
    /\ Dispatched(r, free, next, rs')
    /\ free = S!ReleaseMm(lapic, current[c])
    /\ lapic' = S!TakeMm(free, next, c)
    /\ current' = [current EXCEPT ![c] = next]
    /\ kern' = IF next = Idle THEN NoCpu ELSE c
    /\ need_resched' = [q \in Procs |-> IF q = current[c] THEN FALSE ELSE need_resched[q]]
    /\ state' = state /\ mm' = mm

(* schedule() is such a switch.                                            *)
LEMMA ScheduleSwitches ==
    ASSUME S!IndInv, NEW c \in Lcpu, S!Schedule(c)
    PROVE  \E next, free, r : Switch(c, next, free, r)
<1> DEFINE p == current[c]
           r == S!ReEnqueue(p)
           free == S!ReleaseMm(lapic, p)
           s == S!PickLoop(r, free)
           next == IF S!Empty(s.r) THEN Idle ELSE S!PickNext(s.r)
<1>1. /\ S!Good(rs) /\ S!QueuedSet(rs) = Ready(state, current)
      /\ \A x, y \in Lcpu : current[x] = current[y] /\ current[x] # Idle => x = y
      /\ S!TypeOK
  BY SchedInv
<1>2. p \in Procs \cup {Idle}
  BY <1>1, SchedTypes
<1>3. /\ S!Good(r)
      /\ S!QueuedSet(r) = {q \in Procs : state[q] = "RUNNABLE" /\ \A d \in Lcpu \ {c} : current[d] # q}
  <2>1. CASE p \in Procs /\ state[p] = "RUNNABLE"
    <3>1. r = S!Enqueue(rs, p)
      BY <2>1 DEF S!ReEnqueue, Procs
    <3>2. p \notin S!QueuedSet(rs)
      BY <1>1 DEF Ready
    <3> HIDE DEF r
    <3>3. S!Good(r) /\ S!QueuedSet(r) = S!QueuedSet(rs) \cup {p}
      BY <1>1, <2>1, <3>1, <3>2, EnqueueAdds
    <3>4. \A d \in Lcpu \ {c} : current[d] # p
      BY <1>1, <2>1, SchedFacts
    <3> QED BY <1>1, <2>1, <3>3, <3>4 DEF Ready
  <2>2. CASE ~(p \in Procs /\ state[p] = "RUNNABLE")
    <3>1. r = rs
      BY <2>2 DEF S!ReEnqueue, Procs
    <3> HIDE DEF r
    <3> QED BY <1>1, <1>2, <2>2, <3>1 DEF Ready
  <2> QED BY <2>1, <2>2
<1>4. /\ rs' = S!EnqueueAll(IF next = Idle THEN s.r ELSE S!Dequeue(s.r), s.busy)
      /\ lapic' = S!TakeMm(free, next, c)
      /\ current' = [current EXCEPT ![c] = next]
      /\ kern' = IF next = Idle THEN NoCpu ELSE c
      /\ need_resched' = [q \in Procs |-> IF q = p THEN FALSE ELSE need_resched[q]]
      /\ state' = state /\ mm' = mm
  BY DEF S!Schedule, Procs
<1>5. free = S!ReleaseMm(lapic, current[c])
  OBVIOUS
<1>6. Dispatched(r, free, next,
           S!EnqueueAll(IF next = Idle THEN s.r ELSE S!Dequeue(s.r), s.busy))
  <2>1. s = S!PickLoop(r, free) /\ next = IF S!Empty(s.r) THEN Idle ELSE S!PickNext(s.r)
    OBVIOUS
  <2> HIDE DEF r, free, s, next
  <2> QED BY <1>3, <2>1, ScheduleDispatches
<1> HIDE DEF r, free, s, next
<1>7. Switch(c, next, free, r)
  BY <1>3, <1>4, <1>5, <1>6 DEF Switch
<1> QED BY <1>7

(* The address spaces after a switch.                                      *)
LEMMA SwitchMm ==
    ASSUME S!IndInv, NEW c \in Lcpu, NEW next, NEW free, NEW r, Switch(c, next, free, r)
    PROVE  S!MmOnOneCpu' /\ lapic' \in [Pgdir -> Lcpu \cup {NoCpu}]
<1>1. /\ S!MmOnOneCpu /\ mm \in [Procs -> Pgdir \cup {NoMm}]
      /\ lapic \in [Pgdir -> Lcpu \cup {NoCpu}]
      /\ current \in [Lcpu -> Procs \cup {Idle}]
      /\ NoCpu \notin Lcpu /\ NoMm \notin Pgdir /\ Idle \notin Procs
  BY SchedInv, SchedTypes, SchedFacts
<1>2. \A m \in Pgdir, d \in Lcpu : lapic[m] = d <=> current[d] \in Procs /\ mm[current[d]] = m
  BY <1>1 DEF S!MmOnOneCpu, Procs
<1>3. /\ free \in [Pgdir -> Lcpu \cup {NoCpu}]
      /\ \A m \in Pgdir : free[m] = IF current[c] \in Procs /\ mm[current[c]] = m
                                    THEN NoCpu ELSE lapic[m]
  <2>1. free = IF current[c] \in Procs /\ mm[current[c]] # NoMm
               THEN [lapic EXCEPT ![mm[current[c]]] = NoCpu] ELSE lapic
    BY DEF Switch, S!ReleaseMm, Procs
  <2> QED BY <1>1, <2>1
<1>4. \A m \in Pgdir, d \in Lcpu :
        free[m] = d <=> d # c /\ current[d] \in Procs /\ mm[current[d]] = m
  BY <1>1, <1>2, <1>3
<1>5. /\ next = Idle \/ (next \in Procs /\ S!MmFree(free, next))
      /\ current' = [current EXCEPT ![c] = next] /\ mm' = mm
  BY DEF Switch, Dispatched
<1>6. /\ lapic' \in [Pgdir -> Lcpu \cup {NoCpu}]
      /\ \A m \in Pgdir : lapic'[m] = IF next \in Procs /\ mm[next] = m THEN c ELSE free[m]
  <2>1. lapic' = IF next \in Procs /\ mm[next] # NoMm
                 THEN [free EXCEPT ![mm[next]] = c] ELSE free
    BY DEF Switch, S!TakeMm, Procs
  <2>2. next \in Procs => mm[next] \in Pgdir \cup {NoMm}
    BY <1>1
  <2> QED BY <1>1, <1>3, <2>1, <2>2
<1>7. next \in Procs /\ mm[next] \in Pgdir => free[mm[next]] = NoCpu
  BY <1>1, <1>5 DEF S!MmFree
<1>8. ASSUME NEW m \in Pgdir, NEW d \in Lcpu
      PROVE  lapic'[m] = d <=> current'[d] \in Procs /\ mm'[current'[d]] = m
  <2>1. CASE d = c
    <3>1. current'[d] = next
      BY <1>1, <1>5, <2>1
    <3> QED BY <1>1, <1>4, <1>5, <1>6, <2>1, <3>1
  <2>2. CASE d # c
    <3>1. current'[d] = current[d]
      BY <1>1, <1>5, <2>2
    <3>2. CASE next \in Procs /\ mm[next] = m
      BY <1>1, <1>4, <1>5, <1>6, <1>7, <2>2, <3>1, <3>2
    <3>3. CASE ~(next \in Procs /\ mm[next] = m)
      BY <1>4, <1>5, <1>6, <2>2, <3>1, <3>3
    <3> QED BY <3>2, <3>3
  <2> QED BY <2>1, <2>2
<1>9. S!MmOnOneCpu'
  BY <1>8 DEF S!MmOnOneCpu, Procs
<1> QED BY <1>6, <1>9

(* The whole schedule(), with what its caller does to its own place.       *)
LEMMA ScheduleStep ==
    ASSUME S!IndInv, NEW c \in Lcpu, kern = c, S!Schedule(c),
           where' \in [Procs -> {"user", "kernel", "presleep", "trapret"}],
           \A q \in Procs : q # current[c] => where'[q] = where[q]
    PROVE  S!IndInv' /\ S!IdleOnlyIfBusy
<1>1. PICK next, free, r : Switch(c, next, free, r)
  BY ScheduleSwitches
<1>2. /\ S!Good(r)
      /\ S!QueuedSet(r) = {p \in Procs : state[p] = "RUNNABLE" /\ \A d \in Lcpu \ {c} : current[d] # p}
      /\ Dispatched(r, free, next, rs')
      /\ current' = [current EXCEPT ![c] = next]
      /\ kern' = IF next = Idle THEN NoCpu ELSE c
      /\ need_resched' = [q \in Procs |-> IF q = current[c] THEN FALSE ELSE need_resched[q]]
      /\ state' = state /\ mm' = mm
  BY <1>1 DEF Switch
<1>3. /\ S!Good(rs')
      /\ next = Idle \/ (next \in S!QueuedSet(r) /\ next \in Procs)
      /\ S!QueuedSet(rs') = S!QueuedSet(r) \ {next}
  <2>1. S!QueuedSet(r) \subseteq Procs
    BY <1>2
  <2>2. CASE next = Idle
    <3>1. S!Good(rs') /\ S!QueuedSet(rs') = S!QueuedSet(r)
      BY <1>2, <2>2 DEF Dispatched
    <3>2. Idle \notin Procs
      BY SchedFacts
    <3>3. S!QueuedSet(r) = S!QueuedSet(r) \ {next}
      BY <2>1, <2>2, <3>2
    <3> QED BY <2>2, <3>1, <3>3
  <2>3. CASE next # Idle
    BY <1>2, <2>3 DEF Dispatched
  <2> QED BY <2>2, <2>3
<1>4. S!MmOnOneCpu' /\ lapic' \in [Pgdir -> Lcpu \cup {NoCpu}]
  BY <1>1, SwitchMm
<1>5. /\ state \in [Procs -> {"UNINIT", "RUNNABLE", "SLEEPING", "ZOMBIE"}]
      /\ mm \in [Procs -> Pgdir \cup {NoMm}] /\ need_resched \in [Procs -> BOOLEAN]
      /\ current \in [Lcpu -> Procs \cup {Idle}]
  BY SchedInv, SchedTypes
<1>6. /\ \A d \in Lcpu : current'[d] = IF d = c THEN next ELSE current[d]
      /\ current' \in [Lcpu -> Procs \cup {Idle}]
  BY <1>2, <1>3, <1>5
<1>7. S!TypeOK'
  <2>1. rs' \in S!RunQueues
    BY <1>3 DEF S!Good
  <2>2. need_resched' \in [Procs -> BOOLEAN]
    BY <1>2, <1>5, Zenon
  <2>3. kern' \in Lcpu \cup {NoCpu}
    BY <1>2
  <2> QED BY <1>2, <1>4, <1>5, <1>6, <2>1, <2>2, <2>3, SchedTypesNext
<1>8. S!QueuedSet(rs') = Ready(state', current')
  BY <1>2, <1>3, <1>6 DEF Ready
<1>9. \A x, y \in Lcpu : current'[x] = current'[y] /\ current'[x] # Idle => x = y
  <2>1. \A x, y \in Lcpu : current[x] = current[y] /\ current[x] # Idle => x = y
    BY SchedInv
  <2>2. next # Idle => \A x \in Lcpu \ {c} : current[x] # next
    BY <1>2, <1>3
  <2> QED BY <1>6, <2>1, <2>2
<1>10. S!StoppedInKernel'
  <2> SUFFICES ASSUME NEW d \in Lcpu, current'[d] \in Procs, state'[current'[d]] # "RUNNABLE"
               PROVE  FALSE
    BY DEF S!StoppedInKernel, Procs
  <2>1. CASE d = c
    BY <1>2, <1>3, <1>6, <2>1, SchedFacts
  <2>2. CASE d # c
    <3>1. S!StoppedInKernel
      BY SchedInv
    <3>2. current[d] \in Procs /\ state[current[d]] # "RUNNABLE"
      BY <1>2, <1>6, <2>2
    <3> QED BY <2>2, <3>1, <3>2 DEF S!StoppedInKernel, Procs
  <2> QED BY <2>1, <2>2
<1>11. S!IdleOnlyIfBusy
  <2> SUFFICES ASSUME NEW d \in Lcpu, kern = d, kern' = NoCpu, current'[d] = Idle, S!Dispatchable'
               PROVE  FALSE
    BY DEF S!IdleOnlyIfBusy
  <2>1. next = Idle
    BY <1>6
  <2>2. lapic' = free
    BY <1>1, <2>1, SchedFacts DEF Switch, S!TakeMm, Procs
  <2>3. PICK p \in S!QueuedSet(rs') : mm'[p] = NoMm \/ lapic'[mm'[p]] = NoCpu
    BY DEF S!Dispatchable, S!MmFree, S!QueuedSet
  <2>4. S!QueuedSet(rs') = S!QueuedSet(r) /\ \A q \in S!QueuedSet(r) : ~S!MmFree(free, q)
    BY <1>2, <2>1 DEF Dispatched
  <2> QED BY <1>2, <2>2, <2>3, <2>4 DEF S!MmFree
<1> QED BY <1>3, <1>4, <1>7, <1>8, <1>9, <1>10, <1>11, SchedInvNext

(* A process that is being woken, forked or reaped is on no CPU, its own   *)
(* apart, and in no queue.                                                 *)
LEMMA NotRunnable ==
    ASSUME S!IndInv, NEW q \in Procs, state[q] # "RUNNABLE"
    PROVE  /\ q \notin S!QueuedSet(rs)
           /\ \A d \in Lcpu : current[d] = q => kern = d /\ where[q] = "presleep"
<1>1. S!QueuedSet(rs) = Ready(state, current) /\ S!StoppedInKernel
  BY SchedInv
<1> QED BY <1>1 DEF Ready, S!StoppedInKernel, Procs

(* The slice and the queue of a process that is in none may change.        *)
LEMMA SameQueues ==
    ASSUME NEW r0, S!Good(r0), NEW r \in S!RunQueues, r.queue = r0.queue,
           \A p \in S!QueuedSet(r0) : r.rq[p] = r0.rq[p] /\ r.slice[p] = r0.slice[p]
    PROVE  S!Good(r) /\ S!QueuedSet(r) = S!QueuedSet(r0)
<1>1. ASSUME NEW i \in S!Queue
      PROVE  /\ S!IsInjective(r.queue[i])
             /\ \A p \in S!ToSet(r.queue[i]) : r.rq[p] = i /\ r.slice[p] \in 1 .. S!MaxTimeSlice(i)
  <2>1. /\ S!IsInjective(r0.queue[i])
        /\ \A p \in S!ToSet(r0.queue[i]) : r0.rq[p] = i /\ r0.slice[p] \in 1 .. S!MaxTimeSlice(i)
    BY DEF S!Good
  <2>2. S!ToSet(r0.queue[i]) \subseteq S!QueuedSet(r0)
    BY Members
  <2> QED BY <2>1, <2>2
<1>2. S!Good(r)
  BY <1>1 DEF S!Good
<1> QED BY <1>2 DEF S!QueuedSet

(* The fields of the queues.                                               *)
LEMMA QueueFields ==
    ASSUME NEW r \in S!RunQueues
    PROVE  /\ r.queue \in [S!Queue -> Seq(Procs)] /\ r.rq \in [Procs -> S!Queue \cup {S!NoQueue}]
           /\ r.slice \in [Procs -> Nat]
           /\ r = [queue |-> r.queue, rq |-> r.rq, slice |-> r.slice]
BY DEF S!RunQueues, Procs

(* proc_tick counts the slice of the process on the CPU down.              *)
LEMMA TickQueues ==
    ASSUME S!IndInv, NEW p \in Procs, p \notin S!QueuedSet(rs), S!ProcTick(p)
    PROVE  /\ S!Good(rs') /\ S!QueuedSet(rs') = S!QueuedSet(rs)
           /\ need_resched' \in [Procs -> BOOLEAN]
<1> DEFINE n == IF rs.slice[p] > 0 THEN rs.slice[p] - 1 ELSE 0
           z == [rs.slice EXCEPT ![p] = n]
<1>1. S!Good(rs) /\ rs \in S!RunQueues /\ need_resched \in [Procs -> BOOLEAN]
  BY SchedInv, SchedTypes
<1>2. /\ rs.queue \in [S!Queue -> Seq(Procs)] /\ rs.rq \in [Procs -> S!Queue \cup {S!NoQueue}]
      /\ rs.slice \in [Procs -> Nat]
      /\ rs = [queue |-> rs.queue, rq |-> rs.rq, slice |-> rs.slice]
  BY <1>1, QueueFields
<1>3. rs' = [rs EXCEPT !.slice[p] = n] /\ need_resched' = [need_resched EXCEPT ![p] = @ \/ n = 0]
  BY DEF S!ProcTick
<1>4. n \in Nat
  BY <1>2
<1> HIDE DEF n
<1>5. rs' = [queue |-> rs.queue, rq |-> rs.rq, slice |-> z]
  BY <1>2, <1>3
<1>6. z \in [Procs -> Nat] /\ \A q \in Procs \ {p} : z[q] = rs.slice[q]
  BY <1>2, <1>4
<1> HIDE DEF z
<1>7. rs' \in S!RunQueues /\ rs'.queue = rs.queue /\ rs'.rq = rs.rq /\ rs'.slice = z
  <2>1. rs'.queue = rs.queue /\ rs'.rq = rs.rq /\ rs'.slice = z
    BY <1>5
  <2>2. rs' \in S!RunQueues
    BY <1>2, <1>5, <1>6 DEF S!RunQueues, Procs
  <2> QED BY <2>1, <2>2
<1>8. S!QueuedSet(rs) \subseteq Procs \ {p}
  BY <1>1, Members
<1>9. S!Good(rs') /\ S!QueuedSet(rs') = S!QueuedSet(rs)
  BY <1>1, <1>6, <1>7, <1>8, SameQueues
<1>10. need_resched' \in [Procs -> BOOLEAN]
  BY <1>1, <1>3, Zenon
<1> QED BY <1>9, <1>10

(* A step without a switch, from a CPU that is not idle or does not leave  *)
(* the kernel, takes no CPU idle.                                          *)
LEMMA NoSwitch ==
    ASSUME current' = current, \A d \in Lcpu : kern = d /\ kern' = NoCpu => current[d] # Idle
    PROVE  S!IdleOnlyIfBusy
BY DEF S!IdleOnlyIfBusy

(* Steps that change at most where processes are, need_resched, the kernel *)
(* lock and the slices of processes that run.                              *)
LEMMA PlaceStep ==
    ASSUME S!IndInv, S!Good(rs'), S!QueuedSet(rs') = S!QueuedSet(rs),
           state' = state, current' = current, mm' = mm, lapic' = lapic,
           where' \in [Procs -> {"user", "kernel", "presleep", "trapret"}],
           need_resched' \in [Procs -> BOOLEAN], kern' \in Lcpu \cup {NoCpu},
           \A d \in Lcpu : current[d] \in Procs /\ state[current[d]] # "RUNNABLE"
                => kern' = d /\ where'[current[d]] = "presleep"
    PROVE  S!IndInv'
<1>1. /\ S!TypeOK /\ S!QueuedSet(rs) = Ready(state, current) /\ S!MmOnOneCpu
      /\ \A c, d \in Lcpu : current[c] = current[d] /\ current[c] # Idle => c = d
  BY SchedInv
<1>2. S!TypeOK'
  <2>1. rs' \in S!RunQueues
    BY DEF S!Good
  <2> QED BY <1>1, <2>1, SchedTypes, SchedTypesNext
<1>3. S!MmOnOneCpu'
  BY <1>1 DEF S!MmOnOneCpu
<1>4. S!StoppedInKernel'
  BY DEF S!StoppedInKernel, Procs
<1> QED BY <1>1, <1>2, <1>3, <1>4, SchedInvNext

(* The process on CPU c, which is in the kernel or not.                    *)
LEMMA OnThisCpu ==
    ASSUME S!IndInv, NEW c \in Lcpu, current[c] \in Procs
    PROVE  /\ current[c] \notin S!QueuedSet(rs)
           /\ state[current[c]] # "RUNNABLE" => kern = c /\ where[current[c]] = "presleep"
           /\ \A d \in Lcpu : current[d] = current[c] => d = c
           /\ \A d \in Lcpu \ {c} : kern \in {c, NoCpu} /\ current[d] \in Procs
                                        => state[current[d]] = "RUNNABLE"
<1>1. /\ S!QueuedSet(rs) = Ready(state, current) /\ S!StoppedInKernel
      /\ \A x, d \in Lcpu : current[x] = current[d] /\ current[x] # Idle => x = d
  BY SchedInv
<1>2. Idle \notin Procs /\ NoCpu \notin Lcpu
  BY SchedFacts
<1> QED BY <1>1, <1>2 DEF Ready, S!StoppedInKernel, Procs

(* A trap out of user mode or out of the idle loop.                        *)
LEMMA EnterStep ==
    ASSUME S!IndInv, NEW c \in Lcpu, S!TimerTrap(c) \/ S!Syscall(c) \/ S!IdleTrap(c)
    PROVE  S!IndInv' /\ S!IdleOnlyIfBusy
<1>1. /\ S!TypeOK /\ S!Good(rs) /\ S!StoppedInKernel /\ kern = NoCpu /\ kern' = c
      /\ state' = state /\ mm' = mm /\ lapic' = lapic /\ current' = current
  BY SchedInv DEF S!TimerTrap, S!Syscall, S!IdleTrap
<1>2. NoCpu \notin Lcpu
  BY SchedFacts
<1>3. S!IdleOnlyIfBusy
  BY <1>1, <1>2, NoSwitch
<1>4. \A d \in Lcpu : ~(current[d] \in Procs /\ state[current[d]] # "RUNNABLE")
  BY <1>1, <1>2 DEF S!StoppedInKernel, Procs
<1>5. where' \in [Procs -> {"user", "kernel", "presleep", "trapret"}]
  <2>1. where \in [Procs -> {"user", "kernel", "presleep", "trapret"}]
    BY <1>1, SchedTypes
  <2>2. where' = where \/ where' = [where EXCEPT ![current[c]] = "kernel"]
    BY DEF S!TimerTrap, S!Syscall, S!IdleTrap
  <2> QED BY <2>1, <2>2
<1>6. /\ S!Good(rs') /\ S!QueuedSet(rs') = S!QueuedSet(rs)
      /\ need_resched' \in [Procs -> BOOLEAN]
  <2>1. CASE S!TimerTrap(c)
    <3>1. current[c] \in Procs /\ S!ProcTick(current[c])
      BY <2>1 DEF S!TimerTrap, Procs
    <3> QED BY <3>1, OnThisCpu, TickQueues
  <2>2. CASE ~S!TimerTrap(c)
    <3>1. rs' = rs /\ need_resched' = need_resched
      BY <2>2 DEF S!Syscall, S!IdleTrap
    <3> QED BY <1>1, <3>1, SchedTypes
  <2> QED BY <2>1, <2>2
<1> QED BY <1>1, <1>3, <1>4, <1>5, <1>6, PlaceStep

(* A tick in a kernel thread, a yield, and the call of schedule() by       *)
(* init_main.                                                              *)
LEMMA StayStep ==
    ASSUME S!IndInv, NEW c \in Lcpu, S!KernelTick(c) \/ S!KernelYield(c) \/ S!Yield(c)
    PROVE  S!IndInv' /\ S!IdleOnlyIfBusy
<1>1. /\ S!TypeOK /\ S!Good(rs) /\ S!StoppedInKernel /\ kern = c /\ kern' = kern
      /\ state' = state /\ mm' = mm /\ lapic' = lapic /\ current' = current
      /\ current[c] \in Procs
  <2>1. Kthread \subseteq Procs
    BY SchedFacts
  <2> QED BY <2>1, SchedInv DEF S!KernelTick, S!KernelYield, S!Yield, S!InKernel, Procs
<1>2. NoCpu \notin Lcpu
  BY SchedFacts
<1>3. S!IdleOnlyIfBusy
  BY <1>1, <1>2, NoSwitch
<1>4. /\ where \in [Procs -> {"user", "kernel", "presleep", "trapret"}]
      /\ need_resched \in [Procs -> BOOLEAN] /\ kern \in Lcpu \cup {NoCpu}
  BY <1>1, SchedTypes
<1>5. where' = where \/ where' = [where EXCEPT ![current[c]] = "presleep"]
  BY DEF S!KernelTick, S!KernelYield, S!Yield
<1>6. where' \in [Procs -> {"user", "kernel", "presleep", "trapret"}]
  BY <1>4, <1>5
<1>7. \A d \in Lcpu : current[d] \in Procs /\ state[current[d]] # "RUNNABLE"
                        => kern' = d /\ where'[current[d]] = "presleep"
  <2>1. \A d \in Lcpu : current[d] \in Procs /\ state[current[d]] # "RUNNABLE"
                          => kern = d /\ where[current[d]] = "presleep"
    BY <1>1 DEF S!StoppedInKernel, Procs
  <2> QED BY <1>1, <1>4, <1>5, <2>1
<1>8. /\ S!Good(rs') /\ S!QueuedSet(rs') = S!QueuedSet(rs)
      /\ need_resched' \in [Procs -> BOOLEAN]
  <2>1. CASE S!KernelTick(c)
    <3>1. S!ProcTick(current[c])
      BY <2>1 DEF S!KernelTick
    <3> QED BY <1>1, <3>1, OnThisCpu, TickQueues
  <2>2. CASE ~S!KernelTick(c)
    <3>1. rs' = rs
      BY <2>2 DEF S!KernelYield, S!Yield
    <3>2. need_resched' = need_resched \/ need_resched' = [need_resched EXCEPT ![current[c]] = TRUE]
      BY <2>2 DEF S!KernelYield, S!Yield
    <3>3. need_resched' \in [Procs -> BOOLEAN]
      BY <1>4, <3>2, Zenon
    <3> QED BY <1>1, <3>1, <3>3
  <2> QED BY <2>1, <2>2
<1> QED BY <1>1, <1>3, <1>4, <1>6, <1>7, <1>8, PlaceStep

(* The way back to user mode.                                              *)
LEMMA LeaveStep ==
    ASSUME S!IndInv, NEW c \in Lcpu, kern = c, current[c] \in Procs,
           where[current[c]] # "presleep", S!Leave(c)
    PROVE  S!IndInv' /\ S!IdleOnlyIfBusy
<1>1. /\ S!TypeOK /\ S!Good(rs) /\ S!StoppedInKernel /\ kern' = NoCpu /\ rs' = rs
      /\ state' = state /\ mm' = mm /\ lapic' = lapic /\ current' = current
      /\ need_resched' = need_resched /\ where' = [where EXCEPT ![current[c]] = "user"]
  BY SchedInv DEF S!Leave
<1>2. /\ where \in [Procs -> {"user", "kernel", "presleep", "trapret"}]
      /\ need_resched \in [Procs -> BOOLEAN]
      /\ NoCpu \notin Lcpu /\ Idle \notin Procs
  BY <1>1, SchedTypes, SchedFacts
<1>3. S!IdleOnlyIfBusy
  BY <1>1, <1>2, NoSwitch
<1>4. \A d \in Lcpu : ~(current[d] \in Procs /\ state[current[d]] # "RUNNABLE")
  BY <1>1, <1>2 DEF S!StoppedInKernel, Procs
<1>5. where' \in [Procs -> {"user", "kernel", "presleep", "trapret"}]
  BY <1>1, <1>2
<1> QED BY <1>1, <1>2, <1>3, <1>4, <1>5, PlaceStep

(* A process marks itself SLEEPING or ZOMBIE; schedule() follows.          *)
LEMMA StopStep ==
    ASSUME S!IndInv, NEW c \in Lcpu, S!SetSleeping(c) \/ S!SetZombie(c)
    PROVE  S!IndInv' /\ S!IdleOnlyIfBusy
<1> DEFINE p == current[c]
<1>1. /\ S!TypeOK /\ S!Good(rs) /\ S!StoppedInKernel /\ kern = c /\ p \in Procs
      /\ kern' = kern /\ rs' = rs /\ mm' = mm /\ lapic' = lapic /\ current' = current
      /\ need_resched' = need_resched /\ where' = [where EXCEPT ![p] = "presleep"]
      /\ S!QueuedSet(rs) = Ready(state, current) /\ S!MmOnOneCpu
      /\ \A x, d \in Lcpu : current[x] = current[d] /\ current[x] # Idle => x = d
  BY SchedInv DEF S!SetSleeping, S!SetZombie, S!InKernel, Procs
<1>2. PICK v \in {"SLEEPING", "ZOMBIE"} : state' = [state EXCEPT ![p] = v]
  BY DEF S!SetSleeping, S!SetZombie
<1>3. /\ state \in [Procs -> {"UNINIT", "RUNNABLE", "SLEEPING", "ZOMBIE"}]
      /\ where \in [Procs -> {"user", "kernel", "presleep", "trapret"}]
      /\ NoCpu \notin Lcpu /\ Idle \notin Procs
  BY <1>1, SchedTypes, SchedFacts
<1>4. S!IdleOnlyIfBusy
  BY <1>1, <1>3, NoSwitch
<1>5. S!TypeOK'
  <2>1. /\ state' \in [Procs -> {"UNINIT", "RUNNABLE", "SLEEPING", "ZOMBIE"}]
        /\ where' \in [Procs -> {"user", "kernel", "presleep", "trapret"}]
    BY <1>1, <1>2, <1>3
  <2> QED BY <1>1, <2>1, SchedTypes, SchedTypesNext
<1>6. S!QueuedSet(rs') = Ready(state', current')
  BY <1>1, <1>2, <1>3 DEF Ready
<1>7. S!MmOnOneCpu'
  BY <1>1 DEF S!MmOnOneCpu
<1>8. S!StoppedInKernel'
  <2> SUFFICES ASSUME NEW d \in Lcpu, current[d] \in Procs, state'[current[d]] # "RUNNABLE"
               PROVE  kern = d /\ where'[current[d]] = "presleep"
    BY <1>1 DEF S!StoppedInKernel, Procs
  <2>1. CASE d = c
    BY <1>1, <1>3, <2>1
  <2>2. CASE d # c
    <3>1. current[d] # p
      BY <1>1, <1>3, <2>2
    <3>2. state'[current[d]] = state[current[d]]
      BY <1>2, <1>3, <3>1
    <3> QED BY <1>1, <2>2, <3>2 DEF S!StoppedInKernel, Procs
  <2> QED BY <2>1, <2>2
<1> QED BY <1>1, <1>4, <1>5, <1>6, <1>7, <1>8, SchedInvNext

(* wakeup_proc: the process is queued, unless it is the one on this CPU,   *)
(* which schedule() will find runnable.                                    *)
LEMMA WakeStep ==
    ASSUME S!IndInv, NEW c \in Lcpu, NEW q \in Procs, S!WakeupProc(c, q)
    PROVE  S!IndInv' /\ S!IdleOnlyIfBusy
<1>1. /\ S!TypeOK /\ S!Good(rs) /\ S!StoppedInKernel /\ kern = c /\ state[q] = "SLEEPING"
      /\ kern' = kern /\ mm' = mm /\ lapic' = lapic /\ current' = current
      /\ need_resched' = need_resched /\ where' = where
      /\ state' = [state EXCEPT ![q] = "RUNNABLE"]
      /\ S!QueuedSet(rs) = Ready(state, current) /\ S!MmOnOneCpu
      /\ \A x, d \in Lcpu : current[x] = current[d] /\ current[x] # Idle => x = d
  BY SchedInv DEF S!WakeupProc, S!InKernel
<1>2. /\ state \in [Procs -> {"UNINIT", "RUNNABLE", "SLEEPING", "ZOMBIE"}]
      /\ NoCpu \notin Lcpu /\ Idle \notin Procs
  BY <1>1, SchedTypes, SchedFacts
<1>3. S!IdleOnlyIfBusy
  BY <1>1, <1>2, NoSwitch
<1>4. q \notin S!QueuedSet(rs) /\ \A d \in Lcpu : current[d] = q => kern = d
  BY <1>1, NotRunnable
<1>5. S!Good(rs') /\ S!QueuedSet(rs') = Ready(state', current')
  <2>1. CASE q = current[c]
    <3>1. rs' = rs
      BY <2>1 DEF S!WakeupProc
    <3>2. Ready(state', current') = Ready(state, current)
      BY <1>1, <1>2, <2>1 DEF Ready
    <3> QED BY <1>1, <3>1, <3>2
  <2>2. CASE q # current[c]
    <3>1. rs' = S!Enqueue(rs, q)
      BY <2>2 DEF S!WakeupProc
    <3>2. S!Good(rs') /\ S!QueuedSet(rs') = S!QueuedSet(rs) \cup {q}
      BY <1>1, <1>4, <3>1, EnqueueAdds
    <3>3. Ready(state', current') = Ready(state, current) \cup {q}
      BY <1>1, <1>2, <1>4, <2>2 DEF Ready
    <3> QED BY <1>1, <3>2, <3>3
  <2> QED BY <2>1, <2>2
<1>6. S!TypeOK'
  <2>1. /\ state' \in [Procs -> {"UNINIT", "RUNNABLE", "SLEEPING", "ZOMBIE"}]
        /\ rs' \in S!RunQueues
    BY <1>1, <1>2, <1>5 DEF S!Good
  <2> QED BY <1>1, <2>1, SchedTypes, SchedTypesNext
<1>7. S!MmOnOneCpu'
  BY <1>1 DEF S!MmOnOneCpu
<1>8. S!StoppedInKernel'
  <2>1. \A p \in Procs : state'[p] # "RUNNABLE" => state[p] # "RUNNABLE"
    BY <1>1, <1>2
  <2> QED BY <1>1, <2>1 DEF S!StoppedInKernel, Procs
<1> QED BY <1>1, <1>3, <1>5, <1>6, <1>7, <1>8, SchedInvNext

(* do_wait frees a zombie, which is in no queue and on no CPU.             *)
LEMMA ReapStep ==
    ASSUME S!IndInv, NEW c \in Lcpu, NEW q \in Procs, S!Reap(c, q)
    PROVE  S!IndInv' /\ S!IdleOnlyIfBusy
<1>1. /\ S!TypeOK /\ S!Good(rs) /\ S!StoppedInKernel /\ kern = c /\ state[q] = "ZOMBIE"
      /\ kern' = kern /\ mm' = mm /\ lapic' = lapic /\ current' = current
      /\ need_resched' = [need_resched EXCEPT ![q] = FALSE] /\ where' = where
      /\ state' = [state EXCEPT ![q] = "UNINIT"]
      /\ rs' = [rs EXCEPT !.rq[q] = S!NoQueue, !.slice[q] = 0]
      /\ S!QueuedSet(rs) = Ready(state, current) /\ S!MmOnOneCpu
      /\ \A x, d \in Lcpu : current[x] = current[d] /\ current[x] # Idle => x = d
      /\ current[c] \in Procs /\ where[current[c]] = "kernel"
  BY SchedInv DEF S!Reap, S!InKernel, Procs
<1>2. /\ state \in [Procs -> {"UNINIT", "RUNNABLE", "SLEEPING", "ZOMBIE"}]
      /\ need_resched \in [Procs -> BOOLEAN] /\ rs \in S!RunQueues
      /\ NoCpu \notin Lcpu /\ Idle \notin Procs
  BY <1>1, SchedTypes, SchedFacts
<1>3. S!IdleOnlyIfBusy
  BY <1>1, <1>2, NoSwitch
<1>4. /\ q \notin S!QueuedSet(rs)
      /\ \A d \in Lcpu : current[d] = q => kern = d /\ where[q] = "presleep"
  BY <1>1, NotRunnable
<1>5. \A d \in Lcpu : current[d] # q
  BY <1>1, <1>4
<1>6. S!Good(rs') /\ S!QueuedSet(rs') = S!QueuedSet(rs) /\ rs' \in S!RunQueues
  <2> DEFINE y == [rs.rq EXCEPT ![q] = S!NoQueue]
             z == [rs.slice EXCEPT ![q] = 0]
  <2>1. /\ rs.queue \in [S!Queue -> Seq(Procs)] /\ rs.rq \in [Procs -> S!Queue \cup {S!NoQueue}]
        /\ rs.slice \in [Procs -> Nat]
        /\ rs = [queue |-> rs.queue, rq |-> rs.rq, slice |-> rs.slice]
    BY <1>2, QueueFields
  <2>2. rs' = [queue |-> rs.queue, rq |-> y, slice |-> z]
    BY <1>1, <2>1
  <2>3. /\ y \in [Procs -> S!Queue \cup {S!NoQueue}] /\ z \in [Procs -> Nat]
        /\ \A p \in Procs \ {q} : y[p] = rs.rq[p] /\ z[p] = rs.slice[p]
    BY <2>1
  <2> HIDE DEF y, z
  <2>4. rs'.queue = rs.queue /\ rs'.rq = y /\ rs'.slice = z
    BY <2>2
  <2>5. rs' \in S!RunQueues
    BY <2>1, <2>2, <2>3 DEF S!RunQueues, Procs
  <2>6. S!QueuedSet(rs) \subseteq Procs \ {q}
    BY <1>1, <1>4, Members
  <2>7. \A x \in S!QueuedSet(rs) : rs'.rq[x] = rs.rq[x] /\ rs'.slice[x] = rs.slice[x]
    BY <2>3, <2>4, <2>6
  <2> QED BY <1>1, <2>4, <2>5, <2>7, SameQueues
<1>7. S!QueuedSet(rs') = Ready(state', current')
  <2>1. Ready(state', current') = Ready(state, current)
    BY <1>1, <1>2 DEF Ready
  <2> QED BY <1>1, <1>6, <2>1
<1>8. S!TypeOK'
  <2>1. state' \in [Procs -> {"UNINIT", "RUNNABLE", "SLEEPING", "ZOMBIE"}]
    BY <1>1, <1>2
  <2>2. need_resched' \in [Procs -> BOOLEAN]
    BY <1>1, <1>2, Zenon
  <2> QED BY <1>1, <1>6, <2>1, <2>2, SchedTypes, SchedTypesNext
<1>9. S!MmOnOneCpu'
  BY <1>1 DEF S!MmOnOneCpu
<1>10. S!StoppedInKernel'
  <2>1. \A d \in Lcpu : current[d] \in Procs => state'[current[d]] = state[current[d]]
    BY <1>1, <1>2, <1>5
  <2> QED BY <1>1, <2>1 DEF S!StoppedInKernel, Procs
<1> QED BY <1>1, <1>3, <1>6, <1>7, <1>8, <1>9, <1>10, SchedInvNext

(* do_fork: the child is in no queue and on no CPU before.                 *)
LEMMA ForkStep ==
    ASSUME S!IndInv, NEW c \in Lcpu, NEW q \in Procs, S!Fork(c, q)
    PROVE  S!IndInv' /\ S!IdleOnlyIfBusy
<1> DEFINE p == current[c]
           half == rs.slice[p] \div 2
           z == [rs.slice EXCEPT ![q] = half, ![p] = @ - half]
           r == [rs EXCEPT !.slice = z]
<1>1. /\ S!TypeOK /\ S!Good(rs) /\ S!StoppedInKernel /\ kern = c /\ state[q] = "UNINIT"
      /\ kern' = kern /\ lapic' = lapic /\ current' = current
      /\ need_resched' = need_resched
      /\ state' = [state EXCEPT ![q] = "RUNNABLE"]
      /\ S!QueuedSet(rs) = Ready(state, current) /\ S!MmOnOneCpu
      /\ \A x, d \in Lcpu : current[x] = current[d] /\ current[x] # Idle => x = d
      /\ p \in Procs /\ where[p] = "kernel"
  BY SchedInv DEF S!Fork, S!InKernel, Procs
<1>2. /\ state \in [Procs -> {"UNINIT", "RUNNABLE", "SLEEPING", "ZOMBIE"}]
      /\ where \in [Procs -> {"user", "kernel", "presleep", "trapret"}]
      /\ mm \in [Procs -> Pgdir \cup {NoMm}] /\ rs \in S!RunQueues
      /\ NoCpu \notin Lcpu /\ Idle \notin Procs
  BY <1>1, SchedTypes, SchedFacts
<1>3. S!IdleOnlyIfBusy
  BY <1>1, <1>2, NoSwitch
<1>4. /\ q \notin S!QueuedSet(rs)
      /\ \A d \in Lcpu : current[d] = q => kern = d /\ where[q] = "presleep"
  BY <1>1, NotRunnable
<1>5. \A d \in Lcpu : current[d] # q
  BY <1>1, <1>4
<1>6. /\ where' \in [Procs -> {"user", "kernel", "presleep", "trapret"}]
      /\ \A x \in Procs \ {q} : where'[x] = where[x]
  <2>1. where' = [where EXCEPT ![q] = IF mm[p] = NoMm THEN "kernel" ELSE "trapret"]
    BY DEF S!Fork
  <2> QED BY <1>2, <2>1
<1>7. /\ mm' \in [Procs -> Pgdir \cup {NoMm}]
      /\ \A x \in Procs \ {q} : mm'[x] = mm[x]
  <2>1. CASE mm[p] = NoMm
    BY <1>2, <2>1 DEF S!Fork
  <2>2. CASE mm[p] # NoMm
    <3>1. PICK m \in Pgdir : mm' = [mm EXCEPT ![q] = m]
      BY <1>1, <1>2, <2>2 DEF S!Fork
    <3> QED BY <1>2, <3>1
  <2> QED BY <2>1, <2>2
<1>8. rs' = S!Enqueue(r, q)
  BY DEF S!Fork
<1>9. S!Good(r) /\ S!QueuedSet(r) = S!QueuedSet(rs)
  <2>1. /\ rs.queue \in [S!Queue -> Seq(Procs)] /\ rs.rq \in [Procs -> S!Queue \cup {S!NoQueue}]
        /\ rs.slice \in [Procs -> Nat]
        /\ rs = [queue |-> rs.queue, rq |-> rs.rq, slice |-> rs.slice]
    BY <1>2, QueueFields
  <2>2. p # q
    BY <1>5
  <2>3. rs.slice[p] \in Nat /\ half \in Nat /\ rs.slice[p] - half \in Nat
    BY <1>1, <2>1
  <2> HIDE DEF half, p
  <2>4. r = [queue |-> rs.queue, rq |-> rs.rq, slice |-> z]
    <3> HIDE DEF z
    <3> QED BY <2>1
  <2>5. z \in [Procs -> Nat] /\ \A x \in Procs \ {p, q} : z[x] = rs.slice[x]
    BY <1>1, <2>1, <2>2, <2>3
  <2> HIDE DEF z, r
  <2>6. r.queue = rs.queue /\ r.rq = rs.rq /\ r.slice = z
    BY <2>4
  <2>7. r \in S!RunQueues
    BY <2>1, <2>4, <2>5 DEF S!RunQueues, Procs
  <2>8. S!QueuedSet(rs) \subseteq Procs \ {p, q}
    <3>1. p \notin S!QueuedSet(rs)
      BY <1>1, OnThisCpu DEF p
    <3> QED BY <1>1, <1>4, <3>1, Members
  <2> QED BY <1>1, <2>5, <2>6, <2>7, <2>8, SameQueues
<1> HIDE DEF r, z, half
<1>10. S!Good(rs') /\ S!QueuedSet(rs') = S!QueuedSet(rs) \cup {q} /\ rs' \in S!RunQueues
  <2>1. S!Good(rs') /\ S!QueuedSet(rs') = S!QueuedSet(rs) \cup {q}
    BY <1>4, <1>8, <1>9, EnqueueAdds
  <2> QED BY <2>1 DEF S!Good
<1>11. S!QueuedSet(rs') = Ready(state', current')
  <2>1. Ready(state', current') = Ready(state, current) \cup {q}
    BY <1>1, <1>2, <1>5 DEF Ready
  <2> QED BY <1>1, <1>10, <2>1
<1>12. S!TypeOK'
  <2>1. state' \in [Procs -> {"UNINIT", "RUNNABLE", "SLEEPING", "ZOMBIE"}]
    BY <1>1, <1>2
  <2> QED BY <1>1, <1>6, <1>7, <1>10, <2>1, SchedTypes, SchedTypesNext
<1>13. S!MmOnOneCpu'
  <2>1. \A d \in Lcpu : current[d] \in Procs => mm'[current[d]] = mm[current[d]]
    BY <1>5, <1>7
  <2> QED BY <1>1, <2>1 DEF S!MmOnOneCpu, Procs
<1>14. S!StoppedInKernel'
  <2>1. \A d \in Lcpu : current[d] \in Procs =>
            state'[current[d]] = state[current[d]] /\ where'[current[d]] = where[current[d]]
    BY <1>1, <1>2, <1>5, <1>6
  <2> QED BY <1>1, <2>1 DEF S!StoppedInKernel, Procs
<1> QED BY <1>1, <1>3, <1>10, <1>11, <1>12, <1>13, <1>14, SchedInvNext

(* An address space is given up, or installed by its only user.            *)
LEMMA MmStep ==
    ASSUME S!IndInv, NEW c \in Lcpu, S!DropMm(c) \/ \E m \in Pgdir : S!LoadIcode(c, m)
    PROVE  S!IndInv' /\ S!IdleOnlyIfBusy
<1> DEFINE p == current[c]
<1>1. /\ S!TypeOK /\ S!Good(rs) /\ S!StoppedInKernel /\ kern = c
      /\ kern' = kern /\ current' = current /\ rs' = rs /\ state' = state /\ where' = where
      /\ need_resched' = need_resched
      /\ S!QueuedSet(rs) = Ready(state, current) /\ S!MmOnOneCpu
      /\ \A x, d \in Lcpu : current[x] = current[d] /\ current[x] # Idle => x = d
      /\ p \in Procs
  BY SchedInv DEF S!DropMm, S!LoadIcode, S!InKernel, Procs
<1>2. /\ mm \in [Procs -> Pgdir \cup {NoMm}] /\ lapic \in [Pgdir -> Lcpu \cup {NoCpu}]
      /\ current \in [Lcpu -> Procs \cup {Idle}]
      /\ NoCpu \notin Lcpu /\ Idle \notin Procs /\ NoMm \notin Pgdir
  BY <1>1, SchedTypes, SchedFacts
<1>3. S!IdleOnlyIfBusy
  BY <1>1, <1>2, NoSwitch
<1>4. \A d \in Lcpu \ {c} : current[d] # p
  BY <1>1, <1>2
<1>5. \A m \in Pgdir, d \in Lcpu : lapic[m] = d <=> current[d] \in Procs /\ mm[current[d]] = m
  BY <1>1 DEF S!MmOnOneCpu, Procs
<1>6. PICK m \in Pgdir, v \in Pgdir \cup {NoMm}, x \in Lcpu \cup {NoCpu} :
        /\ mm' = [mm EXCEPT ![p] = v] /\ lapic' = [lapic EXCEPT ![m] = x]
        /\ \/ mm[p] = m /\ v = NoMm /\ x = NoCpu
           \/ mm[p] = NoMm /\ v = m /\ x = c /\ \A s \in Procs : mm[s] # m
  <2>1. CASE S!DropMm(c)
    <3>1. mm[p] \in Pgdir
      BY <1>1, <1>2, <2>1 DEF S!DropMm
    <3> QED BY <2>1, <3>1 DEF S!DropMm
  <2>2. CASE \E m \in Pgdir : S!LoadIcode(c, m)
    BY <2>2 DEF S!LoadIcode, Procs
  <2> QED BY <2>1, <2>2
<1> HIDE DEF p
<1>7. /\ mm' \in [Procs -> Pgdir \cup {NoMm}] /\ lapic' \in [Pgdir -> Lcpu \cup {NoCpu}]
      /\ mm'[p] = v /\ \A s \in Procs \ {p} : mm'[s] = mm[s]
      /\ lapic'[m] = x /\ \A n \in Pgdir \ {m} : lapic'[n] = lapic[n]
  BY <1>1, <1>2, <1>6
<1>8. ASSUME NEW n \in Pgdir, NEW d \in Lcpu
      PROVE  lapic'[n] = d <=> current'[d] \in Procs /\ mm'[current'[d]] = n
  <2>1. CASE d = c
    <3>1. current'[d] = p /\ p \in Procs /\ mm'[p] = v /\ (lapic[n] = c <=> mm[p] = n)
      BY <1>1, <1>5, <1>7, <2>1 DEF p
    <3>2. CASE n = m
      BY <1>2, <1>6, <1>7, <2>1, <3>1, <3>2
    <3>3. CASE n # m
      BY <1>2, <1>6, <1>7, <2>1, <3>1, <3>3
    <3> QED BY <3>2, <3>3
  <2>2. CASE d # c
    <3>1. current'[d] = current[d] /\ (current[d] \in Procs => mm'[current[d]] = mm[current[d]])
      BY <1>1, <1>4, <1>7, <2>2
    <3>2. CASE n = m
      <4>1. lapic'[n] # d
        BY <1>2, <1>6, <1>7, <2>2, <3>2
      <4>2. ~(current[d] \in Procs /\ mm[current[d]] = m)
        <5>1. lapic[m] = c <=> mm[p] = m
          BY <1>1, <1>5 DEF p
        <5>2. lapic[m] = d <=> current[d] \in Procs /\ mm[current[d]] = m
          BY <1>5
        <5> QED BY <1>6, <2>2, <5>1, <5>2
      <4> QED BY <3>1, <3>2, <4>1, <4>2
    <3>3. CASE n # m
      BY <1>5, <1>7, <3>1, <3>3
    <3> QED BY <3>2, <3>3
  <2> QED BY <2>1, <2>2
<1>9. S!MmOnOneCpu'
  BY <1>8 DEF S!MmOnOneCpu, Procs
<1>10. S!TypeOK'
  BY <1>1, <1>7, SchedTypes, SchedTypesNext
<1>11. S!StoppedInKernel'
  BY <1>1 DEF S!StoppedInKernel
<1> QED BY <1>1, <1>3, <1>9, <1>10, <1>11, SchedInvNext

(* Right after the boot: user_main is queued and every CPU is idle.        *)
LEMMA SchedInit == S!Init => S!IndInv
<1> SUFFICES ASSUME S!Init PROVE S!IndInv
  OBVIOUS
<1>1. PICK p0 \in Procs :
        /\ state = [p \in Procs |-> IF p = p0 THEN "RUNNABLE" ELSE "UNINIT"]
        /\ where = [p \in Procs |-> "kernel"]
        /\ mm = [p \in Procs |-> NoMm]
        /\ lapic = [m \in Pgdir |-> NoCpu]
        /\ need_resched = [p \in Procs |-> FALSE]
        /\ rs = [queue |-> [i \in S!Queue |-> IF i = 1 THEN <<p0>> ELSE << >>],
                 rq |-> [p \in Procs |-> IF p = p0 THEN 1 ELSE S!NoQueue],
                 slice |-> [p \in Procs |-> IF p = p0 THEN MaxSlice ELSE 0]]
        /\ current = [c \in Lcpu |-> Idle]
        /\ kern = NoCpu
  BY DEF S!Init, Procs
<1>2. /\ Idle \notin Procs /\ NoCpu \notin Lcpu /\ NoMm \notin Pgdir
      /\ S!NoQueue = 0 /\ 1 \in S!Queue /\ MaxSlice \in Nat \ {0}
  BY SchedFacts
<1>3. MaxSlice <= S!MaxTimeSlice(1)
  BY <1>2, SchedFacts DEF S!MaxTimeSlice
<1>4. /\ <<p0>> \in Seq(Procs) /\ S!IsInjective(<<p0>>) /\ S!ToSet(<<p0>>) = {p0}
      /\ << >> \in Seq(Procs) /\ S!IsInjective(<< >>) /\ S!ToSet(<< >>) = {}
  BY S!EmptyElements DEF S!IsInjective, S!ToSet
<1>5. /\ rs.queue = [i \in S!Queue |-> IF i = 1 THEN <<p0>> ELSE << >>]
      /\ rs.rq = [p \in Procs |-> IF p = p0 THEN 1 ELSE S!NoQueue]
      /\ rs.slice = [p \in Procs |-> IF p = p0 THEN MaxSlice ELSE 0]
      /\ rs = [queue |-> rs.queue, rq |-> rs.rq, slice |-> rs.slice]
  BY <1>1
<1>6. rs \in S!RunQueues
  <2>1. rs.queue \in [S!Queue -> Seq(Procs)]
    BY <1>4, <1>5
  <2>2. rs.rq \in [Procs -> S!Queue \cup {S!NoQueue}] /\ rs.slice \in [Procs -> Nat]
    BY <1>2, <1>5
  <2> QED BY <1>5, <2>1, <2>2 DEF S!RunQueues, Procs
<1>7. S!Good(rs)
  <2>1. ASSUME NEW i \in S!Queue
        PROVE  /\ S!IsInjective(rs.queue[i])
               /\ \A p \in S!ToSet(rs.queue[i]) : rs.rq[p] = i /\ rs.slice[p] \in 1 .. S!MaxTimeSlice(i)
    <3>1. CASE i = 1
      <4>1. rs.queue[i] = <<p0>> /\ rs.rq[p0] = 1 /\ rs.slice[p0] = MaxSlice
        BY <1>5, <3>1
      <4>2. MaxSlice \in 1 .. S!MaxTimeSlice(i)
        BY <1>2, <1>3, <3>1, SchedFacts
      <4> QED BY <1>4, <3>1, <4>1, <4>2
    <3>2. CASE i # 1
      <4>1. rs.queue[i] = << >>
        BY <1>5, <3>2
      <4> QED BY <1>4, <4>1
    <3> QED BY <3>1, <3>2
  <2> QED BY <1>6, <2>1 DEF S!Good
<1>8. S!QueuedSet(rs) = Ready(state, current)
  <2>1. \A p : p \in S!QueuedSet(rs) <=> \E i \in S!Queue : p \in S!ToSet(rs.queue[i])
    BY <1>7, Members
  <2>2. \A i \in S!Queue : S!ToSet(rs.queue[i]) = IF i = 1 THEN {p0} ELSE {}
    BY <1>4, <1>5
  <2>3. S!QueuedSet(rs) = {p0}
    BY <1>2, <2>1, <2>2
  <2>4. Ready(state, current) = {p0}
    BY <1>1, <1>2 DEF Ready
  <2> QED BY <2>3, <2>4
<1>9. S!TypeOK
  <2>1. /\ state \in [Procs -> {"UNINIT", "RUNNABLE", "SLEEPING", "ZOMBIE"}]
        /\ where \in [Procs -> {"user", "kernel", "presleep", "trapret"}]
        /\ mm \in [Procs -> Pgdir \cup {NoMm}] /\ lapic \in [Pgdir -> Lcpu \cup {NoCpu}]
        /\ current \in [Lcpu -> Procs \cup {Idle}]
    BY <1>1
  <2>2. need_resched \in [Procs -> BOOLEAN]
    BY <1>1, Zenon
  <2> QED BY <1>1, <1>6, <2>1, <2>2 DEF S!TypeOK, Procs
<1>10. S!MmOnOneCpu /\ S!StoppedInKernel
  BY <1>1, <1>2 DEF S!MmOnOneCpu, S!StoppedInKernel, Procs
<1>11. \A c, d \in Lcpu : current[c] = current[d] /\ current[c] # Idle => c = d
  BY <1>1
<1> QED BY <1>7, <1>8, <1>9, <1>10, <1>11, SchedInv

(* Every step keeps the invariant and takes no CPU idle over a process it  *)
(* could run.                                                              *)
LEMMA SchedStep ==
    ASSUME S!IndInv, S!Next
    PROVE  S!IndInv' /\ S!IdleOnlyIfBusy
<1>1. PICK c \in Lcpu :
        \/ S!Running(c)
        \/ S!Syscall(c) \/ S!KernelTick(c) \/ S!SetSleeping(c) \/ S!KernelYield(c)
        \/ S!SleepSchedule(c) \/ S!DropMm(c) \/ S!SetZombie(c) \/ S!Yield(c)
        \/ \E m \in Pgdir : S!LoadIcode(c, m)
        \/ \E q \in Procs : S!WakeupProc(c, q) \/ S!Fork(c, q) \/ S!Reap(c, q)
  BY DEF S!Next, Procs
<1>2. /\ where \in [Procs -> {"user", "kernel", "presleep", "trapret"}]
      /\ Idle \notin Procs
  BY SchedInv, SchedTypes, SchedFacts
<1>3. CASE S!TimerTrap(c) \/ S!Syscall(c) \/ S!IdleTrap(c)
  BY <1>3, EnterStep
<1>4. CASE S!IdleSchedule(c)
  <2>1. kern = c /\ S!Schedule(c) /\ where' = where
    BY <1>4 DEF S!IdleSchedule
  <2> QED BY <1>2, <2>1, ScheduleStep
<1>5. CASE S!SleepSchedule(c)
  <2>1. kern = c /\ S!Schedule(c) /\ where' = [where EXCEPT ![current[c]] = "kernel"]
    BY <1>5 DEF S!SleepSchedule
  <2>2. /\ where' \in [Procs -> {"user", "kernel", "presleep", "trapret"}]
        /\ \A q \in Procs : q # current[c] => where'[q] = where[q]
    BY <1>2, <2>1
  <2> QED BY <2>1, <2>2, ScheduleStep
<1>6. CASE S!TrapReturn(c)
  <2>1. /\ kern = c /\ current[c] \in Procs /\ where[current[c]] = "kernel"
    BY <1>6 DEF S!TrapReturn, S!InKernel, Procs
  <2>2. CASE need_resched[current[c]]
    <3>1. S!Schedule(c) /\ where' = [where EXCEPT ![current[c]] = "trapret"]
      BY <1>6, <2>2 DEF S!TrapReturn
    <3>2. /\ where' \in [Procs -> {"user", "kernel", "presleep", "trapret"}]
          /\ \A q \in Procs : q # current[c] => where'[q] = where[q]
      BY <1>2, <3>1
    <3> QED BY <2>1, <3>1, <3>2, ScheduleStep
  <2>3. CASE ~need_resched[current[c]]
    <3>1. S!Leave(c)
      BY <1>6, <2>3 DEF S!TrapReturn
    <3> QED BY <2>1, <3>1, LeaveStep
  <2> QED BY <2>2, <2>3
<1>7. CASE S!KernLeave(c)
  <2>1. /\ kern = c /\ current[c] \in Procs /\ where[current[c]] # "presleep" /\ S!Leave(c)
    BY <1>7 DEF S!KernLeave, Procs
  <2> QED BY <2>1, LeaveStep
<1>8. CASE S!KernelTick(c) \/ S!KernelYield(c) \/ S!Yield(c)
  BY <1>8, StayStep
<1>9. CASE S!SetSleeping(c) \/ S!SetZombie(c)
  BY <1>9, StopStep
<1>10. CASE S!DropMm(c) \/ \E m \in Pgdir : S!LoadIcode(c, m)
  BY <1>10, MmStep
<1>11. CASE \E q \in Procs : S!WakeupProc(c, q) \/ S!Fork(c, q) \/ S!Reap(c, q)
  <2>1. PICK q \in Procs : S!WakeupProc(c, q) \/ S!Fork(c, q) \/ S!Reap(c, q)
    BY <1>11
  <2> QED BY <2>1, WakeStep, ForkStep, ReapStep
<1> QED BY <1>1, <1>3, <1>4, <1>5, <1>6, <1>7, <1>8, <1>9, <1>10, <1>11 DEF S!Running

(* A step in which nothing changes.                                        *)
LEMMA SchedStutter ==
    ASSUME S!IndInv, UNCHANGED S!vars
    PROVE  S!IndInv'
<1>1. /\ state' = state /\ where' = where /\ mm' = mm /\ lapic' = lapic /\ rs' = rs
      /\ need_resched' = need_resched /\ current' = current /\ kern' = kern
  BY DEF S!vars
<1>2. S!TypeOK' /\ S!MmOnOneCpu' /\ S!StoppedInKernel'
  <2>1. S!TypeOK /\ S!MmOnOneCpu /\ S!StoppedInKernel
    BY SchedInv
  <2>2. S!TypeOK'
    BY <1>1, <2>1, SchedTypes, SchedTypesNext
  <2> QED BY <1>1, <2>1, <2>2 DEF S!MmOnOneCpu, S!StoppedInKernel
<1> QED BY <1>1, <1>2, SchedInv, SchedInvNext

(* The invariant of the scheduler holds in every reachable state.          *)
LEMMA SchedAlways == S!Spec => []S!IndInv
<1>1. S!IndInv /\ [S!Next]_(S!vars) => S!IndInv'
  BY SchedStep, SchedStutter
<1> QED BY <1>1, SchedInit, PTL DEF S!Spec

(* A runnable process is in exactly one run queue or on exactly one CPU, a *)
(* process that sleeps or is dead is in no queue, and an address space     *)
(* runs on the CPU that mm->lapic names and on no other, for every number  *)
(* of CPUs, processes, address spaces and run queues.                      *)
THEOREM SchedulerSound == S!Spec => []SchedSound
<1>1. S!IndInv => SchedSound
  BY DEF SchedSound
<1> QED BY <1>1, SchedAlways, PTL

(* schedule() takes a CPU idle only when every queued process waits for an *)
(* address space that is busy.                                             *)
THEOREM SchedulerWorks == S!Spec => WorkConserving
<1>1. S!IndInv /\ [S!Next]_(S!vars) => [unit = "sched" => S!IdleOnlyIfBusy]_schedVars
  BY SchedStep DEF S!vars, schedVars
<1> QED BY <1>1, SchedAlways, PTL DEF S!Spec, WorkConserving

-----------------------------------------------------------------------------
(* The event processes of kern-river.                                      *)

(* What the constants of River are.                                        *)
LEMMA RiverFacts ==
    /\ E!ProcIdle \notin Eproc /\ Pool \in [Event -> Eproc] /\ IpiEvent \subseteq Event
    /\ E!Proc = Eproc \cup {E!ProcIdle}
BY RiverConstants DEF E!RiverAssumption, E!Proc

(* The fields of a state.                                                  *)
LEMMA RiverFields ==
    ASSUME NEW s \in E!States
    PROVE  /\ s.status \in [E!Proc -> {"WAIT", "WEAK", "STRONG"}]
           /\ s.slice \in [E!Proc -> BOOLEAN]
           /\ s.pc \in [E!Proc -> {"loop", "handler", "exhaust", "wait", "yield"}]
           /\ s.queue \in Seq(Eproc) /\ s.cur \in E!Proc
           /\ s.pool \in [Eproc -> Seq(Event)]
           /\ s.event \in [Event -> {"WAIT", "QUEUE", "STRONG"}]
           /\ s.owed \in SUBSET Event
           /\ s.torn \in {"no", "queued while running", "attached twice", "pool", "ready queue"}
           /\ s = [status |-> s.status, slice |-> s.slice, pc |-> s.pc, queue |-> s.queue,
                   cur |-> s.cur, pool |-> s.pool, event |-> s.event, owed |-> s.owed,
                   torn |-> s.torn]
BY DEF E!States

(* How a list may be spoilt.                                               *)
Torns == {"no", "queued while running", "attached twice", "pool", "ready queue"}

(* t is s but for the fields in F.                                         *)
Differ(s, t, F) ==
    /\ t \in E!States
    /\ "status" \notin F => t.status = s.status
    /\ "slice" \notin F => t.slice = s.slice
    /\ "pc" \notin F => t.pc = s.pc
    /\ "queue" \notin F => t.queue = s.queue
    /\ "cur" \notin F => t.cur = s.cur
    /\ "pool" \notin F => t.pool = s.pool
    /\ "event" \notin F => t.event = s.event
    /\ "owed" \notin F => t.owed = s.owed
    /\ "torn" \notin F => t.torn = s.torn

(* A change of one field.                                                  *)
LEMMA StatusSet ==
    ASSUME NEW s \in E!States, NEW x \in [E!Proc -> {"WAIT", "WEAK", "STRONG"}],
           NEW t, t = [s EXCEPT !.status = x]
    PROVE  Differ(s, t, {"status"}) /\ t.status = x
BY DEF E!States, Differ

(* The same for slice.                                                     *)
LEMMA SliceSet ==
    ASSUME NEW s \in E!States, NEW x \in [E!Proc -> BOOLEAN],
           NEW t, t = [s EXCEPT !.slice = x]
    PROVE  Differ(s, t, {"slice"}) /\ t.slice = x
BY DEF E!States, Differ

(* The same for pc.                                                        *)
LEMMA PlaceSet ==
    ASSUME NEW s \in E!States, NEW x \in [E!Proc -> {"loop", "handler", "exhaust", "wait", "yield"}],
           NEW t, t = [s EXCEPT !.pc = x]
    PROVE  Differ(s, t, {"pc"}) /\ t.pc = x
BY DEF E!States, Differ

(* The same for queue.                                                     *)
LEMMA QueueSet ==
    ASSUME NEW s \in E!States, NEW x \in Seq(Eproc),
           NEW t, t = [s EXCEPT !.queue = x]
    PROVE  Differ(s, t, {"queue"}) /\ t.queue = x
BY DEF E!States, Differ

(* The same for cur.                                                       *)
LEMMA CurrentSet ==
    ASSUME NEW s \in E!States, NEW x \in E!Proc,
           NEW t, t = [s EXCEPT !.cur = x]
    PROVE  Differ(s, t, {"cur"}) /\ t.cur = x
BY DEF E!States, Differ

(* The same for pool.                                                      *)
LEMMA PoolSet ==
    ASSUME NEW s \in E!States, NEW x \in [Eproc -> Seq(Event)],
           NEW t, t = [s EXCEPT !.pool = x]
    PROVE  Differ(s, t, {"pool"}) /\ t.pool = x
BY DEF E!States, Differ

(* The same for event.                                                     *)
LEMMA EventSet ==
    ASSUME NEW s \in E!States, NEW x \in [Event -> {"WAIT", "QUEUE", "STRONG"}],
           NEW t, t = [s EXCEPT !.event = x]
    PROVE  Differ(s, t, {"event"}) /\ t.event = x
BY DEF E!States, Differ

(* The same for owed.                                                      *)
LEMMA OwedSet ==
    ASSUME NEW s \in E!States, NEW x \in SUBSET Event,
           NEW t, t = [s EXCEPT !.owed = x]
    PROVE  Differ(s, t, {"owed"}) /\ t.owed = x
BY DEF E!States, Differ

(* The same for torn.                                                      *)
LEMMA TornSet ==
    ASSUME NEW s \in E!States, NEW x \in Torns,
           NEW t, t = [s EXCEPT !.torn = x]
    PROVE  Differ(s, t, {"torn"}) /\ t.torn = x
BY DEF E!States, Differ, Torns

(* sched_attach: linked at the end, or torn.                               *)
LEMMA AttachLinks ==
    ASSUME NEW s \in E!States, NEW p \in Eproc, NEW t, t = E!Attach(s, p)
    PROVE  /\ Differ(s, t, {"queue", "torn"})
           /\ IF E!IsReady(s, p) THEN t.torn # "no" /\ t.queue = s.queue
              ELSE t.torn = s.torn /\ t.queue = Append(s.queue, p)
<1>1. CASE E!IsReady(s, p)
  <2>1. t = [s EXCEPT !.torn = "attached twice"]
    BY <1>1 DEF E!Attach
  <2>2. Differ(s, t, {"torn"}) /\ t.torn = "attached twice"
    BY <2>1, TornSet DEF Torns
  <2> QED BY <1>1, <2>2 DEF Differ
<1>2. CASE ~E!IsReady(s, p)
  <2>1. t = [s EXCEPT !.queue = Append(s.queue, p)]
    BY <1>2 DEF E!Attach
  <2>2. s.queue \in Seq(Eproc)
    BY RiverFields
  <2>3. Append(s.queue, p) \in Seq(Eproc)
    BY <2>2
  <2>4. Differ(s, t, {"queue"}) /\ t.queue = Append(s.queue, p)
    BY <2>1, <2>3, QueueSet
  <2> QED BY <1>2, <2>4 DEF Differ
<1> QED BY <1>1, <1>2

(* Another status for p.                                                   *)
LEMMA StatusChanged ==
    ASSUME NEW s \in E!States, NEW p \in E!Proc, NEW v \in {"WAIT", "WEAK", "STRONG"},
           NEW t, t = [s EXCEPT !.status[p] = v]
    PROVE  /\ Differ(s, t, {"status"})
           /\ t.status[p] = v /\ \A q \in E!Proc \ {p} : t.status[q] = s.status[q]
<1> DEFINE a == [s.status EXCEPT ![p] = v]
<1>1. t = [s EXCEPT !.status = a]
  OBVIOUS
<1>2. s.status \in [E!Proc -> {"WAIT", "WEAK", "STRONG"}]
  BY RiverFields
<1>3. a \in [E!Proc -> {"WAIT", "WEAK", "STRONG"}]
  BY <1>2
<1>4. a[p] = v /\ \A q \in E!Proc \ {p} : a[q] = s.status[q]
  BY <1>2
<1> HIDE DEF a
<1>5. Differ(s, t, {"status"}) /\ t.status = a
  BY <1>1, <1>3, StatusSet
<1> QED BY <1>4, <1>5

(* proc_notify                                                             *)
LEMMA NotifyKeeps ==
    ASSUME NEW s \in E!States, NEW p \in Eproc, NEW t, t = E!Notify(s, p)
    PROVE  /\ Differ(s, t, {"status", "queue", "torn"})
           /\ t.torn = "no" => s.torn = "no"
           /\ t.torn = "no" /\ E!Scheduled(s) /\ E!Served(s) =>
                /\ E!Scheduled(t) /\ E!Served(t) /\ t.status[p] # "WAIT"
                /\ t.pc[p] = "exhaust" => t.status[p] = "STRONG"
<1>1. s.status[p] \in {"WAIT", "WEAK", "STRONG"} /\ p \in E!Proc /\ s.queue \in Seq(Eproc)
  BY RiverFields, RiverFacts
<1>2. CASE s.status[p] = "WEAK"
  <2>1. t = [s EXCEPT !.status[p] = "STRONG"]
    BY <1>2 DEF E!Notify
  <2>2. /\ Differ(s, t, {"status"})
        /\ t.status[p] = "STRONG" /\ \A q \in E!Proc \ {p} : t.status[q] = s.status[q]
    BY <1>1, <2>1, StatusChanged
  <2>3. /\ t.queue = s.queue /\ t.pc = s.pc /\ t.cur = s.cur /\ t.pool = s.pool /\ t.torn = s.torn
        /\ Differ(s, t, {"status", "queue", "torn"})
    BY <2>2 DEF Differ
  <2>4. \A q \in Eproc \ {p} : t.status[q] = s.status[q]
    BY <2>2, RiverFacts
  <2>5. ASSUME E!Scheduled(s) PROVE E!Scheduled(t)
    BY <1>2, <2>2, <2>3, <2>4, <2>5 DEF E!Scheduled, E!IsReady
  <2>6. ASSUME E!Served(s) PROVE E!Served(t)
    BY <2>2, <2>3, <2>4, <2>6 DEF E!Served
  <2> QED BY <2>2, <2>3, <2>5, <2>6
<1>3. CASE s.status[p] = "STRONG"
  <2>1. t = s
    BY <1>3 DEF E!Notify
  <2> QED BY <1>3, <2>1 DEF Differ
<1>4. CASE s.status[p] = "WAIT"
  <2> DEFINE w == [s EXCEPT !.status[p] = "WEAK"]
             a == E!Attach(w, p)
  <2>1. t = IF p = s.cur /\ a.torn = "no" THEN [a EXCEPT !.torn = "queued while running"] ELSE a
    BY <1>4 DEF E!Notify, E!MakeReady
  <2>2. w = [s EXCEPT !.status[p] = "WEAK"] /\ a = E!Attach(w, p)
    OBVIOUS
  <2> HIDE DEF w, a
  <2>3. /\ Differ(s, w, {"status"})
        /\ w.status[p] = "WEAK" /\ \A q \in E!Proc \ {p} : w.status[q] = s.status[q]
    BY <1>1, <2>2, StatusChanged
  <2>4. w \in E!States /\ w.queue = s.queue /\ w.torn = s.torn
    BY <2>3 DEF Differ
  <2>5. /\ Differ(w, a, {"queue", "torn"})
        /\ IF E!IsReady(w, p) THEN a.torn # "no" /\ a.queue = w.queue
           ELSE a.torn = w.torn /\ a.queue = Append(w.queue, p)
    BY <2>2, <2>4, AttachLinks
  <2>6. Differ(s, a, {"status", "queue", "torn"}) /\ a \in E!States /\ a.status = w.status
    BY <2>3, <2>5 DEF Differ
  <2>7. CASE p = s.cur /\ a.torn = "no"
    <3>1. t = [a EXCEPT !.torn = "queued while running"]
      BY <2>1, <2>7
    <3>2. Differ(a, t, {"torn"}) /\ t.torn = "queued while running"
      BY <2>6, <3>1, TornSet DEF Torns
    <3>3. Differ(s, t, {"status", "queue", "torn"})
      BY <2>6, <3>2 DEF Differ
    <3> QED BY <3>2, <3>3
  <2>8. CASE ~(p = s.cur /\ a.torn = "no")
    <3>1. t = a
      BY <2>1, <2>8
    <3>2. t.torn = "no" => s.torn = "no"
      BY <2>4, <2>5, <3>1
    <3>3. ASSUME t.torn = "no", E!Scheduled(s), E!Served(s)
          PROVE  /\ E!Scheduled(t) /\ E!Served(t) /\ t.status[p] # "WAIT"
                 /\ t.pc[p] = "exhaust" => t.status[p] = "STRONG"
      <4>1. p # s.cur /\ p \notin E!ToSet(s.queue) /\ s.pc[p] # "exhaust" /\ s.pool[p] = << >>
        BY <1>4, <2>8, <3>1, <3>3 DEF E!Scheduled, E!Served, E!IsReady
      <4>2. t.queue = Append(s.queue, p)
        BY <2>4, <2>5, <3>1, <3>3 DEF E!IsReady
      <4>3. E!IsInjective(s.queue)
        BY <3>3 DEF E!Scheduled
      <4>4. E!IsInjective(t.queue) /\ E!ToSet(t.queue) = E!ToSet(s.queue) \cup {p}
        BY <1>1, <4>1, <4>2, <4>3, E!AppendElements
      <4>5. t.pc = s.pc /\ t.pool = s.pool /\ t.cur = s.cur
        BY <2>6, <3>1 DEF Differ
      <4>6. t.status[p] = "WEAK" /\ \A q \in Eproc \ {p} : t.status[q] = s.status[q]
        BY <2>3, <2>6, <3>1, RiverFacts
      <4>7. E!Scheduled(t)
        BY <3>3, <4>1, <4>4, <4>5, <4>6 DEF E!Scheduled, E!IsReady
      <4>8. E!Served(t)
        BY <3>3, <4>1, <4>5, <4>6 DEF E!Served
      <4> QED BY <4>1, <4>5, <4>6, <4>7, <4>8
    <3> QED BY <2>6, <3>1, <3>2, <3>3
  <2> QED BY <2>7, <2>8
<1> QED BY <1>1, <1>2, <1>3, <1>4

(* Served and Scheduled do not look at these fields.                       *)
LEMMA OtherFields ==
    ASSUME NEW s, NEW t, Differ(s, t, {"slice", "event", "owed"})
    PROVE  /\ E!Scheduled(s) => E!Scheduled(t)
           /\ E!Served(s) => E!Served(t)
<1>1. t.queue = s.queue /\ t.pc = s.pc /\ t.cur = s.cur /\ t.pool = s.pool /\ t.status = s.status
  BY DEF Differ
<1> QED BY <1>1 DEF E!Scheduled, E!Served, E!IsReady

(* t is s with e queued.                                                   *)
Queued(s, e, t) ==
    t = [s EXCEPT !.event[e] = "QUEUE", !.pool[Pool[e]] = Append(s.pool[Pool[e]], e)]

(* What event_activate does to an event that is not queued.                *)
LEMMA EventPooled ==
    ASSUME NEW s \in E!States, NEW e \in Event, NEW t,
           Queued(s, e, t)
    PROVE  /\ Differ(s, t, {"event", "pool"})
           /\ t.event[e] = "QUEUE" /\ \A f \in Event \ {e} : t.event[f] = s.event[f]
           /\ t.pool[Pool[e]] = Append(s.pool[Pool[e]], e)
           /\ \A p \in Eproc \ {Pool[e]} : t.pool[p] = s.pool[p]
<1> DEFINE a == [s.event EXCEPT ![e] = "QUEUE"]
           b == [s.pool EXCEPT ![Pool[e]] = Append(s.pool[Pool[e]], e)]
           u == [s EXCEPT !.event = a]
<1>1. Pool[e] \in Eproc
  BY RiverFacts
<1>2. s.event \in [Event -> {"WAIT", "QUEUE", "STRONG"}] /\ s.pool \in [Eproc -> Seq(Event)]
  BY RiverFields
<1>3. a \in [Event -> {"WAIT", "QUEUE", "STRONG"}] /\ b \in [Eproc -> Seq(Event)]
  BY <1>1, <1>2
<1>4. a[e] = "QUEUE" /\ \A f \in Event \ {e} : a[f] = s.event[f]
  BY <1>2
<1>5. b[Pool[e]] = Append(s.pool[Pool[e]], e) /\ \A p \in Eproc \ {Pool[e]} : b[p] = s.pool[p]
  BY <1>1, <1>2
<1>6. t = [u EXCEPT !.pool = b]
  BY DEF E!States, Queued
<1>7. u = [s EXCEPT !.event = a]
  OBVIOUS
<1> HIDE DEF a, b, u
<1>8. Differ(s, u, {"event"}) /\ u.event = a
  BY <1>3, <1>7, EventSet
<1>11. u \in E!States
  BY <1>8 DEF Differ
<1>9. Differ(u, t, {"pool"}) /\ t.pool = b
  BY <1>3, <1>6, <1>11, PoolSet
<1>10. Differ(s, t, {"event", "pool"}) /\ t.event = a
  BY <1>8, <1>9 DEF Differ
<1> QED BY <1>4, <1>5, <1>9, <1>10

(* ... and to one that is.                                                 *)
LEMMA EventChanged ==
    ASSUME NEW s \in E!States, NEW e \in Event, NEW v \in {"WAIT", "QUEUE", "STRONG"},
           NEW t, t = [s EXCEPT !.event[e] = v]
    PROVE  /\ Differ(s, t, {"event"})
           /\ t.event[e] = v /\ \A f \in Event \ {e} : t.event[f] = s.event[f]
<1> DEFINE a == [s.event EXCEPT ![e] = v]
<1>1. s.event \in [Event -> {"WAIT", "QUEUE", "STRONG"}]
  BY RiverFields
<1>2. a \in [Event -> {"WAIT", "QUEUE", "STRONG"}]
  BY <1>1
<1>3. a[e] = v /\ \A f \in Event \ {e} : a[f] = s.event[f]
  BY <1>1
<1>4. t = [s EXCEPT !.event = a]
  OBVIOUS
<1> HIDE DEF a
<1>5. Differ(s, t, {"event"}) /\ t.event = a
  BY <1>2, <1>4, EventSet
<1> QED BY <1>3, <1>5

(* The invariant, of a state.                                              *)
Kept(s) ==
    /\ s \in E!States
    /\ s.torn = "no" => E!Scheduled(s) /\ E!Served(s) /\ E!Pooled(s)

(* event_activate                                                          *)
LEMMA ActivateKeeps ==
    ASSUME NEW s, Kept(s), NEW e \in Event, NEW t, t = E!Activate(s, e)
    PROVE  Kept(t)
<1> DEFINE m == E!Notify(s, Pool[e])
           n == [m EXCEPT !.owed = @ \cup {e}]
<1>1. s \in E!States /\ Pool[e] \in Eproc
  BY RiverFacts DEF Kept
<1>2. t = CASE s.event[e] = "WAIT" ->
                 [n EXCEPT !.event[e] = "QUEUE", !.pool[Pool[e]] = Append(@, e)]
            [] s.event[e] = "QUEUE" -> [n EXCEPT !.event[e] = "STRONG"]
            [] OTHER -> n
  BY DEF E!Activate
<1>3. m = E!Notify(s, Pool[e]) /\ n = [m EXCEPT !.owed = m.owed \cup {e}]
  OBVIOUS
<1> HIDE DEF m, n
<1>4. /\ Differ(s, m, {"status", "queue", "torn"})
      /\ m.torn = "no" => s.torn = "no"
      /\ m.torn = "no" /\ E!Scheduled(s) /\ E!Served(s) =>
           /\ E!Scheduled(m) /\ E!Served(m) /\ m.status[Pool[e]] # "WAIT"
           /\ m.pc[Pool[e]] = "exhaust" => m.status[Pool[e]] = "STRONG"
  BY <1>1, <1>3, NotifyKeeps
<1>5. m \in E!States /\ m.owed = s.owed /\ s.owed \in SUBSET Event
  BY <1>1, <1>4, RiverFields DEF Differ
<1>6. m.owed \cup {e} \in SUBSET Event
  BY <1>5
<1>7. Differ(m, n, {"owed"}) /\ n.owed = s.owed \cup {e}
  BY <1>3, <1>5, <1>6, OwedSet
<1>8. /\ n \in E!States /\ n.status = m.status /\ n.torn = m.torn /\ n.pc = m.pc
      /\ n.pool = s.pool /\ n.event = s.event /\ n.queue = m.queue /\ n.cur = m.cur
      /\ Differ(m, n, {"slice", "event", "owed"})
  BY <1>4, <1>7 DEF Differ
<1>9. /\ E!Scheduled(m) => E!Scheduled(n)
      /\ E!Served(m) => E!Served(n)
  BY <1>8, OtherFields
<1>10. s.event[e] \in {"WAIT", "QUEUE", "STRONG"} /\ s.pool \in [Eproc -> Seq(Event)]
  BY <1>1, RiverFields
<1>11. ASSUME n.torn = "no"
       PROVE  /\ E!Scheduled(n) /\ E!Served(n) /\ E!Pooled(s) /\ n.status[Pool[e]] # "WAIT"
              /\ n.pc[Pool[e]] = "exhaust" => n.status[Pool[e]] = "STRONG"
  BY <1>4, <1>8, <1>9, <1>11 DEF Kept
<1>12. CASE s.event[e] = "WAIT"
  <2>1. Queued(n, e, t)
    BY <1>2, <1>12 DEF Queued
  <2>2. /\ Differ(n, t, {"event", "pool"})
        /\ t.event[e] = "QUEUE" /\ \A f \in Event \ {e} : t.event[f] = n.event[f]
        /\ t.pool[Pool[e]] = Append(n.pool[Pool[e]], e)
        /\ \A p \in Eproc \ {Pool[e]} : t.pool[p] = n.pool[p]
    <3>1. n \in E!States
      BY <1>8
    <3> QED BY <2>1, <3>1, EventPooled
  <2>3. /\ t \in E!States /\ t.status = n.status /\ t.torn = n.torn /\ t.pc = n.pc
        /\ t.queue = n.queue /\ t.cur = n.cur /\ t.owed = n.owed
    BY <2>2 DEF Differ
  <2>4. ASSUME t.torn = "no"
        PROVE  E!Scheduled(t) /\ E!Served(t) /\ E!Pooled(t)
    <3>1. /\ E!Scheduled(n) /\ E!Served(n) /\ E!Pooled(s) /\ n.status[Pool[e]] # "WAIT"
          /\ n.pc[Pool[e]] = "exhaust" => n.status[Pool[e]] = "STRONG"
      BY <1>11, <2>3, <2>4
    <3>2. E!Scheduled(t)
      BY <2>3, <3>1 DEF E!Scheduled, E!IsReady
    <3>3. E!Served(t)
      BY <2>2, <2>3, <3>1 DEF E!Served
    <3>4. /\ s.pool[Pool[e]] \in Seq(Event) /\ E!IsInjective(s.pool[Pool[e]])
          /\ e \notin E!ToSet(s.pool[Pool[e]])
      BY <1>1, <1>10, <1>12, <3>1 DEF E!Pooled
    <3>5. /\ E!IsInjective(t.pool[Pool[e]])
          /\ E!ToSet(t.pool[Pool[e]]) = E!ToSet(s.pool[Pool[e]]) \cup {e}
      BY <1>8, <2>2, <3>4, E!AppendElements
    <3>6. /\ \A p \in Eproc \ {Pool[e]} : t.pool[p] = s.pool[p]
          /\ \A f \in Event \ {e} : t.event[f] = s.event[f]
          /\ t.owed = s.owed \cup {e}
      BY <1>7, <1>8, <2>2, <2>3
    <3>7. ASSUME NEW p \in Eproc
          PROVE  E!IsInjective(t.pool[p]) /\ \A f \in E!ToSet(t.pool[p]) : Pool[f] = p
      BY <3>1, <3>5, <3>6 DEF E!Pooled
    <3>8. ASSUME NEW f \in Event
          PROVE  /\ t.event[f] = "WAIT" <=> f \notin E!ToSet(t.pool[Pool[f]])
                 /\ f \in t.owed => f \in E!ToSet(t.pool[Pool[f]])
      <4>1. Pool[f] \in Eproc
        BY RiverFacts
      <4>2. CASE f = e
        BY <2>2, <3>5, <4>2
      <4>3. CASE f # e
        <5>1. /\ s.event[f] = "WAIT" <=> f \notin E!ToSet(s.pool[Pool[f]])
              /\ f \in s.owed => f \in E!ToSet(s.pool[Pool[f]])
          BY <3>1 DEF E!Pooled
        <5>2. f \in E!ToSet(t.pool[Pool[f]]) <=> f \in E!ToSet(s.pool[Pool[f]])
          BY <3>5, <3>6, <4>1, <4>3
        <5> QED BY <3>6, <4>3, <5>1, <5>2
      <4> QED BY <4>2, <4>3
    <3> QED BY <3>2, <3>3, <3>7, <3>8 DEF E!Pooled
  <2> QED BY <2>3, <2>4 DEF Kept
<1>13. CASE s.event[e] # "WAIT"
  <2>1. t = n \/ t = [n EXCEPT !.event[e] = "STRONG"]
    BY <1>2, <1>13
  <2>2. /\ Differ(n, t, {"event"})
        /\ t.event[e] # "WAIT" /\ \A f \in Event \ {e} : t.event[f] = n.event[f]
    <3>1. CASE t = n
      BY <1>8, <1>13, <3>1 DEF Differ
    <3>2. CASE t = [n EXCEPT !.event[e] = "STRONG"]
      <4>1. /\ Differ(n, t, {"event"})
            /\ t.event[e] = "STRONG" /\ \A f \in Event \ {e} : t.event[f] = n.event[f]
        BY <1>8, <3>2, EventChanged
      <4> QED BY <4>1
    <3> QED BY <2>1, <3>1, <3>2
  <2>3. /\ t \in E!States /\ t.torn = n.torn /\ t.pool = n.pool /\ t.owed = n.owed
        /\ Differ(n, t, {"slice", "event", "owed"})
    BY <2>2 DEF Differ
  <2>4. ASSUME t.torn = "no"
        PROVE  E!Scheduled(t) /\ E!Served(t) /\ E!Pooled(t)
    <3>1. E!Scheduled(n) /\ E!Served(n) /\ E!Pooled(s)
      BY <1>11, <2>3, <2>4
    <3>2. E!Scheduled(t) /\ E!Served(t)
      BY <2>3, <3>1, OtherFields
    <3>3. t.pool = s.pool /\ t.owed = s.owed \cup {e}
      BY <1>7, <1>8, <2>3
    <3>4. \A f \in Event : t.event[f] = "WAIT" <=> s.event[f] = "WAIT"
      BY <1>8, <1>13, <2>2
    <3>5. E!Pooled(t)
      BY <1>13, <3>1, <3>3, <3>4 DEF E!Pooled
    <3> QED BY <3>2, <3>5
  <2> QED BY <2>3, <2>4 DEF Kept
<1> QED BY <1>12, <1>13

(* Scheduled, but for the process that runs: it may be waiting anywhere.   *)
Loose(s) ==
    /\ E!IsInjective(s.queue)
    /\ \A p \in Eproc :
        /\ E!IsReady(s, p) <=> p # s.cur /\ s.status[p] # "WAIT"
        /\ s.status[p] = "WAIT" => s.pc[p] # "exhaust"

(* proc_switch: t is r with n running and the queue q.                     *)
Switched(r, q, n, t) ==
    t = [r EXCEPT !.queue = q, !.slice[n] = TRUE, !.cur = n]

LEMMA SwitchedSet ==
    ASSUME NEW r \in E!States, NEW q \in Seq(Eproc), NEW n \in E!Proc, NEW t, Switched(r, q, n, t)
    PROVE  Differ(r, t, {"queue", "slice", "cur"}) /\ t.queue = q /\ t.cur = n
<1> DEFINE z == [r.slice EXCEPT ![n] = TRUE]
           u == [r EXCEPT !.queue = q]
           v == [u EXCEPT !.slice = z]
<1>1. r.slice \in [E!Proc -> BOOLEAN]
  BY RiverFields
<1>2. z \in [E!Proc -> BOOLEAN]
  BY <1>1
<1>3. t = [v EXCEPT !.cur = n]
  BY DEF E!States, Switched
<1>4. u = [r EXCEPT !.queue = q] /\ v = [u EXCEPT !.slice = z]
  OBVIOUS
<1> HIDE DEF z, u, v
<1>5. Differ(r, u, {"queue"}) /\ u.queue = q
  BY <1>4, QueueSet
<1>6. u \in E!States
  BY <1>5 DEF Differ
<1>7. Differ(u, v, {"slice"}) /\ v.slice = z
  BY <1>2, <1>4, <1>6, SliceSet
<1>8. v \in E!States
  BY <1>7 DEF Differ
<1>9. Differ(v, t, {"cur"}) /\ t.cur = n
  BY <1>3, <1>8, CurrentSet
<1> QED BY <1>5, <1>7, <1>9 DEF Differ

(* The head of the queue runs next, if the processes that may run are in   *)
(* it.                                                                     *)
LEMMA SwitchKeeps ==
    ASSUME NEW r \in E!States, NEW t,
           \/ r.queue = << >> /\ Switched(r, r.queue, E!ProcIdle, t)
           \/ r.queue # << >> /\ Switched(r, Tail(r.queue), Head(r.queue), t)
    PROVE  /\ t \in E!States /\ t.torn = r.torn
           /\ (/\ E!IsInjective(r.queue) /\ E!Served(r) /\ E!Pooled(r)
               /\ \A p \in Eproc : /\ E!IsReady(r, p) <=> r.status[p] # "WAIT"
                                   /\ r.status[p] = "WAIT" => r.pc[p] # "exhaust")
              => E!Scheduled(t) /\ E!Served(t) /\ E!Pooled(t)
<1>1. r.queue \in Seq(Eproc)
  BY RiverFields
<1>2. PICK n \in E!Proc, q \in Seq(Eproc) :
        /\ Switched(r, q, n, t)
        /\ E!IsInjective(r.queue) =>
             /\ E!IsInjective(q)
             /\ \A p \in Eproc : p \in E!ToSet(q) <=> p \in E!ToSet(r.queue) /\ p # n
             /\ n \in Eproc => n \in E!ToSet(r.queue)
  <2>1. CASE r.queue = << >> /\ Switched(r, r.queue, E!ProcIdle, t)
    <3>1. E!ProcIdle \in E!Proc /\ E!ProcIdle \notin Eproc
      BY RiverFacts
    <3> QED BY <1>1, <2>1, <3>1
  <2>2. CASE r.queue # << >> /\ Switched(r, Tail(r.queue), Head(r.queue), t)
    <3>1. Head(r.queue) \in Eproc /\ Tail(r.queue) \in Seq(Eproc) /\ Head(r.queue) \in E!Proc
      BY <1>1, <2>2, RiverFacts
    <3>2. ASSUME E!IsInjective(r.queue)
          PROVE  /\ E!IsInjective(Tail(r.queue)) /\ Head(r.queue) \in E!ToSet(r.queue)
                 /\ E!ToSet(Tail(r.queue)) = E!ToSet(r.queue) \ {Head(r.queue)}
      BY <1>1, <2>2, <3>2, E!TailElements
    <3> QED BY <2>2, <3>1, <3>2
  <2> QED BY <2>1, <2>2
<1>3. Differ(r, t, {"queue", "slice", "cur"}) /\ t.queue = q /\ t.cur = n
  BY <1>2, SwitchedSet
<1>4. /\ t \in E!States /\ t.torn = r.torn /\ t.status = r.status /\ t.pc = r.pc
      /\ t.pool = r.pool /\ t.event = r.event /\ t.owed = r.owed
  BY <1>3 DEF Differ
<1>5. ASSUME E!IsInjective(r.queue), E!Served(r), E!Pooled(r),
             \A p \in Eproc : /\ E!IsReady(r, p) <=> r.status[p] # "WAIT"
                              /\ r.status[p] = "WAIT" => r.pc[p] # "exhaust"
      PROVE  E!Scheduled(t) /\ E!Served(t) /\ E!Pooled(t)
  <2>1. E!Scheduled(t)
    BY <1>2, <1>3, <1>4, <1>5 DEF E!Scheduled, E!IsReady
  <2>2. E!Served(t)
    BY <1>4, <1>5 DEF E!Served
  <2>3. E!Pooled(t)
    BY <1>4, <1>5 DEF E!Pooled
  <2> QED BY <2>1, <2>2, <2>3
<1> QED BY <1>4, <1>5

(* proc_schedule                                                           *)
LEMMA ScheduleKeeps ==
    ASSUME NEW s \in E!States, NEW t, t = E!ProcSchedule(s),
           s.torn = "no" => Loose(s) /\ E!Served(s) /\ E!Pooled(s)
    PROVE  Kept(t)
<1>1. s.status[s.cur] \in {"WAIT", "WEAK", "STRONG"} /\ s.cur \in E!Proc /\ s.queue \in Seq(Eproc)
  BY RiverFields
<1>2. CASE s.slice[s.cur] /\ E!Runnable(s, s.cur)
  <2>1. t = s
    BY <1>2 DEF E!ProcSchedule
  <2>2. s.status[s.cur] # "WAIT"
    BY <1>2 DEF E!Runnable
  <2>3. Loose(s) => E!Scheduled(s)
    BY <2>2 DEF Loose, E!Scheduled
  <2> QED BY <2>1, <2>3 DEF Kept
<1>3. CASE ~(s.slice[s.cur] /\ E!Runnable(s, s.cur))
  <2> DEFINE r == IF s.cur # E!ProcIdle /\ E!Runnable(s, s.cur) THEN E!Attach(s, s.cur) ELSE s
             n == IF r.queue = << >> THEN E!ProcIdle ELSE Head(r.queue)
             q == IF r.queue = << >> THEN r.queue ELSE Tail(r.queue)
  <2>1. Switched(r, q, n, t)
    BY <1>3 DEF E!ProcSchedule, Switched
  <2>2. r = IF s.cur # E!ProcIdle /\ E!Runnable(s, s.cur) THEN E!Attach(s, s.cur) ELSE s
    OBVIOUS
  <2> HIDE DEF r
  <2>3. \/ r.queue = << >> /\ Switched(r, r.queue, E!ProcIdle, t)
        \/ r.queue # << >> /\ Switched(r, Tail(r.queue), Head(r.queue), t)
    <3>1. CASE r.queue = << >>
      <4>1. n = E!ProcIdle /\ q = r.queue
        BY <3>1
      <4> HIDE DEF n, q
      <4> QED BY <2>1, <3>1, <4>1
    <3>2. CASE r.queue # << >>
      <4>1. n = Head(r.queue) /\ q = Tail(r.queue)
        BY <3>2
      <4> HIDE DEF n, q
      <4> QED BY <2>1, <3>2, <4>1
    <3> QED BY <3>1, <3>2
  <2> HIDE DEF n, q
  <2>4. /\ r \in E!States
        /\ r.torn = "no" =>
             /\ E!IsInjective(r.queue) /\ E!Served(r) /\ E!Pooled(r)
             /\ \A p \in Eproc : /\ E!IsReady(r, p) <=> r.status[p] # "WAIT"
                                 /\ r.status[p] = "WAIT" => r.pc[p] # "exhaust"
    <3>1. CASE s.cur # E!ProcIdle /\ E!Runnable(s, s.cur)
      <4>1. r = E!Attach(s, s.cur) /\ s.cur \in Eproc
        BY <1>1, <2>2, <3>1, RiverFacts
      <4>2. /\ Differ(s, r, {"queue", "torn"})
            /\ IF E!IsReady(s, s.cur) THEN r.torn # "no" /\ r.queue = s.queue
               ELSE r.torn = s.torn /\ r.queue = Append(s.queue, s.cur)
        BY <4>1, AttachLinks
      <4>3. /\ r \in E!States /\ r.status = s.status /\ r.pc = s.pc
            /\ r.pool = s.pool /\ r.event = s.event /\ r.owed = s.owed
        BY <4>2 DEF Differ
      <4>4. ASSUME r.torn = "no"
            PROVE  /\ E!IsInjective(r.queue) /\ E!Served(r) /\ E!Pooled(r)
                   /\ \A p \in Eproc : /\ E!IsReady(r, p) <=> r.status[p] # "WAIT"
                                       /\ r.status[p] = "WAIT" => r.pc[p] # "exhaust"
        <5>1. /\ s.torn = "no" /\ r.queue = Append(s.queue, s.cur)
              /\ Loose(s) /\ E!Served(s) /\ E!Pooled(s) /\ ~E!IsReady(s, s.cur)
          BY <4>2, <4>4
        <5>2. E!IsInjective(s.queue) /\ s.cur \notin E!ToSet(s.queue)
          BY <5>1 DEF Loose, E!IsReady
        <5>3. E!IsInjective(r.queue) /\ E!ToSet(r.queue) = E!ToSet(s.queue) \cup {s.cur}
          BY <1>1, <4>1, <5>1, <5>2, E!AppendElements
        <5>4. s.status[s.cur] # "WAIT"
          BY <3>1 DEF E!Runnable
        <5>5. ASSUME NEW p \in Eproc
              PROVE  /\ E!IsReady(r, p) <=> r.status[p] # "WAIT"
                     /\ r.status[p] = "WAIT" => r.pc[p] # "exhaust"
          BY <4>3, <5>1, <5>3, <5>4 DEF Loose, E!IsReady
        <5>6. E!Served(r)
          BY <4>3, <5>1 DEF E!Served
        <5>7. E!Pooled(r)
          BY <4>3, <5>1 DEF E!Pooled
        <5> QED BY <5>3, <5>5, <5>6, <5>7
      <4> QED BY <4>3, <4>4
    <3>2. CASE ~(s.cur # E!ProcIdle /\ E!Runnable(s, s.cur))
      <4>1. r = s
        BY <2>2, <3>2
      <4>2. \A p \in Eproc : p = s.cur => s.status[p] = "WAIT"
        BY <1>1, <3>2, RiverFacts DEF E!Runnable
      <4>3. Loose(s) =>
              /\ E!IsInjective(s.queue)
              /\ \A p \in Eproc : /\ E!IsReady(s, p) <=> s.status[p] # "WAIT"
                                  /\ s.status[p] = "WAIT" => s.pc[p] # "exhaust"
        BY <4>2 DEF Loose
      <4> QED BY <4>1, <4>3
    <3> QED BY <3>1, <3>2
  <2>5. /\ t \in E!States /\ t.torn = r.torn
        /\ (/\ E!IsInjective(r.queue) /\ E!Served(r) /\ E!Pooled(r)
            /\ \A p \in Eproc : /\ E!IsReady(r, p) <=> r.status[p] # "WAIT"
                                /\ r.status[p] = "WAIT" => r.pc[p] # "exhaust")
           => E!Scheduled(t) /\ E!Served(t) /\ E!Pooled(t)
    BY <2>3, <2>4, SwitchKeeps
  <2> QED BY <2>4, <2>5 DEF Kept
<1> QED BY <1>2, <1>3

(* The variables as a state, before and after a step.                      *)
LEMMA RiverNow ==
    /\ E!EventsKept <=> Kept(E!Now)
    /\ E!Now.status = e_status /\ E!Now.slice = e_slice /\ E!Now.pc = e_pc /\ E!Now.queue = queue
    /\ E!Now.cur = proc_current /\ E!Now.pool = pool /\ E!Now.event = event
    /\ E!Now.owed = owed /\ E!Now.torn = torn
<1>1. /\ E!Now.status = e_status /\ E!Now.slice = e_slice /\ E!Now.pc = e_pc /\ E!Now.queue = queue
      /\ E!Now.cur = proc_current /\ E!Now.pool = pool /\ E!Now.event = event
      /\ E!Now.owed = owed /\ E!Now.torn = torn
  BY DEF E!Now
<1> QED BY <1>1 DEF E!EventsKept, Kept

LEMMA RiverBecomes ==
    ASSUME NEW s, Kept(s), E!Becomes(s)
    PROVE  E!EventsKept'
<1>1. s \in E!States /\ (s.torn = "no" => E!Scheduled(s) /\ E!Served(s) /\ E!Pooled(s))
  BY DEF Kept
<1>2. s = [status |-> s.status, slice |-> s.slice, pc |-> s.pc, queue |-> s.queue,
           cur |-> s.cur, pool |-> s.pool, event |-> s.event, owed |-> s.owed, torn |-> s.torn]
  BY <1>1, RiverFields
<1>3. E!Now' = s /\ torn' = s.torn
  BY <1>2 DEF E!Now, E!Becomes
<1>4. torn' = "no" => E!Scheduled(E!Now') /\ E!Served(E!Now') /\ E!Pooled(E!Now')
  BY <1>1, <1>3
<1>5. E!Now' \in E!States
  BY <1>1, <1>3
<1> HIDE DEF E!Now, E!States
<1>6. (E!Now \in E!States)' <=> E!Now' \in E!States
  BY DEF E!States
<1>7. E!Scheduled(E!Now)' <=> E!Scheduled(E!Now')
  BY DEF E!Scheduled, E!IsReady
<1>8. E!Served(E!Now)' <=> E!Served(E!Now')
  BY DEF E!Served
<1>9. E!Pooled(E!Now)' <=> E!Pooled(E!Now')
  BY DEF E!Pooled
<1> QED BY <1>4, <1>5, <1>6, <1>7, <1>8, <1>9 DEF E!EventsKept

(* A process goes on: the rest of the state may stay, unless the process   *)
(* is about to look whether it may wait.                                   *)
LEMMA PlaceChanged ==
    ASSUME NEW s \in E!States, NEW p \in E!Proc,
           NEW v \in {"loop", "handler", "exhaust", "wait", "yield"},
           NEW t, t = [s EXCEPT !.pc[p] = v]
    PROVE  /\ Differ(s, t, {"pc"})
           /\ t.pc[p] = v /\ \A q \in E!Proc \ {p} : t.pc[q] = s.pc[q]
<1> DEFINE a == [s.pc EXCEPT ![p] = v]
<1>1. t = [s EXCEPT !.pc = a]
  OBVIOUS
<1>2. s.pc \in [E!Proc -> {"loop", "handler", "exhaust", "wait", "yield"}]
  BY RiverFields
<1>3. a \in [E!Proc -> {"loop", "handler", "exhaust", "wait", "yield"}]
  BY <1>2
<1>4. a[p] = v /\ \A q \in E!Proc \ {p} : a[q] = s.pc[q]
  BY <1>2
<1> HIDE DEF a
<1>5. Differ(s, t, {"pc"}) /\ t.pc = a
  BY <1>1, <1>3, PlaceSet
<1> QED BY <1>4, <1>5

(* Going back to the loop.                                                 *)
LEMMA LoopAgain ==
    ASSUME NEW s, Kept(s), NEW p \in E!Proc, NEW v \in {"loop", "yield"},
           NEW t, t = [s EXCEPT !.pc[p] = v]
    PROVE  /\ t \in E!States /\ t.torn = s.torn
           /\ t.torn = "no" => Loose(t) /\ E!Served(t) /\ E!Pooled(t)
           /\ (s.pc[p] # "wait" \/ p = E!ProcIdle) => Kept(t)
<1>1. s \in E!States /\ v \in {"loop", "handler", "exhaust", "wait", "yield"}
  BY DEF Kept
<1>2. /\ Differ(s, t, {"pc"})
      /\ t.pc[p] = v /\ \A q \in E!Proc \ {p} : t.pc[q] = s.pc[q]
  BY <1>1, PlaceChanged
<1>3. /\ t \in E!States /\ t.torn = s.torn /\ t.status = s.status /\ t.queue = s.queue
      /\ t.cur = s.cur /\ t.pool = s.pool /\ t.event = s.event /\ t.owed = s.owed
  BY <1>2 DEF Differ
<1>4. \A q \in Eproc : t.pc[q] = s.pc[q] \/ (q = p /\ t.pc[q] = v)
  BY <1>2, RiverFacts
<1>5. ASSUME t.torn = "no"
      PROVE  Loose(t) /\ E!Served(t) /\ E!Pooled(t)
  <2>1. E!Scheduled(s) /\ E!Served(s) /\ E!Pooled(s)
    BY <1>3, <1>5 DEF Kept
  <2>2. Loose(t)
    BY <1>3, <1>4, <2>1 DEF E!Scheduled, E!IsReady, Loose
  <2>3. E!Served(t)
    BY <1>3, <1>4, <2>1 DEF E!Served
  <2>4. E!Pooled(t)
    BY <1>3, <2>1 DEF E!Pooled
  <2> QED BY <2>2, <2>3, <2>4
<1>6. ASSUME s.pc[p] # "wait" \/ p = E!ProcIdle
      PROVE  Kept(t)
  <2>1. ASSUME t.torn = "no" PROVE E!Scheduled(t)
    <3>1. E!Scheduled(s)
      BY <1>3, <2>1 DEF Kept
    <3>2. p \in Eproc => s.pc[p] # "wait"
      BY <1>6, RiverFacts
    <3> QED BY <1>3, <1>4, <3>1, <3>2 DEF E!Scheduled, E!IsReady
  <2> QED BY <1>3, <1>5, <2>1 DEF Kept
<1> QED BY <1>3, <1>5, <1>6

(* A time slice does not matter to the invariant.                          *)
LEMMA SliceChanged ==
    ASSUME NEW s \in E!States, NEW p \in E!Proc, NEW v \in BOOLEAN,
           NEW t, t = [s EXCEPT !.slice[p] = v]
    PROVE  /\ t \in E!States /\ t.torn = s.torn
           /\ Kept(s) => Kept(t)
           /\ Loose(s) /\ E!Served(s) /\ E!Pooled(s) => Loose(t) /\ E!Served(t) /\ E!Pooled(t)
<1> DEFINE a == [s.slice EXCEPT ![p] = v]
<1>1. t = [s EXCEPT !.slice = a]
  OBVIOUS
<1>2. s.slice \in [E!Proc -> BOOLEAN]
  BY RiverFields
<1>3. a \in [E!Proc -> BOOLEAN]
  BY <1>2
<1> HIDE DEF a
<1>4. Differ(s, t, {"slice"})
  BY <1>1, <1>3, SliceSet
<1>5. /\ t \in E!States /\ t.torn = s.torn /\ t.status = s.status /\ t.queue = s.queue
      /\ t.cur = s.cur /\ t.pool = s.pool /\ t.event = s.event /\ t.owed = s.owed /\ t.pc = s.pc
  BY <1>4 DEF Differ
<1>6. E!Scheduled(s) => E!Scheduled(t)
  BY <1>5 DEF E!Scheduled, E!IsReady
<1>7. Loose(s) => Loose(t)
  BY <1>5 DEF Loose, E!IsReady
<1>8. E!Served(s) => E!Served(t)
  BY <1>5 DEF E!Served
<1>9. E!Pooled(s) => E!Pooled(t)
  BY <1>5 DEF E!Pooled
<1> QED BY <1>5, <1>6, <1>7, <1>8, <1>9 DEF Kept

(* proc_schedule from a whole state.                                       *)
LEMMA KeptSchedule ==
    ASSUME NEW s, Kept(s), NEW t, t = E!ProcSchedule(s)
    PROVE  Kept(t)
<1>1. E!Scheduled(s) => Loose(s)
  BY DEF E!Scheduled, Loose
<1>2. s \in E!States /\ (s.torn = "no" => Loose(s) /\ E!Served(s) /\ E!Pooled(s))
  BY <1>1 DEF Kept
<1> QED BY <1>2, ScheduleKeeps

(* The handler of an event.                                                *)
LEMMA RiverHandler ==
    ASSUME E!EventsKept, NEW p \in Eproc, E!Handler(p)
    PROVE  E!EventsKept'
<1>1. PICK s : /\ s = [E!Now EXCEPT !.pc[p] = "loop"]
               /\ E!Becomes(s) \/ \E e \in Event : E!Becomes(E!Activate(s, e))
  BY DEF E!Handler
<1>2. Kept(E!Now) /\ E!Now.pc[p] = "handler" /\ p \in E!Proc
  BY RiverNow, RiverFacts DEF E!Handler, E!At
<1>3. Kept(s)
  BY <1>1, <1>2, LoopAgain
<1>4. CASE E!Becomes(s)
  BY <1>3, <1>4, RiverBecomes
<1>5. ASSUME NEW e \in Event, E!Becomes(E!Activate(s, e))
      PROVE  E!EventsKept'
  <2>1. Kept(E!Activate(s, e))
    BY <1>3, ActivateKeeps
  <2> QED BY <1>5, <2>1, RiverBecomes
<1> QED BY <1>1, <1>4, <1>5

(* proc_schedule from proc_wait_try and from proc_yield.                   *)
LEMMA RiverWait ==
    ASSUME E!EventsKept, NEW p \in Eproc, E!Wait(p)
    PROVE  E!EventsKept'
<1> DEFINE s == [E!Now EXCEPT !.pc[p] = "loop"]
<1>1. E!Becomes(E!ProcSchedule(s)) /\ s = [E!Now EXCEPT !.pc[p] = "loop"]
  BY DEF E!Wait
<1> HIDE DEF s
<1>2. Kept(E!Now) /\ p \in E!Proc
  BY RiverNow, RiverFacts
<1>3. s \in E!States /\ (s.torn = "no" => Loose(s) /\ E!Served(s) /\ E!Pooled(s))
  BY <1>1, <1>2, LoopAgain
<1>4. Kept(E!ProcSchedule(s))
  BY <1>3, ScheduleKeeps
<1> QED BY <1>1, <1>4, RiverBecomes

LEMMA RiverYield ==
    ASSUME E!EventsKept, E!Yield
    PROVE  E!EventsKept'
<1> DEFINE u == [E!Now EXCEPT !.pc[E!ProcIdle] = "loop"]
           s == [u EXCEPT !.slice[E!ProcIdle] = FALSE]
<1>1. Kept(E!Now) /\ E!ProcIdle \in E!Proc /\ E!Now \in E!States
  BY RiverNow, RiverFacts DEF Kept
<1>2. E!Becomes(E!ProcSchedule(s))
  BY DEF E!Yield
<1>3. u = [E!Now EXCEPT !.pc[E!ProcIdle] = "loop"] /\ s = [u EXCEPT !.slice[E!ProcIdle] = FALSE]
  OBVIOUS
<1> HIDE DEF u, s
<1>4. Kept(u) /\ u \in E!States
  BY <1>1, <1>3, LoopAgain
<1>7. PICK v \in BOOLEAN : v = FALSE
  BY Zenon
<1>8. s = [u EXCEPT !.slice[E!ProcIdle] = v]
  BY <1>3, <1>7
<1>5. Kept(s)
  BY <1>1, <1>4, <1>8, SliceChanged
<1>6. Kept(E!ProcSchedule(s))
  BY <1>5, KeptSchedule
<1> QED BY <1>2, <1>6, RiverBecomes

(* do_idle                                                                 *)
LEMMA RiverIdle ==
    ASSUME E!EventsKept, E!DoIdle
    PROVE  E!EventsKept'
<1> DEFINE s == [E!Now EXCEPT !.pc[E!ProcIdle] = "yield"]
<1>1. PICK e \in IpiEvent : E!Becomes(E!Activate(s, e))
  BY DEF E!DoIdle
<1>2. s = [E!Now EXCEPT !.pc[E!ProcIdle] = "yield"]
  OBVIOUS
<1> HIDE DEF s
<1>3. Kept(E!Now) /\ E!ProcIdle \in E!Proc /\ e \in Event
  BY RiverNow, RiverFacts
<1>4. Kept(s)
  BY <1>2, <1>3, LoopAgain
<1>5. Kept(E!Activate(s, e))
  BY <1>3, <1>4, ActivateKeeps
<1> QED BY <1>1, <1>5, RiverBecomes

(* The interrupts.                                                         *)
LEMMA RiverIrq ==
    ASSUME E!EventsKept, E!Irq
    PROVE  E!EventsKept'
<1>1. PICK left \in BOOLEAN :
        \E s \in {[E!Now EXCEPT !.slice[proc_current] = @ /\ left]} :
            E!Becomes(E!ProcSchedule(s)) \/ \E e \in Event : E!Becomes(E!ProcSchedule(E!Activate(s, e)))
  BY DEF E!Irq
<1>2. PICK s : /\ s = [E!Now EXCEPT !.slice[proc_current] = E!Now.slice[proc_current] /\ left]
               /\ \/ E!Becomes(E!ProcSchedule(s))
                  \/ \E e \in Event : E!Becomes(E!ProcSchedule(E!Activate(s, e)))
  BY <1>1
<1>3. Kept(E!Now) /\ E!Now \in E!States /\ proc_current \in E!Proc
  BY RiverNow, RiverFields DEF Kept
<1>4. PICK v : v = (E!Now.slice[proc_current] /\ left)
  OBVIOUS
<1>5. v \in BOOLEAN
  BY <1>4, Zenon
<1>6. s = [E!Now EXCEPT !.slice[proc_current] = v]
  BY <1>2, <1>4
<1>7. Kept(s)
  BY <1>3, <1>5, <1>6, SliceChanged
<1>8. CASE E!Becomes(E!ProcSchedule(s))
  <2>1. Kept(E!ProcSchedule(s))
    BY <1>7, KeptSchedule
  <2> QED BY <1>8, <2>1, RiverBecomes
<1>9. ASSUME NEW e \in Event, E!Becomes(E!ProcSchedule(E!Activate(s, e)))
      PROVE  E!EventsKept'
  <2>1. Kept(E!Activate(s, e))
    BY <1>7, ActivateKeeps
  <2>2. Kept(E!ProcSchedule(E!Activate(s, e)))
    BY <2>1, KeptSchedule
  <2> QED BY <1>9, <2>2, RiverBecomes
<1> QED BY <1>2, <1>8, <1>9

LEMMA RiverIpi ==
    ASSUME E!EventsKept, E!Ipi
    PROVE  E!EventsKept'
<1>1. PICK e \in IpiEvent : E!Becomes(E!Activate(E!Now, e))
  BY DEF E!Ipi
<1>2. Kept(E!Now) /\ e \in Event
  BY RiverNow, RiverFacts
<1>3. Kept(E!Activate(E!Now, e))
  BY <1>2, ActivateKeeps
<1> QED BY <1>1, <1>3, RiverBecomes

(* The state after a step that assigns the variables one by one.           *)
After == [status |-> e_status', slice |-> e_slice', pc |-> e_pc', queue |-> queue',
          cur |-> proc_current', pool |-> pool', event |-> event', owed |-> owed', torn |-> torn']

LEMMA RiverAfter ==
    ASSUME Kept(After)
    PROVE  E!EventsKept'
<1>1. E!Becomes(After)
  BY DEF E!Becomes, After
<1> QED BY <1>1, RiverBecomes

(* What Kept says of the variables.                                        *)
LEMMA RiverVars ==
    ASSUME E!EventsKept
    PROVE  /\ e_status \in [E!Proc -> {"WAIT", "WEAK", "STRONG"}]
           /\ e_slice \in [E!Proc -> BOOLEAN]
           /\ e_pc \in [E!Proc -> {"loop", "handler", "exhaust", "wait", "yield"}]
           /\ queue \in Seq(Eproc) /\ proc_current \in E!Proc
           /\ pool \in [Eproc -> Seq(Event)]
           /\ event \in [Event -> {"WAIT", "QUEUE", "STRONG"}]
           /\ owed \in SUBSET Event /\ torn \in Torns
           /\ torn = "no" => E!Scheduled(E!Now) /\ E!Served(E!Now) /\ E!Pooled(E!Now)
<1>1. E!Now \in E!States /\ (torn = "no" => E!Scheduled(E!Now) /\ E!Served(E!Now) /\ E!Pooled(E!Now))
  BY DEF E!EventsKept
<1> QED BY <1>1, RiverNow, RiverFields DEF Torns

(* ... and of the state after.                                             *)
LEMMA AfterStates ==
    ASSUME e_status' \in [E!Proc -> {"WAIT", "WEAK", "STRONG"}],
           e_slice' \in [E!Proc -> BOOLEAN],
           e_pc' \in [E!Proc -> {"loop", "handler", "exhaust", "wait", "yield"}],
           queue' \in Seq(Eproc), proc_current' \in E!Proc,
           pool' \in [Eproc -> Seq(Event)],
           event' \in [Event -> {"WAIT", "QUEUE", "STRONG"}],
           owed' \in SUBSET Event, torn' \in Torns
    PROVE  /\ After \in E!States
           /\ After.status = e_status' /\ After.pc = e_pc' /\ After.queue = queue'
           /\ After.cur = proc_current' /\ After.pool = pool' /\ After.event = event'
           /\ After.owed = owed' /\ After.torn = torn'
BY DEF After, E!States, Torns

(* proc_wait_try                                                           *)
LEMMA RiverWaitTry ==
    ASSUME E!EventsKept, NEW p \in Eproc, E!WaitTry(p)
    PROVE  E!EventsKept'
<1>1. p \in E!Proc
  BY RiverFacts
<1>2. /\ e_status \in [E!Proc -> {"WAIT", "WEAK", "STRONG"}]
      /\ e_slice \in [E!Proc -> BOOLEAN]
      /\ e_pc \in [E!Proc -> {"loop", "handler", "exhaust", "wait", "yield"}]
      /\ queue \in Seq(Eproc) /\ proc_current \in E!Proc
      /\ pool \in [Eproc -> Seq(Event)]
      /\ event \in [Event -> {"WAIT", "QUEUE", "STRONG"}]
      /\ owed \in SUBSET Event /\ torn \in Torns
      /\ torn = "no" => E!Scheduled(E!Now) /\ E!Served(E!Now) /\ E!Pooled(E!Now)
  BY RiverVars
<1>3. /\ proc_current = p /\ e_pc[p] = "exhaust"
      /\ UNCHANGED <<e_slice, queue, proc_current, pool, event, owed, torn>>
  BY DEF E!WaitTry, E!At
<1>4. \/ /\ e_status[p] = "WEAK"
         /\ e_status' = [e_status EXCEPT ![p] = "WAIT"] /\ e_pc' = [e_pc EXCEPT ![p] = "wait"]
      \/ /\ e_status[p] # "WEAK"
         /\ e_status' = [e_status EXCEPT ![p] = "WEAK"] /\ e_pc' = [e_pc EXCEPT ![p] = "loop"]
  BY DEF E!WaitTry
<1>5. /\ e_status' \in [E!Proc -> {"WAIT", "WEAK", "STRONG"}]
      /\ e_pc' \in [E!Proc -> {"loop", "handler", "exhaust", "wait", "yield"}]
  BY <1>1, <1>2, <1>4
<1>6. /\ After \in E!States
      /\ After.status = e_status' /\ After.pc = e_pc' /\ After.queue = queue
      /\ After.cur = p /\ After.pool = pool /\ After.event = event
      /\ After.owed = owed /\ After.torn = torn
  BY <1>2, <1>3, <1>5, AfterStates
<1>7. ASSUME torn = "no"
      PROVE  E!Scheduled(After) /\ E!Served(After) /\ E!Pooled(After)
  <2>1. E!Scheduled(E!Now) /\ E!Served(E!Now) /\ E!Pooled(E!Now)
    BY <1>2, <1>7
  <2>2. \A q \in Eproc \ {p} : e_status'[q] = e_status[q] /\ e_pc'[q] = e_pc[q]
    BY <1>2, <1>4, RiverFacts
  <2>3. /\ e_status'[p] = "WAIT" => e_status[p] = "WEAK" /\ e_pc'[p] = "wait"
        /\ e_pc'[p] # "exhaust"
    BY <1>1, <1>2, <1>4
  <2>4. pool[p] # << >> => e_status[p] = "STRONG"
    BY <1>3, <2>1, RiverNow DEF E!Served
  <2>5. E!Scheduled(After)
    BY <1>3, <1>6, <2>1, <2>2, <2>3, RiverNow DEF E!Scheduled, E!IsReady
  <2>6. E!Served(After)
    BY <1>6, <2>1, <2>2, <2>3, <2>4, RiverNow DEF E!Served
  <2>7. E!Pooled(After)
    BY <1>6, <2>1, RiverNow DEF E!Pooled
  <2> QED BY <2>5, <2>6, <2>7
<1> QED BY <1>6, <1>7, RiverAfter DEF Kept

(* An interrupt inside a section spoils a list.                            *)
LEMMA RiverInside ==
    ASSUME E!EventsKept, E!IpiInside
    PROVE  E!EventsKept'
<1>1. /\ torn' \in {"pool", "ready queue"}
      /\ UNCHANGED <<e_status, e_slice, e_pc, queue, proc_current, pool, event, owed>>
  BY DEF E!IpiInside
<1>2. After \in E!States /\ After.torn = torn'
  BY <1>1, RiverVars, AfterStates DEF Torns
<1> QED BY <1>1, <1>2, RiverAfter DEF Kept

(* event_loop takes an event.                                              *)
LEMMA RiverFetch ==
    ASSUME E!EventsKept, NEW p \in Eproc, E!Fetch(p)
    PROVE  E!EventsKept'
<1>1. p \in E!Proc
  BY RiverFacts
<1>2. /\ e_status \in [E!Proc -> {"WAIT", "WEAK", "STRONG"}]
      /\ e_slice \in [E!Proc -> BOOLEAN]
      /\ e_pc \in [E!Proc -> {"loop", "handler", "exhaust", "wait", "yield"}]
      /\ queue \in Seq(Eproc) /\ proc_current \in E!Proc
      /\ pool \in [Eproc -> Seq(Event)]
      /\ event \in [Event -> {"WAIT", "QUEUE", "STRONG"}]
      /\ owed \in SUBSET Event /\ torn \in Torns
      /\ torn = "no" => E!Scheduled(E!Now) /\ E!Served(E!Now) /\ E!Pooled(E!Now)
  BY RiverVars
<1>3. /\ proc_current = p /\ e_pc[p] = "loop"
      /\ UNCHANGED <<e_status, e_slice, queue, proc_current, torn>>
  BY DEF E!Fetch, E!At
<1>4. /\ pool[p] = << >> => e_pc' = [e_pc EXCEPT ![p] = "exhaust"] /\ UNCHANGED <<pool, event, owed>>
      /\ pool[p] # << >> => e_pc' = [e_pc EXCEPT ![p] = "handler"]
      /\ pool[p] # << >> /\ event[Head(pool[p])] = "QUEUE" =>
           /\ event' = [event EXCEPT ![Head(pool[p])] = "WAIT"] /\ owed' = owed \ {Head(pool[p])}
           /\ pool' = [pool EXCEPT ![p] = Tail(pool[p])]
      /\ pool[p] # << >> /\ event[Head(pool[p])] # "QUEUE" =>
           /\ event' = [event EXCEPT ![Head(pool[p])] = "QUEUE"] /\ owed' = owed
           /\ pool' = [pool EXCEPT ![p] = Append(Tail(pool[p]), Head(pool[p]))]
  BY DEF E!Fetch
<1>5. e_pc' \in [E!Proc -> {"loop", "handler", "exhaust", "wait", "yield"}]
  BY <1>1, <1>2, <1>4
<1>6. \A q \in Eproc \ {p} : e_pc'[q] = e_pc[q]
  BY <1>2, <1>4, RiverFacts
<1>7. e_pc'[p] = IF pool[p] = << >> THEN "exhaust" ELSE "handler"
  BY <1>1, <1>2, <1>4
<1>8. torn = "no" => e_status[p] # "WAIT"
  BY <1>2, <1>3, RiverNow DEF E!Scheduled
<1>9. CASE pool[p] = << >>
  <2>1. UNCHANGED <<pool, event, owed>>
    BY <1>4, <1>9
  <2>2. /\ After \in E!States
        /\ After.status = e_status /\ After.pc = e_pc' /\ After.queue = queue
        /\ After.cur = p /\ After.pool = pool /\ After.event = event
        /\ After.owed = owed /\ After.torn = torn
    BY <1>2, <1>3, <1>5, <2>1, AfterStates
  <2>3. ASSUME torn = "no"
        PROVE  E!Scheduled(After) /\ E!Served(After) /\ E!Pooled(After)
    <3>1. E!Scheduled(E!Now) /\ E!Served(E!Now) /\ E!Pooled(E!Now)
      BY <1>2, <2>3
    <3>2. E!Scheduled(After)
      BY <1>3, <1>6, <1>8, <2>2, <2>3, <3>1, RiverNow DEF E!Scheduled, E!IsReady
    <3>3. E!Served(After)
      BY <1>6, <1>9, <2>2, <3>1, RiverNow DEF E!Served
    <3>4. E!Pooled(After)
      BY <2>2, <3>1, RiverNow DEF E!Pooled
    <3> QED BY <3>2, <3>3, <3>4
  <2> QED BY <2>2, <2>3, RiverAfter DEF Kept
<1>10. CASE pool[p] # << >>
  <2>1. PICK e \in Event : e = Head(pool[p]) /\ Tail(pool[p]) \in Seq(Event)
    BY <1>2, <1>10
  <2>2. PICK rest \in Seq(Event) : rest = Tail(pool[p])
    BY <2>1
  <2>3. PICK q \in Seq(Event), v \in {"WAIT", "QUEUE"}, o \in SUBSET Event :
          /\ pool' = [pool EXCEPT ![p] = q] /\ event' = [event EXCEPT ![e] = v] /\ owed' = o
          /\ \/ v = "WAIT" /\ o = owed \ {e} /\ q = rest
             \/ v = "QUEUE" /\ o = owed /\ q = Append(rest, e)
    <3>1. CASE event[e] = "QUEUE"
      <4>1. owed \ {e} \in SUBSET Event
        BY <1>2
      <4>2. /\ event' = [event EXCEPT ![e] = "WAIT"] /\ owed' = owed \ {e}
            /\ pool' = [pool EXCEPT ![p] = rest]
        BY <1>4, <1>10, <2>1, <2>2, <3>1
      <4> QED BY <4>1, <4>2
    <3>2. CASE event[e] # "QUEUE"
      <4>1. Append(rest, e) \in Seq(Event)
        BY <2>2
      <4>2. /\ event' = [event EXCEPT ![e] = "QUEUE"] /\ owed' = owed
            /\ pool' = [pool EXCEPT ![p] = Append(rest, e)]
        BY <1>4, <1>10, <2>1, <2>2, <3>2
      <4> QED BY <1>2, <4>1, <4>2
    <3> QED BY <3>1, <3>2
  <2>4. pool' \in [Eproc -> Seq(Event)] /\ pool'[p] = q /\ \A w \in Eproc \ {p} : pool'[w] = pool[w]
    BY <1>2, <2>3
  <2>5. /\ event' \in [Event -> {"WAIT", "QUEUE", "STRONG"}]
        /\ event'[e] = v /\ \A f \in Event \ {e} : event'[f] = event[f]
    BY <1>2, <2>3
  <2>6. /\ After \in E!States
        /\ After.status = e_status /\ After.pc = e_pc' /\ After.queue = queue
        /\ After.cur = p /\ After.pool = pool' /\ After.event = event'
        /\ After.owed = o /\ After.torn = torn
    BY <1>2, <1>3, <1>5, <2>3, <2>4, <2>5, AfterStates
  <2>7. ASSUME torn = "no"
        PROVE  E!Scheduled(After) /\ E!Served(After) /\ E!Pooled(After)
    <3>1. E!Scheduled(E!Now) /\ E!Served(E!Now) /\ E!Pooled(E!Now)
      BY <1>2, <2>7
    <3>2. E!Scheduled(After)
      BY <1>3, <1>6, <1>8, <2>6, <2>7, <3>1, RiverNow DEF E!Scheduled, E!IsReady
    <3>3. E!Served(After)
      BY <1>6, <1>7, <1>8, <1>10, <2>4, <2>6, <2>7, <3>1, RiverNow DEF E!Served
    <3>4. /\ \A w \in Eproc : E!IsInjective(pool[w]) /\ \A f \in E!ToSet(pool[w]) : Pool[f] = w
          /\ \A f \in Event : /\ event[f] = "WAIT" <=> f \notin E!ToSet(pool[Pool[f]])
                              /\ f \in owed => f \in E!ToSet(pool[Pool[f]])
      BY <3>1, RiverNow DEF E!Pooled
    <3>5. pool[p] \in Seq(Event) /\ E!IsInjective(pool[p])
      BY <1>2, <3>4
    <3>6. /\ e \in E!ToSet(pool[p]) /\ E!IsInjective(rest)
          /\ E!ToSet(rest) = E!ToSet(pool[p]) \ {e}
      BY <1>10, <2>1, <2>2, <3>5, E!TailElements
    <3>7. E!IsInjective(Append(rest, e)) /\ E!ToSet(Append(rest, e)) = E!ToSet(pool[p])
      <4>1. e \notin E!ToSet(rest)
        BY <3>6
      <4>2. E!IsInjective(Append(rest, e)) /\ E!ToSet(Append(rest, e)) = E!ToSet(rest) \cup {e}
        BY <3>6, <4>1, E!AppendElements
      <4> QED BY <3>6, <4>2
    <3>8. /\ E!IsInjective(q)
          /\ E!ToSet(q) = IF v = "WAIT" THEN E!ToSet(pool[p]) \ {e} ELSE E!ToSet(pool[p])
      BY <2>3, <3>6, <3>7
    <3>9. Pool[e] = p
      BY <3>4, <3>6
    <3>10. \A w \in Eproc : E!IsInjective(pool'[w]) /\ \A f \in E!ToSet(pool'[w]) : Pool[f] = w
      BY <2>4, <3>4, <3>8
    <3>11. ASSUME NEW f \in Event
           PROVE  /\ event'[f] = "WAIT" <=> f \notin E!ToSet(pool'[Pool[f]])
                  /\ f \in o => f \in E!ToSet(pool'[Pool[f]])
      <4>1. Pool[f] \in Eproc
        BY RiverFacts
      <4>2. CASE f = e
        BY <2>3, <2>4, <2>5, <3>6, <3>8, <3>9, <4>2
      <4>3. CASE f # e
        <5>1. f \in E!ToSet(pool'[Pool[f]]) <=> f \in E!ToSet(pool[Pool[f]])
          BY <2>4, <3>8, <4>1, <4>3
        <5> QED BY <2>3, <2>5, <3>4, <4>3, <5>1
      <4> QED BY <4>2, <4>3
    <3>12. E!Pooled(After)
      BY <2>6, <3>10, <3>11 DEF E!Pooled
    <3> QED BY <3>2, <3>3, <3>12
  <2> QED BY <2>6, <2>7, RiverAfter DEF Kept
<1> QED BY <1>9, <1>10

(* The empty queue and the empty pools.                                    *)
LEMMA RiverInit ==
    ASSUME E!Init
    PROVE  E!EventsKept
<1>1. /\ E!Now.status = [p \in E!Proc |-> IF p = E!ProcIdle THEN "WEAK" ELSE "WAIT"]
      /\ E!Now.slice = [p \in E!Proc |-> TRUE] /\ E!Now.pc = [p \in E!Proc |-> "loop"]
      /\ E!Now.queue = << >> /\ E!Now.cur = E!ProcIdle
      /\ E!Now.pool = [p \in Eproc |-> << >>]
      /\ E!Now.event = [e \in Event |-> "WAIT"] /\ E!Now.owed = {} /\ E!Now.torn = "no"
  BY RiverNow DEF E!Init
<1>2. E!Now \in E!States
  <2>1. [p \in E!Proc |-> TRUE] \in [E!Proc -> BOOLEAN]
    BY Zenon
  <2>2. e_slice \in [E!Proc -> BOOLEAN]
    BY <2>1 DEF E!Init
  <2>3. /\ e_status \in [E!Proc -> {"WAIT", "WEAK", "STRONG"}]
        /\ e_pc \in [E!Proc -> {"loop", "handler", "exhaust", "wait", "yield"}]
        /\ queue \in Seq(Eproc) /\ proc_current \in E!Proc
        /\ pool \in [Eproc -> Seq(Event)] /\ event \in [Event -> {"WAIT", "QUEUE", "STRONG"}]
        /\ owed \in SUBSET Event /\ torn = "no"
    BY RiverFacts DEF E!Init
  <2> QED BY <2>2, <2>3 DEF E!Now, E!States
<1>3. /\ \A p \in Eproc : /\ E!Now.status[p] = "WAIT" /\ E!Now.pc[p] = "loop" /\ p # E!ProcIdle
                          /\ E!Now.pool[p] = << >>
      /\ \A e \in Event : E!Now.event[e] = "WAIT" /\ Pool[e] \in Eproc
  BY <1>1, RiverFacts
<1>4. E!IsInjective(<< >>) /\ E!ToSet(<< >>) = {}
  BY DEF E!IsInjective, E!ToSet
<1>5. E!Scheduled(E!Now)
  BY <1>1, <1>3, <1>4 DEF E!Scheduled, E!IsReady
<1>6. E!Served(E!Now)
  BY <1>3 DEF E!Served
<1>7. E!Pooled(E!Now)
  BY <1>1, <1>3, <1>4 DEF E!Pooled
<1> QED BY <1>2, <1>5, <1>6, <1>7 DEF E!EventsKept

(* A step in which nothing changes.                                        *)
LEMMA RiverStutter ==
    ASSUME E!EventsKept, UNCHANGED E!vars
    PROVE  E!EventsKept'
<1>1. E!Becomes(E!Now)
  BY RiverNow DEF E!Becomes, E!vars
<1>2. Kept(E!Now)
  BY RiverNow
<1> QED BY <1>1, <1>2, RiverBecomes

(* No activation of an event is lost: until a process is notified between  *)
(* becoming PROC_STATUS_WAIT and calling proc_schedule, or an interrupt    *)
(* spoils a list, every process that may run is in the ready queue once or *)
(* runs, every event is in its pool exactly as its status says, and no     *)
(* process waits while its pool has an event, for every number of          *)
(* processes and events and every assignment of events to pools.           *)
THEOREM RiverEventsKept == E!Spec => [](unit = "event" => RiverSound)
<1>1. ASSUME E!EventsKept, E!Next
      PROVE  E!EventsKept'
  BY <1>1, RiverFetch, RiverHandler, RiverWaitTry, RiverWait, RiverIdle, RiverYield, RiverIrq,
     RiverIpi, RiverInside DEF E!Next
<1>2. E!EventsKept /\ [E!Next]_(E!vars) => E!EventsKept'
  BY <1>1, RiverStutter
<1>3. E!EventsKept => (unit = "event" => RiverSound)
  BY DEF RiverSound
<1> QED BY <1>2, <1>3, RiverInit, PTL DEF E!Spec
=============================================================================
