--------------------------- MODULE Process_proof ----------------------------
(***************************************************************************)
(* ParentLive, GroupLive and NoZombieUnnoticed hold for any set of         *)
(* processes.  They are proved together: a child can only be handed to a   *)
(* living thread because groups hold living threads only, and a wait can   *)
(* only miss a zombie if its group changed in between.  InitSeesAll comes  *)
(* last: once init_main is done nobody is left, and nobody comes back.     *)
(* The second part is about the handles on user semaphores, SemQueue, the  *)
(* third about file tables and pipes, Files.                               *)
(***************************************************************************)
EXTENDS MCProcess, Sequences, FiniteSetTheorems, TLAPS

USE ProcAssumption

(* The initial state satisfies the invariant.                              *)
LEMMA InitIndInv == Init => IndInv
<1> SUFFICES ASSUME Init PROVE IndInv
  OBVIOUS
<1>1. TypeOK
  BY DEF Init, TypeOK, All
<1>2. GroupLive /\ InitAlive /\ WaitSane
  BY DEF Init, GroupLive, InitAlive, WaitSane, Live, All
<1>3. ParentLive /\ NoZombieUnnoticed
  BY DEF Init, ParentLive, NoZombieUnnoticed, Exists, Live, All
<1> QED BY <1>1, <1>2, <1>3 DEF IndInv

(* A dead process is in no group but its own.                              *)
LEMMA DeadAlone ==
  ASSUME GroupLive, NEW p \in All, ~Live(p), group \in [All -> SUBSET All]
  PROVE  /\ group[p] = {p}
         /\ \A q \in All : q # p => p \notin group[q]
<1>1. ASSUME NEW q \in group[p], q # p PROVE FALSE
  <2>1. q \in All /\ group[q] = group[p] /\ p \in group[q]
    BY <1>1 DEF GroupLive
  <2> QED BY <1>1, <2>1 DEF GroupLive
<1>2. ASSUME NEW q \in All, q # p, p \in group[q] PROVE FALSE
  BY <1>2 DEF GroupLive
<1> QED BY <1>1, <1>2 DEF GroupLive

(* Steps that change neither who is related to whom nor who is alive only  *)
(* have to keep the sleepers and their wait states.                        *)
LEMMA SameFamily ==
  ASSUME IndInv, TypeOK', WaitSane',
         UNCHANGED <<parent, group>>,
         target'[initproc] = target[initproc],
         \A p \in All : /\ Live(p)' <=> Live(p)
                        /\ state'[p] = "none" <=> state[p] = "none"
                        /\ state'[p] = "ZOMBIE" <=> state[p] = "ZOMBIE",
         \A p \in All : state'[p] = "SLEEPING" /\ wait_state'[p] = "CHILD"
             => \/ /\ state[p] = "SLEEPING" /\ wait_state[p] = "CHILD"
                   /\ target'[p] = target[p]
                \/ \A c \in Proc : Exists(c) /\ parent[c] \in group[p]
                       /\ (target'[p] = AnyPid \/ c = target'[p]) => state[c] # "ZOMBIE"
  PROVE  IndInv'
<1>1. GroupLive'
  BY DEF IndInv, GroupLive, TypeOK
<1>2. ParentLive'
  <2> SUFFICES ASSUME NEW p \in Proc, Exists(p)' PROVE Live(parent[p])'
    BY DEF ParentLive
  <2>1. p \in All /\ parent[p] \in All
    BY DEF IndInv, TypeOK, All
  <2>2. Live(parent[p])
    BY <2>1 DEF IndInv, ParentLive, Exists
  <2> QED BY <2>1, <2>2
<1>3. NoZombieUnnoticed'
  BY DEF IndInv, NoZombieUnnoticed, Kids, Exists, All
<1>4. InitAlive'
  BY DEF IndInv, InitAlive, All
<1> QED BY <1>1, <1>2, <1>3, <1>4 DEF IndInv

(* What wakes processes up: they were asleep.                              *)
LEMMA WakeupKeeps ==
  ASSUME IndInv, NEW ps \in SUBSET All,
         \A p \in ps : wait_state[p] # "0"
  PROVE  LET st == Wakeup(state, ps)
             ws == WaitOver(ps)
         IN  /\ st \in [All -> {"none", "RUNNABLE", "SLEEPING", "ZOMBIE"}]
             /\ ws \in [All -> {"0", "CHILD", "TIMER", "KSEM"}]
             /\ \A p \in All :
                  /\ st[p] = "SLEEPING" <=> ws[p] # "0"
                  /\ (st[p] \in {"RUNNABLE", "SLEEPING"}) <=> Live(p)
                  /\ st[p] = "none" <=> state[p] = "none"
                  /\ st[p] = "ZOMBIE" <=> state[p] = "ZOMBIE"
                  /\ st[p] = "SLEEPING" => state[p] = "SLEEPING" /\ ws[p] = wait_state[p]
  BY DEF IndInv, TypeOK, WaitSane, Wakeup, WaitOver, Live

(* __do_kill                                                               *)
LEMMA DoKillKeeps ==
  ASSUME IndInv, NEW ps \in SUBSET Proc,
         NEW code \in [All -> {"0", "exit", "kill"}], DoKill(ps, code),
         pc' \in [All -> {"user", "wait", "block", "exit", "done"}],
         UNCHANGED <<target, parent, group>>
  PROVE  IndInv'
<1> DEFINE woken == {q \in {r \in ps : r \notin exiting} : Interruptible(q)}
<1>1. woken \in SUBSET All /\ \A p \in woken : wait_state[p] # "0"
  BY DEF Interruptible, All
<1>2. state' = Wakeup(state, woken) /\ wait_state' = WaitOver(woken)
  BY DEF DoKill
<1> HIDE DEF woken
<1>3. TypeOK'
  <2>1. /\ state' \in [All -> {"none", "RUNNABLE", "SLEEPING", "ZOMBIE"}]
        /\ wait_state' \in [All -> {"0", "CHILD", "TIMER", "KSEM"}]
    BY <1>1, <1>2, WakeupKeeps
  <2>2. exiting' \in SUBSET All
    BY DEF DoKill, IndInv, TypeOK, All
  <2>3. exit_code' \in [All -> {"0", "exit", "kill"}]
    BY DEF DoKill
  <2> QED BY <2>1, <2>2, <2>3 DEF IndInv, TypeOK
<1>4. WaitSane'
  BY <1>1, <1>2, WakeupKeeps DEF WaitSane
<1>5. /\ \A p \in All : /\ Live(p)' <=> Live(p)
                        /\ state'[p] = "none" <=> state[p] = "none"
                        /\ state'[p] = "ZOMBIE" <=> state[p] = "ZOMBIE"
      /\ \A p \in All : state'[p] = "SLEEPING" =>
                          state[p] = "SLEEPING" /\ wait_state'[p] = wait_state[p]
  BY <1>1, <1>2, WakeupKeeps DEF Live
<1> QED BY <1>3, <1>4, <1>5, SameFamily

-----------------------------------------------------------------------------
(* One lemma per action that changes the family.                           *)

(* do_fork: the new process has a living parent and joins a living group.  *)
LEMMA ForkKeeps ==
  ASSUME IndInv, NEW p \in Proc, NEW q \in Proc, NEW thread \in BOOLEAN,
         Fork(p, q, thread)
  PROVE  IndInv'
<1> p \in All /\ q \in All /\ p # q /\ q # initproc /\ Live(p) /\ ~Live(q)
  BY DEF Fork, At, Exists, Live, All
<1>a. /\ group[q] = {q} /\ \A r \in All : r # q => q \notin group[r]
      /\ group[p] \in SUBSET All
  BY DeadAlone DEF IndInv, TypeOK
<1>b. \A r \in All : r # q => state'[r] = state[r] /\ wait_state'[r] = wait_state[r]
                                /\ target'[r] = target[r]
  BY DEF Fork, IndInv, TypeOK
<1>c. state'[q] = "RUNNABLE" /\ wait_state'[q] = wait_state[q]
  BY DEF Fork, IndInv, TypeOK
<1>1. TypeOK'
  <2>1. group' \in [All -> SUBSET All]
    BY <1>a DEF Fork, IndInv, TypeOK
  <2>2. /\ state' \in [All -> {"none", "RUNNABLE", "SLEEPING", "ZOMBIE"}]
        /\ parent' \in [Proc -> All]
        /\ exiting' \in SUBSET All
        /\ exit_code' \in [All -> {"0", "exit", "kill"}]
    BY DEF Fork, IndInv, TypeOK
  <2>3. pc' \in [All -> {"user", "wait", "block", "exit", "done"}]
    BY DEF Fork, IndInv, TypeOK, Return
  <2> QED BY <2>1, <2>2, <2>3 DEF Fork, IndInv, TypeOK
<1>2. WaitSane'
  BY <1>b, <1>c DEF IndInv, WaitSane, Live
<1>3. \A r \in All : /\ Live(r)' <=> (Live(r) \/ r = q)
                     /\ r # q => (state'[r] = "ZOMBIE" <=> state[r] = "ZOMBIE")
                     /\ Exists(r)' <=> (Exists(r) \/ r = q)
  BY <1>b, <1>c DEF Live, Exists
<1>4. GroupLive'
  <2>1. CASE thread
    <3>1. \A r \in All : group'[r] = IF r \in group[p] \cup {q}
                                     THEN group[p] \cup {q} ELSE group[r]
      BY <2>1 DEF Fork
    <3>2. \A r \in All : r \notin group[p] /\ r # q => group[r] \cap group[p] = {}
      BY DEF IndInv, GroupLive, TypeOK
    <3>3. \A r \in group[p] : Live(r)'
      BY <1>a, <1>3 DEF IndInv, GroupLive
    <3>4. ASSUME NEW r \in All
          PROVE  r \in group'[r] /\ \A s \in group'[r] : group'[s] = group'[r] /\ (s # r => Live(s)')
      <4>1. CASE r \in group[p] \cup {q}
        BY <1>a, <1>3, <3>1, <3>3, <4>1 DEF IndInv, TypeOK
      <4>2. CASE r \notin group[p] \cup {q}
        <5>1. \A s \in group[r] : s \in All /\ s \notin group[p] \cup {q} /\ group[s] = group[r]
                                  /\ (s # r => Live(s))
          BY <1>a, <3>2, <4>2 DEF IndInv, GroupLive, TypeOK
        <5> QED BY <5>1, <3>1, <1>3, <4>2 DEF IndInv, GroupLive
      <4> QED BY <4>1, <4>2
    <3> QED BY <3>4 DEF GroupLive
  <2>2. CASE ~thread
    <3>1. group' = group
      BY <1>a, <2>2 DEF Fork, IndInv, TypeOK
    <3> QED BY <3>1, <1>3 DEF IndInv, GroupLive, TypeOK
  <2> QED BY <2>1, <2>2
<1>5. ParentLive'
  <2> SUFFICES ASSUME NEW c \in Proc, Exists(c)' PROVE Live(parent[c])'
    BY DEF ParentLive
  <2>1. CASE c = q
    BY <2>1, <1>3 DEF Fork, IndInv, TypeOK
  <2>2. CASE c # q
    <3>1. c \in All /\ Exists(c) /\ parent'[c] = parent[c] /\ parent[c] \in All
      BY <2>2, <1>3 DEF Fork, IndInv, TypeOK, All
    <3> QED BY <3>1, <1>3 DEF IndInv, ParentLive
  <2> QED BY <2>1, <2>2
<1>6. NoZombieUnnoticed'
  <2> SUFFICES ASSUME NEW r \in All, state'[r] = "SLEEPING", wait_state'[r] = "CHILD",
                      NEW c \in Proc, Exists(c)', parent'[c] \in group'[r],
                      target'[r] = AnyPid \/ c = target'[r], state'[c] = "ZOMBIE"
               PROVE  FALSE
    BY DEF NoZombieUnnoticed, Kids
  <2>1. r # q /\ c # q /\ c \in All
    BY <1>c DEF All
  <2>2. parent'[c] = parent[c] /\ parent[c] \in All
    BY <2>1 DEF Fork, IndInv, TypeOK
  <2>3. Live(parent[c]) /\ Exists(c) /\ state[c] = "ZOMBIE"
    BY <2>1, <1>3, <1>b DEF IndInv, ParentLive
  <2>4. parent[c] # q
    BY <2>3
  <2>5. parent[c] \in group[r]
    <3>1. group'[r] = group[r] \/ (r \in group[p] /\ group'[r] = group[p] \cup {q})
      BY <1>a, <2>1 DEF Fork, IndInv, TypeOK
    <3>2. r \in group[p] => group[r] = group[p]
      BY DEF IndInv, GroupLive
    <3> QED BY <3>1, <3>2, <2>2, <2>4
  <2> QED BY <2>1, <2>2, <2>3, <2>5, <1>b DEF IndInv, NoZombieUnnoticed, Kids
<1>7. InitAlive'
  <2>1. group'[initproc] = group[initproc]
    <3>1. p \notin group[initproc] /\ initproc \notin group[p]
      BY DEF IndInv, InitAlive, GroupLive, All
    <3> QED BY <3>1, <1>a DEF Fork, All, IndInv, TypeOK
  <2> QED BY <2>1, <1>3, <1>b DEF IndInv, InitAlive, All
<1> QED BY <1>1, <1>2, <1>4, <1>5, <1>6, <1>7 DEF IndInv

(* de_thread keeps the groups living.                                      *)
LEMMA DeThreadKeeps ==
  ASSUME IndInv, NEW p \in Proc, group' = DeThread(p),
         \A r \in All : r # p => (Live(r) => Live(r)')
  PROVE  /\ group' \in [All -> SUBSET All]
         /\ GroupLive'
         /\ group'[initproc] = {initproc}
         /\ \A r \in All : group'[r] \in SUBSET group[r]
<1> p \in All /\ initproc \in All /\ initproc # p
  BY DEF All
<1>1. \A r \in All : group'[r] = IF r = p THEN {p} ELSE group[r] \ {p}
  BY DEF DeThread
<1>2. group' \in [All -> SUBSET All]
  BY DEF DeThread, IndInv, TypeOK
<1>3. ASSUME NEW r \in All
      PROVE  r \in group'[r] /\ \A q \in group'[r] : group'[q] = group'[r] /\ (q # r => Live(q)')
  <2>1. CASE r = p
    BY <2>1, <1>1
  <2>2. CASE r # p
    <3>1. \A q \in group[r] \ {p} : q \in All /\ group[q] = group[r] /\ (q # r => Live(q)')
      BY <2>2 DEF IndInv, GroupLive, TypeOK
    <3> QED BY <2>2, <3>1, <1>1 DEF IndInv, GroupLive
  <2> QED BY <2>1, <2>2
<1>4. ASSUME NEW r \in All PROVE group'[r] \in SUBSET group[r]
  <2>1. r \in group[r]
    BY DEF IndInv, GroupLive
  <2> QED BY <1>1, <2>1
<1> QED BY <1>1, <1>2, <1>3, <1>4 DEF GroupLive, IndInv, InitAlive

(* do_execve                                                               *)
LEMMA ExecveKeeps ==
  ASSUME IndInv, NEW p \in Proc, Execve(p)
  PROVE  IndInv'
<1>0. UNCHANGED <<state, wait_state, target, parent, exiting, exit_code>>
  BY DEF Execve
<1>1. \A r \in All : Live(r)' <=> Live(r)
  BY <1>0 DEF Live
<1>2. /\ group' \in [All -> SUBSET All] /\ GroupLive' /\ group'[initproc] = {initproc}
      /\ \A r \in All : group'[r] \in SUBSET group[r]
  BY <1>1, DeThreadKeeps DEF Execve
<1>3. pc' \in [All -> {"user", "wait", "block", "exit", "done"}]
  BY DEF Execve, IndInv, TypeOK, Return
<1>4. TypeOK' /\ WaitSane' /\ InitAlive'
  BY <1>0, <1>2, <1>3 DEF IndInv, TypeOK, WaitSane, InitAlive, Live
<1>5. ParentLive'
  BY <1>0 DEF IndInv, ParentLive, Live, Exists
<1>6. NoZombieUnnoticed'
  BY <1>0, <1>2 DEF IndInv, NoZombieUnnoticed, Kids, Exists
<1> QED BY <1>2, <1>4, <1>5, <1>6 DEF IndInv

(* The end of __do_exit: the waiters that could miss the new zombie are    *)
(* those of the parent's group, and they are woken; the heir is alive.     *)
LEMMA BecomeZombieKeeps ==
  ASSUME IndInv, NEW p \in Proc, BecomeZombie(p)
  PROVE  IndInv'
<1> p \in All /\ initproc \in All /\ initproc # p /\ state[p] = "RUNNABLE"
  BY DEF BecomeZombie, At, All
<1> DEFINE inherited == \E c \in Children(p) : c = p \/ state[c] = "ZOMBIE"
           Woken(heir) == {w \in group[parent[p]] \cup (IF inherited THEN {heir} ELSE {}) :
                              wait_state[w] = "CHILD"}
<1>0. PICK heir \in Heirs(p) :
         /\ state' = [Wakeup(state, Woken(heir)) EXCEPT ![p] = "ZOMBIE"]
         /\ wait_state' = WaitOver(Woken(heir))
         /\ parent' = [c \in Proc |-> IF c \in Children(p) THEN heir ELSE parent[c]]
  BY DEF BecomeZombie
<1>1. parent[p] \in All /\ group[parent[p]] \in SUBSET All
  BY DEF IndInv, TypeOK
<1>2. heir \in All /\ heir # p /\ Live(heir) /\ (heir = initproc \/ heir \in group[p])
  BY <1>0 DEF Heirs, IndInv, GroupLive, InitAlive, TypeOK
<1> DEFINE woken == Woken(heir)
<1>3. woken \in SUBSET All /\ p \notin woken /\ \A w \in woken : wait_state[w] = "CHILD"
  <2>1. wait_state[p] = "0"
    BY DEF IndInv, WaitSane, TypeOK
  <2> QED BY <1>1, <1>2, <2>1
<1>4. state' = [Wakeup(state, woken) EXCEPT ![p] = "ZOMBIE"] /\ wait_state' = WaitOver(woken)
  BY <1>0
<1>5. \A w \in group[parent[p]] : wait_state[w] = "CHILD" => w \in woken
  OBVIOUS
<1>6. inherited /\ wait_state[heir] = "CHILD" => heir \in woken
  OBVIOUS
<1>7. inherited <=> \E c \in Children(p) : c = p \/ state[c] = "ZOMBIE"
  OBVIOUS
<1> HIDE DEF woken, inherited, Woken
<1>8. /\ state' \in [All -> {"none", "RUNNABLE", "SLEEPING", "ZOMBIE"}]
      /\ wait_state' \in [All -> {"0", "CHILD", "TIMER", "KSEM"}]
      /\ state'[p] = "ZOMBIE" /\ wait_state'[p] = "0"
      /\ \A r \in All : r # p =>
             /\ state'[r] = "SLEEPING" <=> wait_state'[r] # "0"
             /\ Live(r)' <=> Live(r)
             /\ state'[r] = "none" <=> state[r] = "none"
             /\ state'[r] = "ZOMBIE" <=> state[r] = "ZOMBIE"
             /\ state'[r] = "SLEEPING" => state[r] = "SLEEPING" /\ wait_state'[r] = wait_state[r]
                                          /\ r \notin woken
  BY <1>3, <1>4, WakeupKeeps DEF Wakeup, WaitOver, IndInv, WaitSane, TypeOK, Live
<1>9. /\ group' \in [All -> SUBSET All] /\ GroupLive' /\ group'[initproc] = {initproc}
      /\ \A r \in All : group'[r] \in SUBSET group[r]
  BY <1>8, DeThreadKeeps DEF BecomeZombie
<1>10. TypeOK'
  <2>1. parent' \in [Proc -> All]
    BY <1>0, <1>2 DEF IndInv, TypeOK
  <2> QED BY <2>1, <1>8, <1>9 DEF BecomeZombie, IndInv, TypeOK
<1>11. WaitSane' /\ InitAlive'
  BY <1>8, <1>9 DEF IndInv, WaitSane, InitAlive, BecomeZombie
<1>12. ParentLive'
  <2> SUFFICES ASSUME NEW c \in Proc, Exists(c)' PROVE Live(parent[c])'
    BY DEF ParentLive
  <2>0. c \in All /\ Exists(c)
    BY <1>8 DEF Exists, All
  <2>1. CASE parent[c] = p
    <3>1. parent'[c] = heir
      BY <1>0, <2>0, <2>1 DEF Children
    <3> QED BY <3>1, <1>2, <1>8
  <2>2. CASE parent[c] # p
    <3>1. parent'[c] = parent[c] /\ parent[c] \in All
      BY <1>0, <2>2 DEF Children, IndInv, TypeOK
    <3> QED BY <3>1, <2>0, <2>2, <1>8 DEF IndInv, ParentLive
  <2> QED BY <2>1, <2>2
<1>13. NoZombieUnnoticed'
  <2> SUFFICES ASSUME NEW r \in All, state'[r] = "SLEEPING", wait_state'[r] = "CHILD",
                      NEW c \in Proc, Exists(c)', parent'[c] \in group'[r],
                      target'[r] = AnyPid \/ c = target'[r], state'[c] = "ZOMBIE"
               PROVE  FALSE
    BY DEF NoZombieUnnoticed, Kids
  <2>1. r # p /\ state[r] = "SLEEPING" /\ wait_state[r] = "CHILD" /\ r \notin woken
        /\ c \in All /\ Exists(c) /\ target'[r] = target[r]
    BY <1>8 DEF Exists, All, BecomeZombie
  <2>2. parent'[c] \in group[r] /\ (c # p => state[c] = "ZOMBIE")
    BY <1>8, <1>9, <2>1
  <2>3. r \notin group[parent[p]]
    BY <1>5, <2>1
  <2>4. CASE parent[c] # p
    <3>1. parent'[c] = parent[c] /\ parent[c] \in All
      BY <1>0, <2>4 DEF Children, IndInv, TypeOK
    <3>2. CASE c = p
      <4>1. parent[p] \in group[r]
        BY <3>1, <3>2, <2>2
      <4>2. r \in group[parent[p]]
        BY <4>1 DEF IndInv, GroupLive
      <4> QED BY <4>2, <2>3
    <3>3. CASE c # p
      BY <3>1, <3>3, <2>1, <2>2 DEF IndInv, NoZombieUnnoticed, Kids
    <3> QED BY <3>2, <3>3
  <2>5. CASE parent[c] = p
    <3>1. c \in Children(p) /\ parent'[c] = heir
      BY <1>0, <2>1, <2>5 DEF Children
    <3>2. inherited
      BY <3>1, <2>2, <1>7
    <3>3. r # heir
      BY <3>2, <2>1, <1>6
    <3>4. heir \in group[p]
      BY <1>2, <2>2, <3>1, <3>3 DEF IndInv, GroupLive, InitAlive
    <3>5. p \in group[r]
      BY <1>2, <2>2, <3>1, <3>4 DEF IndInv, GroupLive
    <3>6. CASE c = p
      <4>1. r \in group[p]
        BY <3>5 DEF IndInv, GroupLive
      <4> QED BY <3>6, <2>3, <2>5, <4>1
    <3>7. CASE c # p
      BY <3>5, <3>7, <2>1, <2>2, <2>5 DEF IndInv, NoZombieUnnoticed, Kids
    <3> QED BY <3>6, <3>7
  <2> QED BY <2>4, <2>5
<1> QED BY <1>9, <1>10, <1>11, <1>12, <1>13 DEF IndInv

(* do_wait and init_main free a zombie: it had no children and was in      *)
(* nobody else's group.                                                    *)
LEMMA ReapKeeps ==
  ASSUME IndInv, NEW z \in Proc, state[z] = "ZOMBIE", Reap(z),
         pc' \in [All -> {"user", "wait", "block", "exit", "done"}],
         target' \in [All -> Proc \cup {AnyPid}],
         target'[initproc] = target[initproc],
         \A r \in All : state[r] = "SLEEPING" => target'[r] = target[r],
         UNCHANGED <<wait_state, group>>
  PROVE  IndInv'
<1> z \in All /\ initproc \in All /\ z # initproc
  BY DEF All
<1>1. /\ state'[z] = "none"
      /\ \A r \in All : r # z => state'[r] = state[r]
      /\ \A c \in Proc : c # z => parent'[c] = parent[c]
  BY DEF Reap, IndInv, TypeOK
<1>2. TypeOK'
  <2>1. /\ state' \in [All -> {"none", "RUNNABLE", "SLEEPING", "ZOMBIE"}]
        /\ parent' \in [Proc -> All]
        /\ exiting' \in SUBSET All
        /\ exit_code' \in [All -> {"0", "exit", "kill"}]
    BY DEF Reap, IndInv, TypeOK
  <2> QED BY <2>1 DEF IndInv, TypeOK
<1>3. \A r \in All : Live(r)' <=> Live(r)
  BY <1>1 DEF Live
<1>4. WaitSane' /\ InitAlive' /\ GroupLive'
  BY <1>1, <1>3 DEF IndInv, WaitSane, InitAlive, GroupLive, TypeOK
<1>5. ParentLive'
  <2> SUFFICES ASSUME NEW c \in Proc, Exists(c)' PROVE Live(parent[c])'
    BY DEF ParentLive
  <2>1. c \in All /\ c # z /\ Exists(c) /\ parent'[c] = parent[c] /\ parent[c] \in All
    BY <1>1 DEF Exists, All, IndInv, TypeOK
  <2> QED BY <2>1, <1>3 DEF IndInv, ParentLive
<1>6. NoZombieUnnoticed'
  <2> SUFFICES ASSUME NEW r \in All, state'[r] = "SLEEPING", wait_state'[r] = "CHILD",
                      NEW c \in Proc, Exists(c)', parent'[c] \in group'[r],
                      target'[r] = AnyPid \/ c = target'[r], state'[c] = "ZOMBIE"
               PROVE  FALSE
    BY DEF NoZombieUnnoticed, Kids
  <2>1. r # z /\ state[r] = "SLEEPING" /\ target'[r] = target[r] /\ wait_state[r] = "CHILD"
    BY <1>1
  <2>2. c # z /\ c \in All /\ state[c] = "ZOMBIE" /\ parent[c] \in group[r]
    BY <1>1 DEF All
  <2> QED BY <2>1, <2>2 DEF IndInv, NoZombieUnnoticed, Kids, Exists
<1> QED BY <1>2, <1>4, <1>5, <1>6 DEF IndInv

(* One pass of do_wait.                                                    *)
LEMMA WaitPassKeeps ==
  ASSUME IndInv, NEW p \in Proc, NEW t \in Proc \cup {AnyPid}, state[p] = "RUNNABLE",
         WaitPass(p, t)
  PROVE  IndInv'
<1> p \in All /\ initproc \in All /\ p # initproc
  BY DEF All
<1> DEFINE zombies == {c \in Kids(p, t) : state[c] = "ZOMBIE"}
<1>1. ASSUME NEW z \in zombies, Reap(z),
             pc' = [pc EXCEPT ![z] = "user", ![p] = Return(p)],
             target' = [target EXCEPT ![p] = AnyPid],
             UNCHANGED <<wait_state, group>>
      PROVE  IndInv'
  <2>1. z \in Proc /\ state[z] = "ZOMBIE"
    BY DEF Kids
  <2>2. pc' \in [All -> {"user", "wait", "block", "exit", "done"}]
    BY <1>1 DEF IndInv, TypeOK, Return
  <2>3. /\ target' \in [All -> Proc \cup {AnyPid}]
        /\ target'[initproc] = target[initproc]
        /\ \A r \in All : state[r] = "SLEEPING" => target'[r] = target[r]
    BY <1>1 DEF IndInv, TypeOK
  <2> QED BY <1>1, <2>1, <2>2, <2>3, ReapKeeps
<1>2. ASSUME zombies = {},
             state' = [state EXCEPT ![p] = "SLEEPING"],
             wait_state' = [wait_state EXCEPT ![p] = "CHILD"],
             pc' = [pc EXCEPT ![p] = "wait"],
             target' = [target EXCEPT ![p] = t],
             UNCHANGED <<parent, group, exiting, exit_code>>
      PROVE  IndInv'
  <2>1. TypeOK'
    BY <1>2 DEF IndInv, TypeOK
  <2>2. /\ state'[p] = "SLEEPING" /\ wait_state'[p] = "CHILD" /\ target'[p] = t
        /\ \A r \in All : r # p => /\ state'[r] = state[r] /\ wait_state'[r] = wait_state[r]
                                    /\ target'[r] = target[r]
    BY <1>2 DEF IndInv, TypeOK
  <2>3. WaitSane'
    BY <2>2 DEF IndInv, WaitSane
  <2>4. \A r \in All : /\ Live(r)' <=> Live(r)
                       /\ state'[r] = "none" <=> state[r] = "none"
                       /\ state'[r] = "ZOMBIE" <=> state[r] = "ZOMBIE"
    BY <2>2 DEF Live
  <2>5. \A c \in Proc : Exists(c) /\ parent[c] \in group[p]
            /\ (target'[p] = AnyPid \/ c = target'[p]) => state[c] # "ZOMBIE"
    BY <1>2, <2>2 DEF Kids
  <2> QED BY <1>2, <2>1, <2>2, <2>3, <2>4, <2>5, SameFamily
<1>3. ASSUME pc' = [pc EXCEPT ![p] = Return(p)],
             target' = [target EXCEPT ![p] = AnyPid],
             UNCHANGED <<state, wait_state, parent, group, exiting, exit_code>>
      PROVE  IndInv'
  <2>1. TypeOK'
    BY <1>3 DEF IndInv, TypeOK, Return
  <2>2. \A r \in All : r # p => target'[r] = target[r]
    BY <1>3 DEF IndInv, TypeOK
  <2>3. WaitSane' /\ \A r \in All : Live(r)' <=> Live(r)
    BY <1>3 DEF IndInv, WaitSane, Live
  <2> QED BY <1>3, <2>1, <2>2, <2>3, SameFamily
<1> QED BY <1>1, <1>2, <1>3 DEF WaitPass

(* Steps that only move the program counter.                               *)
LEMMA PcOnlyKeeps ==
  ASSUME IndInv, pc' \in [All -> {"user", "wait", "block", "exit", "done"}],
         exit_code' \in [All -> {"0", "exit", "kill"}],
         UNCHANGED <<state, wait_state, target, parent, group, exiting>>
  PROVE  IndInv'
  BY DEF IndInv, TypeOK, GroupLive, ParentLive, NoZombieUnnoticed, InitAlive, WaitSane,
         Kids, Exists, Live

(* Every step keeps the invariant.                                         *)
LEMMA NextIndInv == IndInv /\ [Next]_vars => IndInv'
<1> SUFFICES ASSUME IndInv, [Next]_vars PROVE IndInv'
  OBVIOUS
<1>1. CASE UNCHANGED vars
  BY <1>1, PcOnlyKeeps DEF vars, IndInv, TypeOK
<1>2. CASE InitWait
  <2> DEFINE zombies == {c \in Kids(initproc, AnyPid) : state[c] = "ZOMBIE"}
  <2> initproc \in All /\ initproc \notin Proc
    BY DEF All
  <2>1. ASSUME NEW z \in zombies, Reap(z),
               pc' \in [All -> {"user", "wait", "block", "exit", "done"}],
               UNCHANGED <<wait_state, target, group>>
        PROVE  IndInv'
    <3>1. z \in Proc /\ state[z] = "ZOMBIE"
      BY DEF Kids
    <3> QED BY <2>1, <3>1, ReapKeeps DEF IndInv, TypeOK
  <2>2. ASSUME zombies = {},
               state' = [state EXCEPT ![initproc] = "SLEEPING"],
               wait_state' = [wait_state EXCEPT ![initproc] = "CHILD"],
               UNCHANGED <<pc, target, parent, group, exiting, exit_code>>
        PROVE  IndInv'
    <3>1. TypeOK'
      BY <2>2 DEF IndInv, TypeOK
    <3>2. /\ state'[initproc] = "SLEEPING" /\ wait_state'[initproc] = "CHILD"
          /\ \A r \in All : r # initproc => state'[r] = state[r] /\ wait_state'[r] = wait_state[r]
      BY <2>2 DEF IndInv, TypeOK
    <3>3. WaitSane'
      BY <3>2 DEF IndInv, WaitSane
    <3>4. \A r \in All : /\ Live(r)' <=> Live(r)
                         /\ state'[r] = "none" <=> state[r] = "none"
                         /\ state'[r] = "ZOMBIE" <=> state[r] = "ZOMBIE"
      BY <3>2 DEF IndInv, InitAlive, Live
    <3>5. \A c \in Proc : Exists(c) /\ parent[c] \in group[initproc]
            /\ (target'[initproc] = AnyPid \/ c = target'[initproc]) => state[c] # "ZOMBIE"
      BY <2>2 DEF Kids
    <3> QED BY <2>2, <3>1, <3>2, <3>3, <3>4, <3>5, SameFamily
  <2>3. \A z \in zombies : pc' = [pc EXCEPT ![z] = "user", ![initproc] =
                IF \A p \in Proc \ {z} : ~Exists(p) THEN "done" ELSE "wait"]
            => pc' \in [All -> {"user", "wait", "block", "exit", "done"}]
    BY DEF IndInv, TypeOK
  <2> QED BY <1>2, <2>1, <2>2, <2>3 DEF InitWait
<1>3. ASSUME NEW p \in Proc, NEW q \in Proc, NEW thread \in BOOLEAN, Fork(p, q, thread)
      PROVE  IndInv'
  BY <1>3, ForkKeeps
<1>4. ASSUME NEW p \in Proc, NEW q \in Proc, Kill(p, q)
      PROVE  IndInv'
  <2>1. pc' \in [All -> {"user", "wait", "block", "exit", "done"}]
    BY <1>4 DEF Kill, IndInv, TypeOK, Return
  <2> QED BY <1>4, <2>1, DoKillKeeps DEF Kill, IndInv, TypeOK
<1>5. ASSUME NEW p \in Proc, NEW t \in Proc \cup {AnyPid}, Wait(p, t)
      PROVE  IndInv'
  BY <1>5, WaitPassKeeps DEF Wait, At
<1>6. ASSUME NEW p \in Proc, NEW w \in {"TIMER", "KSEM"}, Block(p, w)
      PROVE  IndInv'
  <2> p \in All /\ p # initproc
    BY DEF All
  <2>1. TypeOK'
    BY <1>6 DEF Block, IndInv, TypeOK
  <2>2. /\ state[p] = "RUNNABLE" /\ state'[p] = "SLEEPING" /\ wait_state'[p] = w
        /\ \A r \in All : r # p => state'[r] = state[r] /\ wait_state'[r] = wait_state[r]
    BY <1>6 DEF Block, At, IndInv, TypeOK
  <2>3. WaitSane' /\ \A r \in All : Live(r)' <=> Live(r)
    BY <2>2 DEF IndInv, WaitSane, Live
  <2> QED BY <1>6, <2>1, <2>2, <2>3, SameFamily DEF Block
<1>7. ASSUME NEW p \in Proc, NEW w \in {"TIMER", "KSEM"}, Unblock(p, w)
      PROVE  IndInv'
  <2> p \in All /\ p # initproc
    BY DEF All
  <2>1. TypeOK'
    BY <1>7 DEF Unblock, IndInv, TypeOK
  <2>2. /\ state[p] = "SLEEPING" /\ state'[p] = "RUNNABLE" /\ wait_state'[p] = "0"
        /\ \A r \in All : r # p => state'[r] = state[r] /\ wait_state'[r] = wait_state[r]
    BY <1>7 DEF Unblock, IndInv, TypeOK
  <2>3. WaitSane' /\ \A r \in All : Live(r)' <=> Live(r)
    BY <2>2 DEF IndInv, WaitSane, Live
  <2> QED BY <1>7, <2>1, <2>2, <2>3, SameFamily DEF Unblock
<1>8. ASSUME NEW p \in Proc, Exit(p) PROVE IndInv'
  <2> p \in All
    BY DEF All
  <2>1. group[p] \ {p} \in SUBSET Proc
    BY DEF IndInv, GroupLive, InitAlive, TypeOK, All
  <2>2. pc' \in [All -> {"user", "wait", "block", "exit", "done"}]
    BY <1>8 DEF Exit, IndInv, TypeOK
  <2>3. [exit_code EXCEPT ![p] = "exit"] \in [All -> {"0", "exit", "kill"}]
    BY DEF IndInv, TypeOK
  <2> QED BY <1>8, <2>1, <2>2, <2>3, DoKillKeeps DEF Exit
<1>9. ASSUME NEW p \in Proc, ExitThread(p) \/ TrapTick(p) \/ BlockReturn(p) PROVE IndInv'
  <2>1. pc' \in [All -> {"user", "wait", "block", "exit", "done"}]
    BY <1>9 DEF ExitThread, TrapTick, BlockReturn, Return, IndInv, TypeOK
  <2>2. exit_code' \in [All -> {"0", "exit", "kill"}]
    BY <1>9 DEF ExitThread, TrapTick, BlockReturn, IndInv, TypeOK
  <2>3. UNCHANGED <<state, wait_state, target, parent, group, exiting>>
    BY <1>9 DEF ExitThread, TrapTick, BlockReturn
  <2> QED BY <2>1, <2>2, <2>3, PcOnlyKeeps
<1>10. ASSUME NEW p \in Proc, BecomeZombie(p) PROVE IndInv'
  BY <1>10, BecomeZombieKeeps
<1>11. ASSUME NEW p \in Proc, WaitAgain(p) PROVE IndInv'
  <2> p \in All /\ p # initproc
    BY DEF All
  <2>1. CASE p \in exiting
    <3>1. TypeOK'
      BY <1>11, <2>1 DEF WaitAgain, IndInv, TypeOK
    <3>2. \A r \in All : r # p => target'[r] = target[r]
      BY <1>11, <2>1 DEF WaitAgain, IndInv, TypeOK
    <3>3. UNCHANGED <<state, wait_state, parent, group>> /\ state[p] = "RUNNABLE"
      BY <1>11, <2>1 DEF WaitAgain, At
    <3>4. WaitSane' /\ \A r \in All : Live(r)' <=> Live(r)
      BY <3>3 DEF IndInv, WaitSane, Live
    <3>5. \A r \in All : state'[r] = "SLEEPING" =>
              state[r] = "SLEEPING" /\ wait_state'[r] = wait_state[r] /\ target'[r] = target[r]
      BY <3>2, <3>3
    <3>6. target'[initproc] = target[initproc]
      BY <3>2 DEF All
    <3>7. \A r \in All : /\ state'[r] = "none" <=> state[r] = "none"
                         /\ state'[r] = "ZOMBIE" <=> state[r] = "ZOMBIE"
      BY <3>3
    <3> QED BY <3>1, <3>3, <3>4, <3>5, <3>6, <3>7, SameFamily
  <2>2. CASE p \notin exiting
    BY <1>11, <2>2, WaitPassKeeps DEF WaitAgain, At, IndInv, TypeOK
  <2> QED BY <2>1, <2>2
<1>12. ASSUME NEW p \in Proc, Execve(p) PROVE IndInv'
  BY <1>12, ExecveKeeps
<1> QED BY <1>1, <1>2, <1>3, <1>4, <1>5, <1>6, <1>7, <1>8, <1>9, <1>10, <1>11, <1>12 DEF Next

-----------------------------------------------------------------------------
(* The invariant holds in every reachable state.                           *)
LEMMA SpecIndInv == Spec => []IndInv
  BY InitIndInv, NextIndInv, PTL DEF Spec

(* Every process, zombies included, always has a living parent: __do_exit  *)
(* never leaves a child to a thread that has itself exited.                *)
THEOREM ParentsLive == Spec => []ParentLive
<1>1. IndInv => ParentLive
  BY DEF IndInv
<1> QED BY <1>1, SpecIndInv, PTL

(* do_wait never sleeps on while a child it waits for is a zombie.         *)
THEOREM NoLostChildWakeup == Spec => []NoZombieUnnoticed
<1>1. IndInv => NoZombieUnnoticed
  BY DEF IndInv
<1> QED BY <1>1, SpecIndInv, PTL

(* Thread groups hold living threads only.                                 *)
THEOREM GroupsLive == Spec => []GroupLive
<1>1. IndInv => GroupLive
  BY DEF IndInv
<1> QED BY <1>1, SpecIndInv, PTL

(* Where init_main is, and what it has seen when it is done.               *)
InitInv == pc[initproc] \in {"wait", "done"} /\ InitSeesAll

(* What the other processes do leaves init_main where it is, and happens   *)
(* only while one of them exists.                                          *)
LEMMA OthersLeaveInit ==
  ASSUME IndInv, InitInv, Next, ~InitWait
  PROVE  pc'[initproc] = "wait"
<1>1. PICK p \in Proc :
         \/ \E q \in Proc, thread \in BOOLEAN : Fork(p, q, thread)
         \/ \E q \in Proc : Kill(p, q)
         \/ \E t \in Proc \cup {AnyPid} : Wait(p, t)
         \/ \E w \in {"TIMER", "KSEM"} : Block(p, w) \/ Unblock(p, w)
         \/ Exit(p) \/ ExitThread(p) \/ TrapTick(p) \/ BecomeZombie(p)
         \/ WaitAgain(p) \/ BlockReturn(p) \/ Execve(p)
  BY DEF Next
<1>2. p # initproc /\ initproc \in All /\ p \in All /\ initproc \notin Proc
  BY DEF All
<1>3. pc \in [All -> {"user", "wait", "block", "exit", "done"}]
  BY DEF IndInv, TypeOK
<1>4. Exists(p)
  BY <1>1 DEF Fork, Kill, Wait, Block, Unblock, Exit, ExitThread, TrapTick, BecomeZombie,
              WaitAgain, BlockReturn, Execve, At, Exists
<1>5. pc[initproc] = "wait"
  BY <1>4 DEF InitInv, InitSeesAll
<1>6. ASSUME NEW t, WaitPass(p, t) PROVE pc'[initproc] = pc[initproc]
  <2>1. CASE \E z \in Kids(p, t) : pc' = [pc EXCEPT ![z] = "user", ![p] = Return(p)]
    <3>1. PICK z \in Kids(p, t) : pc' = [pc EXCEPT ![z] = "user", ![p] = Return(p)]
      BY <2>1
    <3>2. z # initproc
      BY <1>2 DEF Kids
    <3> QED BY <3>1, <3>2, <1>2, <1>3
  <2>2. CASE pc' = [pc EXCEPT ![p] = "wait"] \/ pc' = [pc EXCEPT ![p] = Return(p)]
    BY <2>2, <1>2, <1>3
  <2> QED BY <1>6, <2>1, <2>2 DEF WaitPass
<1>7. pc'[initproc] = pc[initproc]
  <2>1. CASE \E q \in Proc, thread \in BOOLEAN : Fork(p, q, thread)
    <3>1. PICK q \in Proc : pc' = [pc EXCEPT ![q] = "user", ![p] = Return(p)]
      BY <2>1 DEF Fork
    <3> QED BY <3>1, <1>2, <1>3
  <2>2. CASE \E t \in Proc \cup {AnyPid} : Wait(p, t)
    BY <2>2, <1>6 DEF Wait
  <2>3. CASE WaitAgain(p)
    BY <2>3, <1>2, <1>3, <1>6 DEF WaitAgain
  <2>4. CASE \/ \E q \in Proc : Kill(p, q)
             \/ \E w \in {"TIMER", "KSEM"} : Block(p, w) \/ Unblock(p, w)
             \/ Exit(p) \/ ExitThread(p) \/ TrapTick(p) \/ BecomeZombie(p)
             \/ BlockReturn(p) \/ Execve(p)
    BY <2>4, <1>2, <1>3 DEF Kill, Block, Unblock, Exit, ExitThread, TrapTick, BecomeZombie,
                            BlockReturn, Execve
  <2> QED BY <1>1, <2>1, <2>2, <2>3, <2>4
<1> QED BY <1>5, <1>7

(* A pass of the loop of init_main ends it only with the last process.     *)
LEMMA InitWaitSees ==
  ASSUME IndInv, InitInv, InitWait
  PROVE  InitInv'
<1>1. /\ pc \in [All -> {"user", "wait", "block", "exit", "done"}] /\ pc[initproc] = "wait"
      /\ state \in [All -> {"none", "RUNNABLE", "SLEEPING", "ZOMBIE"}]
      /\ initproc \in All /\ Proc \subseteq All /\ initproc \notin Proc
  BY DEF IndInv, TypeOK, InitWait, At, All
<1>2. CASE UNCHANGED pc
  BY <1>1, <1>2 DEF InitInv, InitSeesAll
<1>3. CASE pc' # pc
  <2>1. PICK z \in Proc :
          /\ Reap(z)
          /\ pc' = [pc EXCEPT ![z] = "user", ![initproc] =
                      IF \A p \in Proc \ {z} : ~Exists(p) THEN "done" ELSE "wait"]
    BY <1>3 DEF InitWait, Kids
  <2>2. state' = [state EXCEPT ![z] = "none"]
    BY <2>1 DEF Reap
  <2>3. CASE \A p \in Proc \ {z} : ~Exists(p)
    <3>1. pc'[initproc] = "done"
      BY <1>1, <2>1, <2>3
    <3>2. \A p \in Proc : ~Exists(p)'
      BY <1>1, <2>2, <2>3 DEF Exists
    <3> QED BY <3>1, <3>2 DEF InitInv, InitSeesAll
  <2>4. CASE ~\A p \in Proc \ {z} : ~Exists(p)
    <3>1. pc'[initproc] = "wait"
      BY <1>1, <2>1, <2>4
    <3> QED BY <3>1 DEF InitInv, InitSeesAll
  <2> QED BY <2>3, <2>4
<1> QED BY <1>2, <1>3

(* The assertions at the end of init_main hold: it leaves its loop only    *)
(* when every process it or another has ever forked is reaped.             *)
THEOREM InitLeavesLast == Spec => []InitSeesAll
<1>1. Init => InitInv
  BY DEF Init, InitInv, InitSeesAll, All
<1>2. IndInv /\ InitInv /\ [Next]_vars => InitInv'
  <2> SUFFICES ASSUME IndInv, InitInv, [Next]_vars PROVE InitInv'
    OBVIOUS
  <2>1. CASE UNCHANGED vars
    BY <2>1 DEF vars, InitInv, InitSeesAll, Exists
  <2>2. CASE Next /\ InitWait
    BY <2>2, InitWaitSees
  <2>3. CASE Next /\ ~InitWait
    BY <2>3, OthersLeaveInit DEF InitInv, InitSeesAll
  <2> QED BY <2>1, <2>2, <2>3
<1>3. InitInv => InitSeesAll
  BY DEF InitInv
<1> QED BY <1>1, <1>2, <1>3, SpecIndInv, PTL DEF Spec

-----------------------------------------------------------------------------
(* The handles on user semaphores.  The counts of sem_queue_t and          *)
(* sem_undo_t are compared with the sets that they stand for: every step   *)
(* that adds a user to a list, or a list to a semaphore, changes the       *)
(* cardinality by exactly what it adds to the counter.                     *)
HIDE ProcAssumption

(* The lists that name a semaphore, and the processes that have a list,    *)
(* can be counted.                                                         *)
LEMMA HandlesCountable ==
    /\ \A s : H!IsFiniteSet(H!Naming(s)) /\ H!Cardinality(H!Naming(s)) \in Nat
    /\ \A l : H!IsFiniteSet(H!Having(l)) /\ H!Cardinality(H!Having(l)) \in Nat
<1>1. H!IsFiniteSet(Proc) /\ H!IsFiniteSet(Queue)
  BY HandlesConstants DEF H!HandlesAssumption
<1>2. \A s : H!Naming(s) \subseteq Queue
  BY DEF H!Naming
<1>3. \A l : H!Having(l) \subseteq Proc
  BY DEF H!Having
<1> QED BY <1>1, <1>2, <1>3, H!FS_Subset, H!FS_CardinalityType

(* A set with one element has no other.                                    *)
LEMMA OnlyOne ==
    ASSUME NEW S, H!IsFiniteSet(S), H!Cardinality(S) = 1, NEW x \in S, NEW y \in S
    PROVE  x = y
<1>1. PICK z : S = {z}
  BY H!FS_Singleton
<1> QED BY <1>1

(* The process structure points to the one list that it has.               *)
LEMMA OwnList ==
    ASSUME H!OneEach, NEW p \in Proc, of[p] # {}
    PROVE  H!ListOf(p) \in Queue /\ of[p] = {H!ListOf(p)}
<1>1. PICK l \in Queue : of[p] = {l}
  BY DEF H!OneEach, H!Waiting, H!InMemory
<1>2. H!ListOf(p) \in of[p]
  BY <1>1 DEF H!ListOf
<1> QED BY <1>1, <1>2

(* A wait queue with nobody in it is empty.                                *)
LEMMA NobodyWaits ==
    ASSUME NEW S, NEW w \in Seq(S), H!IsInjective(w), H!ToSet(w) = {}
    PROVE  w = << >>
BY H!TailElements

(* Taking the semaphores of S out of list l and giving back the ones that  *)
(* no list names any more leaves their counts exact, if nobody waits for   *)
(* one that goes.                                                          *)
LEMMA Released ==
    ASSUME H!IndInv, NEW l \in Queue, NEW S \in SUBSET SemObj, S \subseteq semu[l],
           \A s \in S : count[s] = 1 => waiters[s] = << >>,
           H!SemuDestroy(count, S),
           semu' = [semu EXCEPT ![l] = @ \ S]
    PROVE  /\ sems' \in SUBSET SemObj /\ valid' \in SUBSET valid /\ valid' \subseteq sems'
           /\ value' \in [SemObj -> Nat] /\ count' \in [SemObj -> Nat]
           /\ semu' \in [Queue -> SUBSET SemObj]
           /\ waiters' = waiters
           /\ \A s \in SemObj : waiters[s] # << >> => (s \in valid' <=> s \in valid)
           /\ \A s \in SemObj : count'[s] = H!Cardinality(H!Naming(s)')
                                /\ (s \in sems' <=> H!Naming(s)' # {})
<1> USE DEF H!IndInv
<1>1. /\ sems \in SUBSET SemObj /\ valid \in SUBSET sems
      /\ value \in [SemObj -> Nat] /\ count \in [SemObj -> Nat]
      /\ semu \in [Queue -> SUBSET SemObj]
      /\ waiters \in [SemObj -> Seq(Proc)]
  BY DEF H!TypeOK, H!OneEach, H!Waiting, H!InMemory
<1>2. \A s \in SemObj : count[s] = H!Cardinality(H!Naming(s)) /\ (s \in sems <=> H!Naming(s) # {})
  BY DEF H!CountsExact
<1>3. \A s \in SemObj : H!Naming(s)' = IF s \in S THEN H!Naming(s) \ {l} ELSE H!Naming(s)
  BY <1>1 DEF H!Naming
<1>4. \A s \in S : l \in H!Naming(s)
  BY DEF H!Naming
<1>5. \A s \in SemObj : H!IsFiniteSet(H!Naming(s)) /\ H!Cardinality(H!Naming(s)) \in Nat
  BY HandlesCountable
<1>6. \A s \in S : /\ H!Cardinality(H!Naming(s)') = count[s] - 1
                   /\ count[s] = 1 <=> H!Naming(s)' = {}
  <2> SUFFICES ASSUME NEW s \in S
               PROVE  /\ H!Cardinality(H!Naming(s)') = count[s] - 1
                      /\ count[s] = 1 <=> H!Naming(s)' = {}
    OBVIOUS
  <2>1. /\ H!Naming(s)' = H!Naming(s) \ {l} /\ l \in H!Naming(s)
        /\ H!IsFiniteSet(H!Naming(s)) /\ count[s] = H!Cardinality(H!Naming(s))
        /\ count[s] \in Nat
    BY <1>1, <1>2, <1>3, <1>4, <1>5
  <2>2. /\ H!IsFiniteSet(H!Naming(s) \ {l})
        /\ H!Cardinality(H!Naming(s) \ {l}) = H!Cardinality(H!Naming(s)) - 1
    BY <2>1, H!FS_RemoveElement
  <2>3. H!Cardinality(H!Naming(s) \ {l}) = 0 <=> H!Naming(s) \ {l} = {}
    BY <2>2, H!FS_EmptySet
  <2> QED BY <2>1, <2>2, <2>3
<1>7. \A s \in S : count[s] \in Nat \ {0}
  <2>1. \A s \in S : H!Naming(s) # {} /\ s \in SemObj
    BY <1>4
  <2>2. \A s \in S : H!Cardinality(H!Naming(s)) # 0
    BY <2>1, <1>5, H!FS_EmptySet
  <2> QED BY <2>1, <2>2, <1>1, <1>2
<1>8. /\ count' = [s \in SemObj |-> IF s \in S THEN count[s] - 1 ELSE count[s]]
      /\ sems' = sems \ {s \in S : count[s] = 1}
      /\ valid' = valid \ {s \in S : count[s] = 1}
      /\ value' = [s \in SemObj |-> IF s \in {t \in S : count[t] = 1} THEN 0 ELSE value[s]]
      /\ waiters' = [s \in SemObj |-> IF s \in {t \in S : count[t] = 1} THEN << >> ELSE waiters[s]]
  BY DEF H!SemuDestroy
<1>9. /\ count' \in [SemObj -> Nat] /\ value' \in [SemObj -> Nat]
      /\ semu' \in [Queue -> SUBSET SemObj]
  BY <1>1, <1>7, <1>8
<1>10. waiters' = waiters
  BY <1>1, <1>8
<1>11. \A s \in SemObj : count'[s] = H!Cardinality(H!Naming(s)') /\ (s \in sems' <=> H!Naming(s)' # {})
  <2>1. ASSUME NEW s \in S PROVE count'[s] = H!Cardinality(H!Naming(s)')
                                 /\ (s \in sems' <=> H!Naming(s)' # {})
    BY <2>1, <1>2, <1>4, <1>6, <1>8
  <2>2. ASSUME NEW s \in SemObj \ S PROVE count'[s] = H!Cardinality(H!Naming(s)')
                                 /\ (s \in sems' <=> H!Naming(s)' # {})
    BY <2>2, <1>2, <1>3, <1>8
  <2> QED BY <2>1, <2>2
<1> QED BY <1>1, <1>8, <1>9, <1>10, <1>11

(* At the start one process has one empty list.                            *)
LEMMA HandlesInit == H!Init => H!IndInv
<1> SUFFICES ASSUME H!Init PROVE H!IndInv
  OBVIOUS
<1>1. PICK p0 \in Proc, l0 \in Queue :
        /\ sems = {} /\ valid = {}
        /\ value = [s \in SemObj |-> 0] /\ count = [s \in SemObj |-> 0]
        /\ waiters = [s \in SemObj |-> << >>]
        /\ lists = {l0}
        /\ lcount = [k \in Queue |-> IF k = l0 THEN 1 ELSE 0]
        /\ semu = [k \in Queue |-> {}]
        /\ of = [p \in Proc |-> IF p = p0 THEN {l0} ELSE {}]
        /\ on = [p \in Proc |-> {}]
        /\ flags = [p \in Proc |-> "none"]
  BY DEF H!Init
<1>2. H!TypeOK
  BY <1>1, H!EmptyElements DEF H!TypeOK
<1>3. H!OneEach /\ H!Waiting /\ H!InMemory
  BY <1>1, H!EmptyElements DEF H!OneEach, H!Waiting, H!InMemory
<1>4. H!CountsExact
  <2>1. \A s \in SemObj : H!Naming(s) = {}
    BY <1>1 DEF H!Naming
  <2>2. \A l \in Queue : H!Having(l) = IF l = l0 THEN {p0} ELSE {}
    BY <1>1 DEF H!Having
  <2>3. H!Cardinality({}) = 0 /\ H!Cardinality({p0}) = 1
    BY H!FS_EmptySet, H!FS_Singleton
  <2> QED BY <1>1, <2>1, <2>2, <2>3 DEF H!CountsExact
<1> QED BY <1>2, <1>3, <1>4 DEF H!IndInv

(* semu_list_search finds no entry, or one whose semaphore was freed: then *)
(* nobody waits for that semaphore.                                        *)
LEMMA MissStep ==
    ASSUME H!IndInv, NEW p \in Proc, NEW s \in SemObj, H!Runs(p), H!Misses(p, s)
    PROVE  H!IndInv'
<1> USE DEF H!IndInv
<1>1. PICK l \in Queue : l = H!ListOf(p)
  BY OwnList DEF H!Runs
<1>2. PICK S \in SUBSET SemObj : S = semu[l] \cap {s}
  BY DEF H!TypeOK
<1>3. /\ ~(s \in semu[l] /\ s \in valid)
      /\ H!SemuDestroy(count, S)
      /\ semu' = [semu EXCEPT ![l] = @ \ {s}]
      /\ lists' = lists /\ lcount' = lcount /\ of' = of /\ on' = on /\ flags' = flags
  BY <1>1, <1>2 DEF H!Misses, H!Finds
<1>4. semu' = [semu EXCEPT ![l] = @ \ S]
  <2>1. semu[l] \ {s} = semu[l] \ S
    BY <1>2
  <2> QED BY <1>3, <2>1
<1>5. \A t \in S : waiters[t] = << >>
  <2>1. \A t \in S : t = s /\ s \notin valid
    BY <1>2, <1>3
  <2>2. \A t \in S : H!ToSet(waiters[t]) = {}
    BY <2>1 DEF H!OneEach, H!Waiting, H!InMemory
  <2>3. \A t \in S : waiters[t] \in Seq(Proc) /\ H!IsInjective(waiters[t])
    BY DEF H!TypeOK, H!OneEach, H!Waiting, H!InMemory
  <2> QED BY <2>2, <2>3, NobodyWaits
<1>6. S \subseteq semu[l]
  BY <1>2
<1>7. /\ sems' \in SUBSET SemObj /\ valid' \in SUBSET valid /\ valid' \subseteq sems'
      /\ value' \in [SemObj -> Nat] /\ count' \in [SemObj -> Nat]
      /\ semu' \in [Queue -> SUBSET SemObj]
      /\ waiters' = waiters
      /\ \A t \in SemObj : waiters[t] # << >> => (t \in valid' <=> t \in valid)
      /\ \A t \in SemObj : count'[t] = H!Cardinality(H!Naming(t)')
                           /\ (t \in sems' <=> H!Naming(t)' # {})
  BY <1>3, <1>4, <1>5, <1>6, Released
<1>8. H!TypeOK'
  BY <1>3, <1>7 DEF H!TypeOK
<1>9. H!OneEach' /\ H!Waiting' /\ H!InMemory'
  <2>1. \A x \in Proc : H!ListOf(x)' = H!ListOf(x)
    BY <1>3 DEF H!ListOf
  <2>2. \A t \in SemObj : \A x \in H!ToSet(waiters[t]) : waiters[t] # << >>
    BY H!EmptyElements
  <2>3. \A t \in SemObj : \A x \in H!ToSet(waiters[t]) :
          x \in Proc /\ on[x] = {t} /\ flags[x] # "USEM" /\ t \in valid /\ t \in semu[H!ListOf(x)]
    BY DEF H!OneEach, H!Waiting, H!InMemory, H!TypeOK, H!ToSet
  <2>4. \A t \in SemObj : \A x \in H!ToSet(waiters[t]) : t \in semu'[H!ListOf(x)]
    <3> SUFFICES ASSUME NEW t \in SemObj, NEW x \in H!ToSet(waiters[t])
                 PROVE  t \in semu'[H!ListOf(x)]
      OBVIOUS
    <3>1. H!ListOf(x) \in Queue
      BY <2>3, OwnList DEF H!OneEach, H!Waiting, H!InMemory
    <3>2. t \in semu[H!ListOf(x)] /\ t \in valid
      BY <2>3
    <3>3. H!ListOf(x) = l => t # s
      BY <1>3, <3>2
    <3> QED BY <1>3, <3>1, <3>2, <3>3 DEF H!TypeOK
  <2>5. \A k \in Queue : k \notin lists => semu'[k] = {}
    BY <1>3 DEF H!OneEach, H!Waiting, H!InMemory, H!TypeOK
  <2>6. H!OneEach'
    BY <1>3 DEF H!OneEach
  <2>7. H!Waiting'
    BY <1>3, <1>7, <2>1, <2>2, <2>3, <2>4 DEF H!Waiting
  <2>8. H!InMemory'
    BY <1>3, <1>7, <2>5 DEF H!InMemory
  <2> QED BY <2>6, <2>7, <2>8
<1>10. H!CountsExact'
  <2>1. \A k \in Queue : H!Having(k)' = H!Having(k)
    BY <1>3 DEF H!Having
  <2> QED BY <1>3, <1>7, <2>1 DEF H!CountsExact
<1> QED BY <1>8, <1>9, <1>10

(* What is known of a process in a wait queue.                             *)
LEMMA WaiterFacts ==
    ASSUME H!IndInv, NEW s \in SemObj, NEW x \in H!ToSet(waiters[s])
    PROVE  /\ x \in Proc /\ on[x] = {s} /\ flags[x] # "USEM" /\ s \in valid
           /\ H!ListOf(x) \in Queue /\ of[x] = {H!ListOf(x)} /\ s \in semu[H!ListOf(x)]
           /\ waiters[s] # << >>
<1>1. x \in Proc
  BY DEF H!IndInv, H!TypeOK, H!ToSet
<1>2. on[x] = {s} /\ flags[x] # "USEM" /\ s \in valid /\ s \in semu[H!ListOf(x)]
  BY DEF H!IndInv, H!Waiting
<1>3. of[x] # {}
  BY <1>1, <1>2 DEF H!IndInv, H!OneEach
<1> QED BY <1>1, <1>2, <1>3, OwnList, H!EmptyElements DEF H!IndInv

(* put_sem_queue of a process that does not sleep: whoever waits for a     *)
(* semaphore has another list, or shares this one, which then stays.       *)
LEMMA PutStep ==
    ASSUME H!IndInv, NEW p \in Proc, H!Runs(p), NEW l \in Queue, l = H!ListOf(p),
           H!PutSems(l), semu' = H!PutSemu(l)
    PROVE  /\ sems' \in SUBSET SemObj /\ valid' \in SUBSET valid /\ valid' \subseteq sems'
           /\ value' \in [SemObj -> Nat] /\ count' \in [SemObj -> Nat]
           /\ semu' \in [Queue -> SUBSET SemObj]
           /\ waiters' = waiters
           /\ \A s \in SemObj : waiters[s] # << >> => (s \in valid' <=> s \in valid)
           /\ \A s \in SemObj : count'[s] = H!Cardinality(H!Naming(s)')
                                /\ (s \in sems' <=> H!Naming(s)' # {})
           /\ \A s \in SemObj : \A x \in H!ToSet(waiters[s]) : x # p /\ s \in semu'[H!ListOf(x)]
           /\ H!PutCount(l) \in [Queue -> Nat] /\ H!PutLists(l) \in SUBSET Queue
           /\ \A k \in Queue : k \notin H!PutLists(l) => semu'[k] = {}
           /\ \A k \in Queue :
                /\ H!PutCount(l)[k] = H!Cardinality(H!Having(k) \ {p})
                /\ k \in H!PutLists(l) <=> H!Having(k) \ {p} # {}
<1> USE DEF H!IndInv
<1>0. /\ lists \in SUBSET Queue /\ lcount \in [Queue -> Nat] /\ semu \in [Queue -> SUBSET SemObj]
      /\ of \in [Proc -> SUBSET Queue]
  BY DEF H!TypeOK
<1>1. of[p] = {l} /\ on[p] = {} /\ p \in H!Having(l) /\ \A k \in Queue \ {l} : p \notin H!Having(k)
  BY OwnList DEF H!Runs, H!Having
<1>2. \A k \in Queue : /\ H!IsFiniteSet(H!Having(k)) /\ H!Cardinality(H!Having(k)) \in Nat
                       /\ lcount[k] = H!Cardinality(H!Having(k))
                       /\ k \in lists <=> H!Having(k) # {}
  BY HandlesCountable DEF H!CountsExact
<1>3. lcount[l] = 1 => H!Having(l) = {p}
  BY <1>1, <1>2, OnlyOne
<1>4. H!Cardinality(H!Having(l) \ {p}) = lcount[l] - 1 /\ lcount[l] \in Nat \ {0}
  <2>1. /\ H!IsFiniteSet(H!Having(l) \ {p})
        /\ H!Cardinality(H!Having(l) \ {p}) = H!Cardinality(H!Having(l)) - 1
    BY <1>1, <1>2, H!FS_RemoveElement
  <2>2. H!Cardinality(H!Having(l)) # 0
    BY <1>1, <1>2, H!FS_EmptySet
  <2> QED BY <2>1, <2>2, <1>2
<1>5. H!Having(l) \ {p} = {} <=> lcount[l] = 1
  <2>1. H!Having(l) \ {p} = {} => lcount[l] - 1 = 0
    BY <1>4, H!FS_EmptySet
  <2> QED BY <2>1, <1>3, <1>4
<1>6. PICK S \in SUBSET SemObj : S = IF lcount[l] = 1 THEN semu[l] ELSE {}
  BY <1>0
<1>7. /\ H!SemuDestroy(count, S)
      /\ semu' = IF lcount[l] = 1 THEN [semu EXCEPT ![l] = {}] ELSE semu
  BY <1>6 DEF H!PutSems, H!PutSemu, H!LastUser
<1>8. semu' = [semu EXCEPT ![l] = @ \ S]
  <2>1. CASE lcount[l] = 1
    <3>1. semu[l] \ S = {}
      BY <2>1, <1>6
    <3> QED BY <2>1, <3>1, <1>7
  <2>2. CASE lcount[l] # 1
    <3>1. semu[l] \ S = semu[l]
      BY <2>2, <1>6
    <3> QED BY <2>2, <3>1, <1>7, <1>0
  <2> QED BY <2>1, <2>2
<1>9. ASSUME NEW s \in SemObj, NEW x \in H!ToSet(waiters[s])
      PROVE  x # p /\ (lcount[l] = 1 => H!ListOf(x) # l)
  <2>1. x \in Proc /\ on[x] = {s} /\ of[x] = {H!ListOf(x)}
    BY WaiterFacts
  <2>2. x # p
    BY <2>1, <1>1
  <2>3. ASSUME H!ListOf(x) = l PROVE x \in H!Having(l)
    BY <2>1, <2>3 DEF H!Having
  <2> QED BY <2>2, <2>3, <1>3
<1>10. \A s \in S : count[s] = 1 => waiters[s] = << >>
  <2> SUFFICES ASSUME NEW s \in S, count[s] = 1 PROVE waiters[s] = << >>
    OBVIOUS
  <2>1. waiters[s] \in Seq(Proc) /\ H!IsInjective(waiters[s]) /\ s \in SemObj
    BY DEF H!TypeOK, H!Waiting
  <2>2. l \in H!Naming(s) /\ lcount[l] = 1
    BY <1>6 DEF H!Naming
  <2>3. H!IsFiniteSet(H!Naming(s)) /\ H!Cardinality(H!Naming(s)) = 1
    BY <2>1, HandlesCountable DEF H!CountsExact
  <2>4. ASSUME NEW x \in H!ToSet(waiters[s]) PROVE FALSE
    <3>1. H!ListOf(x) \in H!Naming(s)
      BY <2>1, WaiterFacts DEF H!Naming
    <3>2. H!ListOf(x) = l
      BY <3>1, <2>2, <2>3, OnlyOne
    <3> QED BY <3>2, <2>1, <2>2, <1>9
  <2> QED BY <2>1, <2>4, NobodyWaits
<1>11. S \subseteq semu[l]
  BY <1>6
<1>12. /\ sems' \in SUBSET SemObj /\ valid' \in SUBSET valid /\ valid' \subseteq sems'
       /\ value' \in [SemObj -> Nat] /\ count' \in [SemObj -> Nat]
       /\ semu' \in [Queue -> SUBSET SemObj]
       /\ waiters' = waiters
       /\ \A s \in SemObj : waiters[s] # << >> => (s \in valid' <=> s \in valid)
       /\ \A s \in SemObj : count'[s] = H!Cardinality(H!Naming(s)')
                            /\ (s \in sems' <=> H!Naming(s)' # {})
  BY <1>7, <1>8, <1>10, <1>11, Released
<1>13. ASSUME NEW s \in SemObj, NEW x \in H!ToSet(waiters[s])
       PROVE  s \in semu'[H!ListOf(x)]
  <2>1. H!ListOf(x) \in Queue /\ s \in semu[H!ListOf(x)]
    BY WaiterFacts
  <2> QED BY <2>1, <1>0, <1>7, <1>9
<1>14. /\ H!PutCount(l) = [lcount EXCEPT ![l] = @ - 1]
       /\ H!PutLists(l) = IF lcount[l] = 1 THEN lists \ {l} ELSE lists
  BY <1>0 DEF H!PutCount, H!PutLists, H!LastUser
<1>15. H!PutCount(l) \in [Queue -> Nat] /\ H!PutLists(l) \in SUBSET Queue
  BY <1>0, <1>4, <1>14
<1>16. \A k \in Queue : k \notin H!PutLists(l) => semu'[k] = {}
  BY <1>0, <1>7, <1>14 DEF H!InMemory
<1>17. ASSUME NEW k \in Queue
       PROVE  /\ H!PutCount(l)[k] = H!Cardinality(H!Having(k) \ {p})
              /\ k \in H!PutLists(l) <=> H!Having(k) \ {p} # {}
  <2>1. CASE k = l
    <3>1. k \in lists
      BY <2>1, <1>1, <1>2
    <3> QED BY <2>1, <3>1, <1>0, <1>4, <1>5, <1>14
  <2>2. CASE k # l
    <3>1. H!Having(k) \ {p} = H!Having(k)
      BY <2>2, <1>1
    <3> QED BY <2>2, <3>1, <1>0, <1>2, <1>14
  <2> QED BY <2>1, <2>2
<1> QED BY <1>9, <1>12, <1>13, <1>15, <1>16, <1>17

(* put_sem_queue in __do_exit.                                             *)
LEMMA HandlesExitStep ==
    ASSUME H!IndInv, NEW p \in Proc, H!Exit(p)
    PROVE  H!IndInv'
<1>1. PICK l \in Queue : l = H!ListOf(p)
  BY OwnList DEF H!Exit, H!Runs, H!IndInv
<1>2. /\ H!Runs(p) /\ H!PutSems(l) /\ semu' = H!PutSemu(l)
      /\ lists' = H!PutLists(l) /\ lcount' = H!PutCount(l)
      /\ of' = [of EXCEPT ![p] = {}] /\ on' = on /\ flags' = flags
  BY <1>1 DEF H!Exit
<1>3. /\ sems' \in SUBSET SemObj /\ valid' \in SUBSET valid /\ valid' \subseteq sems'
      /\ value' \in [SemObj -> Nat] /\ count' \in [SemObj -> Nat]
      /\ semu' \in [Queue -> SUBSET SemObj]
      /\ waiters' = waiters
      /\ \A s \in SemObj : waiters[s] # << >> => (s \in valid' <=> s \in valid)
      /\ \A s \in SemObj : count'[s] = H!Cardinality(H!Naming(s)')
                           /\ (s \in sems' <=> H!Naming(s)' # {})
      /\ \A s \in SemObj : \A x \in H!ToSet(waiters[s]) : x # p /\ s \in semu'[H!ListOf(x)]
      /\ H!PutCount(l) \in [Queue -> Nat] /\ H!PutLists(l) \in SUBSET Queue
      /\ \A k \in Queue : k \notin H!PutLists(l) => semu'[k] = {}
      /\ \A k \in Queue : /\ H!PutCount(l)[k] = H!Cardinality(H!Having(k) \ {p})
                          /\ k \in H!PutLists(l) <=> H!Having(k) \ {p} # {}
  BY <1>1, <1>2, PutStep
<1>4. H!TypeOK'
  BY <1>2, <1>3 DEF H!TypeOK, H!IndInv
<1>5. H!OneEach'
  BY <1>2 DEF H!OneEach, H!IndInv, H!TypeOK, H!Runs
<1>6. H!Waiting'
  <2>1. \A s \in SemObj : \A x \in H!ToSet(waiters[s]) :
          /\ x \in Proc /\ on[x] = {s} /\ flags[x] # "USEM" /\ s \in valid
          /\ waiters[s] # << >>
    BY WaiterFacts
  <2>2. \A x \in Proc \ {p} : H!ListOf(x)' = H!ListOf(x)
    BY <1>2 DEF H!ListOf, H!IndInv, H!TypeOK
  <2>3. \A s \in SemObj : \A x \in H!ToSet(waiters[s]) : s \in valid' /\ s \in semu'[H!ListOf(x)']
    BY <1>3, <2>1, <2>2
  <2> QED BY <1>2, <1>3, <2>1, <2>3 DEF H!Waiting, H!IndInv
<1>7. H!InMemory'
  BY <1>2, <1>3 DEF H!InMemory
<1>8. H!CountsExact'
  <2>1. \A k \in Queue : H!Having(k)' = H!Having(k) \ {p}
    BY <1>2 DEF H!Having, H!IndInv, H!TypeOK
  <2> QED BY <1>2, <1>3, <2>1 DEF H!CountsExact
<1> QED BY <1>4, <1>5, <1>6, <1>7, <1>8 DEF H!IndInv

(* put_sem_queue and sem_queue_create in do_execve.                        *)
LEMMA HandlesExecveStep ==
    ASSUME H!IndInv, NEW p \in Proc, H!Execve(p)
    PROVE  H!IndInv'
<1>1. PICK l \in Queue : l = H!ListOf(p)
  BY OwnList DEF H!Execve, H!Runs, H!IndInv
<1>2. PICK k \in Queue \ H!PutLists(l) :
      /\ H!Runs(p) /\ H!PutSems(l) /\ semu' = [H!PutSemu(l) EXCEPT ![k] = {}]
      /\ lists' = H!PutLists(l) \cup {k} /\ lcount' = [H!PutCount(l) EXCEPT ![k] = 1]
      /\ of' = [of EXCEPT ![p] = {k}] /\ on' = on /\ flags' = flags
  BY <1>1 DEF H!Execve
<1>3. semu' = H!PutSemu(l)
  <2>1. H!PutSemu(l) \in [Queue -> SUBSET SemObj]
    BY DEF H!PutSemu, H!IndInv, H!TypeOK
  <2>2. H!PutSemu(l)[k] = {}
    BY <1>2 DEF H!PutSemu, H!PutLists, H!IndInv, H!TypeOK, H!InMemory
  <2> QED BY <1>2, <2>1, <2>2
<1>4. /\ sems' \in SUBSET SemObj /\ valid' \in SUBSET valid /\ valid' \subseteq sems'
      /\ value' \in [SemObj -> Nat] /\ count' \in [SemObj -> Nat]
      /\ semu' \in [Queue -> SUBSET SemObj]
      /\ waiters' = waiters
      /\ \A s \in SemObj : waiters[s] # << >> => (s \in valid' <=> s \in valid)
      /\ \A s \in SemObj : count'[s] = H!Cardinality(H!Naming(s)')
                           /\ (s \in sems' <=> H!Naming(s)' # {})
      /\ \A s \in SemObj : \A x \in H!ToSet(waiters[s]) : x # p /\ s \in semu'[H!ListOf(x)]
      /\ H!PutCount(l) \in [Queue -> Nat] /\ H!PutLists(l) \in SUBSET Queue
      /\ \A m \in Queue : m \notin H!PutLists(l) => semu'[m] = {}
      /\ \A m \in Queue : /\ H!PutCount(l)[m] = H!Cardinality(H!Having(m) \ {p})
                          /\ m \in H!PutLists(l) <=> H!Having(m) \ {p} # {}
  BY <1>1, <1>2, <1>3, PutStep
<1>5. H!TypeOK'
  BY <1>2, <1>4 DEF H!TypeOK, H!IndInv
<1>6. H!OneEach'
  BY <1>2 DEF H!OneEach, H!IndInv, H!TypeOK
<1>7. H!Waiting'
  <2>1. \A s \in SemObj : \A x \in H!ToSet(waiters[s]) :
          /\ x \in Proc /\ on[x] = {s} /\ flags[x] # "USEM" /\ s \in valid
          /\ waiters[s] # << >>
    BY WaiterFacts
  <2>2. \A x \in Proc \ {p} : H!ListOf(x)' = H!ListOf(x)
    BY <1>2 DEF H!ListOf, H!IndInv, H!TypeOK
  <2>3. \A s \in SemObj : \A x \in H!ToSet(waiters[s]) : s \in valid' /\ s \in semu'[H!ListOf(x)']
    BY <1>4, <2>1, <2>2
  <2> QED BY <1>2, <1>4, <2>1, <2>3 DEF H!Waiting, H!IndInv
<1>8. H!InMemory'
  BY <1>2, <1>4 DEF H!InMemory
<1>9. H!CountsExact'
  <2>1. \A m \in Queue : H!Having(m)' = IF m = k THEN (H!Having(m) \ {p}) \cup {p} ELSE H!Having(m) \ {p}
    BY <1>2 DEF H!Having, H!IndInv, H!TypeOK
  <2>2. H!Having(k)' = {p}
    BY <1>2, <1>4, <2>1
  <2>3. H!Cardinality({p}) = 1
    BY H!FS_Singleton
  <2>4. \A m \in Queue : lcount'[m] = IF m = k THEN 1 ELSE H!PutCount(l)[m]
    BY <1>2, <1>4
  <2> QED BY <1>2, <1>4, <2>1, <2>2, <2>3, <2>4 DEF H!CountsExact
<1> QED BY <1>5, <1>6, <1>7, <1>8, <1>9 DEF H!IndInv

(* ipc_sem_init: the new semaphore is named by the caller's list only.     *)
LEMMA HandlesSemInitStep ==
    ASSUME H!IndInv, NEW p \in Proc, NEW n \in 0 .. 1, H!SemInit(p, n)
    PROVE  H!IndInv'
<1> USE DEF H!IndInv
<1>1. PICK l \in Queue : l = H!ListOf(p) /\ of[p] = {l}
  BY OwnList DEF H!SemInit, H!Runs
<1>2. PICK s \in SemObj \ sems :
        /\ sems' = sems \cup {s} /\ valid' = valid \cup {s}
        /\ value' = [value EXCEPT ![s] = n]
        /\ count' = H!SemuCreate([count EXCEPT ![s] = 0], {s})
        /\ waiters' = [waiters EXCEPT ![s] = << >>]
        /\ semu' = [semu EXCEPT ![l] = @ \cup {s}]
        /\ lists' = lists /\ lcount' = lcount /\ of' = of /\ on' = on /\ flags' = flags
  BY <1>1 DEF H!SemInit
<1>3. \A t \in SemObj : count'[t] = IF t = s THEN 1 ELSE count[t]
  BY <1>2 DEF H!SemuCreate, H!TypeOK
<1>4. count' \in [SemObj -> Nat]
  <2>1. count' = [t \in SemObj |-> count'[t]]
    BY <1>2 DEF H!SemuCreate
  <2>2. \A t \in SemObj : count[t] \in Nat
    BY DEF H!TypeOK
  <2>3. \A t \in SemObj : count'[t] \in Nat
    BY <1>3, <2>2
  <2> QED BY <2>1, <2>3
<1>5. waiters' = waiters
  <2>1. H!ToSet(waiters[s]) = {}
    BY <1>2, WaiterFacts DEF H!InMemory
  <2>2. waiters[s] = << >>
    BY <2>1, NobodyWaits DEF H!TypeOK, H!Waiting
  <2> QED BY <1>2, <2>2 DEF H!TypeOK
<1>6. H!TypeOK'
  <2>1. value' \in [SemObj -> Nat]
    BY <1>2 DEF H!TypeOK
  <2>2. semu' \in [Queue -> SUBSET SemObj]
    BY <1>2 DEF H!TypeOK
  <2> QED BY <1>2, <1>4, <1>5, <2>1, <2>2 DEF H!TypeOK
<1>7. H!OneEach'
  BY <1>2 DEF H!OneEach
<1>8. \A x \in Proc : H!ListOf(x)' = H!ListOf(x)
  BY <1>2 DEF H!ListOf
<1>9. \A k \in Queue : semu[k] \subseteq semu'[k]
  BY <1>2 DEF H!TypeOK
<1>10. H!Waiting'
  <2>1. \A t \in SemObj : \A x \in H!ToSet(waiters[t]) :
          x \in Proc /\ H!ListOf(x) \in Queue /\ t \in semu[H!ListOf(x)]
    BY WaiterFacts
  <2>2. \A t \in SemObj : \A x \in H!ToSet(waiters[t]) : t \in semu'[H!ListOf(x)'] /\ t \in valid'
    BY <1>2, <1>8, <1>9, <2>1 DEF H!Waiting
  <2> QED BY <1>2, <1>5, <2>2 DEF H!Waiting
<1>11. l \in lists
  <2>1. p \in H!Having(l)
    BY <1>1 DEF H!Having
  <2> QED BY <2>1 DEF H!CountsExact
<1>12. H!InMemory'
  BY <1>2, <1>11 DEF H!InMemory, H!TypeOK
<1>13. H!CountsExact'
  <2>1. \A k \in Queue : H!Having(k)' = H!Having(k)
    BY <1>2 DEF H!Having
  <2>2. H!Naming(s) = {}
    BY <1>2 DEF H!CountsExact
  <2>3. H!Naming(s)' = {l} /\ \A t \in SemObj \ {s} : H!Naming(t)' = H!Naming(t)
    BY <1>2, <2>2 DEF H!Naming, H!TypeOK
  <2>4. H!Cardinality({l}) = 1
    BY H!FS_Singleton
  <2> QED BY <1>2, <1>3, <2>1, <2>3, <2>4 DEF H!CountsExact
<1> QED BY <1>6, <1>7, <1>10, <1>12, <1>13

(* Steps that leave every list, its entries and all counts alone keep the  *)
(* counts exact.                                                           *)
LEMMA CountsKept ==
    ASSUME H!CountsExact, UNCHANGED <<sems, count, lists, lcount, semu, of>>
    PROVE  H!CountsExact'
BY DEF H!CountsExact, H!Naming, H!Having

(* __up: the first waiter leaves the queue, woken.                         *)
LEMMA HandlesUpStep ==
    ASSUME H!IndInv, NEW s \in SemObj, H!Up(s)
    PROVE  H!IndInv'
<1> USE DEF H!IndInv
<1>0. /\ sems' = sems /\ valid' = valid /\ count' = count /\ lists' = lists
      /\ lcount' = lcount /\ semu' = semu /\ of' = of /\ on' = on
  BY DEF H!Up
<1>1. H!CountsExact' /\ H!InMemory' /\ \A x : H!ListOf(x)' = H!ListOf(x)
  BY <1>0, CountsKept DEF H!InMemory, H!ListOf
<1>2. CASE waiters[s] = << >>
  <2>1. value' = [value EXCEPT ![s] = @ + 1] /\ waiters' = waiters /\ flags' = flags
    BY <1>2 DEF H!Up
  <2>2. H!TypeOK'
    BY <1>0, <2>1 DEF H!TypeOK
  <2>3. H!OneEach' /\ H!Waiting'
    BY <1>0, <1>1, <2>1 DEF H!OneEach, H!Waiting
  <2> QED BY <1>1, <2>2, <2>3
<1>3. CASE waiters[s] # << >>
  <2>1. PICK h : h = Head(waiters[s])
    OBVIOUS
  <2>2. /\ flags[h] = "none" /\ value' = value
        /\ waiters' = [waiters EXCEPT ![s] = Tail(@)]
        /\ flags' = [flags EXCEPT ![h] = "USEM"]
    BY <1>3, <2>1 DEF H!Up
  <2>3. /\ waiters[s] \in Seq(Proc) /\ H!IsInjective(waiters[s])
    BY DEF H!TypeOK, H!Waiting
  <2>4. /\ Tail(waiters[s]) \in Seq(Proc) /\ h \in H!ToSet(waiters[s])
        /\ H!IsInjective(Tail(waiters[s]))
        /\ H!ToSet(Tail(waiters[s])) = H!ToSet(waiters[s]) \ {h}
    BY <1>3, <2>1, <2>3, H!TailElements
  <2>5. h \in Proc /\ on[h] = {s}
    BY <2>4, WaiterFacts
  <2>6. H!TypeOK'
    BY <1>0, <2>2, <2>4 DEF H!TypeOK
  <2>7. H!OneEach'
    BY <1>0, <2>2, <2>5 DEF H!OneEach, H!TypeOK
  <2>8. /\ \A t \in SemObj : H!IsInjective(waiters'[t])
        /\ H!ToSet(waiters'[s]) = H!ToSet(waiters[s]) \ {h}
        /\ \A t \in SemObj \ {s} : waiters'[t] = waiters[t]
    BY <2>2, <2>4 DEF H!TypeOK, H!Waiting
  <2>9. \A t \in SemObj : \A x \in H!ToSet(waiters'[t]) :
          x # h /\ x \in Proc /\ x \in H!ToSet(waiters[t])
    BY <2>5, <2>8, WaiterFacts
  <2>10. H!Waiting'
    <3>1. \A t \in SemObj : \A x \in H!ToSet(waiters'[t]) :
            on'[x] = {t} /\ flags'[x] # "USEM" /\ t \in valid' /\ t \in semu'[H!ListOf(x)']
      BY <1>0, <1>1, <2>2, <2>9 DEF H!Waiting, H!TypeOK
    <3>2. \A x \in Proc, t \in SemObj : t \in on'[x] /\ flags'[x] = "none" => x \in H!ToSet(waiters'[t])
      BY <1>0, <2>2, <2>8 DEF H!Waiting, H!TypeOK
    <3> QED BY <2>8, <3>1, <3>2 DEF H!Waiting
  <2> QED BY <1>1, <2>6, <2>7, <2>10
<1> QED BY <1>2, <1>3

(* __down up to schedule(): the process that has to wait is last.          *)
LEMMA HandlesDownStep ==
    ASSUME H!IndInv, NEW p \in Proc, NEW s \in SemObj, H!Runs(p), H!Finds(p, s), H!Down(p, s)
    PROVE  H!IndInv'
<1> USE DEF H!IndInv
<1>0. /\ sems' = sems /\ valid' = valid /\ count' = count /\ lists' = lists
      /\ lcount' = lcount /\ semu' = semu /\ of' = of /\ flags' = flags
  BY DEF H!Down
<1>1. H!CountsExact' /\ H!InMemory' /\ \A x : H!ListOf(x)' = H!ListOf(x)
  BY <1>0, CountsKept DEF H!InMemory, H!ListOf
<1>2. CASE value[s] > 0
  <2>1. value' = [value EXCEPT ![s] = @ - 1] /\ waiters' = waiters /\ on' = on
    BY <1>2 DEF H!Down
  <2>2. H!TypeOK'
    BY <1>0, <1>2, <2>1 DEF H!TypeOK
  <2>3. H!OneEach' /\ H!Waiting'
    BY <1>0, <1>1, <2>1 DEF H!OneEach, H!Waiting
  <2> QED BY <1>1, <2>2, <2>3
<1>3. CASE ~(value[s] > 0)
  <2>1. /\ waiters' = [waiters EXCEPT ![s] = Append(@, p)]
        /\ on' = [on EXCEPT ![p] = {s}] /\ value' = value
    BY <1>3 DEF H!Down
  <2>2. on[p] = {} /\ of[p] # {} /\ flags[p] = "none" /\ s \in valid /\ s \in semu[H!ListOf(p)]
    BY DEF H!Runs, H!Finds, H!OneEach
  <2>3. \A t \in SemObj : p \notin H!ToSet(waiters[t])
    BY <2>2, WaiterFacts
  <2>4. /\ waiters[s] \in Seq(Proc) /\ H!IsInjective(waiters[s])
    BY DEF H!TypeOK, H!Waiting
  <2>5. /\ Append(waiters[s], p) \in Seq(Proc)
        /\ H!IsInjective(Append(waiters[s], p))
        /\ H!ToSet(Append(waiters[s], p)) = H!ToSet(waiters[s]) \cup {p}
    BY <2>3, <2>4, H!AppendElements
  <2>6. H!TypeOK'
    BY <1>0, <2>1, <2>5 DEF H!TypeOK
  <2>7. H!OneEach'
    BY <1>0, <2>1, <2>2 DEF H!OneEach, H!TypeOK
  <2>8. /\ \A t \in SemObj : H!IsInjective(waiters'[t])
        /\ H!ToSet(waiters'[s]) = H!ToSet(waiters[s]) \cup {p}
        /\ \A t \in SemObj \ {s} : waiters'[t] = waiters[t]
    BY <2>1, <2>5 DEF H!TypeOK, H!Waiting
  <2>9. \A t \in SemObj : \A x \in H!ToSet(waiters[t]) : x \in Proc /\ x # p
    BY <2>3, WaiterFacts
  <2>10. H!Waiting'
    <3>1. \A t \in SemObj : \A x \in H!ToSet(waiters'[t]) :
            on'[x] = {t} /\ flags'[x] # "USEM" /\ t \in valid' /\ t \in semu'[H!ListOf(x)']
      BY <1>0, <1>1, <2>1, <2>2, <2>8, <2>9 DEF H!Waiting, H!TypeOK
    <3>2. \A x \in Proc, t \in SemObj : t \in on'[x] /\ flags'[x] = "none" => x \in H!ToSet(waiters'[t])
      BY <1>0, <2>1, <2>8 DEF H!Waiting, H!TypeOK
    <3> QED BY <2>8, <3>1, <3>2 DEF H!Waiting
  <2> QED BY <1>1, <2>6, <2>7, <2>10
<1> QED BY <1>2, <1>3

(* A timeout or a kill, and the end of __down.                             *)
LEMMA HandlesInterruptStep ==
    ASSUME H!IndInv, NEW p \in Proc, H!Interrupt(p)
    PROVE  H!IndInv'
<1> USE DEF H!IndInv
<1>0. /\ sems' = sems /\ valid' = valid /\ value' = value /\ count' = count /\ waiters' = waiters
      /\ lists' = lists /\ lcount' = lcount /\ semu' = semu /\ of' = of /\ on' = on
      /\ on[p] # {} /\ flags' = [flags EXCEPT ![p] = "INTERRUPTED"]
  BY DEF H!Interrupt, H!semVars
<1>1. H!CountsExact' /\ H!InMemory' /\ \A x : H!ListOf(x)' = H!ListOf(x)
  BY <1>0, CountsKept DEF H!InMemory, H!ListOf
<1>2. H!TypeOK' /\ H!OneEach'
  BY <1>0 DEF H!TypeOK, H!OneEach
<1>3. \A s \in SemObj : \A x \in H!ToSet(waiters[s]) : x \in Proc
  BY WaiterFacts
<1>4. H!Waiting'
  BY <1>0, <1>1, <1>3 DEF H!TypeOK, H!Waiting
<1> QED BY <1>1, <1>2, <1>4

(* __down after schedule(): the process is in no queue afterwards.         *)
LEMMA HandlesResumeStep ==
    ASSUME H!IndInv, NEW p \in Proc, H!Resume(p)
    PROVE  H!IndInv'
<1> USE DEF H!IndInv
<1>0. /\ sems' = sems /\ valid' = valid /\ value' = value /\ count' = count
      /\ lists' = lists /\ lcount' = lcount /\ semu' = semu /\ of' = of
      /\ on' = [on EXCEPT ![p] = {}] /\ flags' = [flags EXCEPT ![p] = "none"]
      /\ waiters' = [s \in SemObj |-> H!WaitQueueDel(waiters[s], p)]
  BY DEF H!Resume
<1>1. H!CountsExact' /\ H!InMemory' /\ \A x : H!ListOf(x)' = H!ListOf(x)
  BY <1>0, CountsKept DEF H!InMemory, H!ListOf
<1>2. \A s \in SemObj : /\ waiters'[s] \in Seq(Proc) /\ H!IsInjective(waiters'[s])
                        /\ H!ToSet(waiters'[s]) = H!ToSet(waiters[s]) \ {p}
  <2> SUFFICES ASSUME NEW s \in SemObj
               PROVE  /\ waiters'[s] \in Seq(Proc) /\ H!IsInjective(waiters'[s])
                      /\ H!ToSet(waiters'[s]) = H!ToSet(waiters[s]) \ {p}
    OBVIOUS
  <2>1. /\ waiters[s] \in Seq(Proc) /\ H!IsInjective(waiters[s])
        /\ waiters'[s] = H!WaitQueueDel(waiters[s], p)
    BY <1>0 DEF H!TypeOK, H!Waiting
  <2> QED BY <2>1, H!DelElements
<1>3. waiters' \in [SemObj -> Seq(Proc)]
  BY <1>0, <1>2
<1>4. H!TypeOK' /\ H!OneEach'
  BY <1>0, <1>3 DEF H!TypeOK, H!OneEach
<1>5. \A s \in SemObj : \A x \in H!ToSet(waiters[s]) : x \in Proc
  BY WaiterFacts
<1>6. H!Waiting'
  <2>1. \A t \in SemObj : \A x \in H!ToSet(waiters'[t]) :
          on'[x] = {t} /\ flags'[x] # "USEM" /\ t \in valid' /\ t \in semu'[H!ListOf(x)']
    BY <1>0, <1>1, <1>2, <1>5 DEF H!Waiting, H!TypeOK
  <2>2. \A x \in Proc, t \in SemObj : t \in on'[x] /\ flags'[x] = "none" => x \in H!ToSet(waiters'[t])
    BY <1>0, <1>2 DEF H!Waiting, H!TypeOK
  <2> QED BY <1>2, <2>1, <2>2 DEF H!Waiting
<1> QED BY <1>1, <1>4, <1>6

(* ipc_sem_free: every waiter is woken and the queue is empty.             *)
LEMMA HandlesFreeStep ==
    ASSUME H!IndInv, NEW p \in Proc, NEW s \in SemObj, H!SemFree(p, s)
    PROVE  H!IndInv'
<1> USE DEF H!IndInv
<1>1. CASE H!Misses(p, s)
  BY <1>1, MissStep DEF H!SemFree
<1>2. CASE ~H!Misses(p, s)
  <2>0. /\ sems' = sems /\ valid' = valid \ {s} /\ value' = value /\ count' = count
        /\ lists' = lists /\ lcount' = lcount /\ semu' = semu /\ of' = of /\ on' = on
        /\ waiters' = [waiters EXCEPT ![s] = << >>]
        /\ flags' = [x \in Proc |-> IF x \in H!ToSet(waiters[s]) THEN "INTERRUPTED" ELSE flags[x]]
    BY <1>2 DEF H!SemFree
  <2>1. H!CountsExact' /\ H!InMemory' /\ \A x : H!ListOf(x)' = H!ListOf(x)
    BY <2>0, CountsKept DEF H!InMemory, H!ListOf
  <2>2. H!TypeOK'
    BY <2>0, H!EmptyElements DEF H!TypeOK
  <2>3. \A t \in SemObj : \A x \in H!ToSet(waiters[t]) : x \in Proc /\ on[x] = {t}
    BY WaiterFacts
  <2>4. H!OneEach'
    BY <2>0, <2>3 DEF H!OneEach, H!TypeOK
  <2>5. /\ H!ToSet(waiters'[s]) = {} /\ H!IsInjective(waiters'[s])
        /\ \A t \in SemObj \ {s} : waiters'[t] = waiters[t]
    BY <2>0, H!EmptyElements DEF H!TypeOK
  <2>6. H!Waiting'
    <3>1. \A t \in SemObj : \A x \in H!ToSet(waiters'[t]) :
            on'[x] = {t} /\ flags'[x] # "USEM" /\ t \in valid' /\ t \in semu'[H!ListOf(x)']
      BY <2>0, <2>1, <2>3, <2>5 DEF H!Waiting, H!TypeOK
    <3>2. \A x \in Proc, t \in SemObj : t \in on'[x] /\ flags'[x] = "none" => x \in H!ToSet(waiters'[t])
      BY <2>0, <2>5 DEF H!Waiting, H!TypeOK
    <3> QED BY <2>5, <3>1, <3>2 DEF H!Waiting
  <2> QED BY <2>1, <2>2, <2>4, <2>6
<1> QED BY <1>1, <1>2

(* copy_sem with CLONE_SEM: one more process has the list.                 *)
LEMMA HandlesShareStep ==
    ASSUME H!IndInv, NEW p \in Proc, NEW child \in Proc, H!ForkShare(p, child)
    PROVE  H!IndInv'
<1> USE DEF H!IndInv
<1>1. PICK l \in Queue : l = H!ListOf(p) /\ of[p] = {l}
  BY OwnList DEF H!ForkShare, H!Runs
<1>2. /\ sems' = sems /\ valid' = valid /\ value' = value /\ count' = count /\ waiters' = waiters
      /\ lists' = lists /\ semu' = semu /\ on' = on /\ flags' = flags
      /\ lcount' = [lcount EXCEPT ![l] = @ + 1] /\ of' = [of EXCEPT ![child] = {l}]
      /\ of[child] = {} /\ on[child] = {}
  BY <1>1 DEF H!ForkShare, H!semVars
<1>3. H!TypeOK' /\ H!OneEach' /\ H!InMemory'
  <2>1. lcount' \in [Queue -> Nat] /\ of' \in [Proc -> SUBSET Queue]
    BY <1>2 DEF H!TypeOK
  <2>2. H!TypeOK'
    BY <1>2, <2>1 DEF H!TypeOK
  <2>3. H!OneEach'
    BY <1>2 DEF H!TypeOK, H!OneEach
  <2>4. H!InMemory'
    BY <1>2 DEF H!InMemory
  <2> QED BY <2>2, <2>3, <2>4
<1>4. H!Waiting'
  <2>1. \A s \in SemObj : \A x \in H!ToSet(waiters[s]) : x \in Proc /\ on[x] = {s}
    BY WaiterFacts
  <2>2. \A x \in Proc \ {child} : H!ListOf(x)' = H!ListOf(x)
    BY <1>2 DEF H!ListOf, H!TypeOK
  <2> QED BY <1>2, <2>1, <2>2 DEF H!Waiting
<1>5. H!CountsExact'
  <2>1. \A s \in SemObj : H!Naming(s)' = H!Naming(s)
    BY <1>2 DEF H!Naming
  <2>2. /\ H!Having(l)' = H!Having(l) \cup {child} /\ child \notin H!Having(l)
        /\ \A k \in Queue \ {l} : H!Having(k)' = H!Having(k)
    BY <1>2 DEF H!Having, H!TypeOK
  <2>3. H!IsFiniteSet(H!Having(l)) /\ H!Cardinality(H!Having(l)) \in Nat
    BY HandlesCountable
  <2>4. H!Cardinality(H!Having(l) \cup {child}) = H!Cardinality(H!Having(l)) + 1
    BY <2>2, <2>3, H!FS_AddElement
  <2>5. l \in lists /\ lcount[l] = H!Cardinality(H!Having(l))
    BY <1>1 DEF H!CountsExact, H!Having
  <2>6. \A k \in Queue : lcount'[k] = IF k = l THEN lcount[l] + 1 ELSE lcount[k]
    BY <1>2 DEF H!TypeOK
  <2>7. \A k \in Queue : lcount'[k] = H!Cardinality(H!Having(k)') /\ (k \in lists' <=> H!Having(k)' # {})
    BY <1>2, <2>2, <2>4, <2>5, <2>6 DEF H!CountsExact
  <2> QED BY <1>2, <2>1, <2>7 DEF H!CountsExact
<1> QED BY <1>3, <1>4, <1>5

(* copy_sem without CLONE_SEM: a new list with one entry for each entry of *)
(* the old one whose semaphore was not freed.                              *)
LEMMA HandlesCopyStep ==
    ASSUME H!IndInv, NEW p \in Proc, NEW child \in Proc, H!ForkCopy(p, child)
    PROVE  H!IndInv'
<1> USE DEF H!IndInv
<1>0. H!Copied(p) \in SUBSET valid /\ valid \in SUBSET SemObj
  BY DEF H!Copied, H!TypeOK
<1>1. PICK S \in SUBSET valid : S = H!Copied(p) /\ S \subseteq SemObj
  BY <1>0
<1>2. PICK l \in Queue \ lists :
      /\ lists' = lists \cup {l} /\ lcount' = [lcount EXCEPT ![l] = 1]
      /\ semu' = [semu EXCEPT ![l] = S] /\ of' = [of EXCEPT ![child] = {l}]
      /\ sems' = sems /\ valid' = valid /\ value' = value /\ waiters' = waiters
      /\ on' = on /\ flags' = flags /\ count' = H!SemuCreate(count, S)
      /\ of[child] = {} /\ on[child] = {}
  BY <1>1 DEF H!ForkCopy
<1>3. /\ \A s \in SemObj : count'[s] = IF s \in S THEN count[s] + 1 ELSE count[s]
      /\ count' \in [SemObj -> Nat]
  BY <1>2 DEF H!SemuCreate, H!TypeOK
<1>4. semu[l] = {} /\ H!Having(l) = {}
  BY <1>2 DEF H!InMemory, H!CountsExact
<1>5. H!TypeOK'
  BY <1>1, <1>2, <1>3 DEF H!TypeOK
<1>6. H!OneEach' /\ H!InMemory'
  BY <1>2 DEF H!TypeOK, H!OneEach, H!InMemory
<1>7. H!Waiting'
  <2>1. \A s \in SemObj : \A x \in H!ToSet(waiters[s]) :
          /\ x \in Proc /\ on[x] = {s} /\ H!ListOf(x) \in Queue
          /\ of[x] = {H!ListOf(x)} /\ s \in semu[H!ListOf(x)]
    BY WaiterFacts
  <2>2. \A x \in Proc \ {child} : H!ListOf(x)' = H!ListOf(x)
    BY <1>2 DEF H!ListOf, H!TypeOK
  <2>3. \A s \in SemObj : \A x \in H!ToSet(waiters[s]) : s \in semu'[H!ListOf(x)]
    BY <1>2, <1>4, <2>1 DEF H!TypeOK
  <2> QED BY <1>2, <2>1, <2>2, <2>3 DEF H!Waiting
<1>8. \A s \in SemObj : count'[s] = H!Cardinality(H!Naming(s)') /\ (s \in sems' <=> H!Naming(s)' # {})
  <2>1. \A s \in SemObj : H!Naming(s)' = IF s \in S THEN H!Naming(s) \cup {l} ELSE H!Naming(s)
    BY <1>1, <1>2, <1>4 DEF H!Naming, H!TypeOK
  <2>2. \A s \in SemObj : l \notin H!Naming(s)
    BY <1>4 DEF H!Naming
  <2>3. \A s \in SemObj : H!Cardinality(H!Naming(s) \cup {l}) = H!Cardinality(H!Naming(s)) + 1
    BY <2>2, HandlesCountable, H!FS_AddElement
  <2>4. \A s \in S : s \in sems
    BY <1>1 DEF H!InMemory
  <2> QED BY <1>1, <1>2, <1>3, <2>1, <2>3, <2>4 DEF H!CountsExact
<1>9. \A k \in Queue : lcount'[k] = H!Cardinality(H!Having(k)') /\ (k \in lists' <=> H!Having(k)' # {})
  <2>1. H!Having(l)' = {child} /\ \A k \in Queue \ {l} : H!Having(k)' = H!Having(k)
    BY <1>2, <1>4 DEF H!Having, H!TypeOK
  <2>2. H!Cardinality({child}) = 1
    BY H!FS_Singleton
  <2> QED BY <1>2, <2>1, <2>2 DEF H!CountsExact, H!TypeOK
<1> QED BY <1>5, <1>6, <1>7, <1>8, <1>9 DEF H!CountsExact

(* A fork that fails half-way counts every semaphore up and down again:    *)
(* none reaches zero, since the parent's list still names it.              *)
LEMMA HandlesForkFailsStep ==
    ASSUME H!IndInv, NEW p \in Proc, H!ForkFails(p)
    PROVE  H!IndInv'
<1> USE DEF H!IndInv
<1>1. PICK S \in SUBSET H!Copied(p) : H!SemuDestroy(H!SemuCreate(count, S), S)
  BY DEF H!ForkFails
<1>2. /\ S \subseteq SemObj /\ S \subseteq sems
      /\ lists' = lists /\ lcount' = lcount /\ semu' = semu /\ of' = of /\ on' = on
      /\ flags' = flags
  BY DEF H!ForkFails, H!Copied, H!TypeOK, H!InMemory
<1>3. \A s \in S : count[s] # 0
  <2>1. \A s \in S : s \in SemObj /\ H!Naming(s) # {}
    BY <1>2 DEF H!CountsExact
  <2>2. \A s \in S : H!Cardinality(H!Naming(s)) # 0
    BY <2>1, HandlesCountable, H!FS_EmptySet
  <2> QED BY <2>1, <2>2 DEF H!CountsExact
<1>4. \A s \in SemObj : H!SemuCreate(count, S)[s] = IF s \in S THEN count[s] + 1 ELSE count[s]
  BY DEF H!SemuCreate
<1>5. \A s \in S : H!SemuCreate(count, S)[s] # 1
  BY <1>2, <1>3, <1>4 DEF H!TypeOK
<1>6. {s \in S : H!SemuCreate(count, S)[s] = 1} = {}
  BY <1>5
<1>7. /\ sems' = sems /\ valid' = valid
      /\ count' = [s \in SemObj |-> IF s \in S THEN H!SemuCreate(count, S)[s] - 1
                                               ELSE H!SemuCreate(count, S)[s]]
      /\ value' = [s \in SemObj |-> value[s]]
      /\ waiters' = [s \in SemObj |-> waiters[s]]
  BY <1>1, <1>6 DEF H!SemuDestroy
<1>8. value' = value /\ waiters' = waiters
  BY <1>7 DEF H!TypeOK
<1>9. \A s \in SemObj : count'[s] = count[s]
  BY <1>4, <1>7 DEF H!TypeOK
<1>10. count' = count
  BY <1>7, <1>9 DEF H!TypeOK
<1>11. H!CountsExact' /\ H!InMemory' /\ \A x : H!ListOf(x)' = H!ListOf(x)
  BY <1>2, <1>7, <1>10, CountsKept DEF H!InMemory, H!ListOf
<1> QED BY <1>2, <1>7, <1>8, <1>10, <1>11 DEF H!TypeOK, H!OneEach, H!Waiting

(* Every step keeps the invariant.                                         *)
LEMMA HandlesNext == H!IndInv /\ [H!Next]_(H!vars) => H!IndInv'
<1> SUFFICES ASSUME H!IndInv, [H!Next]_(H!vars) PROVE H!IndInv'
  OBVIOUS
<1>1. CASE UNCHANGED H!vars
  <2>1. UNCHANGED <<sems, valid, value, count, waiters, lists, lcount, semu, of, on, flags>>
    BY <1>1 DEF H!vars, H!semVars
  <2>2. H!CountsExact' /\ \A x : H!ListOf(x)' = H!ListOf(x)
    BY <2>1, CountsKept DEF H!ListOf, H!IndInv
  <2> QED BY <2>1, <2>2 DEF H!IndInv, H!TypeOK, H!OneEach, H!Waiting, H!InMemory
<1>2. ASSUME NEW p \in Proc, NEW s \in SemObj, H!SemPost(p, s) PROVE H!IndInv'
  BY <1>2, HandlesUpStep, MissStep DEF H!SemPost
<1>3. ASSUME NEW p \in Proc, NEW s \in SemObj, H!SemWait(p, s) PROVE H!IndInv'
  BY <1>3, HandlesDownStep, MissStep DEF H!SemWait
<1>4. ASSUME NEW p \in Proc, NEW s \in SemObj, H!SemGetValue(p, s) PROVE H!IndInv'
  BY <1>4, <1>1, MissStep DEF H!SemGetValue
<1>5. CASE H!Next
  BY <1>5, <1>2, <1>3, <1>4, HandlesSemInitStep, HandlesFreeStep, HandlesInterruptStep,
     HandlesResumeStep, HandlesExitStep, HandlesExecveStep, HandlesForkFailsStep,
     HandlesShareStep, HandlesCopyStep DEF H!Next
<1> QED BY <1>1, <1>5

(* For any set of processes, semaphores and lists of handles: over         *)
(* sem_init, sem_free, fork with and without CLONE_SEM, a fork that fails  *)
(* half-way, execve and exit, a semaphore is in memory exactly as long as  *)
(* some list names it, a list exactly as long as some process has it, and  *)
(* whoever sleeps on a semaphore is in its queue, by a valid handle.       *)
THEOREM HandlesCountExactly == H!Spec => []HandlesExact
<1>1. H!IndInv => HandlesExact
  <2> SUFFICES ASSUME H!IndInv PROVE H!SleepersSafe
    BY DEF HandlesExact, H!HandlesExact, H!IndInv
  <2>1. ASSUME NEW p \in Proc, on[p] # {}, flags[p] = "none"
        PROVE  \E s \in on[p] : s \in valid /\ s \in semu[H!ListOf(p)] /\ p \in H!ToSet(waiters[s])
    <3>1. PICK s \in SemObj : s \in on[p]
      BY <2>1 DEF H!IndInv, H!TypeOK
    <3>2. p \in H!ToSet(waiters[s])
      BY <2>1, <3>1 DEF H!IndInv, H!Waiting
    <3> QED BY <3>1, <3>2, WaiterFacts
  <2>2. ASSUME NEW s \in SemObj, waiters[s] # << >> PROVE s \in sems /\ s \in valid
    <3>1. waiters[s] \in Seq(Proc) /\ H!IsInjective(waiters[s])
      BY DEF H!IndInv, H!TypeOK, H!Waiting
    <3>2. H!ToSet(waiters[s]) # {}
      BY <2>2, <3>1, NobodyWaits
    <3> QED BY <3>2, WaiterFacts DEF H!IndInv, H!InMemory
  <2> QED BY <2>1, <2>2 DEF H!SleepersSafe
<1> QED BY <1>1, HandlesInit, HandlesNext, PTL DEF H!Spec

-----------------------------------------------------------------------------
(* Files.                                                                  *)

(* The sets that the counts of slots and inodes stand for are finite.      *)
LEMMA FilesFinite ==
    /\ \A p, o, f, d : /\ F!IsFiniteSet(F!In(p, o, f, d))
                       /\ F!Cardinality(F!In(p, o, f, d)) \in Nat
    /\ \A s, e : F!IsFiniteSet(F!Users(s, e)) /\ F!Cardinality(F!Users(s, e)) \in Nat
    /\ \A E \in SUBSET F!End : F!IsFiniteSet(E) /\ F!Cardinality(E) \in 0 .. 2
    /\ \A D \in SUBSET Fd : F!IsFiniteSet(D) /\ F!Cardinality(D) \in Nat
    /\ F!End = {"r", "w"}
<1>1. F!IsFiniteSet(Proc) /\ F!IsFiniteSet(Fs) /\ F!IsFiniteSet(Fd)
  BY FilesConstants DEF F!FilesAssumption
<1>2. \A p, o, f, d : F!In(p, o, f, d) \subseteq Proc
  BY DEF F!In
<1>3. F!IsFiniteSet(Fs \X Fd)
  BY <1>1, F!FS_Product
<1>4. \A s, e : F!Users(s, e) \subseteq Fs \X Fd
  BY DEF F!Users
<1>5. F!IsFiniteSet(F!End) /\ F!Cardinality(F!End) = 2
  <2>1. F!End = {"r"} \cup {"w"} /\ "w" \notin {"r"}
    BY DEF F!End
  <2>2. F!IsFiniteSet({"r"}) /\ F!Cardinality({"r"}) = 1
    BY F!FS_Singleton
  <2> QED BY <2>1, <2>2, F!FS_AddElement
<1>6. \A E \in SUBSET F!End : F!IsFiniteSet(E) /\ F!Cardinality(E) \in 0 .. 2
  <2> TAKE E \in SUBSET F!End
  <2>1. F!IsFiniteSet(E) /\ F!Cardinality(E) <= 2
    BY <1>5, F!FS_Subset
  <2> QED BY <2>1, F!FS_CardinalityType
<1>7. \A p, o, f, d : F!IsFiniteSet(F!In(p, o, f, d))
  BY <1>1, <1>2, F!FS_Subset
<1>8. \A s, e : F!IsFiniteSet(F!Users(s, e))
  BY <1>3, <1>4, F!FS_Subset
<1>9. \A D \in SUBSET Fd : F!IsFiniteSet(D)
  BY <1>1, F!FS_Subset
<1> QED BY <1>6, <1>7, <1>8, <1>9, F!FS_CardinalityType DEF F!End

(* What the constants are.                                                 *)
LEMMA FilesFacts == BufSize \in Nat \ {0} /\ MaxLen \in Nat /\ NoFs \notin Fs /\ NoFd \notin Fd
BY FilesConstants DEF F!FilesAssumption

(* A part of the state is made of its three fields, and the pipe of six.   *)
LEMMA PartFields ==
    ASSUME NEW s \in F!Parts
    PROVE  /\ s.slot \in F!Files /\ s.pipe \in F!Pipes
           /\ s.wait \in [Proc -> {"no", "asleep", "PIPE", "INTERRUPTED"}]
           /\ s = [slot |-> s.slot, pipe |-> s.pipe, wait |-> s.wait]
           /\ s.pipe.size \in 0 .. BufSize /\ s.pipe.isclosed \in BOOLEAN
           /\ s.pipe.ref_count \in 0 .. 2 /\ s.pipe.open \in [F!End -> Nat]
           /\ s.pipe.reader_queue \in SUBSET Proc /\ s.pipe.writer_queue \in SUBSET Proc
BY DEF F!Parts, F!Pipes

(* A slot of a table.                                                      *)
LEMMA SlotFields ==
    ASSUME NEW s \in F!Parts, NEW f \in Fs, NEW d \in Fd
    PROVE  /\ s.slot \in [Fs -> [Fd -> [status : {"NONE", "OPENED", "CLOSED"},
                                        end : F!End, count : Nat]]]
           /\ s.slot[f] \in [Fd -> [status : {"NONE", "OPENED", "CLOSED"},
                                    end : F!End, count : Nat]]
           /\ s.slot[f][d].status \in {"NONE", "OPENED", "CLOSED"}
           /\ s.slot[f][d].end \in F!End /\ s.slot[f][d].count \in Nat
BY DEF F!Parts, F!Files

(* The counts do not depend on the buffer, the waiters and their queues.   *)
LEMMA SameCounts ==
    ASSUME NEW p, NEW s, NEW r, NEW o, NEW x, F!Counted(p, s, o, x), F!Referenced(s),
           F!OwnTables(p, s, o),
           r.slot = s.slot, r.pipe.open = s.pipe.open, r.pipe.ref_count = s.pipe.ref_count
    PROVE  F!Counted(p, r, o, x) /\ F!Referenced(r) /\ F!OwnTables(p, r, o)
<1>1. \A e : F!Users(r, e) = F!Users(s, e)
  BY DEF F!Users
<1>2. F!OpenEnds(r) = F!OpenEnds(s)
  BY DEF F!OpenEnds
<1>3. F!Referenced(r)
  BY <1>1, <1>2 DEF F!Referenced
<1>4. F!Counted(p, r, o, x)
  BY DEF F!Counted
<1> QED BY <1>3, <1>4 DEF F!OwnTables

(* wakeup_queue of the readers, with the part of the state it changes.     *)
LEMMA WakesReaders ==
    ASSUME NEW s \in F!Parts
    PROVE  LET r == F!WakeupReader(s) IN
           /\ r \in F!Parts /\ r.slot = s.slot
           /\ r.pipe.open = s.pipe.open /\ r.pipe.ref_count = s.pipe.ref_count
           /\ r.pipe.size = s.pipe.size /\ r.pipe.isclosed = s.pipe.isclosed
           /\ r.pipe.reader_queue = {} /\ r.pipe.writer_queue = s.pipe.writer_queue
           /\ \A t \in Proc : r.wait[t] = IF t \in s.pipe.reader_queue THEN "PIPE" ELSE s.wait[t]
BY DEF F!WakeupReader, F!Woken, F!Parts, F!Pipes

(* The same of the writers.                                                *)
LEMMA WakesWriters ==
    ASSUME NEW s \in F!Parts
    PROVE  LET r == F!WakeupWriter(s) IN
           /\ r \in F!Parts /\ r.slot = s.slot
           /\ r.pipe.open = s.pipe.open /\ r.pipe.ref_count = s.pipe.ref_count
           /\ r.pipe.size = s.pipe.size /\ r.pipe.isclosed = s.pipe.isclosed
           /\ r.pipe.writer_queue = {} /\ r.pipe.reader_queue = s.pipe.reader_queue
           /\ \A t \in Proc : r.wait[t] = IF t \in s.pipe.writer_queue THEN "PIPE" ELSE s.wait[t]
BY DEF F!WakeupWriter, F!Woken, F!Parts, F!Pipes

(* A thread that is in a system call is not idle.                          *)
LEMMA CallsNotIdle ==
    ASSUME NEW s, NEW o, NEW t \in Proc, F!Blocked(s, o)
    PROVE  /\ t \in s.pipe.reader_queue \cup s.pipe.writer_queue => o[t] # F!Idle
           /\ F!Idle.call = "none"
BY DEF F!Blocked, F!Idle

(* Reading bytes wakes all writers, so none is left asleep at a pipe with  *)
(* room.                                                                   *)
LEMMA ReadKeeps ==
    ASSUME NEW p, NEW s, NEW o, NEW x, F!Good(p, s, o, x), NEW n \in 0 .. s.pipe.size,
           NEW r, r = F!ReadBytes(s, n)
    PROVE  /\ F!Good(p, r, o, x) /\ r.slot = s.slot
           /\ r.pipe.size = s.pipe.size - n /\ r.pipe.isclosed = s.pipe.isclosed
<1> DEFINE s1 == [s EXCEPT !.pipe.size = @ - n]
<1>0. s \in F!Parts /\ s.pipe.size \in 0 .. BufSize /\ BufSize \in Nat
  BY PartFields, FilesFacts DEF F!Good
<1>1. CASE n = 0
  BY <1>0, <1>1 DEF F!ReadBytes
<1>2. CASE n # 0
  <2>1. /\ s1 \in F!Parts /\ s1.slot = s.slot /\ s1.wait = s.wait
        /\ s1.pipe.open = s.pipe.open /\ s1.pipe.ref_count = s.pipe.ref_count
        /\ s1.pipe.size = s.pipe.size - n /\ s1.pipe.isclosed = s.pipe.isclosed
        /\ s1.pipe.reader_queue = s.pipe.reader_queue
        /\ s1.pipe.writer_queue = s.pipe.writer_queue
    BY <1>0 DEF F!Parts, F!Pipes
  <2>2. r = F!WakeupWriter(s1)
    BY <1>2 DEF F!ReadBytes
  <2> HIDE DEF s1
  <2>3. /\ r \in F!Parts /\ r.slot = s.slot
        /\ r.pipe.open = s.pipe.open /\ r.pipe.ref_count = s.pipe.ref_count
        /\ r.pipe.size = s.pipe.size - n /\ r.pipe.isclosed = s.pipe.isclosed
        /\ r.pipe.writer_queue = {} /\ r.pipe.reader_queue = s.pipe.reader_queue
        /\ \A t \in Proc : r.wait[t] = IF t \in s.pipe.writer_queue THEN "PIPE" ELSE s.wait[t]
    BY <2>1, <2>2, WakesWriters
  <2>4. F!Counted(p, r, o, x) /\ F!Referenced(r) /\ F!OwnTables(p, r, o)
    BY <2>3, SameCounts DEF F!Good
  <2>5. F!Blocked(r, o)
    <3> SUFFICES ASSUME NEW t \in Proc
                 PROVE  /\ r.wait[t] = "no" <=> o[t] = F!Idle
                        /\ t \in r.pipe.reader_queue => o[t].call = "r"
                        /\ t \in r.pipe.writer_queue => o[t].call = "w"
                        /\ r.wait[t] = "asleep" =>
                             /\ ~r.pipe.isclosed
                             /\ o[t].call = "r" => r.pipe.size = 0 /\ t \in r.pipe.reader_queue
                             /\ o[t].call # "r" => r.pipe.size = BufSize /\ t \in r.pipe.writer_queue
      BY DEF F!Blocked
    <3>1. /\ s.wait[t] = "no" <=> o[t] = F!Idle
          /\ t \in s.pipe.reader_queue => o[t].call = "r"
          /\ t \in s.pipe.writer_queue => o[t].call = "w"
          /\ s.wait[t] = "asleep" =>
               /\ ~s.pipe.isclosed
               /\ o[t].call = "r" => s.pipe.size = 0 /\ t \in s.pipe.reader_queue
               /\ o[t].call # "r" => s.pipe.size = BufSize /\ t \in s.pipe.writer_queue
      BY DEF F!Good, F!Blocked
    <3>2. F!Idle.call = "none"
      BY DEF F!Idle
    <3>3. CASE t \in s.pipe.writer_queue
      BY <2>3, <3>1, <3>2, <3>3
    <3>4. CASE t \notin s.pipe.writer_queue
      <4>1. r.wait[t] = s.wait[t]
        BY <2>3, <3>4
      <4>2. s.wait[t] # "asleep"
        BY <3>1, <3>4, <1>2, <1>0
      <4> QED BY <4>1, <4>2, <2>3, <3>1
    <3> QED BY <3>3, <3>4
  <2> QED BY <2>3, <2>4, <2>5 DEF F!Good
<1> QED BY <1>1, <1>2

(* Writing bytes wakes all readers.                                        *)
LEMMA WriteKeeps ==
    ASSUME NEW p, NEW s, NEW o, NEW x, F!Good(p, s, o, x), NEW n \in 0 .. BufSize - s.pipe.size,
           NEW r, r = F!WriteBytes(s, n)
    PROVE  /\ F!Good(p, r, o, x) /\ r.slot = s.slot
           /\ r.pipe.size = s.pipe.size + n /\ r.pipe.isclosed = s.pipe.isclosed
<1> DEFINE s1 == [s EXCEPT !.pipe.size = @ + n]
<1>0. s \in F!Parts /\ s.pipe.size \in 0 .. BufSize /\ BufSize \in Nat \ {0}
  BY PartFields, FilesFacts DEF F!Good
<1>1. /\ s1 \in F!Parts /\ s1.slot = s.slot /\ s1.wait = s.wait
      /\ s1.pipe.open = s.pipe.open /\ s1.pipe.ref_count = s.pipe.ref_count
      /\ s1.pipe.size = s.pipe.size + n /\ s1.pipe.isclosed = s.pipe.isclosed
      /\ s1.pipe.reader_queue = s.pipe.reader_queue
      /\ s1.pipe.writer_queue = s.pipe.writer_queue
  BY <1>0 DEF F!Parts, F!Pipes
<1>2. r = F!WakeupReader(s1)
  BY DEF F!WriteBytes
<1> HIDE DEF s1
<1>3. /\ r \in F!Parts /\ r.slot = s.slot
      /\ r.pipe.open = s.pipe.open /\ r.pipe.ref_count = s.pipe.ref_count
      /\ r.pipe.size = s.pipe.size + n /\ r.pipe.isclosed = s.pipe.isclosed
      /\ r.pipe.reader_queue = {} /\ r.pipe.writer_queue = s.pipe.writer_queue
      /\ \A t \in Proc : r.wait[t] = IF t \in s.pipe.reader_queue THEN "PIPE" ELSE s.wait[t]
  BY <1>1, <1>2, WakesReaders
<1>4. F!Counted(p, r, o, x) /\ F!Referenced(r) /\ F!OwnTables(p, r, o)
  BY <1>3, SameCounts DEF F!Good
<1>5. F!Blocked(r, o)
  <2> SUFFICES ASSUME NEW t \in Proc
               PROVE  /\ r.wait[t] = "no" <=> o[t] = F!Idle
                      /\ t \in r.pipe.reader_queue => o[t].call = "r"
                      /\ t \in r.pipe.writer_queue => o[t].call = "w"
                      /\ r.wait[t] = "asleep" =>
                           /\ ~r.pipe.isclosed
                           /\ o[t].call = "r" => r.pipe.size = 0 /\ t \in r.pipe.reader_queue
                           /\ o[t].call # "r" => r.pipe.size = BufSize /\ t \in r.pipe.writer_queue
    BY DEF F!Blocked
  <2>1. /\ s.wait[t] = "no" <=> o[t] = F!Idle
        /\ t \in s.pipe.reader_queue => o[t].call = "r"
        /\ t \in s.pipe.writer_queue => o[t].call = "w"
        /\ s.wait[t] = "asleep" =>
             /\ ~s.pipe.isclosed
             /\ o[t].call = "r" => s.pipe.size = 0 /\ t \in s.pipe.reader_queue
             /\ o[t].call # "r" => s.pipe.size = BufSize /\ t \in s.pipe.writer_queue
    BY DEF F!Good, F!Blocked
  <2>2. F!Idle.call = "none"
    BY DEF F!Idle
  <2>3. CASE t \in s.pipe.reader_queue
    BY <1>3, <2>1, <2>2, <2>3
  <2>4. CASE t \notin s.pipe.reader_queue
    <3>1. r.wait[t] = s.wait[t]
      BY <1>3, <2>4
    <3>2. s.wait[t] = "asleep" => o[t].call # "r" /\ s.pipe.size = BufSize /\ n = 0
      BY <2>1, <2>4, <1>0
    <3> QED BY <3>1, <3>2, <1>3, <2>1, <1>0
  <2> QED BY <2>3, <2>4
<1> QED BY <1>3, <1>4, <1>5 DEF F!Good

(* pipe_state_close wakes everybody.                                       *)
LEMMA CloseWakes ==
    ASSUME NEW s \in F!Parts, NEW o, F!Blocked(s, o)
    PROVE  LET r == F!PipeStateClose(s) IN
           /\ r \in F!Parts /\ r.slot = s.slot
           /\ r.pipe.open = s.pipe.open /\ r.pipe.ref_count = s.pipe.ref_count
           /\ r.pipe.reader_queue = {} /\ r.pipe.writer_queue = {}
           /\ \A t \in Proc : r.wait[t] # "asleep" /\ (r.wait[t] = "no" <=> o[t] = F!Idle)
<1> DEFINE s1 == [s EXCEPT !.pipe.isclosed = TRUE]
           s2 == F!WakeupReader(s1)
           r == F!WakeupWriter(s2)
<1>0. F!PipeStateClose(s) = r
  BY DEF F!PipeStateClose
<1>1. /\ s1 \in F!Parts /\ s1.slot = s.slot /\ s1.wait = s.wait
      /\ s1.pipe.open = s.pipe.open /\ s1.pipe.ref_count = s.pipe.ref_count
      /\ s1.pipe.reader_queue = s.pipe.reader_queue
      /\ s1.pipe.writer_queue = s.pipe.writer_queue
  BY DEF F!Parts, F!Pipes
<1> HIDE DEF s1
<1>2. /\ s2 \in F!Parts /\ s2.slot = s.slot
      /\ s2.pipe.open = s.pipe.open /\ s2.pipe.ref_count = s.pipe.ref_count
      /\ s2.pipe.reader_queue = {} /\ s2.pipe.writer_queue = s.pipe.writer_queue
      /\ \A t \in Proc : s2.wait[t] = IF t \in s.pipe.reader_queue THEN "PIPE" ELSE s.wait[t]
  BY <1>1, WakesReaders
<1> HIDE DEF s2
<1>3. /\ r \in F!Parts /\ r.slot = s.slot
      /\ r.pipe.open = s.pipe.open /\ r.pipe.ref_count = s.pipe.ref_count
      /\ r.pipe.reader_queue = {} /\ r.pipe.writer_queue = {}
      /\ \A t \in Proc : r.wait[t] = IF t \in s.pipe.writer_queue THEN "PIPE" ELSE s2.wait[t]
  BY <1>2, WakesWriters
<1> HIDE DEF r
<1>4. ASSUME NEW t \in Proc
      PROVE  r.wait[t] # "asleep" /\ (r.wait[t] = "no" <=> o[t] = F!Idle)
  <2>1. /\ s.wait[t] = "no" <=> o[t] = F!Idle
        /\ t \in s.pipe.reader_queue \cup s.pipe.writer_queue => o[t] # F!Idle
        /\ s.wait[t] = "asleep" => t \in s.pipe.reader_queue \cup s.pipe.writer_queue
    BY CallsNotIdle DEF F!Blocked
  <2> QED BY <2>1, <1>2, <1>3
<1> QED BY <1>0, <1>3, <1>4

(* vfs_close gives back what the freed slots had of the two inodes: if the *)
(* counts were too high by n, they are exact afterwards.                   *)
LEMMA VfsCloseKeeps ==
    ASSUME NEW p, NEW s, NEW o, NEW x, NEW n \in [F!End -> Nat],
           p \in [Proc -> Fs \cup {NoFs}], s \in F!Parts, o \in [Proc -> F!Ops],
           F!Counted(p, s, o, x), F!OwnTables(p, s, o), F!Blocked(s, o),
           \A e \in F!End : s.pipe.open[e] = F!Cardinality(F!Users(s, e)) + n[e],
           s.pipe.ref_count = F!Cardinality(F!OpenEnds(s))
    PROVE  F!Good(p, F!VfsClose(s, n), o, x) /\ F!VfsClose(s, n).slot = s.slot
<1> DEFINE left == [e \in F!End |-> s.pipe.open[e] - n[e]]
           s1 == [s EXCEPT !.pipe.open = left]
           last == {e \in F!End : n[e] > 0 /\ s.pipe.open[e] = n[e]}
           s2 == F!PipeStateClose(s1)
           s3 == [s2 EXCEPT !.pipe = F!NoPipe]
           s4 == [s2 EXCEPT !.pipe.ref_count = s2.pipe.ref_count - F!Cardinality(last)]
<1>0. /\ \A e \in F!End : F!Cardinality(F!Users(s, e)) \in Nat
      /\ F!Cardinality(last) \in 0 .. 2 /\ F!Cardinality(F!OpenEnds(s)) \in 0 .. 2
      /\ F!IsFiniteSet(F!OpenEnds(s)) /\ F!IsFiniteSet(last)
  BY FilesFinite DEF F!OpenEnds
<1>1. left \in [F!End -> Nat] /\ \A e \in F!End : left[e] = F!Cardinality(F!Users(s, e))
  BY <1>0
<1>2. /\ s1 \in F!Parts /\ s1.slot = s.slot /\ s1.wait = s.wait
      /\ s1.pipe.open = left /\ s1.pipe.ref_count = s.pipe.ref_count
      /\ s1.pipe.size = s.pipe.size /\ s1.pipe.isclosed = s.pipe.isclosed
      /\ s1.pipe.reader_queue = s.pipe.reader_queue
      /\ s1.pipe.writer_queue = s.pipe.writer_queue
  BY <1>1 DEF F!Parts, F!Pipes
<1>3. F!OpenEnds(s1) = F!OpenEnds(s) \ last /\ last \subseteq F!OpenEnds(s)
  <2>1. \A e \in F!End : s.pipe.open[e] \in Nat /\ n[e] \in Nat
    BY PartFields
  <2>2. \A e \in F!End : left[e] = s.pipe.open[e] - n[e]
    OBVIOUS
  <2>3. \A e \in F!End : left[e] \in Nat
    BY <1>1
  <2> HIDE DEF left
  <2>4. ASSUME NEW e \in F!End
        PROVE  left[e] > 0 <=> (s.pipe.open[e] > 0 /\ ~(n[e] > 0 /\ s.pipe.open[e] = n[e]))
    <3>1. s.pipe.open[e] \in Nat /\ n[e] \in Nat /\ left[e] \in Nat /\ left[e] = s.pipe.open[e] - n[e]
      BY <2>1, <2>2, <2>3
    <3> QED BY <3>1
  <2> QED BY <1>2, <2>1, <2>4 DEF F!OpenEnds
<1>4. F!Cardinality(F!OpenEnds(s1)) = s.pipe.ref_count - F!Cardinality(last)
  <2> HIDE DEF last, s1
  <2>1. F!OpenEnds(s) \cap last = last
    BY <1>3
  <2>2. F!Cardinality(F!OpenEnds(s) \ last)
          = F!Cardinality(F!OpenEnds(s)) - F!Cardinality(F!OpenEnds(s) \cap last)
    BY <1>0, F!FS_Difference
  <2> QED BY <1>3, <2>1, <2>2
<1>5. F!VfsClose(s, n) = IF last = {} THEN s1
                         ELSE IF s.pipe.ref_count = F!Cardinality(last) THEN s3 ELSE s4
  BY DEF F!VfsClose
<1>6. F!Blocked(s1, o)
  BY <1>2 DEF F!Blocked
<1>7. \A e \in F!End : F!Users(s1, e) = F!Users(s, e)
  BY <1>2 DEF F!Users
<1>8. F!Counted(p, s1, o, x) /\ F!OwnTables(p, s1, o)
  BY <1>2 DEF F!Counted, F!OwnTables
<1> HIDE DEF s1
<1>9. /\ s2 \in F!Parts /\ s2.slot = s.slot
      /\ s2.pipe.open = left /\ s2.pipe.ref_count = s.pipe.ref_count
      /\ s2.pipe.reader_queue = {} /\ s2.pipe.writer_queue = {}
      /\ \A t \in Proc : s2.wait[t] # "asleep" /\ (s2.wait[t] = "no" <=> o[t] = F!Idle)
  BY <1>2, <1>6, CloseWakes
<1>10. s.pipe.ref_count \in 0 .. 2
  BY PartFields
<1> HIDE DEF s2, last, left
<1>11. CASE last = {}
  <2>1. F!Cardinality(last) = 0
    BY <1>11, F!FS_EmptySet
  <2>2. F!Referenced(s1)
    BY <1>1, <1>2, <1>4, <1>7, <1>10, <2>1 DEF F!Referenced
  <2> QED BY <1>2, <1>5, <1>6, <1>8, <1>11, <2>2 DEF F!Good
<1>12. CASE last # {} /\ s.pipe.ref_count = F!Cardinality(last)
  <2>1. F!OpenEnds(s1) = {}
    <3>1. F!Cardinality(F!OpenEnds(s1)) = 0
      BY <1>4, <1>10, <1>12
    <3>2. F!IsFiniteSet(F!OpenEnds(s1))
      BY FilesFinite DEF F!OpenEnds
    <3> QED BY <3>1, <3>2, F!FS_EmptySet
  <2>2. \A e \in F!End : F!Cardinality(F!Users(s, e)) = 0
    <3>1. \A e \in F!End : ~(left[e] > 0)
      BY <2>1, <1>2 DEF F!OpenEnds
    <3> QED BY <3>1, <1>1, <1>0
  <2>3. /\ s3 \in F!Parts /\ s3.slot = s.slot /\ s3.wait = s2.wait /\ s3.pipe = F!NoPipe
    <3>1. F!NoPipe \in F!Pipes
      BY FilesFacts DEF F!NoPipe, F!Pipes
    <3> QED BY <1>9, <3>1 DEF F!Parts
  <2>4. \A e \in F!End : F!Users(s3, e) = F!Users(s, e)
    BY <2>3 DEF F!Users
  <2>5. F!Referenced(s3)
    <3>1. F!OpenEnds(s3) = {}
      BY <2>3 DEF F!OpenEnds, F!NoPipe
    <3>2. F!Cardinality(F!OpenEnds(s3)) = 0
      BY <3>1, F!FS_EmptySet
    <3>3. F!NoPipe.ref_count = 0 /\ \A e \in F!End : F!NoPipe.open[e] = 0
      BY DEF F!NoPipe
    <3> QED BY <2>2, <2>3, <2>4, <3>2, <3>3 DEF F!Referenced
  <2>6. F!Blocked(s3, o)
    <3>1. F!NoPipe.reader_queue = {} /\ F!NoPipe.writer_queue = {}
      BY DEF F!NoPipe
    <3> QED BY <1>9, <2>3, <3>1 DEF F!Blocked
  <2>7. F!Counted(p, s3, o, x) /\ F!OwnTables(p, s3, o)
    BY <2>3 DEF F!Counted, F!OwnTables
  <2> QED BY <1>5, <1>12, <2>3, <2>5, <2>6, <2>7 DEF F!Good
<1>13. CASE last # {} /\ s.pipe.ref_count # F!Cardinality(last)
  <2>1. s.pipe.ref_count - F!Cardinality(last) \in 0 .. 2
    <3>1. F!Cardinality(F!OpenEnds(s1)) \in 0 .. 2
      BY FilesFinite DEF F!OpenEnds
    <3> QED BY <1>4, <3>1
  <2>2. /\ s4 \in F!Parts /\ s4.slot = s.slot /\ s4.wait = s2.wait
        /\ s4.pipe.open = left /\ s4.pipe.ref_count = s.pipe.ref_count - F!Cardinality(last)
        /\ s4.pipe.reader_queue = {} /\ s4.pipe.writer_queue = {}
    BY <1>9, <2>1 DEF F!Parts, F!Pipes
  <2>3. \A e \in F!End : F!Users(s4, e) = F!Users(s, e)
    BY <2>2 DEF F!Users
  <2>4. F!OpenEnds(s4) = F!OpenEnds(s1)
    BY <1>2, <2>2 DEF F!OpenEnds
  <2>5. F!Referenced(s4)
    BY <1>1, <1>4, <2>2, <2>3, <2>4 DEF F!Referenced
  <2>6. F!Blocked(s4, o)
    BY <1>9, <2>2 DEF F!Blocked
  <2>7. F!Counted(p, s4, o, x) /\ F!OwnTables(p, s4, o)
    BY <2>2 DEF F!Counted, F!OwnTables
  <2>8. F!VfsClose(s, n) = s4
    BY <1>5, <1>13
  <2> QED BY <2>8, <2>2, <2>5, <2>6, <2>7 DEF F!Good
<1> QED BY <1>11, <1>12, <1>13

(* Pairs with one table are as many as the descriptors.                    *)
LEMMA PairsCount ==
    ASSUME NEW f, NEW D \in SUBSET Fd
    PROVE  F!IsFiniteSet({f} \X D) /\ F!Cardinality({f} \X D) = F!Cardinality(D)
<1>1. F!IsFiniteSet(D) /\ F!Cardinality(D) \in Nat
  BY FilesFinite
<1>2. F!IsFiniteSet({f}) /\ F!Cardinality({f}) = 1
  BY F!FS_Singleton
<1>3. F!IsFiniteSet({f} \X D) /\ F!Cardinality({f} \X D) = F!Cardinality({f}) * F!Cardinality(D)
  BY <1>1, <1>2, F!FS_Product
<1> QED BY <1>1, <1>2, <1>3

(* Another contents for a table.                                           *)
LEMMA TableSet ==
    ASSUME NEW s \in F!Parts, NEW f \in Fs,
           NEW new \in [Fd -> [status : {"NONE", "OPENED", "CLOSED"}, end : F!End, count : Nat]]
    PROVE  LET r == [s EXCEPT !.slot[f] = new] IN
           /\ r \in F!Parts /\ r.pipe = s.pipe /\ r.wait = s.wait
           /\ r.slot[f] = new /\ \A g \in Fs \ {f} : r.slot[g] = s.slot[g]
<1> DEFINE r == [s EXCEPT !.slot[f] = new]
           all == [s.slot EXCEPT ![f] = new]
<1>1. r.slot = all /\ r.pipe = s.pipe /\ r.wait = s.wait
  BY PartFields
<1>2. r = [slot |-> all, pipe |-> s.pipe, wait |-> s.wait]
  BY PartFields
<1>3. all \in F!Files /\ all[f] = new /\ \A g \in Fs \ {f} : all[g] = s.slot[g]
  BY SlotFields, PartFields DEF F!Files
<1> HIDE DEF all
<1>4. r \in F!Parts
  BY <1>2, <1>3, PartFields DEF F!Parts
<1> QED BY <1>1, <1>3, <1>4

(* The slots of table f in s and r, which a release does not open.         *)
NoneOpened(s, r, f) ==
    /\ \A d \in Fd : r.slot[f][d].status \in {"NONE", s.slot[f][d].status}
    /\ \A g \in Fs \ {f} : r.slot[g] = s.slot[g]
    /\ \A d \in Fd : r.slot[f][d].status # "NONE" => r.slot[f][d].end = s.slot[f][d].end

(* filemap_release by threads that were counted in extra: the counts are   *)
(* exact again, and no slot becomes an open one.                           *)
LEMMA ReleaseKeeps ==
    ASSUME NEW p, NEW s, NEW o, NEW f \in Fs, NEW ds \in SUBSET Fd,
           F!Good(p, s, o, F!Slots(f, ds)), NEW r, r = F!FilemapRelease(s, f, ds)
    PROVE  F!Good(p, r, o, {}) /\ NoneOpened(s, r, f)
<1> DEFINE freed == {d \in ds : s.slot[f][d].count = 1}
           file(d) == IF d \in freed THEN F!None
                      ELSE [s.slot[f][d] EXCEPT !.count = IF d \in ds THEN @ - 1 ELSE @]
           new == [d \in Fd |-> file(d)]
           s1 == [s EXCEPT !.slot[f] = new]
           gone(e) == {d \in freed : s.slot[f][d].end = e}
           n == [e \in F!End |-> F!Cardinality(gone(e))]
<1>0. r = F!VfsClose(s1, n)
  BY DEF F!FilemapRelease
<1>1. /\ p \in [Proc -> Fs \cup {NoFs}] /\ s \in F!Parts /\ o \in [Proc -> F!Ops]
      /\ F!Counted(p, s, o, F!Slots(f, ds)) /\ F!Referenced(s) /\ F!OwnTables(p, s, o) /\ F!Blocked(s, o)
  BY DEF F!Good
<1>2. ASSUME NEW g \in Fs, NEW d \in Fd
      PROVE  /\ s.slot[g][d].count = F!Cardinality(F!In(p, o, g, d))
                                  + (IF s.slot[g][d].status = "OPENED" THEN 1 ELSE 0)
                                  + (IF g = f /\ d \in ds THEN 1 ELSE 0)
             /\ s.slot[g][d].status = "NONE" <=> s.slot[g][d].count = 0
             /\ F!Cardinality(F!In(p, o, g, d)) \in Nat
             /\ s.slot[g][d].status \in {"NONE", "OPENED", "CLOSED"}
             /\ s.slot[g][d].count \in Nat
             /\ s.slot[g][d].end \in F!End
  <2>1. <<g, d>> \in F!Slots(f, ds) <=> g = f /\ d \in ds
    BY DEF F!Slots
  <2> QED BY <1>1, <2>1, FilesFinite, SlotFields DEF F!Counted
<1>3. \A d \in ds : s.slot[f][d].count > 0
  BY <1>2
<1>4. /\ s1 \in F!Parts /\ s1.pipe = s.pipe /\ s1.wait = s.wait
      /\ \A g \in Fs \ {f} : s1.slot[g] = s.slot[g]
      /\ \A d \in freed : s1.slot[f][d] = F!None
      /\ \A d \in ds \ freed :
           /\ s1.slot[f][d].status = s.slot[f][d].status
           /\ s1.slot[f][d].end = s.slot[f][d].end
           /\ s1.slot[f][d].count = s.slot[f][d].count - 1
      /\ \A d \in Fd \ ds : s1.slot[f][d] = s.slot[f][d]
  <2>1. \A d \in Fd : s.slot[f][d] \in [status : {"NONE", "OPENED", "CLOSED"}, end : F!End, count : Nat]
    BY <1>1, SlotFields
  <2>2. ASSUME NEW d \in Fd
        PROVE  file(d) \in [status : {"NONE", "OPENED", "CLOSED"}, end : F!End, count : Nat]
    <3>1. CASE d \in freed
      BY <3>1 DEF F!None, F!End
    <3>2. CASE d \notin freed /\ d \in ds
      <4>1. s.slot[f][d].count > 0 /\ s.slot[f][d].count \in Nat
        BY <1>3, <2>1, <3>2
      <4> QED BY <2>1, <3>2, <4>1
    <3>3. CASE d \notin freed /\ d \notin ds
      BY <2>1, <3>3
    <3> QED BY <3>1, <3>2, <3>3
  <2>3. /\ \A d \in freed : file(d) = F!None
        /\ \A d \in ds \ freed : /\ file(d).status = s.slot[f][d].status
                                 /\ file(d).end = s.slot[f][d].end
                                 /\ file(d).count = s.slot[f][d].count - 1
    BY <2>1
  <2>4. \A d \in Fd \ ds : file(d) = s.slot[f][d]
    BY <2>1
  <2>5. \A d \in Fd : new[d] = file(d)
    OBVIOUS
  <2>6. new \in [Fd -> [status : {"NONE", "OPENED", "CLOSED"}, end : F!End, count : Nat]]
    BY <2>2
  <2>7. freed \subseteq ds /\ ds \subseteq Fd
    OBVIOUS
  <2> HIDE DEF new, file
  <2>8. /\ s1 \in F!Parts /\ s1.pipe = s.pipe /\ s1.wait = s.wait
        /\ s1.slot[f] = new /\ \A g \in Fs \ {f} : s1.slot[g] = s.slot[g]
    BY <1>1, <2>6, TableSet
  <2> HIDE DEF s1
  <2> QED BY <2>3, <2>4, <2>5, <2>7, <2>8
<1> HIDE DEF s1
<1>5. F!None.status = "NONE" /\ F!None.count = 0
  BY DEF F!None
<1>6. ASSUME NEW d \in freed
      PROVE  s.slot[f][d].status = "CLOSED" /\ F!In(p, o, f, d) = {}
  <2>1. /\ 1 = F!Cardinality(F!In(p, o, f, d)) + (IF s.slot[f][d].status = "OPENED" THEN 1 ELSE 0) + 1
        /\ s.slot[f][d].status # "NONE" /\ d \in Fd
    BY <1>2
  <2>2. s.slot[f][d].status # "OPENED" /\ F!Cardinality(F!In(p, o, f, d)) = 0
    BY <2>1, <1>2
  <2>3. F!IsFiniteSet(F!In(p, o, f, d))
    BY FilesFinite
  <2> QED BY <1>2, <2>1, <2>2, <2>3, F!FS_EmptySet
<1>7. F!Counted(p, s1, o, {})
  <2> SUFFICES ASSUME NEW g \in Fs, NEW d \in Fd
               PROVE  /\ s1.slot[g][d].count = F!Cardinality(F!In(p, o, g, d))
                                  + (IF s1.slot[g][d].status = "OPENED" THEN 1 ELSE 0)
                                  + 0
                      /\ s1.slot[g][d].status = "NONE" <=> s1.slot[g][d].count = 0
    BY DEF F!Counted
  <2>1. CASE g # f
    BY <1>2, <1>4, <2>1
  <2>2. CASE g = f /\ d \notin ds
    BY <1>2, <1>4, <2>2
  <2>3. CASE g = f /\ d \in freed
    <3>1. F!Cardinality(F!In(p, o, g, d)) = 0
      BY <1>6, <2>3, F!FS_EmptySet
    <3> QED BY <3>1, <1>4, <1>5, <2>3
  <2>4. CASE g = f /\ d \in ds \ freed
    <3>1. s.slot[g][d].count # 1
      BY <2>4
    <3> QED BY <3>1, <1>2, <1>4, <2>4
  <2> QED BY <2>1, <2>2, <2>3, <2>4
<1>8. ASSUME NEW t \in Proc, o[t] # F!Idle
      PROVE  /\ p[t] \in Fs /\ o[t].fd \in Fd /\ o[t].call \in F!End /\ o[t].left > 0
             /\ s1.slot[p[t]][o[t].fd].end = o[t].call
  <2>1. /\ p[t] \in Fs /\ o[t].fd \in Fd /\ o[t].call \in F!End /\ o[t].left > 0
        /\ s.slot[p[t]][o[t].fd].end = o[t].call
    BY <1>1, <1>8 DEF F!OwnTables
  <2>2. t \in F!In(p, o, p[t], o[t].fd)
    BY <1>8 DEF F!In
  <2>3. p[t] = f => o[t].fd \notin freed
    BY <1>6, <2>2
  <2> QED BY <1>4, <2>1, <2>3
<1>9. F!Blocked(s1, o)
  BY <1>1, <1>4 DEF F!Blocked
<1>10. ASSUME NEW e \in F!End
       PROVE  /\ gone(e) \in SUBSET Fd /\ n[e] \in Nat
              /\ s1.pipe.open[e] = F!Cardinality(F!Users(s1, e)) + n[e]
  <2> DEFINE out == {f} \X gone(e)
  <2>1. gone(e) \in SUBSET Fd
    OBVIOUS
  <2>2. n[e] \in Nat /\ F!IsFiniteSet(out) /\ F!Cardinality(out) = n[e]
    BY <2>1, FilesFinite, PairsCount
  <2>3. out \subseteq F!Users(s, e)
    BY <1>2 DEF F!Users
  <2>4. F!Users(s1, e) = F!Users(s, e) \ out
    <3>1. ASSUME NEW g \in Fs, NEW d \in Fd
          PROVE  s1.slot[g][d].count > 0 /\ s1.slot[g][d].end = e
                   <=> (s.slot[g][d].count > 0 /\ s.slot[g][d].end = e /\ ~(g = f /\ d \in gone(e)))
      <4>1. CASE g # f
        BY <1>4, <4>1
      <4>2. CASE g = f /\ d \notin ds
        BY <1>4, <4>2
      <4>3. CASE g = f /\ d \in freed
        BY <1>4, <1>5, <4>3
      <4>4. CASE g = f /\ d \in ds \ freed
        <5>1. s.slot[g][d].count # 1 /\ s.slot[g][d].count > 0 /\ d \notin gone(e)
          BY <1>3, <4>4
        <5> QED BY <5>1, <1>2, <1>4, <4>4
      <4> QED BY <4>1, <4>2, <4>3, <4>4
    <3>2. \A y \in Fs \X Fd : y \in out <=> y[1] = f /\ y[2] \in gone(e)
      OBVIOUS
    <3> HIDE DEF out
    <3> QED BY <3>1, <3>2 DEF F!Users
  <2> HIDE DEF out
  <2>5. F!Users(s, e) \cap out = out
    BY <2>3
  <2>6. F!IsFiniteSet(F!Users(s, e)) /\ F!Cardinality(F!Users(s, e)) \in Nat
    BY FilesFinite
  <2>7. F!Cardinality(F!Users(s1, e)) = F!Cardinality(F!Users(s, e)) - n[e]
    <3>1. F!Cardinality(F!Users(s, e) \ out)
            = F!Cardinality(F!Users(s, e)) - F!Cardinality(F!Users(s, e) \cap out)
      BY <2>6, F!FS_Difference
    <3> HIDE DEF n
    <3> QED BY <2>2, <2>4, <2>5, <3>1
  <2>8. s1.pipe.open[e] = F!Cardinality(F!Users(s, e))
    BY <1>1, <1>4 DEF F!Referenced
  <2> HIDE DEF n
  <2> QED BY <2>1, <2>2, <2>6, <2>7, <2>8
<1>11. n \in [F!End -> Nat]
  BY <1>10
<1>12. s1.pipe.ref_count = F!Cardinality(F!OpenEnds(s1))
  <2>1. F!OpenEnds(s1) = F!OpenEnds(s)
    BY <1>4 DEF F!OpenEnds
  <2> QED BY <2>1, <1>1, <1>4 DEF F!Referenced
<1> HIDE DEF n
<1>13. ASSUME NEW d \in Fd
       PROVE  /\ s1.slot[f][d].status \in {"NONE", s.slot[f][d].status}
              /\ s1.slot[f][d].status # "NONE" => s1.slot[f][d].end = s.slot[f][d].end
  <2>1. CASE d \in freed
    BY <1>4, <1>5, <2>1
  <2>2. CASE d \in ds \ freed
    BY <1>4, <2>2
  <2>3. CASE d \notin ds
    BY <1>4, <2>3
  <2> QED BY <2>1, <2>2, <2>3
<1>14. F!OwnTables(p, s1, o)
  <2>1. ASSUME NEW g \in Fs, NEW d \in Fd, s1.slot[g][d].status # "NONE"
        PROVE  \E t \in Proc : p[t] = g
    <3>1. s.slot[g][d].status # "NONE"
      BY <1>4, <1>13, <2>1
    <3> QED BY <1>1, <3>1 DEF F!OwnTables
  <2> QED BY <1>8, <2>1 DEF F!OwnTables
<1>15. F!Good(p, F!VfsClose(s1, n), o, {}) /\ F!VfsClose(s1, n).slot = s1.slot
  <2>1. \A e \in F!End : s1.pipe.open[e] = F!Cardinality(F!Users(s1, e)) + n[e]
    BY <1>10
  <2> QED BY <1>1, <1>4, <1>7, <1>9, <1>11, <1>12, <1>14, <2>1, VfsCloseKeeps
<1> QED BY <1>0, <1>4, <1>13, <1>15 DEF NoneOpened

(* Slots that are marked closed still count the table, until it releases   *)
(* them.                                                                   *)
LEMMA ShutKeeps ==
    ASSUME NEW p, NEW s, NEW o, NEW f \in Fs, NEW ds \in SUBSET Fd, F!Good(p, s, o, {}),
           \A d \in ds : s.slot[f][d].status = "OPENED", NEW r, r = F!Shut(s, f, ds)
    PROVE  /\ F!Good(p, r, o, F!Slots(f, ds))
           /\ \A d \in ds : r.slot[f][d].status = "CLOSED"
           /\ \A d \in Fd \ ds : r.slot[f][d] = s.slot[f][d]
           /\ \A g \in Fs \ {f} : r.slot[g] = s.slot[g]
<1> DEFINE file(d) == IF d \in ds THEN [s.slot[f][d] EXCEPT !.status = "CLOSED"] ELSE s.slot[f][d]
           new == [d \in Fd |-> file(d)]
<1>0. r = [s EXCEPT !.slot[f] = new]
  BY DEF F!Shut
<1>1. /\ p \in [Proc -> Fs \cup {NoFs}] /\ s \in F!Parts /\ o \in [Proc -> F!Ops]
      /\ F!Counted(p, s, o, {}) /\ F!Referenced(s) /\ F!OwnTables(p, s, o) /\ F!Blocked(s, o)
  BY DEF F!Good
<1>2. \A d \in Fd : s.slot[f][d] \in [status : {"NONE", "OPENED", "CLOSED"}, end : F!End, count : Nat]
  BY <1>1, SlotFields
<1>3. \A d \in Fd : /\ file(d) \in [status : {"NONE", "OPENED", "CLOSED"}, end : F!End, count : Nat]
                    /\ file(d).end = s.slot[f][d].end /\ file(d).count = s.slot[f][d].count
                    /\ d \in ds => file(d).status = "CLOSED"
                    /\ d \notin ds => file(d) = s.slot[f][d]
  BY <1>2
<1>4. new \in [Fd -> [status : {"NONE", "OPENED", "CLOSED"}, end : F!End, count : Nat]]
  BY <1>3
<1>5. \A d \in Fd : new[d] = file(d)
  OBVIOUS
<1> HIDE DEF file, new
<1>6. /\ r \in F!Parts /\ r.pipe = s.pipe /\ r.wait = s.wait
      /\ r.slot[f] = new /\ \A g \in Fs \ {f} : r.slot[g] = s.slot[g]
  BY <1>0, <1>1, <1>4, TableSet
<1>7. \A g \in Fs, d \in Fd : /\ r.slot[g][d].end = s.slot[g][d].end
                              /\ r.slot[g][d].count = s.slot[g][d].count
                              /\ r.slot[g][d].status = IF g = f /\ d \in ds THEN "CLOSED"
                                                       ELSE s.slot[g][d].status
  BY <1>3, <1>5, <1>6
<1>8. F!Counted(p, r, o, F!Slots(f, ds))
  <2> SUFFICES ASSUME NEW g \in Fs, NEW d \in Fd
               PROVE  /\ r.slot[g][d].count = F!Cardinality(F!In(p, o, g, d))
                                  + (IF r.slot[g][d].status = "OPENED" THEN 1 ELSE 0)
                                  + (IF <<g, d>> \in F!Slots(f, ds) THEN 1 ELSE 0)
                      /\ r.slot[g][d].status = "NONE" <=> r.slot[g][d].count = 0
    BY DEF F!Counted
  <2>1. /\ s.slot[g][d].count = F!Cardinality(F!In(p, o, g, d))
                                  + (IF s.slot[g][d].status = "OPENED" THEN 1 ELSE 0) + 0
        /\ s.slot[g][d].status = "NONE" <=> s.slot[g][d].count = 0
        /\ F!Cardinality(F!In(p, o, g, d)) \in Nat
    BY <1>1, FilesFinite DEF F!Counted
  <2>2. <<g, d>> \in F!Slots(f, ds) <=> g = f /\ d \in ds
    BY DEF F!Slots
  <2>3. CASE g = f /\ d \in ds
    <3>1. s.slot[g][d].status = "OPENED"
      BY <2>3
    <3>2. r.slot[g][d].status = "CLOSED" /\ r.slot[g][d].count = s.slot[g][d].count
      BY <1>7, <2>3
    <3> QED BY <2>1, <2>2, <2>3, <3>1, <3>2
  <2>4. CASE ~(g = f /\ d \in ds)
    <3>1. r.slot[g][d].status = s.slot[g][d].status /\ r.slot[g][d].count = s.slot[g][d].count
      BY <1>7, <2>4
    <3> QED BY <2>1, <2>2, <2>4, <3>1
  <2> QED BY <2>3, <2>4
<1>9. F!Referenced(r)
  <2>1. \A e : F!Users(r, e) = F!Users(s, e)
    BY <1>7 DEF F!Users
  <2>2. F!OpenEnds(r) = F!OpenEnds(s)
    BY <1>6 DEF F!OpenEnds
  <2> QED BY <1>1, <1>6, <2>1, <2>2 DEF F!Referenced
<1>10. F!OwnTables(p, r, o)
  <2>1. \A g \in Fs, d \in Fd : s.slot[g][d].status = "NONE" => r.slot[g][d].status = "NONE"
    BY <1>7
  <2> QED BY <1>1, <1>7, <2>1 DEF F!OwnTables
<1>11. F!Blocked(r, o)
  BY <1>1, <1>6 DEF F!Blocked
<1>12. F!Good(p, r, o, F!Slots(f, ds))
  BY <1>1, <1>6, <1>8, <1>9, <1>10, <1>11 DEF F!Good
<1>13. /\ \A d \in ds : r.slot[f][d].status = "CLOSED"
       /\ \A d \in Fd \ ds : r.slot[f][d] = s.slot[f][d]
  BY <1>3, <1>5, <1>6
<1> QED BY <1>6, <1>12, <1>13

(* The slots ds of table f are not open any more.                          *)
ClosesSlots(s, r, f, ds) ==
    /\ \A d \in ds : r.slot[f][d].status # "OPENED"
    /\ \A d \in Fd \ ds : r.slot[f][d].status \in {"NONE", s.slot[f][d].status}
    /\ \A g \in Fs \ {f} : r.slot[g] = s.slot[g]

(* filemap_close of open descriptors: none of them is open afterwards.     *)
LEMMA CloseKeeps ==
    ASSUME NEW p, NEW s, NEW o, NEW f \in Fs, NEW ds \in SUBSET Fd, F!Good(p, s, o, {}),
           \A d \in ds : s.slot[f][d].status = "OPENED", NEW r, r = F!FilemapClose(s, f, ds)
    PROVE  F!Good(p, r, o, {}) /\ ClosesSlots(s, r, f, ds)
<1> DEFINE s1 == F!Shut(s, f, ds)
<1>1. s1 = F!Shut(s, f, ds) /\ r = F!FilemapRelease(s1, f, ds)
  BY DEF F!FilemapClose
<1> HIDE DEF s1
<1>2. /\ F!Good(p, s1, o, F!Slots(f, ds))
      /\ \A d \in ds : s1.slot[f][d].status = "CLOSED"
      /\ \A d \in Fd \ ds : s1.slot[f][d] = s.slot[f][d]
      /\ \A g \in Fs \ {f} : s1.slot[g] = s.slot[g]
  BY <1>1, ShutKeeps
<1>3. F!Good(p, r, o, {}) /\ NoneOpened(s1, r, f)
  <2>1. F!Good(p, s1, o, F!Slots(f, ds)) /\ r = F!FilemapRelease(s1, f, ds)
    BY <1>1, <1>2
  <2> QED BY <2>1, ReleaseKeeps
<1>4. ds \subseteq Fd
  OBVIOUS
<1> QED BY <1>2, <1>3, <1>4 DEF NoneOpened, ClosesSlots

(* Only the count of slot d changes.                                       *)
OnlyCounted(s, r, f, d) == r.slot[f][d].end = s.slot[f][d].end /\ r.pipe = s.pipe

(* One more count of a slot that has one.                                  *)
LEMMA AcquireKeeps ==
    ASSUME NEW p, NEW s, NEW o, NEW f \in Fs, NEW d \in Fd, F!Good(p, s, o, {}),
           s.slot[f][d].status = "OPENED", NEW r, r = F!FilemapAcquire(s, f, d)
    PROVE  F!Good(p, r, o, F!Slots(f, {d})) /\ OnlyCounted(s, r, f, d)
<1> DEFINE file == [s.slot[f][d] EXCEPT !.count = s.slot[f][d].count + 1]
           new == [s.slot[f] EXCEPT ![d] = file]
<1>1. /\ p \in [Proc -> Fs \cup {NoFs}] /\ s \in F!Parts /\ o \in [Proc -> F!Ops]
      /\ F!Counted(p, s, o, {}) /\ F!Referenced(s) /\ F!OwnTables(p, s, o) /\ F!Blocked(s, o)
  BY DEF F!Good
<1>2. /\ s.slot[f] \in [Fd -> [status : {"NONE", "OPENED", "CLOSED"}, end : F!End, count : Nat]]
      /\ s.slot[f][d] \in [status : {"NONE", "OPENED", "CLOSED"}, end : F!End, count : Nat]
  BY <1>1, SlotFields
<1>3. /\ file \in [status : {"NONE", "OPENED", "CLOSED"}, end : F!End, count : Nat]
      /\ file.end = s.slot[f][d].end /\ file.count = s.slot[f][d].count + 1
      /\ file.status = s.slot[f][d].status
  BY <1>2
<1>4. r = [s EXCEPT !.slot[f] = new]
  BY <1>1, <1>2, SlotFields DEF F!FilemapAcquire
<1> HIDE DEF file
<1>5. /\ new \in [Fd -> [status : {"NONE", "OPENED", "CLOSED"}, end : F!End, count : Nat]]
      /\ new[d] = file /\ \A c \in Fd \ {d} : new[c] = s.slot[f][c]
  BY <1>2, <1>3
<1> HIDE DEF new
<1>6. /\ r \in F!Parts /\ r.pipe = s.pipe /\ r.wait = s.wait
      /\ r.slot[f] = new /\ \A g \in Fs \ {f} : r.slot[g] = s.slot[g]
  BY <1>1, <1>4, <1>5, TableSet
<1>7. \A g \in Fs, c \in Fd :
        /\ r.slot[g][c].end = s.slot[g][c].end
        /\ r.slot[g][c].status = s.slot[g][c].status
        /\ r.slot[g][c].count = s.slot[g][c].count + IF g = f /\ c = d THEN 1 ELSE 0
  <2> TAKE g \in Fs, c \in Fd
  <2>1. s.slot[g][c].count \in Nat
    BY <1>1, SlotFields
  <2>2. CASE g = f /\ c = d
    BY <1>3, <1>5, <1>6, <2>1, <2>2
  <2>3. CASE ~(g = f /\ c = d)
    <3>1. r.slot[g][c] = s.slot[g][c]
      BY <1>5, <1>6, <2>3
    <3> QED BY <2>1, <2>3, <3>1
  <2> QED BY <2>2, <2>3
<1>8. \A g \in Fs, c \in Fd :
        /\ s.slot[g][c].count = F!Cardinality(F!In(p, o, g, c))
                                  + (IF s.slot[g][c].status = "OPENED" THEN 1 ELSE 0) + 0
        /\ s.slot[g][c].status = "NONE" <=> s.slot[g][c].count = 0
        /\ F!Cardinality(F!In(p, o, g, c)) \in Nat
  BY <1>1, FilesFinite DEF F!Counted
<1>9. F!Counted(p, r, o, F!Slots(f, {d}))
  <2> SUFFICES ASSUME NEW g \in Fs, NEW c \in Fd
               PROVE  /\ r.slot[g][c].count = F!Cardinality(F!In(p, o, g, c))
                                  + (IF r.slot[g][c].status = "OPENED" THEN 1 ELSE 0)
                                  + (IF <<g, c>> \in F!Slots(f, {d}) THEN 1 ELSE 0)
                      /\ r.slot[g][c].status = "NONE" <=> r.slot[g][c].count = 0
    BY DEF F!Counted
  <2>1. <<g, c>> \in F!Slots(f, {d}) <=> g = f /\ c = d
    BY DEF F!Slots
  <2>2. CASE g = f /\ c = d
    <3>1. /\ s.slot[g][c].status = "OPENED" /\ r.slot[g][c].status = "OPENED"
          /\ r.slot[g][c].count = s.slot[g][c].count + 1
      BY <1>7, <2>2
    <3> QED BY <1>8, <2>1, <2>2, <3>1
  <2>3. CASE ~(g = f /\ c = d)
    <3>1. r.slot[g][c].status = s.slot[g][c].status /\ r.slot[g][c].count = s.slot[g][c].count + 0
      BY <1>7, <2>3
    <3> QED BY <1>8, <2>1, <2>3, <3>1
  <2> QED BY <2>2, <2>3
<1>10. F!Referenced(r)
  <2>1. \A g \in Fs, c \in Fd : r.slot[g][c].count > 0 <=> s.slot[g][c].count > 0
    <3> TAKE g \in Fs, c \in Fd
    <3>1. CASE g = f /\ c = d
      <4>1. s.slot[g][c].count > 0 /\ s.slot[g][c].count \in Nat
        BY <1>8, <3>1
      <4> QED BY <4>1, <1>7, <3>1
    <3>2. CASE ~(g = f /\ c = d)
      <4>1. r.slot[g][c].count = s.slot[g][c].count + 0 /\ s.slot[g][c].count \in Nat
        BY <1>7, <1>8, <3>2
      <4> QED BY <4>1
    <3> QED BY <3>1, <3>2
  <2>2. \A e : F!Users(r, e) = F!Users(s, e)
    BY <1>7, <2>1 DEF F!Users
  <2>3. F!OpenEnds(r) = F!OpenEnds(s)
    BY <1>6 DEF F!OpenEnds
  <2> QED BY <1>1, <1>6, <2>2, <2>3 DEF F!Referenced
<1>11. F!OwnTables(p, r, o)
  BY <1>1, <1>7 DEF F!OwnTables
<1>12. F!Blocked(r, o)
  BY <1>1, <1>6 DEF F!Blocked
<1>13. F!Good(p, r, o, F!Slots(f, {d}))
  BY <1>1, <1>6, <1>9, <1>10, <1>11, <1>12 DEF F!Good
<1> QED BY <1>6, <1>7, <1>13 DEF OnlyCounted

(* pipe_state_wait, in the fields it changes.                              *)
FallsAsleep(s, r, t, e) ==
    /\ r \in F!Parts /\ r.slot = s.slot
    /\ r.pipe.open = s.pipe.open /\ r.pipe.ref_count = s.pipe.ref_count
    /\ r.pipe.size = s.pipe.size /\ r.pipe.isclosed = s.pipe.isclosed
    /\ r.pipe.reader_queue = IF e = "r" THEN s.pipe.reader_queue \cup {t}
                             ELSE s.pipe.reader_queue
    /\ r.pipe.writer_queue = IF e = "r" THEN s.pipe.writer_queue
                             ELSE s.pipe.writer_queue \cup {t}
    /\ r.wait[t] = "asleep" /\ \A u \in Proc \ {t} : r.wait[u] = s.wait[u]

(* This is what SleepIn does.                                              *)
LEMMA SleepFields ==
    ASSUME NEW s \in F!Parts, NEW t \in Proc, NEW e \in F!End, NEW r, r = F!SleepIn(s, t, e)
    PROVE  FallsAsleep(s, r, t, e)
<1>1. CASE e = "r"
  BY <1>1 DEF F!SleepIn, F!Parts, F!Pipes, FallsAsleep
<1>2. CASE e # "r"
  BY <1>2 DEF F!SleepIn, F!Parts, F!Pipes, FallsAsleep
<1> QED BY <1>1, <1>2

(* The system calls in progress, and the threads inside each slot, when t  *)
(* begins to wait in d.                                                    *)
OneMoreInside(p, o, o1, t, d) ==
    /\ o1 \in [Proc -> F!Ops] /\ \A u \in Proc \ {t} : o1[u] = o[u]
    /\ \A g \in Fs, c \in Fd : F!Cardinality(F!In(p, o1, g, c))
         = F!Cardinality(F!In(p, o, g, c)) + IF g = p[t] /\ c = d THEN 1 ELSE 0

(* They are counted.                                                       *)
LEMMA InsideMore ==
    ASSUME NEW p, NEW o \in [Proc -> F!Ops], NEW t \in Proc, o[t] = F!Idle, p[t] \in Fs,
           NEW d \in Fd, NEW w \in F!Ops, w # F!Idle, w.fd = d,
           NEW o1, o1 = [o EXCEPT ![t] = w]
    PROVE  o1[t] = w /\ OneMoreInside(p, o, o1, t, d)
<1>1. /\ o1 \in [Proc -> F!Ops] /\ o1[t] = w
      /\ \A u \in Proc \ {t} : o1[u] = o[u]
  OBVIOUS
<1>2. ASSUME NEW g \in Fs, NEW c \in Fd
      PROVE  F!Cardinality(F!In(p, o1, g, c))
                = F!Cardinality(F!In(p, o, g, c)) + IF g = p[t] /\ c = d THEN 1 ELSE 0
  <2>1. F!IsFiniteSet(F!In(p, o, g, c)) /\ F!Cardinality(F!In(p, o, g, c)) \in Nat
    BY FilesFinite
  <2>2. CASE g = p[t] /\ c = d
    <3>1. F!In(p, o1, g, c) = F!In(p, o, g, c) \cup {t} /\ t \notin F!In(p, o, g, c)
      BY <1>1, <2>2 DEF F!In
    <3>2. F!Cardinality(F!In(p, o, g, c) \cup {t}) = F!Cardinality(F!In(p, o, g, c)) + 1
      BY <2>1, <3>1, F!FS_AddElement
    <3> QED BY <2>2, <3>1, <3>2
  <2>3. CASE ~(g = p[t] /\ c = d)
    <3>1. F!In(p, o1, g, c) = F!In(p, o, g, c)
      BY <1>1, <2>3 DEF F!In
    <3> QED BY <2>1, <2>3, <3>1
  <2> QED BY <2>2, <2>3
<1> QED BY <1>1, <1>2 DEF OneMoreInside

(* A thread that took a count of a slot and finds the pipe empty, or full, *)
(* goes to sleep: from here on it is the system call that has the count.   *)
LEMMA SleepKeeps ==
    ASSUME NEW p, NEW s, NEW o, NEW t \in Proc, NEW d \in Fd, NEW e \in F!End,
           p[t] \in Fs,
           F!Good(p, s, o, F!Slots(p[t], {d})), o[t] = F!Idle,
           s.slot[p[t]][d].end = e, ~s.pipe.isclosed,
           e = "r" => s.pipe.size = 0, e # "r" => s.pipe.size = BufSize,
           NEW r, r = F!SleepIn(s, t, e),
           NEW w \in F!Ops, w.call = e, w.fd = d, w.left > 0,
           NEW o1, o1 = [o EXCEPT ![t] = w]
    PROVE  F!Good(p, r, o1, {})
<1>1. /\ p \in [Proc -> Fs \cup {NoFs}] /\ s \in F!Parts /\ o \in [Proc -> F!Ops]
      /\ F!Counted(p, s, o, F!Slots(p[t], {d})) /\ F!Referenced(s)
      /\ F!OwnTables(p, s, o) /\ F!Blocked(s, o)
  BY DEF F!Good
<1>2. /\ r \in F!Parts /\ r.slot = s.slot
      /\ r.pipe.open = s.pipe.open /\ r.pipe.ref_count = s.pipe.ref_count
      /\ r.pipe.size = s.pipe.size /\ r.pipe.isclosed = s.pipe.isclosed
      /\ r.pipe.reader_queue = IF e = "r" THEN s.pipe.reader_queue \cup {t}
                               ELSE s.pipe.reader_queue
      /\ r.pipe.writer_queue = IF e = "r" THEN s.pipe.writer_queue
                               ELSE s.pipe.writer_queue \cup {t}
      /\ r.wait[t] = "asleep" /\ \A u \in Proc \ {t} : r.wait[u] = s.wait[u]
  <2>1. s \in F!Parts
    BY <1>1
  <2>2. FallsAsleep(s, r, t, e)
    BY <2>1, SleepFields
  <2> QED BY <2>2 DEF FallsAsleep
<1>3. w \in F!Ops /\ w # F!Idle /\ w.fd = d /\ w.call = e /\ w.left > 0
  BY FilesFinite DEF F!Idle
<1>5. /\ o1 \in [Proc -> F!Ops] /\ o1[t] = w
      /\ \A u \in Proc \ {t} : o1[u] = o[u]
      /\ \A g \in Fs, c \in Fd : F!Cardinality(F!In(p, o1, g, c))
           = F!Cardinality(F!In(p, o, g, c)) + IF g = p[t] /\ c = d THEN 1 ELSE 0
  <2>1. o \in [Proc -> F!Ops]
    BY <1>1
  <2>2. w \in F!Ops /\ w # F!Idle /\ w.fd = d
    BY <1>3
  <2>3. o[t] = F!Idle /\ p[t] \in Fs
    OBVIOUS
  <2>4. o1[t] = w /\ OneMoreInside(p, o, o1, t, d)
    BY <2>1, <2>2, <2>3, InsideMore
  <2> QED BY <2>4 DEF OneMoreInside
<1>6. F!Counted(p, r, o1, {})
  <2> SUFFICES ASSUME NEW g \in Fs, NEW c \in Fd
               PROVE  /\ r.slot[g][c].count = F!Cardinality(F!In(p, o1, g, c))
                                  + (IF r.slot[g][c].status = "OPENED" THEN 1 ELSE 0) + 0
                      /\ r.slot[g][c].status = "NONE" <=> r.slot[g][c].count = 0
    BY DEF F!Counted
  <2>1. /\ s.slot[g][c].count = F!Cardinality(F!In(p, o, g, c))
                                  + (IF s.slot[g][c].status = "OPENED" THEN 1 ELSE 0)
                                  + (IF <<g, c>> \in F!Slots(p[t], {d}) THEN 1 ELSE 0)
        /\ s.slot[g][c].status = "NONE" <=> s.slot[g][c].count = 0
    BY <1>1 DEF F!Counted
  <2>2. <<g, c>> \in F!Slots(p[t], {d}) <=> g = p[t] /\ c = d
    BY DEF F!Slots
  <2>3. F!Cardinality(F!In(p, o, g, c)) \in Nat
    BY FilesFinite
  <2>4. F!Cardinality(F!In(p, o1, g, c))
           = F!Cardinality(F!In(p, o, g, c)) + IF g = p[t] /\ c = d THEN 1 ELSE 0
    BY <1>5
  <2>5. r.slot[g][c] = s.slot[g][c]
    BY <1>2
  <2> QED BY <2>1, <2>2, <2>3, <2>4, <2>5
<1>7. F!Referenced(r)
  <2>1. \A y : F!Users(r, y) = F!Users(s, y)
    BY <1>2 DEF F!Users
  <2>2. F!OpenEnds(r) = F!OpenEnds(s)
    BY <1>2 DEF F!OpenEnds
  <2> QED BY <1>1, <1>2, <2>1, <2>2 DEF F!Referenced
<1>8. F!OwnTables(p, r, o1)
  <2>1. ASSUME NEW u \in Proc, o1[u] # F!Idle
        PROVE  /\ p[u] \in Fs /\ o1[u].fd \in Fd /\ o1[u].call \in F!End /\ o1[u].left > 0
               /\ r.slot[p[u]][o1[u].fd].end = o1[u].call
    <3>1. CASE u = t
      BY <1>2, <1>3, <1>5, <3>1
    <3>2. CASE u # t
      BY <1>1, <1>2, <1>5, <2>1, <3>2 DEF F!OwnTables
    <3> QED BY <3>1, <3>2
  <2>2. \A g \in Fs, c \in Fd : r.slot[g][c].status # "NONE" => \E u \in Proc : p[u] = g
    BY <1>1, <1>2 DEF F!OwnTables
  <2> QED BY <2>1, <2>2 DEF F!OwnTables
<1>9. F!Blocked(r, o1)
  <2> SUFFICES ASSUME NEW u \in Proc
               PROVE  /\ r.wait[u] = "no" <=> o1[u] = F!Idle
                      /\ u \in r.pipe.reader_queue => o1[u].call = "r"
                      /\ u \in r.pipe.writer_queue => o1[u].call = "w"
                      /\ r.wait[u] = "asleep" =>
                           /\ ~r.pipe.isclosed
                           /\ o1[u].call = "r" => r.pipe.size = 0 /\ u \in r.pipe.reader_queue
                           /\ o1[u].call # "r" => r.pipe.size = BufSize /\ u \in r.pipe.writer_queue
    BY DEF F!Blocked
  <2>1. /\ s.wait[u] = "no" <=> o[u] = F!Idle
        /\ u \in s.pipe.reader_queue => o[u].call = "r"
        /\ u \in s.pipe.writer_queue => o[u].call = "w"
        /\ s.wait[u] = "asleep" =>
             /\ ~s.pipe.isclosed
             /\ o[u].call = "r" => s.pipe.size = 0 /\ u \in s.pipe.reader_queue
             /\ o[u].call # "r" => s.pipe.size = BufSize /\ u \in s.pipe.writer_queue
    BY <1>1 DEF F!Blocked
  <2>2. F!Idle.call = "none" /\ F!End = {"r", "w"}
    BY DEF F!Idle, F!End
  <2>3. CASE u = t
    <3>1. u \notin s.pipe.reader_queue /\ u \notin s.pipe.writer_queue
      BY <2>1, <2>2, <2>3
    <3>2. CASE e = "r"
      BY <1>2, <1>3, <1>5, <2>3, <3>1, <3>2
    <3>3. CASE e = "w"
      BY <1>2, <1>3, <1>5, <2>3, <3>1, <3>3
    <3> QED BY <2>2, <3>2, <3>3
  <2>4. CASE u # t
    <3>1. /\ u \in r.pipe.reader_queue <=> u \in s.pipe.reader_queue
          /\ u \in r.pipe.writer_queue <=> u \in s.pipe.writer_queue
      BY <1>2, <2>4
    <3>2. r.wait[u] = s.wait[u] /\ o1[u] = o[u]
      BY <1>2, <1>5, <2>4
    <3> QED BY <1>2, <2>1, <3>1, <3>2
  <2> QED BY <2>3, <2>4
<1> QED BY <1>1, <1>2, <1>5, <1>6, <1>7, <1>8, <1>9 DEF F!Good

(* wait_current_del, in the fields it changes.                             *)
LeavesQueue(s, r, t) ==
    /\ r \in F!Parts /\ r.slot = s.slot
    /\ r.pipe.open = s.pipe.open /\ r.pipe.ref_count = s.pipe.ref_count
    /\ r.pipe.size = s.pipe.size /\ r.pipe.isclosed = s.pipe.isclosed
    /\ r.pipe.reader_queue = s.pipe.reader_queue \ {t}
    /\ r.pipe.writer_queue = s.pipe.writer_queue \ {t}
    /\ r.wait[t] = "no" /\ \A u \in Proc \ {t} : r.wait[u] = s.wait[u]

(* This is what WaitDel does for a thread that is in one queue at most.    *)
LEMMA WaitDelFields ==
    ASSUME NEW s \in F!Parts, NEW t \in Proc, NEW e \in F!End, NEW r, r = F!WaitDel(s, t, e),
           e = "r" => t \notin s.pipe.writer_queue, e # "r" => t \notin s.pipe.reader_queue
    PROVE  LeavesQueue(s, r, t)
<1>1. CASE e = "r"
  BY <1>1 DEF F!WaitDel, F!Parts, F!Pipes, LeavesQueue
<1>2. CASE e # "r"
  BY <1>2 DEF F!WaitDel, F!Parts, F!Pipes, LeavesQueue
<1> QED BY <1>1, <1>2

(* A thread that runs again after pipe_state_wait has left the queue; its  *)
(* count of the slot is still there.                                       *)
LEMMA ResumeKeeps ==
    ASSUME NEW p, NEW s, NEW o, NEW t \in Proc, F!Good(p, s, o, {}), o[t] # F!Idle,
           NEW r, LeavesQueue(s, r, t), NEW o1, o1 = [o EXCEPT ![t] = F!Idle]
    PROVE  F!Good(p, r, o1, F!Slots(p[t], {o[t].fd}))
<1>0. /\ r \in F!Parts /\ r.slot = s.slot
      /\ r.pipe.open = s.pipe.open /\ r.pipe.ref_count = s.pipe.ref_count
      /\ r.pipe.size = s.pipe.size /\ r.pipe.isclosed = s.pipe.isclosed
      /\ r.pipe.reader_queue = s.pipe.reader_queue \ {t}
      /\ r.pipe.writer_queue = s.pipe.writer_queue \ {t}
      /\ r.wait[t] = "no" /\ \A u \in Proc \ {t} : r.wait[u] = s.wait[u]
  BY DEF LeavesQueue
<1>1. /\ p \in [Proc -> Fs \cup {NoFs}] /\ s \in F!Parts /\ o \in [Proc -> F!Ops]
      /\ F!Counted(p, s, o, {}) /\ F!Referenced(s)
      /\ F!OwnTables(p, s, o) /\ F!Blocked(s, o)
  BY DEF F!Good
<1>4. F!Idle \in F!Ops /\ F!Idle.call = "none"
  BY FilesFacts DEF F!Idle, F!Ops
<1>5. o1 \in [Proc -> F!Ops] /\ o1[t] = F!Idle /\ \A u \in Proc \ {t} : o1[u] = o[u]
  BY <1>1, <1>4
<1>6. p[t] \in Fs /\ o[t].fd \in Fd
  BY <1>1 DEF F!OwnTables
<1>7. F!Counted(p, r, o1, F!Slots(p[t], {o[t].fd}))
  <2> SUFFICES ASSUME NEW g \in Fs, NEW c \in Fd
               PROVE  /\ r.slot[g][c].count = F!Cardinality(F!In(p, o1, g, c))
                                  + (IF r.slot[g][c].status = "OPENED" THEN 1 ELSE 0)
                                  + (IF <<g, c>> \in F!Slots(p[t], {o[t].fd}) THEN 1 ELSE 0)
                      /\ r.slot[g][c].status = "NONE" <=> r.slot[g][c].count = 0
    BY DEF F!Counted
  <2>1. /\ s.slot[g][c].count = F!Cardinality(F!In(p, o, g, c))
                                  + (IF s.slot[g][c].status = "OPENED" THEN 1 ELSE 0) + 0
        /\ s.slot[g][c].status = "NONE" <=> s.slot[g][c].count = 0
    BY <1>1 DEF F!Counted
  <2>2. <<g, c>> \in F!Slots(p[t], {o[t].fd}) <=> g = p[t] /\ c = o[t].fd
    BY DEF F!Slots
  <2>3. /\ F!IsFiniteSet(F!In(p, o, g, c)) /\ F!Cardinality(F!In(p, o, g, c)) \in Nat
        /\ F!Cardinality(F!In(p, o1, g, c)) \in Nat
    BY FilesFinite
  <2>4. r.slot[g][c] = s.slot[g][c]
    BY <1>0
  <2>5. CASE g = p[t] /\ c = o[t].fd
    <3>1. F!In(p, o1, g, c) = F!In(p, o, g, c) \ {t} /\ t \in F!In(p, o, g, c)
      BY <1>5, <2>5 DEF F!In
    <3>2. F!Cardinality(F!In(p, o, g, c) \ {t}) = F!Cardinality(F!In(p, o, g, c)) - 1
      BY <2>3, <3>1, F!FS_RemoveElement
    <3>3. F!Cardinality(F!In(p, o1, g, c)) = F!Cardinality(F!In(p, o, g, c)) - 1
      BY <3>1, <3>2
    <3> QED BY <2>1, <2>2, <2>3, <2>4, <2>5, <3>3
  <2>6. CASE ~(g = p[t] /\ c = o[t].fd)
    <3>1. F!In(p, o1, g, c) = F!In(p, o, g, c)
      BY <1>5, <2>6 DEF F!In
    <3> QED BY <2>1, <2>2, <2>3, <2>4, <2>6, <3>1
  <2> QED BY <2>5, <2>6
<1>8. F!Referenced(r)
  <2>1. \A y : F!Users(r, y) = F!Users(s, y)
    BY <1>0 DEF F!Users
  <2>2. F!OpenEnds(r) = F!OpenEnds(s)
    BY <1>0 DEF F!OpenEnds
  <2> QED BY <1>0, <1>1, <2>1, <2>2 DEF F!Referenced
<1>9. F!OwnTables(p, r, o1)
  <2>1. ASSUME NEW u \in Proc, o1[u] # F!Idle
        PROVE  /\ p[u] \in Fs /\ o1[u].fd \in Fd /\ o1[u].call \in F!End /\ o1[u].left > 0
               /\ r.slot[p[u]][o1[u].fd].end = o1[u].call
    <3>1. u # t /\ o1[u] = o[u]
      BY <1>5, <2>1
    <3> QED BY <1>0, <1>1, <2>1, <3>1 DEF F!OwnTables
  <2>2. \A g \in Fs, c \in Fd : r.slot[g][c].status # "NONE" => \E u \in Proc : p[u] = g
    BY <1>0, <1>1 DEF F!OwnTables
  <2> QED BY <2>1, <2>2 DEF F!OwnTables
<1>10. F!Blocked(r, o1)
  <2> SUFFICES ASSUME NEW u \in Proc
               PROVE  /\ r.wait[u] = "no" <=> o1[u] = F!Idle
                      /\ u \in r.pipe.reader_queue => o1[u].call = "r"
                      /\ u \in r.pipe.writer_queue => o1[u].call = "w"
                      /\ r.wait[u] = "asleep" =>
                           /\ ~r.pipe.isclosed
                           /\ o1[u].call = "r" => r.pipe.size = 0 /\ u \in r.pipe.reader_queue
                           /\ o1[u].call # "r" => r.pipe.size = BufSize /\ u \in r.pipe.writer_queue
    BY DEF F!Blocked
  <2>1. /\ s.wait[u] = "no" <=> o[u] = F!Idle
        /\ u \in s.pipe.reader_queue => o[u].call = "r"
        /\ u \in s.pipe.writer_queue => o[u].call = "w"
        /\ s.wait[u] = "asleep" =>
             /\ ~s.pipe.isclosed
             /\ o[u].call = "r" => s.pipe.size = 0 /\ u \in s.pipe.reader_queue
             /\ o[u].call # "r" => s.pipe.size = BufSize /\ u \in s.pipe.writer_queue
    BY <1>1 DEF F!Blocked
  <2>2. CASE u = t
    BY <1>0, <1>5, <2>2
  <2>3. CASE u # t
    <3>1. /\ u \in r.pipe.reader_queue <=> u \in s.pipe.reader_queue
          /\ u \in r.pipe.writer_queue <=> u \in s.pipe.writer_queue
      BY <1>0, <2>3
    <3>2. r.wait[u] = s.wait[u] /\ o1[u] = o[u]
      BY <1>0, <1>5, <2>3
    <3> QED BY <1>0, <2>1, <3>1, <3>2
  <2> QED BY <2>2, <2>3
<1> QED BY <1>0, <1>1, <1>5, <1>7, <1>8, <1>9, <1>10 DEF F!Good

(* The state after a step, from the part the operators have computed.      *)
LEMMA GoodAgain ==
    ASSUME NEW s, NEW o, F!Good(fs', s, o, {}), F!Become(s), op' = o
    PROVE  F!Good(fs, F!Here, op, {})'
<1>1. s = [slot |-> s.slot, pipe |-> s.pipe, wait |-> s.wait]
  BY PartFields DEF F!Good
<1>2. F!Here' = s
  BY <1>1 DEF F!Here, F!Become
<1> QED BY <1>2

(* Leave: the call of t is over.                                           *)
LEMMA LeaveKeeps ==
    ASSUME NEW s, NEW t \in Proc, NEW o, o = [op EXCEPT ![t] = F!Idle],
           o[t] = F!Idle, F!Good(fs, s, o, {}), F!Leave(t, s), UNCHANGED fs
    PROVE  F!Good(fs, F!Here, op, {})'
<1>1. F!Become(s) /\ op' = o
  BY DEF F!Leave
<1>2. F!Good(fs', s, o, {})
  OBVIOUS
<1> QED BY <1>1, <1>2, GoodAgain

(* WaitFor: the call of t goes to sleep with its count of the slot.        *)
LEMMA WaitForKeeps ==
    ASSUME NEW s, NEW t \in Proc, NEW o, o = [op EXCEPT ![t] = F!Idle], op \in [Proc -> F!Ops],
           NEW d \in Fd, NEW e \in F!End, NEW left \in 1 .. MaxLen, NEW part \in BOOLEAN,
           fs[t] \in Fs, F!Good(fs, s, o, F!Slots(fs[t], {d})),
           s.slot[fs[t]][d].end = e, ~s.pipe.isclosed,
           s.pipe.size = IF e = "r" THEN 0 ELSE BufSize,
           F!WaitFor(t, s, d, e, left, part), UNCHANGED fs
    PROVE  F!Good(fs, F!Here, op, {})'
<1> DEFINE w == [call |-> e, fd |-> d, left |-> left, part |-> part]
           r == F!SleepIn(s, t, e)
           o1 == [o EXCEPT ![t] = w]
<1>1. o[t] = F!Idle /\ [op EXCEPT ![t] = w] = o1
  OBVIOUS
<1>2. F!Become(r) /\ op' = o1
  BY <1>1 DEF F!WaitFor
<1>3. r = F!SleepIn(s, t, e) /\ o1 = [o EXCEPT ![t] = w]
  OBVIOUS
<1> HIDE DEF r, o1
<1>6. w \in F!Ops /\ w.call = e /\ w.fd = d /\ w.left > 0
  BY FilesFinite, FilesFacts DEF F!Ops
<1>7. /\ e = "r" => s.pipe.size = 0
      /\ e # "r" => s.pipe.size = BufSize
  OBVIOUS
<1> HIDE DEF w
<1>4. F!Good(fs, r, o1, {})
  <2>1. fs[t] \in Fs /\ F!Good(fs, s, o, F!Slots(fs[t], {d})) /\ o[t] = F!Idle
    BY <1>1
  <2>2. s.slot[fs[t]][d].end = e /\ ~s.pipe.isclosed
    OBVIOUS
  <2> QED BY ONLY <2>1, <2>2, <1>3, <1>6, <1>7, t \in Proc, d \in Fd, e \in F!End, SleepKeeps, ZenonT(40)
<1>5. F!Good(fs', r, o1, {})
  BY <1>4
<1> QED BY <1>2, <1>5, GoodAgain

(* The lesser of two numbers.                                              *)
LEMMA LesserIs ==
    ASSUME NEW m \in Nat, NEW n \in Nat
    PROVE  /\ F!Lesser(m, n) \in Nat /\ F!Lesser(m, n) <= m /\ F!Lesser(m, n) <= n
           /\ F!Lesser(m, n) \in {m, n}
BY DEF F!Lesser

(* sysfile_read from file_read on.                                         *)
LEMMA ReadStep ==
    ASSUME NEW s, NEW t \in Proc, NEW o, o = [op EXCEPT ![t] = F!Idle], op \in [Proc -> F!Ops],
           NEW d \in Fd, NEW left \in 0 .. MaxLen, fs[t] \in Fs, F!Good(fs, s, o, {}),
           s.slot[fs[t]][d].status # "NONE" => s.slot[fs[t]][d].end = "r",
           F!Read(t, s, d, left), UNCHANGED fs
    PROVE  F!Good(fs, F!Here, op, {})'
<1> DEFINE got == F!Lesser(left, s.pipe.size)
           s1 == F!ReadBytes(s, got)
           s2 == F!FilemapAcquire(s1, fs[t], d)
<1>1. \/ s.slot[fs[t]][d].status # "OPENED" /\ F!Leave(t, s)
      \/ /\ s.slot[fs[t]][d].status = "OPENED" /\ (left = got \/ s.pipe.isclosed) /\ F!Leave(t, s1)
      \/ /\ s.slot[fs[t]][d].status = "OPENED" /\ left # got /\ ~s.pipe.isclosed
         /\ F!WaitFor(t, s2, d, "r", left - got, FALSE)
  BY DEF F!Read
<1>2. o[t] = F!Idle
  OBVIOUS
<1>3. s \in F!Parts /\ s.pipe.size \in Nat /\ left \in Nat /\ MaxLen \in Nat /\ BufSize \in Nat
  BY PartFields, FilesFacts DEF F!Good
<1>4. got \in 0 .. s.pipe.size /\ got \in 0 .. left /\ (left # got => got = s.pipe.size)
  BY <1>3, LesserIs
<1>5. s1 = F!ReadBytes(s, got) /\ s2 = F!FilemapAcquire(s1, fs[t], d)
  OBVIOUS
<1> HIDE DEF got, s1, s2
<1>6. /\ F!Good(fs, s1, o, {}) /\ s1.slot = s.slot
      /\ s1.pipe.size = s.pipe.size - got /\ s1.pipe.isclosed = s.pipe.isclosed
  BY <1>4, <1>5, ReadKeeps
<1>7. CASE F!Leave(t, s)
  BY <1>2, <1>7, LeaveKeeps
<1>8. CASE F!Leave(t, s1)
  BY <1>2, <1>6, <1>8, LeaveKeeps
<1>9. CASE /\ s.slot[fs[t]][d].status = "OPENED" /\ left # got /\ ~s.pipe.isclosed
           /\ F!WaitFor(t, s2, d, "r", left - got, FALSE)
  <2>1. s1.slot[fs[t]][d].status = "OPENED" /\ F!Good(fs, s1, o, {})
    BY <1>6, <1>9
  <2>2. /\ F!Good(fs, s2, o, F!Slots(fs[t], {d}))
        /\ s2.slot[fs[t]][d].end = s1.slot[fs[t]][d].end
        /\ s2.pipe = s1.pipe
    <3>1. F!Good(fs, s2, o, F!Slots(fs[t], {d})) /\ OnlyCounted(s1, s2, fs[t], d)
      BY <1>5, <2>1, AcquireKeeps
    <3> QED BY <3>1 DEF OnlyCounted
  <2>3. s2.slot[fs[t]][d].end = "r"
    BY <1>6, <1>9, <2>2
  <2>4. ~s2.pipe.isclosed /\ s2.pipe.size = 0
    BY <1>3, <1>4, <1>6, <1>9, <2>2
  <2>5. s2.pipe.size = IF "r" = "r" THEN 0 ELSE BufSize
    BY <2>4
  <2>6. left - got \in 1 .. MaxLen /\ "r" \in F!End /\ FALSE \in BOOLEAN
    BY <1>3, <1>4, <1>9 DEF F!End
  <2>7. F!WaitFor(t, s2, d, "r", left - got, FALSE) /\ ~s2.pipe.isclosed
        /\ F!Good(fs, s2, o, F!Slots(fs[t], {d}))
    BY <1>9, <2>2, <2>4
  <2> QED BY ONLY <2>3, <2>5, <2>6, <2>7, t \in Proc, d \in Fd, fs[t] \in Fs, UNCHANGED fs,
                  o = [op EXCEPT ![t] = F!Idle], op \in [Proc -> F!Ops], WaitForKeeps, ZenonT(40)
<1> QED BY <1>1, <1>7, <1>8, <1>9

(* sysfile_write from file_write on.                                       *)
LEMMA WriteStep ==
    ASSUME NEW s, NEW t \in Proc, NEW o, o = [op EXCEPT ![t] = F!Idle], op \in [Proc -> F!Ops],
           NEW d \in Fd, NEW left \in 0 .. MaxLen, fs[t] \in Fs, F!Good(fs, s, o, {}),
           s.slot[fs[t]][d].status # "NONE" => s.slot[fs[t]][d].end = "w",
           F!Write(t, s, d, left), UNCHANGED fs
    PROVE  F!Good(fs, F!Here, op, {})'
<1> DEFINE put == F!Lesser(left, F!Room(s))
           s1 == F!WriteBytes(s, put)
           s2 == F!FilemapAcquire(s1, fs[t], d)
<1>1. \/ F!Leave(t, s)
      \/ F!Leave(t, s1)
      \/ /\ s.slot[fs[t]][d].status = "OPENED" /\ left # put /\ ~s.pipe.isclosed
         /\ F!WaitFor(t, s2, d, "w", left - put, put > 0)
  BY DEF F!Write
<1>2. o[t] = F!Idle
  OBVIOUS
<1>3. /\ s \in F!Parts /\ s.pipe.size \in 0 .. BufSize /\ left \in Nat /\ MaxLen \in Nat
      /\ BufSize \in Nat \ {0} /\ F!Room(s) = BufSize - s.pipe.size
  BY PartFields, FilesFacts DEF F!Good, F!Room
<1>4. /\ put \in 0 .. BufSize - s.pipe.size /\ put \in 0 .. left
      /\ left # put => put = BufSize - s.pipe.size
  <2>1. F!Room(s) \in Nat
    BY <1>3
  <2>2. put \in Nat /\ put <= left /\ put <= F!Room(s) /\ put \in {left, F!Room(s)}
    BY <1>3, <2>1, LesserIs
  <2> HIDE DEF put
  <2> QED BY <1>3, <2>1, <2>2
<1>5. s1 = F!WriteBytes(s, put) /\ s2 = F!FilemapAcquire(s1, fs[t], d)
  OBVIOUS
<1> HIDE DEF put, s1, s2
<1>6. /\ F!Good(fs, s1, o, {}) /\ s1.slot = s.slot
      /\ s1.pipe.size = s.pipe.size + put /\ s1.pipe.isclosed = s.pipe.isclosed
  BY <1>4, <1>5, WriteKeeps
<1>7. CASE F!Leave(t, s)
  BY <1>2, <1>7, LeaveKeeps
<1>8. CASE F!Leave(t, s1)
  BY <1>2, <1>6, <1>8, LeaveKeeps
<1>9. CASE /\ s.slot[fs[t]][d].status = "OPENED" /\ left # put /\ ~s.pipe.isclosed
           /\ F!WaitFor(t, s2, d, "w", left - put, put > 0)
  <2>1. s1.slot[fs[t]][d].status = "OPENED" /\ F!Good(fs, s1, o, {})
    BY <1>6, <1>9
  <2>2. /\ F!Good(fs, s2, o, F!Slots(fs[t], {d}))
        /\ s2.slot[fs[t]][d].end = s1.slot[fs[t]][d].end
        /\ s2.pipe = s1.pipe
    <3>1. F!Good(fs, s2, o, F!Slots(fs[t], {d})) /\ OnlyCounted(s1, s2, fs[t], d)
      BY <1>5, <2>1, AcquireKeeps
    <3> QED BY <3>1 DEF OnlyCounted
  <2>3. s2.slot[fs[t]][d].end = "w"
    BY <1>6, <1>9, <2>2
  <2>4. ~s2.pipe.isclosed /\ s2.pipe.size = BufSize
    BY <1>3, <1>4, <1>6, <1>9, <2>2
  <2>5. s2.pipe.size = IF "w" = "r" THEN 0 ELSE BufSize
    BY <2>4
  <2> DEFINE rest == left - put
             part == put > 0
  <2>6. rest \in 1 .. MaxLen /\ "w" \in F!End /\ part \in BOOLEAN
    BY <1>3, <1>4, <1>9 DEF F!End
  <2>7. F!WaitFor(t, s2, d, "w", rest, part) /\ ~s2.pipe.isclosed
        /\ F!Good(fs, s2, o, F!Slots(fs[t], {d}))
    BY <1>9, <2>2, <2>4
  <2> HIDE DEF rest, part
  <2> QED BY ONLY <2>3, <2>5, <2>6, <2>7, t \in Proc, d \in Fd, fs[t] \in Fs, UNCHANGED fs,
                  o = [op EXCEPT ![t] = F!Idle], op \in [Proc -> F!Ops], WaitForKeeps, ZenonT(40)
<1> QED BY <1>1, <1>7, <1>8, <1>9

(* A thread comes out of pipe_state_wait of end e of the pipe.             *)
LEMMA Resumed ==
    ASSUME F!IndInv, NEW t \in Proc, NEW e \in F!End, op[t].call = e,
           NEW s, s = F!WaitDel(F!Here, t, e), NEW o, o = [op EXCEPT ![t] = F!Idle]
    PROVE  /\ F!Good(fs, s, o, F!Slots(fs[t], {op[t].fd}))
           /\ op \in [Proc -> F!Ops] /\ fs[t] \in Fs /\ op[t].fd \in Fd
           /\ op[t].left \in 1 .. MaxLen
           /\ s.slot[fs[t]][op[t].fd].end = e
<1>1. F!Good(fs, F!Here, op, {}) /\ F!Here \in F!Parts /\ op \in [Proc -> F!Ops]
  BY DEF F!IndInv, F!Good
<1>2. op[t] # F!Idle
  BY FilesFinite DEF F!Idle
<1>3. /\ t \in F!Here.pipe.reader_queue => op[t].call = "r"
      /\ t \in F!Here.pipe.writer_queue => op[t].call = "w"
  BY <1>1 DEF F!Good, F!Blocked
<1>4. /\ e = "r" => t \notin F!Here.pipe.writer_queue
      /\ e # "r" => t \notin F!Here.pipe.reader_queue
  BY <1>3
<1> DEFINE h == F!Here
<1>5. s = F!WaitDel(h, t, e) /\ h \in F!Parts /\ F!Good(fs, h, op, {})
  BY <1>1
<1>6. /\ e = "r" => t \notin h.pipe.writer_queue
      /\ e # "r" => t \notin h.pipe.reader_queue
  BY <1>4
<1> HIDE DEF h
<1>7. LeavesQueue(h, s, t)
  BY <1>5, <1>6, WaitDelFields
<1>8. F!Good(fs, s, o, F!Slots(fs[t], {op[t].fd}))
  BY <1>2, <1>5, <1>7, ResumeKeeps
<1>9. /\ fs[t] \in Fs /\ op[t].fd \in Fd /\ op[t].left > 0
      /\ h.slot[fs[t]][op[t].fd].end = op[t].call
  BY <1>2, <1>5 DEF F!Good, F!OwnTables
<1>10. op[t].left \in 1 .. MaxLen
  BY <1>1, <1>9, FilesFacts DEF F!Ops
<1>11. s.slot = h.slot
  BY <1>7 DEF LeavesQueue
<1> QED BY <1>1, <1>8, <1>9, <1>10, <1>11

(* What is left of a slot of end e after the count is given back.          *)
StillOf(r, f, d, e) == r.slot[f][d].status # "NONE" => r.slot[f][d].end = e

(* The return from file_read and file_write gives the count back.          *)
LEMMA ReleasedOne ==
    ASSUME NEW p, NEW s, NEW o, NEW f \in Fs, NEW d \in Fd, NEW e, s.slot[f][d].end = e,
           F!Good(p, s, o, F!Slots(f, {d})), NEW r, r = F!FilemapRelease(s, f, {d})
    PROVE  F!Good(p, r, o, {}) /\ StillOf(r, f, d, e)
<1> DEFINE ds == {d}
<1>1. ds \in SUBSET Fd /\ F!Good(p, s, o, F!Slots(f, ds)) /\ r = F!FilemapRelease(s, f, ds)
  OBVIOUS
<1> HIDE DEF ds
<1>2. F!Good(p, r, o, {}) /\ NoneOpened(s, r, f)
  BY <1>1, ReleaseKeeps
<1> QED BY <1>2 DEF NoneOpened, StillOf

(* ResumeRead                                                              *)
LEMMA ResumeReadStep ==
    ASSUME F!IndInv, NEW t \in Proc, F!ResumeRead(t)
    PROVE  F!Good(fs, F!Here, op, {})'
<1> DEFINE f == fs[t]
           d == op[t].fd
           left == op[t].left
           s == F!WaitDel(F!Here, t, "r")
           got == F!Lesser(left, s.pipe.size)
           s1 == F!ReadBytes(s, got)
           s2 == F!FilemapRelease(s1, f, {d})
           s0 == F!FilemapRelease(s, f, {d})
           o == [op EXCEPT ![t] = F!Idle]
           rest == left - got
<1>1. op[t].call = "r" /\ UNCHANGED fs
  BY DEF F!ResumeRead
<1>2. \/ F!Leave(t, s0)
      \/ got = 0 /\ ~s.pipe.isclosed /\ F!WaitFor(t, s, d, "r", left, FALSE)
      \/ F!Leave(t, s2)
      \/ F!Read(t, s2, d, rest)
  BY DEF F!ResumeRead
<1>3. /\ s = F!WaitDel(F!Here, t, "r") /\ o = [op EXCEPT ![t] = F!Idle]
      /\ s1 = F!ReadBytes(s, got) /\ s2 = F!FilemapRelease(s1, f, {d})
      /\ s0 = F!FilemapRelease(s, f, {d})
  OBVIOUS
<1> HIDE DEF s, s1, s2, s0, o, got
<1>4. /\ F!Good(fs, s, o, F!Slots(fs[t], {op[t].fd}))
      /\ op \in [Proc -> F!Ops] /\ fs[t] \in Fs /\ op[t].fd \in Fd
      /\ op[t].left \in 1 .. MaxLen
      /\ s.slot[fs[t]][op[t].fd].end = "r"
  <2>1. "r" \in F!End
    BY DEF F!End
  <2> QED BY <1>1, <1>3, <2>1, Resumed
<1> HIDE DEF f, d, left
<1>5. /\ F!Good(fs, s, o, F!Slots(f, {d})) /\ f = fs[t] /\ f \in Fs /\ d \in Fd
      /\ left \in 1 .. MaxLen /\ s.slot[f][d].end = "r" /\ o[t] = F!Idle
  BY <1>3, <1>4 DEF f, d, left
<1>6. s.pipe.size \in 0 .. BufSize /\ BufSize \in Nat /\ MaxLen \in Nat
  BY <1>5, PartFields, FilesFacts DEF F!Good
<1>7. got \in 0 .. s.pipe.size /\ got \in 0 .. left /\ got \in {left, s.pipe.size}
  BY <1>5, <1>6, LesserIs DEF got
<1>8. F!Good(fs, s0, o, {}) /\ StillOf(s0, f, d, "r")
  BY <1>3, <1>5, ReleasedOne
<1>9. F!Good(fs, s1, o, F!Slots(f, {d})) /\ s1.slot = s.slot
  <2>1. /\ F!Good(fs, s1, o, F!Slots(f, {d})) /\ s1.slot = s.slot
        /\ s1.pipe.size = s.pipe.size - got /\ s1.pipe.isclosed = s.pipe.isclosed
    BY <1>3, <1>5, <1>7, ReadKeeps
  <2> QED BY <2>1
<1>10. F!Good(fs, s2, o, {}) /\ StillOf(s2, f, d, "r")
  <2>1. s1.slot[f][d].end = "r"
    BY <1>5, <1>9
  <2>2. /\ F!Good(fs, s1, o, F!Slots(f, {d})) /\ s2 = F!FilemapRelease(s1, f, {d})
        /\ f \in Fs /\ d \in Fd
    BY <1>3, <1>5, <1>9
  <2> QED BY ONLY <2>1, <2>2, ReleasedOne, ZenonT(40)
<1>11. CASE F!Leave(t, s0)
  BY <1>1, <1>3, <1>5, <1>8, <1>11, LeaveKeeps
<1>12. CASE F!Leave(t, s2)
  BY <1>1, <1>3, <1>5, <1>10, <1>12, LeaveKeeps
<1>13. CASE got = 0 /\ ~s.pipe.isclosed /\ F!WaitFor(t, s, d, "r", left, FALSE)
  <2>1. s.pipe.size = IF "r" = "r" THEN 0 ELSE BufSize
    BY <1>5, <1>7, <1>13
  <2>2. "r" \in F!End /\ FALSE \in BOOLEAN
    BY DEF F!End
  <2>3. F!Good(fs, s, o, F!Slots(fs[t], {d})) /\ fs[t] \in Fs /\ s.slot[fs[t]][d].end = "r"
    BY <1>5
  <2> QED BY <1>1, <1>3, <1>4, <1>5, <1>13, <2>1, <2>2, <2>3, WaitForKeeps
<1>14. CASE F!Read(t, s2, d, rest)
  <2>1. rest \in 0 .. MaxLen
    BY <1>5, <1>6, <1>7
  <2>2. s2.slot[fs[t]][d].status # "NONE" => s2.slot[fs[t]][d].end = "r"
    BY <1>5, <1>10 DEF StillOf
  <2> HIDE DEF rest
  <2> QED BY <1>1, <1>3, <1>4, <1>5, <1>10, <1>14, <2>1, <2>2, ReadStep
<1> QED BY <1>2, <1>11, <1>12, <1>13, <1>14

(* ResumeWrite                                                             *)
LEMMA ResumeWriteStep ==
    ASSUME F!IndInv, NEW t \in Proc, F!ResumeWrite(t)
    PROVE  F!Good(fs, F!Here, op, {})'
<1> DEFINE f == fs[t]
           d == op[t].fd
           left == op[t].left
           s == F!WaitDel(F!Here, t, "w")
           put == F!Lesser(left, F!Room(s))
           s1 == F!WriteBytes(s, put)
           s2 == F!FilemapRelease(s1, f, {d})
           s0 == F!FilemapRelease(s, f, {d})
           o == [op EXCEPT ![t] = F!Idle]
           rest == left - put
           part == op[t].part \/ put > 0
<1>1. op[t].call = "w" /\ UNCHANGED fs
  BY DEF F!ResumeWrite
<1>2. \/ F!Write(t, s0, d, left)
      \/ F!Leave(t, s0)
      \/ F!Leave(t, s2)
      \/ put # left /\ ~s.pipe.isclosed /\ F!WaitFor(t, s1, d, "w", rest, part)
  BY DEF F!ResumeWrite
<1>3. /\ s = F!WaitDel(F!Here, t, "w") /\ o = [op EXCEPT ![t] = F!Idle]
      /\ s1 = F!WriteBytes(s, put) /\ s2 = F!FilemapRelease(s1, f, {d})
      /\ s0 = F!FilemapRelease(s, f, {d})
  OBVIOUS
<1> HIDE DEF s, s1, s2, s0, o, put
<1>4. /\ F!Good(fs, s, o, F!Slots(fs[t], {op[t].fd}))
      /\ op \in [Proc -> F!Ops] /\ fs[t] \in Fs /\ op[t].fd \in Fd
      /\ op[t].left \in 1 .. MaxLen
      /\ s.slot[fs[t]][op[t].fd].end = "w"
  <2>1. "w" \in F!End
    BY DEF F!End
  <2> QED BY <1>1, <1>3, <2>1, Resumed
<1> HIDE DEF f, d, left
<1>5. /\ F!Good(fs, s, o, F!Slots(f, {d})) /\ f = fs[t] /\ f \in Fs /\ d \in Fd
      /\ left \in 1 .. MaxLen /\ s.slot[f][d].end = "w" /\ o[t] = F!Idle
  BY <1>3, <1>4 DEF f, d, left
<1>6. /\ s.pipe.size \in 0 .. BufSize /\ BufSize \in Nat \ {0} /\ MaxLen \in Nat
      /\ F!Room(s) = BufSize - s.pipe.size
  BY <1>5, PartFields, FilesFacts DEF F!Good, F!Room
<1>7. put \in 0 .. BufSize - s.pipe.size /\ put \in 0 .. left /\ put \in {left, F!Room(s)}
  <2>1. F!Room(s) \in Nat /\ left \in Nat
    BY <1>5, <1>6
  <2>2. put \in Nat /\ put <= left /\ put <= F!Room(s) /\ put \in {left, F!Room(s)}
    BY <2>1, LesserIs DEF put
  <2> QED BY <1>5, <1>6, <2>1, <2>2
<1>8. F!Good(fs, s0, o, {}) /\ StillOf(s0, f, d, "w")
  BY <1>3, <1>5, ReleasedOne
<1>9. /\ F!Good(fs, s1, o, F!Slots(f, {d})) /\ s1.slot = s.slot
      /\ s1.pipe.size = s.pipe.size + put /\ s1.pipe.isclosed = s.pipe.isclosed
  BY <1>3, <1>5, <1>7, WriteKeeps
<1>10. F!Good(fs, s2, o, {}) /\ StillOf(s2, f, d, "w")
  <2>1. s1.slot[f][d].end = "w"
    BY <1>5, <1>9
  <2>2. /\ F!Good(fs, s1, o, F!Slots(f, {d})) /\ s2 = F!FilemapRelease(s1, f, {d})
        /\ f \in Fs /\ d \in Fd
    BY <1>3, <1>5, <1>9
  <2> QED BY ONLY <2>1, <2>2, ReleasedOne, ZenonT(40)
<1>11. CASE F!Leave(t, s0)
  BY <1>1, <1>3, <1>5, <1>8, <1>11, LeaveKeeps
<1>12. CASE F!Leave(t, s2)
  BY <1>1, <1>3, <1>5, <1>10, <1>12, LeaveKeeps
<1>13. CASE put # left /\ ~s.pipe.isclosed /\ F!WaitFor(t, s1, d, "w", rest, part)
  <2>1. s1.pipe.size = IF "w" = "r" THEN 0 ELSE BufSize
    BY <1>5, <1>6, <1>7, <1>9, <1>13
  <2>2. "w" \in F!End /\ part \in BOOLEAN /\ rest \in 1 .. MaxLen
    BY <1>5, <1>6, <1>7, <1>13 DEF F!End
  <2> HIDE DEF part, rest
  <2>3. /\ F!Good(fs, s1, o, F!Slots(fs[t], {d})) /\ fs[t] \in Fs
        /\ s1.slot[fs[t]][d].end = "w" /\ ~s1.pipe.isclosed
        /\ F!WaitFor(t, s1, d, "w", rest, part) /\ op \in [Proc -> F!Ops] /\ d \in Fd
    BY <1>4, <1>5, <1>9, <1>13
  <2>4. op \in [Proc -> F!Ops] /\ o = [op EXCEPT ![t] = F!Idle] /\ UNCHANGED fs
    BY <1>1, <1>3, <1>4
  <2> QED BY ONLY <2>1, <2>2, <2>3, <2>4, t \in Proc, WaitForKeeps, ZenonT(40)
<1>14. CASE F!Write(t, s0, d, left)
  <2>1. left \in 0 .. MaxLen
    BY <1>5, <1>6
  <2>2. s0.slot[fs[t]][d].status # "NONE" => s0.slot[fs[t]][d].end = "w"
    BY <1>5, <1>8 DEF StillOf
  <2> QED BY <1>1, <1>3, <1>4, <1>5, <1>8, <1>14, <2>1, <2>2, WriteStep
<1> QED BY <1>2, <1>11, <1>12, <1>13, <1>14

(* Reads and writes from the start.                                        *)
LEMMA SysfileStep ==
    ASSUME F!IndInv, NEW t \in Proc, NEW d \in Fd, NEW len \in 1 .. MaxLen,
           F!SysfileRead(t, d, len) \/ F!SysfileWrite(t, d, len)
    PROVE  F!Good(fs, F!Here, op, {})'
<1> DEFINE h == F!Here
           o == [op EXCEPT ![t] = F!Idle]
<1>1. /\ F!Good(fs, h, op, {}) /\ op \in [Proc -> F!Ops] /\ fs \in [Proc -> Fs \cup {NoFs}]
      /\ h.slot = slot
  BY DEF F!IndInv, F!Good, F!Here
<1>2. fs[t] # NoFs /\ op[t] = F!Idle /\ UNCHANGED fs
  BY DEF F!SysfileRead, F!SysfileWrite, F!Calls
<1>3. fs[t] \in Fs /\ o = op /\ len \in 0 .. MaxLen /\ o = [op EXCEPT ![t] = F!Idle]
  BY <1>1, <1>2, FilesFacts
<1>4. \/ slot[fs[t]][d].end = "r" /\ F!Read(t, h, d, len)
      \/ slot[fs[t]][d].end = "w" /\ F!Write(t, h, d, len)
  BY DEF F!SysfileRead, F!SysfileWrite
<1> HIDE DEF h, o
<1>5. F!Good(fs, h, o, {})
  BY <1>1, <1>3
<1>6. CASE slot[fs[t]][d].end = "r" /\ F!Read(t, h, d, len)
  <2>1. h.slot[fs[t]][d].status # "NONE" => h.slot[fs[t]][d].end = "r"
    BY <1>1, <1>6
  <2> QED BY <1>1, <1>2, <1>3, <1>5, <1>6, <2>1, ReadStep
<1>7. CASE slot[fs[t]][d].end = "w" /\ F!Write(t, h, d, len)
  <2>1. h.slot[fs[t]][d].status # "NONE" => h.slot[fs[t]][d].end = "w"
    BY <1>1, <1>7
  <2> QED BY <1>1, <1>2, <1>3, <1>5, <1>7, <2>1, WriteStep
<1> QED BY <1>4, <1>6, <1>7

(* Whoever gets or gives up a table is in no system call: the counts stay  *)
(* exact as long as every table with a slot in use still has a thread.     *)
LEMMA TableKeeps ==
    ASSUME NEW p, NEW s, NEW o, F!Good(p, s, o, {}), NEW u \in Proc, o[u] = F!Idle,
           NEW q \in [Proc -> Fs \cup {NoFs}], \A v \in Proc \ {u} : q[v] = p[v],
           \A f \in Fs, d \in Fd : s.slot[f][d].status # "NONE" => \E v \in Proc : q[v] = f
    PROVE  F!Good(q, s, o, {})
<1>1. /\ s \in F!Parts /\ o \in [Proc -> F!Ops] /\ p \in [Proc -> Fs \cup {NoFs}]
      /\ F!Counted(p, s, o, {}) /\ F!Referenced(s) /\ F!OwnTables(p, s, o) /\ F!Blocked(s, o)
  BY DEF F!Good
<1>2. \A f, d : F!In(q, o, f, d) = F!In(p, o, f, d)
  BY DEF F!In
<1>3. F!Counted(q, s, o, {})
  BY <1>1, <1>2 DEF F!Counted
<1>4. F!OwnTables(q, s, o)
  BY <1>1 DEF F!OwnTables
<1> QED BY <1>1, <1>3, <1>4 DEF F!Good

(* filemap_open of the free slots new of table f, each with its vnode      *)
(* opened once more.                                                       *)
OpensSlots(s, r, f, new) ==
    /\ \A g \in Fs \ {f} : r.slot[g] = s.slot[g]
    /\ \A d \in Fd \ new : /\ r.slot[f][d].status = s.slot[f][d].status
                           /\ r.slot[f][d].count = s.slot[f][d].count
                           /\ s.slot[f][d].count > 0 => r.slot[f][d].end = s.slot[f][d].end
    /\ \A d \in new : /\ s.slot[f][d].status = "NONE"
                      /\ r.slot[f][d].status = "OPENED" /\ r.slot[f][d].count = 1
    /\ \A e \in F!End : r.pipe.open[e] = s.pipe.open[e]
                          + F!Cardinality({d \in new : r.slot[f][d].end = e})

(* Opening slots keeps the counts exact.                                   *)
LEMMA OpenKeeps ==
    ASSUME NEW p, NEW s, NEW o, NEW r, NEW f \in Fs, NEW new \in SUBSET Fd,
           F!Good(p, s, o, {}), r \in F!Parts, OpensSlots(s, r, f, new),
           r.pipe.ref_count = F!Cardinality(F!OpenEnds(r)), F!Blocked(r, o),
           \E t \in Proc : p[t] = f
    PROVE  F!Good(p, r, o, {})
<1> DEFINE Of(e) == {d \in new : r.slot[f][d].end = e}
<1>1. /\ p \in [Proc -> Fs \cup {NoFs}] /\ s \in F!Parts /\ o \in [Proc -> F!Ops]
      /\ F!Counted(p, s, o, {}) /\ F!Referenced(s) /\ F!OwnTables(p, s, o) /\ F!Blocked(s, o)
  BY DEF F!Good
<1>2. \A g \in Fs, c \in Fd :
        /\ s.slot[g][c].count \in Nat /\ F!Cardinality(F!In(p, o, g, c)) \in Nat
        /\ s.slot[g][c].count = F!Cardinality(F!In(p, o, g, c))
                                  + IF s.slot[g][c].status = "OPENED" THEN 1 ELSE 0
        /\ s.slot[g][c].status = "NONE" <=> s.slot[g][c].count = 0
  <2> TAKE g \in Fs, c \in Fd
  <2>1. s.slot[g][c].count \in Nat /\ F!Cardinality(F!In(p, o, g, c)) \in Nat
    BY <1>1, SlotFields, FilesFinite
  <2> QED BY <1>1, <2>1 DEF F!Counted
<1>3. \A d \in new : s.slot[f][d].count = 0 /\ F!Cardinality(F!In(p, o, f, d)) = 0
  BY <1>2 DEF OpensSlots
<1>4. F!Counted(p, r, o, {})
  <2> SUFFICES ASSUME NEW g \in Fs, NEW c \in Fd
               PROVE  /\ r.slot[g][c].count = F!Cardinality(F!In(p, o, g, c))
                                                + IF r.slot[g][c].status = "OPENED" THEN 1 ELSE 0
                      /\ r.slot[g][c].status = "NONE" <=> r.slot[g][c].count = 0
    <3>1. \A g \in Fs, c \in Fd : F!Cardinality(F!In(p, o, g, c)) \in Nat
      BY <1>2
    <3> QED BY <3>1 DEF F!Counted
  <2>1. CASE g = f /\ c \in new
    BY <1>2, <1>3, <2>1 DEF OpensSlots
  <2>2. CASE g = f /\ c \notin new
    BY <1>2, <2>2 DEF OpensSlots
  <2>3. CASE g # f
    BY <1>2, <2>3 DEF OpensSlots
  <2> QED BY <2>1, <2>2, <2>3
<1>5. \A e \in F!End : r.pipe.open[e] = F!Cardinality(F!Users(r, e))
  <2> TAKE e \in F!End
  <2> DEFINE more == F!Slots(f, Of(e))
             before == F!Users(s, e)
  <2>1. Of(e) \in SUBSET Fd
    OBVIOUS
  <2>2. F!IsFiniteSet(more) /\ F!Cardinality(more) = F!Cardinality(Of(e))
    <3> HIDE DEF Of
    <3>1. F!IsFiniteSet({f} \X Of(e)) /\ F!Cardinality({f} \X Of(e)) = F!Cardinality(Of(e))
      BY <2>1, PairsCount
    <3> QED BY <3>1 DEF F!Slots
  <2>3. F!Users(r, e) = before \cup more
    <3>1. \A g \in Fs, c \in Fd :
            (r.slot[g][c].count > 0 /\ r.slot[g][c].end = e)
              <=> \/ s.slot[g][c].count > 0 /\ s.slot[g][c].end = e
                  \/ g = f /\ c \in Of(e)
      <4> TAKE g \in Fs, c \in Fd
      <4>1. CASE g = f /\ c \in new
        BY <1>3, <4>1 DEF OpensSlots
      <4>2. CASE g = f /\ c \notin new
        BY <4>2 DEF OpensSlots
      <4>3. CASE g # f
        BY <4>3 DEF OpensSlots
      <4> QED BY <4>1, <4>2, <4>3
    <3> QED BY <2>1, <3>1 DEF F!Users, F!Slots
  <2>4. before \cap more = {}
    BY <1>3 DEF F!Users, F!Slots
  <2>5. F!IsFiniteSet(before) /\ s.pipe.open[e] = F!Cardinality(before)
    BY <1>1, FilesFinite DEF F!Referenced
  <2>6. r.pipe.open[e] = s.pipe.open[e] + F!Cardinality(Of(e))
    BY DEF OpensSlots
  <2> HIDE DEF Of, more, before
  <2>7. F!Cardinality(before \cup more)
          = F!Cardinality(before) + F!Cardinality(more) - F!Cardinality(before \cap more)
    BY <2>2, <2>5, F!FS_Union
  <2>8. F!Cardinality(before \cap more) = 0
    BY <2>4, F!FS_EmptySet
  <2>9. F!Cardinality(before) \in Nat /\ F!Cardinality(more) \in Nat
    BY <2>2, <2>5, F!FS_CardinalityType
  <2> QED BY <2>2, <2>3, <2>5, <2>6, <2>7, <2>8, <2>9
<1>6. F!Referenced(r)
  BY <1>5 DEF F!Referenced
<1>7. F!OwnTables(p, r, o)
  <2>1. ASSUME NEW t \in Proc, o[t] # F!Idle
        PROVE  /\ p[t] \in Fs /\ o[t].fd \in Fd /\ o[t].call \in F!End /\ o[t].left > 0
               /\ r.slot[p[t]][o[t].fd].end = o[t].call
    <3>1. /\ p[t] \in Fs /\ o[t].fd \in Fd /\ o[t].call \in F!End /\ o[t].left > 0
          /\ s.slot[p[t]][o[t].fd].end = o[t].call
      BY <1>1, <2>1 DEF F!OwnTables
    <3>2. F!Cardinality(F!In(p, o, p[t], o[t].fd)) # 0
      <4>1. t \in F!In(p, o, p[t], o[t].fd)
        BY <2>1 DEF F!In
      <4> QED BY <4>1, FilesFinite, F!FS_EmptySet
    <3>3. s.slot[p[t]][o[t].fd].count > 0
      BY <1>2, <3>1, <3>2
    <3>4. ~(p[t] = f /\ o[t].fd \in new)
      BY <1>3, <3>2
    <3> QED BY <3>1, <3>3, <3>4 DEF OpensSlots
  <2>2. ASSUME NEW g \in Fs, NEW c \in Fd, r.slot[g][c].status # "NONE"
        PROVE  \E t \in Proc : p[t] = g
    <3>1. CASE g = f
      BY <3>1
    <3>2. CASE g # f
      BY <1>1, <2>2, <3>2 DEF OpensSlots, F!OwnTables
    <3> QED BY <3>1, <3>2
  <2> QED BY <2>1, <2>2 DEF F!OwnTables
<1> QED BY <1>1, <1>4, <1>6, <1>7 DEF F!Good

(* The loops of fs_closeall and fs_destroy.                                *)
LEMMA CloseAllKeeps ==
    ASSUME NEW p, NEW s, NEW o, NEW f \in Fs, NEW D \in SUBSET Fd, F!Good(p, s, o, {}),
           NEW r, r = F!CloseAll(s, f, D)
    PROVE  /\ F!Good(p, r, o, {})
           /\ \A d \in D : r.slot[f][d].status # "OPENED"
           /\ \A g \in Fs \ {f} : r.slot[g] = s.slot[g]
<1> DEFINE ds == {d \in D : s.slot[f][d].status = "OPENED"}
<1>1. /\ ds \in SUBSET Fd /\ \A d \in ds : s.slot[f][d].status = "OPENED"
      /\ r = F!FilemapClose(s, f, ds)
  BY DEF F!CloseAll
<1>2. \A d \in D \ ds : s.slot[f][d].status # "OPENED"
  OBVIOUS
<1> HIDE DEF ds
<1>3. F!Good(p, r, o, {}) /\ ClosesSlots(s, r, f, ds)
  BY <1>1, CloseKeeps
<1> QED BY <1>2, <1>3 DEF ClosesSlots

(* What the invariant says when a thread makes a system call.              *)
LEMMA HereGood ==
    ASSUME F!IndInv, NEW h, h = F!Here
    PROVE  /\ F!Good(fs, h, op, {}) /\ h \in F!Parts
           /\ h.slot = slot /\ h.pipe = pipe /\ h.wait = wait
           /\ fs \in [Proc -> Fs \cup {NoFs}] /\ op \in [Proc -> F!Ops]
<1>1. F!Good(fs, h, op, {})
  BY DEF F!IndInv
<1> QED BY <1>1 DEF F!Good, F!Here

(* FileClose                                                               *)
LEMMA FileCloseStep ==
    ASSUME F!IndInv, NEW t \in Proc, NEW d \in Fd, F!FileClose(t, d)
    PROVE  F!Good(fs, F!Here, op, {})'
<1> DEFINE h == F!Here
           ds == {d}
           r == F!FilemapClose(h, fs[t], ds)
<1>1. fs[t] # NoFs /\ slot[fs[t]][d].status = "OPENED" /\ F!Become(r) /\ UNCHANGED <<fs, op>>
  BY DEF F!FileClose, F!Calls, F!Opened
<1>2. /\ h = F!Here /\ r = F!FilemapClose(h, fs[t], ds)
      /\ ds \in SUBSET Fd /\ \A c \in ds : c = d
  OBVIOUS
<1> HIDE DEF h, ds, r
<1>3. /\ F!Good(fs, h, op, {}) /\ h.slot = slot /\ fs \in [Proc -> Fs \cup {NoFs}]
  BY <1>2, HereGood
<1>4. fs[t] \in Fs /\ \A c \in ds : h.slot[fs[t]][c].status = "OPENED"
  BY <1>1, <1>2, <1>3
<1>5. F!Good(fs, r, op, {})
  BY <1>2, <1>3, <1>4, CloseKeeps
<1>6. F!Good(fs', r, op', {})
  BY <1>1, <1>5
<1> QED BY <1>1, <1>6, GoodAgain

(* Execve                                                                  *)
LEMMA ExecveStep ==
    ASSUME F!IndInv, NEW t \in Proc, F!Execve(t)
    PROVE  F!Good(fs, F!Here, op, {})'
<1> DEFINE h == F!Here
           D == Fd \ Std
           r == F!CloseAll(h, fs[t], D)
<1>1. fs[t] # NoFs /\ F!Become(r) /\ UNCHANGED <<fs, op>>
  BY DEF F!Execve, F!Calls
<1>2. h = F!Here /\ r = F!CloseAll(h, fs[t], D) /\ D \in SUBSET Fd
  OBVIOUS
<1> HIDE DEF h, D, r
<1>3. F!Good(fs, h, op, {}) /\ fs \in [Proc -> Fs \cup {NoFs}]
  BY <1>2, HereGood
<1>4. fs[t] \in Fs
  BY <1>1, <1>3
<1>5. F!Good(fs, r, op, {})
  BY <1>2, <1>3, <1>4, CloseAllKeeps
<1>6. F!Good(fs', r, op', {})
  BY <1>1, <1>5
<1> QED BY <1>1, <1>6, GoodAgain

(* CloneFs: the new thread was in no system call, as it had no table.      *)
LEMMA CloneFsStep ==
    ASSUME F!IndInv, NEW t \in Proc, NEW u \in Proc, F!CloneFs(t, u)
    PROVE  F!Good(fs, F!Here, op, {})'
<1> DEFINE h == F!Here
           q == [fs EXCEPT ![u] = fs[t]]
<1>1. fs[t] # NoFs /\ fs[u] = NoFs /\ fs' = q /\ UNCHANGED <<slot, pipe, wait, op>>
  BY DEF F!CloneFs, F!Calls
<1>2. h = F!Here
  OBVIOUS
<1> HIDE DEF h
<1>3. /\ F!Good(fs, h, op, {}) /\ h \in F!Parts
      /\ h.slot = slot /\ h.pipe = pipe /\ h.wait = wait
      /\ fs \in [Proc -> Fs \cup {NoFs}] /\ op \in [Proc -> F!Ops]
  BY <1>2, HereGood
<1>4. op[u] = F!Idle
  BY <1>1, <1>3, FilesFacts DEF F!Good, F!OwnTables
<1>5. q \in [Proc -> Fs \cup {NoFs}] /\ \A v \in Proc \ {u} : q[v] = fs[v]
  BY <1>3
<1>6. \A f \in Fs, d \in Fd : h.slot[f][d].status # "NONE" => \E v \in Proc : q[v] = f
  <2>1. \A f \in Fs, d \in Fd : h.slot[f][d].status # "NONE" => \E v \in Proc : fs[v] = f
    BY <1>3 DEF F!Good, F!OwnTables
  <2>2. \A f \in Fs, v \in Proc : fs[v] = f => q[v] = f
    BY <1>1, <1>3, FilesFacts
  <2> HIDE DEF q
  <2> QED BY <2>1, <2>2
<1> HIDE DEF q
<1>7. F!Good(q, h, op, {})
  BY <1>3, <1>4, <1>5, <1>6, TableKeeps
<1>8. F!Good(fs', h, op', {}) /\ F!Become(h) /\ op' = op
  BY <1>1, <1>3, <1>7 DEF F!Become
<1> QED BY <1>8, GoodAgain

(* Exit: the last thread of a table leaves all its slots free.             *)
LEMMA ExitStep ==
    ASSUME F!IndInv, NEW t \in Proc, F!Exit(t)
    PROVE  F!Good(fs, F!Here, op, {})'
<1> DEFINE h == F!Here
           r == F!CloseAll(h, fs[t], Fd)
           q == [fs EXCEPT ![t] = NoFs]
<1>1. fs[t] # NoFs /\ op[t] = F!Idle /\ fs' = q /\ op' = op
  BY DEF F!Exit
<1>2. \/ (\E u \in Proc \ {t} : fs[u] = fs[t]) /\ UNCHANGED <<slot, pipe, wait>>
      \/ (\A u \in Proc \ {t} : fs[u] # fs[t]) /\ F!Become(r)
  BY DEF F!Exit
<1>3. h = F!Here /\ r = F!CloseAll(h, fs[t], Fd)
  OBVIOUS
<1> HIDE DEF h, r
<1>4. /\ F!Good(fs, h, op, {}) /\ h \in F!Parts
      /\ h.slot = slot /\ h.pipe = pipe /\ h.wait = wait
      /\ fs \in [Proc -> Fs \cup {NoFs}] /\ op \in [Proc -> F!Ops]
  BY <1>3, HereGood
<1>5. fs[t] \in Fs /\ Fd \in SUBSET Fd
  BY <1>1, <1>4
<1>6. q \in [Proc -> Fs \cup {NoFs}] /\ \A v \in Proc \ {t} : q[v] = fs[v]
  BY <1>4
<1> HIDE DEF q
<1>7. CASE (\E u \in Proc \ {t} : fs[u] = fs[t]) /\ UNCHANGED <<slot, pipe, wait>>
  <2>1. \A f \in Fs, d \in Fd : h.slot[f][d].status # "NONE" => \E v \in Proc : q[v] = f
    <3>1. \A f \in Fs, d \in Fd : h.slot[f][d].status # "NONE" => \E v \in Proc : fs[v] = f
      BY <1>4 DEF F!Good, F!OwnTables
    <3>2. \A f \in Fs : (\E v \in Proc : fs[v] = f) => \E v \in Proc : q[v] = f
      BY <1>6, <1>7
    <3> QED BY <3>1, <3>2
  <2>2. F!Good(q, h, op, {})
    BY <1>1, <1>4, <1>6, <2>1, TableKeeps
  <2>3. F!Good(fs', h, op, {}) /\ F!Become(h)
    BY <1>1, <1>4, <1>7, <2>2 DEF F!Become
  <2> QED BY <1>1, <2>3, GoodAgain
<1>8. CASE (\A u \in Proc \ {t} : fs[u] # fs[t]) /\ F!Become(r)
  <2>1. /\ F!Good(fs, r, op, {})
        /\ \A d \in Fd : r.slot[fs[t]][d].status # "OPENED"
        /\ \A g \in Fs \ {fs[t]} : r.slot[g] = h.slot[g]
    BY <1>3, <1>4, <1>5, CloseAllKeeps
  <2>2. ASSUME NEW d \in Fd PROVE r.slot[fs[t]][d].status = "NONE"
    <3>1. F!In(fs, op, fs[t], d) = {}
      BY <1>1, <1>8 DEF F!In
    <3>2. F!Cardinality(F!In(fs, op, fs[t], d)) = 0
      BY <3>1, F!FS_EmptySet
    <3>3. F!Counted(fs, r, op, {})
      BY <2>1 DEF F!Good
    <3> QED BY <1>5, <2>1, <3>2, <3>3 DEF F!Counted
  <2>3. \A f \in Fs, d \in Fd : r.slot[f][d].status # "NONE" => \E v \in Proc : q[v] = f
    <3>1. \A f \in Fs, d \in Fd : r.slot[f][d].status # "NONE" => \E v \in Proc : fs[v] = f
      BY <2>1 DEF F!Good, F!OwnTables
    <3>2. ASSUME NEW f \in Fs, NEW d \in Fd, r.slot[f][d].status # "NONE"
          PROVE  \E v \in Proc : q[v] = f
      <4>1. f # fs[t]
        BY <2>2, <3>2
      <4>2. PICK v \in Proc : fs[v] = f
        BY <3>1, <3>2
      <4>3. v # t
        BY <4>1, <4>2
      <4> QED BY <1>6, <4>2, <4>3
    <3> QED BY <3>2
  <2>4. F!Good(q, r, op, {})
    BY <1>1, <1>6, <2>1, <2>3, TableKeeps
  <2>5. F!Good(fs', r, op, {}) /\ F!Become(r)
    BY <1>1, <1>8, <2>4
  <2> QED BY <1>1, <2>5, GoodAgain
<1> QED BY <1>2, <1>7, <1>8

(* Kill: a thread that sleeps is made runnable; it stays in the queue.     *)
LEMMA KillStep ==
    ASSUME F!IndInv, NEW t \in Proc, F!Kill(t)
    PROVE  F!Good(fs, F!Here, op, {})'
<1> DEFINE h == F!Here
           r == [slot |-> slot, pipe |-> pipe, wait |-> wait']
<1>1. /\ wait' = [wait EXCEPT ![t] = IF wait[t] = "asleep" THEN "INTERRUPTED" ELSE wait[t]]
      /\ UNCHANGED <<fs, slot, pipe, op>>
  BY DEF F!Kill
<1>2. h = F!Here /\ r.slot = slot /\ r.pipe = pipe /\ r.wait = wait'
  OBVIOUS
<1>3. /\ F!Good(fs, h, op, {}) /\ h \in F!Parts
      /\ h.slot = slot /\ h.pipe = pipe /\ h.wait = wait
      /\ fs \in [Proc -> Fs \cup {NoFs}] /\ op \in [Proc -> F!Ops]
  <2> HIDE DEF h
  <2> QED BY <1>2, HereGood
<1>4. wait \in [Proc -> {"no", "asleep", "PIPE", "INTERRUPTED"}]
  <2> HIDE DEF h
  <2> QED BY <1>3, PartFields
<1>5. wait' \in [Proc -> {"no", "asleep", "PIPE", "INTERRUPTED"}]
  BY <1>1, <1>4
<1>6. r \in F!Parts
  <2>1. slot \in F!Files /\ pipe \in F!Pipes
    <3> HIDE DEF h
    <3> QED BY <1>3, PartFields
  <2> QED BY <1>5, <2>1 DEF F!Parts
<1> HIDE DEF h, r
<1>7. /\ F!Counted(fs, h, op, {}) /\ F!Referenced(h) /\ F!OwnTables(fs, h, op)
      /\ F!Blocked(h, op)
  BY <1>3 DEF F!Good
<1>8. F!Counted(fs, r, op, {}) /\ F!Referenced(r) /\ F!OwnTables(fs, r, op)
  BY <1>2, <1>3, <1>7, SameCounts
<1>9. F!Blocked(r, op)
  <2>1. \A v \in Proc : /\ r.wait[v] = "no" <=> h.wait[v] = "no"
                        /\ r.wait[v] = "asleep" => h.wait[v] = "asleep"
    BY <1>1, <1>2, <1>3, <1>4
  <2>2. r.pipe = h.pipe
    BY <1>2, <1>3
  <2> QED BY <1>7, <2>1, <2>2 DEF F!Blocked
<1>10. F!Good(fs, r, op, {})
  BY <1>3, <1>6, <1>8, <1>9 DEF F!Good
<1>11. F!Good(fs', r, op', {}) /\ F!Become(r)
  BY <1>1, <1>2, <1>10 DEF F!Become
<1> QED BY <1>1, <1>11, GoodAgain

(* An open slot is counted, and so is the end of the pipe behind it.       *)
LEMMA OpenedCounts ==
    ASSUME NEW p, NEW s, NEW o, NEW x, F!Good(p, s, o, x), NEW f \in Fs, NEW d \in Fd,
           s.slot[f][d].status = "OPENED"
    PROVE  s.pipe.open[s.slot[f][d].end] > 0
<1> DEFINE e == s.slot[f][d].end
<1>1. s \in F!Parts /\ F!Counted(p, s, o, x) /\ F!Referenced(s)
  BY DEF F!Good
<1>2. e \in F!End /\ s.slot[f][d].count \in Nat
  BY <1>1, SlotFields
<1>3. s.slot[f][d].count > 0
  <2>1. s.slot[f][d].status = "NONE" <=> s.slot[f][d].count = 0
    BY <1>1 DEF F!Counted
  <2> QED BY <1>2, <2>1
<1>4. <<f, d>> \in F!Users(s, e)
  BY <1>3 DEF F!Users
<1>5. F!Cardinality(F!Users(s, e)) \in Nat /\ F!Cardinality(F!Users(s, e)) # 0
  BY <1>4, FilesFinite, F!FS_EmptySet
<1> QED BY <1>1, <1>2, <1>5 DEF F!Referenced

(* FileDup                                                                 *)
LEMMA FileDupStep ==
    ASSUME F!IndInv, NEW t \in Proc, NEW d1 \in Fd, NEW d2 \in Fd, F!FileDup(t, d1, d2)
    PROVE  F!Good(fs, F!Here, op, {})'
<1> DEFINE h == F!Here
           f == fs[t]
           e == slot[f][d1].end
           r == [slot |-> slot', pipe |-> pipe', wait |-> wait]
           new == {d2}
<1>1. /\ f # NoFs /\ slot[f][d1].status = "OPENED" /\ slot[f][d2] = F!None
      /\ slot' = [slot EXCEPT ![f][d2] = [status |-> "OPENED", end |-> e, count |-> 1]]
      /\ pipe' = [pipe EXCEPT !.open[e] = pipe.open[e] + 1]
      /\ UNCHANGED <<fs, wait, op>>
  BY DEF F!FileDup, F!Calls, F!Opened
<1>2. h = F!Here /\ r.slot = slot' /\ r.pipe = pipe' /\ r.wait = wait
  OBVIOUS
<1> HIDE DEF h
<1>3. /\ F!Good(fs, h, op, {}) /\ h \in F!Parts
      /\ h.slot = slot /\ h.pipe = pipe /\ h.wait = wait
      /\ fs \in [Proc -> Fs \cup {NoFs}] /\ op \in [Proc -> F!Ops]
  BY <1>2, HereGood
<1>4. f \in Fs
  BY <1>1, <1>3
<1>5. /\ slot \in F!Files /\ pipe \in F!Pipes /\ pipe.open \in [F!End -> Nat]
      /\ wait \in [Proc -> {"no", "asleep", "PIPE", "INTERRUPTED"}]
  BY <1>3, PartFields
<1>6. e \in F!End /\ pipe.open[e] \in Nat
  BY <1>4, <1>5 DEF F!Files
<1>7. pipe.open[e] > 0
  <2>1. h.slot[f][d1].status = "OPENED"
    BY <1>1, <1>3
  <2>2. h.pipe.open[h.slot[f][d1].end] > 0
    <3> HIDE DEF f
    <3> QED BY <1>3, <1>4, <2>1, OpenedCounts
  <2> QED BY <1>3, <2>2
<1> HIDE DEF e, f
<1>8. /\ slot' \in F!Files
      /\ \A g \in Fs \ {f} : slot'[g] = slot[g]
      /\ \A d \in Fd \ {d2} : slot'[f][d] = slot[f][d]
      /\ slot'[f][d2] = [status |-> "OPENED", end |-> e, count |-> 1]
  BY <1>1, <1>4, <1>5, <1>6 DEF F!Files
<1>9. /\ pipe' \in F!Pipes /\ pipe'.open \in [F!End -> Nat]
      /\ pipe'.open[e] = pipe.open[e] + 1 /\ \A x \in F!End \ {e} : pipe'.open[x] = pipe.open[x]
      /\ pipe'.ref_count = pipe.ref_count /\ pipe'.size = pipe.size
      /\ pipe'.isclosed = pipe.isclosed
      /\ pipe'.reader_queue = pipe.reader_queue /\ pipe'.writer_queue = pipe.writer_queue
  BY <1>1, <1>5, <1>6 DEF F!Pipes
<1>10. r \in F!Parts
  BY <1>5, <1>8, <1>9 DEF F!Parts
<1> HIDE DEF r
<1>11. OpensSlots(h, r, f, new)
  <2>1. \A x \in F!End : r.pipe.open[x] = h.pipe.open[x]
                           + F!Cardinality({d \in new : r.slot[f][d].end = x})
    <3> TAKE x \in F!End
    <3> DEFINE mine == {d \in new : r.slot[f][d].end = x}
    <3>1. r.slot[f][d2].end = e
      BY <1>2, <1>8
    <3>2. CASE x = e
      <4>1. mine = {d2}
        BY <3>1, <3>2
      <4>2. F!Cardinality(mine) = 1
        BY <4>1, F!FS_Singleton
      <4> HIDE DEF mine
      <4>3. r.pipe.open[x] = h.pipe.open[x] + 1
        BY <1>2, <1>3, <1>9, <3>2
      <4>4. r.pipe.open[x] = h.pipe.open[x] + F!Cardinality(mine)
        BY <4>2, <4>3
      <4> QED BY <4>4 DEF mine
    <3>3. CASE x # e
      <4>1. mine = {}
        BY <3>1, <3>3
      <4>2. F!Cardinality(mine) = 0
        BY <4>1, F!FS_EmptySet
      <4> HIDE DEF mine
      <4>3. r.pipe.open[x] = h.pipe.open[x] /\ h.pipe.open[x] \in Nat
        BY <1>2, <1>3, <1>5, <1>9, <3>3
      <4>4. r.pipe.open[x] = h.pipe.open[x] + F!Cardinality(mine)
        BY <4>2, <4>3
      <4> QED BY <4>4 DEF mine
    <3> QED BY <3>2, <3>3
  <2>2. h.slot[f][d2].status = "NONE"
    BY <1>1, <1>3 DEF F!None
  <2> QED BY <1>2, <1>3, <1>8, <2>1, <2>2 DEF OpensSlots
<1>12. r.pipe.ref_count = F!Cardinality(F!OpenEnds(r))
  <2>1. F!OpenEnds(r) = F!OpenEnds(h)
    BY <1>2, <1>3, <1>6, <1>7, <1>9 DEF F!OpenEnds
  <2>2. h.pipe.ref_count = F!Cardinality(F!OpenEnds(h))
    BY <1>3 DEF F!Good, F!Referenced
  <2> QED BY <1>2, <1>3, <1>9, <2>1, <2>2
<1>13. F!Blocked(r, op)
  <2>1. F!Blocked(h, op)
    BY <1>3 DEF F!Good
  <2> QED BY <1>2, <1>3, <1>9, <2>1 DEF F!Blocked
<1>14. new \in SUBSET Fd /\ \E v \in Proc : fs[v] = f
  BY DEF f
<1> HIDE DEF new
<1>15. F!Good(fs, r, op, {})
  BY <1>3, <1>4, <1>10, <1>11, <1>12, <1>13, <1>14, OpenKeeps
<1>16. F!Good(fs', r, op', {}) /\ F!Become(r)
  BY <1>1, <1>2, <1>15 DEF F!Become
<1> QED BY <1>1, <1>16, GoodAgain

(* Without a pipe no slot is in use and no thread is in a system call.     *)
LEMMA NothingOpen ==
    ASSUME NEW p, NEW s, NEW o, F!Good(p, s, o, {}), s.pipe.ref_count = 0
    PROVE  /\ \A e \in F!End : s.pipe.open[e] = 0
           /\ \A t \in Proc : o[t] = F!Idle /\ s.wait[t] = "no"
<1>1. /\ p \in [Proc -> Fs \cup {NoFs}] /\ s \in F!Parts /\ o \in [Proc -> F!Ops]
      /\ F!Counted(p, s, o, {}) /\ F!Referenced(s) /\ F!OwnTables(p, s, o) /\ F!Blocked(s, o)
  BY DEF F!Good
<1>2. F!OpenEnds(s) = {}
  <2>1. F!OpenEnds(s) \in SUBSET F!End
    BY DEF F!OpenEnds
  <2>2. F!IsFiniteSet(F!OpenEnds(s)) /\ F!Cardinality(F!OpenEnds(s)) = 0
    BY <1>1, <2>1, FilesFinite DEF F!Referenced
  <2> QED BY <2>2, F!FS_EmptySet
<1>3. \A e \in F!End : s.pipe.open[e] = 0
  <2>1. \A e \in F!End : s.pipe.open[e] \in Nat
    BY <1>1, PartFields
  <2> QED BY <1>2, <2>1 DEF F!OpenEnds
<1>4. \A e \in F!End : F!Users(s, e) = {}
  <2> TAKE e \in F!End
  <2>1. F!IsFiniteSet(F!Users(s, e)) /\ F!Cardinality(F!Users(s, e)) = 0
    BY <1>1, <1>3, FilesFinite DEF F!Referenced
  <2> QED BY <2>1, F!FS_EmptySet
<1>5. ASSUME NEW t \in Proc, o[t] # F!Idle PROVE FALSE
  <2> DEFINE f == p[t]
             d == o[t].fd
             e == s.slot[f][d].end
  <2>1. f \in Fs /\ d \in Fd
    BY <1>1, <1>5 DEF F!OwnTables
  <2>2. t \in F!In(p, o, f, d)
    BY <1>5 DEF F!In
  <2> HIDE DEF f, d
  <2>3. F!Cardinality(F!In(p, o, f, d)) \in Nat /\ F!Cardinality(F!In(p, o, f, d)) # 0
    BY <2>2, FilesFinite, F!FS_EmptySet
  <2>4. e \in F!End /\ s.slot[f][d].count \in Nat
    BY <1>1, <2>1, SlotFields
  <2>5. s.slot[f][d].count = F!Cardinality(F!In(p, o, f, d))
                               + (IF s.slot[f][d].status = "OPENED" THEN 1 ELSE 0)
    <3>1. s.slot[f][d].count = F!Cardinality(F!In(p, o, f, d))
                                  + (IF s.slot[f][d].status = "OPENED" THEN 1 ELSE 0)
                                  + (IF <<f, d>> \in {} THEN 1 ELSE 0)
      BY <1>1, <2>1 DEF F!Counted
    <3> QED BY <2>3, <3>1
  <2>6. s.slot[f][d].count > 0
    BY <2>3, <2>5
  <2>7. <<f, d>> \in F!Users(s, e)
    BY <2>1, <2>6 DEF F!Users
  <2> QED BY <1>4, <2>4, <2>7
<1> QED BY <1>1, <1>3, <1>5 DEF F!Blocked

(* FilePipe                                                                *)
LEMMA FilePipeStep ==
    ASSUME F!IndInv, NEW t \in Proc, NEW d1 \in Fd, NEW d2 \in Fd, F!FilePipe(t, d1, d2)
    PROVE  F!Good(fs, F!Here, op, {})'
<1> DEFINE h == F!Here
           f == fs[t]
           r == [slot |-> slot', pipe |-> pipe', wait |-> wait]
           new == {d1, d2}
           a == [status |-> "OPENED", end |-> "r", count |-> 1]
           b == [status |-> "OPENED", end |-> "w", count |-> 1]
<1>1. /\ f # NoFs /\ pipe.ref_count = 0 /\ d1 # d2
      /\ slot[f][d1].status = "NONE" /\ slot[f][d2].status = "NONE"
      /\ slot' = [slot EXCEPT ![f][d1] = a, ![f][d2] = b]
      /\ pipe' = [F!NoPipe EXCEPT !.ref_count = 2, !.open = [e \in F!End |-> 1]]
      /\ UNCHANGED <<fs, wait, op>>
  BY DEF F!FilePipe, F!Calls, F!None
<1>2. h = F!Here /\ r.slot = slot' /\ r.pipe = pipe' /\ r.wait = wait
  OBVIOUS
<1> HIDE DEF h
<1>3. /\ F!Good(fs, h, op, {}) /\ h \in F!Parts
      /\ h.slot = slot /\ h.pipe = pipe /\ h.wait = wait
      /\ fs \in [Proc -> Fs \cup {NoFs}] /\ op \in [Proc -> F!Ops]
  BY <1>2, HereGood
<1>4. f \in Fs
  BY <1>1, <1>3
<1>5. slot \in F!Files /\ wait \in [Proc -> {"no", "asleep", "PIPE", "INTERRUPTED"}]
  BY <1>3, PartFields
<1>6. /\ \A e \in F!End : h.pipe.open[e] = 0
      /\ \A v \in Proc : op[v] = F!Idle /\ h.wait[v] = "no"
  <2>1. h.pipe.ref_count = 0
    BY <1>1, <1>3
  <2> QED BY <1>3, <2>1, NothingOpen
<1> HIDE DEF f
<1>7. /\ a \in [status : {"NONE", "OPENED", "CLOSED"}, end : F!End, count : Nat]
      /\ b \in [status : {"NONE", "OPENED", "CLOSED"}, end : F!End, count : Nat]
      /\ a.status = "OPENED" /\ a.end = "r" /\ a.count = 1
      /\ b.status = "OPENED" /\ b.end = "w" /\ b.count = 1
  BY DEF F!End
<1> HIDE DEF a, b
<1>8. /\ slot' \in F!Files
      /\ \A g \in Fs \ {f} : slot'[g] = slot[g]
      /\ \A d \in Fd \ {d1, d2} : slot'[f][d] = slot[f][d]
      /\ slot'[f][d1] = a /\ slot'[f][d2] = b
  BY <1>1, <1>4, <1>5, <1>7 DEF F!Files
<1>9. /\ pipe' \in F!Pipes /\ pipe'.open = [e \in F!End |-> 1] /\ pipe'.ref_count = 2
      /\ pipe'.reader_queue = {} /\ pipe'.writer_queue = {}
  <2>1. pipe' = [size |-> 0, isclosed |-> FALSE, ref_count |-> 2, open |-> [e \in F!End |-> 1],
                 reader_queue |-> {}, writer_queue |-> {}]
    BY <1>1 DEF F!NoPipe
  <2>2. [e \in F!End |-> 1] \in [F!End -> Nat] /\ 0 \in 0 .. BufSize /\ 2 \in 0 .. 2
    BY FilesFacts
  <2> QED BY <2>1, <2>2 DEF F!Pipes
<1>10. r \in F!Parts
  BY <1>5, <1>8, <1>9 DEF F!Parts
<1> HIDE DEF r
<1>11. OpensSlots(h, r, f, new)
  <2>1. \A x \in F!End : r.pipe.open[x] = h.pipe.open[x]
                           + F!Cardinality({d \in new : r.slot[f][d].end = x})
    <3> TAKE x \in F!End
    <3> DEFINE mine == {d \in new : r.slot[f][d].end = x}
    <3>1. r.slot[f][d1].end = "r" /\ r.slot[f][d2].end = "w"
      BY <1>2, <1>7, <1>8
    <3>2. mine = {d1} \/ mine = {d2}
      BY <3>1 DEF F!End
    <3> HIDE DEF mine
    <3>3. F!Cardinality(mine) = 1
      BY <3>2, F!FS_Singleton
    <3>4. r.pipe.open[x] = 1 /\ h.pipe.open[x] = 0
      BY <1>2, <1>6, <1>9
    <3>5. r.pipe.open[x] = h.pipe.open[x] + F!Cardinality(mine)
      BY <3>3, <3>4
    <3> QED BY <3>5 DEF mine
  <2>2. \A d \in new : /\ h.slot[f][d].status = "NONE"
                       /\ r.slot[f][d].status = "OPENED" /\ r.slot[f][d].count = 1
    BY <1>1, <1>2, <1>3, <1>7, <1>8
  <2>3. \A d \in Fd \ new : r.slot[f][d] = h.slot[f][d]
    BY <1>2, <1>3, <1>8
  <2>4. \A g \in Fs \ {f} : r.slot[g] = h.slot[g]
    BY <1>2, <1>3, <1>8
  <2> HIDE DEF new
  <2> QED BY <2>1, <2>2, <2>3, <2>4 DEF OpensSlots
<1>12. r.pipe.ref_count = F!Cardinality(F!OpenEnds(r))
  <2>1. F!OpenEnds(r) = {"r"} \cup {"w"} /\ "w" \notin {"r"}
    BY <1>2, <1>9 DEF F!OpenEnds, F!End
  <2>2. F!IsFiniteSet({"r"}) /\ F!Cardinality({"r"}) = 1
    BY F!FS_Singleton
  <2>3. F!Cardinality({"r"} \cup {"w"}) = F!Cardinality({"r"}) + 1
    BY <2>1, <2>2, F!FS_AddElement
  <2> QED BY <1>2, <1>9, <2>1, <2>2, <2>3
<1>13. F!Blocked(r, op)
  <2>1. \A v \in Proc : op[v] = F!Idle /\ r.wait[v] = "no"
    BY <1>2, <1>3, <1>6
  <2>2. r.pipe.reader_queue = {} /\ r.pipe.writer_queue = {}
    BY <1>2, <1>9
  <2> QED BY <2>1, <2>2 DEF F!Blocked
<1>14. new \in SUBSET Fd /\ \E v \in Proc : fs[v] = f
  BY DEF f
<1> HIDE DEF new
<1>15. F!Good(fs, r, op, {})
  BY <1>3, <1>4, <1>10, <1>11, <1>12, <1>13, <1>14, OpenKeeps
<1>16. F!Good(fs', r, op', {}) /\ F!Become(r)
  BY <1>1, <1>2, <1>15 DEF F!Become
<1> QED BY <1>1, <1>16, GoodAgain

(* CopyFs: the copies are more open slots of the same ends.                *)
LEMMA CopyFsStep ==
    ASSUME F!IndInv, NEW t \in Proc, NEW u \in Proc, NEW g \in Fs, F!CopyFs(t, u, g)
    PROVE  F!Good(fs, F!Here, op, {})'
<1> DEFINE h == F!Here
           f == fs[t]
           q == [fs EXCEPT ![u] = g]
           r == [slot |-> slot', pipe |-> pipe', wait |-> wait]
           new == {d \in Fd : slot[f][d].status = "OPENED"}
           Of(e) == {d \in Fd : slot[f][d].status = "OPENED" /\ slot[f][d].end = e}
           copy(d) == IF slot[f][d].status = "OPENED" THEN [slot[f][d] EXCEPT !.count = 1]
                      ELSE F!None
<1>1. /\ f # NoFs /\ fs[u] = NoFs /\ (\A v \in Proc : fs[v] # g) /\ fs' = q
      /\ slot' = [slot EXCEPT ![g] = [d \in Fd |-> copy(d)]]
      /\ pipe' = [pipe EXCEPT !.open = [e \in F!End |-> pipe.open[e] + F!Cardinality(Of(e))]]
      /\ UNCHANGED <<wait, op>>
  BY DEF F!CopyFs, F!Calls, F!Opened
<1>2. h = F!Here /\ r.slot = slot' /\ r.pipe = pipe' /\ r.wait = wait
  OBVIOUS
<1> HIDE DEF h
<1>3. /\ F!Good(fs, h, op, {}) /\ h \in F!Parts
      /\ h.slot = slot /\ h.pipe = pipe /\ h.wait = wait
      /\ fs \in [Proc -> Fs \cup {NoFs}] /\ op \in [Proc -> F!Ops]
  BY <1>2, HereGood
<1>4. f \in Fs /\ f # g /\ op[u] = F!Idle
  <2>1. op[u] = F!Idle
    BY <1>1, <1>3, FilesFacts DEF F!Good, F!OwnTables
  <2> QED BY <1>1, <1>3, <2>1
<1>5. /\ slot \in F!Files /\ pipe \in F!Pipes /\ pipe.open \in [F!End -> Nat]
      /\ wait \in [Proc -> {"no", "asleep", "PIPE", "INTERRUPTED"}]
  BY <1>3, PartFields
<1>6. q \in [Proc -> Fs \cup {NoFs}] /\ (\A v \in Proc \ {u} : q[v] = fs[v]) /\ q[u] = g
  BY <1>3
<1> HIDE DEF q, f
<1>7. F!Good(q, h, op, {})
  <2>1. \A k \in Fs, d \in Fd : h.slot[k][d].status # "NONE" => \E v \in Proc : q[v] = k
    <3>1. \A k \in Fs, d \in Fd : h.slot[k][d].status # "NONE" => \E v \in Proc : fs[v] = k
      BY <1>3 DEF F!Good, F!OwnTables
    <3>2. \A k \in Fs, v \in Proc : fs[v] = k => q[v] = k
      BY <1>1, <1>6, FilesFacts
    <3> QED BY <3>1, <3>2
  <2> QED BY <1>3, <1>4, <1>6, <2>1, TableKeeps
<1>8. \A d \in Fd : h.slot[g][d].status = "NONE" /\ h.slot[g][d].count = 0
  <2>1. \A d \in Fd : h.slot[g][d].status = "NONE"
    BY <1>1, <1>3 DEF F!Good, F!OwnTables
  <2>2. \A d \in Fd : h.slot[g][d].status = "NONE" <=> h.slot[g][d].count = 0
    BY <1>3 DEF F!Good, F!Counted
  <2> QED BY <2>1, <2>2
<1>9. \A d \in Fd :
        /\ slot[f][d] \in [status : {"NONE", "OPENED", "CLOSED"}, end : F!End, count : Nat]
        /\ copy(d) \in [status : {"NONE", "OPENED", "CLOSED"}, end : F!End, count : Nat]
        /\ d \in new => copy(d).status = "OPENED" /\ copy(d).count = 1
                         /\ copy(d).end = slot[f][d].end
        /\ d \notin new => copy(d).status = "NONE" /\ copy(d).count = 0
  <2> TAKE d \in Fd
  <2>1. slot[f][d] \in [status : {"NONE", "OPENED", "CLOSED"}, end : F!End, count : Nat]
    BY <1>4, <1>5 DEF F!Files
  <2>2. F!None \in [status : {"NONE", "OPENED", "CLOSED"}, end : F!End, count : Nat]
        /\ F!None.status = "NONE" /\ F!None.count = 0
    BY DEF F!None, F!End
  <2> QED BY <2>1, <2>2
<1> HIDE DEF copy
<1>10. /\ slot' \in F!Files
       /\ \A k \in Fs \ {g} : slot'[k] = slot[k]
       /\ \A d \in Fd : slot'[g][d] = copy(d)
  BY <1>1, <1>5, <1>9 DEF F!Files
<1>11. \A e \in F!End : Of(e) \in SUBSET Fd /\ F!Cardinality(Of(e)) \in Nat
  BY FilesFinite
<1>12. \A e \in F!End : Of(e) = {d \in new : r.slot[g][d].end = e}
  BY <1>2, <1>9, <1>10
<1>13. \A e \in F!End : Of(e) # {} => h.pipe.open[e] > 0
  <2> SUFFICES ASSUME NEW e \in F!End, NEW d \in Of(e)
               PROVE  h.pipe.open[e] > 0
    OBVIOUS
  <2>1. d \in Fd /\ h.slot[f][d].status = "OPENED" /\ h.slot[f][d].end = e
    BY <1>3
  <2>2. h.pipe.open[h.slot[f][d].end] > 0
    BY <1>3, <1>4, <2>1, OpenedCounts
  <2> QED BY <2>1, <2>2
<1> DEFINE opens == [e \in F!End |-> pipe.open[e] + F!Cardinality(Of(e))]
<1> HIDE DEF Of
<1>14. opens \in [F!End -> Nat]
  BY <1>5, <1>11
<1>15. \A e \in F!End : opens[e] = pipe.open[e] + F!Cardinality(Of(e))
  OBVIOUS
<1>16. pipe' = [pipe EXCEPT !.open = opens]
  BY <1>1
<1> HIDE DEF opens
<1>17. /\ pipe' \in F!Pipes /\ pipe'.open = opens
       /\ pipe'.ref_count = pipe.ref_count /\ pipe'.size = pipe.size
       /\ pipe'.isclosed = pipe.isclosed
       /\ pipe'.reader_queue = pipe.reader_queue /\ pipe'.writer_queue = pipe.writer_queue
  BY <1>5, <1>14, <1>16 DEF F!Pipes
<1>18. r \in F!Parts
  BY <1>5, <1>10, <1>17 DEF F!Parts
<1> HIDE DEF r
<1>19. OpensSlots(h, r, g, new)
  <2>1. \A e \in F!End : r.pipe.open[e] = h.pipe.open[e]
                           + F!Cardinality({d \in new : r.slot[g][d].end = e})
    BY <1>2, <1>3, <1>12, <1>15, <1>17
  <2>2. \A d \in new : /\ h.slot[g][d].status = "NONE"
                       /\ r.slot[g][d].status = "OPENED" /\ r.slot[g][d].count = 1
    BY <1>2, <1>8, <1>9, <1>10
  <2>3. \A d \in Fd \ new : /\ r.slot[g][d].status = h.slot[g][d].status
                            /\ r.slot[g][d].count = h.slot[g][d].count
                            /\ ~(h.slot[g][d].count > 0)
    BY <1>2, <1>8, <1>9, <1>10
  <2>4. \A k \in Fs \ {g} : r.slot[k] = h.slot[k]
    BY <1>2, <1>3, <1>10
  <2> HIDE DEF new
  <2> QED BY <2>1, <2>2, <2>3, <2>4 DEF OpensSlots
<1>20. r.pipe.ref_count = F!Cardinality(F!OpenEnds(r))
  <2>1. \A e \in F!End : r.pipe.open[e] > 0 <=> h.pipe.open[e] > 0
    <3> TAKE e \in F!End
    <3>1. r.pipe.open[e] = h.pipe.open[e] + F!Cardinality(Of(e)) /\ h.pipe.open[e] \in Nat
      BY <1>2, <1>3, <1>5, <1>15, <1>17
    <3>2. CASE Of(e) = {}
      <4>1. F!Cardinality(Of(e)) = 0
        BY <3>2, F!FS_EmptySet
      <4> QED BY <3>1, <4>1
    <3>3. CASE Of(e) # {}
      <4>1. h.pipe.open[e] > 0 /\ F!Cardinality(Of(e)) \in Nat
        BY <1>11, <1>13, <3>3
      <4> QED BY <3>1, <4>1
    <3> QED BY <3>2, <3>3
  <2>2. F!OpenEnds(r) = F!OpenEnds(h)
    BY <2>1 DEF F!OpenEnds
  <2>3. h.pipe.ref_count = F!Cardinality(F!OpenEnds(h))
    BY <1>3 DEF F!Good, F!Referenced
  <2> QED BY <1>2, <1>3, <1>17, <2>2, <2>3
<1>21. F!Blocked(r, op)
  <2>1. F!Blocked(h, op)
    BY <1>3 DEF F!Good
  <2> QED BY <1>2, <1>3, <1>17, <2>1 DEF F!Blocked
<1>22. new \in SUBSET Fd /\ \E v \in Proc : q[v] = g
  BY <1>6
<1> HIDE DEF new
<1>23. F!Good(q, r, op, {})
  BY <1>7, <1>18, <1>19, <1>20, <1>21, <1>22, OpenKeeps
<1>24. F!Good(fs', r, op, {}) /\ F!Become(r)
  BY <1>1, <1>2, <1>23 DEF F!Become
<1> QED BY <1>1, <1>24, GoodAgain

(* No slot is in use and no thread in a system call to begin with.         *)
LEMMA FilesInit == F!Init => F!IndInv
<1> SUFFICES ASSUME F!Init PROVE F!IndInv
  OBVIOUS
<1> DEFINE h == F!Here
<1>1. PICK t \in Proc, f \in Fs :
        /\ fs = [u \in Proc |-> IF u = t THEN f ELSE NoFs]
        /\ slot = [g \in Fs |-> [d \in Fd |-> F!None]]
        /\ pipe = F!NoPipe
        /\ wait = [u \in Proc |-> "no"]
        /\ op = [u \in Proc |-> F!Idle]
        /\ killed = {}
  BY DEF F!Init
<1>2. /\ h.slot = slot /\ h.pipe = pipe /\ h.wait = wait
      /\ h = [slot |-> slot, pipe |-> pipe, wait |-> wait]
  BY DEF F!Here
<1>3. /\ F!None \in [status : {"NONE", "OPENED", "CLOSED"}, end : F!End, count : Nat]
      /\ F!None.status = "NONE" /\ F!None.count = 0
  BY DEF F!None, F!End
<1>4. /\ F!NoPipe \in F!Pipes /\ F!NoPipe.ref_count = 0
      /\ (\A e \in F!End : F!NoPipe.open[e] = 0)
      /\ F!NoPipe.reader_queue = {} /\ F!NoPipe.writer_queue = {}
  <2>1. [e \in F!End |-> 0] \in [F!End -> Nat] /\ 0 \in 0 .. BufSize /\ 0 \in 0 .. 2
    BY FilesFacts
  <2> QED BY <2>1 DEF F!NoPipe, F!Pipes
<1>5. F!Idle \in F!Ops
  BY FilesFacts DEF F!Idle, F!Ops
<1>6. slot \in F!Files /\ \A g \in Fs, d \in Fd : slot[g][d] = F!None
  BY <1>1, <1>3 DEF F!Files
<1>7. h \in F!Parts
  BY <1>1, <1>2, <1>4, <1>6 DEF F!Parts
<1>8. op \in [Proc -> F!Ops] /\ fs \in [Proc -> Fs \cup {NoFs}] /\ \A u \in Proc : op[u] = F!Idle
  BY <1>1, <1>5
<1> HIDE DEF h
<1>9. F!Counted(fs, h, op, {})
  <2> SUFFICES ASSUME NEW g \in Fs, NEW d \in Fd
               PROVE  /\ h.slot[g][d].count = F!Cardinality(F!In(fs, op, g, d))
                            + (IF h.slot[g][d].status = "OPENED" THEN 1 ELSE 0)
                            + (IF <<g, d>> \in {} THEN 1 ELSE 0)
                      /\ h.slot[g][d].status = "NONE" <=> h.slot[g][d].count = 0
    BY DEF F!Counted
  <2>1. F!In(fs, op, g, d) = {}
    BY <1>8 DEF F!In
  <2>2. F!Cardinality(F!In(fs, op, g, d)) = 0
    BY <2>1, F!FS_EmptySet
  <2> QED BY <1>2, <1>3, <1>6, <2>2
<1>10. F!Referenced(h)
  <2>1. \A e : F!Users(h, e) = {}
    BY <1>2, <1>3, <1>6 DEF F!Users
  <2>2. F!OpenEnds(h) = {}
    BY <1>1, <1>2, <1>4 DEF F!OpenEnds
  <2>3. F!Cardinality({}) = 0
    BY F!FS_EmptySet
  <2> QED BY <1>1, <1>2, <1>4, <2>1, <2>2, <2>3 DEF F!Referenced
<1>11. F!OwnTables(fs, h, op)
  BY <1>2, <1>3, <1>6, <1>8 DEF F!OwnTables
<1>12. F!Blocked(h, op)
  BY <1>1, <1>2, <1>4, <1>8 DEF F!Blocked
<1>13. F!Good(fs, h, op, {})
  BY <1>7, <1>8, <1>9, <1>10, <1>11, <1>12 DEF F!Good
<1> QED BY <1>1, <1>13 DEF F!IndInv, h

(* Every step keeps the invariant.                                         *)
LEMMA FilesStep == F!IndInv /\ [F!Next]_F!vars => F!IndInv'
<1> SUFFICES ASSUME F!IndInv, [F!Next]_F!vars PROVE F!IndInv'
  OBVIOUS
<1>1. killed \in SUBSET Proc
  BY DEF F!IndInv
<1>2. ASSUME F!Good(fs, F!Here, op, {})', killed' \in SUBSET Proc PROVE F!IndInv'
  BY <1>2 DEF F!IndInv
<1>3. CASE F!Next
  <2>1. PICK t \in Proc :
          \/ \E d \in Fd, len \in 1 .. MaxLen : F!SysfileRead(t, d, len) \/ F!SysfileWrite(t, d, len)
          \/ F!ResumeRead(t) \/ F!ResumeWrite(t)
          \/ \E d1, d2 \in Fd : F!FilePipe(t, d1, d2) \/ F!FileDup(t, d1, d2)
          \/ \E d \in Fd : F!FileClose(t, d)
          \/ \E u \in Proc : F!CloneFs(t, u) \/ \E g \in Fs : F!CopyFs(t, u, g)
          \/ F!Execve(t) \/ F!Exit(t) \/ F!Kill(t)
    BY <1>3 DEF F!Next
  <2>2. CASE \E d \in Fd, len \in 1 .. MaxLen : F!SysfileRead(t, d, len) \/ F!SysfileWrite(t, d, len)
    <3>1. PICK d \in Fd, len \in 1 .. MaxLen : F!SysfileRead(t, d, len) \/ F!SysfileWrite(t, d, len)
      BY <2>2
    <3>2. killed' = killed
      BY <3>1 DEF F!SysfileRead, F!SysfileWrite
    <3>3. F!Good(fs, F!Here, op, {})'
      BY <3>1, SysfileStep
    <3> QED BY <1>1, <1>2, <3>2, <3>3
  <2>3. CASE F!ResumeRead(t)
    <3>1. killed' = killed
      BY <2>3 DEF F!ResumeRead
    <3>2. F!Good(fs, F!Here, op, {})'
      BY <2>3, ResumeReadStep
    <3> QED BY <1>1, <1>2, <3>1, <3>2
  <2>4. CASE F!ResumeWrite(t)
    <3>1. killed' = killed
      BY <2>4 DEF F!ResumeWrite
    <3>2. F!Good(fs, F!Here, op, {})'
      BY <2>4, ResumeWriteStep
    <3> QED BY <1>1, <1>2, <3>1, <3>2
  <2>5. CASE \E d1, d2 \in Fd : F!FilePipe(t, d1, d2) \/ F!FileDup(t, d1, d2)
    <3>1. PICK d1 \in Fd, d2 \in Fd : F!FilePipe(t, d1, d2) \/ F!FileDup(t, d1, d2)
      BY <2>5
    <3>2. killed' = killed
      BY <3>1 DEF F!FilePipe, F!FileDup
    <3>3. F!Good(fs, F!Here, op, {})'
      BY <3>1, FilePipeStep, FileDupStep
    <3> QED BY <1>1, <1>2, <3>2, <3>3
  <2>6. CASE \E d \in Fd : F!FileClose(t, d)
    <3>1. PICK d \in Fd : F!FileClose(t, d)
      BY <2>6
    <3>2. killed' = killed
      BY <3>1 DEF F!FileClose
    <3>3. F!Good(fs, F!Here, op, {})'
      BY <3>1, FileCloseStep
    <3> QED BY <1>1, <1>2, <3>2, <3>3
  <2>7. CASE \E u \in Proc : F!CloneFs(t, u) \/ \E g \in Fs : F!CopyFs(t, u, g)
    <3>1. PICK u \in Proc : F!CloneFs(t, u) \/ \E g \in Fs : F!CopyFs(t, u, g)
      BY <2>7
    <3>2. killed' = killed
      BY <3>1 DEF F!CloneFs, F!CopyFs
    <3>3. F!Good(fs, F!Here, op, {})'
      BY <3>1, CloneFsStep, CopyFsStep
    <3> QED BY <1>1, <1>2, <3>2, <3>3
  <2>8. CASE F!Execve(t)
    <3>1. killed' = killed
      BY <2>8 DEF F!Execve
    <3>2. F!Good(fs, F!Here, op, {})'
      BY <2>8, ExecveStep
    <3> QED BY <1>1, <1>2, <3>1, <3>2
  <2>9. CASE F!Exit(t)
    <3>1. killed' \in SUBSET Proc
      BY <1>1, <2>9 DEF F!Exit
    <3>2. F!Good(fs, F!Here, op, {})'
      BY <2>9, ExitStep
    <3> QED BY <1>2, <3>1, <3>2
  <2>10. CASE F!Kill(t)
    <3>1. killed' \in SUBSET Proc
      BY <1>1, <2>10 DEF F!Kill
    <3>2. F!Good(fs, F!Here, op, {})'
      BY <2>10, KillStep
    <3> QED BY <1>2, <3>1, <3>2
  <2> QED BY <2>1, <2>2, <2>3, <2>4, <2>5, <2>6, <2>7, <2>8, <2>9, <2>10
<1>4. CASE UNCHANGED F!vars
  <2> DEFINE h == F!Here
  <2>1. h = F!Here
    OBVIOUS
  <2>2. fs' = fs /\ slot' = slot /\ pipe' = pipe /\ wait' = wait /\ op' = op /\ killed' = killed
    BY <1>4 DEF F!vars
  <2> HIDE DEF h
  <2>3. F!Good(fs, h, op, {}) /\ h.slot = slot /\ h.pipe = pipe /\ h.wait = wait
    BY <2>1, HereGood
  <2>4. F!Good(fs', h, op, {}) /\ F!Become(h)
    BY <2>2, <2>3 DEF F!Become
  <2>5. F!Good(fs, F!Here, op, {})'
    BY <2>2, <2>4, GoodAgain
  <2> QED BY <1>1, <1>2, <2>2, <2>5
<1> QED BY <1>3, <1>4

(* What the invariant is for.                                              *)
LEMMA FilesMeans ==
    ASSUME F!IndInv
    PROVE  F!TypeOK /\ F!NoPipeWaiterStuck /\ F!KeptWhileUsed
<1> DEFINE h == F!Here
<1>1. h = F!Here
  OBVIOUS
<1> HIDE DEF h
<1>2. /\ F!Good(fs, h, op, {}) /\ h \in F!Parts
      /\ h.slot = slot /\ h.pipe = pipe /\ h.wait = wait
      /\ fs \in [Proc -> Fs \cup {NoFs}] /\ op \in [Proc -> F!Ops]
  BY <1>1, HereGood
<1>3. /\ F!Counted(fs, h, op, {}) /\ F!Referenced(h) /\ F!OwnTables(fs, h, op)
      /\ F!Blocked(h, op)
  BY <1>2 DEF F!Good
<1>4. F!TypeOK
  <2>1. slot \in F!Files /\ pipe \in F!Pipes
        /\ wait \in [Proc -> {"no", "asleep", "PIPE", "INTERRUPTED"}]
    BY <1>2, PartFields
  <2>2. killed \in SUBSET Proc
    BY DEF F!IndInv
  <2> QED BY <1>2, <2>1, <2>2 DEF F!TypeOK
<1>5. F!NoPipeWaiterStuck
  BY <1>2, <1>3 DEF F!NoPipeWaiterStuck, F!Blocked
<1>6. \A f \in Fs, d \in Fd :
        /\ slot[f][d].count = F!Cardinality(F!In(fs, op, f, d))
                                + (IF slot[f][d].status = "OPENED" THEN 1 ELSE 0)
        /\ slot[f][d].status = "NONE" <=> slot[f][d].count = 0
        /\ slot[f][d].count \in Nat
        /\ F!Cardinality(F!In(fs, op, f, d)) \in Nat
  <2> TAKE f \in Fs, d \in Fd
  <2>1. h.slot[f][d].count \in Nat /\ F!Cardinality(F!In(fs, op, f, d)) \in Nat
    BY <1>2, SlotFields, FilesFinite
  <2>2. /\ h.slot[f][d].count = F!Cardinality(F!In(fs, op, f, d))
                                  + (IF h.slot[f][d].status = "OPENED" THEN 1 ELSE 0)
                                  + (IF <<f, d>> \in {} THEN 1 ELSE 0)
        /\ h.slot[f][d].status = "NONE" <=> h.slot[f][d].count = 0
    BY <1>3 DEF F!Counted
  <2> QED BY <1>2, <2>1, <2>2
<1>7. F!KeptWhileUsed
  <2> SUFFICES ASSUME NEW t \in Proc, op[t] # F!Idle
               PROVE  /\ slot[fs[t]][op[t].fd].status # "NONE"
                      /\ slot[fs[t]][op[t].fd].end = op[t].call /\ pipe.open[op[t].call] > 0
    BY DEF F!KeptWhileUsed
  <2> DEFINE f == fs[t]
             d == op[t].fd
             e == op[t].call
  <2>1. f \in Fs /\ d \in Fd /\ e \in F!End /\ slot[f][d].end = e
    BY <1>2, <1>3 DEF F!OwnTables
  <2>2. t \in F!In(fs, op, f, d)
    BY DEF F!In
  <2> HIDE DEF f, d, e
  <2>3. F!Cardinality(F!In(fs, op, f, d)) # 0
    BY <2>2, FilesFinite, F!FS_EmptySet
  <2>4. slot[f][d].count > 0
    BY <1>6, <2>1, <2>3
  <2>5. <<f, d>> \in F!Users(h, e)
    BY <1>2, <2>1, <2>4 DEF F!Users
  <2>6. F!Cardinality(F!Users(h, e)) \in Nat /\ F!Cardinality(F!Users(h, e)) # 0
    BY <2>5, FilesFinite, F!FS_EmptySet
  <2>7. pipe.open[e] > 0
    BY <1>2, <1>3, <2>1, <2>6 DEF F!Referenced
  <2>8. slot[f][d].status # "NONE"
    BY <1>6, <2>1, <2>4
  <2> QED BY <2>1, <2>7, <2>8 DEF f, d, e
<1> QED BY <1>4, <1>5, <1>7

(* Over read, write, dup, close, fork, exec, kill and exit by any number   *)
(* of threads, on tables of any size and a buffer of any size: no thread   *)
(* sleeps over a pipe that has what it waits for, a slot that a thread is  *)
(* inside is not given away, and all counts are exact.                     *)
THEOREM FilesLiveAsUsed == F!Spec => []FilesSound
<1>1. F!Init => F!IndInv
  BY FilesInit
<1>2. F!IndInv /\ [F!Next]_F!vars => F!IndInv'
  BY FilesStep
<1>3. F!IndInv => FilesSound
  BY FilesMeans DEF FilesSound
<1> QED BY <1>1, <1>2, <1>3, PTL DEF F!Spec
=============================================================================
