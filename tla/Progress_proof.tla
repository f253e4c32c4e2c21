--------------------------- MODULE Progress_proof ---------------------------
(***************************************************************************)
(* For every MAX_PID and every firmware table: no two processes have one   *)
(* pid, and the CPUs come up together.                                     *)
(***************************************************************************)
EXTENDS MCProgress, NaturalsInduction, WellFoundedInduction, TLAPS

-----------------------------------------------------------------------------
(* No pid is handed out twice, for every MAX_PID and every history of      *)
(* forks and waits.                                                        *)

(* No process is listed at boot, so the invariant holds.                   *)
LEMMA InitIndInv == Init => IndInv
BY PidAssumption
   DEF Init, IndInv, TypeOK, UniqueInList, SafeGap, ScanGap, GapFree

(* Putting a pid that no listed process has at the head of proc_list, as   *)
(* set_links does, keeps the pids distinct and well typed.                 *)
LEMMA LinksKeepUnique ==
  ASSUME TypeOK, UniqueInList, NEW pid \in 1 .. MaxPid - 1, SetLinks(pid),
         \A i \in DOMAIN proc_list : proc_list[i] # pid
  PROVE  /\ proc_list' \in Seq(1 .. MaxPid - 1)
         /\ Len(proc_list') = Len(proc_list) + 1
         /\ proc_list'[1] = pid
         /\ \A i \in 2 .. Len(proc_list') : proc_list'[i] = proc_list[i - 1]
         /\ UniqueInList'
<1>1. proc_list \in Seq(1 .. MaxPid - 1)
  BY DEF TypeOK
<1>2. /\ proc_list' \in Seq(1 .. MaxPid - 1)
      /\ Len(proc_list') = Len(proc_list) + 1
      /\ proc_list'[1] = pid
      /\ \A i \in 2 .. Len(proc_list') : proc_list'[i] = proc_list[i - 1]
  BY <1>1 DEF SetLinks
<1>3. UniqueInList'
  <2> SUFFICES ASSUME NEW i \in 1 .. Len(proc_list'), NEW j \in 1 .. Len(proc_list'),
                      proc_list'[i] = proc_list'[j]
               PROVE  i = j
    BY <1>2 DEF UniqueInList
  <2>1. ASSUME NEW k \in 2 .. Len(proc_list')
        PROVE  k - 1 \in DOMAIN proc_list /\ proc_list'[k] = proc_list[k - 1]
    BY <1>1, <1>2
  <2>2. CASE i = 1 \/ j = 1
    BY <1>1, <1>2, <2>1, <2>2
  <2>3. CASE i # 1 /\ j # 1
    <3>1. i - 1 = j - 1
      BY <1>1, <1>2, <2>1, <2>3 DEF UniqueInList
    <3> QED BY <3>1
  <2> QED BY <2>2, <2>3
<1> QED BY <1>2, <1>3

(* Every step of get_pid, do_fork and do_wait keeps the cached interval    *)
(* free of listed pids, and so the pids distinct.                          *)
LEMMA NextIndInv == IndInv /\ [Next]_vars => IndInv'
<1> SUFFICES ASSUME IndInv, [Next]_vars PROVE IndInv'
  OBVIOUS
<1> USE PidAssumption DEF IndInv
<1>1. CASE GetPidFast
  <2>1. \A i \in DOMAIN proc_list : proc_list[i] # last_pid + 1
    BY <1>1 DEF GetPidFast, SafeGap, GapFree, TypeOK
  <2>2. last_pid + 1 \in 1 .. MaxPid - 1
    BY <1>1 DEF GetPidFast, TypeOK
  <2>3. /\ proc_list' \in Seq(1 .. MaxPid - 1)
        /\ Len(proc_list') = Len(proc_list) + 1
        /\ proc_list'[1] = last_pid + 1
        /\ \A i \in 2 .. Len(proc_list') : proc_list'[i] = proc_list[i - 1]
        /\ UniqueInList'
    BY <1>1, <2>1, <2>2, LinksKeepUnique DEF GetPidFast
  <2>4. TypeOK' /\ ScanGap'
    BY <1>1, <2>2, <2>3 DEF GetPidFast, TypeOK, ScanGap
  <2>5. SafeGap'
    <3> SUFFICES ASSUME NEW i \in 1 .. Len(proc_list')
                 PROVE  GapFree(i)'
      BY <2>3 DEF SafeGap
    <3>1. CASE i = 1
      BY <1>1, <2>3, <3>1 DEF GetPidFast, GapFree, TypeOK
    <3>2. CASE i # 1
      <4>1. i - 1 \in DOMAIN proc_list /\ proc_list'[i] = proc_list[i - 1]
        BY <2>3, <3>2 DEF TypeOK
      <4>2. GapFree(i - 1) /\ proc_list[i - 1] \in 1 .. MaxPid - 1
        BY <1>1, <4>1 DEF GetPidFast, SafeGap, TypeOK
      <4> QED BY <1>1, <4>1, <4>2 DEF GetPidFast, GapFree, TypeOK
    <3> QED BY <3>1, <3>2
  <2> QED BY <2>3, <2>4, <2>5
<1>2. CASE GetPidScan
  BY <1>2 DEF GetPidScan, TypeOK, UniqueInList, SafeGap, ScanGap, GapFree
<1>3. CASE ScanTaken
  <2>1. TypeOK'
    BY <1>3 DEF ScanTaken, TypeOK, ScanGap
  <2>2. UniqueInList' /\ SafeGap'
    BY <1>3 DEF ScanTaken, UniqueInList, SafeGap
  <2>3. ScanGap'
    <3>1. CASE last_pid + 1 >= next_safe
      BY <1>3, <3>1, <2>1 DEF ScanTaken, TypeOK, ScanGap
    <3>2. CASE last_pid + 1 < next_safe
      <4>1. \A i \in 1 .. le' - 1 :
              proc_list[i] # last_pid + 1
              /\ (proc_list[i] <= last_pid + 1 \/ proc_list[i] >= next_safe)
        <5> SUFFICES ASSUME NEW i \in 1 .. le
                     PROVE  /\ proc_list[i] # last_pid + 1
                            /\ proc_list[i] <= last_pid + 1 \/ proc_list[i] >= next_safe
          BY <1>3, <3>2 DEF ScanTaken, TypeOK
        <5>1. CASE i = le
          BY <5>1, <1>3 DEF ScanTaken, TypeOK
        <5>2. CASE i \in 1 .. le - 1
          <6>1. proc_list[i] \in Nat
            BY <1>3, <5>2 DEF ScanTaken, TypeOK
          <6>2. proc_list[i] <= last_pid \/ proc_list[i] >= next_safe
            BY <1>3, <5>2 DEF ScanTaken, ScanGap, GapFree
          <6> QED BY <3>2, <6>1, <6>2 DEF TypeOK
        <5> QED BY <5>1, <5>2 DEF TypeOK
      <4> QED BY <1>3, <3>2, <4>1 DEF ScanTaken, TypeOK, ScanGap, GapFree
    <3> QED BY <3>1, <3>2 DEF TypeOK
  <2> QED BY <2>1, <2>2, <2>3
<1>4. CASE ScanOther
  <2> DEFINE p == proc_list[le]
  <2>1. p \in 1 .. MaxPid - 1 /\ p # last_pid
    BY <1>4 DEF ScanOther, TypeOK, ScanGap
  <2>2. /\ next_safe' = IF p > last_pid /\ next_safe > p THEN p ELSE next_safe
        /\ le' = le + 1
    BY <1>4 DEF ScanOther
  <2>3. /\ next_safe' \in 1 .. MaxPid /\ next_safe' <= next_safe
        /\ last_pid < next_safe'
    BY <1>4, <2>1, <2>2 DEF ScanOther, TypeOK, ScanGap
  <2>4. TypeOK'
    BY <1>4, <2>2, <2>3 DEF ScanOther, TypeOK
  <2>5. UniqueInList' /\ SafeGap'
    BY <1>4 DEF ScanOther, UniqueInList, SafeGap
  <2>6. \A i \in 1 .. le' - 1 :
          proc_list[i] # last_pid
          /\ (proc_list[i] <= last_pid \/ proc_list[i] >= next_safe')
    <3> SUFFICES ASSUME NEW i \in 1 .. le
                 PROVE  proc_list[i] # last_pid
                        /\ (proc_list[i] <= last_pid \/ proc_list[i] >= next_safe')
      BY <1>4, <2>2 DEF TypeOK
    <3>1. CASE i = le
      BY <3>1, <2>1, <2>2 DEF TypeOK
    <3>2. CASE i \in 1 .. le - 1
      BY <3>2, <1>4, <2>3 DEF ScanOther, ScanGap, GapFree, TypeOK
    <3> QED BY <3>1, <3>2 DEF TypeOK
  <2>7. ScanGap'
    BY <1>4, <2>3, <2>6 DEF ScanOther, TypeOK, ScanGap, GapFree
  <2> QED BY <2>4, <2>5, <2>7
<1>5. CASE ScanDone
  <2>1. /\ last_pid \in 1 .. MaxPid - 1
        /\ \A i \in DOMAIN proc_list : proc_list[i] # last_pid /\ GapFree(i)
    BY <1>5 DEF ScanDone, TypeOK, ScanGap
  <2>2. /\ proc_list' \in Seq(1 .. MaxPid - 1)
        /\ Len(proc_list') = Len(proc_list) + 1
        /\ proc_list'[1] = last_pid
        /\ \A i \in 2 .. Len(proc_list') : proc_list'[i] = proc_list[i - 1]
        /\ UniqueInList'
    BY <1>5, <2>1, LinksKeepUnique DEF ScanDone
  <2>3. TypeOK' /\ ScanGap'
    BY <1>5, <2>2 DEF ScanDone, TypeOK, ScanGap
  <2>4. SafeGap'
    BY <1>5, <2>1, <2>2 DEF ScanDone, TypeOK, SafeGap, GapFree
  <2> QED BY <2>2, <2>3, <2>4
<1>6. ASSUME NEW i \in DOMAIN proc_list, RemoveLinks(i) PROVE IndInv'
  <2>1. /\ proc_list' \in Seq(1 .. MaxPid - 1)
        /\ Len(proc_list') = Len(proc_list) - 1
        /\ \A j \in 1 .. Len(proc_list') :
             proc_list'[j] = IF j < i THEN proc_list[j] ELSE proc_list[j + 1]
    BY <1>6 DEF RemoveLinks, TypeOK
  <2>2. TypeOK' /\ ScanGap'
    BY <1>6, <2>1 DEF RemoveLinks, TypeOK, ScanGap
  <2>3. UniqueInList'
    <3> DEFINE old(j) == IF j < i THEN j ELSE j + 1
    <3>0. proc_list \in Seq(1 .. MaxPid - 1) /\ i \in 1 .. Len(proc_list)
      BY DEF TypeOK
    <3>1. ASSUME NEW j \in 1 .. Len(proc_list')
          PROVE  old(j) \in DOMAIN proc_list /\ proc_list'[j] = proc_list[old(j)]
      <4>1. j \in 1 .. Len(proc_list) - 1
        BY <2>1
      <4>2. old(j) \in DOMAIN proc_list
        BY <3>0, <4>1
      <4>3. CASE j < i
        BY <2>1, <4>2, <4>3
      <4>4. CASE ~(j < i)
        BY <2>1, <4>2, <4>4
      <4> QED BY <4>3, <4>4
    <3> SUFFICES ASSUME NEW j \in 1 .. Len(proc_list'),
                        NEW k \in 1 .. Len(proc_list'),
                        proc_list'[j] = proc_list'[k]
                 PROVE  j = k
      BY <2>1 DEF UniqueInList
    <3>2. old(j) = old(k)
      BY <3>1 DEF UniqueInList
    <3>3. j \in Nat /\ k \in Nat /\ i \in Nat
      <4>1. Len(proc_list) \in Nat
        BY <3>0
      <4>2. Len(proc_list') = Len(proc_list) - 1
        BY <2>1
      <4> QED BY <4>1, <4>2, <3>0
    <3> QED BY <3>2, <3>3
  <2>4. SafeGap'
    BY <1>6, <2>1 DEF RemoveLinks, TypeOK, SafeGap, GapFree
  <2> QED BY <2>2, <2>3, <2>4
<1>7. CASE UNCHANGED vars
  BY <1>7 DEF vars, TypeOK, UniqueInList, SafeGap, ScanGap, GapFree
<1> QED BY <1>1, <1>2, <1>3, <1>4, <1>5, <1>6, <1>7 DEF Next

(* No two processes of proc_list ever have the same pid.                   *)
THEOREM PidsUnique == Spec => []UniqueInList
<1>1. Spec => []IndInv
  BY InitIndInv, NextIndInv, PTL DEF Spec
<1>2. IndInv => UniqueInList
  BY DEF IndInv
<1> QED BY <1>1, <1>2, PTL

-----------------------------------------------------------------------------
(* The start of the CPUs.                                                  *)

(* The firmware's table: at least three CPUs with different ids, of which  *)
(* the first one boots.                                                    *)
LEMMA BootFacts ==
    ASSUME B!TypeOK
    PROVE  /\ B!N \in Nat /\ B!N > 2 /\ B!Cpu = 0 .. B!N - 1 /\ 0 \in B!Cpu /\ B!N - 1 \in B!Cpu
           /\ hw.dos \in BOOLEAN
           /\ B!Lcpu_count \in Nat /\ B!Lcpu_count = IF hw.dos THEN B!N - 1 ELSE B!N
           /\ B!Kern = 0 .. B!Lcpu_count - 1 /\ 0 \in B!Kern /\ B!Kern \subseteq B!Cpu
           /\ \A c \in B!Cpu : c \notin B!Kern <=> (hw.dos /\ c = B!N - 1)
           /\ \A c \in B!Cpu : B!Id(c) \in Nat /\ (B!Id(c) = hw.boot <=> c = 0)
           /\ \A c \in B!Cpu : c # 0 => B!Id(c) > B!Id(0)
           /\ \A c, d \in B!Cpu : B!Id(c) = B!Id(d) => c = d
           /\ B!Bsp = 0
<1>1. PICK m \in Madt : hw.ids = B!LcpuIdSet(m) /\ hw.boot = B!LcpuIdSet(m)[1]
  BY DEF B!TypeOK
<1>2. PICK s : s = B!LcpuIdSet(m)
  OBVIOUS
<1>3. /\ s \in Seq(Nat) /\ Len(s) > 2
      /\ \A i \in DOMAIN s : i > 1 => s[i] > s[1]
      /\ \A i, j \in DOMAIN s : s[i] = s[j] => i = j
  BY <1>2, FirmwareTables DEF B!MadtAssumption
<1>4. hw.ids = s /\ hw.boot = s[1]
  BY <1>1, <1>2
<1>5. Len(s) \in Nat /\ DOMAIN s = 1 .. Len(s) /\ \A i \in 1 .. Len(s) : s[i] \in Nat
  BY <1>3
<1>6. B!N = Len(s) /\ B!Cpu = 0 .. Len(s) - 1 /\ hw.dos \in BOOLEAN
  BY <1>4 DEF B!N, B!Cpu, B!TypeOK
<1>7. \A c \in B!Cpu : B!Id(c) = s[c + 1] /\ c + 1 \in 1 .. Len(s)
  BY <1>4, <1>5, <1>6 DEF B!Id
<1>8. /\ B!N \in Nat /\ B!N > 2 /\ 0 \in B!Cpu /\ B!N - 1 \in B!Cpu
  BY <1>3, <1>5, <1>6
<1>9. /\ \A c \in B!Cpu : B!Id(c) \in Nat
      /\ \A c, d \in B!Cpu : B!Id(c) = B!Id(d) => c = d
  <2>1. \A c \in B!Cpu : B!Id(c) \in Nat
    BY <1>5, <1>7
  <2>2. ASSUME NEW c \in B!Cpu, NEW d \in B!Cpu, B!Id(c) = B!Id(d)
        PROVE  c = d
    <3>1. c + 1 = d + 1
      BY <1>3, <1>5, <1>7, <2>2
    <3>2. c \in Int /\ d \in Int
      BY <1>5, <1>6
    <3> QED BY <3>1, <3>2
  <2> QED BY <2>1, <2>2
<1>10. B!Id(0) = hw.boot
  BY <1>4, <1>7, <1>8
<1>11. \A c \in B!Cpu : c # 0 => B!Id(c) > B!Id(0)
  <2> SUFFICES ASSUME NEW c \in B!Cpu, c # 0 PROVE B!Id(c) > B!Id(0)
    OBVIOUS
  <2>1. c + 1 \in DOMAIN s /\ c + 1 > 1
    BY <1>5, <1>6, <1>7
  <2>2. s[c + 1] > s[1]
    BY <1>3, <2>1
  <2>3. B!Id(c) = s[c + 1] /\ B!Id(0) = s[1]
    BY <1>4, <1>7, <1>10
  <2> QED BY <2>2, <2>3
<1>12. B!Bsp = 0
  BY <1>8, <1>9, <1>10 DEF B!Bsp, B!Lcpu_idx
<1>13. B!Lcpu_count = IF hw.dos THEN B!N - 1 ELSE B!N
  BY DEF B!Lcpu_count
<1>14. B!Kern = 0 .. B!Lcpu_count - 1
  BY DEF B!Kern
<1> QED BY <1>6, <1>8, <1>9, <1>10, <1>11, <1>12, <1>13, <1>14

(* The configuration does not change.                                      *)
LEMMA BootFixed ==
    ASSUME hw' = hw
    PROVE  /\ B!N' = B!N /\ B!Cpu' = B!Cpu /\ B!Kern' = B!Kern /\ B!Lcpu_count' = B!Lcpu_count
           /\ B!Bsp' = B!Bsp /\ \A c : B!Id(c)' = B!Id(c)
BY DEF B!N, B!Cpu, B!Kern, B!Lcpu_count, B!Bsp, B!Lcpu_idx, B!Id

(* CPU c goes to another place.                                            *)
Moves(c, x, r) ==
    /\ hw' = hw /\ c \in B!Cpu
    /\ cpu' = [cpu EXCEPT ![c] = [pc |-> x, reg |-> r]]

Everywhere == B!Supervisor \cup B!Early \cup B!Late

(* What that changes.                                                      *)
Moved(c, x, r) ==
    /\ B!Cpu' = B!Cpu /\ B!Kern' = B!Kern /\ c \in B!Cpu
    /\ B!Place(c)' = x /\ cpu'[c].reg = r
    /\ \A d \in B!Cpu \ {c} : B!Place(d)' = B!Place(d) /\ cpu'[d].reg = cpu[d].reg

LEMMA MovesOne ==
    ASSUME B!TypeOK, NEW c, NEW x \in Everywhere, NEW r \in Nat, Moves(c, x, r)
    PROVE  /\ Moved(c, x, r)
           /\ cpu' \in [B!Cpu' -> [pc : Everywhere, reg : Nat]]
           /\ \A Q : B!Those(Q)' = IF x \in Q THEN B!Those(Q) \cup {c} ELSE B!Those(Q) \ {c}
<1>1. cpu \in [B!Cpu -> [pc : Everywhere, reg : Nat]]
  BY DEF B!TypeOK, Everywhere
<1>2. B!Cpu' = B!Cpu /\ B!Kern' = B!Kern
  BY BootFixed DEF Moves
<1>3. c \in B!Cpu /\ cpu' = [cpu EXCEPT ![c] = [pc |-> x, reg |-> r]]
  BY DEF Moves
<1>4. cpu'[c].pc = x /\ cpu'[c].reg = r /\ \A d \in B!Cpu \ {c} : cpu'[d] = cpu[d]
  BY <1>1, <1>3
<1>5. [pc |-> x, reg |-> r] \in [pc : Everywhere, reg : Nat]
  OBVIOUS
<1>6. cpu' \in [B!Cpu -> [pc : Everywhere, reg : Nat]]
  BY <1>1, <1>3, <1>5
<1>7. ASSUME NEW Q
      PROVE  B!Those(Q)' = IF x \in Q THEN B!Those(Q) \cup {c} ELSE B!Those(Q) \ {c}
  <2>1. B!Those(Q)' = {d \in B!Cpu : cpu'[d].pc \in Q}
    BY <1>2 DEF B!Those, B!Place
  <2>2. B!Those(Q) = {d \in B!Cpu : cpu[d].pc \in Q}
    BY DEF B!Those, B!Place
  <2> QED BY <1>3, <1>4, <2>1, <2>2
<1>8. Moved(c, x, r)
  BY <1>2, <1>3, <1>4 DEF Moved, B!Place
<1> QED BY <1>2, <1>6, <1>7, <1>8

LEMMA MovedType ==
    ASSUME B!TypeOK, NEW c, NEW x \in Everywhere, NEW r \in Nat, Moves(c, x, r),
           low' \in {"e820", "ap", "dos"}, mem' \in B!Memory
    PROVE  B!TypeOK'
<1>1. cpu' \in [B!Cpu' -> [pc : Everywhere, reg : Nat]] /\ hw' = hw
  BY MovesOne DEF Moves
<1>2. B!Memory' = B!Memory
  BY <1>1, BootFixed DEF B!Memory
<1> QED BY <1>1, <1>2 DEF B!TypeOK, Everywhere

(* How the counters follow the CPUs.                                       *)
LEMMA CpusFinite ==
    ASSUME B!TypeOK, NEW Q
    PROVE  /\ B!IsFiniteSet(B!Those(Q)) /\ B!Cardinality(B!Those(Q)) \in Nat
           /\ B!IsFiniteSet(B!Cpu) /\ B!Those(Q) \subseteq B!Cpu
           /\ B!Cardinality(B!Kern) = B!Lcpu_count /\ B!IsFiniteSet(B!Kern)
<1>1. B!IsFiniteSet(0 .. B!N - 1) /\ B!IsFiniteSet(0 .. B!Lcpu_count - 1)
  BY B!FS_Interval, BootFacts
<1>2. B!Cardinality(0 .. B!Lcpu_count - 1) = B!Lcpu_count
  BY B!FS_Interval, BootFacts
<1>3. B!IsFiniteSet(B!Cpu) /\ B!IsFiniteSet(B!Kern) /\ B!Cardinality(B!Kern) = B!Lcpu_count
  BY <1>1, <1>2, BootFacts
<1>4. B!Those(Q) \subseteq B!Cpu
  BY DEF B!Those
<1>5. B!IsFiniteSet(B!Those(Q))
  BY <1>3, <1>4, B!FS_Subset
<1> QED BY <1>3, <1>4, <1>5, B!FS_CardinalityType

LEMMA CountsOne ==
    ASSUME B!TypeOK, NEW c, NEW x \in Everywhere, NEW r \in Nat, Moves(c, x, r), NEW Q,
           x \in Q, B!Place(c) \notin Q
    PROVE  B!Cardinality(B!Those(Q)') = B!Cardinality(B!Those(Q)) + 1
<1>1. B!Those(Q)' = B!Those(Q) \cup {c}
  BY MovesOne
<1>2. c \notin B!Those(Q)
  BY DEF B!Those
<1>3. B!IsFiniteSet(B!Those(Q))
  BY CpusFinite
<1>4. B!Cardinality(B!Those(Q) \cup {c}) = B!Cardinality(B!Those(Q)) + 1
  BY <1>2, <1>3, B!FS_AddElement
<1> QED BY <1>1, <1>4

LEMMA CountsNone ==
    ASSUME B!TypeOK, NEW c, NEW x \in Everywhere, NEW r \in Nat, Moves(c, x, r), NEW Q,
           x \in Q <=> B!Place(c) \in Q
    PROVE  B!Those(Q)' = B!Those(Q)
<1>1. B!Those(Q)' = IF x \in Q THEN B!Those(Q) \cup {c} ELSE B!Those(Q) \ {c}
  BY MovesOne
<1>2. c \in B!Those(Q) <=> x \in Q
  BY DEF B!Those, Moves
<1> QED BY <1>1, <1>2

(* A move that no counter notices.                                         *)
LEMMA CountsStay ==
    ASSUME B!TypeOK, B!Counts, NEW c, NEW x \in Everywhere, NEW r \in Nat, Moves(c, x, r),
           x \in B!Late <=> B!Place(c) \in B!Late,
           hw.kernel = "ucore" => (x \in B!Finished <=> B!Place(c) \in B!Finished),
           hw.kernel = "river" => (x \in B!Ready <=> B!Place(c) \in B!Ready),
           mem'.lcpu_init_count = mem.lcpu_init_count, mem'.init_finished = mem.init_finished,
           mem'.ipe_ready = mem.ipe_ready
    PROVE  B!Counts'
<1>1. B!Those(B!Late)' = B!Those(B!Late) /\ hw' = hw
  BY CountsNone DEF Moves
<1>2. hw.kernel = "ucore" => B!Those(B!Finished)' = B!Those(B!Finished)
  BY CountsNone
<1>3. hw.kernel = "river" => B!Those(B!Ready)' = B!Those(B!Ready)
  BY CountsNone
<1> QED BY <1>1, <1>2, <1>3 DEF B!Counts

(* A CPU that goes on to another place of its program.                     *)
LEMMA GoesTo ==
    ASSUME B!TypeOK, NEW c \in B!Cpu, NEW x, B!Goto(c, x), hw' = hw
    PROVE  \E r \in Nat : Moves(c, x, r) /\ r = cpu[c].reg
<1>1. cpu[c] \in [pc : B!Supervisor \cup B!Early \cup B!Late, reg : Nat]
  BY DEF B!TypeOK
<1>2. [cpu[c] EXCEPT !.pc = x] = [pc |-> x, reg |-> cpu[c].reg] /\ cpu[c].reg \in Nat
  BY <1>1
<1>3. cpu' = [cpu EXCEPT ![c] = [cpu[c] EXCEPT !.pc = x]]
  BY DEF B!Goto
<1>4. cpu' = [cpu EXCEPT ![c] = [pc |-> x, reg |-> cpu[c].reg]]
  BY <1>2, <1>3
<1> QED BY <1>2, <1>4 DEF Moves

(* The steps that leave memory alone, from place p to place x.             *)
Quiet(c, p, x) ==
    \/ p = "kern_init" /\ x = "mp_init"
    \/ p = "start" /\ x = "lcpu_init"
    \/ p = "start" /\ x = "driver_os" /\ hw.dos
    \/ p = "startup" /\ low = "ap" /\ x = "trampoline"
    \/ p = "startup" /\ low # "ap" /\ x = "linux"
    \/ p = "trampoline" /\ x = "lcpu_init"
    \/ p = "lcpu_init" /\ x = "lcpu_cas"
    \/ p = "lcpu_cas" /\ x = "lcpu_init"
    \/ p = "jump_kern" /\ hw.kernel = "river" /\ x = "trap_init"
    \/ p = "jump_kern" /\ hw.kernel = "ucore" /\ x = "wait"
    \/ p = "jump_kern" /\ hw.kernel = "ucore" /\ c = 0 /\ x = "acquire"
    \/ p = "wait" /\ x = "acquire" /\ B!Place(0) \in B!Finished
    \/ p = "barrier" /\ x = "idle" /\ \A d \in B!Kern : B!Place(d) \in B!Finished
    \/ p = "ipe_ready" /\ x = "ipe_cas"
    \/ p = "ipe_cas" /\ x = "ipe_ready"
    \/ p = "ipe_barrier" /\ x = "idle" /\ \A d \in B!Kern : B!Place(d) \in B!Ready

LEMMA QuietStep ==
    ASSUME B!IndInv, NEW c, NEW x, NEW r \in Nat, Moves(c, x, r), Quiet(c, B!Place(c), x),
           low' = low, mem' = mem
    PROVE  B!IndInv'
<1>1. /\ B!TypeOK /\ B!Places /\ B!LowPage /\ B!Counts /\ B!Locked /\ B!FirstCpu /\ B!Together
      /\ B!Handlers
  BY DEF B!IndInv
<1>2. x \in Everywhere /\ low \in {"e820", "ap", "dos"} /\ mem \in B!Memory /\ hw' = hw
  BY <1>1 DEF Everywhere, B!Supervisor, B!Early, B!Late, B!Ucore, B!River, B!TypeOK, Quiet, Moves
<1>3. Moved(c, x, r)
  BY <1>1, <1>2, MovesOne
<1>4. B!TypeOK'
  BY <1>1, <1>2, MovedType
<1>5. B!Places'
  <2>1. /\ c = 0 => x \notin {"off", "startup", "trampoline", "linux"}
        /\ c # 0 => x \notin B!Supervisor
    BY <1>1, <1>3 DEF Quiet, Moved, B!Places, B!Supervisor
  <2>2. /\ c \notin B!Kern => x \in {"off", "startup", "linux"}
        /\ c \in B!Kern => x # "linux"
    <3>1. c \in B!Cpu /\ (c \notin B!Kern => B!Place(c) \in {"off", "startup", "linux"} /\ c # 0)
      BY <1>1, <1>3, BootFacts DEF Moved, B!Places
    <3>2. c \notin B!Kern /\ B!Place(c) = "startup" => low # "ap"
      BY <1>1, <3>1 DEF B!LowPage
    <3>3. c \in B!Kern /\ c # 0 /\ B!Place(c) = "startup" => low = "ap"
      <4>1. "startup" \notin B!Late /\ low \in {"e820", "ap", "dos"}
        BY <1>2 DEF B!Late, B!Ucore, B!River
      <4> QED BY <1>1, <3>1, <4>1 DEF B!LowPage
    <3>4. c = 0 => B!Place(c) # "startup"
      BY <1>1, <3>1 DEF B!Places
    <3>5. x = "linux" => B!Place(c) = "startup" /\ low # "ap"
      BY DEF Quiet
    <3>6. B!Place(c) \in {"off", "startup", "linux"} => B!Place(c) = "startup" /\ (low = "ap" \/ x = "linux")
      BY DEF Quiet
    <3> QED BY <3>1, <3>2, <3>3, <3>4, <3>5, <3>6
  <2>3. /\ x \in B!Ucore => hw.kernel = "ucore"
        /\ x \in B!River => hw.kernel = "river"
    BY <1>1, <1>3 DEF Quiet, Moved, B!Places, B!Ucore, B!River
  <2> QED BY <1>1, <1>2, <1>3, <2>1, <2>2, <2>3 DEF Moved, B!Places
<1>6. B!LowPage'
  <2>1. CASE c = 0
    <3>1. x # "start" /\ x # "dos_start" /\ x # "kern_init" /\ (x = "mp_init" => B!Place(0) = "kern_init")
      BY <2>1 DEF Quiet
    <3>2. x = "driver_os" => low = "ap" /\ hw.dos
      BY <1>1, <2>1 DEF Quiet, B!LowPage
    <3> QED BY <1>1, <1>2, <1>3, <2>1, <3>1, <3>2 DEF Moved, B!LowPage
  <2>2. CASE c # 0
    <3>1. B!Place(0)' = B!Place(0) /\ cpu'[0].reg = cpu[0].reg /\ 0 \in B!Cpu /\ c \in B!Cpu \ {0}
      BY <1>1, <1>3, <2>2, BootFacts DEF Moved
    <3>2. B!Place(c) # "off"
      BY DEF Quiet
    <3>3. B!Place(c) \in B!Late => x \in B!Late
      BY DEF Quiet, B!Late, B!Ucore, B!River
    <3> QED BY <1>1, <1>2, <1>3, <3>1, <3>2, <3>3 DEF Moved, B!LowPage
  <2> QED BY <2>1, <2>2
<1>7. B!Counts'
  <2>1. x \in B!Late <=> B!Place(c) \in B!Late
    BY <1>1, <1>3 DEF Quiet, Moved, B!Places, B!Late, B!Ucore, B!River
  <2>2. hw.kernel = "ucore" => (x \in B!Finished <=> B!Place(c) \in B!Finished)
    BY <1>1, <1>3 DEF Quiet, Moved, B!Places, B!River, B!Finished
  <2>3. hw.kernel = "river" => (x \in B!Ready <=> B!Place(c) \in B!Ready)
    BY <1>1, <1>3 DEF Quiet, Moved, B!Places, B!Ucore, B!Ready
  <2> QED BY <1>1, <1>2, <2>1, <2>2, <2>3, CountsStay
<1>8. B!Locked'
  BY <1>1, <1>2, <1>3 DEF Quiet, Moved, B!Locked, B!Section
<1>9. B!FirstCpu'
  BY <1>1, <1>2, <1>3, BootFacts DEF Quiet, Moved, B!Places, B!FirstCpu, B!Section, B!Finished, B!Ucore, B!River
<1>10. B!Together'
  BY <1>1, <1>2, <1>3, BootFacts DEF Quiet, Moved, B!Places, B!Together, B!Finished, B!Ready, B!Ucore, B!River
<1>11. B!Handlers'
  BY <1>1, <1>2, <1>3 DEF Quiet, Moved, B!Places, B!Handlers, B!Finished, B!Ready, B!River, B!Ucore
<1> QED BY <1>4, <1>5, <1>6, <1>7, <1>8, <1>9, <1>10, <1>11 DEF B!IndInv

(* When as many CPUs as the kernel has have counted themselves, all have.  *)
LEMMA AllCounted ==
    ASSUME B!TypeOK, B!Places, NEW Q, Q \cap {"off", "startup", "linux"} = {},
           B!Cardinality(B!Those(Q)) = B!Lcpu_count
    PROVE  \A d \in B!Kern : B!Place(d) \in Q
<1>1. B!Those(Q) \subseteq B!Kern
  BY DEF B!Those, B!Places
<1>2. B!IsFiniteSet(B!Kern) /\ B!Cardinality(B!Kern) = B!Lcpu_count
  BY CpusFinite
<1>3. B!Those(Q) = B!Kern
  BY <1>1, <1>2, B!FS_Subset
<1> QED BY <1>3 DEF B!Those

(* The steps of the supervisor's first CPU that leave memory alone.        *)
LEMMA BootKernInit ==
    ASSUME B!IndInv, B!KernInit
    PROVE  B!IndInv'
<1>1. B!TypeOK /\ B!Bsp = 0 /\ 0 \in B!Cpu
  BY BootFacts DEF B!IndInv
<1>2. /\ B!Place(0) = "kern_init" /\ B!Goto(0, "mp_init") /\ hw' = hw /\ low' = low /\ mem' = mem
  BY <1>1 DEF B!KernInit, B!At, B!Place
<1>3. PICK r \in Nat : Moves(0, "mp_init", r)
  BY <1>1, <1>2, GoesTo
<1> QED BY <1>2, <1>3, QuietStep DEF Quiet

(* A started CPU runs what lies at 0x8000.                                 *)
LEMMA BootStartup ==
    ASSUME B!IndInv, NEW c \in B!Cpu, B!Startup(c) \/ B!ApBootInit(c)
    PROVE  B!IndInv'
<1>1. B!TypeOK
  BY DEF B!IndInv
<1>2. PICK x : /\ B!Goto(c, x) /\ Quiet(c, B!Place(c), x)
               /\ hw' = hw /\ low' = low /\ mem' = mem
  BY DEF B!Startup, B!ApBootInit, B!At, B!Place, Quiet
<1>3. PICK r \in Nat : Moves(c, x, r)
  BY <1>1, <1>2, GoesTo
<1> QED BY <1>2, <1>3, QuietStep

(* The kernels' entries and barriers.                                      *)
LEMMA BootKernel ==
    ASSUME B!IndInv, NEW c \in B!Cpu,
           B!JumpKern(c) \/ B!WaitInit(c) \/ B!CpuIdle(c) \/ B!DoInit(c)
    PROVE  B!IndInv'
<1>1. /\ B!TypeOK /\ B!Places /\ B!Counts /\ B!FirstCpu
      /\ hw.kernel \in {"ucore", "river"}
  BY DEF B!IndInv, B!TypeOK
<1>2. PICK x : /\ B!Goto(c, x) /\ Quiet(c, B!Place(c), x)
               /\ hw' = hw /\ low' = low /\ mem' = mem
  <2>1. CASE B!JumpKern(c)
    <3>1. /\ B!Place(c) = "jump_kern" /\ hw' = hw /\ low' = low /\ mem' = mem
          /\ B!Goto(c, IF hw.kernel = "river" THEN "trap_init" ELSE IF c = 0 THEN "acquire" ELSE "wait")
      BY <2>1 DEF B!JumpKern, B!At, B!Place
    <3>2. PICK y : y = IF hw.kernel = "river" THEN "trap_init" ELSE IF c = 0 THEN "acquire" ELSE "wait"
      OBVIOUS
    <3>3. Quiet(c, B!Place(c), y)
      <4>1. B!Place(c) = "jump_kern" /\ (hw.kernel = "ucore" \/ hw.kernel = "river")
        BY <1>1, <3>1
      <4>2. CASE hw.kernel = "river"
        BY <3>2, <4>1, <4>2 DEF Quiet
      <4>3. CASE hw.kernel = "ucore" /\ c = 0
        <5>1. y = "acquire"
          BY <3>2, <4>3
        <5> QED BY <4>1, <4>3, <5>1 DEF Quiet
      <4>4. CASE hw.kernel = "ucore" /\ c # 0
        <5>1. y = "wait"
          BY <3>2, <4>4
        <5> QED BY <4>1, <4>4, <5>1 DEF Quiet
      <4> QED BY <4>1, <4>2, <4>3, <4>4
    <3> QED BY <3>1, <3>2, <3>3
  <2>2. CASE B!WaitInit(c)
    <3>1. /\ B!Place(c) = "wait" /\ mem.init_finished # 0 /\ B!Goto(c, "acquire")
          /\ hw' = hw /\ low' = low /\ mem' = mem
      BY <2>2 DEF B!WaitInit, B!At, B!Place
    <3>2. hw.kernel = "ucore"
      BY <1>1, <3>1 DEF B!Places, B!Ucore
    <3>3. B!Cardinality(B!Those(B!Finished)) # 0
      BY <1>1, <3>1, <3>2 DEF B!Counts
    <3>4. B!Those(B!Finished) # {}
      BY <3>3, B!FS_EmptySet
    <3>5. PICK d \in B!Cpu : B!Place(d) \in B!Finished
      BY <3>4 DEF B!Those
    <3>6. B!Place(0) \in B!Finished
      BY <1>1, <3>2, <3>5 DEF B!FirstCpu, B!Finished, B!Section
    <3> QED BY <3>1, <3>6 DEF Quiet
  <2>3. CASE B!CpuIdle(c)
    <3>1. /\ B!Place(c) = "barrier" /\ mem.init_finished = B!Lcpu_count /\ B!Goto(c, "idle")
          /\ hw' = hw /\ low' = low /\ mem' = mem
      BY <2>3 DEF B!CpuIdle, B!At, B!Place
    <3>2. hw.kernel = "ucore"
      BY <1>1, <3>1 DEF B!Places, B!Ucore
    <3>3. B!Cardinality(B!Those(B!Finished)) = B!Lcpu_count
      BY <1>1, <3>1, <3>2 DEF B!Counts
    <3>4. B!Finished \cap {"off", "startup", "linux"} = {}
      BY DEF B!Finished
    <3>5. \A d \in B!Kern : B!Place(d) \in B!Finished
      BY <1>1, <3>3, <3>4, AllCounted
    <3> QED BY <3>1, <3>5 DEF Quiet
  <2>4. CASE B!DoInit(c)
    <3>1. /\ B!Place(c) = "ipe_barrier" /\ mem.ipe_ready = B!Lcpu_count /\ B!Goto(c, "idle")
          /\ hw' = hw /\ low' = low /\ mem' = mem
      BY <2>4 DEF B!DoInit, B!At, B!Place
    <3>2. hw.kernel = "river"
      BY <1>1, <3>1 DEF B!Places, B!River
    <3>3. B!Cardinality(B!Those(B!Ready)) = B!Lcpu_count
      BY <1>1, <3>1, <3>2 DEF B!Counts
    <3>4. B!Ready \cap {"off", "startup", "linux"} = {}
      BY DEF B!Ready
    <3>5. \A d \in B!Kern : B!Place(d) \in B!Ready
      BY <1>1, <3>3, <3>4, AllCounted
    <3> QED BY <3>1, <3>5 DEF Quiet
  <2> QED BY <2>1, <2>2, <2>3, <2>4
<1>3. PICK r \in Nat : Moves(c, x, r)
  BY <1>1, <1>2, GoesTo
<1> QED BY <1>2, <1>3, QuietStep

(* The reading of a counter, and a compare and exchange that fails.        *)
LEMMA BootRead ==
    ASSUME B!IndInv, NEW c \in B!Cpu,
           \/ B!ReadCount(c, "lcpu_init", "lcpu_init_count", "lcpu_cas")
           \/ B!ReadCount(c, "ipe_ready", "ipe_ready", "ipe_cas")
    PROVE  B!IndInv'
<1>1. mem.lcpu_init_count \in Nat /\ mem.ipe_ready \in Nat
  BY DEF B!IndInv, B!TypeOK, B!Memory
<1>2. mem["lcpu_init_count"] = mem.lcpu_init_count /\ mem["ipe_ready"] = mem.ipe_ready
  OBVIOUS
<1>3. PICK r \in Nat : \E x : /\ Moves(c, x, r) /\ Quiet(c, B!Place(c), x)
                              /\ hw' = hw /\ low' = low /\ mem' = mem
  <2>1. CASE B!ReadCount(c, "lcpu_init", "lcpu_init_count", "lcpu_cas")
    <3>1. /\ B!Place(c) = "lcpu_init" /\ Moves(c, "lcpu_cas", mem.lcpu_init_count)
          /\ hw' = hw /\ low' = low /\ mem' = mem
      BY <1>2, <2>1 DEF B!ReadCount, B!At, B!Place, Moves
    <3>2. Quiet(c, B!Place(c), "lcpu_cas")
      BY <3>1 DEF Quiet
    <3> QED BY <1>1, <3>1, <3>2
  <2>2. CASE B!ReadCount(c, "ipe_ready", "ipe_ready", "ipe_cas")
    <3>1. /\ B!Place(c) = "ipe_ready" /\ Moves(c, "ipe_cas", mem.ipe_ready)
          /\ hw' = hw /\ low' = low /\ mem' = mem
      BY <1>2, <2>2 DEF B!ReadCount, B!At, B!Place, Moves
    <3>2. Quiet(c, B!Place(c), "ipe_cas")
      BY <3>1 DEF Quiet
    <3> QED BY <1>1, <3>1, <3>2
  <2> QED BY <2>1, <2>2
<1> QED BY <1>3, QuietStep

(* A compare and exchange.                                                 *)
LEMMA BootLcpuCas ==
    ASSUME B!IndInv, NEW c \in B!Cpu,
           B!Cmpxchg(c, "lcpu_cas", "lcpu_init_count", "lcpu_init", "jump_kern")
    PROVE  B!IndInv'
<1>1. /\ B!TypeOK /\ B!Places /\ B!LowPage /\ B!Counts /\ B!Locked /\ B!FirstCpu /\ B!Together
      /\ B!Handlers
  BY DEF B!IndInv
<1>2. B!Place(c) = "lcpu_cas" /\ hw' = hw /\ low' = low /\ mem["lcpu_init_count"] = mem.lcpu_init_count
  BY DEF B!Cmpxchg, B!At, B!Place
<1>3. CASE mem.lcpu_init_count # cpu[c].reg
  <2>1. B!Goto(c, "lcpu_init") /\ mem' = mem
    BY <1>2, <1>3 DEF B!Cmpxchg
  <2>2. PICK r \in Nat : Moves(c, "lcpu_init", r)
    BY <1>1, <1>2, <2>1, GoesTo
  <2> QED BY <1>2, <2>1, <2>2, QuietStep DEF Quiet
<1>4. CASE mem.lcpu_init_count = cpu[c].reg
  <2>1. B!Goto(c, "jump_kern") /\ mem' = [mem EXCEPT !["lcpu_init_count"] = mem["lcpu_init_count"] + 1]
    BY <1>2, <1>4 DEF B!Cmpxchg
  <2>2. PICK r \in Nat : Moves(c, "jump_kern", r)
    BY <1>1, <1>2, <2>1, GoesTo
  <2>3. mem \in B!Memory
    BY <1>1 DEF B!TypeOK
  <2>4. /\ mem' \in B!Memory /\ mem'.lcpu_init_count = mem.lcpu_init_count + 1
        /\ mem'.ipe_ready = mem.ipe_ready /\ mem'.init_finished = mem.init_finished
        /\ mem'.init_lock = mem.init_lock /\ mem'.handler = mem.handler /\ mem'.irq = mem.irq
        /\ mem'.recv_buffer = mem.recv_buffer
    BY <1>2, <2>1, <2>3 DEF B!Memory
  <2>5. "jump_kern" \in Everywhere /\ low' \in {"e820", "ap", "dos"}
    BY <1>1, <1>2 DEF Everywhere, B!Late, B!TypeOK
  <2>6. Moved(c, "jump_kern", r)
    BY <1>1, <2>2, <2>5, MovesOne
  <2>7. B!TypeOK'
    BY <1>1, <2>2, <2>4, <2>5, MovedType
  <2>8. B!Places'
    BY <1>1, <1>2, <2>6 DEF Moved, B!Places, B!Supervisor, B!Ucore, B!River
  <2>9. B!LowPage'
    BY <1>1, <1>2, <2>6, BootFacts DEF Moved, B!Places, B!LowPage, B!Late
  <2>10. B!Counts'
    <3>1. "jump_kern" \in B!Late /\ B!Place(c) \notin B!Late
      BY <1>2 DEF B!Late, B!Ucore, B!River
    <3>2. B!Cardinality(B!Those(B!Late)') = B!Cardinality(B!Those(B!Late)) + 1
      BY <1>1, <2>2, <2>5, <3>1, CountsOne
    <3>3. /\ B!Those(B!Finished)' = B!Those(B!Finished)
          /\ B!Those(B!Ready)' = B!Those(B!Ready)
      <4>1. "jump_kern" \in B!Finished <=> B!Place(c) \in B!Finished
        BY <1>2 DEF B!Finished
      <4>2. "jump_kern" \in B!Ready <=> B!Place(c) \in B!Ready
        BY <1>2 DEF B!Ready
      <4> QED BY <1>1, <2>2, <2>5, <4>1, <4>2, CountsNone
    <3> QED BY <1>1, <1>2, <2>4, <3>2, <3>3 DEF B!Counts
  <2>11. B!Locked'
    BY <1>1, <1>2, <2>4, <2>6 DEF Moved, B!Locked, B!Section
  <2>12. B!FirstCpu'
    BY <1>1, <1>2, <2>6, BootFacts DEF Moved, B!FirstCpu, B!Section, B!Finished
  <2>13. B!Together'
    BY <1>1, <1>2, <2>6, BootFacts DEF Moved, B!Together, B!Finished, B!Ready
  <2>14. B!Handlers'
    BY <1>1, <1>2, <2>4, <2>6 DEF Moved, B!Handlers, B!Finished, B!Ready
  <2> QED BY <2>7, <2>8, <2>9, <2>10, <2>11, <2>12, <2>13, <2>14 DEF B!IndInv
<1> QED BY <1>3, <1>4

(* The supervisor's first CPU goes on, and the low page is as it should be.*)
LEMMA SupervisorMove ==
    ASSUME B!IndInv, NEW x \in B!Supervisor, NEW r \in Nat, Moves(0, x, r), B!Place(0) \in B!Supervisor,
           low' \in {"e820", "ap", "dos"}, mem' = mem, B!LowPage'
    PROVE  B!IndInv'
<1>1. /\ B!TypeOK /\ B!Places /\ B!Counts /\ B!Locked /\ B!FirstCpu /\ B!Together /\ B!Handlers
  BY DEF B!IndInv
<1>2. x \in Everywhere /\ mem' \in B!Memory /\ hw' = hw
  BY <1>1 DEF Everywhere, B!TypeOK, Moves
<1>3. Moved(0, x, r)
  BY <1>1, <1>2, MovesOne
<1>4. B!TypeOK'
  BY <1>1, <1>2, MovedType
<1>5. /\ x \notin B!Late \cup B!Finished \cup B!Ready
      /\ B!Place(0) \notin B!Late \cup B!Finished \cup B!Ready
  BY DEF B!Supervisor, B!Late, B!Ucore, B!River, B!Finished, B!Ready
<1>6. B!Counts'
  BY <1>1, <1>2, <1>5, CountsStay
<1>7. B!Places'
  BY <1>1, <1>2, <1>3, BootFacts DEF Moved, B!Places, B!Supervisor, B!Ucore, B!River
<1>8. B!Locked'
  BY <1>1, <1>2, <1>3 DEF Moved, B!Locked, B!Section, B!Supervisor
<1>9. B!FirstCpu'
  BY <1>1, <1>2, <1>3, <1>5 DEF Moved, B!FirstCpu
<1>10. B!Together'
  <2>1. x # "idle"
    BY DEF B!Supervisor
  <2>2. ASSUME NEW c \in B!Cpu, B!Place(c)' = "idle"
        PROVE  B!Place(c) = "idle"
    BY <1>3, <2>1, <2>2 DEF Moved
  <2>3. ASSUME NEW d \in B!Kern
        PROVE  /\ B!Place(d) \in B!Finished => B!Place(d)' \in B!Finished
               /\ B!Place(d) \in B!Ready => B!Place(d)' \in B!Ready
    BY <1>1, <1>3, <1>5, BootFacts DEF Moved
  <2>4. B!Cpu' = B!Cpu /\ B!Kern' = B!Kern
    BY <1>3 DEF Moved
  <2> QED BY <1>1, <1>2, <2>2, <2>3, <2>4 DEF B!Together
<1>11. B!Handlers'
  BY <1>1, <1>2, <1>3 DEF Moved, B!Handlers, B!Finished, B!Ready, B!Supervisor
<1> QED BY <1>4, <1>6, <1>7, <1>8, <1>9, <1>10, <1>11 DEF B!IndInv

(* mp_init writes the trampoline before any CPU is started.                *)
LEMMA BootMpInit ==
    ASSUME B!IndInv, B!MpInit
    PROVE  B!IndInv'
<1>1. B!TypeOK /\ B!Bsp = 0 /\ 0 \in B!Cpu /\ B!LowPage /\ B!Kern \subseteq B!Cpu
  BY BootFacts DEF B!IndInv
<1>2. /\ B!Place(0) = "mp_init" /\ B!Goto(0, "start") /\ hw' = hw /\ low' = "ap" /\ mem' = mem
  BY <1>1 DEF B!MpInit, B!At, B!Place
<1>3. PICK r \in Nat : Moves(0, "start", r)
  BY <1>1, <1>2, GoesTo
<1>4. Moved(0, "start", r)
  BY <1>1, <1>3, MovesOne DEF Everywhere, B!Supervisor
<1>5. B!LowPage'
  BY <1>1, <1>2, <1>4 DEF Moved, B!LowPage
<1>6. "start" \in B!Supervisor /\ B!Place(0) \in B!Supervisor
  BY <1>2 DEF B!Supervisor
<1> QED BY <1>2, <1>3, <1>5, <1>6, SupervisorMove

(* driver_os_init overwrites it when every other CPU of the kernel has     *)
(* counted itself, so that none is in the trampoline or still to run it.   *)
LEMMA BootDriverOsInit ==
    ASSUME B!IndInv, B!DriverOsInit
    PROVE  B!IndInv'
<1>1. B!TypeOK /\ B!Bsp = 0 /\ 0 \in B!Cpu /\ B!LowPage /\ B!Kern \subseteq B!Cpu /\ B!Counts /\ B!Places
  BY BootFacts DEF B!IndInv
<1>2. /\ B!Place(0) = "driver_os" /\ B!Goto(0, "dos_start") /\ hw' = hw /\ low' = "dos" /\ mem' = mem
      /\ mem.lcpu_init_count >= B!N - 2
  BY <1>1 DEF B!DriverOsInit, B!At, B!Place
<1>3. PICK r \in Nat : Moves(0, "dos_start", r)
  BY <1>1, <1>2, GoesTo
<1>4. Moved(0, "dos_start", r)
  BY <1>1, <1>3, MovesOne DEF Everywhere, B!Supervisor
<1>5. hw.dos
  BY <1>1, <1>2 DEF B!LowPage
<1>6. B!Lcpu_count = B!N - 1 /\ B!N \in Nat /\ 0 \in B!Kern
  BY <1>1, <1>5, BootFacts
<1>7. B!Those(B!Late) \subseteq B!Kern \ {0}
  BY <1>1, <1>2 DEF B!Those, B!Places, B!Late, B!Ucore, B!River
<1>8. B!IsFiniteSet(B!Kern) /\ B!Cardinality(B!Kern) = B!N - 1
  BY <1>1, <1>6, CpusFinite
<1>9. B!IsFiniteSet(B!Kern \ {0}) /\ B!Cardinality(B!Kern \ {0}) = B!N - 2
  BY <1>6, <1>8, B!FS_RemoveElement
<1>10. B!Cardinality(B!Those(B!Late)) >= B!N - 2 /\ B!Cardinality(B!Those(B!Late)) \in Nat
  BY <1>1, <1>2, CpusFinite DEF B!Counts
<1>11. B!Cardinality(B!Those(B!Late)) <= B!N - 2
  BY <1>7, <1>9, B!FS_Subset
<1>12. B!Cardinality(B!Those(B!Late)) = B!N - 2
  BY <1>6, <1>10, <1>11
<1>13. B!Those(B!Late) = B!Kern \ {0}
  BY <1>7, <1>9, <1>12, B!FS_Subset
<1>14. \A c \in B!Kern \ {0} : B!Place(c) \in B!Late
  BY <1>13 DEF B!Those
<1>15. B!LowPage'
  BY <1>1, <1>2, <1>4, <1>5, <1>14 DEF Moved, B!LowPage
<1>16. "dos_start" \in B!Supervisor /\ B!Place(0) \in B!Supervisor
  BY <1>2 DEF B!Supervisor
<1> QED BY <1>2, <1>3, <1>15, <1>16, SupervisorMove

(* The first CPU starts CPU e.                                             *)
LEMMA StartsOne ==
    ASSUME B!IndInv, NEW x \in {"start", "lcpu_init"}, NEW r \in Nat, NEW e \in B!Cpu \ {0},
           B!Place(0) \in {"start", "dos_start"}, B!Place(e) \in {"off", "startup", "linux"},
           B!Place(0) = "start" => e \in B!Kern /\ x = "start" /\ r = e + 1 /\ cpu[0].reg = e,
           B!Place(0) = "dos_start" => e \notin B!Kern /\ x = "lcpu_init",
           hw' = hw, low' = low, mem' = mem,
           cpu' = [[cpu EXCEPT ![0] = [pc |-> x, reg |-> r]] EXCEPT ![e] = [pc |-> "startup", reg |-> 0]]
    PROVE  B!IndInv'
<1>1. /\ B!TypeOK /\ B!Places /\ B!LowPage /\ B!Counts /\ B!Locked /\ B!FirstCpu /\ B!Together
      /\ B!Handlers
  BY DEF B!IndInv
<1>2. B!Cpu' = B!Cpu /\ B!Kern' = B!Kern /\ 0 \in B!Cpu /\ B!Kern \subseteq B!Cpu
  BY <1>1, BootFixed, BootFacts
<1>3. /\ cpu \in [B!Cpu -> [pc : Everywhere, reg : Nat]]
      /\ [pc |-> x, reg |-> r] \in [pc : Everywhere, reg : Nat]
      /\ [pc |-> "startup", reg |-> 0] \in [pc : Everywhere, reg : Nat]
  BY <1>1 DEF B!TypeOK, Everywhere, B!Early, B!Supervisor
<1>4. cpu' \in [B!Cpu -> [pc : Everywhere, reg : Nat]]
  BY <1>2, <1>3
<1>5. /\ B!Place(0)' = x /\ cpu'[0].reg = r /\ B!Place(e)' = "startup"
      /\ \A d \in B!Cpu \ {0, e} : B!Place(d)' = B!Place(d) /\ cpu'[d].reg = cpu[d].reg
  BY <1>2, <1>3 DEF B!Place
<1>6. B!TypeOK'
  <2>1. B!Memory' = B!Memory
    BY <1>2 DEF B!Memory
  <2> QED BY <1>1, <1>2, <1>4, <2>1 DEF B!TypeOK, Everywhere
<1>7. B!Places'
  BY <1>1, <1>2, <1>5 DEF B!Places, B!Supervisor, B!Ucore, B!River
<1>8. B!LowPage'
  <2>1. CASE B!Place(0) = "start"
    <3>1. /\ low = "ap" /\ e \in B!Kern /\ x = "start" /\ r = e + 1 /\ cpu[0].reg = e
      BY <1>1, <2>1 DEF B!LowPage
    <3>2. \A d \in B!Cpu : d \in Int
      BY <1>1, BootFacts
    <3>3. ASSUME NEW d \in B!Cpu \ {0}, d >= r
          PROVE  B!Place(d)' = "off"
      <4>1. d # e /\ d >= cpu[0].reg
        BY <3>1, <3>2, <3>3
      <4> QED BY <1>1, <1>5, <2>1, <4>1 DEF B!LowPage
    <3>4. \A d \in B!Cpu \ {0} : d \notin B!Kern => B!Place(d)' = "off"
      BY <1>1, <1>5, <3>1 DEF B!LowPage
    <3> QED BY <1>2, <1>5, <3>1, <3>3, <3>4 DEF B!LowPage
  <2>2. CASE B!Place(0) = "dos_start"
    <3>1. low = "dos" /\ e \notin B!Kern /\ x = "lcpu_init"
      BY <1>1, <2>2 DEF B!LowPage
    <3>2. \A d \in B!Kern \ {0} : B!Place(d)' \in B!Late
      BY <1>1, <1>2, <1>5, <3>1 DEF B!LowPage
    <3> QED BY <1>2, <1>5, <3>1, <3>2 DEF B!LowPage
  <2> QED BY <2>1, <2>2
<1>9. ASSUME NEW Q, Q \cap {"off", "startup", "linux", "start", "dos_start", "lcpu_init"} = {}
      PROVE  B!Those(Q)' = B!Those(Q)
  <2>1. \A d \in B!Cpu : B!Place(d)' \in Q <=> B!Place(d) \in Q
    BY <1>2, <1>5, <1>9
  <2>2. B!Those(Q)' = {d \in B!Cpu : B!Place(d)' \in Q}
    BY <1>2 DEF B!Those
  <2> QED BY <2>1, <2>2 DEF B!Those
<1>10. B!Counts'
  <2>1. /\ B!Late \cap {"off", "startup", "linux", "start", "dos_start", "lcpu_init"} = {}
        /\ B!Finished \cap {"off", "startup", "linux", "start", "dos_start", "lcpu_init"} = {}
        /\ B!Ready \cap {"off", "startup", "linux", "start", "dos_start", "lcpu_init"} = {}
    BY DEF B!Late, B!Ucore, B!River, B!Finished, B!Ready
  <2> QED BY <1>1, <1>9, <2>1 DEF B!Counts
<1>11. B!Locked'
  <2>1. \A d \in B!Cpu : B!Place(d)' \in B!Section => d \in B!Cpu \ {0, e}
    BY <1>5 DEF B!Section
  <2>2. \A d \in B!Cpu : B!Place(d)' \in B!Section => B!Place(d) \in B!Section /\ B!Place(d)' = B!Place(d)
    BY <1>5, <2>1
  <2>3. \A d \in B!Cpu : B!Place(d)' = "finish" => B!Place(d) = "finish" /\ cpu'[d].reg = cpu[d].reg
    BY <1>5
  <2>4. \A c, d \in B!Cpu : B!Place(c)' \in B!Section /\ B!Place(d)' \in B!Section => c = d
    BY <1>1, <2>2 DEF B!Locked
  <2>5. \A d \in B!Cpu : B!Place(d)' \in B!Section => mem'.init_lock = 1
    <3>1. \A d \in B!Cpu : B!Place(d) \in B!Section => mem.init_lock = 1
      BY <1>1 DEF B!Locked
    <3>2. mem' = mem
      OBVIOUS
    <3> QED BY <2>2, <3>1, <3>2
  <2>6. \A d \in B!Cpu : B!Place(d)' = "finish" => cpu'[d].reg = mem'.init_finished
    <3>1. \A d \in B!Cpu : B!Place(d) = "finish" => cpu[d].reg = mem.init_finished
      BY <1>1 DEF B!Locked
    <3>2. mem' = mem
      OBVIOUS
    <3> QED BY <2>3, <3>1, <3>2
  <2>7. B!Section' = B!Section
    BY DEF B!Section
  <2> QED BY <1>2, <2>4, <2>5, <2>6, <2>7 DEF B!Locked
<1>12. B!FirstCpu'
  BY <1>1, <1>2, <1>5 DEF B!FirstCpu, B!Section, B!Finished
<1>13. B!Together'
  BY <1>1, <1>2, <1>5 DEF B!Together, B!Finished, B!Ready
<1>14. B!Handlers'
  BY <1>1, <1>2, <1>5 DEF B!Handlers, B!Finished, B!Ready
<1> QED BY <1>6, <1>7, <1>8, <1>10, <1>11, <1>12, <1>13, <1>14 DEF B!IndInv

(* The loop of mp_init.                                                    *)
LEMMA BootStartNext ==
    ASSUME B!IndInv, B!StartNext
    PROVE  B!IndInv'
<1>1. B!TypeOK /\ B!Bsp = 0 /\ 0 \in B!Cpu /\ B!LowPage /\ B!Kern \subseteq B!Cpu
  BY BootFacts DEF B!IndInv
<1>2. PICK i \in Nat : i = cpu[0].reg
  BY <1>1 DEF B!TypeOK
<1>3. /\ B!Place(0) = "start" /\ hw' = hw /\ low' = low /\ mem' = mem
  BY <1>1 DEF B!StartNext, B!At, B!Place
<1>4. PICK next : next = [cpu EXCEPT ![0].reg = i + 1]
  OBVIOUS
<1>5. cpu' = IF i \notin B!Kern
             THEN [cpu EXCEPT ![0] = [pc |-> IF hw.dos THEN "driver_os" ELSE "lcpu_init", reg |-> 0]]
             ELSE IF B!Id(i) = hw.boot THEN next
                  ELSE [next EXCEPT ![i] = [pc |-> "startup", reg |-> 0]]
  BY <1>1, <1>2, <1>4 DEF B!StartNext, B!LapicApStart
<1>6. next = [cpu EXCEPT ![0] = [pc |-> "start", reg |-> i + 1]]
  <2>1. cpu[0] \in [pc : B!Supervisor \cup B!Early \cup B!Late, reg : Nat] /\ cpu[0].pc = "start"
    BY <1>1, <1>3 DEF B!TypeOK, B!Place
  <2>2. [cpu[0] EXCEPT !.reg = i + 1] = [pc |-> "start", reg |-> i + 1]
    BY <2>1
  <2>3. next = [cpu EXCEPT ![0] = [cpu[0] EXCEPT !.reg = i + 1]]
    BY <1>4
  <2> QED BY <2>2, <2>3
<1>7. CASE i \notin B!Kern
  <2>1. CASE hw.dos
    <3>1. Moves(0, "driver_os", 0)
      BY <1>1, <1>3, <1>5, <1>7, <2>1 DEF Moves
    <3> QED BY <1>3, <2>1, <3>1, QuietStep DEF Quiet
  <2>2. CASE ~hw.dos
    <3>1. Moves(0, "lcpu_init", 0)
      BY <1>1, <1>3, <1>5, <1>7, <2>2 DEF Moves
    <3>2. Quiet(0, B!Place(0), "lcpu_init")
      BY <1>3 DEF Quiet
    <3> QED BY <1>3, <3>1, <3>2, QuietStep
  <2> QED BY <2>1, <2>2
<1>8. CASE i \in B!Kern /\ B!Id(i) = hw.boot
  <2>1. Moves(0, "start", i + 1)
    BY <1>1, <1>3, <1>5, <1>6, <1>8 DEF Moves
  <2>2. "start" \in B!Supervisor /\ B!Place(0) \in B!Supervisor /\ low' \in {"e820", "ap", "dos"}
    BY <1>1, <1>3 DEF B!Supervisor, B!TypeOK
  <2>3. Moved(0, "start", i + 1)
    <3>1. "start" \in Everywhere /\ i + 1 \in Nat
      BY <1>2, <2>2 DEF Everywhere
    <3> QED BY <1>1, <2>1, <3>1, MovesOne
  <2>4. \A c \in B!Cpu : c \in Int
    BY <1>1, BootFacts
  <2>5. B!LowPage'
    BY <1>1, <1>2, <1>3, <2>3, <2>4 DEF Moved, B!LowPage
  <2> QED BY <1>3, <2>1, <2>2, <2>5, SupervisorMove
<1>9. CASE i \in B!Kern /\ B!Id(i) # hw.boot
  <2>1. i \in B!Cpu \ {0}
    BY <1>1, <1>9, BootFacts
  <2>2. B!Place(i) = "off"
    BY <1>1, <1>2, <1>3, <2>1 DEF B!LowPage
  <2>3. cpu' = [[cpu EXCEPT ![0] = [pc |-> "start", reg |-> i + 1]]
                   EXCEPT ![i] = [pc |-> "startup", reg |-> 0]]
    BY <1>5, <1>6, <1>9
  <2>4. i + 1 \in Nat
    BY <1>2
  <2>5. B!Place(0) \in {"start", "dos_start"} /\ B!Place(0) # "dos_start"
    BY <1>3
  <2>6. i \in B!Kern /\ "start" = "start" /\ i + 1 = i + 1 /\ cpu[0].reg = i
    BY <1>2, <1>9
  <2> QED BY <1>3, <2>1, <2>2, <2>3, <2>4, <2>5, <2>6, StartsOne
<1> QED BY <1>7, <1>8, <1>9

(* The end of driver_os_init.                                              *)
LEMMA BootDriverOsStart ==
    ASSUME B!IndInv, B!DriverOsStart
    PROVE  B!IndInv'
<1>1. B!TypeOK /\ B!Bsp = 0 /\ 0 \in B!Cpu /\ B!LowPage /\ B!Places
  BY BootFacts DEF B!IndInv
<1>2. /\ B!Place(0) = "dos_start" /\ hw' = hw /\ low' = low /\ mem' = mem
      /\ cpu' = [[cpu EXCEPT ![0].pc = "lcpu_init"] EXCEPT ![B!N - 1] = [pc |-> "startup", reg |-> 0]]
  BY <1>1 DEF B!DriverOsStart, B!At, B!Place, B!LapicApStart
<1>3. hw.dos
  BY <1>1, <1>2 DEF B!LowPage
<1>4. B!N - 1 \in B!Cpu \ {0} /\ B!N - 1 \notin B!Kern
  BY <1>1, <1>3, BootFacts
<1>5. B!Place(B!N - 1) \in {"off", "startup", "linux"}
  BY <1>1, <1>4 DEF B!Places
<1>6. PICK r \in Nat : r = cpu[0].reg
  BY <1>1 DEF B!TypeOK
<1>7. [cpu EXCEPT ![0].pc = "lcpu_init"] = [cpu EXCEPT ![0] = [pc |-> "lcpu_init", reg |-> r]]
  <2>1. cpu[0] \in [pc : B!Supervisor \cup B!Early \cup B!Late, reg : Nat]
    BY <1>1 DEF B!TypeOK
  <2>2. [cpu[0] EXCEPT !.pc = "lcpu_init"] = [pc |-> "lcpu_init", reg |-> r]
    BY <1>6, <2>1
  <2> QED BY <2>2
<1>8. cpu' = [[cpu EXCEPT ![0] = [pc |-> "lcpu_init", reg |-> r]]
                 EXCEPT ![B!N - 1] = [pc |-> "startup", reg |-> 0]]
  BY <1>2, <1>7
<1> QED BY <1>2, <1>4, <1>5, <1>8, StartsOne

(* A CPU goes on in its kernel.                                            *)
LEMMA KernelMove ==
    ASSUME B!IndInv, NEW c, NEW x \in B!Late \ {"idle", "jump_kern"}, NEW r \in Nat, Moves(c, x, r),
           B!Place(c) \in B!Ucore \cup B!River,
           B!Place(c) \in B!Ucore <=> x \in B!Ucore, B!Place(c) \in B!River <=> x \in B!River,
           B!Place(c) \in B!Finished => x \in B!Finished, B!Place(c) \in B!Ready => x \in B!Ready,
           low' = low, mem' \in B!Memory
    PROVE  /\ Moved(c, x, r) /\ B!TypeOK' /\ B!Places' /\ B!LowPage' /\ B!Together'
           /\ B!Those(B!Late)' = B!Those(B!Late)
<1>1. B!TypeOK /\ B!Places /\ B!LowPage /\ B!Together
  BY DEF B!IndInv
<1>2. x \in Everywhere /\ low' \in {"e820", "ap", "dos"} /\ hw' = hw
  BY <1>1 DEF Everywhere, B!TypeOK, Moves
<1>3. Moved(c, x, r)
  BY <1>1, <1>2, MovesOne
<1>4. B!TypeOK'
  BY <1>1, <1>2, MovedType
<1>5. /\ x \notin B!Supervisor \cup B!Early /\ x \in B!Late
      /\ B!Place(c) \notin B!Supervisor \cup B!Early /\ B!Place(c) \in B!Late
  BY DEF B!Late, B!Supervisor, B!Early, B!Ucore, B!River
<1>6. B!Those(B!Late)' = B!Those(B!Late)
  BY <1>1, <1>2, <1>5, CountsNone
<1>7. B!Places'
  <2>1. c \in B!Kern
    BY <1>1, <1>3, <1>5 DEF B!Places, Moved, B!Early
  <2>2. /\ x \in B!Ucore => hw.kernel = "ucore"
        /\ x \in B!River => hw.kernel = "river"
    BY <1>1, <1>3 DEF B!Places, Moved
  <2>3. x \notin {"off", "startup", "trampoline", "linux"} /\ x \notin B!Supervisor
    BY <1>5 DEF B!Early
  <2> QED BY <1>1, <1>2, <1>3, <2>1, <2>2, <2>3 DEF Moved, B!Places
<1>8. B!LowPage'
  <2>1. CASE c = 0
    <3>1. x \notin {"start", "driver_os", "dos_start", "kern_init", "mp_init"}
      BY <1>5 DEF B!Supervisor
    <3> QED BY <1>1, <1>2, <1>3, <2>1, <3>1 DEF Moved, B!LowPage
  <2>2. CASE c # 0
    <3>1. B!Place(0)' = B!Place(0) /\ cpu'[0].reg = cpu[0].reg /\ 0 \in B!Cpu /\ c \in B!Cpu \ {0}
      BY <1>1, <1>3, <2>2, BootFacts DEF Moved
    <3>2. B!Place(c) # "off"
      BY <1>5 DEF B!Early
    <3> QED BY <1>1, <1>2, <1>3, <1>5, <3>1, <3>2 DEF Moved, B!LowPage
  <2> QED BY <2>1, <2>2
<1>9. B!Together'
  <2>1. ASSUME NEW d \in B!Cpu, B!Place(d)' = "idle"
        PROVE  B!Place(d) = "idle"
    BY <1>3, <2>1 DEF Moved
  <2>2. ASSUME NEW d \in B!Kern
        PROVE  /\ B!Place(d) \in B!Finished => B!Place(d)' \in B!Finished
               /\ B!Place(d) \in B!Ready => B!Place(d)' \in B!Ready
    BY <1>1, <1>3, BootFacts DEF Moved
  <2>3. B!Cpu' = B!Cpu /\ B!Kern' = B!Kern
    BY <1>3 DEF Moved
  <2> QED BY <1>1, <1>2, <2>1, <2>2, <2>3 DEF B!Together
<1> QED BY <1>3, <1>4, <1>6, <1>7, <1>8, <1>9

(* init_lock is taken when no CPU is in the section it protects.           *)
LEMMA BootAcquire ==
    ASSUME B!IndInv, NEW c \in B!Cpu, B!AcquireInit(c)
    PROVE  B!IndInv'
<1>1. /\ B!TypeOK /\ B!Places /\ B!Counts /\ B!Locked /\ B!FirstCpu /\ B!Handlers
  BY DEF B!IndInv
<1>2. /\ B!Place(c) = "acquire" /\ mem.init_lock = 0 /\ hw' = hw /\ low' = low
      /\ mem' = [mem EXCEPT !.init_lock = 1] /\ B!Goto(c, "init")
  BY DEF B!AcquireInit, B!At, B!Place
<1>3. PICK r \in Nat : Moves(c, "init", r)
  BY <1>1, <1>2, GoesTo
<1>4. mem \in B!Memory
  BY <1>1 DEF B!TypeOK
<1>5. /\ mem' \in B!Memory /\ mem'.lcpu_init_count = mem.lcpu_init_count
      /\ mem'.ipe_ready = mem.ipe_ready /\ mem'.init_finished = mem.init_finished
      /\ mem'.init_lock = 1 /\ mem'.handler = mem.handler /\ mem'.irq = mem.irq
      /\ mem'.recv_buffer = mem.recv_buffer
  BY <1>2, <1>4 DEF B!Memory
<1>6. /\ "init" \in B!Late \ {"idle", "jump_kern"} /\ "init" \in Everywhere
      /\ B!Place(c) \in B!Ucore /\ B!Place(c) \notin B!River /\ "init" \in B!Ucore /\ "init" \notin B!River
      /\ B!Place(c) \notin B!Finished \cup B!Ready /\ "init" \notin B!Finished \cup B!Ready
      /\ B!Place(c) \in B!Late
  BY <1>2 DEF B!Late, B!Ucore, B!River, B!Finished, B!Ready, Everywhere
<1>7. /\ Moved(c, "init", r) /\ B!TypeOK' /\ B!Places' /\ B!LowPage' /\ B!Together'
  BY <1>2, <1>3, <1>5, <1>6, KernelMove
<1>8. B!Counts'
  BY <1>1, <1>3, <1>5, <1>6, CountsStay
<1>9. B!Locked'
  <2>1. \A d \in B!Cpu : B!Place(d) \notin B!Section
    BY <1>1, <1>2 DEF B!Locked
  <2>2. \A d \in B!Cpu : B!Place(d)' \in B!Section => d = c
    BY <1>7, <2>1 DEF Moved
  <2>3. \A d \in B!Cpu : B!Place(d)' # "finish"
    BY <1>7, <2>1 DEF Moved, B!Section
  <2> QED BY <1>5, <1>7, <2>2, <2>3 DEF Moved, B!Locked
<1>10. B!FirstCpu'
  BY <1>1, <1>2, <1>7, BootFacts DEF Moved, B!FirstCpu, B!Section, B!Finished
<1>11. B!Handlers'
  BY <1>1, <1>2, <1>5, <1>7 DEF Moved, B!Handlers, B!Finished, B!Ready
<1> QED BY <1>7, <1>8, <1>9, <1>10, <1>11 DEF B!IndInv

(* It is given back by the only CPU there.                                 *)
LEMMA BootRelease ==
    ASSUME B!IndInv, NEW c \in B!Cpu, B!ReleaseInit(c)
    PROVE  B!IndInv'
<1>1. /\ B!TypeOK /\ B!Places /\ B!Counts /\ B!Locked /\ B!FirstCpu /\ B!Handlers
  BY DEF B!IndInv
<1>2. /\ B!Place(c) = "release" /\ hw' = hw /\ low' = low
      /\ mem' = [mem EXCEPT !.init_lock = 0] /\ B!Goto(c, "barrier")
  BY DEF B!ReleaseInit, B!At, B!Place
<1>3. PICK r \in Nat : Moves(c, "barrier", r)
  BY <1>1, <1>2, GoesTo
<1>4. mem \in B!Memory
  BY <1>1 DEF B!TypeOK
<1>5. /\ mem' \in B!Memory /\ mem'.lcpu_init_count = mem.lcpu_init_count
      /\ mem'.ipe_ready = mem.ipe_ready /\ mem'.init_finished = mem.init_finished
      /\ mem'.init_lock = 0 /\ mem'.handler = mem.handler /\ mem'.irq = mem.irq
      /\ mem'.recv_buffer = mem.recv_buffer
  BY <1>2, <1>4 DEF B!Memory
<1>6. /\ "barrier" \in B!Late \ {"idle", "jump_kern"} /\ "barrier" \in Everywhere
      /\ B!Place(c) \in B!Ucore /\ B!Place(c) \notin B!River
      /\ "barrier" \in B!Ucore /\ "barrier" \notin B!River
      /\ B!Place(c) \in B!Finished /\ "barrier" \in B!Finished
      /\ B!Place(c) \notin B!Ready /\ "barrier" \notin B!Ready /\ B!Place(c) \in B!Late
  BY <1>2 DEF B!Late, B!Ucore, B!River, B!Finished, B!Ready, Everywhere
<1>7. /\ Moved(c, "barrier", r) /\ B!TypeOK' /\ B!Places' /\ B!LowPage' /\ B!Together'
  BY <1>2, <1>3, <1>5, <1>6, KernelMove
<1>8. B!Counts'
  BY <1>1, <1>3, <1>5, <1>6, CountsStay
<1>9. B!Locked'
  <2>1. \A d \in B!Cpu : B!Place(d) \in B!Section => d = c
    BY <1>1, <1>2 DEF B!Locked, B!Section
  <2>2. \A d \in B!Cpu : B!Place(d)' \notin B!Section
    BY <1>7, <2>1 DEF Moved, B!Section
  <2>3. \A d \in B!Cpu : B!Place(d)' # "finish"
    BY <2>2 DEF B!Section
  <2> QED BY <1>7, <2>2, <2>3 DEF Moved, B!Locked
<1>10. B!FirstCpu'
  BY <1>1, <1>2, <1>7, BootFacts DEF Moved, B!FirstCpu, B!Section, B!Finished
<1>11. B!Handlers'
  BY <1>1, <1>2, <1>5, <1>7 DEF Moved, B!Handlers, B!Finished, B!Ready
<1> QED BY <1>7, <1>8, <1>9, <1>10, <1>11 DEF B!IndInv

(* The CPU in the section has read init_finished there, where no other     *)
(* writes it; the first CPU, which stores 1, comes before all others.      *)
LEMMA BootFinish ==
    ASSUME B!IndInv, NEW c \in B!Cpu, B!FinishInit(c)
    PROVE  B!IndInv'
<1>1. /\ B!TypeOK /\ B!Places /\ B!Counts /\ B!Locked /\ B!FirstCpu /\ B!Handlers
  BY DEF B!IndInv
<1>2. /\ B!Place(c) = "finish" /\ hw' = hw /\ low' = low /\ B!Goto(c, "release")
      /\ mem' = [mem EXCEPT !.init_finished = IF c = 0 THEN 1 ELSE cpu[c].reg + 1]
  BY DEF B!FinishInit, B!At, B!Place
<1>3. PICK r \in Nat : Moves(c, "release", r)
  BY <1>1, <1>2, GoesTo
<1>4. mem \in B!Memory /\ mem.init_finished \in Nat
  BY <1>1 DEF B!TypeOK, B!Memory
<1>5. hw.kernel = "ucore"
  BY <1>1, <1>2 DEF B!Places, B!Ucore
<1>6. (IF c = 0 THEN 1 ELSE cpu[c].reg + 1) = mem.init_finished + 1
  <2>1. CASE c = 0
    <3>1. \A d \in B!Cpu : B!Place(d) \notin B!Finished
      BY <1>1, <1>2, <1>5, <2>1 DEF B!FirstCpu, B!Finished, B!Section
    <3>2. B!Those(B!Finished) = {}
      BY <3>1 DEF B!Those
    <3>3. mem.init_finished = 0
      BY <1>1, <1>5, <3>2, B!FS_EmptySet DEF B!Counts
    <3> QED BY <2>1, <3>3
  <2>2. CASE c # 0
    BY <1>1, <1>2, <2>2 DEF B!Locked
  <2> QED BY <2>1, <2>2
<1>7. mem' = [mem EXCEPT !.init_finished = mem.init_finished + 1]
  BY <1>2, <1>6
<1>8. /\ mem' \in B!Memory /\ mem'.lcpu_init_count = mem.lcpu_init_count
      /\ mem'.ipe_ready = mem.ipe_ready /\ mem'.init_finished = mem.init_finished + 1
      /\ mem'.init_lock = mem.init_lock /\ mem'.handler = mem.handler /\ mem'.irq = mem.irq
      /\ mem'.recv_buffer = mem.recv_buffer
  BY <1>4, <1>7 DEF B!Memory
<1>9. /\ "release" \in B!Late \ {"idle", "jump_kern"} /\ "release" \in Everywhere
      /\ B!Place(c) \in B!Ucore /\ B!Place(c) \notin B!River
      /\ "release" \in B!Ucore /\ "release" \notin B!River
      /\ B!Place(c) \notin B!Finished /\ "release" \in B!Finished
      /\ B!Place(c) \notin B!Ready /\ "release" \notin B!Ready
  BY <1>2 DEF B!Late, B!Ucore, B!River, B!Finished, B!Ready, Everywhere
<1>10. /\ Moved(c, "release", r) /\ B!TypeOK' /\ B!Places' /\ B!LowPage' /\ B!Together'
       /\ B!Those(B!Late)' = B!Those(B!Late)
  BY <1>2, <1>3, <1>8, <1>9, KernelMove
<1>11. B!Counts'
  <2>1. B!Cardinality(B!Those(B!Finished)') = B!Cardinality(B!Those(B!Finished)) + 1
    BY <1>1, <1>3, <1>9, CountsOne
  <2> QED BY <1>1, <1>2, <1>5, <1>8, <1>10, <2>1 DEF B!Counts
<1>12. B!Locked'
  <2>1. \A d \in B!Cpu : B!Place(d) \in B!Section => d = c
    BY <1>1, <1>2 DEF B!Locked, B!Section
  <2>2. \A d \in B!Cpu : B!Place(d)' \in B!Section => d = c
    BY <1>10, <2>1 DEF Moved
  <2>3. \A d \in B!Cpu : B!Place(d)' # "finish"
    BY <1>10, <2>1 DEF Moved, B!Section
  <2>4. mem'.init_lock = 1
    BY <1>1, <1>2, <1>8 DEF B!Locked, B!Section
  <2> QED BY <1>10, <2>2, <2>3, <2>4 DEF Moved, B!Locked
<1>13. B!FirstCpu'
  BY <1>1, <1>2, <1>10, BootFacts DEF Moved, B!FirstCpu, B!Section, B!Finished
<1>14. B!Handlers'
  BY <1>1, <1>2, <1>8, <1>10 DEF Moved, B!Handlers, B!Finished, B!Ready
<1> QED BY <1>10, <1>11, <1>12, <1>13, <1>14 DEF B!IndInv

(* intr_handler_set: the vectors it sets, and the devices routed here.     *)
HandlerSet(t, s, c, V) ==
    /\ t \in B!Memory /\ t.lcpu_init_count = s.lcpu_init_count /\ t.ipe_ready = s.ipe_ready
    /\ t.init_finished = s.init_finished /\ t.init_lock = s.init_lock /\ t.recv_buffer = s.recv_buffer
    /\ t.handler[c] = s.handler[c] \cup V
    /\ \A d \in B!Cpu \ {c} : t.handler[d] = s.handler[d]
    /\ \A q \in B!Irq : \/ q \in V /\ t.irq[q].to = c
                        \/ q \notin V /\ t.irq[q] = s.irq[q]

Vectors == B!Exceptions \cup B!Irq \cup {"TIMER", "T_IPI_DOS"}

LEMMA SetsHandlers ==
    ASSUME NEW s \in B!Memory, NEW c \in B!Cpu, NEW V \in SUBSET Vectors, B!Cpu \subseteq Int
    PROVE  HandlerSet(B!IntrHandlerSet(s, c, V), s, c, V)
<1> DEFINE irq2 == [q \in B!Irq |-> IF q \in V THEN [to |-> c, on |-> FALSE] ELSE s.irq[q]]
           handler2 == [s.handler EXCEPT ![c] = s.handler[c] \cup V]
<1>1. /\ s.handler \in [B!Cpu -> SUBSET Vectors] /\ s.irq \in [B!Irq -> [to : Int, on : BOOLEAN]]
      /\ s.lcpu_init_count \in Nat /\ s.ipe_ready \in Nat /\ s.init_finished \in Nat
      /\ s.init_lock \in {0, 1} /\ s.recv_buffer \in SUBSET B!Cpu
  BY DEF B!Memory, Vectors
<1>2. PICK t : t = B!IntrHandlerSet(s, c, V)
  OBVIOUS
<1>3. t = [[s EXCEPT !.handler = handler2] EXCEPT !.irq = irq2]
  BY <1>2 DEF B!IntrHandlerSet
<1>4. handler2 \in [B!Cpu -> SUBSET Vectors]
  BY <1>1
<1>5. irq2 \in [B!Irq -> [to : Int, on : BOOLEAN]]
  <2>1. FALSE \in BOOLEAN /\ c \in Int
    OBVIOUS
  <2>2. [to |-> c, on |-> FALSE] \in [to : Int, on : BOOLEAN]
    BY <2>1
  <2> QED BY <1>1, <2>2
<1> HIDE DEF irq2, handler2
<1>6. /\ t \in B!Memory /\ t.lcpu_init_count = s.lcpu_init_count /\ t.ipe_ready = s.ipe_ready
      /\ t.init_finished = s.init_finished /\ t.init_lock = s.init_lock /\ t.recv_buffer = s.recv_buffer
      /\ t.handler = handler2 /\ t.irq = irq2
  BY <1>1, <1>3, <1>4, <1>5 DEF B!Memory, Vectors
<1>7. handler2[c] = s.handler[c] \cup V /\ \A d \in B!Cpu \ {c} : handler2[d] = s.handler[d]
  BY <1>1 DEF handler2
<1>8. ASSUME NEW q \in B!Irq
      PROVE  \/ q \in V /\ irq2[q].to = c
             \/ q \notin V /\ irq2[q] = s.irq[q]
  BY DEF irq2
<1> QED BY <1>2, <1>6, <1>7, <1>8 DEF HandlerSet

(* What the routes of the devices keep.                                    *)
Routed(m) == \A q \in B!Irq : m.irq[q].on => m.irq[q].to \in B!Cpu /\ q \in m.handler[m.irq[q].to]

LEMMA RoutesSet ==
    ASSUME NEW s, NEW t, NEW c \in B!Cpu, NEW V, HandlerSet(t, s, c, V), Routed(s)
    PROVE  Routed(t)
<1> SUFFICES ASSUME NEW q \in B!Irq, t.irq[q].on
             PROVE  t.irq[q].to \in B!Cpu /\ q \in t.handler[t.irq[q].to]
  BY DEF Routed
<1>1. CASE q \in V
  BY <1>1 DEF HandlerSet
<1>2. CASE q \notin V
  <2>1. t.irq[q] = s.irq[q]
    BY <1>2 DEF HandlerSet
  <2>2. s.irq[q].to \in B!Cpu /\ q \in s.handler[s.irq[q].to]
    BY <2>1 DEF Routed
  <2> QED BY <2>1, <2>2 DEF HandlerSet
<1> QED BY <1>1, <1>2

(* trap_init also lets the keyboard's interrupts in, whose handler it has  *)
(* set on this CPU.                                                        *)
LEMMA EnablesIrq ==
    ASSUME NEW t \in B!Memory, Routed(t), NEW q \in B!Irq, NEW c \in B!Cpu,
           t.irq[q].to = c, q \in t.handler[c]
    PROVE  /\ B!IrqEnable(t, q) \in B!Memory /\ Routed(B!IrqEnable(t, q))
           /\ B!IrqEnable(t, q).lcpu_init_count = t.lcpu_init_count
           /\ B!IrqEnable(t, q).ipe_ready = t.ipe_ready
           /\ B!IrqEnable(t, q).init_finished = t.init_finished
           /\ B!IrqEnable(t, q).init_lock = t.init_lock
           /\ B!IrqEnable(t, q).recv_buffer = t.recv_buffer
           /\ B!IrqEnable(t, q).handler = t.handler
<1> DEFINE irq2 == [t.irq EXCEPT ![q] = [t.irq[q] EXCEPT !.on = TRUE]]
<1>1. /\ t.irq \in [B!Irq -> [to : Int, on : BOOLEAN]] /\ t.irq[q] \in [to : Int, on : BOOLEAN]
  BY DEF B!Memory
<1>2. PICK u : u = B!IrqEnable(t, q)
  OBVIOUS
<1>3. u = [t EXCEPT !.irq = irq2]
  BY <1>2 DEF B!IrqEnable
<1>4. TRUE \in BOOLEAN
  OBVIOUS
<1>5. /\ [t.irq[q] EXCEPT !.on = TRUE] \in [to : Int, on : BOOLEAN]
      /\ [t.irq[q] EXCEPT !.on = TRUE].to = t.irq[q].to
  BY <1>1, <1>4
<1>6. irq2 \in [B!Irq -> [to : Int, on : BOOLEAN]] /\ irq2[q].to = c
  BY <1>1, <1>5
<1>7. \A e \in B!Irq \ {q} : irq2[e] = t.irq[e]
  BY <1>1
<1> HIDE DEF irq2
<1>8. /\ u \in B!Memory /\ u.lcpu_init_count = t.lcpu_init_count /\ u.ipe_ready = t.ipe_ready
      /\ u.init_finished = t.init_finished /\ u.init_lock = t.init_lock /\ u.recv_buffer = t.recv_buffer
      /\ u.handler = t.handler /\ u.irq = irq2
  BY <1>3, <1>6 DEF B!Memory
<1>9. Routed(u)
  <2> SUFFICES ASSUME NEW e \in B!Irq, u.irq[e].on
               PROVE  u.irq[e].to \in B!Cpu /\ e \in u.handler[u.irq[e].to]
    BY DEF Routed
  <2>1. CASE e = q
    BY <1>6, <1>8, <2>1
  <2>2. CASE e # q
    <3>1. u.irq[e] = t.irq[e]
      BY <1>7, <1>8, <2>2
    <3>2. t.irq[e].to \in B!Cpu /\ e \in t.handler[t.irq[e].to]
      BY <3>1 DEF Routed
    <3> QED BY <1>8, <3>1, <3>2
  <2> QED BY <2>1, <2>2
<1> QED BY <1>2, <1>8, <1>9

(* A CPU sets up its traps.                                                *)
TrapsSet(c) ==
    /\ mem' \in B!Memory /\ mem'.lcpu_init_count = mem.lcpu_init_count
    /\ mem'.ipe_ready = mem.ipe_ready /\ mem'.init_finished = mem.init_finished
    /\ mem'.init_lock = mem.init_lock /\ mem'.recv_buffer = mem.recv_buffer
    /\ B!Exceptions \cup {"TIMER"} \subseteq mem'.handler[c]
    /\ \A d \in B!Cpu \ {c} : mem'.handler[d] = mem.handler[d]
    /\ Routed(mem')

LEMMA SetsTraps ==
    ASSUME B!IndInv, NEW c \in B!Cpu,
           \/ mem' = B!TrapInit(mem, c)
           \/ mem' = B!TrapInitAp(mem, c)
           \/ mem' = B!IntrHandlerSet(mem, c, B!Exceptions \cup {"T_IPI_DOS", "TIMER"})
    PROVE  TrapsSet(c)
<1>1. mem \in B!Memory /\ B!Cpu \subseteq Int
  BY BootFacts DEF B!IndInv, B!TypeOK
<1>2. Routed(mem)
  BY DEF B!IndInv, B!Handlers, Routed
<1>3. ASSUME NEW V \in SUBSET Vectors, B!Exceptions \cup {"TIMER"} \subseteq V,
             mem' = B!IntrHandlerSet(mem, c, V)
      PROVE  TrapsSet(c)
  <2>1. HandlerSet(mem', mem, c, V)
    BY <1>1, <1>3, SetsHandlers
  <2>2. Routed(mem')
    BY <1>2, <2>1, RoutesSet
  <2> QED BY <1>3, <2>1, <2>2 DEF HandlerSet, TrapsSet
<1>4. CASE mem' = B!TrapInit(mem, c)
  <2> DEFINE V == B!Exceptions \cup {"TIMER", "COM1", "KBD"}
  <2>1. V \in SUBSET Vectors /\ B!Exceptions \cup {"TIMER"} \subseteq V /\ "KBD" \in V /\ "KBD" \in B!Irq
    BY DEF Vectors, B!Irq
  <2>2. PICK t : t = B!IntrHandlerSet(mem, c, V)
    OBVIOUS
  <2>3. mem' = B!IrqEnable(t, "KBD")
    BY <1>4, <2>2 DEF B!TrapInit
  <2> HIDE DEF V
  <2>4. HandlerSet(t, mem, c, V)
    BY <1>1, <2>1, <2>2, SetsHandlers
  <2>5. Routed(t) /\ t \in B!Memory
    BY <1>2, <2>4, RoutesSet DEF HandlerSet
  <2>6. t.irq["KBD"].to = c /\ "KBD" \in t.handler[c]
    BY <2>1, <2>4 DEF HandlerSet
  <2>7. /\ mem' \in B!Memory /\ Routed(mem')
        /\ mem'.lcpu_init_count = t.lcpu_init_count /\ mem'.ipe_ready = t.ipe_ready
        /\ mem'.init_finished = t.init_finished /\ mem'.init_lock = t.init_lock
        /\ mem'.recv_buffer = t.recv_buffer /\ mem'.handler = t.handler
    BY <2>1, <2>3, <2>5, <2>6, EnablesIrq
  <2> QED BY <2>1, <2>4, <2>7 DEF HandlerSet, TrapsSet
<1>5. CASE mem' = B!TrapInitAp(mem, c)
  <2>1. /\ B!Exceptions \cup {"TIMER"} \in SUBSET Vectors
        /\ mem' = B!IntrHandlerSet(mem, c, B!Exceptions \cup {"TIMER"})
    BY <1>5 DEF B!TrapInitAp, Vectors
  <2> QED BY <1>3, <2>1
<1>6. CASE mem' = B!IntrHandlerSet(mem, c, B!Exceptions \cup {"T_IPI_DOS", "TIMER"})
  <2>1. /\ B!Exceptions \cup {"T_IPI_DOS", "TIMER"} \in SUBSET Vectors
        /\ B!Exceptions \cup {"TIMER"} \subseteq B!Exceptions \cup {"T_IPI_DOS", "TIMER"}
    BY DEF Vectors
  <2> QED BY <1>3, <1>6, <2>1
<1> QED BY <1>4, <1>5, <1>6

LEMMA BootInitKernel ==
    ASSUME B!IndInv, NEW c \in B!Cpu, B!InitKernel(c)
    PROVE  B!IndInv'
<1>1. /\ B!TypeOK /\ B!Places /\ B!Counts /\ B!Locked /\ B!FirstCpu /\ B!Handlers
  BY DEF B!IndInv
<1>2. /\ B!Place(c) = "init" /\ hw' = hw /\ low' = low
      /\ cpu' = [cpu EXCEPT ![c] = [pc |-> "finish", reg |-> mem.init_finished]]
      /\ mem' = B!TrapInit(mem, c) \/ mem' = B!TrapInitAp(mem, c)
  BY DEF B!InitKernel, B!At, B!Place
<1>3. PICK r \in Nat : r = mem.init_finished
  BY <1>1 DEF B!TypeOK, B!Memory
<1>4. Moves(c, "finish", r)
  BY <1>2, <1>3 DEF Moves
<1>5. TrapsSet(c)
  BY <1>2, SetsTraps
<1>6. /\ "finish" \in B!Late \ {"idle", "jump_kern"} /\ "finish" \in Everywhere
      /\ B!Place(c) \in B!Ucore /\ B!Place(c) \notin B!River
      /\ "finish" \in B!Ucore /\ "finish" \notin B!River
      /\ B!Place(c) \notin B!Finished \cup B!Ready /\ "finish" \notin B!Finished \cup B!Ready
      /\ B!Place(c) \in B!Late
  BY <1>2 DEF B!Late, B!Ucore, B!River, B!Finished, B!Ready, Everywhere
<1>7. /\ Moved(c, "finish", r) /\ B!TypeOK' /\ B!Places' /\ B!LowPage' /\ B!Together'
  BY <1>2, <1>4, <1>5, <1>6, KernelMove DEF TrapsSet
<1>8. B!Counts'
  BY <1>1, <1>4, <1>5, <1>6, CountsStay DEF TrapsSet
<1>9. B!Locked'
  <2>1. \A d \in B!Cpu : B!Place(d) \in B!Section => d = c
    BY <1>1, <1>2 DEF B!Locked, B!Section
  <2>2. \A d \in B!Cpu : B!Place(d)' \in B!Section => d = c
    BY <1>7, <2>1 DEF Moved
  <2>3. \A d \in B!Cpu : B!Place(d)' = "finish" => d = c
    BY <2>2 DEF B!Section
  <2>4. mem'.init_lock = 1 /\ mem'.init_finished = r
    BY <1>1, <1>2, <1>3, <1>5 DEF B!Locked, B!Section, TrapsSet
  <2> QED BY <1>7, <2>2, <2>3, <2>4 DEF Moved, B!Locked
<1>10. B!FirstCpu'
  BY <1>1, <1>2, <1>7, BootFacts DEF Moved, B!FirstCpu, B!Section, B!Finished
<1>11. B!Handlers'
  <2>1. \A q \in B!Irq : mem'.irq[q].on => mem'.irq[q].to \in B!Cpu /\ q \in mem'.handler[mem'.irq[q].to]
    BY <1>5 DEF TrapsSet, Routed
  <2>2. B!Cpu' = B!Cpu /\ B!Irq' = B!Irq /\ B!Exceptions' = B!Exceptions
    BY <1>7 DEF Moved, B!Irq, B!Exceptions
  <2>3. ASSUME NEW d \in B!Cpu
        PROVE  /\ B!Place(d)' \in (B!Finished \cup B!Ready \cup {"finish", "ipe_init", "ipe_ready", "ipe_cas"})
                    => B!Exceptions \cup {"TIMER"} \subseteq mem'.handler[d]
               /\ B!Place(d)' \in {"ipe_ready", "ipe_cas"} => d \in mem'.recv_buffer
               /\ hw'.kernel = "river" /\ B!Place(d)' \in B!Ready => d \in mem'.recv_buffer
    <3>1. CASE d = c
      BY <1>5, <1>6, <1>7, <3>1 DEF Moved, TrapsSet
    <3>2. CASE d # c
      BY <1>1, <1>2, <1>5, <1>7, <3>2 DEF Moved, TrapsSet, B!Handlers
    <3> QED BY <3>1, <3>2
  <2>4. B!Finished' = B!Finished /\ B!Ready' = B!Ready
    BY DEF B!Finished, B!Ready
  <2> QED BY <2>1, <2>2, <2>3, <2>4 DEF B!Handlers
<1> QED BY <1>7, <1>8, <1>9, <1>10, <1>11 DEF B!IndInv

(* kern-river's entry.                                                     *)
LEMMA BootRiverEntry ==
    ASSUME B!IndInv, NEW c \in B!Cpu, B!RiverEntry(c)
    PROVE  B!IndInv'
<1>1. /\ B!TypeOK /\ B!Places /\ B!Counts /\ B!Locked /\ B!FirstCpu /\ B!Handlers
  BY DEF B!IndInv
<1>2. /\ B!Place(c) = "trap_init" /\ hw' = hw /\ low' = low /\ B!Goto(c, "ipe_init")
      /\ mem' = B!IntrHandlerSet(mem, c, B!Exceptions \cup {"T_IPI_DOS", "TIMER"})
  BY DEF B!RiverEntry, B!At, B!Place
<1>3. PICK r \in Nat : Moves(c, "ipe_init", r)
  BY <1>1, <1>2, GoesTo
<1>4. TrapsSet(c)
  BY <1>2, SetsTraps
<1>5. /\ "ipe_init" \in B!Late \ {"idle", "jump_kern"} /\ "ipe_init" \in Everywhere
      /\ B!Place(c) \notin B!Ucore /\ B!Place(c) \in B!River
      /\ "ipe_init" \notin B!Ucore /\ "ipe_init" \in B!River
      /\ B!Place(c) \notin B!Finished \cup B!Ready /\ "ipe_init" \notin B!Finished \cup B!Ready
      /\ B!Place(c) \in B!Late
  BY <1>2 DEF B!Late, B!Ucore, B!River, B!Finished, B!Ready, Everywhere
<1>6. /\ Moved(c, "ipe_init", r) /\ B!TypeOK' /\ B!Places' /\ B!LowPage' /\ B!Together'
  BY <1>2, <1>3, <1>4, <1>5, KernelMove DEF TrapsSet
<1>7. B!Counts'
  BY <1>1, <1>3, <1>4, <1>5, CountsStay DEF TrapsSet
<1>8. B!Locked'
  BY <1>1, <1>2, <1>4, <1>6 DEF Moved, TrapsSet, B!Locked, B!Section
<1>9. B!FirstCpu'
  BY <1>1, <1>2, <1>6, BootFacts DEF Moved, B!FirstCpu, B!Section, B!Finished
<1>10. B!Handlers'
  <2>1. \A q \in B!Irq : mem'.irq[q].on => mem'.irq[q].to \in B!Cpu /\ q \in mem'.handler[mem'.irq[q].to]
    BY <1>4 DEF TrapsSet, Routed
  <2>2. B!Cpu' = B!Cpu /\ B!Irq' = B!Irq /\ B!Exceptions' = B!Exceptions
    BY <1>6 DEF Moved, B!Irq, B!Exceptions
  <2>3. ASSUME NEW d \in B!Cpu
        PROVE  /\ B!Place(d)' \in (B!Finished \cup B!Ready \cup {"finish", "ipe_init", "ipe_ready", "ipe_cas"})
                    => B!Exceptions \cup {"TIMER"} \subseteq mem'.handler[d]
               /\ B!Place(d)' \in {"ipe_ready", "ipe_cas"} => d \in mem'.recv_buffer
               /\ hw'.kernel = "river" /\ B!Place(d)' \in B!Ready => d \in mem'.recv_buffer
    <3>1. CASE d = c
      BY <1>4, <1>5, <1>6, <3>1 DEF Moved, TrapsSet
    <3>2. CASE d # c
      BY <1>1, <1>2, <1>4, <1>6, <3>2 DEF Moved, TrapsSet, B!Handlers
    <3> QED BY <3>1, <3>2
  <2>4. B!Finished' = B!Finished /\ B!Ready' = B!Ready
    BY DEF B!Finished, B!Ready
  <2> QED BY <2>1, <2>2, <2>3, <2>4 DEF B!Handlers
<1> QED BY <1>6, <1>7, <1>8, <1>9, <1>10 DEF B!IndInv

(* ipe_init gives the CPU its receive buffer.                              *)
LEMMA BootIpeInit ==
    ASSUME B!IndInv, NEW c \in B!Cpu, B!IpeInit(c)
    PROVE  B!IndInv'
<1>1. /\ B!TypeOK /\ B!Places /\ B!Counts /\ B!Locked /\ B!FirstCpu /\ B!Handlers
  BY DEF B!IndInv
<1>2. /\ B!Place(c) = "ipe_init" /\ hw' = hw /\ low' = low /\ B!Goto(c, "ipe_ready")
      /\ mem' = [mem EXCEPT !.recv_buffer = mem.recv_buffer \cup {c}]
  BY DEF B!IpeInit, B!At, B!Place
<1>3. PICK r \in Nat : Moves(c, "ipe_ready", r)
  BY <1>1, <1>2, GoesTo
<1>4. mem \in B!Memory
  BY <1>1 DEF B!TypeOK
<1>5. /\ mem' \in B!Memory /\ mem'.lcpu_init_count = mem.lcpu_init_count
      /\ mem'.ipe_ready = mem.ipe_ready /\ mem'.init_finished = mem.init_finished
      /\ mem'.init_lock = mem.init_lock /\ mem'.handler = mem.handler /\ mem'.irq = mem.irq
      /\ mem'.recv_buffer = mem.recv_buffer \cup {c}
  BY <1>2, <1>4 DEF B!Memory
<1>6. /\ "ipe_ready" \in B!Late \ {"idle", "jump_kern"} /\ "ipe_ready" \in Everywhere
      /\ B!Place(c) \notin B!Ucore /\ B!Place(c) \in B!River
      /\ "ipe_ready" \notin B!Ucore /\ "ipe_ready" \in B!River
      /\ B!Place(c) \notin B!Finished \cup B!Ready /\ "ipe_ready" \notin B!Finished \cup B!Ready
      /\ B!Place(c) \in B!Late
  BY <1>2 DEF B!Late, B!Ucore, B!River, B!Finished, B!Ready, Everywhere
<1>7. /\ Moved(c, "ipe_ready", r) /\ B!TypeOK' /\ B!Places' /\ B!LowPage' /\ B!Together'
  BY <1>2, <1>3, <1>5, <1>6, KernelMove
<1>8. B!Counts'
  BY <1>1, <1>3, <1>5, <1>6, CountsStay
<1>9. B!Locked'
  BY <1>1, <1>2, <1>5, <1>7 DEF Moved, B!Locked, B!Section
<1>10. B!FirstCpu'
  BY <1>1, <1>2, <1>7, BootFacts DEF Moved, B!FirstCpu, B!Section, B!Finished
<1>11. B!Handlers'
  BY <1>1, <1>2, <1>5, <1>7 DEF Moved, B!Handlers, B!Finished, B!Ready
<1> QED BY <1>7, <1>8, <1>9, <1>10, <1>11 DEF B!IndInv

(* ... and counts it.                                                      *)
LEMMA BootIpeCas ==
    ASSUME B!IndInv, NEW c \in B!Cpu,
           B!Cmpxchg(c, "ipe_cas", "ipe_ready", "ipe_ready", "ipe_barrier")
    PROVE  B!IndInv'
<1>1. /\ B!TypeOK /\ B!Places /\ B!Counts /\ B!Locked /\ B!FirstCpu /\ B!Handlers
  BY DEF B!IndInv
<1>2. B!Place(c) = "ipe_cas" /\ hw' = hw /\ low' = low /\ mem["ipe_ready"] = mem.ipe_ready
  BY DEF B!Cmpxchg, B!At, B!Place
<1>3. CASE mem.ipe_ready # cpu[c].reg
  <2>1. B!Goto(c, "ipe_ready") /\ mem' = mem
    BY <1>2, <1>3 DEF B!Cmpxchg
  <2>2. PICK r \in Nat : Moves(c, "ipe_ready", r)
    BY <1>1, <1>2, <2>1, GoesTo
  <2> QED BY <1>2, <2>1, <2>2, QuietStep DEF Quiet
<1>4. CASE mem.ipe_ready = cpu[c].reg
  <2>1. B!Goto(c, "ipe_barrier") /\ mem' = [mem EXCEPT !["ipe_ready"] = mem["ipe_ready"] + 1]
    BY <1>2, <1>4 DEF B!Cmpxchg
  <2>2. PICK r \in Nat : Moves(c, "ipe_barrier", r)
    BY <1>1, <1>2, <2>1, GoesTo
  <2>3. mem \in B!Memory
    BY <1>1 DEF B!TypeOK
  <2>4. /\ mem' \in B!Memory /\ mem'.ipe_ready = mem.ipe_ready + 1
        /\ mem'.lcpu_init_count = mem.lcpu_init_count /\ mem'.init_finished = mem.init_finished
        /\ mem'.init_lock = mem.init_lock /\ mem'.handler = mem.handler /\ mem'.irq = mem.irq
        /\ mem'.recv_buffer = mem.recv_buffer
    BY <1>2, <2>1, <2>3 DEF B!Memory
  <2>5. /\ "ipe_barrier" \in B!Late \ {"idle", "jump_kern"} /\ "ipe_barrier" \in Everywhere
        /\ B!Place(c) \notin B!Ucore /\ B!Place(c) \in B!River
        /\ "ipe_barrier" \notin B!Ucore /\ "ipe_barrier" \in B!River
        /\ B!Place(c) \notin B!Ready /\ "ipe_barrier" \in B!Ready
        /\ B!Place(c) \notin B!Finished /\ "ipe_barrier" \notin B!Finished
    BY <1>2 DEF B!Late, B!Ucore, B!River, B!Finished, B!Ready, Everywhere
  <2>6. /\ Moved(c, "ipe_barrier", r) /\ B!TypeOK' /\ B!Places' /\ B!LowPage' /\ B!Together'
        /\ B!Those(B!Late)' = B!Those(B!Late)
    BY <1>2, <2>2, <2>4, <2>5, KernelMove
  <2>7. hw.kernel = "river"
    BY <1>1, <2>5 DEF B!Places
  <2>8. B!Cardinality(B!Those(B!Ready)') = B!Cardinality(B!Those(B!Ready)) + 1
    BY <1>1, <2>2, <2>5, CountsOne
  <2>9. B!Counts'
    BY <1>1, <1>2, <2>4, <2>6, <2>7, <2>8 DEF B!Counts
  <2>10. B!Locked'
    BY <1>1, <1>2, <2>4, <2>6 DEF Moved, B!Locked, B!Section
  <2>11. B!FirstCpu'
    BY <1>1, <1>2, <2>6, BootFacts DEF Moved, B!FirstCpu, B!Section, B!Finished
  <2>12. B!Handlers'
    BY <1>1, <1>2, <2>4, <2>6 DEF Moved, B!Handlers, B!Finished, B!Ready
  <2> QED BY <2>6, <2>9, <2>10, <2>11, <2>12 DEF B!IndInv
<1> QED BY <1>3, <1>4

(* The first state: one CPU runs, and nobody has counted itself.           *)
LEMMA BootInit ==
    ASSUME B!Init
    PROVE  B!IndInv
<1>1. PICK m \in Madt, d \in BOOLEAN, k \in {"ucore", "river"} :
        LET s == B!LcpuIdSet(m) IN
        /\ hw = [ids |-> s, boot |-> s[1], dos |-> d, kernel |-> k]
        /\ cpu = [c \in 0 .. Len(s) - 1 |->
                     IF c = 0 THEN [pc |-> "kern_init", reg |-> 0] ELSE B!Off]
        /\ mem = [lcpu_init_count |-> 0, ipe_ready |-> 0, init_finished |-> 0, init_lock |-> 0,
                  handler |-> [c \in 0 .. Len(s) - 1 |-> {}],
                  irq |-> [q \in B!Irq |-> [to |-> -1, on |-> FALSE]],
                  recv_buffer |-> {}]
  BY DEF B!Init
<1>2. PICK s : s = B!LcpuIdSet(m)
  OBVIOUS
<1>3. hw.ids = s /\ hw.boot = s[1] /\ hw.dos \in BOOLEAN /\ hw.kernel \in {"ucore", "river"}
  BY <1>1, <1>2
<1>4. B!N = Len(s) /\ B!Cpu = 0 .. Len(s) - 1
  BY <1>3 DEF B!N, B!Cpu
<1>5. cpu = [c \in B!Cpu |-> IF c = 0 THEN [pc |-> "kern_init", reg |-> 0] ELSE B!Off]
  BY <1>1, <1>2, <1>4
<1>6. /\ mem = [lcpu_init_count |-> 0, ipe_ready |-> 0, init_finished |-> 0, init_lock |-> 0,
                handler |-> [c \in B!Cpu |-> {}],
                irq |-> [q \in B!Irq |-> [to |-> -1, on |-> FALSE]], recv_buffer |-> {}]
      /\ low = "e820"
  BY <1>1, <1>2, <1>4 DEF B!Init
<1>7. /\ mem.lcpu_init_count = 0 /\ mem.ipe_ready = 0 /\ mem.init_finished = 0 /\ mem.init_lock = 0
      /\ \A q \in B!Irq : mem.irq[q].on = FALSE
  BY <1>6
<1>8. cpu \in [B!Cpu -> [pc : B!Supervisor \cup B!Early \cup B!Late, reg : Nat]]
  <2>1. /\ [pc |-> "kern_init", reg |-> 0] \in [pc : B!Supervisor \cup B!Early \cup B!Late, reg : Nat]
        /\ B!Off \in [pc : B!Supervisor \cup B!Early \cup B!Late, reg : Nat]
    BY DEF B!Off, B!Supervisor, B!Early
  <2> QED BY <1>5, <2>1
<1>9. mem \in B!Memory
  <2>1. PICK f : f = FALSE /\ f \in BOOLEAN
    OBVIOUS
  <2>2. [q \in B!Irq |-> [to |-> -1, on |-> FALSE]] \in [B!Irq -> [to : Int, on : BOOLEAN]]
    <3>1. [to |-> -1, on |-> f] \in [to : Int, on : BOOLEAN]
      BY <2>1
    <3> QED BY <2>1, <3>1
  <2>3. [c \in B!Cpu |-> {}] \in
          [B!Cpu -> SUBSET (B!Exceptions \cup B!Irq \cup {"TIMER", "T_IPI_DOS"})]
    OBVIOUS
  <2>4. PICK i, h : i = [q \in B!Irq |-> [to |-> -1, on |-> FALSE]] /\ h = [c \in B!Cpu |-> {}]
    OBVIOUS
  <2>5. mem = [lcpu_init_count |-> 0, ipe_ready |-> 0, init_finished |-> 0, init_lock |-> 0,
               handler |-> h, irq |-> i, recv_buffer |-> {}]
    BY <1>6, <2>4
  <2>6. /\ i \in [B!Irq -> [to : Int, on : BOOLEAN]]
        /\ h \in [B!Cpu -> SUBSET (B!Exceptions \cup B!Irq \cup {"TIMER", "T_IPI_DOS"})]
    BY <2>2, <2>3, <2>4
  <2> QED BY <2>5, <2>6 DEF B!Memory
<1>10. B!TypeOK
  BY <1>1, <1>2, <1>3, <1>6, <1>8, <1>9 DEF B!TypeOK
<1>11. B!Place(0) = "kern_init" /\ 0 \in B!Cpu /\ \A c \in B!Cpu \ {0} : B!Place(c) = "off"
  BY <1>5, <1>10, BootFacts DEF B!Place, B!Off
<1>12. B!Places
  BY <1>10, <1>11, BootFacts DEF B!Places, B!Supervisor, B!Ucore, B!River
<1>13. B!LowPage
  BY <1>6, <1>11 DEF B!LowPage
<1>14. B!Counts
  <2>1. /\ "kern_init" \notin B!Late \cup B!Finished \cup B!Ready
        /\ "off" \notin B!Late \cup B!Finished \cup B!Ready
    BY DEF B!Late, B!Ucore, B!River, B!Finished, B!Ready
  <2>2. \A c \in B!Cpu : B!Place(c) \notin B!Late \cup B!Finished \cup B!Ready
    BY <1>11, <2>1
  <2>3. B!Those(B!Late) = {} /\ B!Those(B!Finished) = {} /\ B!Those(B!Ready) = {}
    BY <2>2 DEF B!Those
  <2> QED BY <1>7, <2>3, B!FS_EmptySet DEF B!Counts
<1>15. B!Locked
  BY <1>11 DEF B!Locked, B!Section
<1>16. B!FirstCpu
  BY <1>11 DEF B!FirstCpu, B!Section
<1>17. B!Together
  BY <1>11 DEF B!Together
<1>18. B!Handlers
  <2>1. \A c \in B!Cpu : B!Place(c) \in {"kern_init", "off"}
    BY <1>11
  <2> QED BY <1>7, <2>1 DEF B!Handlers, B!Finished, B!Ready
<1> QED BY <1>10, <1>12, <1>13, <1>14, <1>15, <1>16, <1>17, <1>18 DEF B!IndInv

(* Every step.                                                             *)
LEMMA BootNext ==
    ASSUME B!IndInv, [B!Next]_(B!vars)
    PROVE  B!IndInv'
<1>1. CASE UNCHANGED B!vars
  <2>1. hw' = hw /\ low' = low /\ cpu' = cpu /\ mem' = mem
    BY <1>1 DEF B!vars
  <2>2. B!TypeOK' /\ B!Memory' = B!Memory
    BY <2>1, BootFixed DEF B!IndInv, B!TypeOK, B!Memory
  <2>3. B!Cpu' = B!Cpu /\ B!Kern' = B!Kern /\ \A c : B!Place(c)' = B!Place(c)
    BY <2>1, BootFixed DEF B!Place
  <2>4. \A X : B!Those(X)' = B!Those(X)
    BY <2>3 DEF B!Those
  <2>5. B!Places' /\ B!LowPage'
    BY <2>1, <2>3 DEF B!IndInv, B!Places, B!LowPage
  <2>6. B!Counts'
    BY <2>1, <2>4 DEF B!IndInv, B!Counts
  <2>7. B!Locked' /\ B!FirstCpu' /\ B!Together'
    BY <2>1, <2>3 DEF B!IndInv, B!Locked, B!FirstCpu, B!Together
  <2>8. B!Handlers'
    BY <2>1, <2>3 DEF B!IndInv, B!Handlers
  <2> QED BY <2>2, <2>5, <2>6, <2>7, <2>8 DEF B!IndInv
<1>2. CASE B!Next
  <2>1. PICK c \in B!Cpu : B!Step(c)
    BY <1>2 DEF B!Next
  <2>2. \/ B!KernInit \/ B!MpInit \/ B!StartNext \/ B!DriverOsInit \/ B!DriverOsStart
        \/ B!Startup(c) \/ B!ApBootInit(c)
        \/ B!ReadCount(c, "lcpu_init", "lcpu_init_count", "lcpu_cas")
        \/ B!Cmpxchg(c, "lcpu_cas", "lcpu_init_count", "lcpu_init", "jump_kern")
        \/ B!JumpKern(c) \/ B!WaitInit(c) \/ B!AcquireInit(c) \/ B!InitKernel(c)
        \/ B!FinishInit(c) \/ B!ReleaseInit(c) \/ B!CpuIdle(c) \/ B!RiverEntry(c) \/ B!IpeInit(c)
        \/ B!ReadCount(c, "ipe_ready", "ipe_ready", "ipe_cas")
        \/ B!Cmpxchg(c, "ipe_cas", "ipe_ready", "ipe_ready", "ipe_barrier")
        \/ B!DoInit(c)
    BY <2>1 DEF B!Step, B!LcpuInit, B!IpeCount
  <2>3. CASE B!KernInit \/ B!MpInit \/ B!StartNext \/ B!DriverOsInit \/ B!DriverOsStart
    BY <2>3, BootKernInit, BootMpInit, BootStartNext, BootDriverOsInit, BootDriverOsStart
  <2>4. CASE B!Startup(c) \/ B!ApBootInit(c)
    BY <2>4, BootStartup
  <2>5. CASE \/ B!ReadCount(c, "lcpu_init", "lcpu_init_count", "lcpu_cas")
             \/ B!ReadCount(c, "ipe_ready", "ipe_ready", "ipe_cas")
    BY <2>5, BootRead
  <2>6. CASE B!Cmpxchg(c, "lcpu_cas", "lcpu_init_count", "lcpu_init", "jump_kern")
    BY <2>6, BootLcpuCas
  <2>7. CASE B!Cmpxchg(c, "ipe_cas", "ipe_ready", "ipe_ready", "ipe_barrier")
    BY <2>7, BootIpeCas
  <2>8. CASE B!JumpKern(c) \/ B!WaitInit(c) \/ B!CpuIdle(c) \/ B!DoInit(c)
    BY <2>8, BootKernel
  <2>9. CASE B!AcquireInit(c) \/ B!InitKernel(c) \/ B!FinishInit(c) \/ B!ReleaseInit(c)
    BY <2>9, BootAcquire, BootInitKernel, BootFinish, BootRelease
  <2>10. CASE B!RiverEntry(c) \/ B!IpeInit(c)
    BY <2>10, BootRiverEntry, BootIpeInit
  <2> QED BY <2>2, <2>3, <2>4, <2>5, <2>6, <2>7, <2>8, <2>9, <2>10
<1> QED BY <1>1, <1>2

(* A set of naturals that is not empty has a least member.                 *)
LEMMA LeastNatural ==
    ASSUME NEW A \in SUBSET Nat, A # {}
    PROVE  \E n \in A : \A m \in A : n <= m
<1>1. PICK n \in A : \A y \in A : ~(<<y, n>> \in OpToRel(<, Nat))
  BY NatLessThanWellFounded, WFMin
<1>2. \A y \in A : ~(y < n)
  BY <1>1 DEF OpToRel
<1> QED BY <1>2

(* Among the ids there is a largest, so that Max is what it says.          *)
LEMMA LargestId ==
    ASSUME B!TypeOK
    PROVE  \A c \in B!Cpu : B!Id(c) <= B!Max({B!Id(e) : e \in B!Cpu})
                            /\ B!Max({B!Id(e) : e \in B!Cpu}) \in Nat
<1> DEFINE Top(n) == \E k \in 0 .. n : \A c \in 0 .. n : B!Id(c) <= B!Id(k)
           Bad == {n \in Nat : n < B!N /\ ~Top(n)}
<1>1. /\ B!N \in Nat /\ B!N > 2 /\ B!Cpu = 0 .. B!N - 1 /\ \A c \in B!Cpu : B!Id(c) \in Nat
  BY BootFacts
<1>2. Bad = {}
  <2> SUFFICES ASSUME Bad # {} PROVE FALSE
    OBVIOUS
  <2>1. PICK n \in Bad : \A m \in Bad : n <= m
    BY LeastNatural
  <2>2. n \in Nat /\ n < B!N /\ ~Top(n)
    BY <2>1
  <2>3. Top(0)
    <3>1. \A c \in 0 .. 0 : c = 0
      OBVIOUS
    <3>2. B!Id(0) <= B!Id(0) /\ 0 \in 0 .. 0
      BY <1>1
    <3> QED BY <3>1, <3>2
  <2>4. n # 0 /\ n - 1 \in Nat /\ n - 1 < B!N
    <3>1. n # 0
      <4> HIDE DEF Top
      <4> QED BY <2>2, <2>3
    <3> QED BY <1>1, <2>2, <3>1
  <2>5. Top(n - 1)
    <3>1. n - 1 \notin Bad
      BY <2>1, <2>4
    <3> QED BY <2>4, <3>1
  <2>6. PICK k \in 0 .. n - 1 : \A c \in 0 .. n - 1 : B!Id(c) <= B!Id(k)
    BY <2>5
  <2>7. B!Id(n) \in Nat /\ B!Id(k) \in Nat /\ \A c \in 0 .. n : B!Id(c) \in Nat
    <3>1. n \in B!Cpu /\ k \in B!Cpu /\ \A c \in 0 .. n : c \in B!Cpu
      <4> HIDE DEF Top
      <4> QED BY <1>1, <2>2
    <3> QED BY <1>1, <3>1
  <2>8. CASE B!Id(n) <= B!Id(k)
    <3>1. \A c \in 0 .. n : B!Id(c) <= B!Id(k)
      <4> SUFFICES ASSUME NEW c \in 0 .. n PROVE B!Id(c) <= B!Id(k)
        OBVIOUS
      <4>1. c = n \/ c \in 0 .. n - 1
        BY <2>2
      <4> QED BY <2>6, <2>8, <4>1
    <3>2. k \in 0 .. n
      BY <2>2, <2>6
    <3> QED BY <2>2, <3>1, <3>2
  <2>9. CASE B!Id(k) < B!Id(n)
    <3>1. \A c \in 0 .. n : B!Id(c) <= B!Id(n)
      <4> SUFFICES ASSUME NEW c \in 0 .. n PROVE B!Id(c) <= B!Id(n)
        OBVIOUS
      <4>1. c = n \/ c \in 0 .. n - 1
        BY <2>2
      <4>2. CASE c = n
        BY <2>7, <4>2
      <4>3. CASE c \in 0 .. n - 1
        BY <2>6, <2>7, <2>9, <4>3
      <4> QED BY <4>1, <4>2, <4>3
    <3>2. n \in 0 .. n
      BY <2>2
    <3> QED BY <2>2, <3>1, <3>2
  <2> QED BY <2>7, <2>8, <2>9
<1>3. B!N - 1 \in Nat /\ B!N - 1 < B!N
  BY <1>1
<1>4. Top(B!N - 1)
  BY <1>2, <1>3
<1>5. PICK k \in B!Cpu : \A c \in B!Cpu : B!Id(c) <= B!Id(k)
  BY <1>1, <1>4
<1> DEFINE Ids == {B!Id(e) : e \in B!Cpu}
<1>6. B!Id(k) \in Ids /\ \A y \in Ids : B!Id(k) >= y
  BY <1>1, <1>5
<1>7. B!Max(Ids) \in Ids /\ \A y \in Ids : B!Max(Ids) >= y
  BY <1>6 DEF B!Max
<1> QED BY <1>1, <1>7

(* What the run checks follows from the invariant.                         *)
LEMMA BootSafe ==
    ASSUME B!IndInv
    PROVE  B!TrampolineKept /\ B!ReadyTogether
<1>1. B!TypeOK /\ B!Places /\ B!LowPage /\ B!Together /\ B!Handlers
  BY DEF B!IndInv
<1>2. B!Bsp = 0 /\ B!Kern \subseteq B!Cpu /\ 0 \in B!Cpu
  BY <1>1, BootFacts
<1>3. ASSUME NEW c \in B!Cpu, B!At(c, "trampoline")
      PROVE  low = "ap"
  <2>1. B!Place(c) = "trampoline"
    BY <1>3 DEF B!At, B!Place
  <2>2. "trampoline" \notin B!Late /\ low \in {"e820", "ap", "dos"}
    BY <1>1 DEF B!Late, B!Ucore, B!River, B!TypeOK
  <2>3. c # 0 /\ c \in B!Kern
    BY <1>1, <2>1 DEF B!Places
  <2> QED BY <1>1, <2>1, <2>2, <2>3 DEF B!LowPage
<1>4. \A c \in B!Cpu : B!At(c, "linux") => c \notin B!Kern
  BY <1>1 DEF B!Places, B!At, B!Place
<1>5. ASSUME NEW c \in B!Cpu \ {0}
      PROVE  /\ B!StackPage(c) \in B!StackPages
             /\ \A e \in B!Cpu \ {0, c} : B!StackPage(e) # B!StackPage(c)
  <2>1. B!Id(c) \in Nat /\ B!Id(0) \in Nat /\ B!Id(c) > B!Id(0)
    BY <1>1, <1>2, BootFacts
  <2>2. /\ B!Id(c) <= B!Max({B!Id(e) : e \in B!Cpu})
        /\ B!Max({B!Id(e) : e \in B!Cpu}) \in Nat
    BY <1>1, LargestId
  <2>3. B!StackPage(c) \in B!StackPages
    BY <2>1, <2>2 DEF B!StackPage, B!StackPages
  <2>4. \A e \in B!Cpu \ {0, c} : B!Id(e) # B!Id(c) /\ B!Id(e) \in Nat
    BY <1>1, BootFacts
  <2> QED BY <2>1, <2>3, <2>4 DEF B!StackPage
<1>6. B!TrampolineKept
  BY <1>2, <1>3, <1>4, <1>5 DEF B!TrampolineKept
<1>7. ASSUME NEW e \in B!Kern, B!At(e, "idle"), NEW c \in B!Kern
      PROVE  /\ B!Exceptions \cup {"TIMER"} \subseteq mem.handler[c]
             /\ hw.kernel = "river" => c \in mem.recv_buffer
  <2>1. B!Place(e) = "idle" /\ e \in B!Cpu /\ c \in B!Cpu
    BY <1>2, <1>7 DEF B!At, B!Place
  <2>2. hw.kernel = "ucore" \/ hw.kernel = "river"
    BY <1>1 DEF B!TypeOK
  <2>3. /\ hw.kernel = "ucore" => B!Place(c) \in B!Finished
        /\ hw.kernel = "river" => B!Place(c) \in B!Ready
    BY <1>1, <2>1 DEF B!Together
  <2> QED BY <1>1, <2>1, <2>2, <2>3 DEF B!Handlers
<1>8. B!ReadyTogether
  BY <1>1, <1>7 DEF B!ReadyTogether, B!Handlers
<1> QED BY <1>6, <1>8

(* However many CPUs the firmware names: none runs code that is being      *)
(* overwritten, their boot stacks are apart, and none leaves the start-up  *)
(* barrier before all can take its interrupts and packets.                 *)
THEOREM CpusStartTogether == B!Spec => []StartUpSound
<1>1. B!Init => B!IndInv
  BY BootInit
<1>2. B!IndInv /\ [B!Next]_(B!vars) => B!IndInv'
  BY BootNext
<1>3. B!IndInv => StartUpSound
  BY BootSafe DEF StartUpSound
<1> QED BY <1>1, <1>2, <1>3, PTL DEF B!Spec
=============================================================================
