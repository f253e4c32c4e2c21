------------------------------- MODULE VmmAbs -------------------------------
(***************************************************************************)
(* What the calls of module Vmm promise a process: its address space says  *)
(* of each page whether and how it may be used, a call changes the pages   *)
(* of one contiguous range all together or none, a new address space is a  *)
(* copy or a fresh program, and no call touches another address space.     *)
(***************************************************************************)
EXTENDS Integers

CONSTANTS MM, Page, Base, Top
CONSTANT Free                        \* the page is in no area

VARIABLE perm                        \* perm[m][p]: how m may use page p

Blank == [p \in Page |-> Free]
ReadWrite == [w |-> TRUE, stack |-> FALSE]
Stack == [w |-> TRUE, stack |-> TRUE]

(* A program: one page of it, and the stack.                               *)
Program == [p \in Page |-> IF p = Base THEN ReadWrite
                           ELSE IF p >= Top - 2 THEN Stack ELSE Free]

Init == \E m \in MM : perm = [n \in MM |-> IF n = m THEN Program ELSE Blank]

(* An address space f becomes g: a range is mapped with one use, or what   *)
(* was mapped in a range is gone.                                          *)
Changed(f, g) == {p \in Page : f[p] # g[p]}
Span(S) == {p \in Page : (\E x \in S : x <= p) /\ (\E x \in S : p <= x)}
Map(f, g) ==
    \A p \in Span(Changed(f, g)) : f[p] = Free /\ g[p] # Free
                                   /\ \A x \in Changed(f, g) : g[x] = g[p]
Unmap(f, g) == \A p \in Span(Changed(f, g)) : g[p] = Free

(* The state old becomes new by a call of one process.                     *)
Call(old, new) ==
    \E m \in MM :
        /\ \A n \in MM \ {m} : new[n] = old[n]
        /\ \/ Map(old[m], new[m]) \/ Unmap(old[m], new[m])
           \/ new[m] = Blank                                  \* exit
           \/ old[m] = Blank /\ new[m] = Program              \* exec
           \/ old[m] = Blank /\ \E n \in MM : new[m] = old[n]  \* fork

Next == \E old \in {perm}, new \in {perm'} : Call(old, new)

Spec == Init /\ [][Next]_perm
=============================================================================
