------------------------------ MODULE TimerAbs ------------------------------
(***************************************************************************)
(* What the timers of kern-ucore promise: a process that sleeps for n      *)
(* ticks is woken by the n-th tick, or earlier by somebody else.           *)
(***************************************************************************)
EXTENDS Naturals

CONSTANTS Proc, MaxTicks

VARIABLES left,   \* ticks until the timer of the process expires, 0: none
          phase   \* "run", "sleep", or "woken" but not running yet

absVars == <<left, phase>>

Init == left = [p \in Proc |-> 0] /\ phase = [p \in Proc |-> "run"]

Sleep(p, n) ==
    /\ phase[p] = "run"
    /\ phase' = [phase EXCEPT ![p] = "sleep"]
    /\ left' = [left EXCEPT ![p] = n]

Wake(p) ==
    /\ phase[p] = "sleep"
    /\ phase' = [phase EXCEPT ![p] = "woken"]
    /\ UNCHANGED left

Resume(p) ==
    /\ phase[p] = "woken"
    /\ phase' = [phase EXCEPT ![p] = "run"]
    /\ left' = [left EXCEPT ![p] = 0]

Tick ==
    /\ left' = [p \in Proc |-> IF left[p] = 0 THEN 0 ELSE left[p] - 1]
    /\ phase' = [p \in Proc |-> IF left[p] = 1 THEN "woken" ELSE phase[p]]

Next ==
    \/ Tick
    \/ \E p \in Proc : \/ \E n \in 1 .. MaxTicks : Sleep(p, n)
                       \/ Wake(p) \/ Resume(p)

Spec == Init /\ [][Next]_absVars
=============================================================================
