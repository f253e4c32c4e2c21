------------------------------- MODULE MCSync -------------------------------
(***************************************************************************)
(* The sleeping primitives of sync/ and schedule/ side by side: semaphores *)
(* (Sem, whose names stay as they are), timers and events.  They share no  *)
(* state, so a behaviour is one of a single unit; the others stay in their *)
(* initial states, where their fairness asks for nothing.                  *)
(***************************************************************************)
EXTENDS Sem

CONSTANTS Sleeper, MaxTicks, Peer   \* Proc and MaxTicks of Timer, Proc of Event

VARIABLES
    unit,
    timer_list, t_state, t_wait_state, insleep,
    e_state, e_wait_state, e_pc, box, dest, e_wakeup_flags, e_timer, e_killed, reads

timerVars == <<timer_list, t_state, t_wait_state, insleep>>
eventVars == <<e_state, e_wait_state, e_pc, box, dest, e_wakeup_flags, e_timer,
               e_killed, reads>>

T == INSTANCE Timer WITH Proc <- Sleeper, state <- t_state, wait_state <- t_wait_state

(* The bound on the arguments of do_sleep is a number of ticks.            *)
ASSUME TimerConstants == MaxTicks \in Nat

E == INSTANCE Event WITH
    Proc <- Peer, state <- e_state, wait_state <- e_wait_state, pc <- e_pc,
    wakeup_flags <- e_wakeup_flags, timer <- e_timer, killed <- e_killed

SyncInit ==
    /\ unit \in {"sem", "timer", "event"}
    /\ Init /\ T!Init /\ E!Init

SyncNext ==
    /\ UNCHANGED unit
    /\ \/ unit = "sem" /\ Next /\ UNCHANGED <<timerVars, eventVars>>
       \/ unit = "timer" /\ T!Next /\ UNCHANGED <<vars, eventVars>>
       \/ unit = "event" /\ E!Next /\ UNCHANGED <<vars, timerVars>>

SyncSpec ==
    /\ SyncInit /\ [][SyncNext]_<<unit, vars, timerVars, eventVars>>
    /\ Fairness /\ T!Fairness /\ E!Fairness

-----------------------------------------------------------------------------
(* Of Timer: the assertions of run_timer_list hold, whoever wakes a        *)
(* sleeper between two ticks: the head of the list has not expired, and    *)
(* the owner of a pending timer is in a wait that may be interrupted.      *)
TimerAsserts == T!TimerAsserts

(* Of Timer: the delta-encoded list implements the independent countdowns  *)
(* of TimerAbs, so that each timer fires at its own tick.                  *)
TimesKept == T!TimesKept

(* Of Event: a send reports success exactly if one receiver read it, no    *)
(* receiver sleeps over a sender, no sender waits at a process that is     *)
(* gone.                                                                   *)
EventSound == E!EventSound

(* Of Sem, Timer and Event: who waits for a kernel semaphore is served,    *)
(* every sleep ends, and so does every send with a timeout.                *)
SleepersServed == WaiterServed /\ T!SleepEnds /\ E!SendEnds
=============================================================================
