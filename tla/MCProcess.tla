----------------------------- MODULE MCProcess -----------------------------
(***************************************************************************)
(* Processes, one unit per behaviour: their life cycle (ProcLife, whose    *)
(* names stay as they are), the files they share (Files) and the handles   *)
(* on semaphores they inherit (SemQueue).  The units share no state; the   *)
(* others rest in their initial states.  Processes are interchangeable,    *)
(* and so are file tables and semaphores.  A process of ProcLife is a      *)
(* thread of Files and a user of SemQueue, and the values of Fs are those  *)
(* of SemObj, so that one set of permutations serves all.                  *)
(***************************************************************************)
EXTENDS ProcLife, TLC

CONSTANTS
    Fs, Fd, Std, NoFs, NoFd, BufSize, MaxLen,         \* of Files
    SemObj, Queue, MaxValue                           \* of SemQueue

VARIABLES
    unit,
    fs, slot, pipe, wait, op, killed,
    sems, valid, value, count, waiters, lists, lcount, semu, of, on, flags

fileVars == <<fs, slot, pipe, wait, op, killed>>
handleVars == <<sems, valid, value, count, waiters, lists, lcount, semu, of, on, flags>>

F == INSTANCE Files WITH Thread <- Proc
H == INSTANCE SemQueue WITH User <- Proc

(* The constants of Files and SemQueue are what the modules expect.        *)
ASSUME FilesConstants == F!FilesAssumption
ASSUME HandlesConstants == H!HandlesAssumption

(* A unit that does not run: no user process yet, or variables that are 0; *)
(* both look the same after every permutation.                             *)
LifeRests ==
    /\ state = [p \in All |-> IF p = initproc THEN "RUNNABLE" ELSE "none"]
    /\ pc = [p \in All |-> IF p = initproc THEN "wait" ELSE "user"]
    /\ wait_state = [p \in All |-> "0"] /\ target = [p \in All |-> AnyPid]
    /\ parent = [p \in Proc |-> initproc] /\ group = [p \in All |-> {p}]
    /\ exiting = {} /\ exit_code = [p \in All |-> "0"]
FilesRest == \E x \in {0} : fs = x /\ slot = x /\ pipe = x /\ wait = x /\ op = x /\ killed = x
HandlesRest == \E x \in {0} :
    /\ sems = x /\ valid = x /\ value = x /\ count = x /\ waiters = x /\ lists = x
    /\ lcount = x /\ semu = x /\ of = x /\ on = x /\ flags = x

ProcessInit ==
    \/ unit = "life" /\ Init /\ FilesRest /\ HandlesRest
    \/ unit = "files" /\ F!Init /\ LifeRests /\ HandlesRest
    \/ unit = "handles" /\ H!Init /\ LifeRests /\ FilesRest

ProcessNext ==
    /\ UNCHANGED unit
    /\ \/ unit = "life" /\ Next /\ UNCHANGED <<fileVars, handleVars>>
       \/ unit = "files" /\ F!Next /\ UNCHANGED <<vars, handleVars>>
       \/ unit = "handles" /\ H!Next /\ UNCHANGED <<vars, fileVars>>

ProcessSpec == ProcessInit /\ [][ProcessNext]_<<unit, vars, fileVars, handleVars>>

Symmetry == Permutations(Proc) \cup Permutations(Fs)

-----------------------------------------------------------------------------
(* Of Files: no thread sleeps over a pipe that has what it waits for, and  *)
(* descriptors, inodes and pipes live exactly as long as they are used:    *)
(* all counts are exact (Counted and Referenced, in IndInv).               *)
FilesSound ==
    unit = "files" => F!TypeOK /\ F!NoPipeWaiterStuck /\ F!KeptWhileUsed /\ F!IndInv

(* Of SemQueue: a semaphore is in memory exactly as long as some list of   *)
(* handles names it and a list as long as some process has it, over fork,  *)
(* exec, threads, exit and sem_free; nobody sleeps on a freed one.         *)
HandlesExact == unit = "handles" => H!HandlesExact
=============================================================================
