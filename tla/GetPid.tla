------------------------------- MODULE GetPid -------------------------------
(***************************************************************************)
(* Allocation of process identifiers (kern-ucore/process/proc.c, get_pid   *)
(* with its callers do_fork and do_wait).                                  *)
(*                                                                         *)
(* get_pid caches an interval: no process in proc_list has a pid strictly  *)
(* between last_pid and next_safe, so while ++last_pid stays below         *)
(* next_safe it need not look at proc_list.  Otherwise it scans the list,  *)
(* advancing last_pid past every pid it meets.  The idle processes hold    *)
(* the pids 0 .. LcpuCount-1 and are not in proc_list.                     *)
(*                                                                         *)
(* The scan runs with the kernel lock held; it is cut into one step per    *)
(* list element only so that its loop can be reasoned about.               *)
(***************************************************************************)
EXTENDS Integers, Sequences

CONSTANTS
    MaxPid,      \* MAX_PID
    MaxProcess,  \* MAX_PROCESS
    LcpuCount    \* lcpu_count

ASSUME PidAssumption ==
    /\ MaxPid \in Nat /\ MaxProcess \in Nat /\ LcpuCount \in Nat \ {0}
    /\ MaxPid > MaxProcess            \* the static_assert of get_pid
    /\ MaxProcess > LcpuCount

VARIABLES
    proc_list,   \* pids of the processes in proc_list, newest first
    last_pid,    \* static int last_pid
    next_safe,   \* static int next_safe
    pc,          \* "idle", or "scan" inside the while loop of get_pid
    le           \* position of the list cursor in proc_list

vars == <<proc_list, last_pid, next_safe, pc, le>>

Pids == {proc_list[i] : i \in DOMAIN proc_list}

TypeOK ==
    /\ proc_list \in Seq(1 .. MaxPid - 1)
    /\ last_pid \in 1 .. MaxPid
    /\ next_safe \in 1 .. MaxPid
    /\ pc \in {"idle", "scan"}
    /\ le \in Nat

Init ==
    /\ proc_list = << >>
    /\ last_pid = MaxPid
    /\ next_safe = MaxPid
    /\ pc = "idle"
    /\ le = 1

(* hash_proc and set_links: list_add puts the new process at the head.     *)
SetLinks(pid) == proc_list' = <<pid>> \o proc_list

(* do_fork admits a process when nr_process, which counts the idle         *)
(* processes too, is below MAX_PROCESS.                                    *)
MayFork == LcpuCount + Len(proc_list) < MaxProcess

(* get_pid when ++last_pid is inside the safe interval.                    *)
GetPidFast ==
    /\ pc = "idle" /\ MayFork
    /\ last_pid + 1 < MaxPid
    /\ last_pid + 1 < next_safe
    /\ last_pid' = last_pid + 1
    /\ SetLinks(last_pid + 1)
    /\ UNCHANGED <<next_safe, pc, le>>

(* get_pid enters the scan, wrapping last_pid to the first process pid.    *)
GetPidScan ==
    /\ pc = "idle" /\ MayFork
    /\ last_pid + 1 >= MaxPid \/ last_pid + 1 >= next_safe
    /\ last_pid' = IF last_pid + 1 >= MaxPid THEN LcpuCount ELSE last_pid + 1
    /\ next_safe' = MaxPid
    /\ pc' = "scan"
    /\ le' = 1
    /\ UNCHANGED proc_list

Scan_NoRepeat ==
    /\ pc = "scan" /\ le <= Len(proc_list)
    /\ proc_list[le] = last_pid
    /\ last_pid' = IF last_pid + 1 >= MaxPid THEN 1 ELSE last_pid + 1
    /\ le' = le + 1
    /\ UNCHANGED <<proc_list, next_safe, pc>>

Taken_NoAdvance ==
    /\ pc = "scan" /\ le <= Len(proc_list)
    /\ proc_list[le] = last_pid
    /\ next_safe' = MaxPid
    /\ le' = 1
    /\ UNCHANGED <<proc_list, last_pid, pc>>

(* The loop body when the process at the cursor has the candidate pid.     *)
ScanTaken ==
    /\ pc = "scan" /\ le <= Len(proc_list)
    /\ proc_list[le] = last_pid
    /\ IF last_pid + 1 >= next_safe
       THEN /\ last_pid' = IF last_pid + 1 >= MaxPid THEN 1 ELSE last_pid + 1
            /\ next_safe' = MaxPid
            /\ le' = 1
       ELSE /\ last_pid' = last_pid + 1
            /\ le' = le + 1
            /\ UNCHANGED next_safe
    /\ UNCHANGED <<proc_list, pc>>

(* The loop body when it has another pid.                                  *)
ScanOther ==
    /\ pc = "scan" /\ le <= Len(proc_list)
    /\ proc_list[le] # last_pid
    /\ next_safe' = IF proc_list[le] > last_pid /\ next_safe > proc_list[le]
                    THEN proc_list[le] ELSE next_safe
    /\ le' = le + 1
    /\ UNCHANGED <<proc_list, last_pid, pc>>

(* The cursor is back at the list head: last_pid is returned.              *)
ScanDone ==
    /\ pc = "scan" /\ le = Len(proc_list) + 1
    /\ SetLinks(last_pid)
    /\ pc' = "idle"
    /\ UNCHANGED <<last_pid, next_safe, le>>

(* do_wait reaps the i-th process: unhash_proc and remove_links.  The      *)
(* oldest process is initproc, which never exits.                          *)
RemoveLinks(i) ==
    /\ pc = "idle"
    /\ i < Len(proc_list)
    /\ proc_list' = [j \in 1 .. Len(proc_list) - 1 |->
                        IF j < i THEN proc_list[j] ELSE proc_list[j + 1]]
    /\ UNCHANGED <<last_pid, next_safe, pc, le>>

Next ==
    \/ GetPidFast \/ GetPidScan \/ ScanTaken \/ ScanOther \/ ScanDone
    \/ \E i \in DOMAIN proc_list : RemoveLinks(i)

Spec == Init /\ [][Next]_vars

(* get_pid is a loop of the running CPU: it takes its next iteration.      *)
Fairness == WF_vars(ScanTaken \/ ScanOther \/ ScanDone)

FairSpec == Spec /\ Fairness

-----------------------------------------------------------------------------
(* get_pid never returns the pid of a process in proc_list: no pid occurs  *)
(* twice there, so find_proc by pid is unambiguous.                        *)
UniqueInList ==
    \A i, j \in DOMAIN proc_list : proc_list[i] = proc_list[j] => i = j

(* get_pid finds a free pid and returns (MAX_PID > MAX_PROCESS).           *)
GetPidReturns == pc = "scan" ~> pc = "idle"

-----------------------------------------------------------------------------
(* The meaning of the cached interval, between calls and for the part of   *)
(* the list that the current scan has passed.                              *)
GapFree(i) == proc_list[i] <= last_pid \/ proc_list[i] >= next_safe

SafeGap == pc = "idle" => \A i \in DOMAIN proc_list : GapFree(i)

ScanGap ==
    pc = "scan" =>
        /\ last_pid < MaxPid /\ last_pid < next_safe
        /\ le \in 1 .. Len(proc_list) + 1
        /\ \A i \in 1 .. le - 1 : proc_list[i] # last_pid /\ GapFree(i)

IndInv == TypeOK /\ UniqueInList /\ SafeGap /\ ScanGap
=============================================================================
