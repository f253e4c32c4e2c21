-------------------------------- MODULE Shell --------------------------------
(***************************************************************************)
(* The shell (user-ucore/sh.c): a line is run in a forked process, which   *)
(* forks again for every | and ;.  A line is a sequence of tokens, as      *)
(* gettoken delivers them.  The programs that a line starts read standard  *)
(* input to its end, as cat does, and then end.                            *)
(*                                                                         *)
(* For a | b the process of a forks the one of b, so waitpid of the shell  *)
(* waits for a.  A redirection stays in force behind the next ;, because   *)
(* it is made in the process that goes on with the line.                   *)
(***************************************************************************)
EXTENDS Integers, FiniteSets, SequencesExt

CONSTANTS
    Line,            \* the lines typed
    Pid,             \* processes, numbers
    MaxLine,         \* bound: lines typed in one session
    MaxArg           \* EXEC_MAX_ARG_NUM

VARIABLE sh          \* proc, pipes made, shcwd, cwd, lines read, the shell's own state

Symbol == {"|", ";", "<", ">", "&"}
Pipe == <<"p1", "p2", "p3", "p4">>

NoProc == [st |-> "free", cmd |-> << >>, argv |-> << >>, in |-> "tty", out |-> "tty",
           ends |-> {}, child |-> 0, ret |-> 0]

Init == sh = [proc |-> [p \in Pid |-> NoProc], pipes |-> 0, shcwd |-> "", cwd |-> "/",
              lines |-> 0, waits |-> 0]

Free == {p \in Pid : sh.proc[p].st = "free"}
NewPid == CHOOSE p \in Free : \A q \in Free : p <= q
Parses(p) == sh.proc[p].st = "parse"
Exited(s, p, ret) == [s EXCEPT !.proc[p] = [NoProc EXCEPT !.st = "zombie", !.ret = ret]]

(* main: a line has been read; shcwd is cleared and a process forked.      *)
Prompt(line) ==
    /\ sh.waits = 0 /\ sh.lines < MaxLine /\ Free # {}
    /\ sh' = [sh EXCEPT !.lines = @ + 1, !.waits = NewPid, !.shcwd = "",
                        !.proc[NewPid] = [NoProc EXCEPT !.st = "parse", !.cmd = line]]

(* ... and waitpid returns; only then may the pid be used again.           *)
Waited ==
    /\ sh.waits # 0 /\ sh.proc[sh.waits].st = "zombie"
    /\ sh' = [sh EXCEPT !.proc[sh.waits] = NoProc, !.waits = 0,
                        !.cwd = IF sh.proc[sh.waits].ret = 0 /\ sh.shcwd # "" THEN sh.shcwd ELSE @]

Next1(p) == IF sh.proc[p].cmd = << >> THEN "end" ELSE Head(sh.proc[p].cmd)

(* runcmd, token by token: a word.                                         *)
Word(p) ==
    /\ Parses(p) /\ Next1(p) \notin Symbol \cup {"end"}
    /\ sh' = IF Len(sh.proc[p].argv) = MaxArg THEN Exited(sh, p, -1)
             ELSE [sh EXCEPT !.proc[p].argv = Append(@, Next1(p)), !.proc[p].cmd = Tail(@)]

(* Any other token is an error: gettoken knows &, runcmd does not.         *)
BadToken(p) == Parses(p) /\ Next1(p) = "&" /\ sh' = Exited(sh, p, -1)

(* < and >: reopen, which may fail.                                        *)
Redirect(p, fails) ==
    LET cmd == sh.proc[p].cmd IN
    /\ Parses(p) /\ Next1(p) \in {"<", ">"}
    /\ sh' = IF Len(cmd) < 2 \/ cmd[2] \in Symbol \/ fails THEN Exited(sh, p, -1)
             ELSE IF cmd[1] = "<"
             THEN [sh EXCEPT !.proc[p].in = "file", !.proc[p].cmd = SubSeq(@, 3, Len(@))]
             ELSE [sh EXCEPT !.proc[p].out = "file", !.proc[p].cmd = SubSeq(@, 3, Len(@))]

(* |: pipe and fork; both processes then hold both ends.                   *)
PipeFork(p, fails) ==
    LET k == Pipe[sh.pipes + 1]
        both == sh.proc[p].ends \cup {<<k, "r">>, <<k, "w">>}
    IN  /\ Parses(p) /\ Next1(p) = "|" /\ Free # {} /\ sh.pipes < Len(Pipe)
        /\ sh' = IF fails THEN Exited(sh, p, -1)
                 ELSE [sh EXCEPT !.pipes = @ + 1,
                        !.proc[p] = [@ EXCEPT !.st = "left", !.ends = both],
                        !.proc[NewPid] = [sh.proc[p] EXCEPT !.st = "right", !.ends = both,
                                                !.cmd = Tail(@), !.argv = << >>]]

(* The pipe a process has just made or inherited.                          *)
Ends(p) == {e[1] : e \in sh.proc[p].ends}
Held(p) == CHOOSE k \in Ends(p) : TRUE

(* Bug: the child forgets to close the end it does not use.                *)
Right_KeepEnds(p, fails) ==
    /\ sh.proc[p].st = "right"
    /\ sh' = IF fails THEN Exited(sh, p, -1)
             ELSE [sh EXCEPT !.proc[p].in = Held(p), !.proc[p].ends = {<<Held(p), "w">>}, !.proc[p].st = "parse"]

(* The child: standard input from the pipe, its ends closed; or dup2 fails *)
(* and it returns.                                                         *)
Right(p, fails) ==
    /\ sh.proc[p].st = "right"
    /\ sh' = IF fails THEN Exited(sh, p, -1)
             ELSE [sh EXCEPT !.proc[p].in = Held(p), !.proc[p].ends = {}, !.proc[p].st = "parse"]

(* The parent: standard output to the pipe, then runit, or the same.       *)
Left(p, fails) ==
    /\ sh.proc[p].st = "left"
    /\ sh' = IF fails THEN Exited(sh, p, -1)
             ELSE [sh EXCEPT !.proc[p].out = Held(p), !.proc[p].ends = {}, !.proc[p].st = "runit"]

(* ;: a child runs what has been read, the parent waits and goes on.       *)
Semicolon(p, fails) ==
    /\ Parses(p) /\ Next1(p) = ";" /\ Free # {}
    /\ sh' = IF fails THEN Exited(sh, p, -1)
             ELSE [sh EXCEPT !.proc[NewPid] = [sh.proc[p] EXCEPT !.st = "runit"],
                             !.proc[p] = [@ EXCEPT !.st = "wait", !.child = NewPid,
                                                   !.cmd = Tail(@), !.argv = << >>]]

WaitChild(p) ==
    /\ sh.proc[p].st = "wait" /\ sh.proc[sh.proc[p].child].st = "zombie"
    /\ sh' = [sh EXCEPT !.proc[sh.proc[p].child] = NoProc,
                        !.proc[p] = [@ EXCEPT !.st = "parse", !.child = 0]]

(* runit: nothing, cd, or the program if it can be executed.               *)
RunIt(p, fails) ==
    LET argv == sh.proc[p].argv IN
    /\ sh.proc[p].st = "runit" \/ (Parses(p) /\ Next1(p) = "end")
    /\ sh' = IF argv = << >> THEN Exited(sh, p, 0)
             ELSE IF argv[1] = "cd"
             THEN IF Len(argv) = 2 THEN Exited([sh EXCEPT !.shcwd = argv[2]], p, 0)
                  ELSE Exited(sh, p, -1)
             ELSE IF fails THEN Exited(sh, p, -1)
             ELSE [sh EXCEPT !.proc[p].st = "program"]

(* A program ends at the end of its input: a pipe that nobody can write.   *)
HoldsWrite(p, k) == sh.proc[p].out = k \/ <<k, "w">> \in sh.proc[p].ends
ProgramEnds(p) ==
    /\ sh.proc[p].st = "program"
    /\ sh.proc[p].in \in {"tty", "file"} \/ \A q \in Pid : ~HoldsWrite(q, sh.proc[p].in)
    /\ sh' = Exited(sh, p, 0)

(* Zombies that nobody waits for go to init.                               *)
Reap(p) ==
    /\ sh.proc[p].st = "zombie" /\ sh.waits # p /\ \A q \in Pid : sh.proc[q].child # p
    /\ sh' = [sh EXCEPT !.proc[p] = NoProc]

Step(p) ==
    \/ Word(p) \/ BadToken(p) \/ WaitChild(p) \/ ProgramEnds(p) \/ Reap(p)
    \/ \E fails \in BOOLEAN :
          \/ Redirect(p, fails) \/ PipeFork(p, fails) \/ Right(p, fails) \/ Left(p, fails)
          \/ Semicolon(p, fails) \/ RunIt(p, fails)

Next == Waited \/ (\E line \in Line : Prompt(line)) \/ \E p \in Pid : Step(p)

-----------------------------------------------------------------------------
(* A pipe joins two programs at a time.  A program has no pipe open but on *)
(* its standard input and output, and not one pipe on both.  While it      *)
(* reads a pipe, at most one other process can write that pipe; and        *)
(* whoever else has the read end open leaves it alone: it waits for the    *)
(* reader at a ; or is between a fork and the dup2 that replaces it.  (The *)
(* process that waits at the ; of a | b ; c keeps the pipe and gives it to *)
(* c, which finds there what b has left.)                                  *)
HoldsRead(p, k) == sh.proc[p].in = k \/ <<k, "r">> \in sh.proc[p].ends
PipesJoinTwo ==
    \A p \in Pid : sh.proc[p].st = "program" =>
        LET k == sh.proc[p].in IN
        /\ sh.proc[p].ends = {}
        /\ k \notin {"tty", "file"} =>
              /\ sh.proc[p].out # k
              /\ Cardinality({q \in Pid : HoldsWrite(q, k)}) <= 1
              /\ \A q \in Pid \ {p} : HoldsRead(q, k) =>
                    sh.proc[q].child = p \/ sh.proc[q].st \in {"left", "right"}

(* The prompt comes back and every process of every line ends.  Each step  *)
(* takes a process nearer to its end, so it is enough that nobody is stuck *)
(* before: when no process can go on and waitpid would not return, nothing *)
(* is left to wait for, and no pipe is kept open by one that waits for its *)
(* end.                                                                    *)
NobodyStuck ==
    ~ENABLED Waited /\ (\A p \in Pid : ~ENABLED Step(p))
        => sh.waits = 0 /\ \A p \in Pid : sh.proc[p].st = "free"
=============================================================================
