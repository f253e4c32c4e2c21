------------------------------- MODULE UserSync -------------------------------
(***************************************************************************)
(* User programs that synchronise by the kernel's semaphores: readers and  *)
(* writers with the readers first (user-ucore/sem_rf.c) and with the       *)
(* writers first (sem_wf.c), and the pipe in shared memory                 *)
(* (libs-user-ucore/spipe.c) as spipetest2.c uses it.                      *)
(*                                                                         *)
(* sem_wait and sem_post are those of the kernel: the wait queue is first  *)
(* in, first out and a post hands its unit to the first waiter (module     *)
(* SemQueue).  scprintf and sleep change nothing that is modelled.         *)
(***************************************************************************)
EXTENDS Integers, FiniteSets, SequencesExt

CONSTANTS
    Reader, Writer,  \* processes of the readers and writers test
    BufSize,         \* SPIPE_BUFSIZE
    Rounds,          \* bytes each writing thread sends
    WriteLen, ReadLen

VARIABLES
    rw,              \* first ("rf" or "wf"), semaphores, pCountR, pCountW, pc
    sp               \* the pipe and those who use it

User == Reader \cup Writer

-----------------------------------------------------------------------------
(* Semaphores: value and queue of waiters.                                 *)
Sem(n) == [value |-> n, queue |-> << >>]
Post(sem) == IF sem.queue = << >> THEN [sem EXCEPT !.value = @ + 1]
             ELSE [sem EXCEPT !.queue = Tail(@)]

(* A program is a sequence of instructions; wait_if and post_if do it when *)
(* the counter is n.                                                       *)
I(op, sem) == [op |-> op, sem |-> sem, cnt |-> "", n |-> 0]
Count(op, cnt) == [op |-> op, sem |-> "", cnt |-> cnt, n |-> 0]
If(op, cnt, n, sem) == [op |-> op, sem |-> sem, cnt |-> cnt, n |-> n]

(* Bug: the readers count without sem_count.                               *)
ReaderFirst_NoLock ==
    <<If("wait_if", "R", 0, "write"), Count("inc", "R"), I("read", ""),
      Count("dec", "R"), If("post_if", "R", 0, "write")>>

(* reader and writer of sem_rf.c; x is its sem_count.                      *)
ReaderFirst_R ==
    <<I("wait", "x"), If("wait_if", "R", 0, "write"), Count("inc", "R"), I("post", "x"),
      I("read", ""),
      I("wait", "x"), Count("dec", "R"), If("post_if", "R", 0, "write"), I("post", "x")>>
ReaderFirst_W == <<I("wait", "write"), I("write", ""), I("post", "write")>>

(* Bug: the last writer does not let the readers in again.                 *)
WriterFirst_NoPost ==
    <<I("wait", "y"), Count("inc", "W"), If("wait_if", "W", 1, "read"), I("post", "y"),
      I("wait", "write"), I("write", ""), I("post", "write"),
      I("wait", "y"), Count("dec", "W"), I("post", "y")>>

(* reader and writer of sem_wf.c                                           *)
WriterFirst_R ==
    <<I("wait", "z"), I("wait", "read"), I("wait", "x"),
      Count("inc", "R"), If("wait_if", "R", 1, "write"),
      I("post", "x"), I("post", "read"), I("post", "z"),
      I("read", ""),
      I("wait", "x"), Count("dec", "R"), If("post_if", "R", 0, "write"), I("post", "x")>>
WriterFirst_W ==
    <<I("wait", "y"), Count("inc", "W"), If("wait_if", "W", 1, "read"), I("post", "y"),
      I("wait", "write"), I("write", ""), I("post", "write"),
      I("wait", "y"), Count("dec", "W"), If("post_if", "W", 0, "read"), I("post", "y")>>

(* read_write_test; with an empty Writer or Reader the other two tests.    *)
Program ==
    [p \in User |->
        IF rw.first = "rf" THEN IF p \in Reader THEN ReaderFirst_R ELSE ReaderFirst_W
        ELSE IF p \in Reader THEN WriterFirst_R ELSE WriterFirst_W]

InitRw(first) ==
    rw = [first |-> first,
          sem |-> [s \in {"x", "y", "z", "read", "write"} |-> Sem(1)],
          cnt |-> [c \in {"R", "W"} |-> 0],
          pc |-> [p \in User |-> 1],
          busy |-> [p \in User |-> FALSE]]

Done(p) == rw.pc[p] > Len(Program[p])
Now(p) == Program[p][rw.pc[p]]
Asleep(p) == \E s \in DOMAIN rw.sem : p \in ToSet(rw.sem[s].queue)
Step(r, p) == [r EXCEPT !.pc[p] = @ + 1, !.busy[p] = FALSE]

(* sem_wait: takes a unit or sleeps; who is handed a unit goes on.         *)
Wait(r, p, s) ==
    IF r.sem[s].value > 0 THEN Step([r EXCEPT !.sem[s].value = @ - 1], p)
    ELSE Step([r EXCEPT !.sem[s].queue = Append(@, p)], p)

Holds(p) == rw.cnt[Now(p).cnt] = Now(p).n
RwWait(p) ==
    \/ Now(p).op = "wait" /\ rw' = Wait(rw, p, Now(p).sem)
    \/ Now(p).op = "wait_if" /\ rw' = IF Holds(p) THEN Wait(rw, p, Now(p).sem) ELSE Step(rw, p)

RwPost(p) ==
    \/ Now(p).op = "post" /\ rw' = Step([rw EXCEPT !.sem[Now(p).sem] = Post(@)], p)
    \/ /\ Now(p).op = "post_if"
       /\ rw' = Step(IF Holds(p) THEN [rw EXCEPT !.sem[Now(p).sem] = Post(@)] ELSE rw, p)

RwCount(p) ==
    \/ Now(p).op = "inc" /\ rw' = Step([rw EXCEPT !.cnt[Now(p).cnt] = @ + 1], p)
    \/ Now(p).op = "dec" /\ rw' = Step([rw EXCEPT !.cnt[Now(p).cnt] = @ - 1], p)

(* sleep(time) between start and end.                                      *)
RwAccess(p) ==
    /\ Now(p).op \in {"read", "write"}
    /\ rw' = IF rw.busy[p] THEN Step(rw, p) ELSE [rw EXCEPT !.busy[p] = TRUE]

Runs(p) == RwWait(p) \/ RwPost(p) \/ RwCount(p) \/ RwAccess(p)
RwNext == \E p \in User : ~Done(p) /\ ~Asleep(p) /\ Runs(p)

(* Every process is scheduled again and again, so each of them goes on.    *)
RwFairness == \A p \in User : WF_rw(~Done(p) /\ ~Asleep(p) /\ Runs(p))

-----------------------------------------------------------------------------
(* The pipe.  Its writers are threads and share one spipe_t; the reader is *)
(* a process with a copy.  All bytes are numbered per writer.              *)
SpUser == {"w1", "w2", "main", "reader"}
Copy(u) == IF u = "reader" THEN "child" ELSE "parent"

InitSp == sp = [sem |-> Sem(1), rpos |-> 0, wpos |-> 0, closed |-> FALSE,
                buf |-> [i \in 0 .. BufSize - 1 |-> <<"", 0>>],
                isclosed |-> [c \in {"parent", "child"} |-> FALSE],
                pc |-> [u \in SpUser |-> "try"], ret |-> [u \in SpUser |-> 0],
                sent |-> << >>, got |-> << >>, early |-> FALSE]

(* try_again: the copy's flag, then sem_wait.                              *)
TryAgain(u) ==
    /\ sp.pc[u] = "try"
    /\ u = "main" => \A w \in {"w1", "w2"} : sp.pc[w] = "end"
    /\ sp' = IF sp.isclosed[Copy(u)] THEN [sp EXCEPT !.pc[u] = "end"]
             ELSE IF sp.sem.value > 0 THEN [sp EXCEPT !.sem.value = @ - 1, !.pc[u] = "in"]
             ELSE [sp EXCEPT !.sem.queue = Append(@, u), !.pc[u] = "in"]

In(u) == sp.pc[u] = "in" /\ u \notin ToSet(sp.sem.queue)
Leave(s, u, pc) == [s EXCEPT !.sem = Post(@), !.pc[u] = pc]

(* __spipeisclosed_nolock, with __spipeclose_nolock at the end.            *)
ClosedFor(u) == sp.closed /\ (sp.rpos < sp.wpos => u # "reader")
Noticed(u) ==
    IF sp.closed /\ sp.rpos >= sp.wpos THEN [sp EXCEPT !.isclosed[Copy(u)] = TRUE] ELSE sp

Lesser(m, n) == IF m < n THEN m ELSE n

(* spiperead                                                               *)
Read ==
    LET n == Lesser(ReadLen, sp.wpos - sp.rpos) IN
    /\ In("reader")
    /\ sp' = IF ClosedFor("reader") THEN Leave(Noticed("reader"), "reader", "end")
             ELSE IF n = 0 THEN Leave(sp, "reader", "try")
             ELSE Leave([sp EXCEPT !.rpos = @ + n,
                                   !.got = @ \o [i \in 1 .. n |-> sp.buf[(sp.rpos + i - 1) % BufSize]]],
                        "reader", "try")

(* Bug: bytes are written whether or not there is room.                     *)
Write_Overrun(u) ==
    LET n == Lesser(WriteLen, Rounds - sp.ret[u])
        bytes == [i \in 1 .. n |-> <<u, sp.ret[u] + i>>]
    IN  /\ In(u) /\ u \in {"w1", "w2"}
        /\ sp' = Leave([sp EXCEPT !.wpos = @ + n, !.ret[u] = @ + n, !.sent = @ \o bytes,
                            !.buf = FoldLeft(LAMBDA b, i : [b EXCEPT ![(sp.wpos + i - 1) % BufSize] = bytes[i]],
                                             @, [i \in 1 .. n |-> i])],
                       u, IF sp.ret[u] + n = Rounds THEN "end" ELSE "try")

(* spipewrite: as much as there is room for, then the semaphore is given   *)
(* up and taken again; the next call starts when all has been written.     *)
Write(u) ==
    LET n == Lesser(Lesser(WriteLen - (sp.ret[u] % WriteLen), Rounds - sp.ret[u]),
                    BufSize - (sp.wpos - sp.rpos))
        bytes == [i \in 1 .. n |-> <<u, sp.ret[u] + i>>]
    IN  /\ In(u) /\ u \in {"w1", "w2"}
        /\ sp' = IF ClosedFor(u) THEN [Leave(Noticed(u), u, "end") EXCEPT !.early = TRUE]
                 ELSE Leave([sp EXCEPT !.wpos = @ + n, !.ret[u] = @ + n, !.sent = @ \o bytes,
                                !.buf = FoldLeft(LAMBDA b, i : [b EXCEPT ![(sp.wpos + i - 1) % BufSize] = bytes[i]],
                                                 @, [i \in 1 .. n |-> i])],
                            u, IF sp.ret[u] + n = Rounds THEN "end" ELSE "try")

(* spipeclose by main, once the writers have been waited for.              *)
Close ==
    /\ In("main")
    /\ sp' = Leave([sp EXCEPT !.closed = TRUE, !.isclosed["parent"] = TRUE], "main", "end")

SpNext == Read \/ Close \/ (\E u \in {"w1", "w2"} : Write(u)) \/ \E u \in SpUser : TryAgain(u)

(* Weak fairness of each user: a process that can run is scheduled.        *)
SpFairness ==
    /\ WF_sp(Read) /\ WF_sp(Close)
    /\ \A u \in {"w1", "w2"} : WF_sp(Write(u))
    /\ \A u \in SpUser : WF_sp(TryAgain(u))

-----------------------------------------------------------------------------
(* Nobody reads while one writes and two never write; and when all are     *)
(* done every semaphore has its unit back and the counters are 0, which    *)
(* check_sem_value tests before the next round.                            *)
ReadersWritersExclude ==
    /\ \A p \in Writer, q \in User : p # q /\ rw.busy[p] => ~rw.busy[q]
    /\ (\A p \in User : Done(p)) =>
        /\ \A s \in DOMAIN rw.sem : rw.sem[s] = Sem(1)
        /\ \A c \in DOMAIN rw.cnt : rw.cnt[c] = 0

(* The reader gets the bytes in the order in which they went in, all of    *)
(* those of a thread in its order; no writer finds the pipe closed too     *)
(* early; and the reader stops only when it has everything.                *)
SpipeExact ==
    /\ IsPrefix(sp.got, sp.sent)
    /\ sp.wpos - sp.rpos <= BufSize
    /\ ~sp.early
    /\ sp.pc["reader"] = "end" => Len(sp.got) = 2 * Rounds

(* Every reader and writer gets its turn, in both programs, and the pipe   *)
(* is read to its end.                                                     *)
AllDone == <>(\A p \in User : Done(p))
SpipeEnds == <>(sp.pc["reader"] = "end")
=============================================================================
