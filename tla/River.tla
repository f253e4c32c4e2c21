-------------------------------- MODULE River --------------------------------
(***************************************************************************)
(* One CPU of kern-river, the second kernel of the repository: event pools *)
(* with their processes (proc/event.c, eproc.c), the ready queue           *)
(* (proc/proc.c, sched.c) and the deferred interrupts (trap/trap.c).       *)
(*                                                                         *)
(* local_irq_save only defers device interrupts: they run when the level   *)
(* drops to zero, so to them a section is atomic and Irq may happen before *)
(* or after it.  The interrupts from other CPUs (T_IPI, T_IPI_DOS) call    *)
(* event_activate at once, inside such a section too (IpiInside): what a   *)
(* half-updated list then becomes is not followed, torn records it.        *)
(***************************************************************************)
EXTENDS WaitQueue

CONSTANTS
    Eproc, Event,
    Pool,            \* Event -> Eproc: event->pool
    IpiEvent         \* events the inter-processor interrupts activate

ProcIdle == "proc_idle"
Proc == Eproc \cup {ProcIdle}

RiverAssumption ==
    ProcIdle \notin Eproc /\ Pool \in [Event -> Eproc] /\ IpiEvent \subseteq Event

VARIABLES
    status,          \* per process: proc->status
    slice,           \* its time slice is not 0
    pc,              \* where it is in event_loop, or in do_idle
    queue,           \* the ready queue
    proc_current,
    pool,            \* per Eproc: the queued events
    event,           \* per event: event->status
    owed,            \* the events activated since their handler last began
    torn             \* "no", or the list that was spoilt and how

vars == <<status, slice, pc, queue, proc_current, pool, event, owed, torn>>

Now == [status |-> status, slice |-> slice, pc |-> pc, queue |-> queue, cur |-> proc_current,
        pool |-> pool, event |-> event, owed |-> owed, torn |-> torn]

Becomes(s) ==
    /\ status' = s.status /\ slice' = s.slice /\ pc' = s.pc /\ queue' = s.queue
    /\ proc_current' = s.cur /\ pool' = s.pool /\ event' = s.event /\ owed' = s.owed
    /\ torn' = s.torn

States ==
    [status : [Proc -> {"WAIT", "WEAK", "STRONG"}],
     slice  : [Proc -> BOOLEAN],
     pc     : [Proc -> {"loop", "handler", "exhaust", "wait", "yield"}],
     queue  : Seq(Eproc),
     cur    : Proc,
     pool   : [Eproc -> Seq(Event)],
     event  : [Event -> {"WAIT", "QUEUE", "STRONG"}],
     owed   : SUBSET Event,
     torn   : {"no", "queued while running", "attached twice", "pool", "ready queue"}]

Init ==
    /\ status = [p \in Proc |-> IF p = ProcIdle THEN "WEAK" ELSE "WAIT"]
    /\ slice = [p \in Proc |-> TRUE]
    /\ pc = [p \in Proc |-> "loop"]
    /\ queue = << >>
    /\ proc_current = ProcIdle
    /\ pool = [p \in Eproc |-> << >>]
    /\ event = [e \in Event |-> "WAIT"]
    /\ owed = {}
    /\ torn = "no"

Whole == torn \in {"no", "queued while running"}
Runnable(s, p) == s.status[p] \in {"WEAK", "STRONG"}
IsReady(s, p) == p \in ToSet(s.queue)

-----------------------------------------------------------------------------
(* sched_attach links the node whether or not it is linked already.        *)
Attach(s, p) ==
    IF IsReady(s, p) THEN [s EXCEPT !.torn = "attached twice"]
    ELSE [s EXCEPT !.queue = Append(@, p)]

(* A process notified between setting WAIT and calling proc_schedule is    *)
(* queued while it runs, and the next attach links it twice.               *)
MakeReady(s, p) ==
    LET a == Attach([s EXCEPT !.status[p] = "WEAK"], p)
    IN  IF p = s.cur /\ a.torn = "no" THEN [a EXCEPT !.torn = "queued while running"] ELSE a

Notify_WeakOnly(s, p) ==
    IF s.status[p] = "WAIT" THEN MakeReady(s, p) ELSE s

(* proc_notify                                                             *)
Notify(s, p) ==
    CASE s.status[p] = "WEAK" -> [s EXCEPT !.status[p] = "STRONG"]
      [] s.status[p] = "WAIT" -> MakeReady(s, p)
      [] OTHER -> s

(* event_activate: ep_touch notifies the process of the pool, whatever the *)
(* state of the event.                                                     *)
Activate(s, e) ==
    LET n == [Notify(s, Pool[e]) EXCEPT !.owed = @ \cup {e}]
    IN  CASE s.event[e] = "WAIT" ->
                [n EXCEPT !.event[e] = "QUEUE", !.pool[Pool[e]] = Append(@, e)]
          [] s.event[e] = "QUEUE" -> [n EXCEPT !.event[e] = "STRONG"]
          [] OTHER -> n

(* proc_schedule and proc_switch                                           *)
ProcSchedule(s) ==
    IF s.slice[s.cur] /\ Runnable(s, s.cur) THEN s
    ELSE LET r == IF s.cur # ProcIdle /\ Runnable(s, s.cur) THEN Attach(s, s.cur) ELSE s
             next == IF r.queue = << >> THEN ProcIdle ELSE Head(r.queue)
         IN  [r EXCEPT !.queue = IF @ = << >> THEN @ ELSE Tail(@),
                       !.slice[next] = TRUE, !.cur = next]

-----------------------------------------------------------------------------
At(p, where) == Whole /\ proc_current = p /\ pc[p] = where

(* event_loop: take the first event; an event activated again meanwhile    *)
(* goes to the end with one activation less.                               *)
Fetch(p) ==
    /\ At(p, "loop") /\ p # ProcIdle
    /\ IF pool[p] = << >>
       THEN pc' = [pc EXCEPT ![p] = "exhaust"] /\ UNCHANGED <<pool, event, owed>>
       ELSE LET e == Head(pool[p]) IN
            /\ pc' = [pc EXCEPT ![p] = "handler"]
            /\ IF event[e] = "QUEUE"
               THEN /\ event' = [event EXCEPT ![e] = "WAIT"] /\ owed' = owed \ {e}
                    /\ pool' = [pool EXCEPT ![p] = Tail(@)]
               ELSE /\ event' = [event EXCEPT ![e] = "QUEUE"] /\ UNCHANGED owed
                    /\ pool' = [pool EXCEPT ![p] = Append(Tail(@), e)]
    /\ UNCHANGED <<status, slice, queue, proc_current, torn>>

(* The handler; timer_open and ipe_packet_send make it activate others.    *)
Handler(p) ==
    /\ At(p, "handler")
    /\ \E s \in {[Now EXCEPT !.pc[p] = "loop"]} :
        Becomes(s) \/ \E e \in Event : Becomes(Activate(s, e))

(* proc_wait_try, up to its call of proc_schedule.                         *)
WaitTry(p) ==
    /\ At(p, "exhaust")
    /\ IF status[p] = "WEAK"
       THEN status' = [status EXCEPT ![p] = "WAIT"] /\ pc' = [pc EXCEPT ![p] = "wait"]
       ELSE status' = [status EXCEPT ![p] = "WEAK"] /\ pc' = [pc EXCEPT ![p] = "loop"]
    /\ UNCHANGED <<slice, queue, proc_current, pool, event, owed, torn>>

Wait(p) ==
    /\ At(p, "wait")
    /\ Becomes(ProcSchedule([Now EXCEPT !.pc[p] = "loop"]))

(* do_idle: activate an event, then proc_yield.                            *)
DoIdle ==
    /\ At(ProcIdle, "loop")
    /\ \E e \in IpiEvent : Becomes(Activate([Now EXCEPT !.pc[ProcIdle] = "yield"], e))

Yield ==
    /\ At(ProcIdle, "yield")
    /\ Becomes(ProcSchedule([Now EXCEPT !.pc[ProcIdle] = "loop", !.slice[ProcIdle] = FALSE]))

(* A device interrupt: trap_dispatch or local_irq_restore runs             *)
(* irq_process, whose tick_handler may use up the time slice and activate  *)
(* the event of a timer, and then proc_schedule.                           *)
Irq ==
    /\ Whole
    /\ \E left \in BOOLEAN :
       \E s \in {[Now EXCEPT !.slice[proc_current] = @ /\ left]} :
        Becomes(ProcSchedule(s)) \/ \E e \in Event : Becomes(ProcSchedule(Activate(s, e)))

(* An inter-processor interrupt between two sections ...                   *)
Ipi == Whole /\ \E e \in IpiEvent : Becomes(Activate(Now, e))

(* ... and inside one: the lists of the pool that event_loop is taking an  *)
(* event from, or the ready queue between sched_pick and sched_detach.     *)
IpiInside ==
    /\ Whole
    /\ \E e \in IpiEvent :
        \/ /\ proc_current = Pool[e] /\ pc[Pool[e]] = "loop" /\ pool[Pool[e]] # << >>
           /\ torn' = "pool"
        \/ /\ status[Pool[e]] = "WAIT" /\ queue # << >>
           /\ pc[proc_current] \in {"wait", "yield"}
           /\ torn' = "ready queue"
    /\ UNCHANGED <<status, slice, pc, queue, proc_current, pool, event, owed>>

Next ==
    \/ \E p \in Eproc : Fetch(p) \/ Handler(p) \/ WaitTry(p) \/ Wait(p)
    \/ DoIdle \/ Yield \/ Irq \/ Ipi \/ IpiInside

Spec == Init /\ [][Next]_vars

-----------------------------------------------------------------------------
(* Who is in the ready queue: the processes that may run and do not, once. *)
(* A process that waits is not about to look whether it may, and does not  *)
(* run unless it is on its way into proc_schedule.                         *)
Scheduled(s) ==
    /\ IsInjective(s.queue)
    /\ \A p \in Eproc :
        /\ IsReady(s, p) <=> p # s.cur /\ s.status[p] # "WAIT"
        /\ s.status[p] = "WAIT" => s.pc[p] # "exhaust" /\ (p = s.cur => s.pc[p] = "wait")

(* A process with queued events does not wait, and one that has just found *)
(* its pool empty has been told not to.                                    *)
Served(s) ==
    \A p \in Eproc :
        s.pool[p] # << >> => s.status[p] # "WAIT" /\ (s.pc[p] = "exhaust" => s.status[p] = "STRONG")

(* An event is in its pool, once, exactly when its status says so, and     *)
(* surely when it has been activated and not been handled since.           *)
Pooled(s) ==
    /\ \A p \in Eproc : IsInjective(s.pool[p]) /\ \A e \in ToSet(s.pool[p]) : Pool[e] = p
    /\ \A e \in Event :
        /\ s.event[e] = "WAIT" <=> e \notin ToSet(s.pool[Pool[e]])
        /\ e \in s.owed => e \in ToSet(s.pool[Pool[e]])

(* No activation is lost: the event is in its pool, and the process of the *)
(* pool runs, is ready, or has been told not to wait.  It holds until a    *)
(* process is notified in the window that MakeReady describes, and as long *)
(* as the lists are whole: nothing else in the hand-over loses one.        *)
EventsKept ==
    /\ Now \in States
    /\ torn = "no" => Scheduled(Now) /\ Served(Now) /\ Pooled(Now)
=============================================================================
