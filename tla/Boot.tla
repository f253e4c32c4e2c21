-------------------------------- MODULE Boot --------------------------------
(***************************************************************************)
(* Starting the CPUs.  The supervisor runs on one CPU, finds the others in *)
(* the firmware's table, copies a trampoline to the page at 0x8000 and     *)
(* starts them there (supervisor/init/init.c, mp/mp.c, driver/lapic.c).    *)
(* With a driver OS the last CPU is kept for Linux: once the others have   *)
(* counted themselves in lcpu_init_count, the same page is overwritten     *)
(* with its entry code (driver/driver_os.c).  Every CPU of the kernel then *)
(* goes through the start-up barrier of kern-ucore (glue-ucore/entry.c) or *)
(* of kern-river (proc/ipe.c).                                             *)
(*                                                                         *)
(* A CPU is its place in lcpu_id_set, from 0.  INIT and STARTUP interrupts *)
(* reach their CPU, whatever it does.  Memory allocation has its own lock  *)
(* (module Buddy) and page tables are private to a CPU.                    *)
(***************************************************************************)
EXTENDS Integers, Sequences, FiniteSetsExt, FiniteSetTheorems

CONSTANTS
    Madt             \* tables of the firmware: sequences of [type, id, enabled]

VARIABLES
    hw,              \* ids, the driver OS and the kernel that were configured
    low,             \* what lies at 0x8000
    cpu,             \* per CPU: pc, and reg, a local variable
    mem              \* shared memory: counters, lock, handlers, interrupt routes

vars == <<hw, low, cpu, mem>>

N == Len(hw.ids)
Cpu == 0 .. N - 1
Id(c) == hw.ids[c + 1]
Exceptions == {"exceptions", "T_SYSCALL", "T_IPI"}
Irq == {"COM1", "KBD"}

(* acpi_conf_init: the enabled processors in the order of the table.       *)
LcpuIdSet(madt) ==
    LET s == SelectSeq(madt, LAMBDA d : d.type = 0 /\ d.enabled)
    IN  [i \in DOMAIN s |-> s[i].id]

(* The CPU the firmware starts is the first of the table, as ACPI asks of  *)
(* it, and has the smallest id.                                            *)
MadtAssumption ==
    \A m \in Madt : LET s == LcpuIdSet(m) IN
        /\ s \in Seq(Nat) /\ Len(s) > 2
        /\ \A i \in DOMAIN s : i > 1 => s[i] > s[1]
        /\ \A i, j \in DOMAIN s : s[i] = s[j] => i = j

Lcpu_idx(id) == CHOOSE c \in Cpu : Id(c) = id
Bsp == Lcpu_idx(hw.boot)

(* lcpu_count_get                                                          *)
Lcpu_count == IF hw.dos THEN N - 1 ELSE N
Kern == 0 .. Lcpu_count - 1

Off == [pc |-> "off", reg |-> 0]

Init ==
    /\ \E m \in Madt, d \in BOOLEAN, k \in {"ucore", "river"} :
        LET s == LcpuIdSet(m) IN
        /\ hw = [ids |-> s, boot |-> s[1], dos |-> d, kernel |-> k]
        /\ cpu = [c \in 0 .. Len(s) - 1 |->
                     IF c = 0 THEN [pc |-> "kern_init", reg |-> 0] ELSE Off]
        /\ mem = [lcpu_init_count |-> 0, ipe_ready |-> 0, init_finished |-> 0, init_lock |-> 0,
                  handler |-> [c \in 0 .. Len(s) - 1 |-> {}],
                  irq |-> [q \in Irq |-> [to |-> -1, on |-> FALSE]],
                  recv_buffer |-> {}]
    /\ low = "e820"

At(c, pc) == cpu[c].pc = pc
Goto(c, pc) == cpu' = [cpu EXCEPT ![c].pc = pc]

-----------------------------------------------------------------------------
(* The supervisor on the first CPU.  The memory map that the boot loader   *)
(* left at 0x8000 is used up by pmm_init before mp_init writes there.      *)
KernInit ==
    /\ At(Bsp, "kern_init") /\ low = "e820"
    /\ Goto(Bsp, "mp_init") /\ UNCHANGED <<hw, low, mem>>

MpInit ==
    /\ At(Bsp, "mp_init")
    /\ low' = "ap" /\ Goto(Bsp, "start") /\ UNCHANGED <<hw, mem>>

(* lapic_ap_start: INIT and two STARTUPs, the second of which is ignored.  *)
LapicApStart(s, c) == [s EXCEPT ![c] = [pc |-> "startup", reg |-> 0]]

(* The loop of mp_init; reg is i.  With a driver OS it leaves out the last.*)
StartNext ==
    /\ At(Bsp, "start")
    /\ LET i == cpu[Bsp].reg
           next == [cpu EXCEPT ![Bsp].reg = i + 1]
       IN  cpu' = IF i \notin Kern
                  THEN [cpu EXCEPT ![Bsp] = [pc |-> IF hw.dos THEN "driver_os" ELSE "lcpu_init",
                                             reg |-> 0]]
                  ELSE IF Id(i) = hw.boot THEN next ELSE LapicApStart(next, i)
    /\ UNCHANGED <<hw, low, mem>>

(* Bug: one CPU may still be in the trampoline.                            *)
DriverOsInit_TooSoon ==
    /\ At(Bsp, "driver_os") /\ mem.lcpu_init_count >= N - 3
    /\ low' = "dos" /\ Goto(Bsp, "dos_start") /\ UNCHANGED <<hw, mem>>

(* driver_os_init, until the image is in place ...                         *)
DriverOsInit ==
    /\ At(Bsp, "driver_os") /\ mem.lcpu_init_count >= N - 2
    /\ low' = "dos" /\ Goto(Bsp, "dos_start") /\ UNCHANGED <<hw, mem>>

(* ... and its end.                                                        *)
DriverOsStart ==
    /\ At(Bsp, "dos_start")
    /\ cpu' = LapicApStart([cpu EXCEPT ![Bsp].pc = "lcpu_init"], N - 1)
    /\ UNCHANGED <<hw, low, mem>>

-----------------------------------------------------------------------------
(* A started CPU runs what it finds at 0x8000: boot_ap_entry up to its     *)
(* call of ap_boot_init, or __boot_dos_entry.                              *)
Startup(c) ==
    /\ At(c, "startup")
    /\ Goto(c, IF low = "ap" THEN "trampoline" ELSE "linux")
    /\ UNCHANGED <<hw, low, mem>>

(* boot_ap_entry puts the stack at BOOT_AP_STACK_BASE plus id pages, of    *)
(* which it then uses the one below; mp_init has allocated as many pages   *)
(* as the largest id.                                                      *)
StackPages == 0 .. Max({Id(c) : c \in Cpu}) - 1
StackPage(c) == Id(c) - 1

ApBootInit(c) ==
    /\ At(c, "trampoline")
    /\ Goto(c, "lcpu_init") /\ UNCHANGED <<hw, low, mem>>

(* The loops that add one to a shared counter: read it, then cmpxchg32.    *)
ReadCount(c, from, cell, to) ==
    /\ At(c, from)
    /\ cpu' = [cpu EXCEPT ![c] = [pc |-> to, reg |-> mem[cell]]]
    /\ UNCHANGED <<hw, low, mem>>

(* Bug: a store instead of the compare and exchange.                       *)
Cmpxchg_Store(c, from, cell, retry, to) ==
    /\ At(c, from)
    /\ mem' = [mem EXCEPT ![cell] = cpu[c].reg + 1] /\ Goto(c, to)
    /\ UNCHANGED <<hw, low>>

Cmpxchg(c, from, cell, retry, to) ==
    /\ At(c, from)
    /\ IF mem[cell] = cpu[c].reg
       THEN mem' = [mem EXCEPT ![cell] = @ + 1] /\ Goto(c, to)
       ELSE Goto(c, retry) /\ UNCHANGED mem
    /\ UNCHANGED <<hw, low>>

(* lcpu_init                                                               *)
LcpuInit(c) ==
    \/ ReadCount(c, "lcpu_init", "lcpu_init_count", "lcpu_cas")
    \/ Cmpxchg(c, "lcpu_cas", "lcpu_init_count", "lcpu_init", "jump_kern")

(* jump_kern maps the kernel in page tables of this CPU's own, with a      *)
(* fresh copy of its private data, and enters it; there mp_init finds its  *)
(* index.                                                                  *)
JumpKern(c) ==
    /\ At(c, "jump_kern")
    /\ Goto(c, IF hw.kernel = "river" THEN "trap_init" ELSE IF c = 0 THEN "acquire" ELSE "wait")
    /\ UNCHANGED <<hw, low, mem>>

-----------------------------------------------------------------------------
(* intr_handler_set: an interrupt of a device is disabled and will be      *)
(* routed here; irq_enable routes it.                                      *)
IntrHandlerSet(s, c, V) ==
    [s EXCEPT !.handler[c] = @ \cup V,
              !.irq = [q \in Irq |-> IF q \in V THEN [to |-> c, on |-> FALSE] ELSE s.irq[q]]]
IrqEnable(s, q) == [s EXCEPT !.irq[q].on = TRUE]

(* trap_init and trap_init_ap of kern-ucore                                *)
TrapInit(s, c) == IrqEnable(IntrHandlerSet(s, c, Exceptions \cup {"TIMER", "COM1", "KBD"}), "KBD")
TrapInitAp(s, c) == IntrHandlerSet(s, c, Exceptions \cup {"TIMER"})

(* __kern_entry of kern-ucore: the CPU with index 0 initialises the kernel *)
(* under init_lock, and then each of the others itself.                    *)
WaitInit(c) ==
    /\ At(c, "wait") /\ mem.init_finished # 0
    /\ Goto(c, "acquire") /\ UNCHANGED <<hw, low, mem>>

(* Bug: the lock is not asked for.                                         *)
AcquireInit_NoLock(c) ==
    /\ At(c, "acquire")
    /\ mem' = [mem EXCEPT !.init_lock = 1] /\ Goto(c, "init") /\ UNCHANGED <<hw, low>>

AcquireInit(c) ==
    /\ At(c, "acquire") /\ mem.init_lock = 0
    /\ mem' = [mem EXCEPT !.init_lock = 1] /\ Goto(c, "init") /\ UNCHANGED <<hw, low>>

(* All that is initialised; reg is what ++ init_finished reads.            *)
InitKernel(c) ==
    /\ At(c, "init")
    /\ mem' = IF c = 0 THEN TrapInit(mem, c) ELSE TrapInitAp(mem, c)
    /\ cpu' = [cpu EXCEPT ![c] = [pc |-> "finish", reg |-> mem.init_finished]]
    /\ UNCHANGED <<hw, low>>

FinishInit(c) ==
    /\ At(c, "finish")
    /\ mem' = [mem EXCEPT !.init_finished = IF c = 0 THEN 1 ELSE cpu[c].reg + 1]
    /\ Goto(c, "release") /\ UNCHANGED <<hw, low>>

ReleaseInit(c) ==
    /\ At(c, "release")
    /\ mem' = [mem EXCEPT !.init_lock = 0] /\ Goto(c, "barrier") /\ UNCHANGED <<hw, low>>

(* Bug: the CPUs do not wait for each other.                               *)
CpuIdle_Early(c) ==
    /\ At(c, "barrier") /\ mem.init_finished # 0
    /\ Goto(c, "idle") /\ UNCHANGED <<hw, low, mem>>

(* The barrier; cpu_idle runs with interrupts on, and from now on          *)
(* mp_tlb_invalidate sends T_IPI to the others.                            *)
CpuIdle(c) ==
    /\ At(c, "barrier") /\ mem.init_finished = Lcpu_count
    /\ Goto(c, "idle") /\ UNCHANGED <<hw, low, mem>>

-----------------------------------------------------------------------------
(* __kern_entry of kern-river, up to do_idle                               *)
RiverEntry(c) ==
    /\ At(c, "trap_init")
    /\ mem' = IntrHandlerSet(mem, c, Exceptions \cup {"T_IPI_DOS", "TIMER"})
    /\ Goto(c, "ipe_init") /\ UNCHANGED <<hw, low>>

(* do_init: ipe_init with its barrier, then dos_init                       *)
IpeInit(c) ==
    /\ At(c, "ipe_init")
    /\ mem' = [mem EXCEPT !.recv_buffer = @ \cup {c}]
    /\ Goto(c, "ipe_ready") /\ UNCHANGED <<hw, low>>

IpeCount(c) ==
    \/ ReadCount(c, "ipe_ready", "ipe_ready", "ipe_cas")
    \/ Cmpxchg(c, "ipe_cas", "ipe_ready", "ipe_ready", "ipe_barrier")

DoInit(c) ==
    /\ At(c, "ipe_barrier") /\ mem.ipe_ready = Lcpu_count
    /\ Goto(c, "idle") /\ UNCHANGED <<hw, low, mem>>

-----------------------------------------------------------------------------
Step(c) ==
    \/ c = Bsp /\ (KernInit \/ MpInit \/ StartNext \/ DriverOsInit \/ DriverOsStart)
    \/ Startup(c) \/ ApBootInit(c) \/ LcpuInit(c) \/ JumpKern(c)
    \/ WaitInit(c) \/ AcquireInit(c) \/ InitKernel(c) \/ FinishInit(c) \/ ReleaseInit(c)
    \/ CpuIdle(c)
    \/ RiverEntry(c) \/ IpeInit(c) \/ IpeCount(c) \/ DoInit(c)

Next == \E c \in Cpu : Step(c)

Spec == Init /\ [][Next]_vars

-----------------------------------------------------------------------------
(* The page at 0x8000 keeps the trampoline while a CPU runs it, the last   *)
(* CPU and no other runs Linux, and the boot stacks are pages of their own *)
(* among those allocated.                                                  *)
TrampolineKept ==
    /\ \A c \in Cpu : At(c, "trampoline") => low = "ap"
    /\ \A c \in Cpu : At(c, "linux") => c \notin Kern
    /\ \A c \in Cpu \ {Bsp} : /\ StackPage(c) \in StackPages
                              /\ \A e \in Cpu \ {Bsp, c} : StackPage(e) # StackPage(c)

(* Whoever leaves the start-up barrier may interrupt all the others and    *)
(* send them packets: none will panic over an unexpected trap, and each    *)
(* has its receive buffer.  A routed device has its handler where it goes. *)
ReadyTogether ==
    /\ (\E c \in Kern : At(c, "idle")) =>
        \A c \in Kern : /\ Exceptions \cup {"TIMER"} \subseteq mem.handler[c]
                        /\ hw.kernel = "river" => c \in mem.recv_buffer
    /\ \A q \in Irq : mem.irq[q].on => q \in mem.handler[mem.irq[q].to]

(* Where every CPU arrives: those of the kernel in their idle loop, the    *)
(* last one in Linux if there is a driver OS.                              *)
Started ==
    /\ \A c \in Kern : At(c, "idle")
    /\ hw.dos => At(N - 1, "linux")

-----------------------------------------------------------------------------
(* The inductive invariant, over the places where a CPU may be.            *)
Supervisor == {"kern_init", "mp_init", "start", "driver_os", "dos_start"}
Early == {"off", "startup", "trampoline", "linux", "lcpu_init", "lcpu_cas"}
Section == {"init", "finish", "release"}
Ucore == {"wait", "acquire", "init", "finish", "release", "barrier"}
River == {"trap_init", "ipe_init", "ipe_ready", "ipe_cas", "ipe_barrier"}
Late == {"jump_kern", "idle"} \cup Ucore \cup River

(* Where a CPU has counted itself in init_finished, or in ipe_ready.       *)
Finished == {"release", "barrier", "idle"}
Ready == {"ipe_barrier", "idle"}

Place(c) == cpu[c].pc
Those(places) == {c \in Cpu : Place(c) \in places}

Memory ==
    [lcpu_init_count : Nat, ipe_ready : Nat, init_finished : Nat, init_lock : {0, 1},
     handler : [Cpu -> SUBSET (Exceptions \cup Irq \cup {"TIMER", "T_IPI_DOS"})],
     irq : [Irq -> [to : Int, on : BOOLEAN]], recv_buffer : SUBSET Cpu]

TypeOK ==
    /\ \E m \in Madt : hw.ids = LcpuIdSet(m) /\ hw.boot = LcpuIdSet(m)[1]
    /\ hw.dos \in BOOLEAN /\ hw.kernel \in {"ucore", "river"}
    /\ low \in {"e820", "ap", "dos"}
    /\ cpu \in [Cpu -> [pc : Supervisor \cup Early \cup Late, reg : Nat]]
    /\ mem \in Memory

(* Who may be where.                                                       *)
Places ==
    \A c \in Cpu :
        /\ c = 0 => Place(c) \notin {"off", "startup", "trampoline", "linux"}
        /\ c # 0 => Place(c) \notin Supervisor
        /\ c \notin Kern => Place(c) \in {"off", "startup", "linux"}
        /\ c \in Kern => Place(c) # "linux"
        /\ Place(c) \in Ucore => hw.kernel = "ucore"
        /\ Place(c) \in River => hw.kernel = "river"

(* What lies at 0x8000 while the CPUs are started one by one: the entry of *)
(* the driver OS only when every CPU of the kernel has counted itself.     *)
LowPage ==
    /\ Place(0) = "start" => low = "ap"
    /\ Place(0) = "driver_os" => low = "ap" /\ hw.dos
    /\ Place(0) = "dos_start" => low = "dos" /\ hw.dos
    /\ \A c \in Cpu \ {0} :
        /\ Place(0) \in {"kern_init", "mp_init"} => Place(c) = "off"
        /\ Place(0) = "start" /\ c >= cpu[0].reg => Place(c) = "off"
        /\ low = "e820" => Place(c) = "off"
        /\ low = "dos" /\ c \in Kern => Place(c) \in Late
        /\ low # "dos" /\ c \notin Kern => Place(c) = "off"

(* The counters, of which init_finished is protected by init_lock ...      *)
Counts ==
    /\ mem.lcpu_init_count = Cardinality(Those(Late))
    /\ hw.kernel = "ucore" => mem.init_finished = Cardinality(Those(Finished))
    /\ hw.kernel = "river" => mem.ipe_ready = Cardinality(Those(Ready))

Locked ==
    /\ \A c, d \in Cpu : Place(c) \in Section /\ Place(d) \in Section => c = d
    /\ \A c \in Cpu : /\ Place(c) \in Section => mem.init_lock = 1
                      /\ Place(c) = "finish" => cpu[c].reg = mem.init_finished

(* ... and behind the first CPU come the others.                           *)
FirstCpu ==
    \A c \in Cpu \ {0} :
        hw.kernel = "ucore" /\ Place(c) \in {"acquire", "barrier", "idle"} \cup Section =>
            Place(0) \in Finished

(* The barrier.                                                            *)
Together ==
    \A c \in Cpu, d \in Kern :
        Place(c) = "idle" => /\ hw.kernel = "ucore" => Place(d) \in Finished
                             /\ hw.kernel = "river" => Place(d) \in Ready

Handlers ==
    /\ \A c \in Cpu :
        /\ Place(c) \in (Finished \cup Ready \cup {"finish", "ipe_init", "ipe_ready", "ipe_cas"}) =>
              Exceptions \cup {"TIMER"} \subseteq mem.handler[c]
        /\ Place(c) \in {"ipe_ready", "ipe_cas"} => c \in mem.recv_buffer
        /\ hw.kernel = "river" /\ Place(c) \in Ready => c \in mem.recv_buffer
    /\ \A q \in Irq : mem.irq[q].on => mem.irq[q].to \in Cpu /\ q \in mem.handler[mem.irq[q].to]

IndInv == TypeOK /\ Places /\ LowPage /\ Counts /\ Locked /\ FirstCpu /\ Together /\ Handlers
=============================================================================
