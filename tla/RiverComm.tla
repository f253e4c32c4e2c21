------------------------------ MODULE RiverComm ------------------------------
(***************************************************************************)
(* Messages of kern-river: packets between CPUs (proc/ipe.c), and packets  *)
(* to the Linux that serves as driver OS (proc/dos.c, with its side in     *)
(* linux-dos-module/dosm-init.c and dosm-packet.c).                        *)
(*                                                                         *)
(* Both use a buffer of slots that the sender claims by compare-and-swap   *)
(* at random indices; after IPE_RETRY or DOS_RETRY misses it gives up, so  *)
(* a send may fail as soon as one slot is taken.  The random indices are a *)
(* free choice.                                                            *)
(***************************************************************************)
EXTENDS Integers, FiniteSets, SequencesExt

CONSTANTS
    Cpu, Packet,
    From,            \* Packet -> Cpu: packet->from_lapic
    Slots            \* RBUF_COUNT, dos_packet_buf_cap

VARIABLES
    ipe,             \* buf (per Cpu), packets: state, processed, handled, again; scan (per Cpu)
    dos              \* buf, head, last (of one CPU), and where do_dos_scan is

Slot == 1 .. Slots
Free == "free"

Twice == 2                 \* where the count of the times a packet was handled stops

NoPacket == [used |-> FALSE, linked |-> FALSE, valid |-> FALSE, checked |-> FALSE,
             finished |-> FALSE, link |-> 0,
             alone |-> FALSE, told |-> FALSE]   \* history: linked to an empty list, event activated
NoScan == [at |-> "look", cur |-> 0, before |-> 0, next |-> 0, end |-> 0]

Init ==
    /\ ipe = [buf |-> [c \in Cpu |-> [i \in Slot |-> Free]],
              to |-> [k \in Packet |-> {}],
              processed |-> [k \in Packet |-> FALSE],
              handled |-> [k \in Packet |-> 0],
              refused |-> {},
              scan |-> [c \in Cpu |-> [at |-> 0, acked |-> FALSE]]]
    /\ dos = [buf |-> [i \in Slot |-> NoPacket], head |-> 0, last |-> 0, scan |-> NoScan]

-----------------------------------------------------------------------------
(* Packets between CPUs.                                                   *)
(* ipe_packet_send to another CPU clears processed, then looks for a slot. *)
Sent(s, target, k) ==
    {[s EXCEPT !.buf[target][i] = k, !.processed[k] = FALSE] :
        i \in {i \in Slot : s.buf[target][i] = Free}}

(* It fails only if it met a slot in use ten times.                        *)
Refused(s, target, k) ==
    {[s EXCEPT !.processed[k] = FALSE] : i \in {i \in Slot : s.buf[target][i] # Free}}

(* A CPU sends one of its packets that is not under way.  (To itself the   *)
(* handlers run at once.)                                                  *)
IpeSend(k, target) ==
    /\ ipe.to[k] = {} /\ target # From[k]
    /\ \/ \E s \in Sent(ipe, target, k) : ipe' = [s EXCEPT !.to[k] = {target}, !.handled[k] = 0]
       \/ \E s \in Refused(ipe, target, k) : ipe' = s
    /\ UNCHANGED dos

(* do_ipe is activated by the interrupt, the idle loop and a timer.        *)
ScanStart(c) ==
    /\ ipe.scan[c].at = 0
    /\ ipe' = [ipe EXCEPT !.scan[c].at = 1]
    /\ UNCHANGED dos

Onwards(s, c) ==
    [s EXCEPT !.scan[c] = [at |-> IF @.at = Slots THEN 0 ELSE @.at + 1, acked |-> FALSE]]

Drop_Always(s, c, k) ==
    {Onwards([r EXCEPT !.buf[c][s.scan[c].at] = Free], c) : r \in Refused(s, From[k], k)}

(* SEND ACK FAILED: the packet stays in the slot for the next scan.        *)
KeepForNextScan(s, c, k) ==
    {Onwards([r EXCEPT !.refused = @ \cup {k}], c) : r \in Refused(s, From[k], k)}

(* One turn of the loop of do_ipe up to the clearing of the slot: my own   *)
(* packet has come back, or a packet of another CPU is handled unless      *)
(* marked processed, and sent back.                                        *)
ScanStep(c) ==
    LET at == ipe.scan[c].at
        k == ipe.buf[c][at]
        h == IF ipe.processed[k] THEN ipe
             ELSE [ipe EXCEPT !.processed[k] = TRUE, !.handled[k] = IF @ = Twice THEN @ ELSE @ + 1]
    IN  /\ at # 0 /\ ~ipe.scan[c].acked
        /\ IF k = Free THEN ipe' = Onwards(ipe, c)
           ELSE IF From[k] = c
           THEN ipe' = Onwards([ipe EXCEPT !.to[k] = {}, !.buf[c][at] = Free,
                                           !.handled[k] = 0, !.refused = @ \ {k}], c)
           ELSE \/ \E s \in Sent(h, From[k], k) : ipe' = [s EXCEPT !.scan[c].acked = TRUE]
                \/ \E s \in KeepForNextScan(h, c, k) : ipe' = s
        /\ UNCHANGED dos

(* local_recv_buffer[i] = NULL, after the acknowledgement is visible.      *)
ScanClear(c) ==
    /\ ipe.scan[c].acked
    /\ ipe' = Onwards([ipe EXCEPT !.buf[c][ipe.scan[c].at] = Free], c)
    /\ UNCHANGED dos

-----------------------------------------------------------------------------
(* Packets to the driver OS, from one CPU.  dos_packet_send may come at    *)
(* any time, from a process or in an interrupt; interrupts are off only    *)
(* where it links the packet and in two places of do_dos_scan.             *)

(* dos_packet_alloc claims a slot.                                         *)
DosAlloc(i) ==
    /\ dos.buf[i] = NoPacket
    /\ dos' = [dos EXCEPT !.buf[i].used = TRUE]
    /\ UNCHANGED ipe

(* dos_packet_send, dos_packet_sendv: the packet is linked behind          *)
(* dos_packet_local_last, which is moved only when the list was empty.     *)
DosLink(i) ==
    LET alone == dos.last = 0 IN
    /\ dos.buf[i].used /\ ~dos.buf[i].linked
    /\ dos' = IF alone
              THEN [dos EXCEPT !.buf[i].linked = TRUE, !.buf[i].alone = TRUE,
                               !.head = i, !.last = i]
              ELSE [dos EXCEPT !.buf[i].linked = TRUE, !.buf[dos.last].link = i]
    /\ UNCHANGED ipe

(* The end of dos_packet_send: the driver OS may look at the packet.       *)
DosValid(i) ==
    /\ dos.buf[i].linked /\ ~dos.buf[i].valid
    /\ dos' = [dos EXCEPT !.buf[i].valid = TRUE]
    /\ UNCHANGED ipe

(* dosm_kthread and dosm_packet_process                                    *)
DosmProcess(i) ==
    /\ dos.buf[i].valid /\ ~dos.buf[i].checked
    /\ dos' = [dos EXCEPT !.buf[i].checked = TRUE, !.buf[i].finished = TRUE]
    /\ UNCHANGED ipe

(* do_dos_scan, activated by the driver OS's interrupt and by a timer, one *)
(* at a time; the scan ends behind the packet that is last when it begins. *)
DosScanStart ==
    /\ dos.scan.cur = 0 /\ dos.head # 0
    /\ dos' = [dos EXCEPT !.scan = [at |-> "look", cur |-> dos.head, before |-> 0, next |-> 0,
                                    end |-> dos.last]]
    /\ UNCHANGED ipe

(* The link behind the packet is read.                                     *)
DosScanNext ==
    LET w == dos.scan IN
    /\ w.cur # 0 /\ w.at = "look"
    /\ dos' = [dos EXCEPT !.scan.at = "test",
                          !.scan.next = IF w.cur = w.end THEN 0 ELSE dos.buf[w.cur].link]
    /\ UNCHANGED ipe

(* A finished packet's event is activated; another one is left behind.     *)
DosScanTest ==
    LET w == dos.scan IN
    /\ w.cur # 0 /\ w.at = "test"
    /\ dos' = IF dos.buf[w.cur].finished
              THEN [dos EXCEPT !.scan.at = "unlink", !.buf[w.cur].told = TRUE]
              ELSE [dos EXCEPT !.scan = [@ EXCEPT !.at = "look", !.before = w.cur, !.cur = w.next]]
    /\ UNCHANGED ipe

Unlinked_KeepLast(d, cur, before, next) ==
    IF before # 0 THEN [d EXCEPT !.buf[before].link = next]
    ELSE [d EXCEPT !.head = next]

(* It is unlinked from its predecessor or the head.                        *)
Unlinked(d, cur, before, next) ==
    IF before # 0 THEN [d EXCEPT !.buf[before].link = next]
    ELSE IF next # 0 THEN [d EXCEPT !.head = next]
    ELSE IF cur = d.last THEN [d EXCEPT !.head = 0, !.last = 0]
    ELSE [d EXCEPT !.head = d.buf[cur].link]

DosScanUnlink ==
    LET w == dos.scan IN
    /\ w.cur # 0 /\ w.at = "unlink"
    /\ dos' = [Unlinked(dos, w.cur, w.before, w.next) EXCEPT !.scan.at = "clear"]
    /\ UNCHANGED ipe

(* Its slot is cleared, and the scan goes on.                              *)
DosScanClear ==
    LET w == dos.scan IN
    /\ w.cur # 0 /\ w.at = "clear"
    /\ dos' = [dos EXCEPT !.buf[w.cur] = NoPacket,
                          !.scan = [@ EXCEPT !.at = "look", !.cur = w.next]]
    /\ UNCHANGED ipe

DosScan == DosScanStart \/ DosScanNext \/ DosScanTest \/ DosScanUnlink \/ DosScanClear

IpeNext ==
    \/ \E k \in Packet, c \in Cpu : IpeSend(k, c)
    \/ \E c \in Cpu : ScanStart(c) \/ ScanStep(c) \/ ScanClear(c)

DosNext == DosScan \/ \E i \in Slot : DosAlloc(i) \/ DosLink(i) \/ DosValid(i) \/ DosmProcess(i)

Next == IpeNext \/ DosNext

Spec == Init /\ [][Next]_<<ipe, dos>>

-----------------------------------------------------------------------------
(* Slots that hold packet k, those apart that their scan is about to clear.*)
Holding(k) == {h \in Cpu \X Slot :
                  /\ ipe.buf[h[1]][h[2]] = k
                  /\ ~(ipe.scan[h[1]].acked /\ ipe.scan[h[1]].at = h[2])}

(* A packet under way is in exactly one slot, on its way out or back, and  *)
(* one that is not is in none, although buffers fill up, acknowledgements  *)
(* are refused and a packet is sent again while its old slot is being      *)
(* cleared; a packet that is back has been handled, and once only unless   *)
(* an acknowledgement was refused: ipe_packet_send resets the mark that    *)
(* should prevent a second time.                                           *)
PacketsKept ==
    \A k \in Packet :
        /\ Cardinality(Holding(k)) = Cardinality(ipe.to[k])
        /\ \A i \in Slot : <<From[k], i>> \in Holding(k) => ipe.handled[k] > 0
        /\ ipe.handled[k] = Twice => k \in ipe.refused

(* The event of a packet is activated only when the driver OS has finished *)
(* it, and a packet linked while no other was outstanding stays on the     *)
(* list until then, whatever is sent between the steps of the scan, also   *)
(* between the unlinking and the clearing of its predecessor.  (One linked *)
(* while another is outstanding is forgotten.)                             *)
DosKept ==
    /\ \A i \in Slot :
         /\ dos.buf[i].told => dos.buf[i].finished
         /\ dos.head = i <=> /\ dos.buf[i].alone
                             /\ ~(dos.scan.cur = i /\ dos.scan.at = "clear")
    /\ dos.head = dos.last
=============================================================================
