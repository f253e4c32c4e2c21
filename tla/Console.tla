------------------------------ MODULE Console ------------------------------
(***************************************************************************)
(* The console of the supervisor (supervisor/driver/console.c) and the     *)
(* line editor of the kernel monitor on top of it (libs/readline.c).       *)
(*                                                                         *)
(* "inp" is the way in: the bytes the keyboard has sent, the modifiers     *)
(* kbd_proc_data remembers between interrupts, and the ring cons that      *)
(* cons_intr fills and cons_getc empties.  cons_intr never looks at rpos:  *)
(* a ring that fills up becomes an empty one.                              *)
(*                                                                         *)
(* "scr" is the way out: the text screen with its cursor, the copy sent to *)
(* the serial and the parallel line, and the line being edited.  The paper *)
(* is what would have been printed on an endless roll.                     *)
(***************************************************************************)
EXTENDS Integers, Sequences, FiniteSets, SequencesExt

CONSTANTS
    ConsBufSize,     \* CONSBUFSIZE, the size of the ring
    MaxBytes,        \* bound: bytes the keyboard holds until the next interrupt
    Key,             \* the keys that are used, a subset of the domain of Keys
    MaxHeld,         \* bound: keys held down at the same time
    Rows, Cols,      \* CRT_ROWS, CRT_COLS
    BufSize,         \* BUFSIZE of readline
    MaxPos           \* bound: positions of the roll of paper

VARIABLES inp, scr

-----------------------------------------------------------------------------
(* The keyboard *)

(* A key sends its code, after an E0 byte if it is an extended key, and    *)
(* the code with the top bit set when it is released.  The keys here stand *)
(* for the classes the tables tell apart; "fake" is the shift code that    *)
(* keyboards send, extended, around a navigation key.                      *)
Keys == [a      |-> <<30>>,      lshift |-> <<42>>,      rshift |-> <<54>>,
         lctl   |-> <<29>>,      rctl   |-> <<224, 29>>, alt    |-> <<56>>,
         caps   |-> <<58>>,      del    |-> <<224, 83>>, fake   |-> <<224, 42>>]

(* The bytes of a release. *)
Up(k) == [i \in DOMAIN Keys[k] |-> IF Keys[k][i] = 224 THEN 224 ELSE Keys[k][i] + 128]

Shiftcode(d) ==
    CASE d \in {29, 157} -> {"ctl"} [] d \in {42, 54} -> {"shift"}
      [] d \in {56, 184} -> {"alt"} [] OTHER -> {}

Togglecode(d) == IF d = 58 THEN {"caps"} ELSE {}

(* The character tables; "no" is NO, 0. *)
Charcode(shift, d) ==
    CASE d = 30  -> IF "ctl" \in shift THEN "^A" ELSE IF "shift" \in shift THEN "A" ELSE "a"
      [] d = 83  -> IF "ctl" \in shift THEN "no" ELSE "."
      [] d = 211 -> "del"
      [] OTHER   -> "no"

Capital(c) == IF c = "a" THEN "A" ELSE IF c = "A" THEN "a" ELSE c

(* Bug: the E0 that announced a released key stays for the next one. *)
Released_KeepE0(shift, d) ==
    LET code == IF "e0" \in shift THEN d ELSE d % 128
    IN  shift \ Shiftcode(code)

(* A released key gives no character; of the modifiers it ends the ones of *)
(* its own code, and an E0 ends with the byte after it.                    *)
Released(shift, d) ==
    LET code == IF "e0" \in shift THEN d ELSE d % 128
    IN  shift \ (Shiftcode(code) \cup {"e0"})

Pressed(shift, d) ==
    LET code == IF "e0" \in shift THEN d + 128 ELSE d
        on   == (shift \ {"e0"}) \cup Shiftcode(code)
        flip == Togglecode(code)
        new  == (on \ flip) \cup (flip \ on)
        c    == Charcode(new, code)
    IN  [shift |-> new, code |-> IF "caps" \in new THEN Capital(c) ELSE c]

KbdProcData(shift, d) ==
    IF d = 224 THEN [shift |-> shift \cup {"e0"}, code |-> "no"]
    ELSE IF d >= 128 THEN [shift |-> Released(shift, d), code |-> "no"]
    ELSE Pressed(shift, d)

-----------------------------------------------------------------------------
(* The ring *)

(* The last characters that came, as many as the ring has slots. *)
Recent(q, c) == LET r == Append(q, c) IN IF Len(r) > ConsBufSize THEN Tail(r) ELSE r

(* Bug: the writer wraps one slot early. *)
Store_EarlyWrap(s, c) ==
    [s EXCEPT !.buf[s.wpos] = c, !.wpos = (s.wpos + 1) % (ConsBufSize - 1),
              !.recent = Recent(@, c), !.lag = (@ + 1) % ConsBufSize]

(* One character into the ring, of the loop of cons_intr. *)
Store(s, c) ==
    [s EXCEPT !.buf[s.wpos] = c, !.wpos = (s.wpos + 1) % ConsBufSize,
              !.recent = Recent(@, c), !.lag = (@ + 1) % ConsBufSize]

(* One turn of cons_intr(kbd_proc_data). *)
KbdTurn(s, d) ==
    LET r == KbdProcData(s.shift, d)
        t == [s EXCEPT !.shift = r.shift]
    IN  IF r.code = "no" THEN t ELSE Store(t, r.code)

(* cons_intr(kbd_proc_data): until the keyboard has no more data. *)
KbdIntr(s) == [FoldLeft(KbdTurn, s, s.bytes) EXCEPT !.bytes = <<>>]

(* cons_intr(serial_proc_data): the receive register holds one character,  *)
(* and DEL comes in as a backspace.                                        *)
SerialIntr(s) ==
    IF s.uart = "none" THEN s
    ELSE [Store(s, IF s.uart = "127" THEN "bs" ELSE s.uart) EXCEPT !.uart = "none"]

(* cons_getc: poll both devices, then the oldest character of the ring. *)
Getc(s) ==
    LET t == KbdIntr(SerialIntr(s))
    IN  IF t.rpos = t.wpos THEN t
        ELSE [t EXCEPT !.rpos = (t.rpos + 1) % ConsBufSize, !.lag = (@ - 1) % ConsBufSize]

InitIn ==
    inp = [bytes |-> <<>>, held |-> {}, shift |-> {}, uart |-> "none",
           buf |-> [i \in 0 .. ConsBufSize - 1 |-> "no"], rpos |-> 0, wpos |-> 0,
           recent |-> <<>>, lag |-> 0]

Press(k) ==
    /\ k \notin inp.held
    /\ Cardinality(inp.held) < MaxHeld
    /\ Len(inp.bytes) + Len(Keys[k]) <= MaxBytes
    /\ inp' = [inp EXCEPT !.bytes = @ \o Keys[k], !.held = @ \cup {k}]

Release(k) ==
    /\ k \in inp.held
    /\ Len(inp.bytes) + Len(Keys[k]) <= MaxBytes
    /\ inp' = [inp EXCEPT !.bytes = @ \o Up(k), !.held = @ \ {k}]

SerialData(c) == inp.uart = "none" /\ inp' = [inp EXCEPT !.uart = c]

KbdInterrupt == inp.bytes # <<>> /\ inp' = KbdIntr(inp)

SerialInterrupt == inp.uart # "none" /\ inp' = SerialIntr(inp)

ConsGetc == inp' = Getc(inp)

NextIn ==
    \/ \E k \in Key : Press(k) \/ Release(k)
    \/ SerialData("127")
    \/ KbdInterrupt
    \/ SerialInterrupt
    \/ ConsGetc

Waiting(s) == (s.wpos - s.rpos) % ConsBufSize

(* What the ring holds is always the most recent characters, in the order  *)
(* they came: of n that were not read it holds n modulo its size, since a  *)
(* ring that fills up is empty, and never an older one.  And a modifier is *)
(* only on while a key of it is down, so a shift is never stuck once every *)
(* byte has been taken.                                                    *)
KeysSound ==
    /\ Waiting(inp) = inp.lag
    /\ \A i \in 1 .. Waiting(inp) :
           inp.buf[(inp.rpos + i - 1) % ConsBufSize]
               = inp.recent[Len(inp.recent) - Waiting(inp) + i]
    /\ inp.bytes = <<>> =>
           /\ "e0" \notin inp.shift
           /\ "shift" \in inp.shift => inp.held \cap {"lshift", "rshift"} # {}
           /\ "ctl" \in inp.shift => inp.held \cap {"lctl", "rctl"} # {}
           /\ "alt" \in inp.shift => "alt" \in inp.held

-----------------------------------------------------------------------------
(* The screen *)

CrtSize == Rows * Cols

Blank == " "

(* crt_pos of an unsigned 16-bit counter, and what is written at it. *)
Moved(t, c) ==
    CASE c = "bs" -> IF t.pos > 0 THEN [t EXCEPT !.pos = @ - 1, !.crt[t.pos - 1] = Blank] ELSE t
      [] c = "nl" -> [t EXCEPT !.pos = @ + Cols - ((@ + Cols) % Cols)]
      [] c = "cr" -> [t EXCEPT !.pos = @ - (@ % Cols)]
      [] OTHER    -> [t EXCEPT !.pos = @ + 1, !.crt[t.pos] = c]

(* Bug: the last row keeps what the scrolled row was. *)
Scrolled_KeepLast(t) ==
    IF t.pos < CrtSize THEN t
    ELSE [t EXCEPT !.pos = @ - Cols,
                   !.crt = [i \in 0 .. CrtSize - 1 |->
                              IF i < CrtSize - Cols THEN t.crt[i + Cols] ELSE t.crt[i]]]

Scrolled(t) ==
    IF t.pos < CrtSize THEN t
    ELSE [t EXCEPT !.pos = @ - Cols,
                   !.crt = [i \in 0 .. CrtSize - 1 |->
                              IF i < CrtSize - Cols THEN t.crt[i + Cols] ELSE Blank]]

CgaPutc(t, c) == Scrolled(Moved(t, c))

(* What lpt_putc and serial_putc send for a character. *)
Sent(c) == IF c = "bs" THEN <<"bs", Blank, "bs">> ELSE <<c>>

(* The roll of paper, of which the screen is to show the last rows: a      *)
(* backspace cannot go back above the first row that is still visible.     *)
Typed(t, c) ==
    LET p   == CASE c = "bs" -> IF t.at > t.top * Cols THEN t.at - 1 ELSE t.at
                 [] c = "nl" -> (t.at \div Cols + 1) * Cols
                 [] c = "cr" -> (t.at \div Cols) * Cols
                 [] OTHER    -> t.at + 1
        row == p \div Cols
    IN  [t EXCEPT !.at = p,
                  !.top = IF row - @ >= Rows THEN row - Rows + 1 ELSE @,
                  !.paper = IF c = "bs" /\ p < t.at THEN [@ EXCEPT ![p] = Blank]
                            ELSE IF c \in {"bs", "nl", "cr"} THEN @
                            ELSE [@ EXCEPT ![t.at] = c]]

ConsPutc(t, c) == [Typed(CgaPutc(t, c), c) EXCEPT !.wire = Sent(c)]

InitOut ==
    scr = [crt |-> [i \in 0 .. CrtSize - 1 |-> Blank], pos |-> 0, wire |-> <<>>,
           paper |-> [i \in 0 .. MaxPos |-> Blank], at |-> 0, top |-> 0,
           reading |-> FALSE, line |-> <<>>, from |-> 0]

(* The kernel prints something while nobody edits a line. *)
Putc(c) == ~scr.reading /\ scr' = ConsPutc(scr, c)

Prompt == ~scr.reading /\ scr' = [scr EXCEPT !.reading = TRUE, !.line = <<>>, !.from = scr.at]

Printable(c) == c \notin {"bs", "nl", "cr", "ctl"}

(* Bug: readline drops its last character without telling the screen. *)
Readline_SilentBs(c) ==
    /\ scr.reading
    /\ CASE Printable(c) /\ Len(scr.line) < BufSize - 1 ->
                scr' = [ConsPutc(scr, c) EXCEPT !.line = Append(@, c)]
         [] c = "bs" /\ scr.line # <<>> -> scr' = [scr EXCEPT !.line = Front(@)]
         [] c \in {"nl", "cr"} -> scr' = [ConsPutc(scr, c) EXCEPT !.reading = FALSE]
         [] OTHER -> UNCHANGED scr

(* One character of readline: kept and echoed, erased, the end, or nothing. *)
Readline(c) ==
    /\ scr.reading
    /\ CASE Printable(c) /\ Len(scr.line) < BufSize - 1 ->
                scr' = [ConsPutc(scr, c) EXCEPT !.line = Append(@, c)]
         [] c = "bs" /\ scr.line # <<>> -> scr' = [ConsPutc(scr, c) EXCEPT !.line = Front(@)]
         [] c \in {"nl", "cr"} -> scr' = [ConsPutc(scr, c) EXCEPT !.reading = FALSE]
         [] OTHER -> UNCHANGED scr

NextOut ==
    /\ scr.at + Cols <= MaxPos
    /\ \/ \E c \in {"x", "bs", "nl", "cr"} : Putc(c)
       \/ Prompt
       \/ \E c \in {"y", "bs", "nl", "cr", "ctl"} : Readline(c)

(* The screen is the last rows of the paper and the cursor is on it; and   *)
(* while a line is edited the text on the paper from the prompt on is the  *)
(* line in the buffer, a backspace over the end of a row included.         *)
ScreenSound ==
    /\ scr.pos = scr.at - scr.top * Cols
    /\ scr.pos \in 0 .. CrtSize - 1
    /\ \A i \in 0 .. CrtSize - 1 :
           scr.crt[i] = IF scr.top * Cols + i <= MaxPos THEN scr.paper[scr.top * Cols + i] ELSE Blank
    /\ scr.reading =>
           /\ scr.at = scr.from + Len(scr.line)
           /\ \A i \in 1 .. Len(scr.line) : scr.paper[scr.from + i - 1] = scr.line[i]
=============================================================================
