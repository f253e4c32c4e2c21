-------------------------------- MODULE Libc --------------------------------
(***************************************************************************)
(* The C library of the kernel (glue-ucore/libs/string.c, printfmt.c; the  *)
(* supervisor, kern-river and the user programs have copies).  Memory is a *)
(* function from addresses to characters; a loop over characters is a      *)
(* fold, one character at a time, so that overlapping areas behave as in   *)
(* the code.  A call is one step: it has no effect but on memory and its   *)
(* result.                                                                 *)
(***************************************************************************)
EXTENDS Integers, FiniteSets, SequencesExt, TLC

CONSTANTS
    MemSize,         \* addresses 0 .. MemSize - 1
    WordBits         \* width of long long (64)

VARIABLE call        \* the last call: op, what it was given and what it left

Nul == ""
Addr == 0 .. MemSize - 1
Upto(n) == [i \in 1 .. n |-> i]
Sign(n) == IF n < 0 THEN -1 ELSE IF n > 0 THEN 1 ELSE 0

-----------------------------------------------------------------------------
(* string.c.  The letters a < b stand for unsigned characters.             *)
Code(ch) == CASE ch = Nul -> 0 [] ch = "a" -> 1 [] ch = "b" -> 2

Strnlen(mem, s, len) ==
    FoldLeft(LAMBDA cnt, i : IF cnt = i - 1 /\ s + cnt \in Addr /\ mem[s + cnt] # Nul
                             THEN cnt + 1 ELSE cnt, 0, Upto(len))
Strlen(mem, s) == Strnlen(mem, s, MemSize)

(* The byte at s + i goes to d + i.                                        *)
Byte(mem, d, s, i) == [mem EXCEPT ![d + i] = mem[s + i]]

Strcpy(mem, d, s) ==
    FoldLeft(LAMBDA r, i : IF r.end THEN r
                           ELSE [mem |-> Byte(r.mem, d, s, i - 1), end |-> r.mem[s + i - 1] = Nul],
             [mem |-> mem, end |-> FALSE], Upto(Strlen(mem, s) + 1)).mem

Strcat(mem, d, s) == Strcpy(mem, d + Strlen(mem, d), s)

(* strncpy: src stays at the NUL, so that the rest is filled with it.      *)
Strncpy(mem, d, s, len) ==
    FoldLeft(LAMBDA r, i : [mem |-> Byte(r.mem, d, r.src - i + 1, i - 1),
                            src |-> IF r.mem[r.src] # Nul THEN r.src + 1 ELSE r.src],
             [mem |-> mem, src |-> s], Upto(len)).mem

(* strncmp; strcmp is the case without a limit.                            *)
Strncmp(mem, s1, s2, n) ==
    LET k == FoldLeft(LAMBDA c, i : IF c = i - 1 /\ mem[s1 + c] # Nul /\ mem[s1 + c] = mem[s2 + c]
                                    THEN c + 1 ELSE c, 0, Upto(n))
    IN  IF k = n THEN 0 ELSE Code(mem[s1 + k]) - Code(mem[s2 + k])
Strcmp(mem, s1, s2) == Strncmp(mem, s1, s2, MemSize)

(* strfind; strchr returns NULL (-1) where strfind returns the end.        *)
Strfind(mem, s, c) ==
    FoldLeft(LAMBDA p, i : IF mem[p] = Nul \/ mem[p] = c THEN p ELSE p + 1, s, Upto(Strlen(mem, s)))
Strchr(mem, s, c) == LET p == Strfind(mem, s, c) IN IF mem[p] = Nul THEN -1 ELSE p

Memset(mem, s, c, n) == FoldLeft(LAMBDA r, i : [r EXCEPT ![s + i - 1] = c], mem, Upto(n))
Memcpy(mem, d, s, n) == FoldLeft(LAMBDA r, i : Byte(r, d, s, i - 1), mem, Upto(n))

Memmove_Forward(mem, d, s, n) == Memcpy(mem, d, s, n)

(* memmove: backwards when the target begins inside the source.            *)
Memmove(mem, d, s, n) ==
    IF s < d /\ s + n > d THEN FoldLeft(LAMBDA r, i : Byte(r, d, s, n - i), mem, Upto(n))
    ELSE Memcpy(mem, d, s, n)

Memcmp(mem, v1, v2, n) ==
    LET k == FoldLeft(LAMBDA c, i : IF c = i - 1 /\ mem[v1 + c] = mem[v2 + c] THEN c + 1 ELSE c,
                      0, Upto(n))
    IN  IF k = n THEN 0 ELSE Code(mem[v1 + k]) - Code(mem[v2 + k])

-----------------------------------------------------------------------------
(* Numbers.                                                                *)
DigitChar == <<"0", "1", "2", "3", "4", "5", "6", "7", "8", "9", "a", "b", "c", "d", "e", "f">>
DigitOf(ch) == CHOOSE k \in 1 .. 16 : DigitChar[k] = ch
Signed(n) == IF n % 2^WordBits >= 2^(WordBits - 1) THEN (n % 2^WordBits) - 2^WordBits
             ELSE n % 2^WordBits

(* strtol of a sequence of characters; the arithmetic wraps around.        *)
Strtol(s, base0) ==
    LET at(i) == IF i <= Len(s) THEN s[i] ELSE Nul
        blanks == FoldLeft(LAMBDA k, i : IF k = i - 1 /\ s[i] = " " THEN k + 1 ELSE k, 0, Upto(Len(s)))
        signs == IF at(blanks + 1) \in {"+", "-"} THEN blanks + 1 ELSE blanks
        hex == base0 \in {0, 16} /\ at(signs + 1) = "0" /\ at(signs + 2) = "x"
        oct == base0 = 0 /\ ~hex /\ at(signs + 1) = "0"
        base == IF hex THEN 16 ELSE IF oct THEN 8 ELSE IF base0 = 0 THEN 10 ELSE base0
        from == IF hex THEN signs + 2 ELSE IF oct THEN signs + 1 ELSE signs
        digit(i) == \E k \in 1 .. base : DigitChar[k] = s[i]
        val == FoldLeft(LAMBDA r, i : IF i <= from \/ r.end THEN r
                                      ELSE IF digit(i)
                                      THEN [r EXCEPT !.val = Signed(@ * base + DigitOf(s[i]) - 1)]
                                      ELSE [r EXCEPT !.end = TRUE],
                        [val |-> 0, end |-> FALSE], Upto(Len(s))).val
    IN  IF at(blanks + 1) = "-" THEN Signed(-val) ELSE val

Pad(ch, n) == [i \in 1 .. n |-> ch]

Width_OffByOne(num, base, width, padc) ==
    LET digits == Cardinality({k \in 0 .. WordBits : k = 0 \/ num >= base^k})
    IN  Pad(padc, width - digits - 1)
          \o [i \in 1 .. digits |-> DigitChar[((num \div base^(digits - i)) % base) + 1]]

(* printnum: the padding goes before the first digit, whatever padc is.    *)
Printnum(num, base, width, padc) ==
    LET digits == Cardinality({k \in 0 .. WordBits : k = 0 \/ num >= base^k})
    IN  Pad(padc, width - digits)
          \o [i \in 1 .. digits |-> DigitChar[((num \div base^(digits - i)) % base) + 1]]

-----------------------------------------------------------------------------
(* vprintfmt as a fold over the format.  The state: mode, the flags of the *)
(* escape sequence that is being read, its text, the arguments left, and   *)
(* what has been printed.                                                  *)
Start(args) == [mode |-> "plain", padc |-> " ", width |-> -1, precision |-> -1,
                text |-> << >>, args |-> args, out |-> << >>]

Emit(st, chars, used) ==
    [st EXCEPT !.mode = "plain", !.out = @ \o chars, !.args = SubSeq(@, used + 1, Len(@))]

(* %s, with at most precision characters.                                  *)
String(st) ==
    LET p == Head(st.args)
        n == IF st.precision >= 0 /\ st.precision < Len(p) THEN st.precision ELSE Len(p)
        before == IF st.width > 0 /\ st.padc # "-" THEN Pad(st.padc, st.width - n) ELSE << >>
        after == IF st.width > 0 /\ st.padc # "-" THEN << >> ELSE Pad(" ", st.width - n)
    IN  before \o SubSeq(p, 1, n) \o after

Decimal(st) ==
    LET n == Head(st.args)
    IN  IF n < 0 THEN <<"-">> \o Printnum((-n) % 2^WordBits, 10, st.width, st.padc)
        ELSE Printnum(n, 10, st.width, st.padc)

Unsigned(st, base) == Printnum(Head(st.args) % 2^WordBits, base, st.width, st.padc)

(* process_precision: the first number is the width, the second the        *)
(* precision.                                                              *)
Precise(st) ==
    IF st.mode = "number" /\ st.width < 0
    THEN [st EXCEPT !.mode = "escape", !.width = st.precision, !.precision = -1]
    ELSE [st EXCEPT !.mode = "escape"]

Escape(st0, ch) ==
    LET st == [Precise(st0) EXCEPT !.text = Append(@, ch)]
    IN  CASE ch \in {"-", "0"} -> [st EXCEPT !.padc = ch]
          [] ch = "." -> [st EXCEPT !.width = IF @ < 0 THEN 0 ELSE @]
          [] ch \in {"1", "2", "3"} -> [st EXCEPT !.mode = "number", !.precision = DigitOf(ch) - 1]
          [] ch = "*" -> Precise([st EXCEPT !.mode = "number", !.precision = Head(st.args),
                                            !.args = Tail(@)])
          [] ch = "c" -> Emit(st, <<Head(st.args)>>, 1)
          [] ch = "s" -> Emit(st, String(st), 1)
          [] ch = "d" -> Emit(st, Decimal(st), 1)
          [] ch = "u" -> Emit(st, Unsigned(st, 10), 1)
          [] ch = "o" -> Emit(st, Unsigned(st, 8), 1)
          [] ch = "x" -> Emit(st, Unsigned(st, 16), 1)
          [] ch = "p" -> Emit(st, <<"0", "x">> \o Unsigned(st, 16), 1)
          [] ch = "%" -> Emit(st, <<"%">>, 0)
          [] OTHER -> Emit(st, <<"%">> \o st.text, 0)

Digits(st, ch) ==
    [st EXCEPT !.precision = @ * 10 + DigitOf(ch) - 1, !.text = Append(@, ch)]

Vprintfmt(fmt, args) ==
    LET step(st, ch) ==
            IF st.mode = "plain" /\ ch = "%"
            THEN [Start(st.args) EXCEPT !.mode = "escape", !.out = st.out]
            ELSE IF st.mode = "plain" THEN Emit(st, <<ch>>, 0)
            ELSE IF st.mode = "number" /\ ch \in {"0", "1", "2", "3"} THEN Digits(st, ch)
            ELSE Escape(st, ch)
        end == FoldLeft(step, Start(args), fmt)
    IN  IF end.mode = "plain" THEN end.out ELSE end.out \o <<"%">> \o end.text

Vsnprintf_NoRoom(mem, str, size, chars) ==
    [cnt |-> Len(chars),
     mem |-> [a \in Addr |-> IF a \in str .. str + size - 1 /\ a - str < Len(chars)
                             THEN chars[a - str + 1] ELSE mem[a]]]

(* vsnprintf and sprintputch                                               *)
Vsnprintf(mem, str, size, chars) ==
    IF size < 1 THEN [cnt |-> -1, mem |-> mem]
    ELSE LET run == FoldLeft(LAMBDA b, ch : IF b.buf < str + size - 1
                                            THEN [mem |-> [b.mem EXCEPT ![b.buf] = ch], buf |-> b.buf + 1]
                                            ELSE b, [mem |-> mem, buf |-> str], chars)
         IN  [cnt |-> Len(chars), mem |-> [run.mem EXCEPT ![run.buf] = Nul]]

-----------------------------------------------------------------------------
Init == call = [op |-> "none"]

Memory == [Addr -> {Nul, "a", "b"}]
Strings(mem) == {s \in Addr : s + Strlen(mem, s) \in Addr}

(* Calls of the memory functions, on areas inside memory.                  *)
CallMem(mem) == \E d, s \in Addr : \E n \in 0 .. MemSize - (IF d > s THEN d ELSE s) :
    LET given(op) == [op |-> op, mem |-> mem, d |-> d, s |-> s, n |-> n] IN
    \/ call' = given("memmove") @@ [out |-> Memmove(mem, d, s, n)]
    \/ call' = given("memcmp") @@ [out |-> Memcmp(mem, d, s, n)]
    \/ call' = given("memset") @@ [out |-> Memset(mem, d, mem[s], n)]

(* Calls of the string functions; the areas of a copy do not overlap.      *)
CallStr(mem) == \E d, s \in Strings(mem) :
    LET given(op, n) == [op |-> op, mem |-> mem, d |-> d, s |-> s, n |-> n] IN
    \/ /\ d + Strlen(mem, d) + Strlen(mem, s) < s
       /\ call' = given("strcat", 0) @@ [out |-> Strcat(mem, d, s)]
    \/ \E n \in 0 .. s - d : call' = given("strncpy", n) @@ [out |-> Strncpy(mem, d, s, n)]
    \/ call' = given("strcmp", 0) @@ [out |-> Strcmp(mem, d, s)]
    \/ call' = given("strchr", 0) @@ [out |-> <<Strchr(mem, s, "a"), Strfind(mem, s, "a")>>]

CallPrint(num, width, padc) == \E base \in {8, 10, 16} :
    call' = [op |-> "print", num |-> num, base |-> base, width |-> width, padc |-> padc,
             out |-> Vprintfmt(<<"%">> \o (IF padc = " " THEN << >> ELSE <<padc>>)
                                 \o (IF width = 0 THEN << >> ELSE <<DigitChar[width + 1]>>)
                                 \o <<IF base = 8 THEN "o" ELSE IF base = 16 THEN "x" ELSE "d">>,
                               <<num>>)]

(* A format with a string, a width of two numbers and a bad escape.        *)
Formats == {<<"a", "%", "3", ".", "1", "s", "%", "%">>, <<"%", "-", "3", "s", "b">>,
            <<"%", "*", "s">>, <<"%", ".", "2", "s", "%", "c">>, <<"%", "1", "0", "y", "a">>,
            <<"%", "2", "l">>, <<"%", "3", "u", "%", "p">>}
Arguments(fmt) ==
    CASE fmt[2] = "*" -> {<<2, p>> : p \in {<<"a">>, <<"a", "b", "a">>}}
      [] fmt[Len(fmt)] = "p" -> {<<3, -1>>}
      [] OTHER -> {<<p, "b">> : p \in {<< >>, <<"a">>, <<"a", "b", "a">>}}

CallSnprintf(fmt) == \E size \in 0 .. MemSize : \E args \in Arguments(fmt) :
    \E chars \in {Vprintfmt(fmt, args)} :
        call' = [op |-> "snprintf", size |-> size, fmt |-> fmt, args |-> args, chars |-> chars,
                 out |-> Vsnprintf([a \in Addr |-> "?"], 0, size, chars)]

Return == call.op # "none" /\ call' = [op |-> "none"]

Call ==
    \/ \E mem \in Memory : CallMem(mem) \/ CallStr(mem)
    \/ \E num \in -2^(WordBits - 1) .. 2^(WordBits - 1) - 1, width \in 0 .. 3, padc \in {" ", "0"} :
        CallPrint(num, width, padc)
    \/ \E fmt \in Formats : CallSnprintf(fmt)

Next == (call.op = "none" /\ Call) \/ Return

-----------------------------------------------------------------------------
Area(mem, d, n) == [i \in 1 .. n |-> mem[d + i - 1]]

(* The string at s, and the order of strings that strcmp promises.         *)
Text(mem, s) == Area(mem, s, Strlen(mem, s))
Less(x, y) == \E k \in 0 .. Len(x) : /\ \A i \in 1 .. k : i <= Len(y) /\ x[i] = y[i]
                                     /\ k < Len(y)
                                     /\ k = Len(x) \/ Code(x[k + 1]) < Code(y[k + 1])

(* memmove moves what was there before it began, whatever the overlap, and *)
(* nothing outside the target is touched; strncpy fills up to the length;  *)
(* strcat joins; strcmp and memcmp order; strchr finds the first.          *)
MemoryExact ==
    LET outside == {a \in Addr : a < call.d \/ a >= call.d + call.n} IN
    /\ call.op \in {"memmove", "memset", "strncpy"} => \A a \in outside : call.out[a] = call.mem[a]
    /\ call.op = "memmove" => Area(call.out, call.d, call.n) = Area(call.mem, call.s, call.n)
    /\ call.op = "memset" => Area(call.out, call.d, call.n) = Pad(call.mem[call.s], call.n)
    /\ call.op = "strncpy" => \A i \in 1 .. call.n :
        call.out[call.d + i - 1] = IF i <= Strlen(call.mem, call.s) THEN call.mem[call.s + i - 1] ELSE Nul
    /\ call.op = "strcat" => Text(call.out, call.d) = Text(call.mem, call.d) \o Text(call.mem, call.s)
    /\ call.op = "strcmp" =>
        Sign(call.out) = IF Less(Text(call.mem, call.d), Text(call.mem, call.s)) THEN -1
                         ELSE IF Text(call.mem, call.d) = Text(call.mem, call.s) THEN 0 ELSE 1
    /\ call.op = "memcmp" => (call.out = 0 <=> Area(call.mem, call.d, call.n) = Area(call.mem, call.s, call.n))
    /\ call.op = "strchr" =>
        LET hits == {a \in call.s .. call.s + Strlen(call.mem, call.s) - 1 : call.mem[a] = "a"}
        IN  IF hits = {} THEN call.out = <<-1, call.s + Strlen(call.mem, call.s)>>
            ELSE call.out[1] = call.out[2] /\ call.out[1] \in hits /\ \A a \in hits : call.out[1] <= a

(* strtol reads back what vprintfmt printed, at both ends of the range and *)
(* with every padding; a negative number with blanks between its sign and  *)
(* its digits apart, which strtol reads as 0.                              *)
PrintedReadBack ==
    call.op = "print" =>
        LET blank == call.num < 0 /\ call.base = 10 /\ \E i \in 1 .. Len(call.out) : call.out[i] = " "
        IN  /\ Strtol(call.out, call.base) = IF blank THEN 0 ELSE call.num
            /\ Len(call.out) >= call.width

(* snprintf never writes behind size characters, always ends the string,   *)
(* stores a prefix of the text and returns the length of all of it.        *)
BufferKept ==
    call.op = "snprintf" =>
        /\ \A a \in Addr : a >= call.size => call.out.mem[a] = "?"
        /\ IF call.size = 0 THEN call.out.cnt < 0
           ELSE /\ call.out.cnt = Len(call.chars)
                /\ Text(call.out.mem, 0) = SubSeq(call.chars, 1,
                        IF Len(call.chars) < call.size THEN Len(call.chars) ELSE call.size - 1)
=============================================================================
