----------------------------- MODULE RiverTimer -----------------------------
(***************************************************************************)
(* Timers of kern-river (drivers/timer.c) and the radix heap they are kept *)
(* in (libs/crh.c).  A timer waits in bucket <<d, idx>>: d is the highest  *)
(* digit in which its key differs from the base (the current tick) and idx *)
(* that digit of the key.  The heap is advanced in steps no longer than    *)
(* crh_max_step; each step empties one bucket, whose nodes fire or sink to *)
(* a lower digit.  The tick interrupt may report several ticks at once.    *)
(*                                                                         *)
(* A digit has Bits bits (4 in the code) and there are Segs of them (16);  *)
(* keys are numbers of that many bits, and a timer set for later than the  *)
(* last of them gets a key below the base.                                 *)
(***************************************************************************)
EXTENDS Integers, FiniteSets, SequencesExt

CONSTANTS Timer, Bits, Segs,
          IntSegs,                    \* digits in an int (8)
          MaxDelay, MaxTick, MaxAcc   \* bounds: delay of a timer, time, ticks per interrupt

VARIABLE t           \* now, due: in ticks since the boot; place, bm, heads_bm; late, dropped

NoBucket == << >>

Keys == 2^(Bits * Segs)              \* where crh_key_t goes round
Base(s) == s.now % Keys              \* crh.base = timer_tick
Key(s, x) == s.due[x] % Keys

Init == t = [now |-> 0, due |-> [x \in Timer |-> 0], place |-> [x \in Timer |-> NoBucket],
             bm |-> {}, heads_bm |-> {}, late |-> FALSE, dropped |-> FALSE]

Digit(n, d) == (n \div 2^(Bits * d)) % 2^Bits

(* bsr(base ^ key) >> shift, for different numbers.                        *)
TopDigit(m, n) == CHOOSE d \in 0 .. Segs - 1 :
    Digit(m, d) # Digit(n, d) /\ \A e \in d + 1 .. Segs - 1 : Digit(m, e) = Digit(n, e)

Bucket(base, key) == LET d == TopDigit(base, key) IN <<d, Digit(key, d)>>

Lowest(S) == CHOOSE x \in S : \A y \in S : x <= y

(* _crh_insert                                                             *)
CrhInsert(s, x) ==
    LET b == Bucket(Base(s), Key(s, x))
    IN  [s EXCEPT !.place[x] = b, !.heads_bm = @ \cup {b}, !.bm = @ \cup {b[1]}]

(* The bits of an emptied bucket are flipped.                              *)
Flip(s, b) ==
    LET h == SymDiff(s.heads_bm, {b})
    IN  [s EXCEPT !.heads_bm = h,
                  !.bm = IF \E k \in h : k[1] = b[1] THEN @ ELSE SymDiff(@, {b[1]})]

SetBase_KeepBucket(s, now) ==
    LET due == {x \in Timer : s.place[x] # NoBucket /\ Key(s, x) = now % Keys}
    IN  [s EXCEPT !.now = now,
                  !.place = [x \in Timer |-> IF x \in due THEN NoBucket ELSE @[x]],
                  !.due = [x \in Timer |-> IF x \in due THEN 0 ELSE @[x]]]

(* crh_set_base, and timer_queue_append of the list it returns; the key of *)
(* a closed timer is forgotten.                                            *)
SetBase(s, now) ==
    LET b == Bucket(Base(s), now % Keys)
        nodes == {x \in Timer : s.place[x] = b}
        due == {x \in nodes : Key(s, x) = now % Keys}
        out == [s EXCEPT !.now = now,
                         !.place = [x \in Timer |-> IF x \in nodes THEN NoBucket ELSE @[x]],
                         !.due = [x \in Timer |-> IF x \in due THEN 0 ELSE @[x]]]
    IN  IF nodes = {} THEN out
        ELSE FoldLeft(CrhInsert, Flip(out, b), SetToSeq(nodes \ due))

(* Bit maps as sets: a shift left by n, whose count the processor takes    *)
(* modulo the width of the map (four times the 2^Bits bits it uses), and   *)
(* the first bit.                                                          *)
Shl(bits, n) == {b + (n % (4 * 2^Bits)) : b \in bits} \cap 0 .. 4 * 2^Bits - 1
Bsf(bits) == IF bits = {} THEN -1 ELSE Lowest(bits)

Step_NoRemain(s) ==
    LET d == Lowest(s.bm) idx == Digit(Base(s), d)
        ahead == {b[2] - idx : b \in {b \in s.heads_bm : b[1] = d /\ b[2] >= idx}}
    IN  IF s.bm = {} THEN 0 ELSE Bsf(ahead) * 2^(Bits * (d % IntSegs))

(* crh_max_step: to the first bucket ahead of the lowest occupied digit.   *)
(* With no bucket ahead the code counts from CRH_RADIX_BITSIZE, the number *)
(* of bits in a digit, and so it does to look around the end of the last   *)
(* digit.  Shifts of an int are by the count modulo its width; that a step *)
(* of 2^31 or more becomes negative is left out.                           *)
MaxStep(s) ==
    LET d == Lowest(s.bm) idx == Digit(Base(s), d)
        heads == {b[2] : b \in {b \in s.heads_bm : b[1] = d}}
        ahead == {h - idx : h \in {h \in heads : h >= idx}}
        first == IF d = Segs - 1 THEN Bsf(ahead \cup Shl(heads, Bits - idx))
                 ELSE IF ahead = {} THEN Bits - idx
                 ELSE Bsf(ahead)
        unit == 2^(Bits * (d % IntSegs))
    IN  IF s.bm = {} THEN 0 ELSE (first * unit - (Base(s) % unit)) % Keys

(* One turn of the loop of tick_handler; run is the rest of the ticks.     *)
(* Where crh_max_step returns 0 the timers that crh_set_base hands back    *)
(* are dropped ("XXX error if the return is not NULL").                    *)
Turn(run) ==
    LET max == MaxStep(run.s)
        step == IF max = 0 \/ run.left < max THEN run.left ELSE max
        s == SetBase(run.s, run.s.now + step)
    IN  IF run.left = 0 THEN run
        ELSE [s |-> [s EXCEPT !.dropped = @ \/ (max = 0 /\ s.due # run.s.due)],
              left |-> run.left - step]

-----------------------------------------------------------------------------
Closed(x) == t.place[x] = NoBucket

(* timer_open: a timer for the current tick fires at once.                 *)
TimerOpen(x, delay) ==
    /\ Closed(x)
    /\ t' = IF delay = 0 THEN t ELSE CrhInsert([t EXCEPT !.due[x] = t.now + delay], x)

(* timer_close with crh_remove.                                            *)
TimerClose(x) ==
    /\ ~Closed(x)
    /\ LET b == Bucket(Base(t), Key(t, x))
           s == [t EXCEPT !.place[x] = NoBucket, !.due[x] = 0]
       IN  t' = IF \E y \in Timer : s.place[y] = b THEN s ELSE Flip(s, b)

(* A timer becomes due in the ticks up to end, after they have gone round. *)
DueAround(end) ==
    \E x \in Timer : ~Closed(x) /\ t.due[x] \div Keys > t.now \div Keys /\ t.due[x] < end

(* tick_handler with the ticks accumulated since it last ran.              *)
Tick(acc) ==
    /\ t.now + acc <= MaxTick
    /\ LET run == FoldLeft(LAMBDA r, i : Turn(r), [s |-> t, left |-> acc], [i \in 1 .. acc |-> i])
       IN  t' = [run.s EXCEPT !.late = @ \/ DueAround(t.now + acc)]

Next ==
    \/ \E x \in Timer : TimerClose(x) \/ \E delay \in 0 .. MaxDelay : TimerOpen(x, delay)
    \/ \E acc \in 1 .. MaxAcc : Tick(acc)

Spec == Init /\ [][Next]_t

-----------------------------------------------------------------------------
(* However many ticks an interrupt brings, no timer is passed over or      *)
(* dropped, every open one is where its key and the base put it, so that   *)
(* crh_remove finds it, and the bit maps are those of the occupied         *)
(* buckets; also when the ticks go round.  It ends where one interrupt     *)
(* brings the last number, a timer due behind it and more ticks: there     *)
(* crh_max_step does not see the bucket and the timer is passed over.      *)
CrhSound ==
    ~t.late =>
        /\ \A x \in Timer : ~Closed(x) => /\ t.due[x] > t.now
                                          /\ t.place[x] = Bucket(Base(t), Key(t, x))
        /\ t.heads_bm = {t.place[x] : x \in {x \in Timer : ~Closed(x)}}
        /\ t.bm = {b[1] : b \in t.heads_bm}
        /\ ~t.dropped
=============================================================================
