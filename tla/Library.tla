------------------------------ MODULE Library -------------------------------
(***************************************************************************)
(* Routines whose loops and widths are easy to get wrong: 64-bit division  *)
(* on a 32-bit machine (arithmetic.c), heap sort and binary search         *)
(* (stdlib.c), the copies and searches of string.c, and the first loop of  *)
(* timer_calibrate() and the delays of the timer (timer.c).  The state is  *)
(* one call.                                                               *)
(*                                                                         *)
(* A word has W bits, a power of 2, instead of 32, and "64-bit" numbers    *)
(* have 2 * W.  Arrays and memory are functions from 0 or, where the code  *)
(* counts so, sequences.                                                   *)
(***************************************************************************)
EXTENDS Integers, Sequences, SequencesExt

CONSTANTS W, DivCalls,  \* the pairs to divide
          Value, MaxLen, \* what arrays hold, and how many of them
          LoopBits, FirstBit,          \* of timer_calibrate() (32, 10)
          Freq, Denom, Kilo            \* TIMER_FREQ, a denominator, 1000

VARIABLE call           \* an operation and its arguments

B == 2^W                \* b in udiv64()
Trap == -1              \* #DE

-----------------------------------------------------------------------------
\* divl(): the processor traps if the quotient is not a word.
Divl(n, d) == IF d = 0 \/ n \div d >= B THEN Trap ELSE n \div d

\* nlz() of W bits: halves, quarters and so on, as long as they are zero.
RECURSIVE NlzFrom(_, _)
NlzFrom(x, k) ==
  IF k = 0 THEN 0
  ELSE IF x < 2^(W - k) THEN k + NlzFrom((x * 2^k) % B, k \div 2)
                        ELSE NlzFrom(x, k \div 2)
Nlz(x) == NlzFrom(x, W \div 2)

\* Mutant: the quotient of the leading bits is taken as it is.
UDiv64Estimate(n, d) ==
  IF d < B THEN Divl(B * ((n \div B) % d) + (n % B), d) + B * ((n \div B) \div d)
  ELSE IF n < d THEN 0
  ELSE LET s == Nlz(d \div B)
       IN  Divl(n \div 2, (d * 2^s) \div B) \div 2^(W - 1 - s)

UDiv64(n, d) ==
  IF d < B THEN Divl(B * ((n \div B) % d) + (n % B), d) + B * ((n \div B) \div d)
  ELSE IF n < d THEN 0
  ELSE LET s == Nlz(d \div B)
           q == Divl(n \div 2, (d * 2^s) \div B) \div 2^(W - 1 - s)
       IN  IF (n - (q - 1) * d) % (B * B) < d THEN q - 1 ELSE q

Wrap(x, m)  == ((x + m \div 2) % m) - m \div 2   \* a signed number below m
Abs(x)      == IF x >= 0 THEN x ELSE -x
SDiv64(n, d) ==
  LET q == UDiv64(Abs(n), Abs(d))
  IN  Wrap(IF (n < 0) = (d < 0) THEN q ELSE -q, B * B)

\* umod64() and smod64() return 32 bits of the remainder.
UMod64(n, d) == (n - d * UDiv64(n, d)) % B
SMod64(n, d) == Wrap(n - d * SDiv64(n, d), B)

-----------------------------------------------------------------------------
DoSwap(a, i, j) == [a EXCEPT ![i] = a[j], ![j] = a[i]]

\* heapify() of element i, indices from 1.
RECURSIVE Heapify(_, _, _)
Heapify(a, i, cnt) ==
  LET left  == 2 * i
      right == 2 * i + 1
      m     == IF left <= cnt /\ a[left] > a[i] THEN left ELSE i
      max   == IF right <= cnt /\ a[right] > a[m] THEN right ELSE m
  IN  IF max = i THEN a ELSE Heapify(DoSwap(a, i, max), max, cnt)

\* sort(): the heap, and then the largest element to the end, again and again.
SortArray(a) ==
  LET heap == FoldLeft(LAMBDA h, i : Heapify(h, i, Len(a)), a,
                       [k \in 1 .. Len(a) \div 2 |-> Len(a) \div 2 + 1 - k])
  IN  FoldLeft(LAMBDA h, i : Heapify(DoSwap(h, 1, i), 1, i - 1), heap,
               [k \in 1 .. Len(a) - 1 |-> Len(a) + 1 - k])

\* binary_search() between first and last, exclusive; -1 is its null pointer.
RECURSIVE BinarySearch(_, _, _, _)
BinarySearch(key, a, first, last) ==
  LET middle == first + (last - first) \div 2 IN
  IF first >= last THEN -1
  ELSE IF key < a[middle] THEN BinarySearch(key, a, first, middle)
  ELSE IF key > a[middle] THEN BinarySearch(key, a, middle + 1, last)
  ELSE middle

-----------------------------------------------------------------------------
\* memmove(): from the front if DST is below SRC, or else from the back.
Memmove(m, dst, src, size) ==
  LET Copy(x, i) == [x EXCEPT ![dst + i] = x[src + i]]
  IN  FoldLeft(Copy, m, [k \in 1 .. size |-> IF dst < src THEN k - 1 ELSE size - k])

\* Strings end at their first 0.
Strlen(s) == (CHOOSE n \in DOMAIN s : s[n] = 0 /\ \A i \in 1 .. n - 1 : s[i] # 0) - 1
Text(s)   == SubSeq(s, 1, Strlen(s))

\* strlcat(), with the memcpy() and the terminator it writes.
Strlcat(dst, src, size) ==
  LET dst_len == Strlen(dst)
      room    == size - dst_len - 1
      copy    == IF Strlen(src) < room THEN Strlen(src) ELSE room
  IN  IF size > 0 /\ dst_len < size
      THEN [i \in DOMAIN dst |-> IF i \in dst_len + 1 .. dst_len + copy THEN src[i - dst_len]
                                 ELSE IF i = dst_len + copy + 1 THEN 0 ELSE dst[i]]
      ELSE dst

-----------------------------------------------------------------------------
\* too_many_loops() on a machine that does speed loops in one tick.
TooManyLoops(loops, speed) == loops > speed

\* The first loop of timer_calibrate().  Its assertion fails at 0, which is what a word
\* that has lost its last bit holds.  (The second loop tests each lower bit with the
\* highest bit alone, so that it may set bits that are too many together.  It is not
\* modelled, and nothing is claimed of the loops_per_tick that it leaves.)
HighBit(speed) ==
  LET f[k \in FirstBit .. LoopBits] ==
        IF k = LoopBits THEN 0
        ELSE IF TooManyLoops((2 * 2^k) % 2^LoopBits, speed) THEN 2^k ELSE f[k + 1]
  IN  f[FirstBit]

\* real_time_sleep() when there is no whole tick to sleep.
DelayLoops(num, loops_per_tick) ==
  (((loops_per_tick * num) \div Kilo) * Freq) \div (Denom \div Kilo)

-----------------------------------------------------------------------------
Arrays == BoundedSeq(Value, MaxLen)
Buffers == {s \in [1 .. MaxLen -> Value] : \E i \in 1 .. MaxLen : s[i] = 0}

Init ==
  \/ call \in [op : {"divide"}, n : DivCalls, d : DivCalls \ {0}]
  \/ call \in [op : {"sort"}, a : Arrays]
  \/ call \in [op : {"move"}, m : {[i \in 0 .. MaxLen - 1 |-> i]},
               dst : 0 .. MaxLen - 1, src : 0 .. MaxLen - 1, size : 0 .. MaxLen]
     /\ call.dst + call.size <= MaxLen /\ call.src + call.size <= MaxLen
  \/ call \in [op : {"concatenate"}, dst : Buffers, src : Buffers, size : 0 .. MaxLen]
  \/ call \in [op : {"calibrate"}, speed : 2^FirstBit .. 2^LoopBits - 1]
  \/ call \in [op : {"delay"}, num : 0 .. Denom \div Freq - 1,
               loops : 2^FirstBit .. 2^LoopBits - 1]

Next == UNCHANGED call

-----------------------------------------------------------------------------
Quotient(n, d) == (IF (n < 0) = (d < 0) THEN 1 ELSE -1) * (Abs(n) \div Abs(d))

\* The quotient is the whole part and nothing traps; the remainder is right
\* whenever the 32 bits that umod64() and smod64() return can hold it.
DivisionRight(n, d) ==
  LET r  == n % d
      sn == Wrap(n, B * B)
      sd == Wrap(d, B * B)
      sr == sn - sd * Quotient(sn, sd)
  IN  /\ UDiv64(n, d) = n \div d
      /\ SDiv64(sn, sd) = Wrap(Quotient(sn, sd), B * B)
      /\ r < B => UMod64(n, d) = r
      /\ Abs(sr) < B \div 2 => SMod64(sn, sd) = sr

\* A sorted array is the same elements in order, and a search in it finds what is
\* there.
SortRight(a) ==
  LET s == SortArray(a) IN
  /\ \A v \in Value :
       LET i == BinarySearch(v, s, 1, Len(s) + 1) IN
       /\ Len(SelectSeq(s, LAMBDA x : x = v)) = Len(SelectSeq(a, LAMBDA x : x = v))
       /\ IF v \in ToSet(a) THEN s[i] = v ELSE i = -1
  /\ \A i \in 2 .. Len(s) : s[i - 1] <= s[i]

\* Overlapping bytes arrive as they were; a concatenation is cut off at SIZE,
\* terminator included.
CopiesRight(c) ==
  IF c.op = "move"
  THEN Memmove(c.m, c.dst, c.src, c.size) =
         [i \in DOMAIN c.m |-> IF i \in c.dst .. c.dst + c.size - 1
                               THEN c.m[i - c.dst + c.src] ELSE c.m[i]]
  ELSE LET both == Text(c.dst) \o Text(c.src)
           n    == IF Len(both) < c.size THEN Len(both) ELSE c.size - 1
       IN  Text(Strlcat(c.dst, c.src, c.size)) =
             IF Strlen(c.dst) < c.size THEN SubSeq(both, 1, n) ELSE Text(c.dst)

\* The first approximation of loops_per_tick is "the largest power-of-two still less
\* than one timer tick", or a tick as long; on a machine too fast for a word the
\* assertion fails.
HighBitRight(speed) ==
  IF speed >= 2^(LoopBits - 1) THEN HighBit(speed) = 0
  ELSE /\ \E k \in 0 .. LoopBits - 1 : HighBit(speed) = 2^k
       /\ HighBit(speed) <= speed /\ speed < 2 * HighBit(speed)

\* A delay of num / Denom seconds takes no more loops than loops_per_tick says, and
\* fewer by rounding only.
DelayRight(num, loops_per_tick) ==
  LET loops == DelayLoops(num, loops_per_tick)
      exact == loops_per_tick * num * Freq
  IN  loops * Denom <= exact /\ (loops + (Freq * Kilo) \div Denom + 2) * Denom > exact

\* Each routine computes what its comment says.
LibraryRight ==
  CASE call.op = "divide"    -> DivisionRight(call.n, call.d)
    [] call.op = "sort"      -> SortRight(call.a)
    [] call.op = "calibrate" -> HighBitRight(call.speed)
    [] call.op = "delay"     -> DelayRight(call.num, call.loops)
    [] OTHER                 -> CopiesRight(call)
=============================================================================
