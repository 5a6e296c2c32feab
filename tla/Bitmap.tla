------------------------------- MODULE Bitmap ------------------------------
(***************************************************************************)
(* Bitmaps, lib/kernel/bitmap.c: an array of words that stands for a set   *)
(* of numbers below bit_cnt.  A word is the set of its bits that are 1, so *)
(* that OR is the union and so on.  Threads that change one bitmap at once *)
(* are in module Alloc.                                                    *)
(***************************************************************************)
EXTENDS Integers, FiniteSets, FiniteSetsExt, Sequences

CONSTANTS ElemBits,     \* bits of a word
          BitCnts       \* sizes of bitmaps

BitmapAssumption == ElemBits \in Nat \ {0} /\ BitCnts \subseteq Nat

VARIABLES bitCnt, bits, \* struct bitmap
          call          \* the last operation, its arguments and its result

vars == <<bitCnt, bits, call>>

BitmapError == -1
Word        == SUBSET (0 .. ElemBits - 1)
ElemIdx(i)  == i \div ElemBits
BitMask(i)  == {i % ElemBits}
ElemCnt(n)  == (n + ElemBits - 1) \div ElemBits
LastMask(n) == IF n % ElemBits = 0 THEN 0 .. ElemBits - 1 ELSE 0 .. (n % ElemBits) - 1

\* The three instructions and the test.
Mark(b, i)  == [b EXCEPT ![ElemIdx(i)] = @ \cup BitMask(i)]
Reset(b, i) == [b EXCEPT ![ElemIdx(i)] = @ \ BitMask(i)]
Flip(b, i)  == [b EXCEPT ![ElemIdx(i)] = (@ \ BitMask(i)) \cup (BitMask(i) \ @)]
Test(b, i)  == b[ElemIdx(i)] \cap BitMask(i) # {}

Set(b, i, value) == IF value THEN Mark(b, i) ELSE Reset(b, i)
SetMultiple(b, start, cnt, value) ==
  LET f[i \in 0 .. cnt] == IF i = 0 THEN b ELSE Set(f[i - 1], start + i - 1, value)
  IN  f[cnt]

Count(b, start, cnt, value) ==
  Cardinality({i \in start .. start + cnt - 1 : Test(b, i) = value})
Contains(b, start, cnt, value) == \E i \in start .. start + cnt - 1 : Test(b, i) = value
Any(b, start, cnt)  == Contains(b, start, cnt, TRUE)
NoneSet(b, start, cnt) == ~Contains(b, start, cnt, TRUE)
All(b, start, cnt)  == ~Contains(b, start, cnt, FALSE)

\* bitmap_scan() of a bitmap of n bits.
Scan(b, n, start, cnt, value) ==
  LET fits == {i \in start .. n - cnt : ~Contains(b, i, cnt, ~value)}
  IN  IF cnt <= n /\ fits # {} THEN Min(fits) ELSE BitmapError

-----------------------------------------------------------------------------
\* bitmap_create(): the memory is fresh, whatever it holds.
Init == \E n \in BitCnts, memory \in {{}, 0 .. ElemBits - 1} :
  /\ bitCnt = n
  /\ bits = SetMultiple([k \in 0 .. ElemCnt(n) - 1 |-> memory], 0, n, FALSE)
  /\ call = <<"set", 0, n, FALSE>>

Change(start, cnt, value) ==
  /\ bits' = SetMultiple(bits, start, cnt, value)
  /\ call' = <<"set", start, cnt, value>>
  /\ UNCHANGED bitCnt

FlipBit(i) ==
  /\ bits' = Flip(bits, i)
  /\ call' = <<"set", i, 1, ~Test(bits, i)>>
  /\ UNCHANGED bitCnt

ScanAndFlip(start, cnt, value) ==
  LET idx == Scan(bits, bitCnt, start, cnt, value) IN
  /\ bits' = IF idx = BitmapError THEN bits ELSE SetMultiple(bits, idx, cnt, ~value)
  /\ call' = <<"scan", start, cnt, value, idx>>
  /\ UNCHANGED bitCnt

\* bitmap_read() of a file with the words w, of which k can be read.
Read(w, k) ==
  /\ bitCnt > 0
  /\ bits' = [j \in DOMAIN bits |->
                LET word == IF j < k THEN w[j] ELSE bits[j]
                IN  IF j = ElemCnt(bitCnt) - 1 THEN word \cap LastMask(bitCnt) ELSE word]
  /\ call' = <<"read", w, k>>
  /\ UNCHANGED bitCnt

Next ==
  \/ \E start, cnt \in 0 .. bitCnt, value \in BOOLEAN :
       \/ start + cnt <= bitCnt /\ Change(start, cnt, value)
       \/ ScanAndFlip(start, cnt, value)
  \/ \E i \in 0 .. bitCnt - 1 : FlipBit(i)
  \/ \E w \in [DOMAIN bits -> Word], k \in 0 .. ElemCnt(bitCnt) : Read(w, k)

-----------------------------------------------------------------------------
\* The numbers in a bitmap.
Ones(b) == {i \in 0 .. bitCnt - 1 : i % ElemBits \in b[i \div ElemBits]}

\* What the operations answer about a range.
QueriesRight(b) ==
  \A start, cnt \in 0 .. bitCnt : start + cnt <= bitCnt =>
    LET range == start .. start + cnt - 1 IN
    /\ Count(b, start, cnt, TRUE) = Cardinality(range \cap Ones(b))
    /\ Count(b, start, cnt, FALSE) = Cardinality(range \ Ones(b))
    /\ Any(b, start, cnt) <=> range \cap Ones(b) # {}
    /\ NoneSet(b, start, cnt) <=> range \cap Ones(b) = {}
    /\ All(b, start, cnt) <=> range \subseteq Ones(b)

\* A group that a scan finds was there, is changed and was the first; what it
\* does not find is not there.
ScanRight(start, cnt, value, idx) ==
  LET Group(i) == i .. i + cnt - 1
      Fits(i)  == /\ i >= start /\ i + cnt <= bitCnt
                  /\ IF value THEN Group(i) \subseteq Ones(bits)
                              ELSE Group(i) \cap Ones(bits) = {}
  IN  IF idx = BitmapError
      THEN Ones(bits') = Ones(bits) /\ \A i \in 0 .. bitCnt : ~Fits(i)
      ELSE /\ Fits(idx) /\ \A i \in 0 .. idx - 1 : ~Fits(i)
           /\ Ones(bits') = IF value THEN Ones(bits) \ Group(idx)
                                     ELSE Ones(bits) \cup Group(idx)

\* The bitmap is the set of numbers it was given, through every operation, and
\* no bit beyond bit_cnt that a file may hold gets into it.
OperationRight ==
  /\ CASE call'[1] = "set" ->
            LET range == call'[2] .. call'[2] + call'[3] - 1
            IN  Ones(bits') = IF call'[4] THEN Ones(bits) \cup range ELSE Ones(bits) \ range
       [] call'[1] = "scan" -> ScanRight(call'[2], call'[3], call'[4], call'[5])
       [] call'[1] = "read" ->
            /\ Ones(bits') = {i \in 0 .. bitCnt - 1 :
                                IF i \div ElemBits < call'[3]
                                THEN i % ElemBits \in call'[2][i \div ElemBits]
                                ELSE i \in Ones(bits)}
            /\ \A i \in bitCnt .. ElemBits * ElemCnt(bitCnt) - 1 :
                 i % ElemBits \notin bits'[i \div ElemBits]
  /\ QueriesRight(bits')
=============================================================================
