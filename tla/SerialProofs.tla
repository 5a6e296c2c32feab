---------------------------- MODULE SerialProofs ----------------------------
(***************************************************************************)
(* The interrupt queues of the serial port and the keyboard, for queues of *)
(* any size and any number of callers: each is a bounded first-in          *)
(* first-out queue, the port's interrupt enable register follows them, and *)
(* a thread that sleeps in intq.c's wait() is one that must and that the   *)
(* next interrupt will find.                                               *)
(*                                                                         *)
(* The first part is about circular buffers, the second about who runs and *)
(* who is named where (SerialInv), the third about callers that hold a     *)
(* lock (SleepInv), and the last about the refinement of module Fifo.      *)
(***************************************************************************)
EXTENDS Serial, SequenceTheorems, TLAPS

Pos == 0 .. BUFSIZE - 1
Queue == {"rx", "tx"}
Slot == Byte \cup {None}

\* The modulo of intq.c is a wrap around.
LEMMA PosMod ==
  ASSUME NEW x \in Int
  PROVE  /\ x \in Pos => x % BUFSIZE = x
         /\ x \in BUFSIZE .. 2 * BUFSIZE - 1 => x % BUFSIZE = x - BUFSIZE
         /\ x \in -BUFSIZE .. -1 => x % BUFSIZE = x + BUFSIZE
<1>1. BUFSIZE \in Nat /\ BUFSIZE >= 2
  BY SerialAssumption
<1> QED
  BY <1>1 DEF Pos

LEMMA NextPosIs ==
  ASSUME NEW p \in Pos
  PROVE  /\ NextPos(p) \in Pos
         /\ NextPos(p) = IF p = BUFSIZE - 1 THEN 0 ELSE p + 1
  BY PosMod, SerialAssumption DEF NextPos, Pos

\* How many bytes there are between two positions, and where the i-th is.
Count(h, t) == IF h >= t THEN h - t ELSE h - t + BUFSIZE
Place(t, i) == IF t + i - 1 < BUFSIZE THEN t + i - 1 ELSE t + i - 1 - BUFSIZE

Held(slots, h, t) == [i \in 1 .. Count(h, t) |-> slots[Place(t, i)]]

\* The contents of module Serial, without the modulo.
LEMMA HeldIs ==
  ASSUME NEW slots, NEW h \in Pos, NEW t \in Pos
  PROVE  [i \in 1 .. (h - t) % BUFSIZE |-> slots[(t + i - 1) % BUFSIZE]]
           = Held(slots, h, t)
<1>1. (h - t) % BUFSIZE = Count(h, t) /\ Count(h, t) \in Pos
  BY PosMod, SerialAssumption DEF Pos, Count
<1>2. \A i \in 1 .. Count(h, t) : (t + i - 1) % BUFSIZE = Place(t, i)
  <2> TAKE i \in 1 .. Count(h, t)
  <2>1. i \in Int /\ i >= 1 /\ i <= BUFSIZE - 1
    BY <1>1, SerialAssumption DEF Pos
  <2>2. t + i - 1 \in Int
    BY <2>1 DEF Pos
  <2>3. (t + i - 1) % BUFSIZE
          = IF t + i - 1 < BUFSIZE THEN t + i - 1 ELSE t + i - 1 - BUFSIZE
    BY <2>1, <2>2, PosMod, SerialAssumption DEF Pos
  <2> QED
    BY <2>3 DEF Place
<1> QED
  BY <1>1, <1>2 DEF Held

LEMMA HeldSeq ==
  ASSUME NEW slots \in [Pos -> Slot], NEW h \in Pos, NEW t \in Pos
  PROVE  /\ Held(slots, h, t) \in Seq(Slot)
         /\ Len(Held(slots, h, t)) = Count(h, t)
         /\ Count(h, t) \in Pos
         /\ \A i \in 1 .. Count(h, t) : /\ Place(t, i) \in Pos
                                        /\ Held(slots, h, t)[i] = slots[Place(t, i)]
<1>1. Count(h, t) \in Pos /\ \A i \in 1 .. Count(h, t) : Place(t, i) \in Pos
  BY SerialAssumption DEF Pos, Count, Place
<1>2. Count(h, t) \in Nat
  BY <1>1, SerialAssumption DEF Pos
<1>3. Held(slots, h, t) \in [1 .. Count(h, t) -> Slot]
  BY <1>1 DEF Held
<1>4. Held(slots, h, t) \in Seq(Slot)
  BY <1>2, <1>3
<1> QED
  BY <1>1, <1>2, <1>3, <1>4 DEF Held

\* intq_putc() appends, and the queue had room.
LEMMA HeldPut ==
  ASSUME NEW slots \in [Pos -> Slot], NEW h \in Pos, NEW t \in Pos, NEW b \in Slot,
         NextPos(h) # t
  PROVE  /\ Held([slots EXCEPT ![h] = b], NextPos(h), t) = Append(Held(slots, h, t), b)
         /\ Len(Held(slots, h, t)) < BUFSIZE - 1
<1> DEFINE after == [slots EXCEPT ![h] = b]
           s == Held(slots, h, t)
           s2 == Held(after, NextPos(h), t)
<1>0. BUFSIZE \in Nat /\ BUFSIZE >= 2
  BY SerialAssumption
<1>1. NextPos(h) \in Pos /\ NextPos(h) = IF h = BUFSIZE - 1 THEN 0 ELSE h + 1
  BY NextPosIs
<1>2. after \in [Pos -> Slot]
  OBVIOUS
<1>3. Count(NextPos(h), t) = Count(h, t) + 1 /\ Count(h, t) < BUFSIZE - 1
  BY <1>0, <1>1 DEF Count, Pos
<1>4. /\ s \in Seq(Slot) /\ Len(s) = Count(h, t) /\ Count(h, t) \in Nat
      /\ \A i \in 1 .. Count(h, t) : s[i] = slots[Place(t, i)]
  <2>1. /\ s \in Seq(Slot) /\ Len(s) = Count(h, t) /\ Count(h, t) \in Pos
        /\ \A i \in 1 .. Count(h, t) : s[i] = slots[Place(t, i)]
    BY HeldSeq, Zenon
  <2> QED
    BY <2>1, <1>0 DEF Pos
<1>5. /\ s2 \in Seq(Slot) /\ Len(s2) = Count(h, t) + 1
      /\ \A i \in 1 .. Count(h, t) + 1 :
           Place(t, i) \in Pos /\ s2[i] = after[Place(t, i)]
  <2>1. /\ s2 \in Seq(Slot) /\ Len(s2) = Count(NextPos(h), t)
        /\ \A i \in 1 .. Count(NextPos(h), t) :
             Place(t, i) \in Pos /\ s2[i] = after[Place(t, i)]
    <3> HIDE DEF after
    <3> QED
      BY HeldSeq, <1>1, <1>2, Zenon
  <2> HIDE DEF s2, after
  <2> QED
    BY <2>1, <1>3
<1>6. \A i \in 1 .. Count(h, t) + 1 : Place(t, i) = h <=> i = Count(h, t) + 1
  BY <1>0, <1>3, <1>4 DEF Place, Count, Pos
<1>7. \A i \in 1 .. Count(h, t) + 1 : s2[i] = Append(s, b)[i]
  <2> TAKE i \in 1 .. Count(h, t) + 1
  <2>1. CASE i = Count(h, t) + 1
    <3>1. s2[i] = b
      <4> HIDE DEF s2
      <4> QED
        BY <2>1, <1>4, <1>5, <1>6
    <3> HIDE DEF s, s2
    <3> QED
      BY <2>1, <3>1, <1>4
  <2>2. CASE i # Count(h, t) + 1
    <3>1. i \in 1 .. Count(h, t)
      BY <2>2, <1>4
    <3> HIDE DEF s, s2
    <3>2. Append(s, b)[i] = s[i]
      BY <3>1, <1>4
    <3> QED
      BY <3>1, <3>2, <2>2, <1>4, <1>5, <1>6
  <2> QED
    BY <2>1, <2>2
<1>8. Append(s, b) \in Seq(Slot) /\ Len(Append(s, b)) = Count(h, t) + 1
  <2> HIDE DEF s
  <2> QED
    BY <1>4
<1>9. s2 = Append(s, b)
  <2> HIDE DEF s, s2
  <2> QED
    BY <1>5, <1>7, <1>8, SeqEqual
<1> QED
  BY <1>3, <1>4, <1>9

\* intq_getc() takes the first.
LEMMA HeldGet ==
  ASSUME NEW slots \in [Pos -> Slot], NEW h \in Pos, NEW t \in Pos, h # t
  PROVE  /\ Held([slots EXCEPT ![t] = None], h, NextPos(t)) = Tail(Held(slots, h, t))
         /\ Held(slots, h, t) # <<>>
<1> DEFINE after == [slots EXCEPT ![t] = None]
           s == Held(slots, h, t)
           s2 == Held(after, h, NextPos(t))
<1>0. BUFSIZE \in Nat /\ BUFSIZE >= 2
  BY SerialAssumption
<1>1. NextPos(t) \in Pos /\ NextPos(t) = IF t = BUFSIZE - 1 THEN 0 ELSE t + 1
  BY NextPosIs
<1>2. after \in [Pos -> Slot]
  BY DEF Slot
<1>3. Count(h, NextPos(t)) = Count(h, t) - 1 /\ Count(h, t) >= 1
  BY <1>0, <1>1 DEF Count, Pos
<1>4. /\ s \in Seq(Slot) /\ Len(s) = Count(h, t) /\ Count(h, t) \in Nat
      /\ Count(h, t) < BUFSIZE
      /\ \A i \in 1 .. Count(h, t) : s[i] = slots[Place(t, i)]
  <2>1. /\ s \in Seq(Slot) /\ Len(s) = Count(h, t) /\ Count(h, t) \in Pos
        /\ \A i \in 1 .. Count(h, t) : s[i] = slots[Place(t, i)]
    BY HeldSeq, Zenon
  <2> QED
    BY <2>1, <1>0 DEF Pos
<1>5. /\ s2 \in Seq(Slot) /\ Len(s2) = Count(h, t) - 1
      /\ \A i \in 1 .. Count(h, t) - 1 :
           Place(NextPos(t), i) \in Pos /\ s2[i] = after[Place(NextPos(t), i)]
  <2>1. /\ s2 \in Seq(Slot) /\ Len(s2) = Count(h, NextPos(t))
        /\ \A i \in 1 .. Count(h, NextPos(t)) :
             Place(NextPos(t), i) \in Pos /\ s2[i] = after[Place(NextPos(t), i)]
    <3> HIDE DEF after
    <3> QED
      BY HeldSeq, <1>1, <1>2, Zenon
  <2> HIDE DEF s2, after
  <2> QED
    BY <2>1, <1>3
<1>6. \A i \in 1 .. Count(h, t) - 1 :
        Place(NextPos(t), i) = Place(t, i + 1) /\ Place(t, i + 1) # t
  BY <1>0, <1>1, <1>3, <1>4 DEF Place, Pos
<1>7. /\ Tail(s) \in Seq(Slot) /\ Len(Tail(s)) = Count(h, t) - 1
      /\ \A i \in 1 .. Count(h, t) - 1 : Tail(s)[i] = s[i + 1]
      /\ s # <<>>
  <2> HIDE DEF s
  <2>1. s # <<>>
    BY <1>3, <1>4
  <2> QED
    BY <2>1, <1>4
<1>8. \A i \in 1 .. Count(h, t) - 1 : s2[i] = Tail(s)[i]
  <2> TAKE i \in 1 .. Count(h, t) - 1
  <2>1. i + 1 \in 1 .. Count(h, t)
    BY <1>4
  <2>2. s2[i] = slots[Place(t, i + 1)]
    BY <1>5, <1>6
  <2> HIDE DEF s, s2
  <2> QED
    BY <2>1, <2>2, <1>4, <1>7
<1>9. s2 = Tail(s)
  <2> HIDE DEF s, s2
  <2> QED
    BY <1>5, <1>7, <1>8, SeqEqual
<1> QED
  BY <1>7, <1>9

-----------------------------------------------------------------------------
\* Who is named as the waiter of a queue sleeps in wait(), and who is on the
\* list of its lock sleeps there, and is on it once.
NamesExact ==
  \A q \in Queue :
    /\ waiter[q] # None => Q(waiter[q]) = q /\ at[waiter[q]] = "wait"
    /\ \A i \in 1 .. Len(lockq[q]) :
         /\ Q(lockq[q][i]) = q /\ at[lockq[q][i]] = "lock"
         /\ \A j \in 1 .. Len(lockq[q]) : lockq[q][i] = lockq[q][j] => i = j

\* A writer has a byte to write as long as it is in serial_putc(), and only
\* writers call with interrupts off.
BytesExact ==
  \A t \in Thread :
    /\ t \in Reader => level[t] = "on"
    /\ at[t] = "code" \/ t \in Reader => byte[t] = None
    /\ at[t] # "code" /\ t \in Writer => byte[t] \in Byte

\* Who runs with interrupts off; and the register is exact then too, unless it
\* is the handler, or a thread that polls.
RegisterInv ==
  /\ handler = "none" <=> off # Handler
  /\ off \in Thread => at[off] = "try"
  /\ off = None \/ (off \in Thread /\ level[off] = "on") =>
       /\ "xmit" \in ier <=> ~Empty("tx")
       /\ "recv" \in ier <=> ~Full("rx")

SerialInv == TypeOK /\ NamesExact /\ BytesExact /\ RegisterInv

-----------------------------------------------------------------------------
\* Readers, writers and the two model values are apart.
LEMMA ThreadsApart ==
  /\ Reader \subseteq Thread /\ Writer \subseteq Thread
  /\ Reader \cap Writer = {} /\ Handler \notin Thread /\ None \notin Thread
  /\ Handler # None /\ None \notin Byte /\ Thread = Reader \cup Writer
  /\ \A t \in Thread : Q(t) \in Queue
BY SerialAssumption DEF Thread, Q, Queue

\* One step for each action; the operators on queues first.
LEMMA TypeStep == TypeOK /\ [Next]_vars => TypeOK'
<1> SUFFICES ASSUME TypeOK, [Next]_vars PROVE TypeOK'
  OBVIOUS
<1> USE ThreadsApart DEF TypeOK, queueVars, waitVars, Queue
<1>0. /\ \A p \in 0 .. BUFSIZE - 1 : NextPos(p) \in 0 .. BUFSIZE - 1
  BY NextPosIs DEF Pos
<1>1. ASSUME NEW q \in Queue, Get(q)
      PROVE  /\ buf' \in [Queue -> [0 .. BUFSIZE - 1 -> Byte \cup {None}]]
             /\ head' \in [Queue -> 0 .. BUFSIZE - 1]
             /\ tail' \in [Queue -> 0 .. BUFSIZE - 1]
  BY <1>0, <1>1 DEF Get
<1>2. ASSUME NEW q \in Queue, NEW b \in Byte \cup {None}, Put(q, b)
      PROVE  /\ buf' \in [Queue -> [0 .. BUFSIZE - 1 -> Byte \cup {None}]]
             /\ head' \in [Queue -> 0 .. BUFSIZE - 1]
             /\ tail' \in [Queue -> 0 .. BUFSIZE - 1]
  BY <1>0, <1>2 DEF Put
<1>3. ASSUME NEW q \in Queue, Signal(q), at' = Signalled(q, at)
      PROVE  /\ waiter' \in [Queue -> Thread \cup {None}]
             /\ lock' \in [Queue -> Thread \cup {None}]
             /\ lockq' \in [Queue -> Seq(Thread)]
             /\ at' \in [Thread -> {"code", "try", "wait", "woken", "lock", "lockwoken"}]
  BY <1>3 DEF Signal, Signalled
<1>4. ASSUME WriteIer PROVE ier' \subseteq {"recv", "xmit"}
  BY <1>4 DEF WriteIer
<1>5. ASSUME NEW t \in Thread, NEW b \in Byte \cup {None}, NEW l \in {"on", "off"},
             Call(t, b, l)
      PROVE  TypeOK'
  BY <1>5 DEF Call
<1>6. ASSUME NEW t \in Thread, Transfer(t) PROVE TypeOK'
  <2>1. byte[t] \in Byte \cup {None}
    OBVIOUS
  <2>2. /\ buf' \in [Queue -> [0 .. BUFSIZE - 1 -> Byte \cup {None}]]
        /\ head' \in [Queue -> 0 .. BUFSIZE - 1]
        /\ tail' \in [Queue -> 0 .. BUFSIZE - 1]
    BY <1>6, <2>1, <1>1, <1>2 DEF Transfer
  <2> QED
    BY <1>6, <2>2, <1>4 DEF Transfer
<1>7. ASSUME NEW t \in Thread, PollOut(t) PROVE TypeOK'
  BY <1>7, <1>1, <1>3 DEF PollOut
<1>8. ASSUME NEW t \in Thread, Acquire(t) PROVE TypeOK'
  <2>1. Q(t) \in Queue /\ Append(lockq[Q(t)], t) \in Seq(Thread)
    OBVIOUS
  <2>2. /\ waiter' \in [Queue -> Thread \cup {None}]
        /\ lock' \in [Queue -> Thread \cup {None}]
        /\ lockq' \in [Queue -> Seq(Thread)]
        /\ at' \in [Thread -> {"code", "try", "wait", "woken", "lock", "lockwoken"}]
    <3>1. CASE lock[Q(t)] = None
      <4>1. /\ lock' = [lock EXCEPT ![Q(t)] = t] /\ lockq' = lockq
            /\ waiter' = [waiter EXCEPT ![Q(t)] = t]
            /\ at' = [at EXCEPT ![t] = "wait"]
        BY <1>8, <3>1, Zenon DEF Acquire, Wait
      <4> QED
        BY <4>1, <2>1
    <3>2. CASE lock[Q(t)] # None
      <4>1. /\ lockq' = [lockq EXCEPT ![Q(t)] = Append(@, t)]
            /\ at' = [at EXCEPT ![t] = "lock"] /\ UNCHANGED <<lock, waiter>>
        BY <1>8, <3>2 DEF Acquire
      <4>2. lockq' \in [Queue -> Seq(Thread)]
        BY <2>1, <4>1
      <4> QED
        BY <4>1, <4>2
    <3> QED
      BY <3>1, <3>2
  <2>3. lock[Q(t)] = None => panic' \in BOOLEAN
    <3>1. lock[Q(t)] = None => panic' = ~Blocked(t)
      BY <1>8 DEF Acquire, Wait
    <3>2. CASE Blocked(t)
      BY <3>1, <3>2
    <3>3. CASE ~Blocked(t)
      BY <3>1, <3>3
    <3> QED
      BY <3>2, <3>3
  <2>4. lock[Q(t)] # None => panic' \in BOOLEAN
    BY <1>8 DEF Acquire
  <2>5. panic' \in BOOLEAN
    BY <2>3, <2>4
  <2> QED
    BY <1>8, <2>2, <2>5 DEF Acquire
<1>9. ASSUME NEW t \in Thread, WaitDone(t) PROVE TypeOK'
  <2> DEFINE q == Q(t)
  <2>1. q \in Queue /\ lockq[q] \in Seq(Thread)
    OBVIOUS
  <2>2. CASE lockq[q] = <<>>
    BY <1>9, <2>1, <2>2 DEF WaitDone
  <2>3. CASE lockq[q] # <<>>
    <3>1. Head(lockq[q]) \in Thread /\ Tail(lockq[q]) \in Seq(Thread)
      BY <2>1, <2>3
    <3>2. /\ lockq' = [lockq EXCEPT ![q] = Tail(@)]
          /\ at' = [at EXCEPT ![t] = "try", ![Head(lockq[q])] = "lockwoken"]
      BY <1>9, <2>3 DEF WaitDone
    <3>3. lockq' \in [Queue -> Seq(Thread)]
      BY <2>1, <3>1, <3>2
    <3>4. at' \in [Thread -> {"code", "try", "wait", "woken", "lock", "lockwoken"}]
      BY <3>1, <3>2
    <3> QED
      BY <1>9, <2>1, <3>3, <3>4 DEF WaitDone
  <2> QED
    BY <2>2, <2>3
<1>10. ASSUME NEW b \in Byte, Receive(b),
              UNCHANGED <<byte, level, off, handler, panic>>
       PROVE  TypeOK'
  BY <1>10, <1>2, <1>3, <1>4 DEF Receive
<1>11. CASE Interrupt
  BY <1>11 DEF Interrupt
<1>12. CASE ReceiveDone
  BY <1>12 DEF ReceiveDone
<1>13. CASE TransmitByte
  BY <1>13, <1>1, <1>3 DEF TransmitByte
<1>14. CASE InterruptDone
  BY <1>14, <1>4 DEF InterruptDone
<1>15. CASE UNCHANGED vars
  BY <1>15 DEF vars
<1>16. ASSUME NEW b \in Byte, Key(b) \/ ReceiveByte(b) PROVE TypeOK'
  BY <1>16, <1>10 DEF Key, ReceiveByte
<1>17. CASE \E t \in Writer, b \in Byte, lvl \in {"on", "off"} : Call(t, b, lvl)
  BY <1>17, <1>5
<1>18. CASE \E t \in Reader : Call(t, None, "on")
  BY <1>18, <1>5
<1>19. CASE \E t \in Thread : Step(t)
  BY <1>19, <1>6, <1>7, <1>8, <1>9 DEF Step
<1> HIDE DEF TypeOK
<1>20. Next \/ UNCHANGED vars
  OBVIOUS
<1> QED
  BY <1>20, <1>11, <1>12, <1>13, <1>14, <1>15, <1>16, <1>17, <1>19, <1>18 DEF Next

\* One thread moves, and it is none of those named.
LEMMA NamesMove ==
  ASSUME TypeOK, NamesExact, NEW t \in Thread, at[t] \notin {"wait", "lock"},
         \A x \in Thread : x # t => at'[x] = at[x], waiter' = waiter, lockq' = lockq
  PROVE  NamesExact'
<1> SUFFICES ASSUME NEW q \in Queue
             PROVE  /\ waiter[q] # None => Q(waiter[q]) = q /\ at'[waiter[q]] = "wait"
                    /\ \A i \in 1 .. Len(lockq[q]) :
                         /\ Q(lockq[q][i]) = q /\ at'[lockq[q][i]] = "lock"
                         /\ \A j \in 1 .. Len(lockq[q]) :
                              lockq[q][i] = lockq[q][j] => i = j
  BY DEF NamesExact
<1>1. waiter[q] \in Thread \cup {None} /\ lockq[q] \in Seq(Thread)
  BY DEF TypeOK, Queue
<1>2. \A i \in 1 .. Len(lockq[q]) : lockq[q][i] \in Thread
  BY <1>1
<1> QED
  BY <1>1, <1>2 DEF NamesExact

LEMMA NamesSignal ==
  ASSUME TypeOK, NamesExact, NEW q \in Queue, Signal(q), at' = Signalled(q, at)
  PROVE  NamesExact'
<1> SUFFICES ASSUME NEW r \in Queue
             PROVE  /\ waiter'[r] # None => Q(waiter'[r]) = r /\ at'[waiter'[r]] = "wait"
                    /\ \A i \in 1 .. Len(lockq[r]) :
                         /\ Q(lockq[r][i]) = r /\ at'[lockq[r][i]] = "lock"
                         /\ \A j \in 1 .. Len(lockq[r]) :
                              lockq[r][i] = lockq[r][j] => i = j
  BY DEF NamesExact, Signal
<1>1. /\ waiter[r] \in Thread \cup {None} /\ lockq[r] \in Seq(Thread)
      /\ waiter' = [waiter EXCEPT ![q] = None]
      /\ waiter \in [Queue -> Thread \cup {None}]
  BY DEF TypeOK, Queue, Signal
<1>2. \A i \in 1 .. Len(lockq[r]) : lockq[r][i] \in Thread
  BY <1>1
<1>3. \A x \in Thread : at'[x] = at[x] \/ (x = waiter[q] /\ at[x] = "wait")
  BY DEF Signalled, NamesExact, TypeOK
<1> QED
  BY <1>1, <1>2, <1>3 DEF NamesExact

LEMMA NamesAcquire ==
  ASSUME TypeOK, NamesExact, NEW t \in Thread, Acquire(t)
  PROVE  NamesExact'
<1> DEFINE q == Q(t)
<1>0. /\ q \in Queue /\ at[t] \in {"try", "lockwoken"} /\ t # None
      /\ at \in [Thread -> {"code", "try", "wait", "woken", "lock", "lockwoken"}]
      /\ waiter \in [Queue -> Thread \cup {None}]
      /\ lockq \in [Queue -> Seq(Thread)]
  BY ThreadsApart DEF Acquire, TypeOK, Queue
<1>1. CASE lock[q] = None
  <2>1. /\ lockq' = lockq /\ waiter' = [waiter EXCEPT ![q] = t]
        /\ at' = [at EXCEPT ![t] = "wait"]
    BY <1>1, Zenon DEF Acquire, Wait
  <2> SUFFICES ASSUME NEW r \in Queue
             PROVE  /\ waiter'[r] # None => Q(waiter'[r]) = r /\ at'[waiter'[r]] = "wait"
                    /\ \A i \in 1 .. Len(lockq[r]) :
                         /\ Q(lockq[r][i]) = r /\ at'[lockq[r][i]] = "lock"
                         /\ \A j \in 1 .. Len(lockq[r]) :
                              lockq[r][i] = lockq[r][j] => i = j
    BY <2>1 DEF NamesExact
  <2>2. \A i \in 1 .. Len(lockq[r]) : lockq[r][i] \in Thread
    BY <1>0
  <2> QED
    BY <2>1, <2>2, <1>0 DEF NamesExact
<1>2. CASE lock[q] # None
  <2>1. /\ lockq' = [lockq EXCEPT ![q] = Append(@, t)] /\ waiter' = waiter
        /\ at' = [at EXCEPT ![t] = "lock"]
    BY <1>2 DEF Acquire
  <2> SUFFICES ASSUME NEW r \in Queue
             PROVE  /\ waiter[r] # None => Q(waiter[r]) = r /\ at'[waiter[r]] = "wait"
                    /\ \A i \in 1 .. Len(lockq'[r]) :
                         /\ Q(lockq'[r][i]) = r /\ at'[lockq'[r][i]] = "lock"
                         /\ \A j \in 1 .. Len(lockq'[r]) :
                              lockq'[r][i] = lockq'[r][j] => i = j
    BY <2>1 DEF NamesExact
  <2>2. \A i \in 1 .. Len(lockq[r]) :
          lockq[r][i] \in Thread /\ lockq[r][i] # t /\ at'[lockq[r][i]] = "lock"
    BY <1>0, <2>1 DEF NamesExact
  <2>3. waiter[r] # None => waiter[r] # t /\ at'[waiter[r]] = "wait"
    BY <1>0, <2>1 DEF NamesExact
  <2>4. CASE r # q
    BY <2>1, <2>2, <2>3, <2>4, <1>0 DEF NamesExact
  <2>5. CASE r = q
    <3>1. lockq'[r] = Append(lockq[r], t) /\ lockq[r] \in Seq(Thread) /\ at'[t] = "lock"
      BY <2>1, <2>5, <1>0
    <3>2. /\ Len(lockq'[r]) = Len(lockq[r]) + 1 /\ Len(lockq[r]) \in Nat
          /\ lockq'[r][Len(lockq[r]) + 1] = t
          /\ \A i \in 1 .. Len(lockq[r]) : lockq'[r][i] = lockq[r][i]
      BY <3>1
    <3> QED
      BY <3>1, <3>2, <2>2, <2>3, <2>5, <1>0 DEF NamesExact
  <2> QED
    BY <2>4, <2>5
<1> QED
  BY <1>1, <1>2

LEMMA NamesWaitDone ==
  ASSUME TypeOK, NamesExact, NEW t \in Thread, WaitDone(t)
  PROVE  NamesExact'
<1> DEFINE q == Q(t)
<1>0. /\ q \in Queue /\ at[t] = "woken" /\ waiter' = waiter
      /\ at \in [Thread -> {"code", "try", "wait", "woken", "lock", "lockwoken"}]
      /\ waiter \in [Queue -> Thread \cup {None}]
      /\ lockq \in [Queue -> Seq(Thread)]
  BY ThreadsApart DEF WaitDone, TypeOK, Queue
<1>1. CASE lockq[q] = <<>>
  BY <1>0, <1>1, NamesMove DEF WaitDone
<1>2. CASE lockq[q] # <<>>
  <2> DEFINE h == Head(lockq[q])
  <2>1. /\ lockq' = [lockq EXCEPT ![q] = Tail(@)]
        /\ at' = [at EXCEPT ![t] = "try", ![h] = "lockwoken"]
    BY <1>2 DEF WaitDone
  <2>2. /\ h = lockq[q][1] /\ h \in Thread /\ 1 \in 1 .. Len(lockq[q])
        /\ Len(lockq[q]) \in Nat
        /\ Tail(lockq[q]) \in Seq(Thread) /\ Len(Tail(lockq[q])) = Len(lockq[q]) - 1
        /\ \A i \in 1 .. Len(lockq[q]) - 1 : Tail(lockq[q])[i] = lockq[q][i + 1]
    BY <1>0, <1>2
  <2>3. at[h] = "lock" /\ Q(h) = q
    BY <1>0, <2>2 DEF NamesExact
  <2> SUFFICES ASSUME NEW r \in Queue
             PROVE  /\ waiter[r] # None => Q(waiter[r]) = r /\ at'[waiter[r]] = "wait"
                    /\ \A i \in 1 .. Len(lockq'[r]) :
                         /\ Q(lockq'[r][i]) = r /\ at'[lockq'[r][i]] = "lock"
                         /\ \A j \in 1 .. Len(lockq'[r]) :
                              lockq'[r][i] = lockq'[r][j] => i = j
    BY <1>0 DEF NamesExact
  <2> HIDE DEF h
  <2>4. \A x \in Thread : x \notin {t, h} => at'[x] = at[x]
    BY <2>1, <2>2, <1>0
  <2>5. waiter[r] # None => waiter[r] \notin {t, h} /\ waiter[r] \in Thread
    BY <1>0, <2>3 DEF NamesExact
  <2>6. CASE r # q
    <3>1. lockq'[r] = lockq[r]
      BY <2>1, <2>6, <1>0
    <3>2. \A i \in 1 .. Len(lockq[r]) : lockq[r][i] \in Thread
      BY <1>0
    <3>3. \A i \in 1 .. Len(lockq[r]) : lockq[r][i] \notin {t, h}
      BY <3>2, <2>3, <2>6, <1>0 DEF NamesExact
    <3> QED
      BY <3>1, <3>2, <3>3, <2>4, <2>5 DEF NamesExact
  <2>7. CASE r = q
    <3>1. lockq'[r] = Tail(lockq[q])
      BY <2>1, <2>7, <1>0
    <3>2. \A i \in 1 .. Len(lockq[q]) - 1 :
            /\ lockq'[r][i] = lockq[q][i + 1] /\ i + 1 \in 1 .. Len(lockq[q])
            /\ lockq[q][i + 1] \in Thread
            /\ lockq[q][i + 1] \notin {t, h}
      BY <3>1, <2>2, <1>0 DEF NamesExact
    <3> QED
      BY <3>1, <3>2, <2>2, <2>4, <2>5, <2>7, <1>0 DEF NamesExact
  <2> QED
    BY <2>6, <2>7
<1> QED
  BY <1>1, <1>2

LEMMA NamesStep == TypeOK /\ NamesExact /\ [Next]_vars => NamesExact'
<1> SUFFICES ASSUME TypeOK, NamesExact, [Next]_vars PROVE NamesExact'
  OBVIOUS
<1>0. at \in [Thread -> {"code", "try", "wait", "woken", "lock", "lockwoken"}]
  BY DEF TypeOK
<1>1. ASSUME waiter' = waiter, lockq' = lockq, at' = at PROVE NamesExact'
  BY <1>1 DEF NamesExact
<1>2. ASSUME NEW t \in Thread, NEW b, NEW l, Call(t, b, l) PROVE NamesExact'
  BY <1>0, <1>2, NamesMove DEF Call, waitVars
<1>3. ASSUME NEW t \in Thread, Transfer(t) PROVE NamesExact'
  BY <1>0, <1>3, NamesMove DEF Transfer, waitVars
<1>4. ASSUME NEW t \in Thread, Step(t) PROVE NamesExact'
  BY <1>3, <1>4, NamesSignal, NamesAcquire, NamesWaitDone DEF Step, PollOut, Queue
<1>5. ASSUME NEW b \in Byte, Key(b) \/ ReceiveByte(b) PROVE NamesExact'
  BY <1>5, NamesSignal DEF Key, ReceiveByte, Receive, Queue
<1>6. CASE Interrupt \/ ReceiveDone \/ InterruptDone \/ UNCHANGED vars
  BY <1>6, <1>1 DEF Interrupt, ReceiveDone, InterruptDone, vars, waitVars
<1>7. CASE TransmitByte
  BY <1>7, NamesSignal DEF TransmitByte, Queue
<1>8. Next \/ UNCHANGED vars
  OBVIOUS
<1> QED
  BY <1>2, <1>4, <1>5, <1>6, <1>7, <1>8, ThreadsApart DEF Next

\* signal() moves only a thread that is in wait().
LEMMA SignalMoves ==
  ASSUME TypeOK, NamesExact, NEW q \in Queue, at' = Signalled(q, at), NEW t \in Thread
  PROVE  \/ at'[t] = at[t]
         \/ /\ t = waiter[q] /\ Q(t) = q /\ at[t] = "wait" /\ at'[t] = "woken"
BY DEF Signalled, NamesExact, TypeOK

\* The head of the list of a lock sleeps on it.
LEMMA HeadSleeps ==
  ASSUME TypeOK, NamesExact, NEW q \in Queue, lockq[q] # <<>>
  PROVE  Head(lockq[q]) \in Thread /\ at[Head(lockq[q])] = "lock"
<1>1. lockq[q] \in Seq(Thread)
  BY DEF TypeOK, Queue
<1>2. 1 \in 1 .. Len(lockq[q]) /\ Head(lockq[q]) = lockq[q][1]
      /\ Head(lockq[q]) \in Thread
  BY <1>1
<1> QED
  BY <1>2 DEF NamesExact

\* Of the steps of threads, only Transfer changes byte and what "code" means.
LEMMA BytesStep == TypeOK /\ NamesExact /\ BytesExact /\ [Next]_vars => BytesExact'
<1> SUFFICES ASSUME TypeOK, NamesExact, BytesExact, [Next]_vars PROVE BytesExact'
  OBVIOUS
<1>0. /\ at \in [Thread -> {"code", "try", "wait", "woken", "lock", "lockwoken"}]
      /\ byte \in [Thread -> Byte \cup {None}]
      /\ level \in [Thread -> {"on", "off"}]
  BY DEF TypeOK
<1>1. ASSUME byte' = byte, level' = level, \A t \in Thread : at'[t] = "code" <=> at[t] = "code"
      PROVE  BytesExact'
  BY <1>1 DEF BytesExact
<1>2. ASSUME NEW t \in Thread, NEW b \in Byte \cup {None}, NEW l \in {"on", "off"},
             Call(t, b, l), t \in Writer <=> b # None, t \in Reader \/ t \in Writer
      PROVE  BytesExact'
  BY <1>0, <1>2, ThreadsApart DEF Call, BytesExact
<1>3. ASSUME NEW t \in Thread, Transfer(t) PROVE BytesExact'
  BY <1>0, <1>3, ThreadsApart DEF Transfer, BytesExact
<1>4. ASSUME NEW q \in Queue, at' = Signalled(q, at), byte' = byte, level' = level
      PROVE  BytesExact'
  BY <1>4, <1>1, SignalMoves
<1>5. ASSUME NEW t \in Thread, Acquire(t) PROVE BytesExact'
  <2>1. byte' = byte /\ level' = level /\ at[t] # "code"
    BY <1>5 DEF Acquire
  <2>2. at' = [at EXCEPT ![t] = "wait"] \/ at' = [at EXCEPT ![t] = "lock"]
    <3>1. lock[Q(t)] = None => at' = [at EXCEPT ![t] = "wait"]
      BY <1>5, Zenon DEF Acquire, Wait
    <3>2. lock[Q(t)] # None => at' = [at EXCEPT ![t] = "lock"]
      BY <1>5 DEF Acquire
    <3> QED
      BY <3>1, <3>2
  <2> QED
    BY <1>0, <1>1, <2>1, <2>2
<1>6. ASSUME NEW t \in Thread, WaitDone(t) PROVE BytesExact'
  <2>1. Q(t) \in Queue /\ byte' = byte /\ level' = level /\ at[t] = "woken"
    BY <1>6, ThreadsApart DEF WaitDone
  <2>2. CASE lockq[Q(t)] = <<>>
    BY <1>0, <1>1, <1>6, <2>1, <2>2 DEF WaitDone
  <2>3. CASE lockq[Q(t)] # <<>>
    <3>1. at' = [at EXCEPT ![t] = "try", ![Head(lockq[Q(t)])] = "lockwoken"]
      BY <1>6, <2>3 DEF WaitDone
    <3>2. Head(lockq[Q(t)]) \in Thread /\ at[Head(lockq[Q(t)])] = "lock"
      BY <2>1, <2>3, HeadSleeps
    <3> QED
      BY <1>0, <1>1, <2>1, <3>1, <3>2
  <2> QED
    BY <2>2, <2>3
<1>7. ASSUME NEW t \in Thread, Step(t) PROVE BytesExact'
  BY <1>3, <1>4, <1>5, <1>6, <1>7 DEF Step, PollOut, Queue
<1>8. ASSUME NEW b \in Byte, Key(b) \/ ReceiveByte(b) PROVE BytesExact'
  BY <1>8, <1>4 DEF Key, ReceiveByte, Receive, Queue
<1>9. CASE TransmitByte
  BY <1>9, <1>4 DEF TransmitByte, Queue
<1>10. CASE Interrupt \/ ReceiveDone \/ InterruptDone \/ UNCHANGED vars
  BY <1>10, <1>1 DEF Interrupt, ReceiveDone, InterruptDone, vars
<1>11. CASE \E t \in Writer, b \in Byte, lvl \in {"on", "off"} : Call(t, b, lvl)
  BY <1>11, <1>2, ThreadsApart
<1>12. CASE \E t \in Reader : Call(t, None, "on")
  BY <1>12, <1>2, ThreadsApart
<1>13. Next \/ UNCHANGED vars
  OBVIOUS
<1> QED
  BY <1>7, <1>8, <1>9, <1>10, <1>11, <1>12, <1>13 DEF Next

\* The register as the queues have it.
IerRight ==
  /\ "xmit" \in ier <=> ~Empty("tx")
  /\ "recv" \in ier <=> ~Full("rx")

LEMMA WriteRight == WriteIer => IerRight'
BY DEF WriteIer, IerRight, Empty, Full

LEMMA RegisterStep ==
  TypeOK /\ NamesExact /\ RegisterInv /\ [Next]_vars => RegisterInv'
<1> SUFFICES ASSUME TypeOK, NamesExact, RegisterInv, [Next]_vars PROVE RegisterInv'
  OBVIOUS
<1>0. /\ at \in [Thread -> {"code", "try", "wait", "woken", "lock", "lockwoken"}]
      /\ level \in [Thread -> {"on", "off"}] /\ handler \in {"none", "recv", "xmit"}
      /\ (handler = "none" <=> off # Handler)
      /\ off \in Thread => at[off] = "try"
      /\ off = None \/ (off \in Thread /\ level[off] = "on") => IerRight
      /\ Handler # None /\ Handler \notin Thread /\ None \notin Thread
  BY ThreadsApart DEF TypeOK, RegisterInv, IerRight
<1>1. ASSUME handler' = "none" <=> off' # Handler,
             off' \in Thread => at'[off'] = "try",
             off' = None \/ (off' \in Thread /\ level'[off'] = "on") => IerRight'
      PROVE  RegisterInv'
  BY <1>1 DEF RegisterInv, IerRight
<1>2. ASSUME UNCHANGED <<queueVars, ier>> PROVE IerRight' <=> IerRight
  BY <1>2 DEF IerRight, Empty, Full, queueVars
<1>3. ASSUME NEW t \in Thread, NEW b, NEW l, Call(t, b, l) PROVE RegisterInv'
  <2>1. /\ off = None /\ off' = t /\ at'[t] = "try" /\ handler' = handler
        /\ IerRight'
    BY <1>3, <1>0, <1>2 DEF Call, Idle
  <2> QED
    BY <1>0, <1>1, <2>1
<1>4. ASSUME NEW t \in Thread, Transfer(t) PROVE RegisterInv'
  BY <1>4, <1>0, <1>1, WriteRight DEF Transfer
<1>5. ASSUME NEW t \in Thread, PollOut(t) PROVE RegisterInv'
  <2>1. /\ off = t /\ off' = t /\ level'[t] = "off" /\ at[t] = "try"
        /\ handler' = handler
    BY <1>5 DEF PollOut
  <2>2. at'[t] = "try"
    BY <1>5, <2>1, SignalMoves DEF PollOut, Queue
  <2> QED
    BY <1>0, <1>1, <2>1, <2>2
<1>6. ASSUME NEW t \in Thread, Acquire(t) PROVE RegisterInv'
  <2>1. /\ off = None \/ (off \in Thread /\ level[off] = "on")
        /\ off' = None /\ handler' = handler /\ UNCHANGED <<queueVars, ier>>
    BY <1>6 DEF Acquire, Idle
  <2> QED
    BY <1>0, <1>1, <1>2, <2>1
<1>7. ASSUME NEW t \in Thread, WaitDone(t) PROVE RegisterInv'
  <2>1. /\ off = None /\ off' = t /\ handler' = handler /\ UNCHANGED <<queueVars, ier>>
        /\ at[t] = "woken" /\ Q(t) \in Queue
    BY <1>7, ThreadsApart DEF WaitDone, Idle
  <2>2. at'[t] = "try"
    <3>1. CASE lockq[Q(t)] = <<>>
      BY <1>0, <1>7, <3>1 DEF WaitDone
    <3>2. CASE lockq[Q(t)] # <<>>
      <4>1. at' = [at EXCEPT ![t] = "try", ![Head(lockq[Q(t)])] = "lockwoken"]
        BY <1>7, <3>2 DEF WaitDone
      <4>2. Head(lockq[Q(t)]) # t
        BY <2>1, <3>2, HeadSleeps
      <4> QED
        BY <1>0, <4>1, <4>2
    <3> QED
      BY <3>1, <3>2
  <2> QED
    BY <1>0, <1>1, <1>2, <2>1, <2>2
<1>8. ASSUME NEW b \in Byte, Key(b) PROVE RegisterInv'
  BY <1>8, <1>0, <1>1, WriteRight DEF Key, Receive, Idle
<1>9. ASSUME NEW b \in Byte, ReceiveByte(b) PROVE RegisterInv'
  BY <1>9, <1>0, <1>1 DEF ReceiveByte
<1>10. CASE Interrupt
  BY <1>10, <1>0, <1>1 DEF Interrupt, Idle
<1>11. CASE ReceiveDone
  BY <1>11, <1>0, <1>1 DEF ReceiveDone
<1>12. CASE TransmitByte
  BY <1>12, <1>0, <1>1 DEF TransmitByte
<1>13. CASE InterruptDone
  BY <1>13, <1>0, <1>1, WriteRight DEF InterruptDone
<1>14. CASE UNCHANGED vars
  BY <1>14, <1>0, <1>1, <1>2 DEF vars
<1>15. Next \/ UNCHANGED vars
  OBVIOUS
<1> QED
  BY <1>3, <1>4, <1>5, <1>6, <1>7, <1>8, <1>9, <1>10, <1>11, <1>12, <1>13, <1>14,
     <1>15, ThreadsApart
     DEF Next, Step

LEMMA SerialInit == Init => SerialInv
<1> SUFFICES ASSUME Init PROVE SerialInv
  OBVIOUS
<1>1. 0 \in 0 .. BUFSIZE - 1 /\ NextPos(0) # 0
  BY NextPosIs, SerialAssumption DEF Pos
<1>2. TypeOK
  <2>1. <<>> \in Seq(Thread)
    OBVIOUS
  <2>2. lockq \in [{"rx", "tx"} -> Seq(Thread)]
    BY <2>1 DEF Init
  <2>3. /\ buf \in [{"rx", "tx"} -> [0 .. BUFSIZE - 1 -> Byte \cup {None}]]
        /\ head \in [{"rx", "tx"} -> 0 .. BUFSIZE - 1]
        /\ tail \in [{"rx", "tx"} -> 0 .. BUFSIZE - 1]
    BY <1>1 DEF Init
  <2>4. /\ waiter \in [{"rx", "tx"} -> Thread \cup {None}]
        /\ lock \in [{"rx", "tx"} -> Thread \cup {None}]
        /\ at \in [Thread -> {"code", "try", "wait", "woken", "lock", "lockwoken"}]
        /\ byte \in [Thread -> Byte \cup {None}]
        /\ level \in [Thread -> {"on", "off"}]
        /\ off \in Thread \cup {Handler, None}
        /\ handler \in {"none", "recv", "xmit"}
        /\ ier \subseteq {"recv", "xmit"} /\ panic \in BOOLEAN
    BY DEF Init
  <2> QED
    BY <2>2, <2>3, <2>4 DEF TypeOK
<1>3. NamesExact
  BY DEF Init, NamesExact, Queue
<1>4. BytesExact
  BY DEF Init, BytesExact
<1>5. RegisterInv
  <2>1. ~Full("rx") /\ Empty("tx")
    BY <1>1 DEF Init, Empty, Full
  <2>2. off = None /\ handler = "none" /\ ier = {"recv"}
    BY DEF Init
  <2> QED
    BY <2>1, <2>2, ThreadsApart DEF RegisterInv
<1> QED
  BY <1>2, <1>3, <1>4, <1>5 DEF SerialInv

LEMMA SerialStep == SerialInv /\ [Next]_vars => SerialInv'
BY TypeStep, NamesStep, BytesStep, RegisterStep DEF SerialInv

\* The invariant behind the others.
THEOREM SerialCorrect == Spec => []SerialInv
BY SerialInit, SerialStep, PTL DEF Spec

\* Positions stay inside the buffers, and the variables keep their types.
THEOREM SerialTypes == Spec => []TypeOK
<1>1. SerialInv => TypeOK
  BY DEF SerialInv
<1> QED
  BY <1>1, SerialCorrect, PTL

\* With interrupts on, the port may interrupt exactly when it is of use:
\* serial.c calls write_ier() wherever a queue becomes empty, full or neither.
THEOREM RegisterExact == Spec => []IerExact
<1>1. SerialInv => IerExact
  BY DEF SerialInv, RegisterInv, IerExact
<1> QED
  BY <1>1, SerialCorrect, PTL

-----------------------------------------------------------------------------
\* Callers hold a lock: then nobody needs the lock of a queue but who waits,
\* and who waits has it, and is named.
SleepInv ==
  /\ ~panic
  /\ \A q \in Queue :
       /\ lockq[q] = <<>>
       /\ lock[q] # None => Q(lock[q]) = q /\ at[lock[q]] \in {"wait", "woken"}
  /\ \A t \in Thread :
       /\ at[t] \notin {"lock", "lockwoken"}
       /\ at[t] = "try" => off = t
       /\ at[t] \in {"wait", "woken"} => level[t] = "on" /\ lock[Q(t)] = t
       /\ at[t] = "wait" => waiter[Q(t)] = t /\ Blocked(t)
       /\ \A u \in Thread :
            /\ Q(u) = Q(t) /\ at[t] # "code" /\ at[u] # "code"
            /\ level[t] = "on" /\ level[u] = "on"
            => t = u

\* Blocked depends on the queue only.
Stuck(q) == IF q = "rx" THEN Empty("rx") ELSE Full("tx")

LEMMA BlockedIs ==
  /\ \A t \in Thread : Blocked(t) <=> Stuck(Q(t))
  /\ \A t \in Thread : Blocked(t)' <=> Stuck(Q(t))'
BY DEF Blocked, Stuck, Q

LEMMA StuckKept ==
  ASSUME NEW q \in Queue, head'[q] = head[q], tail'[q] = tail[q]
  PROVE  Stuck(q)' <=> Stuck(q)
BY DEF Stuck, Empty, Full, Queue

\* A queue changes, and its waiter, if any, wakes up.
LEMMA SleepSignal ==
  ASSUME SerialInv, SleepInv, NEW q \in Queue,
         \A r \in Queue : r # q => head'[r] = head[r] /\ tail'[r] = tail[r],
         Signal(q), at' = Signalled(q, at),
         UNCHANGED <<level, off, panic>>
  PROVE  SleepInv'
<1>1. \A t \in Thread : Q(t) \in Queue
  BY ThreadsApart
<1>2. \A t \in Thread :
        \/ at'[t] = at[t]
        \/ t = waiter[q] /\ Q(t) = q /\ at[t] = "wait" /\ at'[t] = "woken"
  BY SignalMoves DEF SerialInv
<1>3. \A t \in Thread : at'[t] = "wait" => at[t] = "wait" /\ Q(t) # q
  <2> SUFFICES ASSUME NEW t \in Thread, at'[t] = "wait", Q(t) = q PROVE FALSE
    BY <1>2
  <2>1. waiter[q] = t /\ t # None
    BY <1>2, ThreadsApart DEF SleepInv
  <2> QED
    BY <2>1 DEF Signalled, SerialInv, TypeOK
<1>4. /\ lock' = lock /\ lockq' = lockq
      /\ \A r \in Queue : r # q => waiter'[r] = waiter[r]
  BY DEF Signal, SerialInv, TypeOK, Queue
<1>5. ASSUME NEW t \in Thread, at'[t] = "wait"
      PROVE  waiter'[Q(t)] = t /\ Blocked(t)'
  <2>1. at[t] = "wait" /\ Q(t) # q /\ Q(t) \in Queue
    BY <1>1, <1>3, <1>5
  <2>2. Stuck(Q(t))' <=> Stuck(Q(t))
    BY <2>1, StuckKept
  <2>3. waiter[Q(t)] = t /\ Blocked(t)
    BY <2>1 DEF SleepInv
  <2> QED
    BY <1>4, <2>1, <2>2, <2>3, BlockedIs
<1>6. ASSUME NEW r \in Queue, lock[r] # None
      PROVE  Q(lock[r]) = r /\ at'[lock[r]] \in {"wait", "woken"}
  <2>1. lock[r] \in Thread
    BY <1>6 DEF SerialInv, TypeOK, Queue
  <2> QED
    BY <1>2, <1>6, <2>1 DEF SleepInv
<1> QED
  BY <1>2, <1>4, <1>5, <1>6 DEF SleepInv

\* The queues stay, and nobody starts or stops waiting.
LEMMA SleepMove ==
  ASSUME SerialInv, SleepInv, UNCHANGED <<queueVars, waitVars, at, level, panic>>,
         \A t \in Thread : at[t] = "try" => off' = t
  PROVE  SleepInv'
<1>1. \A t \in Thread : Blocked(t)' <=> Blocked(t)
  BY DEF Blocked, Empty, Full, queueVars
<1> QED
  BY <1>1 DEF SleepInv, queueVars, waitVars

\* A call with interrupts on finds nobody else in the queue.
LEMMA SleepCall ==
  ASSUME Serialised, SerialInv, SleepInv, NEW t \in Thread, NEW b, NEW l, Call(t, b, l)
  PROVE  SleepInv'
<1>0. /\ at \in [Thread -> {"code", "try", "wait", "woken", "lock", "lockwoken"}]
      /\ level \in [Thread -> {"on", "off"}] /\ None \notin Thread
  BY ThreadsApart DEF SerialInv, TypeOK
<1>1. /\ off = None /\ off' = t /\ at[t] = "code"
      /\ at' = [at EXCEPT ![t] = "try"] /\ level' = [level EXCEPT ![t] = l]
      /\ UNCHANGED <<queueVars, waitVars, panic>>
      /\ l = "on" => \A u \in Thread : Q(u) = Q(t) => at[u] = "code"
  BY DEF Call, Idle
<1>2. \A u \in Thread : u # t => at'[u] = at[u] /\ level'[u] = level[u]
  BY <1>0, <1>1
<1>3. at'[t] = "try" /\ level'[t] = l
  BY <1>0, <1>1
<1>4. \A u \in Thread : at[u] # "try"
  BY <1>0, <1>1 DEF SleepInv
<1>5. \A u \in Thread : Blocked(u)' <=> Blocked(u)
  BY <1>1 DEF Blocked, Empty, Full, queueVars
<1>6. lock' = lock /\ lockq' = lockq /\ waiter' = waiter /\ panic' = panic
  BY <1>1 DEF waitVars
<1>7. ASSUME NEW q \in Queue, lock[q] # None
      PROVE  Q(lock[q]) = q /\ at'[lock[q]] \in {"wait", "woken"}
  <2>1. lock[q] \in Thread
    BY <1>7 DEF SerialInv, TypeOK, Queue
  <2> QED
    BY <1>1, <1>2, <1>7, <2>1 DEF SleepInv
<1>8. ASSUME NEW u \in Thread, NEW v \in Thread, Q(v) = Q(u),
             at'[u] # "code", at'[v] # "code", level'[u] = "on", level'[v] = "on"
      PROVE  u = v
  BY <1>1, <1>2, <1>3, <1>8 DEF SleepInv
<1> QED
  BY <1>1, <1>2, <1>3, <1>4, <1>5, <1>6, <1>7, <1>8 DEF SleepInv

\* Who gets through was not blocked, so that nobody slept on this queue.
LEMMA SleepTransfer ==
  ASSUME SerialInv, SleepInv, NEW t \in Thread, Transfer(t)
  PROVE  SleepInv'
<1>0. /\ at \in [Thread -> {"code", "try", "wait", "woken", "lock", "lockwoken"}]
      /\ head \in [Queue -> 0 .. BUFSIZE - 1] /\ tail \in [Queue -> 0 .. BUFSIZE - 1]
  BY DEF SerialInv, TypeOK, Queue
<1>1. /\ off = t /\ at[t] = "try" /\ ~Blocked(t) /\ off' = None
      /\ at' = [at EXCEPT ![t] = "code"]
      /\ UNCHANGED <<waitVars, level, panic>>
  BY DEF Transfer
<1>2. at'[t] = "code" /\ \A u \in Thread : u # t => at'[u] = at[u]
  BY <1>0, <1>1
<1>3. \A u \in Thread : u # t => at[u] # "try"
  BY <1>1 DEF SleepInv
<1>4. \A r \in Queue : r # Q(t) => head'[r] = head[r] /\ tail'[r] = tail[r]
  BY <1>0, ThreadsApart DEF Transfer, Put, Get, Q, Queue
<1>5. ASSUME NEW u \in Thread, at'[u] = "wait"
      PROVE  waiter[Q(u)] = u /\ Blocked(u)'
  <2>1. at[u] = "wait" /\ Q(u) \in Queue
    BY <1>2, <1>5, ThreadsApart
  <2>2. waiter[Q(u)] = u /\ Blocked(u)
    BY <2>1 DEF SleepInv
  <2>3. Q(u) # Q(t)
    BY <1>1, <2>2, BlockedIs
  <2>4. Stuck(Q(u))' <=> Stuck(Q(u))
    BY <1>4, <2>1, <2>3, StuckKept
  <2> QED
    BY <2>2, <2>4, BlockedIs
<1>6. ASSUME NEW q \in Queue, lock[q] # None
      PROVE  Q(lock[q]) = q /\ at'[lock[q]] \in {"wait", "woken"}
  <2>1. lock[q] \in Thread
    BY <1>6 DEF SerialInv, TypeOK, Queue
  <2> QED
    BY <1>1, <1>2, <1>6, <2>1 DEF SleepInv
<1> QED
  BY <1>1, <1>2, <1>3, <1>5, <1>6 DEF SleepInv, waitVars

\* The lock is free for who has to wait, and it has to.
LEMMA SleepAcquire ==
  ASSUME SerialInv, SleepInv, NEW t \in Thread, Acquire(t)
  PROVE  SleepInv'
<1> DEFINE q == Q(t)
<1>0. /\ at \in [Thread -> {"code", "try", "wait", "woken", "lock", "lockwoken"}]
      /\ lock \in [Queue -> Thread \cup {None}] /\ waiter \in [Queue -> Thread \cup {None}]
      /\ q \in Queue /\ None \notin Thread
  BY ThreadsApart DEF SerialInv, TypeOK, Queue
<1>1. /\ off = t /\ at[t] = "try" /\ Blocked(t) /\ level[t] = "on" /\ off' = None
      /\ UNCHANGED <<queueVars, level>>
  BY DEF Acquire, SleepInv
<1>2. lock[q] = None
  <2> SUFFICES ASSUME lock[q] # None PROVE FALSE
    OBVIOUS
  <2>1. /\ lock[q] \in Thread /\ Q(lock[q]) = q /\ at[lock[q]] \in {"wait", "woken"}
    BY <1>0 DEF SleepInv
  <2>2. level[lock[q]] = "on"
    BY <2>1 DEF SleepInv
  <2> QED
    BY <1>1, <2>1, <2>2 DEF SleepInv
<1>3. /\ lockq' = lockq /\ panic' = ~Blocked(t)
      /\ lock' = [lock EXCEPT ![q] = t] /\ waiter' = [waiter EXCEPT ![q] = t]
      /\ at' = [at EXCEPT ![t] = "wait"]
  BY <1>2, Zenon DEF Acquire, Wait
<1>4. ~panic'
  BY <1>1, <1>3
<1>5. \A u \in Thread : Blocked(u)' <=> Blocked(u)
  BY <1>1 DEF Blocked, Empty, Full, queueVars
<1>6. at'[t] = "wait" /\ \A u \in Thread : u # t => at'[u] = at[u]
  BY <1>0, <1>3
<1>7. /\ lock'[q] = t /\ waiter'[q] = t
      /\ \A r \in Queue : r # q => lock'[r] = lock[r] /\ waiter'[r] = waiter[r]
  BY <1>0, <1>3
<1>8. ASSUME NEW u \in Thread, u # t, at[u] \in {"wait", "woken"}
      PROVE  Q(u) \in Queue /\ Q(u) # q
  BY <1>0, <1>2, <1>8, ThreadsApart DEF SleepInv
<1>9. ASSUME NEW r \in Queue, lock'[r] # None
      PROVE  Q(lock'[r]) = r /\ at'[lock'[r]] \in {"wait", "woken"}
  <2>1. CASE r = q
    BY <1>6, <1>7, <2>1
  <2>2. CASE r # q
    BY <1>0, <1>6, <1>7, <1>9, <2>2 DEF SleepInv
  <2> QED
    BY <2>1, <2>2
<1>10. ASSUME NEW u \in Thread
       PROVE  /\ at'[u] \notin {"lock", "lockwoken"} /\ at'[u] # "try"
              /\ at'[u] \in {"wait", "woken"} => level'[u] = "on" /\ lock'[Q(u)] = u
              /\ at'[u] = "wait" => waiter'[Q(u)] = u /\ Blocked(u)'
  <2>1. CASE u = t
    BY <1>1, <1>5, <1>6, <1>7, <2>1
  <2>2. CASE u # t
    BY <1>1, <1>5, <1>6, <1>7, <1>8, <2>2 DEF SleepInv
  <2> QED
    BY <2>1, <2>2
<1>11. ASSUME NEW u \in Thread, NEW v \in Thread, Q(v) = Q(u),
             at'[u] # "code", at'[v] # "code", level'[u] = "on", level'[v] = "on"
       PROVE  u = v
  BY <1>1, <1>6, <1>11 DEF SleepInv
<1> QED
  BY <1>1, <1>3, <1>4, <1>9, <1>10, <1>11 DEF SleepInv

LEMMA SleepWaitDone ==
  ASSUME SerialInv, SleepInv, NEW t \in Thread, WaitDone(t)
  PROVE  SleepInv'
<1> DEFINE q == Q(t)
<1>0. /\ at \in [Thread -> {"code", "try", "wait", "woken", "lock", "lockwoken"}]
      /\ lock \in [Queue -> Thread \cup {None}]
      /\ q \in Queue /\ None \notin Thread /\ lockq[q] = <<>>
  BY ThreadsApart DEF SerialInv, TypeOK, Queue, SleepInv
<1>1. /\ off = None /\ at[t] = "woken" /\ off' = t
      /\ lock' = [lock EXCEPT ![q] = None] /\ lockq' = lockq
      /\ at' = [at EXCEPT ![t] = "try"]
      /\ UNCHANGED <<queueVars, waiter, level, panic>>
  BY <1>0 DEF WaitDone, Idle
<1>2. at'[t] = "try" /\ \A u \in Thread : u # t => at'[u] = at[u] /\ at[u] # "try"
  BY <1>0, <1>1 DEF SleepInv
<1>3. \A u \in Thread : Blocked(u)' <=> Blocked(u)
  BY <1>1 DEF Blocked, Empty, Full, queueVars
<1>4. lock[q] = t
  BY <1>1 DEF SleepInv
<1>5. ASSUME NEW r \in Queue, lock'[r] # None
      PROVE  Q(lock'[r]) = r /\ at'[lock'[r]] \in {"wait", "woken"}
  <2>1. r # q /\ lock'[r] = lock[r] /\ lock[r] \in Thread
    BY <1>0, <1>1, <1>5
  <2>2. Q(lock[r]) = r /\ at[lock[r]] \in {"wait", "woken"}
    BY <1>5, <2>1 DEF SleepInv
  <2>3. lock[r] # t
    BY <2>1, <2>2
  <2> QED
    BY <1>2, <2>1, <2>2, <2>3
<1>6. ASSUME NEW u \in Thread, u # t, at[u] \in {"wait", "woken"}
      PROVE  lock'[Q(u)] = u
  <2>1. Q(u) \in Queue /\ lock[Q(u)] = u
    BY <1>6, ThreadsApart DEF SleepInv
  <2>2. Q(u) # q
    BY <1>4, <1>6, <2>1
  <2> QED
    BY <1>0, <1>1, <2>1, <2>2
<1>7. ASSUME NEW u \in Thread, NEW v \in Thread, Q(v) = Q(u),
             at'[u] # "code", at'[v] # "code", level'[u] = "on", level'[v] = "on"
      PROVE  u = v
  BY <1>1, <1>2, <1>7 DEF SleepInv
<1> QED
  BY <1>1, <1>2, <1>3, <1>5, <1>6, <1>7 DEF SleepInv

LEMMA SleepInit == Init => SleepInv
BY DEF Init, SleepInv, Queue

LEMMA SleepStep == Serialised /\ SerialInv /\ SleepInv /\ [Next]_vars => SleepInv'
<1> SUFFICES ASSUME Serialised, SerialInv, SleepInv, [Next]_vars PROVE SleepInv'
  OBVIOUS
<1>0. /\ head \in [Queue -> 0 .. BUFSIZE - 1] /\ tail \in [Queue -> 0 .. BUFSIZE - 1]
      /\ off = None => \A t \in Thread : at[t] # "try"
      /\ off \notin Thread => \A t \in Thread : at[t] # "try"
      /\ handler # "none" => off = Handler /\ off \notin Thread
  BY ThreadsApart DEF SerialInv, TypeOK, Queue, SleepInv, RegisterInv
<1>1. ASSUME NEW q \in Queue, Get(q)
      PROVE  \A r \in Queue : r # q => head'[r] = head[r] /\ tail'[r] = tail[r]
  BY <1>0, <1>1 DEF Get
<1>2. ASSUME NEW q \in Queue, NEW b, Put(q, b)
      PROVE  \A r \in Queue : r # q => head'[r] = head[r] /\ tail'[r] = tail[r]
  BY <1>0, <1>2 DEF Put
<1>3. ASSUME NEW t \in Thread, PollOut(t) PROVE SleepInv'
  BY <1>1, <1>3, SleepSignal DEF PollOut, Queue
<1>4. ASSUME NEW t \in Thread, Step(t) PROVE SleepInv'
  BY <1>3, <1>4, SleepTransfer, SleepAcquire, SleepWaitDone DEF Step
<1>5. ASSUME NEW b \in Byte, Key(b) \/ ReceiveByte(b) PROVE SleepInv'
  BY <1>2, <1>5, SleepSignal DEF Key, ReceiveByte, Receive, Queue
<1>6. CASE TransmitByte
  BY <1>1, <1>6, SleepSignal DEF TransmitByte, Queue
<1>7. CASE Interrupt \/ ReceiveDone \/ InterruptDone
  <2>1. UNCHANGED <<queueVars, waitVars, at, level, panic>>
    BY <1>7 DEF Interrupt, ReceiveDone, InterruptDone
  <2>2. \A t \in Thread : at[t] # "try"
    BY <1>0, <1>7 DEF Interrupt, Idle, ReceiveDone, InterruptDone
  <2> QED
    BY <2>1, <2>2, SleepMove
<1>8. CASE UNCHANGED vars
  BY <1>8, SleepMove DEF vars, SleepInv
<1>9. ASSUME NEW t \in Thread, NEW b, NEW l, Call(t, b, l) PROVE SleepInv'
  BY <1>9, SleepCall
<1>10. Next \/ UNCHANGED vars
  OBVIOUS
<1> QED
  BY <1>4, <1>5, <1>6, <1>7, <1>8, <1>9, <1>10, ThreadsApart DEF Next

\* As long as callers hold a lock, as console_lock and filesys_lock make them,
\* the ASSERT in wait() holds, and no thread sleeps there that a handler would
\* not wake: it is the one the queue names, and the queue is as it must be.
THEOREM SleepersKept == Serialised => (Spec => []NoSleeperForgotten)
<1>1. Serialised /\ Spec => []SleepInv
  <2> SUFFICES ASSUME Serialised PROVE Spec => []SleepInv
    OBVIOUS
  <2>1. SerialInv /\ SerialInv' /\ SleepInv /\ [Next]_vars => SleepInv'
    BY SleepStep
  <2> QED
    BY <2>1, SleepInit, SerialCorrect, PTL DEF Spec
<1>2. SleepInv => NoSleeperForgotten
  BY DEF SleepInv, NoSleeperForgotten
<1> QED
  BY <1>1, <1>2, PTL

-----------------------------------------------------------------------------
\* What a queue holds, and what happens to it.
LEMMA ContentsIs ==
  ASSUME TypeOK, NEW q \in Queue
  PROVE  /\ buf[q] \in [Pos -> Slot] /\ head[q] \in Pos /\ tail[q] \in Pos
         /\ Contents(q) = Held(buf[q], head[q], tail[q])
<1>1. buf[q] \in [Pos -> Slot] /\ head[q] \in Pos /\ tail[q] \in Pos
  BY DEF TypeOK, Queue, Pos, Slot
<1> QED
  BY <1>1, HeldIs DEF Contents

LEMMA ContentsIsNext ==
  ASSUME TypeOK', NEW q \in Queue
  PROVE  Contents(q)' = Held(buf'[q], head'[q], tail'[q])
<1>1. head'[q] \in Pos /\ tail'[q] \in Pos
  BY DEF TypeOK, Queue, Pos
<1> QED
  BY <1>1, HeldIs DEF Contents

LEMMA ContentsKept ==
  ASSUME TypeOK, TypeOK', NEW q \in Queue,
         buf'[q] = buf[q], head'[q] = head[q], tail'[q] = tail[q]
  PROVE  Contents(q)' = Contents(q)
BY ContentsIs, ContentsIsNext

LEMMA ContentsPut ==
  ASSUME TypeOK, TypeOK', NEW q \in Queue, NEW b \in Slot, ~Full(q), Put(q, b)
  PROVE  /\ Contents(q)' = Append(Contents(q), b)
         /\ Len(Contents(q)) < BUFSIZE - 1
         /\ \A r \in Queue : r # q => Contents(r)' = Contents(r)
<1>1. /\ buf \in [Queue -> [Pos -> Slot]] /\ head \in [Queue -> Pos]
      /\ buf[q] \in [Pos -> Slot] /\ head[q] \in Pos /\ tail[q] \in Pos
  BY DEF TypeOK, Queue, Pos, Slot
<1>2. /\ buf' = [buf EXCEPT ![q][head[q]] = b]
      /\ head' = [head EXCEPT ![q] = NextPos(@)] /\ tail' = tail
      /\ NextPos(head[q]) # tail[q]
  BY DEF Put, Full
<1>3. /\ buf'[q] = [buf[q] EXCEPT ![head[q]] = b]
      /\ head'[q] = NextPos(head[q]) /\ tail'[q] = tail[q]
  BY <1>1, <1>2
<1>4. ASSUME NEW r \in Queue, r # q PROVE Contents(r)' = Contents(r)
  BY <1>1, <1>2, <1>4, ContentsKept
<1>5. /\ Contents(q) = Held(buf[q], head[q], tail[q])
      /\ Contents(q)' = Held(buf'[q], head'[q], tail'[q])
  BY ContentsIs, ContentsIsNext
<1>6. /\ Held([buf[q] EXCEPT ![head[q]] = b], NextPos(head[q]), tail[q])
           = Append(Held(buf[q], head[q], tail[q]), b)
      /\ Len(Held(buf[q], head[q], tail[q])) < BUFSIZE - 1
  BY <1>1, <1>2, HeldPut
<1> QED
  BY <1>3, <1>4, <1>5, <1>6

LEMMA ContentsGet ==
  ASSUME TypeOK, TypeOK', NEW q \in Queue, ~Empty(q), Get(q)
  PROVE  /\ Contents(q)' = Tail(Contents(q)) /\ Contents(q) # <<>>
         /\ \A r \in Queue : r # q => Contents(r)' = Contents(r)
<1>1. /\ buf \in [Queue -> [Pos -> Slot]] /\ tail \in [Queue -> Pos]
      /\ buf[q] \in [Pos -> Slot] /\ head[q] \in Pos /\ tail[q] \in Pos
  BY DEF TypeOK, Queue, Pos, Slot
<1>2. /\ buf' = [buf EXCEPT ![q][tail[q]] = None]
      /\ tail' = [tail EXCEPT ![q] = NextPos(@)] /\ head' = head
      /\ head[q] # tail[q]
  BY DEF Get, Empty
<1>3. /\ buf'[q] = [buf[q] EXCEPT ![tail[q]] = None]
      /\ tail'[q] = NextPos(tail[q]) /\ head'[q] = head[q]
  BY <1>1, <1>2
<1>4. ASSUME NEW r \in Queue, r # q PROVE Contents(r)' = Contents(r)
  BY <1>1, <1>2, <1>4, ContentsKept
<1>5. /\ Contents(q) = Held(buf[q], head[q], tail[q])
      /\ Contents(q)' = Held(buf'[q], head'[q], tail'[q])
  BY ContentsIs, ContentsIsNext
<1>6. /\ Held([buf[q] EXCEPT ![tail[q]] = None], head[q], NextPos(tail[q]))
           = Tail(Held(buf[q], head[q], tail[q]))
      /\ Held(buf[q], head[q], tail[q]) # <<>>
  BY <1>1, <1>2, HeldGet
<1> QED
  BY <1>3, <1>4, <1>5, <1>6

LEMMA FullNotEmpty == ASSUME TypeOK, NEW q \in Queue, Full(q) PROVE ~Empty(q)
<1>1. head[q] \in Pos
  BY DEF TypeOK, Queue, Pos
<1>2. NextPos(head[q]) # head[q]
  BY <1>1, NextPosIs, SerialAssumption DEF Pos
<1> QED
  BY <1>2 DEF Full, Empty

\* The callers of each queue, and what its abstract queue does in a step.
Asks == {t \in Reader : at[t] # "code"}
Offer == [t \in Writer |-> byte[t]]

RxStep == Rx!Next \/ UNCHANGED <<Contents("rx"), <<>>, Asks>>
TxStep == Tx!Next \/ UNCHANGED <<Contents("tx"), Offer, {}>>

\* Neither queue notices.
LEMMA NothingHappens ==
  ASSUME TypeOK, TypeOK', UNCHANGED queueVars, byte' = byte,
         \A t \in Reader : at'[t] = "code" <=> at[t] = "code"
  PROVE  RxStep /\ TxStep
<1>1. Contents("rx")' = Contents("rx") /\ Contents("tx")' = Contents("tx")
  BY ContentsKept DEF queueVars, Queue
<1>2. Asks' = Asks
  BY DEF Asks
<1>3. Offer' = Offer
  BY DEF Offer
<1> QED
  BY <1>1, <1>2, <1>3 DEF RxStep, TxStep

\* A handler puts a byte into the input buffer.
LEMMA ByteArrives ==
  ASSUME TypeOK, TypeOK', NEW b \in Byte, ~Full("rx"), Put("rx", b), byte' = byte,
         \A t \in Reader : at'[t] = "code" <=> at[t] = "code"
  PROVE  RxStep /\ TxStep
<1>1. /\ Contents("rx")' = Append(Contents("rx"), b) /\ Len(Contents("rx")) < BUFSIZE - 1
      /\ Contents("tx")' = Contents("tx")
  BY ContentsPut DEF Queue, Slot
<1>2. Asks' = Asks
  BY DEF Asks
<1>3. Offer' = Offer
  BY DEF Offer
<1>4. Rx!Arrive(b)
  BY <1>1, <1>2 DEF Rx!Arrive, Rx!Put, Asks
<1> QED
  BY <1>1, <1>3, <1>4 DEF RxStep, TxStep, Rx!Next

\* A byte leaves the transmit queue for the port.
LEMMA ByteLeaves ==
  ASSUME TypeOK, TypeOK', ~Empty("tx"), Get("tx"), byte' = byte,
         \A t \in Reader : at'[t] = "code" <=> at[t] = "code"
  PROVE  RxStep /\ TxStep
<1>1. /\ Contents("tx")' = Tail(Contents("tx")) /\ Contents("tx") # <<>>
      /\ Contents("rx")' = Contents("rx")
  BY ContentsGet DEF Queue
<1>2. Asks' = Asks
  BY DEF Asks
<1>3. Offer' = Offer
  BY DEF Offer
<1>4. Tx!Leave
  BY <1>1, <1>3 DEF Tx!Leave, Tx!Get, Offer
<1> QED
  BY <1>1, <1>2, <1>4 DEF RxStep, TxStep, Tx!Next

\* A caller asks, or offers its byte.
LEMMA CallHappens ==
  ASSUME SerialInv, TypeOK', NEW t \in Thread, NEW b, NEW l, Call(t, b, l),
         (t \in Writer /\ b \in Byte) \/ (t \in Reader /\ b = None)
  PROVE  RxStep /\ TxStep
<1>0. /\ at \in [Thread -> {"code", "try", "wait", "woken", "lock", "lockwoken"}]
      /\ byte \in [Thread -> Byte \cup {None}] /\ TypeOK
      /\ Reader \subseteq Thread /\ Writer \subseteq Thread /\ Reader \cap Writer = {}
  BY ThreadsApart DEF SerialInv, TypeOK
<1>1. /\ at[t] = "code" /\ at' = [at EXCEPT ![t] = "try"]
      /\ byte' = [byte EXCEPT ![t] = b] /\ byte[t] = None
      /\ UNCHANGED queueVars
  BY DEF Call, SerialInv, BytesExact
<1>2. Contents("rx")' = Contents("rx") /\ Contents("tx")' = Contents("tx")
  BY <1>0, <1>1, ContentsKept DEF queueVars, Queue
<1>3. CASE t \in Writer
  <2>1. Asks' = Asks
    BY <1>0, <1>1, <1>3 DEF Asks
  <2>2. Offer[t] = None /\ Offer' = [Offer EXCEPT ![t] = b]
    BY <1>0, <1>1, <1>3 DEF Offer
  <2>3. Tx!Offer(t, b)
    BY <1>2, <2>2 DEF Tx!Offer, Offer
  <2>4. b \in Byte
    BY <1>0, <1>3
  <2> QED
    BY <1>2, <1>3, <2>1, <2>3, <2>4 DEF RxStep, TxStep, Tx!Next
<1>4. CASE t \in Reader
  <2>1. b = None
    BY <1>0, <1>4
  <2>2. Offer' = Offer
    BY <1>0, <1>1, <1>4 DEF Offer
  <2>3. t \notin Asks /\ Asks' = Asks \cup {t}
    BY <1>0, <1>1, <1>4 DEF Asks
  <2>4. Rx!Ask(t)
    BY <1>2, <2>3 DEF Rx!Ask, Asks
  <2> QED
    BY <1>2, <1>4, <2>2, <2>4 DEF RxStep, TxStep, Rx!Next
<1> QED
  BY <1>3, <1>4

\* A caller gets its byte, or has put it in.
LEMMA TransferHappens ==
  ASSUME SerialInv, TypeOK', NEW t \in Thread, Transfer(t)
  PROVE  RxStep /\ TxStep
<1>0. /\ at \in [Thread -> {"code", "try", "wait", "woken", "lock", "lockwoken"}]
      /\ byte \in [Thread -> Byte \cup {None}] /\ TypeOK
      /\ Reader \subseteq Thread /\ Writer \subseteq Thread /\ Reader \cap Writer = {}
      /\ Thread = Reader \cup Writer /\ None \notin Byte
  BY ThreadsApart DEF SerialInv, TypeOK
<1>1. /\ at[t] = "try" /\ at' = [at EXCEPT ![t] = "code"]
      /\ byte' = [byte EXCEPT ![t] = None] /\ ~Blocked(t)
  BY DEF Transfer
<1>2. CASE t \in Reader
  <2>1. Get("rx") /\ ~Empty("rx")
    BY <1>1, <1>2 DEF Transfer, Blocked
  <2>2. /\ Contents("rx")' = Tail(Contents("rx")) /\ Contents("rx") # <<>>
        /\ Contents("tx")' = Contents("tx")
    BY <1>0, <2>1, ContentsGet DEF Queue
  <2>3. Offer' = Offer
    BY <1>0, <1>1, <1>2 DEF Offer
  <2>4. t \in Asks /\ Asks' = Asks \ {t}
    BY <1>0, <1>1, <1>2 DEF Asks
  <2>5. Rx!GetAsked(t)
    BY <2>2, <2>4 DEF Rx!GetAsked, Rx!Get, Asks
  <2> QED
    BY <1>2, <2>2, <2>3, <2>5 DEF RxStep, TxStep, Rx!Next
<1>3. CASE t \in Writer
  <2>0. t \notin Reader /\ byte[t] \in Byte
    BY <1>0, <1>1, <1>3 DEF SerialInv, BytesExact
  <2>1. Put("tx", byte[t]) /\ ~Full("tx")
    BY <1>1, <2>0 DEF Transfer, Blocked
  <2>2. /\ Contents("tx")' = Append(Contents("tx"), byte[t])
        /\ Len(Contents("tx")) < BUFSIZE - 1
        /\ Contents("rx")' = Contents("rx")
    BY <1>0, <2>0, <2>1, ContentsPut DEF Queue, Slot
  <2>3. Asks' = Asks
    BY <1>0, <1>1, <2>0 DEF Asks
  <2>4. Offer[t] = byte[t] /\ Offer' = [Offer EXCEPT ![t] = None] /\ byte[t] # None
    BY <1>0, <1>1, <1>3, <2>0 DEF Offer
  <2>5. Tx!PutOffered(t)
    BY <2>2, <2>4 DEF Tx!PutOffered, Tx!Put, Offer
  <2> QED
    BY <1>3, <2>2, <2>3, <2>5 DEF RxStep, TxStep, Tx!Next
<1> QED
  BY <1>0, <1>2, <1>3

LEMMA FifoStep == SerialInv /\ SerialInv' /\ [Next]_vars => RxStep /\ TxStep
<1> SUFFICES ASSUME SerialInv, SerialInv', [Next]_vars PROVE RxStep /\ TxStep
  OBVIOUS
<1>0. /\ TypeOK /\ TypeOK' /\ NamesExact /\ Reader \subseteq Thread
      /\ at \in [Thread -> {"code", "try", "wait", "woken", "lock", "lockwoken"}]
  BY ThreadsApart DEF SerialInv, TypeOK
<1>1. ASSUME NEW q \in Queue, at' = Signalled(q, at)
      PROVE  \A t \in Reader : at'[t] = "code" <=> at[t] = "code"
  BY <1>0, <1>1, SignalMoves
<1>2. ASSUME NEW t \in Thread, PollOut(t) PROVE RxStep /\ TxStep
  <2>1. Blocked(t) /\ level[t] = "off" /\ Get("tx") /\ byte' = byte
        /\ at' = Signalled("tx", at)
    BY <1>2 DEF PollOut
  <2>2. t \notin Reader
    BY <2>1 DEF SerialInv, BytesExact
  <2>3. ~Empty("tx")
    BY <1>0, <2>1, <2>2, FullNotEmpty DEF Blocked, Queue
  <2> QED
    BY <1>0, <1>1, <2>1, <2>3, ByteLeaves DEF Queue
<1>3. ASSUME NEW t \in Thread, Acquire(t) PROVE RxStep /\ TxStep
  <2>1. byte' = byte /\ at[t] # "code" /\ UNCHANGED queueVars
    BY <1>3 DEF Acquire
  <2>2. at' = [at EXCEPT ![t] = "wait"] \/ at' = [at EXCEPT ![t] = "lock"]
    <3>1. lock[Q(t)] = None => at' = [at EXCEPT ![t] = "wait"]
      BY <1>3, Zenon DEF Acquire, Wait
    <3>2. lock[Q(t)] # None => at' = [at EXCEPT ![t] = "lock"]
      BY <1>3 DEF Acquire
    <3> QED
      BY <3>1, <3>2
  <2> QED
    BY <1>0, <2>1, <2>2, NothingHappens
<1>4. ASSUME NEW t \in Thread, WaitDone(t) PROVE RxStep /\ TxStep
  <2>1. Q(t) \in Queue /\ byte' = byte /\ at[t] = "woken" /\ UNCHANGED queueVars
    BY <1>4, ThreadsApart DEF WaitDone
  <2>2. CASE lockq[Q(t)] = <<>>
    <3>1. at' = [at EXCEPT ![t] = "try"]
      BY <1>4, <2>2 DEF WaitDone
    <3> QED
      BY <1>0, <2>1, <3>1, NothingHappens
  <2>3. CASE lockq[Q(t)] # <<>>
    <3>1. at' = [at EXCEPT ![t] = "try", ![Head(lockq[Q(t)])] = "lockwoken"]
      BY <1>4, <2>3 DEF WaitDone
    <3>2. Head(lockq[Q(t)]) \in Thread /\ at[Head(lockq[Q(t)])] = "lock"
      BY <1>0, <2>1, <2>3, HeadSleeps
    <3> QED
      BY <1>0, <2>1, <3>1, <3>2, NothingHappens
  <2> QED
    BY <2>2, <2>3
<1>5. ASSUME NEW t \in Thread, Step(t) PROVE RxStep /\ TxStep
  BY <1>2, <1>3, <1>4, <1>5, TransferHappens, <1>0 DEF Step
<1>6. ASSUME NEW b \in Byte, Key(b) \/ ReceiveByte(b) PROVE RxStep /\ TxStep
  BY <1>0, <1>1, <1>6, ByteArrives DEF Key, ReceiveByte, Receive, Queue
<1>7. CASE TransmitByte
  BY <1>0, <1>1, <1>7, ByteLeaves DEF TransmitByte, Queue
<1>8. CASE Interrupt \/ ReceiveDone \/ InterruptDone \/ UNCHANGED vars
  BY <1>0, <1>8, NothingHappens DEF Interrupt, ReceiveDone, InterruptDone, vars
<1>9. CASE \E t \in Writer, b \in Byte, lvl \in {"on", "off"} : Call(t, b, lvl)
  BY <1>0, <1>9, CallHappens, ThreadsApart
<1>10. CASE \E t \in Reader : Call(t, None, "on")
  BY <1>0, <1>10, CallHappens, ThreadsApart
<1>11. Next \/ UNCHANGED vars
  OBVIOUS
<1> QED
  BY <1>5, <1>6, <1>7, <1>8, <1>9, <1>10, <1>11 DEF Next

LEMMA FifoInit == Init => Rx!Init /\ Tx!Init
<1> SUFFICES ASSUME Init PROVE Rx!Init /\ Tx!Init
  OBVIOUS
<1>1. \A q \in Queue : Contents(q) = <<>>
  <2> TAKE q \in Queue
  <2>1. TypeOK /\ head[q] = 0 /\ tail[q] = 0
    BY SerialInit DEF Init, SerialInv, Queue
  <2>2. Contents(q) = Held(buf[q], 0, 0) /\ buf[q] \in [Pos -> Slot] /\ 0 \in Pos
    BY <2>1, ContentsIs
  <2>3. Held(buf[q], 0, 0) \in Seq(Slot) /\ Len(Held(buf[q], 0, 0)) = 0
    BY <2>2, HeldSeq DEF Count
  <2> QED
    BY <2>2, <2>3, EmptySeq
<1>2. Asks = {}
  BY DEF Asks, Init, Thread
<1>3. Offer = [t \in Writer |-> None]
  BY DEF Offer, Init, Thread
<1>4. <<>> = [p \in {} |-> None]
  OBVIOUS
<1>5. Rx!Init
  BY <1>1, <1>2, <1>4 DEF Rx!Init, Asks, Queue
<1>6. Tx!Init
  BY <1>1, <1>3 DEF Tx!Init, Offer, Queue
<1> QED
  BY <1>5, <1>6

\* Both queues are bounded first-in first-out queues, whoever calls.
THEOREM QueuesFifo == Spec => Fifos
<1>1. SerialInv /\ SerialInv' /\ [Next]_vars => [Rx!Next]_Rx!vars
  BY FifoStep DEF RxStep, Asks, Rx!vars
<1>2. SerialInv /\ SerialInv' /\ [Next]_vars => [Tx!Next]_Tx!vars
  BY FifoStep DEF TxStep, Offer, Tx!vars
<1> QED
  BY <1>1, <1>2, FifoInit, SerialCorrect, PTL DEF Spec, Fifos, Rx!Spec, Tx!Spec
=============================================================================
