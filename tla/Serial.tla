------------------------------- MODULE Serial -------------------------------
(***************************************************************************)
(* The input buffer and the transmit queue of the serial port: the         *)
(* circular queues of devices/intq.c, filled and drained by threads on one *)
(* side and by interrupt handlers on the other, and the interrupt enable   *)
(* register that devices/serial.c derives from them.                       *)
(*                                                                         *)
(* Readers call input_getc(), writers call serial_putc().  Both turn       *)
(* interrupts off, so a step is a stretch of code with interrupts off, and *)
(* off says who runs it; another thread gets in only where one blocks.     *)
(* The handlers never wait, so of the two waiter pointers of a queue only  *)
(* one is ever used: not_empty of rx, not_full of tx.                      *)
(*                                                                         *)
(* The lock in a queue is that of module Synch, cut down to what matters   *)
(* here: its holder, and sleepers that try again when they are woken.      *)
(***************************************************************************)
EXTENDS Integers, Sequences

CONSTANTS Reader,       \* threads that read keys
          Writer,       \* threads that write to the console
          Byte,
          BUFSIZE,      \* INTQ_BUFSIZE
          Serialised,   \* callers of one queue hold a lock: console_lock for
                        \* writers, filesys_lock in sys_read() for readers
          Handler,      \* stands for an interrupt handler in off
          None

ASSUME SerialAssumption ==
  /\ Reader \cap Writer = {} /\ {Handler, None} \cap (Reader \cup Writer) = {}
  /\ Handler # None /\ None \notin Byte
  /\ BUFSIZE \in Nat /\ BUFSIZE >= 2
  /\ Serialised \in BOOLEAN

VARIABLES buf, head, tail, \* the two circular queues, "rx" and "tx"
          waiter,          \* the thread in wait()
          lock, lockq,     \* holder of the lock in each queue, its sleepers
          at,              \* where each thread is
          byte,            \* the byte a writer brings
          level,           \* the interrupt level at which a thread was called
          off,             \* who runs with interrupts off
          handler,         \* where the serial interrupt handler is
          ier,             \* the interrupt enable register
          panic            \* the ASSERT in wait() has failed

queueVars == <<buf, head, tail>>
waitVars  == <<waiter, lock, lockq>>
vars == <<queueVars, waitVars, at, byte, level, off, handler, ier, panic>>

Thread == Reader \cup Writer
Q(t) == IF t \in Reader THEN "rx" ELSE "tx"

\* Mutant: the positions run to BUFSIZE.
NextPosWide(pos) == (pos + 1) % (BUFSIZE + 1)

NextPos(pos) == (pos + 1) % BUFSIZE
Empty(q) == head[q] = tail[q]
\* Mutant: the queue is full only when there is no room at all, as if one
\* position need not stay empty.
FullNever(q) == FALSE

Full(q)  == NextPos(head[q]) = tail[q]
Blocked(t) == IF t \in Reader THEN Empty("rx") ELSE Full("tx")

\* write_ier(), from the state of the queues after the step.
WriteIer ==
  ier' = (IF head'["tx"] # tail'["tx"] THEN {"xmit"} ELSE {})
         \cup (IF NextPos(head'["rx"]) # tail'["rx"] THEN {"recv"} ELSE {})

\* The queue part of intq_putc() and intq_getc().  The model forgets a byte
\* that has been taken out: if the slot were read again, it would show.
Put(q, b) ==
  /\ buf' = [buf EXCEPT ![q][head[q]] = b]
  /\ head' = [head EXCEPT ![q] = NextPos(@)]
  /\ UNCHANGED tail

Get(q) ==
  /\ tail' = [tail EXCEPT ![q] = NextPos(@)]
  /\ buf' = [buf EXCEPT ![q][tail[q]] = None]
  /\ UNCHANGED head

\* Mutant: signal() resets the waiter and wakes nobody.
SignalledNever(q, a) == a

\* at after signal(): the waiter, if any, becomes ready to run.
Signalled(q, a) ==
  IF waiter[q] = None THEN a ELSE [a EXCEPT ![waiter[q]] = "woken"]

Signal(q) == waiter' = [waiter EXCEPT ![q] = None] /\ UNCHANGED <<lock, lockq>>

Idle == ~panic /\ off = None

-----------------------------------------------------------------------------
\* serial_putc (), input_getc (): interrupts go off.  A thread that had them
\* off before, as the output of a panic has, needs no console lock.
Call(t, b, lvl) ==
  /\ Idle /\ at[t] = "code"
  /\ lvl = "off" => t \in Writer
  /\ Serialised /\ lvl = "on" =>
       \A u \in Thread : Q(u) = Q(t) => at[u] = "code"
  /\ off' = t
  /\ at' = [at EXCEPT ![t] = "try"]
  /\ byte' = [byte EXCEPT ![t] = b]
  /\ level' = [level EXCEPT ![t] = lvl]
  /\ UNCHANGED <<queueVars, waitVars, handler, ier, panic>>

\* Mutant: the interrupt enable register is left as it was.
TransferNoIer(t) ==
  /\ off = t /\ at[t] = "try" /\ ~Blocked(t)
  /\ IF t \in Reader THEN Get("rx") ELSE Put("tx", byte[t])
  /\ at' = [at EXCEPT ![t] = "code"]
  /\ byte' = [byte EXCEPT ![t] = None]
  /\ off' = None
  /\ UNCHANGED <<waitVars, level, handler, ier, panic>>

\* The condition holds: the byte goes in or comes out, the interrupt enable
\* register follows, and interrupts go on again.
Transfer(t) ==
  /\ off = t /\ at[t] = "try" /\ ~Blocked(t)
  /\ IF t \in Reader THEN Get("rx") ELSE Put("tx", byte[t])
  /\ WriteIer
  /\ at' = [at EXCEPT ![t] = "code"]
  /\ byte' = [byte EXCEPT ![t] = None]
  /\ off' = None
  /\ UNCHANGED <<waitVars, level, handler, panic>>

\* serial_putc() with interrupts off and a full queue does not wait: it sends
\* the oldest byte by polling.
PollOut(t) ==
  /\ off = t /\ at[t] = "try" /\ Blocked(t) /\ level[t] = "off"
  /\ Get("tx") /\ Signal("tx")
  /\ at' = Signalled("tx", at)
  /\ UNCHANGED <<byte, level, off, handler, ier, panic>>

\* wait(), with the lock taken: its ASSERT, then the thread blocks.
Wait(t) ==
  /\ lock' = [lock EXCEPT ![Q(t)] = t]
  /\ waiter' = [waiter EXCEPT ![Q(t)] = t]
  /\ panic' = ~Blocked(t)
  /\ at' = [at EXCEPT ![t] = "wait"]

\* lock_acquire (&q->lock), when the condition does not hold: from the loop,
\* or from the sleep on the lock.
Acquire(t) ==
  /\ \/ off = t /\ at[t] = "try" /\ Blocked(t) /\ level[t] = "on"
     \/ Idle /\ at[t] = "lockwoken"
  /\ IF lock[Q(t)] = None
     THEN Wait(t) /\ UNCHANGED lockq
     ELSE /\ lockq' = [lockq EXCEPT ![Q(t)] = Append(@, t)]
          /\ at' = [at EXCEPT ![t] = "lock"]
          /\ UNCHANGED <<lock, waiter, panic>>
  /\ off' = None
  /\ UNCHANGED <<queueVars, byte, level, handler, ier>>

\* Back from wait(): lock_release (&q->lock), and the loop tests again.
WaitDone(t) ==
  /\ Idle /\ at[t] = "woken"
  /\ off' = t
  /\ lock' = [lock EXCEPT ![Q(t)] = None]
  /\ IF lockq[Q(t)] = <<>>
     THEN at' = [at EXCEPT ![t] = "try"] /\ UNCHANGED lockq
     ELSE /\ at' = [at EXCEPT ![t] = "try", ![Head(lockq[Q(t)])] = "lockwoken"]
          /\ lockq' = [lockq EXCEPT ![Q(t)] = Tail(@)]
  /\ UNCHANGED <<queueVars, waiter, byte, level, handler, ier, panic>>

-----------------------------------------------------------------------------
\* A received byte goes into the input buffer; input_putc() ends with
\* serial_notify().
Receive(b) ==
  /\ ~Full("rx")
  /\ Put("rx", b) /\ Signal("rx")
  /\ at' = Signalled("rx", at)
  /\ WriteIer

\* keyboard_interrupt(): a key is dropped when the buffer is full.
Key(b) ==
  /\ Idle
  /\ Receive(b)
  /\ UNCHANGED <<byte, level, off, handler, panic>>

\* serial_interrupt(): it comes only if the register enables it, and then
\* receives and transmits as long as there is room and the device has data.
Interrupt ==
  /\ Idle /\ ier # {}
  /\ off' = Handler /\ handler' = "recv"
  /\ UNCHANGED <<queueVars, waitVars, at, byte, level, ier, panic>>

ReceiveByte(b) ==
  /\ handler = "recv"
  /\ Receive(b)
  /\ UNCHANGED <<byte, level, off, handler, panic>>

ReceiveDone ==
  /\ handler = "recv"
  /\ handler' = "xmit"
  /\ UNCHANGED <<queueVars, waitVars, at, byte, level, off, ier, panic>>

TransmitByte ==
  /\ handler = "xmit" /\ ~Empty("tx")
  /\ Get("tx") /\ Signal("tx")
  /\ at' = Signalled("tx", at)
  /\ UNCHANGED <<byte, level, off, handler, ier, panic>>

InterruptDone ==
  /\ handler = "xmit"
  /\ handler' = "none" /\ off' = None
  /\ UNCHANGED <<queueVars, waitVars, at, byte, level, panic>>
  /\ WriteIer

-----------------------------------------------------------------------------
\* serial_init_queue() has been called; both queues are empty.
Init ==
  /\ buf = [q \in {"rx", "tx"} |-> [i \in 0 .. BUFSIZE - 1 |-> None]]
  /\ head = [q \in {"rx", "tx"} |-> 0]
  /\ tail = [q \in {"rx", "tx"} |-> 0]
  /\ waiter = [q \in {"rx", "tx"} |-> None]
  /\ lock = [q \in {"rx", "tx"} |-> None]
  /\ lockq = [q \in {"rx", "tx"} |-> <<>>]
  /\ at = [t \in Thread |-> "code"]
  /\ byte = [t \in Thread |-> None]
  /\ level = [t \in Thread |-> "on"]
  /\ off = None
  /\ handler = "none"
  /\ ier = {"recv"}
  /\ panic = FALSE

Step(t) == Transfer(t) \/ PollOut(t) \/ Acquire(t) \/ WaitDone(t)

Next ==
  \/ \E t \in Writer, b \in Byte, lvl \in {"on", "off"} : Call(t, b, lvl)
  \/ \E t \in Reader : Call(t, None, "on")
  \/ \E t \in Thread : Step(t)
  \/ \E b \in Byte : Key(b) \/ ReceiveByte(b)
  \/ Interrupt \/ ReceiveDone \/ TransmitByte \/ InterruptDone

\* Threads run again and again, a port with bytes to send interrupts as long
\* as it is allowed to, and a transmit interrupt means that it takes a byte.
\* No input need ever arrive.
Fairness ==
  /\ \A t \in Thread : SF_vars(Step(t))
  /\ SF_vars("xmit" \in ier /\ Interrupt)
  /\ WF_vars(ReceiveDone)
  /\ SF_vars(TransmitByte)
  /\ WF_vars(InterruptDone)

Spec == Init /\ [][Next]_vars
FairSpec == Spec /\ Fairness

-----------------------------------------------------------------------------
TypeOK ==
  /\ buf \in [{"rx", "tx"} -> [0 .. BUFSIZE - 1 -> Byte \cup {None}]]
  /\ head \in [{"rx", "tx"} -> 0 .. BUFSIZE - 1]
  /\ tail \in [{"rx", "tx"} -> 0 .. BUFSIZE - 1]
  /\ waiter \in [{"rx", "tx"} -> Thread \cup {None}]
  /\ lock \in [{"rx", "tx"} -> Thread \cup {None}]
  /\ lockq \in [{"rx", "tx"} -> Seq(Thread)]
  /\ at \in [Thread -> {"code", "try", "wait", "woken", "lock", "lockwoken"}]
  /\ byte \in [Thread -> Byte \cup {None}]
  /\ level \in [Thread -> {"on", "off"}]
  /\ off \in Thread \cup {Handler, None}
  /\ handler \in {"none", "recv", "xmit"}
  /\ ier \subseteq {"recv", "xmit"} /\ panic \in BOOLEAN

\* With interrupts on, the port may interrupt exactly when an interrupt is of
\* use: to transmit if there are bytes, to receive if there is room.
IerExact ==
  off = None =>
    /\ "xmit" \in ier <=> ~Empty("tx")
    /\ "recv" \in ier <=> ~Full("rx")

\* A thread asleep in wait() is the one the waiter pointer names, it holds
\* the lock, and the queue is still as it must be for it to sleep; and who
\* enters wait() has reason to (the ASSERT of intq.c:93-94).
NoSleeperForgotten ==
  ~panic /\ \A t \in Thread : at[t] = "wait" =>
    waiter[Q(t)] = t /\ lock[Q(t)] = t /\ Blocked(t)

Contents(q) ==
  [i \in 1 .. (head[q] - tail[q]) % BUFSIZE |->
     buf[q][(tail[q] + i - 1) % BUFSIZE]]

Rx == INSTANCE Fifo WITH
        Capacity <- BUFSIZE - 1, Producer <- {}, Consumer <- Reader,
        queue <- Contents("rx"), offer <- <<>>,
        asks <- {t \in Reader : at[t] # "code"}

Tx == INSTANCE Fifo WITH
        Capacity <- BUFSIZE - 1, Producer <- Writer, Consumer <- {},
        queue <- Contents("tx"), offer <- [t \in Writer |-> byte[t]],
        asks <- {}

\* Both queues are bounded first-in first-out queues: every input_getc() that
\* returns has taken one byte out of the input buffer, every serial_putc() that
\* returns has put its byte into the transmit queue.
Fifos == Rx!Spec /\ Tx!Spec

\* A writer gets its byte into the queue, however full it is, unless others
\* write with interrupts off for ever: those never wait, and take the room.
WriterServed ==
  <>[](\A t \in Writer : at[t] = "code" \/ level[t] = "on")
    => \A t \in Writer : at[t] = "wait" ~> at[t] = "code"

\* A reader that waits gets a byte once there is one.
ReaderServed ==
  \A t \in Reader : (at[t] # "code" /\ ~Empty("rx")) ~> at[t] = "code"

\* Both.
CallersServed == WriterServed /\ ReaderServed
=============================================================================
