-------------------------------- MODULE Fifo --------------------------------
(***************************************************************************)
(* What an interrupt queue promises: bytes leave it in the order in which  *)
(* they entered, it holds at most Capacity of them, a producer that is     *)
(* done has put in exactly the byte it offered, and a consumer that is     *)
(* done has taken out exactly one.  An interrupt handler at either end     *)
(* puts bytes in, or takes them out, as the device likes.                  *)
(***************************************************************************)
EXTENDS Naturals, Sequences

CONSTANTS Byte, Capacity, None,
          Producer,   \* threads that put bytes in; {}: a handler does
          Consumer    \* threads that take bytes out; {}: a handler does

VARIABLES queue,
          offer,      \* the byte each producer has yet to put in, or None
          asks        \* the consumers that have yet to get a byte

vars == <<queue, offer, asks>>

Init ==
  /\ queue = <<>>
  /\ offer = [p \in Producer |-> None]
  /\ asks = {}

Put(b) == Len(queue) < Capacity /\ queue' = Append(queue, b)
Get    == queue # <<>> /\ queue' = Tail(queue)

Offer(p, b) ==
  /\ offer[p] = None
  /\ offer' = [offer EXCEPT ![p] = b]
  /\ UNCHANGED <<queue, asks>>

PutOffered(p) ==
  /\ offer[p] # None
  /\ Put(offer[p])
  /\ offer' = [offer EXCEPT ![p] = None]
  /\ UNCHANGED asks

Arrive(b) == Producer = {} /\ Put(b) /\ UNCHANGED <<offer, asks>>

Ask(c) == c \notin asks /\ asks' = asks \cup {c} /\ UNCHANGED <<queue, offer>>

GetAsked(c) == c \in asks /\ Get /\ asks' = asks \ {c} /\ UNCHANGED offer

Leave == Consumer = {} /\ Get /\ UNCHANGED <<offer, asks>>

Next ==
  \/ \E p \in Producer : PutOffered(p) \/ \E b \in Byte : Offer(p, b)
  \/ \E c \in Consumer : Ask(c) \/ GetAsked(c)
  \/ \E b \in Byte : Arrive(b)
  \/ Leave

Spec == Init /\ [][Next]_vars
=============================================================================
