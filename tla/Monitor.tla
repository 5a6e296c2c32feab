------------------------------ MODULE Monitor -------------------------------
(***************************************************************************)
(* What the locks and condition variables of synch.h promise, with none of *)
(* the machinery that keeps the promise: a lock has at most one owner, a   *)
(* wait releases the lock and joins the queue of the condition in one      *)
(* step, and a signal releases the waiter that has waited longest.         *)
(***************************************************************************)
EXTENDS Sequences

CONSTANTS Thread, Lock, Cond,
          LockOf,              \* the one lock a condition is used with
          None

VARIABLES owner,               \* who has each lock, or None
          queue,               \* who waits for each condition, in order
          resume               \* the lock a signalled thread has yet to take back

vars == <<owner, queue, resume>>

TypeOK ==
  /\ owner \in [Lock -> Thread \cup {None}]
  /\ queue \in [Cond -> Seq(Thread)]
  /\ resume \in [Thread -> Lock \cup {None}]

Waiting(t) == \E c \in Cond : \E i \in DOMAIN queue[c] : queue[c][i] = t

Init ==
  /\ owner = [l \in Lock |-> None]
  /\ queue = [c \in Cond |-> <<>>]
  /\ resume = [t \in Thread |-> None]

\* lock_acquire, lock_try_acquire, or the way back from a wait.  A thread
\* that waits acquires nothing until it is signalled.
Acquire(t, l) ==
  /\ owner[l] = None
  /\ ~Waiting(t) /\ resume[t] \in {None, l}
  /\ owner' = [owner EXCEPT ![l] = t]
  /\ resume' = [resume EXCEPT ![t] = None]
  /\ UNCHANGED queue

\* lock_release
Release(t, l) ==
  /\ owner[l] = t
  /\ ~Waiting(t) /\ resume[t] = None
  /\ owner' = [owner EXCEPT ![l] = None]
  /\ UNCHANGED <<queue, resume>>

\* cond_wait: "Atomically releases LOCK and waits for COND".
Wait(t, c) ==
  /\ owner[LockOf[c]] = t
  /\ ~Waiting(t) /\ resume[t] = None
  /\ owner' = [owner EXCEPT ![LockOf[c]] = None]
  /\ queue' = [queue EXCEPT ![c] = Append(@, t)]
  /\ UNCHANGED resume

\* cond_signal, with somebody waiting, by a thread that has the lock.
Signal(t, c) ==
  /\ owner[LockOf[c]] = t
  /\ ~Waiting(t) /\ resume[t] = None
  /\ queue[c] # <<>>
  /\ queue' = [queue EXCEPT ![c] = Tail(@)]
  /\ resume' = [resume EXCEPT ![Head(queue[c])] = LockOf[c]]
  /\ UNCHANGED owner

Next ==
  \E t \in Thread :
    \/ \E l \in Lock : Acquire(t, l) \/ Release(t, l)
    \/ \E c \in Cond : Wait(t, c) \/ Signal(t, c)

Spec == Init /\ [][Next]_vars
=============================================================================
