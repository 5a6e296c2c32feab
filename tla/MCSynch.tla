------------------------------ MODULE MCSynch -------------------------------
(***************************************************************************)
(* Instances of Synch for TLC.                                             *)
(***************************************************************************)
EXTENDS Synch, TLC

CONSTANTS A, B, D, L, C, S

\* One condition, used with one client lock.
MCLockOf == [c \in Cond |-> L]

\* Four threads are enough for two of them to create one each at once.  With
\* the calls of clients that would be too many states, so the fourth page is
\* taken, and tids go beyond 4, only while no client's object is in use.
ClientsIdle ==
  /\ \A s \in Sema \ {IdleStarted} : value[s] = 0 /\ waiters[s] = <<>>
  /\ \A l \in Lock \ {TidLock} : value[l] = 1 /\ waiters[l] = <<>>
  /\ \A t \in Thread : /\ frame[t].lock \in {TidLock, None}
                        /\ frame[t].obj \in AllThreads \cup {None, IdleStarted}

Pages == Cardinality({t \in Thread : status[t] # "none"})

Bounded == (Pages <= 3 /\ nextTid <= 5) \/ ClientsIdle

\* Threads other than the initial one are interchangeable.
Symmetry == Permutations(Thread \ {Main})
=============================================================================
