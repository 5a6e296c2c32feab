----------------------------- MODULE SynchProofs ----------------------------
(***************************************************************************)
(* The scheduler of module Thread and the semaphores, locks and conditions *)
(* of module Synch, for any set of threads, semaphores, locks and          *)
(* conditions.                                                             *)
(*                                                                         *)
(* First, SchedInv is an invariant of the scheduler, for any time slice.   *)
(* It is inductive as it stands.  The three operations that switch threads *)
(* share one argument about Schedule; what appending to and taking the     *)
(* head of a queue without repetitions does to its members is stated once, *)
(* before it.                                                              *)
(*                                                                         *)
(* Last come the conditions.  cond_wait() gets exactly one wakeup: its     *)
(* semaphore_elem is on the list of the condition, or in the hands of one  *)
(* thread in cond_signal() or cond_broadcast(), or its semaphore has been  *)
(* upped, and it is never in two of these places, whatever waits, signals  *)
(* and broadcasts overlap.  SignalInv says this place by place, without    *)
(* counting.                                                               *)
(***************************************************************************)
EXTENDS Synch, FiniteSetTheorems, TLAPS

\* list_push_back adds its element and keeps the others.
LEMMA QueuedAppend ==
  ASSUME NEW S, NEW q \in Seq(S), NEW t \in S, NEW u
  PROVE  Queued(u, Append(q, t)) <=> Queued(u, q) \/ u = t
<1>1. /\ Append(q, t) \in Seq(S) /\ Len(Append(q, t)) = Len(q) + 1
      /\ \A i \in 1 .. Len(q) : Append(q, t)[i] = q[i]
      /\ Append(q, t)[Len(q) + 1] = t
  OBVIOUS
<1>2. DOMAIN q = 1 .. Len(q) /\ DOMAIN Append(q, t) = 1 .. Len(q) + 1
  BY <1>1
<1>3. Len(q) \in Nat
  OBVIOUS
<1> QED
  BY <1>1, <1>2, <1>3 DEF Queued

\* Pushing an element that is not on the list leaves no repetition.
LEMMA DistinctAppend ==
  ASSUME NEW S, NEW q \in Seq(S), NEW t \in S, Distinct(q), ~Queued(t, q)
  PROVE  Distinct(Append(q, t))
<1>1. /\ Append(q, t) \in Seq(S) /\ Len(Append(q, t)) = Len(q) + 1
      /\ \A i \in 1 .. Len(q) : Append(q, t)[i] = q[i]
      /\ Append(q, t)[Len(q) + 1] = t
  OBVIOUS
<1>2. DOMAIN q = 1 .. Len(q) /\ DOMAIN Append(q, t) = 1 .. Len(q) + 1
  BY <1>1
<1>3. Len(q) \in Nat
  OBVIOUS
<1> QED
  BY <1>1, <1>2, <1>3 DEF Queued, Distinct

\* list_pop_front removes its element, and only that one, when no element is
\* on the list twice.
LEMMA QueuedTail ==
  ASSUME NEW S, NEW q \in Seq(S), q # <<>>, Distinct(q)
  PROVE  /\ Tail(q) \in Seq(S) /\ Distinct(Tail(q))
         /\ Head(q) \in S /\ Queued(Head(q), q)
         /\ \A u : Queued(u, Tail(q)) <=> Queued(u, q) /\ u # Head(q)
<1>1. /\ Tail(q) \in Seq(S) /\ Len(Tail(q)) = Len(q) - 1
      /\ \A i \in 1 .. Len(q) - 1 : Tail(q)[i] = q[i + 1]
      /\ Head(q) = q[1] /\ Len(q) \in Nat \ {0} /\ Head(q) \in S
  OBVIOUS
<1>2. DOMAIN q = 1 .. Len(q) /\ DOMAIN Tail(q) = 1 .. Len(q) - 1
  BY <1>1
<1>3. Distinct(Tail(q))
  BY <1>1, <1>2 DEF Distinct
<1>4. Queued(Head(q), q)
  BY <1>1, <1>2 DEF Queued
<1>5. ASSUME NEW u, Queued(u, Tail(q)) PROVE Queued(u, q) /\ u # Head(q)
  BY <1>5, <1>1, <1>2 DEF Queued, Distinct
<1>6. ASSUME NEW u, Queued(u, q), u # Head(q) PROVE Queued(u, Tail(q))
  <2>1. PICK i \in 1 .. Len(q) : q[i] = u
    BY <1>6, <1>2 DEF Queued
  <2>2. i - 1 \in 1 .. Len(q) - 1
    BY <2>1, <1>6, <1>1
  <2>3. Tail(q)[i - 1] = u
    BY <2>1, <2>2, <1>1
  <2> QED
    BY <2>2, <2>3, <1>2 DEF Queued
<1> QED
  BY <1>1, <1>3, <1>4, <1>5, <1>6

-----------------------------------------------------------------------------
\* What a caller of schedule() must have arranged, and what it then gets.
LEMMA ScheduleKeeps ==
  ASSUME SchedTypeOK, IdleReachable,
         NEW st \in [AllThreads -> Statuses], NEW q \in Seq(AllThreads),
         Distinct(q),
         \A t \in AllThreads :
           Queued(t, q) <=> st[t] = "ready" /\ (t = Idle => idleThread = None),
         \A t \in AllThreads : st[t] # "running",
         idleThread = None => st[Idle] = "ready",
         intr' \in [AllThreads -> {"on", "off"}],
         Schedule(st, q)
  PROVE  SchedInv'
<1> DEFINE next == IF q = <<>> THEN idleThread ELSE Head(q)
<1> USE ThreadAssumption DEF AllThreads
<1>1. idleThread \in {None, Idle} /\ Idle \in AllThreads
  BY DEF SchedTypeOK
<1>2. q = <<>> => idleThread = Idle
  BY <1>1 DEF Queued
<1>3. next \in AllThreads
  BY <1>1, <1>2, QueuedTail
<1>4. /\ readyList' \in Seq(AllThreads) /\ Distinct(readyList')
      /\ \A t : Queued(t, readyList') <=> Queued(t, q) /\ t # next
  <2>1. CASE q = <<>>
    BY <2>1 DEF Schedule, Queued, Distinct
  <2>2. CASE q # <<>>
    BY <2>2, QueuedTail DEF Schedule
  <2> QED
    BY <2>1, <2>2
<1>5. /\ current' = next /\ threadTicks' = 0 /\ idleThread' = idleThread
      /\ status' = [t \in AllThreads |->
                      IF t = next THEN "running"
                      ELSE IF st[t] = "dying" /\ t # Main THEN "none"
                      ELSE st[t]]
  BY DEF Schedule
<1>6. status' \in [AllThreads -> Statuses]
  BY <1>5 DEF Statuses
<1>7. SchedTypeOK'
  BY <1>1, <1>3, <1>4, <1>5, <1>6 DEF SchedTypeOK
<1>8. OneRunning'
  BY <1>3, <1>5 DEF OneRunning
<1>9. RunQueueExact'
  BY <1>4, <1>5 DEF RunQueueExact
<1>10. IdleReachable'
  BY <1>1, <1>5 DEF IdleReachable
<1> QED
  BY <1>7, <1>8, <1>9, <1>10 DEF SchedInv

\* thread_block() keeps the scheduler's invariant, if idle is there to run.
LEMMA BlockKeeps ==
  ASSUME SchedInv, ThreadBlock, current = Idle => idleThread = Idle
  PROVE  SchedInv'
<1> DEFINE st == [status EXCEPT ![current] = "blocked"]
<1> USE DEF SchedInv
<1>1. st \in [AllThreads -> Statuses]
  BY DEF SchedTypeOK, Statuses
<1>2. \A t \in AllThreads :
        Queued(t, readyList) <=> st[t] = "ready" /\ (t = Idle => idleThread = None)
  BY DEF SchedTypeOK, RunQueueExact, OneRunning
<1>3. \A t \in AllThreads : st[t] # "running"
  BY DEF SchedTypeOK, OneRunning
<1>4. idleThread = None => st[Idle] = "ready"
  BY ThreadAssumption
     DEF SchedTypeOK, OneRunning, IdleReachable, AllThreads
<1>5. intr' \in [AllThreads -> {"on", "off"}] /\ Schedule(st, readyList)
  BY DEF ThreadBlock, SchedTypeOK
<1>6. readyList \in Seq(AllThreads) /\ Distinct(readyList)
  BY DEF SchedTypeOK, RunQueueExact
<1> HIDE DEF st
<1> QED
  BY <1>1, <1>2, <1>3, <1>4, <1>5, <1>6, ScheduleKeeps

\* thread_yield() keeps it, for idle too, which it does not queue.
LEMMA YieldKeeps ==
  ASSUME SchedInv, ThreadYield
  PROVE  SchedInv'
<1> DEFINE st == [status EXCEPT ![current] = "ready"]
           q  == IF current # idleThread THEN Append(readyList, current)
                                         ELSE readyList
<1> USE DEF SchedInv
<1>1. st \in [AllThreads -> Statuses]
  BY DEF SchedTypeOK, Statuses
<1>2. /\ readyList \in Seq(AllThreads) /\ Distinct(readyList)
      /\ current \in AllThreads /\ ~Queued(current, readyList)
  BY DEF SchedTypeOK, RunQueueExact, OneRunning
<1>3. q \in Seq(AllThreads) /\ Distinct(q)
  BY <1>2, DistinctAppend
<1>4. \A t \in AllThreads :
        Queued(t, q) <=> st[t] = "ready" /\ (t = Idle => idleThread = None)
  <2> SUFFICES ASSUME NEW t \in AllThreads
               PROVE Queued(t, q) <=>
                       st[t] = "ready" /\ (t = Idle => idleThread = None)
    OBVIOUS
  <2>1. Queued(t, q) <=> \/ Queued(t, readyList)
                         \/ current # idleThread /\ t = current
    BY <1>2, QueuedAppend
  <2>2. Queued(t, readyList) <=>
          status[t] = "ready" /\ (t = Idle => idleThread = None)
    BY DEF RunQueueExact
  <2>3. st[t] = IF t = current THEN "ready" ELSE status[t]
    BY DEF SchedTypeOK
  <2>4. status[current] = "running" /\ idleThread \in {None, Idle}
    BY <1>2 DEF OneRunning, SchedTypeOK
  <2> HIDE DEF q, st
  <2> QED
    BY <2>1, <2>2, <2>3, <2>4, <1>2, ThreadAssumption DEF AllThreads
<1>5. \A t \in AllThreads : st[t] # "running"
  BY DEF SchedTypeOK, OneRunning
<1>6. idleThread = None => st[Idle] = "ready"
  BY ThreadAssumption
     DEF SchedTypeOK, OneRunning, IdleReachable, AllThreads
<1>7. intr' \in [AllThreads -> {"on", "off"}] /\ Schedule(st, q)
  BY DEF ThreadYield, SchedTypeOK
<1> HIDE DEF st, q
<1> QED
  BY <1>1, <1>3, <1>4, <1>5, <1>6, <1>7, ScheduleKeeps

\* thread_exit() keeps it, for any thread but idle.
LEMMA ExitKeeps ==
  ASSUME SchedInv, ThreadExit, current # Idle
  PROVE  SchedInv'
<1> DEFINE st == [status EXCEPT ![current] = "dying"]
<1> USE DEF SchedInv
<1>1. st \in [AllThreads -> Statuses]
  BY DEF SchedTypeOK, Statuses
<1>2. \A t \in AllThreads :
        Queued(t, readyList) <=> st[t] = "ready" /\ (t = Idle => idleThread = None)
  BY DEF SchedTypeOK, RunQueueExact, OneRunning
<1>3. \A t \in AllThreads : st[t] # "running"
  BY DEF SchedTypeOK, OneRunning
<1>4. idleThread = None => st[Idle] = "ready"
  BY ThreadAssumption
     DEF SchedTypeOK, OneRunning, IdleReachable, AllThreads
<1>5. intr' \in [AllThreads -> {"on", "off"}] /\ Schedule(st, readyList)
  BY DEF ThreadExit, SchedTypeOK
<1>6. readyList \in Seq(AllThreads) /\ Distinct(readyList)
  BY DEF SchedTypeOK, RunQueueExact
<1> HIDE DEF st
<1> QED
  BY <1>1, <1>2, <1>3, <1>4, <1>5, <1>6, ScheduleKeeps

\* thread_unblock() keeps it, for a blocked thread.
LEMMA UnblockKeeps ==
  ASSUME SchedInv, NEW t \in Thread, status[t] = "blocked", ThreadUnblock(t)
  PROVE  SchedInv'
<1> USE ThreadAssumption DEF SchedInv, AllThreads
<1>1. /\ readyList \in Seq(AllThreads) /\ Distinct(readyList)
      /\ t \in AllThreads /\ ~Queued(t, readyList)
  BY DEF SchedTypeOK, RunQueueExact
<1>2. readyList' \in Seq(AllThreads) /\ Distinct(readyList')
  BY <1>1, DistinctAppend DEF ThreadUnblock
<1>3. \A u : Queued(u, readyList') <=> Queued(u, readyList) \/ u = t
  BY <1>1, QueuedAppend DEF ThreadUnblock
<1>4. SchedTypeOK'
  BY <1>2 DEF SchedTypeOK, ThreadUnblock, Statuses
<1>5. RunQueueExact'
  BY <1>2, <1>3 DEF RunQueueExact, ThreadUnblock, SchedTypeOK
<1>6. OneRunning' /\ IdleReachable'
  BY DEF OneRunning, IdleReachable, ThreadUnblock, SchedTypeOK
<1> QED
  BY <1>4, <1>5, <1>6

\* Every operation of the scheduler keeps its invariant.
THEOREM SchedStep == SchedInv /\ [SchedNext]_schedVars => SchedInv'
<1> SUFFICES ASSUME SchedInv, [SchedNext]_schedVars PROVE SchedInv'
  OBVIOUS
<1> USE ThreadAssumption DEF SchedInv, AllThreads
<1>1. CASE (current = Idle => idleThread = Idle) /\ ThreadBlock
  BY <1>1, BlockKeeps
<1>2. CASE Tick
  <2>1. CASE threadTicks + 1 >= TIME_SLICE
    BY <1>2, <2>1, YieldKeeps DEF Tick
  <2>2. CASE ~(threadTicks + 1 >= TIME_SLICE)
    BY <1>2, <2>2 DEF Tick, SchedTypeOK, RunQueueExact, OneRunning, IdleReachable
  <2> QED
    BY <2>1, <2>2
<1>3. CASE ThreadYield
  BY <1>3, YieldKeeps
<1>4. CASE IntrEnable
  BY <1>4 DEF IntrEnable, SchedTypeOK, RunQueueExact, OneRunning, IdleReachable
<1>5. CASE current = Idle /\ idleThread = None /\ IdleStart
  BY <1>5 DEF IdleStart, SchedTypeOK, RunQueueExact, OneRunning, IdleReachable
<1>6. CASE current # Idle /\ ThreadExit
  BY <1>6, ExitKeeps
<1>7. CASE \E t \in Thread : status[t] = "blocked" /\ ThreadUnblock(t)
  BY <1>7, UnblockKeeps
<1>8. CASE \E t \in Thread : status[t] = "none" /\ InitThread(t)
  BY <1>8 DEF InitThread, SchedTypeOK, RunQueueExact, OneRunning, IdleReachable,
              Statuses
<1>9. CASE UNCHANGED schedVars
  BY <1>9 DEF schedVars, SchedTypeOK, RunQueueExact, OneRunning, IdleReachable
<1> QED
  BY <1>1, <1>2, <1>3, <1>4, <1>5, <1>6, <1>7, <1>8, <1>9 DEF SchedNext

\* The scheduler starts in its invariant.
LEMMA SchedStart == SchedInit => SchedInv
<1> SUFFICES ASSUME SchedInit PROVE SchedInv
  OBVIOUS
<1> USE ThreadAssumption DEF AllThreads, SchedInit
<1>1. DOMAIN readyList = {1} /\ readyList[1] = Idle
  OBVIOUS
<1>2. SchedTypeOK
  BY DEF SchedTypeOK, Statuses
<1>3. RunQueueExact
  BY <1>1 DEF RunQueueExact, Queued, Distinct
<1>4. OneRunning /\ IdleReachable
  BY DEF OneRunning, IdleReachable
<1> QED
  BY <1>2, <1>3, <1>4 DEF SchedInv

\* schedule() never switches to a thread that is not ready, is queued twice
\* or does not exist, whatever its callers do within SchedNext.
THEOREM SchedCorrect == SchedSpec => []SchedInv
  BY SchedStart, SchedStep, PTL DEF SchedSpec

-----------------------------------------------------------------------------
(***************************************************************************)
(* Locks exclude each other, wait lists hold exactly the sleeping threads, *)
(* and synch.c uses the scheduler as module Thread allows.                 *)
(*                                                                         *)
(* These properties of module Synch are not inductive alone: whether a     *)
(* thread may be taken off a wait list depends on where threads are in     *)
(* their calls.  IInv adds what is known of a thread at each of these      *)
(* places.                                                                 *)
(***************************************************************************)

\* What a frame holds at each place.
FrameGood(f) ==
  /\ f.at = "code" => f = Code
  /\ f.at = "sema" => f.obj \in Sema /\ f.lock = None
  /\ f.at \in {"acq", "hold", "rel", "wunhold", "wrel", "wait"} => f.lock \in Lock
  /\ f.at \in {"load", "store", "unhold", "ready"} => f.lock = TidLock
  /\ f.at \in {"wunhold", "wrel", "wait"} => f.lock # TidLock
  /\ f.at \in {"sig", "bsig"} => f.obj \in AllThreads
  /\ f.at \in {"sig", "bsig", "bcast"} => f.lock = None /\ f.cond \in Cond
  /\ f.at \notin {"idleup", "idle"}

\* Frames make sense, only threads that exist are in a call, and idle_thread
\* is null just as long as idle() has not set it.
FrameOK ==
  /\ \A t \in Thread : /\ FrameGood(frame[t])
                       /\ status[t] \in {"none", "dying"} => frame[t] = Code
  /\ frame[Idle].at \in {"code", "idleup", "idle"}
  /\ frame[Idle].at = "code" <=> idleThread = None
  /\ frame[Idle].lock = None

\* A thread in thread_create() makes a thread of its own, which sleeps at the
\* start of its code.
CreatorsOK ==
  /\ \A t \in Thread : frame[t].lock = TidLock =>
       /\ frame[t].obj \in Thread
       /\ status[frame[t].obj] = "blocked" /\ frame[frame[t].obj].at = "code"
  /\ \A t, u \in Thread :
       frame[t].lock = TidLock /\ frame[u].lock = TidLock
         /\ frame[t].obj = frame[u].obj => t = u

\* holder names a thread from the time it has the lock's unit until just
\* before it gives the unit back.
HoldersOK ==
  \A t \in Thread :
    /\ frame[t].at \in {"hold", "rel", "wrel"} => holder[frame[t].lock] = None
    /\ frame[t].at = "wunhold" => holder[frame[t].lock] = t
    /\ frame[t].at \in {"load", "store", "unhold"} => holder[TidLock] = t

IInv == /\ SchedInv /\ TypeOK /\ FrameOK /\ CreatorsOK
        /\ WaitListExact /\ HoldersOK /\ MutualExclusion

-----------------------------------------------------------------------------
\* A switch of threads leaves the others as blocked, or as gone, as they were.
LEMMA SwitchStatus ==
  ASSUME SchedTypeOK, NEW st \in [AllThreads -> Statuses],
         NEW q \in Seq(AllThreads),
         \A t \in Thread : Queued(t, q) => st[t] = "ready",
         Schedule(st, q),
         NEW x \in Thread
  PROVE  /\ status'[x] = "blocked" <=> st[x] = "blocked"
         /\ status'[x] \in {"none", "dying"} <=> st[x] \in {"none", "dying"}
<1> DEFINE next == IF q = <<>> THEN idleThread ELSE Head(q)
<1>1. x = next => st[x] = "ready"
  <2>1. CASE q = <<>>
    BY <2>1, ThreadAssumption DEF SchedTypeOK
  <2>2. CASE q # <<>>
    <3>1. DOMAIN q = 1 .. Len(q) /\ Head(q) = q[1] /\ Len(q) \in Nat \ {0}
      BY <2>2
    <3>2. Queued(Head(q), q)
      BY <3>1 DEF Queued
    <3> QED
      BY <3>2, <2>2
  <2> QED
    BY <2>1, <2>2
<1>2. status'[x] = IF x = next THEN "running"
                   ELSE IF st[x] = "dying" /\ x # Main THEN "none"
                   ELSE st[x]
  BY DEF Schedule, AllThreads
<1> HIDE DEF next
<1> QED
  BY <1>1, <1>2

\* thread_block() blocks the running thread and no other.
LEMMA BlockStatus ==
  ASSUME SchedInv, ThreadBlock, NEW x \in Thread
  PROVE  /\ status'[x] = "blocked" <=> status[x] = "blocked" \/ x = current
         /\ status'[x] \in {"none", "dying"} <=> status[x] \in {"none", "dying"}
<1> DEFINE st == [status EXCEPT ![current] = "blocked"]
<1>1. st \in [AllThreads -> Statuses] /\ Schedule(st, readyList)
      /\ readyList \in Seq(AllThreads) /\ SchedTypeOK
  BY DEF SchedInv, SchedTypeOK, Statuses, ThreadBlock
<1>2. status[current] = "running" /\ current \in AllThreads
  BY DEF SchedInv, SchedTypeOK, OneRunning
<1>3. \A t \in Thread : Queued(t, readyList) => st[t] = "ready"
  BY <1>2 DEF SchedInv, SchedTypeOK, RunQueueExact, AllThreads
<1>4. st[x] = IF x = current THEN "blocked" ELSE status[x]
  BY DEF SchedInv, SchedTypeOK, AllThreads
<1> HIDE DEF st
<1> QED
  BY <1>1, <1>2, <1>3, <1>4, SwitchStatus

\* thread_yield() blocks and ends nobody.
LEMMA YieldStatus ==
  ASSUME SchedInv, ThreadYield, NEW x \in Thread
  PROVE  /\ status'[x] = "blocked" <=> status[x] = "blocked"
         /\ status'[x] \in {"none", "dying"} <=> status[x] \in {"none", "dying"}
<1> DEFINE st == [status EXCEPT ![current] = "ready"]
           q  == IF current # idleThread THEN Append(readyList, current)
                                         ELSE readyList
<1>1. /\ st \in [AllThreads -> Statuses] /\ Schedule(st, q)
      /\ readyList \in Seq(AllThreads) /\ SchedTypeOK
      /\ status[current] = "running" /\ current \in AllThreads
  BY DEF SchedInv, SchedTypeOK, Statuses, ThreadYield, OneRunning
<1>2. q \in Seq(AllThreads)
  BY <1>1
<1>3. \A t \in Thread : Queued(t, q) => Queued(t, readyList) \/ t = current
  BY <1>1, QueuedAppend
<1>4. \A t \in Thread : st[t] = IF t = current THEN "ready" ELSE status[t]
  BY DEF SchedInv, SchedTypeOK, AllThreads
<1>5. \A t \in Thread : Queued(t, readyList) => status[t] = "ready"
  BY DEF SchedInv, RunQueueExact, AllThreads
<1> HIDE DEF st, q
<1>6. \A t \in Thread : Queued(t, q) => st[t] = "ready"
  BY <1>3, <1>4, <1>5
<1> QED
  BY <1>1, <1>2, <1>4, <1>6, SwitchStatus

\* thread_exit() ends the running thread and no other.
LEMMA ExitStatus ==
  ASSUME SchedInv, ThreadExit, NEW x \in Thread
  PROVE  /\ status'[x] = "blocked" <=> status[x] = "blocked"
         /\ status'[x] \in {"none", "dying"} <=>
              status[x] \in {"none", "dying"} \/ x = current
<1> DEFINE st == [status EXCEPT ![current] = "dying"]
<1>1. st \in [AllThreads -> Statuses] /\ Schedule(st, readyList)
      /\ readyList \in Seq(AllThreads) /\ SchedTypeOK
  BY DEF SchedInv, SchedTypeOK, Statuses, ThreadExit
<1>2. status[current] = "running" /\ current \in AllThreads
  BY DEF SchedInv, SchedTypeOK, OneRunning
<1>3. \A t \in Thread : Queued(t, readyList) => st[t] = "ready"
  BY <1>2 DEF SchedInv, SchedTypeOK, RunQueueExact, AllThreads
<1>4. st[x] = IF x = current THEN "dying" ELSE status[x]
  BY DEF SchedInv, SchedTypeOK, AllThreads
<1> HIDE DEF st
<1> QED
  BY <1>1, <1>2, <1>3, <1>4, SwitchStatus

\* A timer tick is a yield or leaves the statuses alone.
LEMMA TickStatus ==
  ASSUME SchedInv, Tick, NEW x \in Thread
  PROVE  /\ status'[x] = "blocked" <=> status[x] = "blocked"
         /\ status'[x] \in {"none", "dying"} <=> status[x] \in {"none", "dying"}
  BY YieldStatus DEF Tick

\* A semaphore's waiters are threads, and each of them sleeps in sema_down().
LEMMA WaiterBlocked ==
  ASSUME IInv, NEW s \in AllSemas, waiters[s] # <<>>
  PROVE  /\ Head(waiters[s]) \in Thread
         /\ status[Head(waiters[s])] = "blocked"
         /\ InDown(Head(waiters[s])) /\ Downs(Head(waiters[s])) = s
<1>1. waiters[s] \in Seq(AllThreads) /\ Distinct(waiters[s])
  BY DEF IInv, TypeOK, WaitListExact
<1>2. Head(waiters[s]) \in AllThreads /\ Queued(Head(waiters[s]), waiters[s])
  BY <1>1, QueuedTail
<1>3. /\ status[Head(waiters[s])] = "blocked"
      /\ InDown(Head(waiters[s])) /\ Downs(Head(waiters[s])) = s
  BY <1>2 DEF IInv, WaitListExact
<1>4. Head(waiters[s]) # Idle
  BY <1>3 DEF IInv, FrameOK, FrameGood, InDown
<1> QED
  BY <1>2, <1>3, <1>4 DEF AllThreads

\* The thread that sema_up() wakes.
Wakes(s, x) == waiters[s] # <<>> /\ x = Head(waiters[s])

\* sema_up() wakes the first waiter and no other.
LEMMA UpStatus ==
  ASSUME IInv, NEW s \in AllSemas, SemaUp(s), NEW x \in Thread
  PROVE  /\ status'[x] = "blocked" <=> status[x] = "blocked" /\ ~Wakes(s, x)
         /\ status'[x] \in {"none", "dying"} <=> status[x] \in {"none", "dying"}
  BY WaiterBlocked
     DEF SemaUp, ThreadUnblock, schedVars, Wakes, IInv, SchedInv, SchedTypeOK,
         AllThreads

\* What sema_up() wakes is blocked, as thread_unblock() asserts.
LEMMA UpSched ==
  ASSUME IInv, NEW s \in AllSemas, SemaUp(s)
  PROVE  [SchedNext]_schedVars
  BY WaiterBlocked DEF SemaUp, SchedNext

-----------------------------------------------------------------------------
\* Every step of Synch is one that SchedNext allows.
LEMMA SchedStepOfNext == IInv /\ [Next]_vars => [SchedNext]_schedVars
<1> SUFFICES ASSUME IInv, Next PROVE [SchedNext]_schedVars
  BY DEF vars
<1> USE ThreadAssumption, SynchAssumption DEF AllSemas
<1>1. ASSUME NEW t \in Thread, Call(t) PROVE [SchedNext]_schedVars
  <2>1. CASE \E s \in Sema : CallSemaUp(t, s)
    BY <2>1, UpSched DEF CallSemaUp
  <2>2. CASE \E u \in Thread : CallThreadCreate(t, u)
    BY <2>2 DEF CallThreadCreate, SchedNext
  <2>3. CASE CallThreadYield(t)
    BY <2>3 DEF CallThreadYield, SchedNext
  <2>4. CASE CallThreadExit(t)
    BY <2>4 DEF CallThreadExit, InCode, SchedNext
  <2>5. CASE UNCHANGED schedVars
    BY <2>5
  <2> QED
    BY <1>1, <2>1, <2>2, <2>3, <2>4, <2>5
       DEF Call, CallSemaDown, SemaTryDown, CallLockAcquire, CallLockTryAcquire,
           CallLockRelease, CallCondWait, CallCondSignal, CallCondBroadcast,
           PopWaiter
<1>2. ASSUME NEW t \in Thread, Finish(t) PROVE [SchedNext]_schedVars
  <2>1. CASE SemaDown(t)
    BY <2>1 DEF SemaDown, SchedNext
  <2>2. CASE LockReleased(t) \/ CondWaitRelease(t) \/ CondSignalUp(t)
    <3>1. frame[t].at \in {"rel", "wrel"} => frame[t].lock \in AllSemas
      BY DEF IInv, FrameOK, FrameGood
    <3>2. frame[t].at \in {"sig", "bsig"} => frame[t].obj \in AllSemas
      BY DEF IInv, FrameOK, FrameGood
    <3> QED
      BY <2>2, <3>1, <3>2, UpSched
         DEF LockReleased, CondWaitRelease, CondSignalUp
  <2>3. CASE ThreadReady(t)
    <3>1. frame[t].obj \in Thread /\ status[frame[t].obj] = "blocked"
      BY <2>3 DEF ThreadReady, IInv, FrameOK, FrameGood, CreatorsOK
    <3> QED
      BY <2>3, <3>1 DEF ThreadReady, SchedNext
  <2>4. CASE UNCHANGED schedVars
    BY <2>4
  <2> QED
    BY <1>2, <2>1, <2>2, <2>3, <2>4
       DEF Finish, LockHold, CondWaitUnhold, CondBroadcastNext, PopWaiter,
           CondBroadcastDone, TidLoad, TidStore, TidUnhold
<1>3. CASE IdleStep
  <2>1. frame[Idle].at = "code" <=> idleThread = None
    BY DEF IInv, FrameOK, FrameGood
  <2>2. idleThread \in {None, Idle}
    BY DEF IInv, SchedInv, SchedTypeOK
  <2> QED
    BY <1>3, <2>1, <2>2, UpSched
       DEF IdleStep, IdleInit, IdleUp, IdleBlock, IdleHalt, SchedNext
<1>4. CASE TimerInterrupt
  BY <1>4 DEF TimerInterrupt, SchedNext
<1>5. CASE \E s \in Sema \ {IdleStarted} : InterruptUp(s)
  BY <1>5, UpSched DEF InterruptUp
<1> QED
  BY <1>1, <1>2, <1>3, <1>4, <1>5 DEF Next

-----------------------------------------------------------------------------
\* The running thread is the one whose status says so.
LEMMA RunningThread ==
  ASSUME IInv
  PROVE  /\ current \in AllThreads /\ status[current] = "running"
         /\ \A t \in AllThreads : status[t] = "running" => t = current
  BY DEF IInv, SchedInv, SchedTypeOK, OneRunning

\* Only thread_exit() ends a thread.
LEMMA GoneStep ==
  ASSUME IInv, Next, NEW x \in Thread, status'[x] \in {"none", "dying"}
  PROVE  status[x] \in {"none", "dying"} \/ CallThreadExit(x)
<1> USE ThreadAssumption, SynchAssumption DEF AllSemas, IInv
<1>1. ASSUME NEW t \in Thread, Call(t)
      PROVE status[x] \in {"none", "dying"} \/ CallThreadExit(x)
  <2>1. CASE \E s \in Sema : CallSemaUp(t, s)
    BY <2>1, UpStatus DEF CallSemaUp
  <2>2. CASE \E u \in Thread : CallThreadCreate(t, u)
    BY <2>2 DEF CallThreadCreate, InitThread, SchedInv, SchedTypeOK, AllThreads
  <2>3. CASE CallThreadYield(t)
    BY <2>3, YieldStatus DEF CallThreadYield
  <2>4. CASE CallThreadExit(t)
    BY <2>4, ExitStatus DEF CallThreadExit, InCode
  <2>5. CASE UNCHANGED schedVars
    BY <2>5 DEF schedVars
  <2> QED
    BY <1>1, <2>1, <2>2, <2>3, <2>4, <2>5
       DEF Call, CallSemaDown, SemaTryDown, CallLockAcquire, CallLockTryAcquire,
           CallLockRelease, CallCondWait, CallCondSignal, CallCondBroadcast,
           PopWaiter
<1>2. ASSUME NEW t \in Thread, Finish(t) PROVE status[x] \in {"none", "dying"}
  <2>1. CASE SemaDown(t)
    BY <2>1, BlockStatus DEF SemaDown, IntrEnable
  <2>2. CASE LockReleased(t) \/ CondWaitRelease(t) \/ CondSignalUp(t)
    <3>1. frame[t].at \in {"rel", "wrel"} => frame[t].lock \in AllSemas
      BY DEF FrameOK, FrameGood
    <3>2. frame[t].at \in {"sig", "bsig"} => frame[t].obj \in AllSemas
      BY DEF FrameOK, FrameGood
    <3> QED
      BY <2>2, <3>1, <3>2, UpStatus
         DEF LockReleased, CondWaitRelease, CondSignalUp
  <2>3. CASE ThreadReady(t)
    BY <2>3 DEF ThreadReady, ThreadUnblock, SchedInv, SchedTypeOK, AllThreads
  <2>4. CASE UNCHANGED schedVars
    BY <2>4 DEF schedVars
  <2> QED
    BY <1>2, <2>1, <2>2, <2>3, <2>4
       DEF Finish, LockHold, CondWaitUnhold, CondBroadcastNext, PopWaiter,
           CondBroadcastDone, TidLoad, TidStore, TidUnhold
<1>3. CASE IdleStep
  BY <1>3, UpStatus, BlockStatus
     DEF IdleStep, IdleInit, IdleUp, IdleBlock, IdleHalt, IdleStart, IntrEnable
<1>4. CASE TimerInterrupt
  BY <1>4, TickStatus DEF TimerInterrupt
<1>5. CASE \E s \in Sema \ {IdleStarted} : InterruptUp(s)
  BY <1>5, UpStatus DEF InterruptUp
<1> QED
  BY <1>1, <1>2, <1>3, <1>4, <1>5 DEF Next

-----------------------------------------------------------------------------
\* At() makes frames of its fields.
LEMMA AtFrame ==
  ASSUME NEW label \in Labels, NEW lock \in Lock \cup {None},
         NEW obj \in Sema \cup AllThreads \cup {None},
         NEW cond \in Cond \cup {None}, NEW arg \in Nat
  PROVE  At(label, lock, obj, cond, arg) \in Frame
  BY DEF At, Frame

\* Frames stay frames when one thread gets another.
LEMMA PutFrame ==
  ASSUME TypeOK, NEW t \in AllThreads, NEW f \in Frame
  PROVE  [frame EXCEPT ![t] = f] \in [AllThreads -> Frame]
  BY DEF TypeOK

\* Frames stay frames when one thread goes to another place ...
LEMMA GoFrame ==
  ASSUME TypeOK, NEW t \in AllThreads, NEW label \in Labels
  PROVE  Go(t, label) \in [AllThreads -> Frame]
<1>1. frame \in [AllThreads -> Frame]
  BY DEF TypeOK
<1>2. [frame[t] EXCEPT !.at = label] \in Frame
  BY <1>1 DEF Frame
<1> QED
  BY <1>1, <1>2 DEF Go

\* ... or returns to its own code.
LEMMA ReturnFrame ==
  ASSUME TypeOK, NEW t \in AllThreads
  PROVE  Return(t) \in [AllThreads -> Frame]
  BY PutFrame, AtFrame DEF Return, Code, Labels

\* The fields of a frame.
LEMMA FrameFields ==
  ASSUME TypeOK, NEW t \in AllThreads
  PROVE  /\ frame[t].at \in Labels
         /\ frame[t].lock \in Lock \cup {None}
         /\ frame[t].obj \in Sema \cup AllThreads \cup {None}
         /\ frame[t].cond \in Cond \cup {None}
         /\ frame[t].arg \in Nat
  BY DEF TypeOK, Frame

\* sema_up() keeps the types of values and wait lists.
LEMMA UpType ==
  ASSUME TypeOK, NEW s \in AllSemas, SemaUp(s)
  PROVE  value' \in [AllSemas -> Nat] /\ waiters' \in [AllSemas -> Seq(AllThreads)]
<1>1. value' \in [AllSemas -> Nat]
  BY DEF TypeOK, SemaUp
<1>2. waiters[s] # <<>> => Tail(waiters[s]) \in Seq(AllThreads)
  BY DEF TypeOK
<1> QED
  BY <1>1, <1>2 DEF TypeOK, SemaUp

\* Taking a waiter off a condition keeps all types.
LEMMA PopType ==
  ASSUME TypeOK, NEW t \in Thread, NEW c \in Cond, NEW label \in Labels,
         PopWaiter(t, c, label)
  PROVE  TypeOK'
<1>1. /\ Head(condWaiters[c]) \in AllThreads
      /\ Tail(condWaiters[c]) \in Seq(AllThreads)
  BY DEF PopWaiter, TypeOK
<1>2. t \in AllThreads
  BY DEF AllThreads
<1>3. frame' \in [AllThreads -> Frame]
  BY <1>1, <1>2, AtFrame, PutFrame DEF PopWaiter
<1>4. condWaiters' \in [Cond -> Seq(AllThreads)]
  BY <1>1 DEF PopWaiter, TypeOK
<1> QED
  BY <1>3, <1>4 DEF PopWaiter, TypeOK

\* Every step keeps the types.
LEMMA TypeStep == IInv /\ Next => TypeOK'
<1> SUFFICES ASSUME IInv, Next PROVE TypeOK'
  OBVIOUS
<1>1. TypeOK /\ FrameOK /\ CreatorsOK
  BY DEF IInv
<1>2. Thread \subseteq AllThreads /\ Idle \in AllThreads
  BY DEF AllThreads
<1>3. /\ Sema \subseteq AllSemas /\ Lock \subseteq AllSemas
      /\ AllThreads \subseteq AllSemas
  BY DEF AllSemas
<1>4. /\ value \in [AllSemas -> Nat] /\ waiters \in [AllSemas -> Seq(AllThreads)]
      /\ holder \in [Lock -> AllThreads \cup {None}]
      /\ condWaiters \in [Cond -> Seq(AllThreads)]
      /\ nextTid \in Nat /\ tid \in [AllThreads -> Nat]
      /\ frame \in [AllThreads -> Frame]
  BY <1>1 DEF TypeOK
<1>5. TidLock \in Lock /\ \A c \in Cond : LockOf[c] \in Lock
  BY SynchAssumption
<1>6. ASSUME NEW t \in Thread, Call(t) PROVE TypeOK'
  <2>1. CASE \E s \in Sema \ {IdleStarted} : CallSemaDown(t, s)
    <3>1. PICK s \in Sema \ {IdleStarted} : CallSemaDown(t, s)
      BY <2>1
    <3>2. frame' \in [AllThreads -> Frame]
      BY <1>1, <1>2, <3>1, AtFrame, PutFrame DEF CallSemaDown, Labels
    <3> QED
      BY <1>4, <3>1, <3>2 DEF CallSemaDown, TypeOK
  <2>2. CASE \E s \in Sema : SemaTryDown(t, s)
    BY <1>3, <1>4, <2>2 DEF SemaTryDown, TypeOK
  <2>3. CASE \E s \in Sema : CallSemaUp(t, s)
    BY <1>1, <1>3, <1>4, <2>3, UpType DEF CallSemaUp, TypeOK
  <2>4. CASE \E l \in Lock : \/ CallLockAcquire(t, l) \/ CallLockTryAcquire(t, l)
                             \/ CallLockRelease(t, l)
    <3>1. PICK l \in Lock : \/ CallLockAcquire(t, l) \/ CallLockTryAcquire(t, l)
                            \/ CallLockRelease(t, l)
      BY <2>4
    <3>2. frame' \in [AllThreads -> Frame]
      <4>1. \A label \in Labels : At(label, l, None, None, 0) \in Frame
        BY AtFrame
      <4> QED
        BY <1>2, <1>4, <3>1, <4>1
           DEF CallLockAcquire, CallLockTryAcquire, CallLockRelease, Labels
    <3>3. value' \in [AllSemas -> Nat]
      BY <1>3, <1>4, <3>1
         DEF CallLockAcquire, CallLockTryAcquire, CallLockRelease
    <3>4. holder' \in [Lock -> AllThreads \cup {None}]
      BY <1>4, <3>1 DEF CallLockAcquire, CallLockTryAcquire, CallLockRelease
    <3> QED
      BY <1>4, <3>1, <3>2, <3>3, <3>4
         DEF CallLockAcquire, CallLockTryAcquire, CallLockRelease, TypeOK
  <2>5. CASE \E c \in Cond : CallCondWait(t, c)
    <3>1. PICK c \in Cond : CallCondWait(t, c)
      BY <2>5
    <3>2. frame' \in [AllThreads -> Frame]
      BY <1>1, <1>2, <1>5, <3>1, AtFrame, PutFrame DEF CallCondWait, Labels
    <3>3. condWaiters' \in [Cond -> Seq(AllThreads)]
      BY <1>2, <1>4, <3>1 DEF CallCondWait
    <3>4. value' \in [AllSemas -> Nat] /\ waiters' \in [AllSemas -> Seq(AllThreads)]
      BY <1>2, <1>3, <1>4, <3>1 DEF CallCondWait
    <3> QED
      BY <1>4, <3>1, <3>2, <3>3, <3>4 DEF CallCondWait, TypeOK
  <2>6. CASE \E c \in Cond : CallCondSignal(t, c) \/ CallCondBroadcast(t, c)
    BY <1>1, <2>6, PopType DEF CallCondSignal, CallCondBroadcast, Labels
  <2>7. CASE \E u \in Thread : CallThreadCreate(t, u)
    <3>1. PICK u \in Thread : CallThreadCreate(t, u)
      BY <2>7
    <3>2. At("acq", TidLock, u, None, 0) \in Frame /\ Code \in Frame
      BY <1>2, <1>5, AtFrame DEF Labels, Code
    <3>3. frame' \in [AllThreads -> Frame]
      BY <1>4, <3>1, <3>2 DEF CallThreadCreate
    <3> QED
      BY <1>2, <1>4, <3>1, <3>3 DEF CallThreadCreate, TypeOK
  <2>7a. CASE CallThreadYield(t) \/ CallThreadExit(t)
    BY <1>4, <2>7a DEF CallThreadYield, CallThreadExit, synchVars, TypeOK
  <2> QED
    BY <1>6, <2>1, <2>2, <2>3, <2>4, <2>5, <2>6, <2>7, <2>7a DEF Call
<1>7. ASSUME NEW t \in Thread, Finish(t) PROVE TypeOK'
  <2> \A label \in Labels : Go(t, label) \in [AllThreads -> Frame]
    BY <1>1, <1>2, GoFrame
  <2> Return(t) \in [AllThreads -> Frame]
    BY <1>1, <1>2, ReturnFrame
  <2> frame[t].arg \in Nat
    BY <1>1, <1>2, FrameFields
  <2>1. CASE SemaDown(t)
    <3>1. Downs(t) \in AllSemas
      BY <1>1, <1>2, <1>3, <2>1 DEF SemaDown, InDown, Downs, FrameOK, FrameGood
    <3>2. frame' \in [AllThreads -> Frame]
      BY <1>4, <2>1 DEF SemaDown, Downed, Labels
    <3>3. value' \in [AllSemas -> Nat]
      <4>1. value[Downs(t)] \in Nat
        BY <1>4, <3>1
      <4> QED
        BY <1>4, <2>1, <3>1, <4>1 DEF SemaDown
    <3>4. waiters' \in [AllSemas -> Seq(AllThreads)]
      <4>1. Append(waiters[Downs(t)], t) \in Seq(AllThreads)
        BY <1>2, <1>4, <3>1
      <4> QED
        BY <1>4, <2>1, <3>1, <4>1 DEF SemaDown
    <3> QED
      BY <1>4, <2>1, <3>2, <3>3, <3>4 DEF SemaDown, TypeOK
  <2>2. CASE LockHold(t)
    BY <1>1, <1>2, <1>4, <2>2 DEF LockHold, Labels, TypeOK
  <2>3. CASE LockReleased(t) \/ CondWaitRelease(t)
    <3>1. SemaUp(frame[t].lock) /\ frame[t].lock \in AllSemas
      BY <1>1, <1>3, <2>3 DEF LockReleased, CondWaitRelease, FrameOK, FrameGood
    <3> QED
      BY <1>1, <1>4, <2>3, <3>1, UpType
         DEF LockReleased, CondWaitRelease, Labels, TypeOK
  <2>4. CASE CondWaitUnhold(t) \/ TidUnhold(t)
    BY <1>4, <2>4 DEF CondWaitUnhold, TidUnhold, Labels, TypeOK
  <2>5. CASE CondSignalUp(t)
    <3>1. SemaUp(frame[t].obj) /\ frame[t].obj \in AllSemas
      BY <1>1, <1>3, <2>5 DEF CondSignalUp, FrameOK, FrameGood
    <3> QED
      BY <1>1, <1>4, <2>5, <3>1, UpType DEF CondSignalUp, Labels, TypeOK
  <2>6. CASE CondBroadcastNext(t)
    BY <1>1, <2>6, PopType DEF CondBroadcastNext, FrameOK, FrameGood, Labels
  <2>7. CASE CondBroadcastDone(t)
    BY <1>4, <2>7 DEF CondBroadcastDone, TypeOK
  <2>8. CASE TidLoad(t)
    <3>1. [frame[t] EXCEPT !.at = "store", !.arg = nextTid] \in Frame
      <4>1. frame[t] \in Frame
        BY <1>2, <1>4
      <4> QED
        BY <1>4, <4>1 DEF Frame, Labels
    <3>2. frame' \in [AllThreads -> Frame]
      BY <1>4, <2>8, <3>1 DEF TidLoad
    <3> QED
      BY <1>4, <2>8, <3>2 DEF TidLoad, TypeOK
  <2>9. CASE TidStore(t)
    BY <1>4, <2>9 DEF TidStore, Labels, TypeOK
  <2>10. CASE ThreadReady(t)
    BY <1>1, <1>2, <1>4, <2>10 DEF ThreadReady, TypeOK
  <2> QED
    BY <1>7, <2>1, <2>2, <2>3, <2>4, <2>5, <2>6, <2>7, <2>8, <2>9, <2>10
       DEF Finish
<1>8. CASE IdleStep
  <2> \A label \in Labels : Go(Idle, label) \in [AllThreads -> Frame]
    BY <1>1, <1>2, GoFrame
  <2>1. CASE IdleUp
    BY <1>1, <1>3, <1>4, <2>1, UpType, SynchAssumption DEF IdleUp, Labels, TypeOK
  <2> QED
    BY <1>4, <1>8, <2>1
       DEF IdleStep, IdleInit, IdleBlock, IdleHalt, synchVars, Labels, TypeOK
<1>9. CASE TimerInterrupt
  BY <1>4, <1>9 DEF TimerInterrupt, synchVars, TypeOK
<1>10. CASE \E s \in Sema \ {IdleStarted} : InterruptUp(s)
  BY <1>1, <1>3, <1>4, <1>10, UpType DEF InterruptUp, TypeOK
<1> QED
  BY <1>6, <1>7, <1>8, <1>9, <1>10 DEF Next

-----------------------------------------------------------------------------
\* Going to another place changes that and nothing else, for that thread.
LEMMA GoFields ==
  ASSUME TypeOK, NEW t \in AllThreads, NEW label
  PROVE  /\ Go(t, label)[t].at = label
         /\ Go(t, label)[t].lock = frame[t].lock
         /\ Go(t, label)[t].obj = frame[t].obj
         /\ Go(t, label)[t].cond = frame[t].cond
         /\ \A x \in AllThreads : x # t => Go(t, label)[x] = frame[x]
<1>1. frame \in [AllThreads -> Frame] /\ frame[t] \in Frame
  BY DEF TypeOK
<1>2. Go(t, label)[t] = [frame[t] EXCEPT !.at = label]
  BY <1>1 DEF Go
<1> QED
  BY <1>1, <1>2 DEF Frame, Go

\* A new frame for one thread leaves the others theirs.
LEMMA PutFields ==
  ASSUME TypeOK, NEW t \in AllThreads, NEW f
  PROVE  /\ [frame EXCEPT ![t] = f][t] = f
         /\ \A x \in AllThreads : x # t => [frame EXCEPT ![t] = f][x] = frame[x]
  BY DEF TypeOK

\* The frame of a thread in its own code makes sense.
LEMMA GoodCode == FrameGood(Code)
  BY DEF FrameGood, Code, At

\* A step moves the running thread to a frame that makes sense, and no other
\* thread, but that thread_create() clears the frame of the new one.
LEMMA FrameMove ==
  ASSUME IInv, Next, NEW x \in Thread
  PROVE  \/ frame'[x] = frame[x]
         \/ x = current /\ FrameGood(frame'[x])
         \/ status[x] = "none" /\ frame'[x] = Code
<1> DEFINE Moved == \/ frame'[x] = frame[x]
                    \/ x = current /\ FrameGood(frame'[x])
                    \/ status[x] = "none" /\ frame'[x] = Code
<1>1. TypeOK /\ FrameOK /\ CreatorsOK
  BY DEF IInv
<1>2. Thread \subseteq AllThreads /\ Idle \in AllThreads /\ Idle \notin Thread
  BY ThreadAssumption DEF AllThreads
<1>3. ASSUME NEW t \in Thread, current = t, NEW f, FrameGood(f),
             frame' = [frame EXCEPT ![t] = f]
      PROVE Moved
  BY <1>1, <1>2, <1>3, PutFields
<1>4. ASSUME NEW t \in Thread, current = t, frame' = Return(t)
      PROVE Moved
  BY <1>3, <1>4, GoodCode DEF Return
<1>5. ASSUME NEW t \in Thread, current = t, NEW label, frame' = Go(t, label),
             FrameGood(frame'[t])
      PROVE Moved
  BY <1>1, <1>2, <1>5, GoFields
<1>6. \A t \in Thread : FrameGood(frame[t])
  BY <1>1 DEF FrameOK
<1>7. ASSUME NEW t \in Thread, NEW c \in Cond, NEW label \in {"sig", "bsig"},
             current = t, PopWaiter(t, c, label)
      PROVE Moved
  <2>1. Head(condWaiters[c]) \in AllThreads
    BY <1>1, <1>7 DEF PopWaiter, TypeOK
  <2>2. FrameGood(At(label, None, Head(condWaiters[c]), c, 0))
    BY <2>1 DEF FrameGood, At
  <2> QED
    BY <1>3, <1>7, <2>2 DEF PopWaiter
<1>8. ASSUME NEW t \in Thread, Call(t) PROVE Moved
  <2>1. CASE \E s \in Sema \ {IdleStarted} : CallSemaDown(t, s)
    <3>1. PICK s \in Sema \ {IdleStarted} : CallSemaDown(t, s)
      BY <2>1
    <3>2. FrameGood(At("sema", None, s, None, 0))
      BY DEF FrameGood, At
    <3> QED
      BY <1>3, <3>1, <3>2 DEF CallSemaDown, InCode
  <2>2. CASE \E l \in Lock \ {TidLock} :
               \/ CallLockAcquire(t, l) \/ CallLockTryAcquire(t, l)
               \/ CallLockRelease(t, l)
    <3>1. PICK l \in Lock \ {TidLock} :
               \/ CallLockAcquire(t, l) \/ CallLockTryAcquire(t, l)
               \/ CallLockRelease(t, l)
      BY <2>2
    <3>2. \A label \in {"acq", "hold", "rel"} :
             FrameGood(At(label, l, None, None, 0))
      BY DEF FrameGood, At
    <3>3. CASE CallLockAcquire(t, l)
      BY <1>3, <3>2, <3>3 DEF CallLockAcquire, InCode
    <3>4. CASE CallLockTryAcquire(t, l)
      BY <1>3, <3>2, <3>4 DEF CallLockTryAcquire, InCode
    <3>5. CASE CallLockRelease(t, l)
      BY <1>3, <3>2, <3>5 DEF CallLockRelease, InCode
    <3> QED
      BY <3>1, <3>3, <3>4, <3>5
  <2>3. CASE \E c \in Cond : CallCondWait(t, c)
    <3>1. PICK c \in Cond : CallCondWait(t, c)
      BY <2>3
    <3>2. LockOf[c] \in Lock /\ LockOf[c] # TidLock
      BY SynchAssumption
    <3>3. FrameGood(At("wunhold", LockOf[c], None, c, 0))
      BY <3>2 DEF FrameGood, At
    <3> QED
      BY <1>3, <3>1, <3>3 DEF CallCondWait, InCode
  <2>4. CASE \E c \in Cond : CallCondSignal(t, c) \/ CallCondBroadcast(t, c)
    BY <1>7, <2>4 DEF CallCondSignal, CallCondBroadcast, InCode
  <2>5. CASE \E u \in Thread : CallThreadCreate(t, u)
    <3>1. PICK u \in Thread : CallThreadCreate(t, u)
      BY <2>5
    <3> DEFINE f == At("acq", TidLock, u, None, 0)
    <3>2. FrameGood(f)
      BY SynchAssumption DEF FrameGood, At
    <3>3. /\ frame' = [frame EXCEPT ![t] = f, ![u] = Code]
          /\ current = t /\ status[u] = "none" /\ frame \in [AllThreads -> Frame]
      BY <1>1, <3>1 DEF CallThreadCreate, InCode, TypeOK
    <3> HIDE DEF f
    <3> QED
      BY <1>2, <3>2, <3>3
  <2>6. CASE UNCHANGED frame
    BY <2>6
  <2> QED
    BY <1>8, <2>1, <2>2, <2>3, <2>4, <2>5, <2>6
       DEF Call, SemaTryDown, CallSemaUp, CallThreadYield, CallThreadExit,
           synchVars
<1>9. ASSUME NEW t \in Thread, Finish(t) PROVE Moved
  <2> \A label : /\ Go(t, label)[t].at = label
                 /\ Go(t, label)[t].lock = frame[t].lock
                 /\ Go(t, label)[t].obj = frame[t].obj
                 /\ Go(t, label)[t].cond = frame[t].cond
    BY <1>1, <1>2, GoFields
  <2> FrameGood(frame[t])
    BY <1>6
  <2>1. CASE SemaDown(t)
    <3>1. CASE UNCHANGED frame
      BY <3>1
    <3>2. CASE frame' = Return(t)
      BY <1>4, <2>1, <3>2 DEF SemaDown
    <3>3. CASE frame[t].at \in {"acq", "wait"}
               /\ frame' = Go(t, IF frame[t].at = "acq" THEN "hold" ELSE "acq")
      <4>1. FrameGood(frame'[t])
        BY <3>3 DEF FrameGood
      <4> QED
        BY <1>5, <2>1, <3>3, <4>1 DEF SemaDown
    <3> QED
      BY <2>1, <3>1, <3>2, <3>3 DEF SemaDown, Downed, InDown
  <2>2. CASE LockHold(t)
    BY <1>4, <1>5, <2>2 DEF LockHold, FrameGood
  <2>3. CASE LockReleased(t)
    BY <1>4, <1>5, <2>3 DEF LockReleased, FrameGood
  <2>4. CASE CondWaitUnhold(t)
    BY <1>5, <2>4 DEF CondWaitUnhold, FrameGood
  <2>5. CASE CondWaitRelease(t)
    BY <1>5, <2>5 DEF CondWaitRelease, FrameGood
  <2>6. CASE CondSignalUp(t)
    BY <1>4, <1>5, <2>6 DEF CondSignalUp, FrameGood
  <2>7. CASE CondBroadcastNext(t)
    BY <1>7, <2>7 DEF CondBroadcastNext, FrameGood
  <2>8. CASE CondBroadcastDone(t)
    BY <1>4, <2>8 DEF CondBroadcastDone
  <2>9. CASE TidLoad(t)
    <3> DEFINE f == [frame[t] EXCEPT !.at = "store", !.arg = nextTid]
    <3>1. frame \in [AllThreads -> Frame] /\ frame[t] \in Frame
      BY <1>1, <1>2 DEF TypeOK
    <3>2. f.at = "store" /\ f.lock = frame[t].lock
      BY <3>1 DEF Frame
    <3>3. f.lock = TidLock
      BY <2>9, <3>2 DEF TidLoad, FrameGood
    <3>4. FrameGood(f)
      BY <3>2, <3>3 DEF FrameGood
    <3>5. frame' = [frame EXCEPT ![t] = f] /\ current = t
      BY <2>9, <3>1 DEF TidLoad
    <3> HIDE DEF f
    <3> QED
      BY <1>3, <3>4, <3>5
  <2>10. CASE TidStore(t)
    BY <1>5, <2>10 DEF TidStore, FrameGood
  <2>11. CASE TidUnhold(t)
    BY <1>5, <2>11, SynchAssumption DEF TidUnhold, FrameGood
  <2>12. CASE ThreadReady(t)
    BY <1>4, <2>12 DEF ThreadReady
  <2> QED
    BY <1>9, <2>1, <2>2, <2>3, <2>4, <2>5, <2>6, <2>7, <2>8, <2>9, <2>10, <2>11,
       <2>12 DEF Finish
<1>10. CASE IdleStep
  BY <1>1, <1>2, <1>10, GoFields
     DEF IdleStep, IdleInit, IdleUp, IdleBlock, IdleHalt, synchVars
<1>11. CASE TimerInterrupt \/ \E s \in Sema \ {IdleStarted} : InterruptUp(s)
  BY <1>11 DEF TimerInterrupt, InterruptUp, synchVars
<1> QED
  BY <1>8, <1>9, <1>10, <1>11 DEF Next

\* Calls are made and finished by the running thread.
LEMMA Actor ==
  ASSUME NEW t \in Thread, Call(t) \/ Finish(t)
  PROVE  current = t
  BY DEF Call, CallSemaDown, SemaTryDown, CallSemaUp, CallLockAcquire,
         CallLockTryAcquire, CallLockRelease, CallCondWait, CallCondSignal,
         CallCondBroadcast, CallThreadCreate, CallThreadYield, CallThreadExit,
         InCode, Finish, SemaDown, LockHold, LockReleased, CondWaitUnhold,
         CondWaitRelease, CondSignalUp, CondBroadcastNext, CondBroadcastDone,
         TidLoad, TidStore, TidUnhold, ThreadReady

\* The idle thread's own steps.
LEMMA IdleMove ==
  ASSUME IInv, Next
  PROVE  \/ IdleInit \/ IdleUp
         \/ frame'[Idle] = frame[Idle] /\ idleThread' = idleThread
<1>1. TypeOK /\ Idle \in AllThreads /\ Idle \notin Thread
      /\ Thread \subseteq AllThreads
  BY ThreadAssumption DEF IInv, AllThreads
<1>2. ASSUME NEW t \in Thread, Call(t) \/ Finish(t)
      PROVE  frame'[Idle] = frame[Idle] /\ idleThread' = idleThread
  <2>1. current # Idle
    BY <1>1, <1>2, Actor
  <2>2. idleThread' = idleThread
    BY <2>1, SchedStepOfNext
       DEF SchedNext, schedVars, ThreadBlock, ThreadUnblock, ThreadYield,
           ThreadExit, Schedule, InitThread, IntrEnable, Tick
  <2>3. \A label : Go(t, label)[Idle] = frame[Idle]
    BY <1>1, GoFields
  <2>4. \A f : [frame EXCEPT ![t] = f][Idle] = frame[Idle]
    BY <1>1, PutFields
  <2>5. CASE \E u \in Thread : CallThreadCreate(t, u)
    BY <1>1, <2>2, <2>5 DEF CallThreadCreate, TypeOK
  <2>6. CASE TidLoad(t)
    BY <1>1, <2>2, <2>6 DEF TidLoad, TypeOK
  <2>7. CASE \/ UNCHANGED frame \/ frame' = Return(t)
             \/ \E label : frame' = Go(t, label)
             \/ \E f : frame' = [frame EXCEPT ![t] = f]
    BY <2>2, <2>3, <2>4, <2>7 DEF Return
  <2>8. CASE Call(t)
    BY <2>8, <2>5, <2>7
       DEF Call, CallSemaDown, SemaTryDown, CallSemaUp, CallLockAcquire,
           CallLockTryAcquire, CallLockRelease, CallCondWait, CallCondSignal,
           CallCondBroadcast, PopWaiter, CallThreadYield, CallThreadExit,
           synchVars
  <2>9. CASE Finish(t)
    BY <2>9, <2>6, <2>7
       DEF Finish, SemaDown, Downed, LockHold, LockReleased, CondWaitUnhold,
           CondWaitRelease, CondSignalUp, CondBroadcastNext, PopWaiter,
           CondBroadcastDone, TidStore, TidUnhold, ThreadReady
  <2> QED
    BY <1>2, <2>8, <2>9
<1>3. CASE IdleStep
  BY <1>3
     DEF IdleStep, IdleBlock, IdleHalt, synchVars, ThreadBlock, Schedule, IntrEnable
<1>4. CASE TimerInterrupt \/ \E s \in Sema \ {IdleStarted} : InterruptUp(s)
  BY <1>4
     DEF TimerInterrupt, InterruptUp, synchVars, Tick, ThreadYield, Schedule,
         SemaUp, ThreadUnblock, schedVars
<1> QED
  BY <1>2, <1>3, <1>4 DEF Next

\* Every step keeps frames in order.
LEMMA FrameStep == IInv /\ Next => FrameOK'
<1> SUFFICES ASSUME IInv, Next PROVE FrameOK'
  OBVIOUS
<1>1. TypeOK /\ FrameOK /\ Idle \in AllThreads /\ Idle \notin Thread
  BY ThreadAssumption DEF IInv, AllThreads
<1>2. ASSUME NEW x \in Thread PROVE FrameGood(frame'[x])
  BY <1>1, FrameMove, GoodCode DEF FrameOK
<1>3. ASSUME NEW x \in Thread, status'[x] \in {"none", "dying"}
      PROVE frame'[x] = Code
  <2>1. CASE CallThreadExit(x)
    BY <1>1, <2>1 DEF CallThreadExit, InCode, FrameOK, FrameGood, synchVars
  <2>2. CASE status[x] \in {"none", "dying"}
    <3>1. x # current
      BY <2>2, RunningThread
    <3> QED
      BY <1>1, <2>2, <3>1, FrameMove DEF FrameOK
  <2> QED
    BY <1>3, <2>1, <2>2, GoneStep
<1>4. /\ frame'[Idle].at \in {"code", "idleup", "idle"}
      /\ frame'[Idle].at = "code" <=> idleThread' = None
      /\ frame'[Idle].lock = None
  <2>1. CASE IdleInit
    <3>1. frame'[Idle].at = "idleup" /\ frame'[Idle].lock = frame[Idle].lock
      BY <1>1, <2>1, GoFields DEF IdleInit
    <3>2. idleThread' = Idle /\ Idle # None
      BY <2>1, ThreadAssumption DEF IdleInit, IdleStart
    <3> QED
      BY <1>1, <3>1, <3>2 DEF FrameOK
  <2>2. CASE IdleUp
    <3>1. frame'[Idle].at = "idle" /\ frame'[Idle].lock = frame[Idle].lock
      BY <1>1, <2>2, GoFields DEF IdleUp
    <3>2. idleThread' = idleThread /\ frame[Idle].at = "idleup"
      BY <2>2 DEF IdleUp, SemaUp, ThreadUnblock, schedVars
    <3> QED
      BY <1>1, <3>1, <3>2 DEF FrameOK
  <2> QED
    BY <1>1, <2>1, <2>2, IdleMove DEF FrameOK
<1> QED
  BY <1>2, <1>3, <1>4 DEF FrameOK

-----------------------------------------------------------------------------
\* Threads wake in sema_up() and at the end of thread_create(), and sleep in
\* sema_down() and when they are new.
LEMMA BlockedStep ==
  ASSUME IInv, Next, NEW x \in Thread
  PROVE  \/ status'[x] = "blocked" <=> status[x] = "blocked"
         \/ \E s \in AllSemas : SemaUp(s) /\ Wakes(s, x) /\ status'[x] # "blocked"
         \/ \E t \in Thread : /\ ThreadReady(t) /\ frame[t].obj = x
                              /\ status'[x] # "blocked"
         \/ SemaDown(x) /\ value[Downs(x)] = 0
         \/ \E t \in Thread : CallThreadCreate(t, x)
<1> DEFINE Same == status'[x] = "blocked" <=> status[x] = "blocked"
           Up   == \E s \in AllSemas : SemaUp(s) /\ Wakes(s, x)
                                       /\ status'[x] # "blocked"
           Made == \E t \in Thread : /\ ThreadReady(t) /\ frame[t].obj = x
                                     /\ status'[x] # "blocked"
           Down == SemaDown(x) /\ value[Downs(x)] = 0
           New  == \E t \in Thread : CallThreadCreate(t, x)
<1>1. SchedInv /\ FrameOK /\ status \in [AllThreads -> Statuses]
      /\ Sema \subseteq AllSemas /\ Lock \subseteq AllSemas
      /\ AllThreads \subseteq AllSemas /\ Thread \subseteq AllThreads
  BY DEF IInv, SchedInv, SchedTypeOK, AllSemas, AllThreads
<1>2. ASSUME NEW s \in AllSemas, SemaUp(s) PROVE Same \/ Up
  BY <1>2, UpStatus
<1>3. ASSUME NEW t \in Thread, Call(t) PROVE Same \/ Up \/ New
  <2>1. CASE \E s \in Sema : CallSemaUp(t, s)
    BY <1>1, <1>2, <2>1 DEF CallSemaUp
  <2>2. CASE \E u \in Thread : CallThreadCreate(t, u)
    BY <1>1, <2>2 DEF CallThreadCreate, InitThread
  <2>3. CASE CallThreadYield(t)
    BY <1>1, <2>3, YieldStatus DEF CallThreadYield
  <2>4. CASE CallThreadExit(t)
    BY <1>1, <2>4, ExitStatus DEF CallThreadExit
  <2>5. CASE UNCHANGED schedVars
    BY <2>5 DEF schedVars
  <2> QED
    BY <1>3, <2>1, <2>2, <2>3, <2>4, <2>5
       DEF Call, CallSemaDown, SemaTryDown, CallLockAcquire, CallLockTryAcquire,
           CallLockRelease, CallCondWait, CallCondSignal, CallCondBroadcast,
           PopWaiter
<1>4. ASSUME NEW t \in Thread, Finish(t) PROVE Same \/ Up \/ Made \/ Down
  <2>1. CASE SemaDown(t)
    BY <1>1, <2>1, BlockStatus DEF SemaDown, IntrEnable
  <2>2. CASE LockReleased(t) \/ CondWaitRelease(t) \/ CondSignalUp(t)
    <3>1. frame[t].at \in {"rel", "wrel"} => frame[t].lock \in AllSemas
      BY <1>1 DEF FrameOK, FrameGood
    <3>2. frame[t].at \in {"sig", "bsig"} => frame[t].obj \in AllSemas
      BY <1>1 DEF FrameOK, FrameGood
    <3> QED
      BY <1>2, <2>2, <3>1, <3>2 DEF LockReleased, CondWaitRelease, CondSignalUp
  <2>3. CASE ThreadReady(t)
    BY <1>1, <2>3 DEF ThreadReady, ThreadUnblock
  <2>4. CASE UNCHANGED schedVars
    BY <2>4 DEF schedVars
  <2> QED
    BY <1>4, <2>1, <2>2, <2>3, <2>4
       DEF Finish, LockHold, CondWaitUnhold, CondBroadcastNext, PopWaiter,
           CondBroadcastDone, TidLoad, TidStore, TidUnhold
<1>5. CASE IdleStep
  <2>1. current = Idle /\ Idle \notin Thread /\ IdleStarted \in AllSemas
    BY <1>1, <1>5, ThreadAssumption, SynchAssumption
       DEF IdleStep, IdleInit, IdleUp, IdleBlock, IdleHalt
  <2> QED
    BY <1>1, <1>2, <1>5, <2>1, BlockStatus
       DEF IdleStep, IdleInit, IdleUp, IdleBlock, IdleHalt, IdleStart, IntrEnable
<1>6. CASE TimerInterrupt
  BY <1>1, <1>6, TickStatus DEF TimerInterrupt
<1>7. CASE \E s \in Sema \ {IdleStarted} : InterruptUp(s)
  BY <1>1, <1>2, <1>7 DEF InterruptUp
<1> QED
  BY <1>3, <1>4, <1>5, <1>6, <1>7 DEF Next

\* A thread in thread_create() stays there, with the same new thread, until
\* that is ready.
LEMMA CreatorMove ==
  ASSUME IInv, Next, NEW x \in Thread
  PROVE  /\ frame[x].lock = TidLock =>
              \/ ThreadReady(x)
              \/ frame'[x].lock = TidLock /\ frame'[x].obj = frame[x].obj
         /\ frame'[x].lock = TidLock =>
              \/ frame[x].lock = TidLock /\ frame'[x].obj = frame[x].obj
                 /\ ~ThreadReady(x)
              \/ \E u \in Thread : CallThreadCreate(x, u)
<1> DEFINE Keeps == frame'[x].lock = frame[x].lock /\ frame'[x].obj = frame[x].obj
           Never == frame[x].lock # TidLock /\ frame'[x].lock # TidLock
<1>1. TypeOK /\ FrameOK /\ FrameGood(frame[x]) /\ x \in AllThreads
      /\ Code.lock = None /\ None # TidLock
  BY SynchAssumption DEF IInv, FrameOK, AllThreads, Code, At
<1>2. \A f : [frame EXCEPT ![x] = f][x] = f
  BY <1>1, PutFields
<1>3. Return(x)[x].lock = None
  BY <1>1, <1>2 DEF Return
<1>4. ASSUME NEW label, frame' = Go(x, label) PROVE Keeps
  BY <1>1, <1>4, GoFields
<1>5. CASE Call(x)
  <2>1. frame[x].lock = None
    BY <1>1, <1>5
       DEF Call, CallSemaDown, SemaTryDown, CallSemaUp, CallLockAcquire,
           CallLockTryAcquire, CallLockRelease, CallCondWait, CallCondSignal,
           CallCondBroadcast, CallThreadCreate, CallThreadYield, CallThreadExit,
           InCode, FrameGood
  <2>2. \A label, obj, cond, arg, l : At(label, l, obj, cond, arg).lock = l
    BY DEF At
  <2>3. \A c \in Cond : LockOf[c] # TidLock
    BY SynchAssumption
  <2>4. \/ \E u \in Thread : CallThreadCreate(x, u)
        \/ frame'[x].lock # TidLock
    <3>1. ASSUME NEW label, NEW l, NEW obj, NEW cond,
                 frame' = [frame EXCEPT ![x] = At(label, l, obj, cond, 0)],
                 l # TidLock
          PROVE frame'[x].lock # TidLock
      BY <1>2, <2>2, <3>1
    <3>2. UNCHANGED frame => frame'[x].lock # TidLock
      BY <1>1, <2>1
    <3>3. CASE \E s \in Sema : CallSemaDown(x, s)
      BY <1>1, <3>1, <3>3 DEF CallSemaDown
    <3>4. CASE \E l \in Lock \ {TidLock} :
               \/ CallLockAcquire(x, l) \/ CallLockTryAcquire(x, l)
               \/ CallLockRelease(x, l)
      BY <3>1, <3>4 DEF CallLockAcquire, CallLockTryAcquire, CallLockRelease
    <3>5. CASE \E c \in Cond : CallCondWait(x, c)
      <4>1. PICK c \in Cond : CallCondWait(x, c)
        BY <3>5
      <4>2. frame' = [frame EXCEPT ![x] = At("wunhold", LockOf[c], None, c, 0)]
        BY <4>1 DEF CallCondWait
      <4> QED
        BY <2>3, <3>1, <4>2
    <3>6. CASE \E c \in Cond : CallCondSignal(x, c) \/ CallCondBroadcast(x, c)
      BY <1>1, <3>1, <3>6 DEF CallCondSignal, CallCondBroadcast, PopWaiter
    <3> QED
      BY <1>5, <3>2, <3>3, <3>4, <3>5, <3>6
         DEF Call, SemaTryDown, CallSemaUp, CallThreadYield, CallThreadExit,
             synchVars
  <2> QED
    BY <1>1, <2>1, <2>4
<1>6. CASE Finish(x)
  <2>1. CASE SemaDown(x)
    <3>1. Keeps \/ (frame[x].at = "sema" /\ frame' = Return(x))
      BY <1>4, <2>1 DEF SemaDown, Downed, InDown
    <3>2. frame[x].at # "ready"
      BY <2>1 DEF SemaDown, InDown
    <3> QED
      BY <1>1, <1>3, <3>1, <3>2 DEF FrameGood, ThreadReady
  <2>2. CASE LockHold(x) \/ LockReleased(x)
    <3>1. frame[x].lock = TidLock => Keeps
      BY <1>4, <2>2 DEF LockHold, LockReleased
    <3>2. frame[x].lock # TidLock => Never
      BY <1>1, <1>3, <2>2 DEF LockHold, LockReleased
    <3> QED
      BY <2>2, <3>1, <3>2 DEF ThreadReady, LockHold, LockReleased
  <2>3. CASE CondWaitUnhold(x) \/ CondWaitRelease(x) \/ TidStore(x) \/ TidUnhold(x)
    <3>1. Keeps
      BY <1>4, <2>3 DEF CondWaitUnhold, CondWaitRelease, TidStore, TidUnhold
    <3> QED
      BY <2>3, <3>1
         DEF ThreadReady, CondWaitUnhold, CondWaitRelease, TidStore, TidUnhold
  <2>4. CASE CondSignalUp(x) \/ CondBroadcastDone(x)
    <3>1. Never
      BY <1>1, <1>3, <1>4, <2>4 DEF CondSignalUp, CondBroadcastDone, FrameGood
    <3> QED
      BY <3>1
  <2>5. CASE CondBroadcastNext(x)
    <3>1. frame'[x].lock = None
      BY <1>2, <2>5 DEF CondBroadcastNext, PopWaiter, At
    <3>2. frame[x].lock = None
      BY <1>1, <2>5 DEF CondBroadcastNext, FrameGood
    <3> QED
      BY <1>1, <3>1, <3>2
  <2>6. CASE TidLoad(x)
    <3>1. frame \in [AllThreads -> Frame] /\ frame[x] \in Frame
      BY <1>1 DEF TypeOK
    <3>2. Keeps
      BY <1>1, <2>6, <3>1 DEF TidLoad, Frame
    <3> QED
      BY <2>6, <3>2 DEF ThreadReady, TidLoad
  <2>7. CASE ThreadReady(x)
    <3>1. frame'[x].lock = None
      BY <1>3, <2>7 DEF ThreadReady
    <3> QED
      BY <1>1, <2>7, <3>1
  <2> QED
    BY <1>6, <2>1, <2>2, <2>3, <2>4, <2>5, <2>6, <2>7 DEF Finish
<1>7. CASE ~Call(x) /\ ~Finish(x)
  <2>1. ~ThreadReady(x)
    BY <1>7 DEF Finish
  <2>2. frame'[x] = frame[x] \/ (frame[x] = Code /\ frame'[x] = Code)
    <3>1. CASE x = current
      <4>1. \A t \in Thread : Call(t) \/ Finish(t) => t = x
        BY <3>1, Actor
      <4>2. current # Idle
        BY <3>1, ThreadAssumption
      <4>3. UNCHANGED frame
        BY <1>7, <4>1, <4>2
           DEF Next, IdleStep, IdleInit, IdleUp, IdleBlock, IdleHalt,
               TimerInterrupt, InterruptUp, synchVars
      <4> QED
        BY <4>3
    <3>2. CASE x # current
      BY <1>1, <3>2, FrameMove DEF FrameOK
    <3> QED
      BY <3>1, <3>2
  <2> QED
    BY <1>1, <2>1, <2>2
<1> QED
  BY <1>5, <1>6, <1>7

\* The start of thread_create(): the new thread sleeps on nobody's list, and
\* its creator goes for tid_lock.
LEMMA CreateFields ==
  ASSUME IInv, NEW t \in Thread, NEW u \in Thread, CallThreadCreate(t, u)
  PROVE  /\ frame'[t].lock = TidLock /\ frame'[t].obj = u
         /\ frame'[u] = Code /\ status'[u] = "blocked"
         /\ status[u] = "none" /\ frame[u] = Code /\ t # u
         /\ \A v \in Thread : v # u => status'[v] = status[v]
         /\ \A v \in Thread : v \notin {t, u} => frame'[v] = frame[v]
<1>1. TypeOK /\ FrameOK /\ Thread \subseteq AllThreads
  BY DEF IInv, AllThreads
<1>2. t # u
  BY RunningThread DEF CallThreadCreate, InCode
<1>3. status \in [AllThreads -> Statuses] /\ frame \in [AllThreads -> Frame]
  BY <1>1 DEF IInv, SchedInv, SchedTypeOK, TypeOK
<1>4. frame' = [frame EXCEPT ![t] = At("acq", TidLock, u, None, 0), ![u] = Code]
  BY DEF CallThreadCreate
<1>5. /\ frame'[t] = At("acq", TidLock, u, None, 0) /\ frame'[u] = Code
      /\ \A v \in Thread : v \notin {t, u} => frame'[v] = frame[v]
  BY <1>1, <1>2, <1>3, <1>4
<1>6. status' = [status EXCEPT ![u] = "blocked"] /\ status[u] = "none"
  BY DEF CallThreadCreate, InitThread
<1>7. frame[u] = Code
  BY <1>1, <1>6 DEF FrameOK
<1> QED
  BY <1>1, <1>2, <1>3, <1>5, <1>6, <1>7 DEF At

\* Every step keeps the threads that are being made asleep, each with one
\* creator.
LEMMA CreatorStep == IInv /\ Next => CreatorsOK'
<1> SUFFICES ASSUME IInv, Next PROVE CreatorsOK'
  OBVIOUS
<1>1. TypeOK /\ FrameOK /\ CreatorsOK /\ Thread \subseteq AllThreads
  BY DEF IInv, AllThreads
<1>3. ASSUME NEW t \in Thread, frame'[t].lock = TidLock
      PROVE /\ frame'[t].obj \in Thread
            /\ status'[frame'[t].obj] = "blocked"
            /\ frame'[frame'[t].obj].at = "code"
  <2>1. CASE \E u \in Thread : CallThreadCreate(t, u)
    BY CreateFields, <2>1 DEF Code, At
  <2>2. CASE frame[t].lock = TidLock /\ frame'[t].obj = frame[t].obj /\ ~ThreadReady(t)
    <3> DEFINE v == frame[t].obj
    <3>1. v \in Thread /\ status[v] = "blocked" /\ frame[v].at = "code"
      BY <1>1, <2>2 DEF CreatorsOK
    <3>2. v # current
      BY <3>1, RunningThread
    <3>3. frame'[v].at = "code"
      BY <3>1, <3>2, FrameMove DEF Code, At
    <3>4. ~\E s \in AllSemas : SemaUp(s) /\ Wakes(s, v)
      BY <3>1, WaiterBlocked DEF Wakes, InDown
    <3>5. ~\E u \in Thread : ThreadReady(u) /\ frame[u].obj = v
      <4>1. \A u \in Thread : ThreadReady(u) => frame[u].lock = TidLock
        BY <1>1 DEF ThreadReady, FrameOK, FrameGood
      <4> QED
        BY <1>1, <2>2, <4>1 DEF CreatorsOK
    <3>6. ~SemaDown(v)
      BY <3>1 DEF SemaDown, InDown
    <3>7. (\E u \in Thread : CallThreadCreate(u, v)) => status'[v] = "blocked"
      BY CreateFields, <3>1
    <3>8. status'[v] = "blocked"
      BY <3>1, <3>4, <3>5, <3>6, <3>7, BlockedStep
    <3> QED
      BY <2>2, <3>1, <3>3, <3>8
  <2> QED
    BY <1>3, <2>1, <2>2, CreatorMove
<1>4. ASSUME NEW t \in Thread, NEW u \in Thread,
             frame'[t].lock = TidLock, frame'[u].lock = TidLock,
             frame'[t].obj = frame'[u].obj, t # u
      PROVE FALSE
  <2>1. ASSUME NEW x \in Thread, NEW y \in Thread, NEW v \in Thread,
               CallThreadCreate(x, v), frame'[y].lock = TidLock,
               frame'[y].obj = v, y # x
        PROVE FALSE
    <3>1. y # v
      BY CreateFields, <2>1, SynchAssumption DEF Code, At
    <3>2. frame'[y] = frame[y]
      BY CreateFields, <2>1, <3>1
    <3>3. status[v] = "blocked"
      BY <1>1, <2>1, <3>2 DEF CreatorsOK
    <3> QED
      BY CreateFields, <2>1, <3>3
  <2>2. ~\E v \in Thread : CallThreadCreate(t, v)
    BY CreateFields, <1>4, <2>1
  <2>3. ~\E v \in Thread : CallThreadCreate(u, v)
    BY CreateFields, <1>4, <2>1
  <2>4. /\ frame[t].lock = TidLock /\ frame[t].obj = frame'[t].obj
        /\ frame[u].lock = TidLock /\ frame[u].obj = frame'[u].obj
    BY <1>4, <2>2, <2>3, CreatorMove
  <2> QED
    BY <1>1, <1>4, <2>4 DEF CreatorsOK
<1> QED
  BY <1>3, <1>4 DEF CreatorsOK

-----------------------------------------------------------------------------
\* A step wakes the first waiter of one semaphore, or puts a thread to sleep
\* on one, or leaves the wait lists and the threads on them alone.
LEMMA WaitersMove ==
  ASSUME IInv, Next
  PROVE  \/ \E s \in AllSemas : SemaUp(s)
         \/ \E t \in Thread : SemaDown(t) /\ value[Downs(t)] = 0
         \/ /\ waiters' = waiters
            /\ \A x \in Thread : \/ status'[x] = "blocked" <=> status[x] = "blocked"
                                 \/ frame[x].at = "code" /\ frame'[x].at = "code"
<1> SUFFICES ASSUME ~ \E s \in AllSemas : SemaUp(s),
                    ~ \E t \in Thread : SemaDown(t) /\ value[Downs(t)] = 0
             PROVE  /\ waiters' = waiters
                    /\ \A x \in Thread :
                         \/ status'[x] = "blocked" <=> status[x] = "blocked"
                         \/ frame[x].at = "code" /\ frame'[x].at = "code"
  OBVIOUS
<1>1. /\ TypeOK /\ FrameOK /\ CreatorsOK /\ WaitListExact
      /\ Sema \subseteq AllSemas /\ Lock \subseteq AllSemas
      /\ AllThreads \subseteq AllSemas /\ Thread \subseteq AllThreads
  BY DEF IInv, AllSemas, AllThreads
<1>2. waiters' = waiters
  <2>1. ASSUME NEW t \in Thread, NEW c \in Cond, CallCondWait(t, c)
        PROVE waiters' = waiters
    <3>1. \A y \in AllThreads : ~Queued(y, waiters[t])
      <4> SUFFICES ASSUME NEW y \in AllThreads, InDown(y), Downs(y) = t
                   PROVE  FALSE
        BY <1>1 DEF WaitListExact
      <4>1. frame[t].at = "code"
        BY <2>1 DEF CallCondWait, InCode
      <4>2. y \in Thread
        BY <1>1 DEF FrameOK, InDown, AllThreads
      <4>3. (Sema \cup Lock) \cap AllThreads = {}
        BY SynchAssumption
      <4>4. y = t
        BY <1>1, <4>2, <4>3 DEF FrameOK, FrameGood, InDown, Downs
      <4> QED
        BY <4>1, <4>4 DEF InDown
    <3>2. waiters \in [AllSemas -> Seq(AllThreads)]
      BY <1>1 DEF TypeOK
    <3>3. waiters[t] = <<>>
      <4>1. waiters[t] \in Seq(AllThreads)
        BY <1>1, <3>2
      <4>2. waiters[t] # <<>> => Queued(waiters[t][1], waiters[t])
                                 /\ waiters[t][1] \in AllThreads
        BY <4>1 DEF Queued
      <4> QED
        BY <3>1, <4>2
    <3>4. waiters' = [waiters EXCEPT ![t] = <<>>]
      BY <2>1 DEF CallCondWait
    <3> QED
      BY <3>2, <3>3, <3>4
  <2>2. ASSUME NEW t \in Thread, Call(t) PROVE waiters' = waiters
    BY <1>1, <2>1, <2>2
       DEF Call, CallSemaDown, SemaTryDown, CallSemaUp, CallLockAcquire,
           CallLockTryAcquire, CallLockRelease, CallCondSignal,
           CallCondBroadcast, PopWaiter, CallThreadCreate, CallThreadYield,
           CallThreadExit, synchVars
  <2>3. ASSUME NEW t \in Thread, Finish(t) PROVE waiters' = waiters
    <3>1. frame[t].at \in {"rel", "wrel"} => frame[t].lock \in AllSemas
      BY <1>1 DEF FrameOK, FrameGood
    <3>2. frame[t].at \in {"sig", "bsig"} => frame[t].obj \in AllSemas
      BY <1>1 DEF FrameOK, FrameGood
    <3> QED
      BY <2>3, <3>1, <3>2
         DEF Finish, SemaDown, LockHold, LockReleased, CondWaitUnhold,
             CondWaitRelease, CondSignalUp, CondBroadcastNext, PopWaiter,
             CondBroadcastDone, TidLoad, TidStore, TidUnhold, ThreadReady
  <2>4. IdleStarted \in AllSemas
    BY <1>1, SynchAssumption
  <2> QED
    BY <1>1, <2>2, <2>3, <2>4
       DEF Next, IdleStep, IdleInit, IdleUp, IdleBlock, IdleHalt,
           TimerInterrupt, InterruptUp, synchVars
<1>3. ASSUME NEW x \in Thread
      PROVE  \/ status'[x] = "blocked" <=> status[x] = "blocked"
             \/ frame[x].at = "code" /\ frame'[x].at = "code"
  <2>1. Code.at = "code"
    BY DEF Code, At
  <2>2. ASSUME NEW t \in Thread, ThreadReady(t), frame[t].obj = x
        PROVE  frame[x].at = "code" /\ frame'[x].at = "code"
    <3>1. frame[t].lock = TidLock
      BY <1>1, <2>2 DEF ThreadReady, FrameOK, FrameGood
    <3>2. frame[x].at = "code" /\ status[x] = "blocked"
      BY <1>1, <2>2, <3>1 DEF CreatorsOK
    <3>3. x # current
      BY <3>2, RunningThread
    <3> QED
      BY <2>1, <3>2, <3>3, FrameMove
  <2>3. ASSUME NEW t \in Thread, CallThreadCreate(t, x)
        PROVE  frame[x].at = "code" /\ frame'[x].at = "code"
    BY <2>1, <2>3, CreateFields
  <2> QED
    BY <2>2, <2>3, BlockedStep
<1> QED
  BY <1>2, <1>3

\* A sleeping thread stays where it is.
LEMMA SleeperStays ==
  ASSUME IInv, Next, NEW x \in Thread, status[x] = "blocked"
  PROVE  frame'[x] = frame[x] /\ x # current
  BY RunningThread, FrameMove

\* After a step the waiters of a semaphore are again those who sleep on it.
LEMMA WaitersExactStep ==
  ASSUME IInv, Next, NEW s \in AllSemas
  PROVE  /\ \A x \in AllThreads :
              Queued(x, waiters'[s]) <=>
                status'[x] = "blocked" /\ InDown(x)' /\ Downs(x)' = s
         /\ Distinct(waiters'[s])
<1>1. TypeOK /\ FrameOK /\ WaitListExact /\ FrameOK' /\ Distinct(waiters[s])
      /\ waiters[s] \in Seq(AllThreads) /\ waiters \in [AllSemas -> Seq(AllThreads)]
  BY FrameStep DEF IInv, TypeOK, WaitListExact
<1>2. \A x \in AllThreads :
         Queued(x, waiters[s]) <=>
           status[x] = "blocked" /\ InDown(x) /\ Downs(x) = s
  BY <1>1 DEF WaitListExact
<1>3. ~InDown(Idle) /\ ~InDown(Idle)' /\ Thread \subseteq AllThreads
      /\ AllThreads = Thread \cup {Idle} /\ Idle \notin Thread
  BY <1>1, ThreadAssumption DEF FrameOK, InDown, AllThreads
<1>4. ASSUME NEW x \in Thread, status[x] = "blocked"
      PROVE  (InDown(x)' <=> InDown(x)) /\ Downs(x)' = Downs(x)
  BY <1>4, SleeperStays DEF InDown, Downs
<1>5. ASSUME NEW r \in AllSemas, SemaUp(r)
      PROVE  /\ \A x \in AllThreads :
                  Queued(x, waiters'[s]) <=>
                    status'[x] = "blocked" /\ InDown(x)' /\ Downs(x)' = s
             /\ Distinct(waiters'[s])
  <2>1. \A x \in Thread :
          status'[x] = "blocked" <=> status[x] = "blocked" /\ ~Wakes(r, x)
    BY <1>5, UpStatus
  <2>2. CASE waiters[r] = <<>> \/ r # s
    <3>1. waiters'[s] = waiters[s]
      BY <1>1, <1>5, <2>2 DEF SemaUp
    <3>2. \A x \in Thread : Wakes(r, x) => ~Queued(x, waiters[s])
      BY <1>2, <1>3, <2>2, WaiterBlocked DEF Wakes
    <3> QED
      BY <1>1, <1>2, <1>3, <1>4, <2>1, <3>1, <3>2
  <2>3. CASE waiters[r] # <<>> /\ r = s
    <3>1. waiters'[s] = Tail(waiters[s])
      BY <1>1, <1>5, <2>3 DEF SemaUp
    <3>2. /\ \A x : Queued(x, Tail(waiters[s])) <=>
                      Queued(x, waiters[s]) /\ x # Head(waiters[s])
          /\ Distinct(Tail(waiters[s]))
      BY <1>1, <2>3, QueuedTail
    <3> QED
      BY <1>2, <1>3, <1>4, <2>1, <2>3, <3>1, <3>2 DEF Wakes
  <2> QED
    BY <2>2, <2>3
<1>6. ASSUME NEW t \in Thread, SemaDown(t), value[Downs(t)] = 0
      PROVE  /\ \A x \in AllThreads :
                  Queued(x, waiters'[s]) <=>
                    status'[x] = "blocked" /\ InDown(x)' /\ Downs(x)' = s
             /\ Distinct(waiters'[s])
  <2>1. /\ frame' = frame /\ ThreadBlock /\ InDown(t) /\ current = t
        /\ waiters' = [waiters EXCEPT ![Downs(t)] = Append(@, t)]
    BY <1>6 DEF SemaDown
  <2>2. \A x \in Thread :
          status'[x] = "blocked" <=> status[x] = "blocked" \/ x = t
    BY <2>1, BlockStatus DEF IInv
  <2>3. \A x \in AllThreads : (InDown(x)' <=> InDown(x)) /\ Downs(x)' = Downs(x)
    BY <2>1 DEF InDown, Downs
  <2>4. ~Queued(t, waiters[s])
    BY <1>2, <1>3, <2>1, RunningThread
  <2>5. CASE Downs(t) # s
    <3>1. waiters'[s] = waiters[s]
      BY <1>1, <2>1, <2>5
    <3> QED
      BY <1>1, <1>2, <1>3, <2>2, <2>3, <2>4, <2>5, <3>1
  <2>6. CASE Downs(t) = s
    <3>1. waiters'[s] = Append(waiters[s], t)
      BY <1>1, <2>1, <2>6
    <3>2. /\ \A x : Queued(x, Append(waiters[s], t)) <=>
                      Queued(x, waiters[s]) \/ x = t
          /\ Distinct(Append(waiters[s], t))
      BY <1>1, <1>3, <2>4, QueuedAppend, DistinctAppend
    <3> QED
      BY <1>2, <1>3, <2>1, <2>2, <2>3, <2>6, <3>1, <3>2
  <2> QED
    BY <2>5, <2>6
<1>7. ASSUME waiters' = waiters,
             \A x \in Thread : \/ status'[x] = "blocked" <=> status[x] = "blocked"
                               \/ frame[x].at = "code" /\ frame'[x].at = "code"
      PROVE  /\ \A x \in AllThreads :
                  Queued(x, waiters'[s]) <=>
                    status'[x] = "blocked" /\ InDown(x)' /\ Downs(x)' = s
             /\ Distinct(waiters'[s])
  <2>1. \A x \in Thread : frame[x].at = "code" /\ frame'[x].at = "code"
                            => ~InDown(x) /\ ~InDown(x)'
    BY DEF InDown
  <2> QED
    BY <1>1, <1>2, <1>3, <1>4, <1>7, <2>1
<1> QED
  BY <1>5, <1>6, <1>7, WaitersMove

\* Every step keeps wait lists exact.
LEMMA WaitStep == IInv /\ Next => WaitListExact'
<1> SUFFICES ASSUME IInv, Next PROVE WaitListExact'
  OBVIOUS
<1>1. FrameOK /\ CreatorsOK /\ WaitListExact /\ Thread \subseteq AllThreads
  BY DEF IInv, AllThreads
<1>2. ASSUME NEW x \in Thread, status'[x] = "blocked"
      PROVE  \/ InDown(x)'
             \/ \E u \in Thread : frame'[u].lock = TidLock /\ frame'[u].obj = x
  <2>1. CASE status[x] = "blocked" /\ InDown(x)
    BY <2>1, SleeperStays DEF InDown
  <2>2. CASE status[x] = "blocked" /\ ~InDown(x)
    <3>1. PICK u \in Thread : frame[u].lock = TidLock /\ frame[u].obj = x
      BY <1>1, <2>2 DEF WaitListExact
    <3>2. ~ThreadReady(u)
      BY <1>1, <1>2, <3>1
         DEF ThreadReady, ThreadUnblock, IInv, SchedInv, SchedTypeOK
    <3> QED
      BY <3>1, <3>2, CreatorMove
  <2>3. CASE SemaDown(x) /\ value[Downs(x)] = 0
    BY <2>3 DEF SemaDown, InDown
  <2>4. CASE \E t \in Thread : CallThreadCreate(t, x)
    BY <2>4, CreateFields
  <2> QED
    BY <1>1, <1>2, <2>1, <2>2, <2>3, <2>4, BlockedStep DEF WaitListExact
<1> QED
  BY <1>2, WaitersExactStep DEF WaitListExact

-----------------------------------------------------------------------------
\* The places between taking a lock's unit and setting holder, and between
\* clearing holder and giving the unit back.
Passing == {"hold", "rel", "wrel"}

\* When neither locks' values nor owners change, locks exclude as before.
LEMMA OwnSame ==
  ASSUME IInv,
         \A l \in Lock : value'[l] = value[l],
         \A l \in Lock : \A x \in AllThreads : Owns(x, l)' <=> Owns(x, l)
  PROVE  MutualExclusion'
  BY DEF IInv, MutualExclusion

\* A thread that takes the unit of a free lock becomes its one owner.
LEMMA OwnGain ==
  ASSUME IInv, NEW t \in AllThreads, NEW l \in Lock,
         value[l] # 0, value'[l] = value[l] - 1, Owns(t, l)',
         \A m \in Lock : m # l => value'[m] = value[m],
         \A m \in Lock : \A x \in AllThreads :
            ~(m = l /\ x = t) => (Owns(x, m)' <=> Owns(x, m))
  PROVE  MutualExclusion'
<1> SUFFICES ASSUME NEW m \in Lock
             PROVE  /\ value'[m] \in {0, 1}
                    /\ value'[m] = 0 <=> \E x \in AllThreads : Owns(x, m)'
                    /\ \A x, u \in AllThreads :
                          Owns(x, m)' /\ Owns(u, m)' => x = u
  BY DEF MutualExclusion
<1>1. /\ value[m] \in {0, 1}
      /\ value[m] = 0 <=> \E x \in AllThreads : Owns(x, m)
      /\ \A x, u \in AllThreads : Owns(x, m) /\ Owns(u, m) => x = u
  BY DEF IInv, MutualExclusion
<1>2. CASE m = l
  BY <1>1, <1>2
<1>3. CASE m # l
  BY <1>1, <1>3
<1> QED
  BY <1>2, <1>3

\* The owner that gives the unit back leaves the lock without one.
LEMMA OwnLose ==
  ASSUME IInv, NEW t \in AllThreads, NEW l \in Lock,
         Owns(t, l), value'[l] = value[l] + 1, ~Owns(t, l)',
         \A m \in Lock : m # l => value'[m] = value[m],
         \A m \in Lock : \A x \in AllThreads :
            ~(m = l /\ x = t) => (Owns(x, m)' <=> Owns(x, m))
  PROVE  MutualExclusion'
<1> SUFFICES ASSUME NEW m \in Lock
             PROVE  /\ value'[m] \in {0, 1}
                    /\ value'[m] = 0 <=> \E x \in AllThreads : Owns(x, m)'
                    /\ \A x, u \in AllThreads :
                          Owns(x, m)' /\ Owns(u, m)' => x = u
  BY DEF MutualExclusion
<1>1. /\ value[m] \in {0, 1}
      /\ value[m] = 0 <=> \E x \in AllThreads : Owns(x, m)
      /\ \A x, u \in AllThreads : Owns(x, m) /\ Owns(u, m) => x = u
  BY DEF IInv, MutualExclusion
<1>2. CASE m = l
  BY <1>1, <1>2
<1>3. CASE m # l
  BY <1>1, <1>3
<1> QED
  BY <1>2, <1>3

\* A step that neither touches a lock nor brings a thread to, or takes it
\* from, a place where it owns one.
LEMMA OwnOther ==
  ASSUME IInv, holder' = holder,
         \A l \in Lock : value'[l] = value[l],
         \A x \in AllThreads :
            \/ frame'[x] = frame[x]
            \/ /\ frame[x].at \notin Passing /\ frame'[x].at \notin Passing
               /\ frame'[x].at = "wunhold" => holder[frame'[x].lock] = x
               /\ frame'[x].at \in {"load", "store", "unhold"}
                    => holder[TidLock] = x
  PROVE  HoldersOK' /\ MutualExclusion'
<1>1. HoldersOK'
  BY DEF IInv, HoldersOK, Passing, AllThreads
<1>2. \A l \in Lock : \A x \in AllThreads : Owns(x, l)' <=> Owns(x, l)
  BY DEF Owns, Passing
<1> QED
  BY <1>1, <1>2, OwnSame

\* sema_up() of a lock's own semaphore, and of another.
LEMMA UpLocks ==
  ASSUME IInv, NEW s \in AllSemas, SemaUp(s)
  PROVE  /\ s \in Lock => value'[s] = value[s] + 1
         /\ \A l \in Lock : l # s => value'[l] = value[l]
  BY DEF SemaUp, IInv, TypeOK, AllSemas

\* When the semaphore of a lock is up nobody holds it.
LEMMA FreeLock ==
  ASSUME IInv, NEW l \in Lock, value[l] # 0
  PROVE  holder[l] = None /\ \A x \in AllThreads : ~Owns(x, l)
  BY DEF IInv, TypeOK, MutualExclusion, Owns

\* sema_down() or sema_try_down() in lock_acquire() or lock_try_acquire().
LEMMA GainStep ==
  ASSUME IInv, NEW t \in Thread, NEW l \in Lock, frame[t].at \notin Passing,
         value[l] # 0, value' = [value EXCEPT ![l] = @ - 1],
         holder' = holder, frame'[t].at = "hold", frame'[t].lock = l,
         \A x \in AllThreads : x # t => frame'[x] = frame[x]
  PROVE  HoldersOK' /\ MutualExclusion'
<1>1. t \in AllThreads /\ value \in [AllSemas -> Nat] /\ l \in AllSemas
      /\ Lock \subseteq AllSemas
  BY DEF IInv, TypeOK, AllThreads, AllSemas
<1>2. holder[l] = None /\ \A x \in AllThreads : ~Owns(x, l)
  BY FreeLock
<1>3. HoldersOK'
  BY <1>2 DEF IInv, HoldersOK, AllThreads
<1>4. Owns(t, l)'
  BY DEF Owns
<1>5. \A m \in Lock : \A x \in AllThreads :
         ~(m = l /\ x = t) => (Owns(x, m)' <=> Owns(x, m))
  BY <1>2 DEF Owns, Passing
<1>6. value'[l] = value[l] - 1 /\ \A m \in Lock : m # l => value'[m] = value[m]
  BY <1>1
<1> QED
  BY <1>1, <1>3, <1>4, <1>5, <1>6, OwnGain

\* sema_up() in lock_release(), also from cond_wait() and thread_create().
LEMMA LoseStep ==
  ASSUME IInv, NEW t \in Thread, NEW l \in Lock, frame[t].at \in {"rel", "wrel"},
         frame[t].lock = l, SemaUp(l), holder' = holder,
         frame'[t].at \in {"code", "ready", "wait"},
         \A x \in AllThreads : x # t => frame'[x] = frame[x]
  PROVE  HoldersOK' /\ MutualExclusion'
<1>1. t \in AllThreads /\ l \in AllSemas /\ holder[l] = None /\ t # None
  BY ThreadAssumption DEF IInv, HoldersOK, AllThreads, AllSemas
<1>2. HoldersOK'
  BY DEF IInv, HoldersOK, AllThreads
<1>3. Owns(t, l) /\ ~Owns(t, l)'
  BY <1>1 DEF Owns
<1>4. \A m \in Lock : \A x \in AllThreads :
         ~(m = l /\ x = t) => (Owns(x, m)' <=> Owns(x, m))
  BY DEF Owns
<1> QED
  BY <1>1, <1>2, <1>3, <1>4, OwnLose, UpLocks

\* The owner of a lock writes holder.
LEMMA HolderStep ==
  ASSUME IInv, NEW t \in Thread, NEW l \in Lock, value' = value,
         NEW h \in {None, t}, holder' = [holder EXCEPT ![l] = h],
         Owns(t, l), Owns(t, l)',
         frame[t].at \in Passing => frame[t].lock = l,
         frame'[t].at \in Passing => frame'[t].lock = l,
         h = None => frame'[t].at \in {"rel", "wrel"} /\ frame'[t].lock = l,
         h = t => frame'[t].at \in {"code", "load"},
         frame'[t].at = "load" => l = TidLock,
         \A x \in AllThreads : x # t => frame'[x] = frame[x]
  PROVE  HoldersOK' /\ MutualExclusion'
<1>1. /\ t \in AllThreads /\ t # None /\ holder \in [Lock -> AllThreads \cup {None}]
      /\ Thread \subseteq AllThreads /\ TidLock \in Lock
  BY ThreadAssumption, SynchAssumption DEF IInv, TypeOK, AllThreads
<1>2. \A x \in AllThreads : Owns(x, l) => x = t
  BY <1>1 DEF IInv, MutualExclusion
<1>3. /\ holder'[l] = h /\ \A m \in Lock : m # l => holder'[m] = holder[m]
  BY <1>1
<1>4. \A m \in Lock : \A x \in AllThreads : Owns(x, m)' <=> Owns(x, m)
  <2>1. \A x \in AllThreads : x # t => (Owns(x, l)' <=> Owns(x, l))
    <3>1. \A x \in AllThreads : x # t => holder'[l] # x /\ holder[l] # x
                                         /\ x # None
      BY <1>1, <1>2, <1>3, ThreadAssumption DEF Owns, AllThreads
    <3> QED
      BY <3>1 DEF Owns
  <2>2. \A m \in Lock : m # l => \A x \in AllThreads : Owns(x, m)' <=> Owns(x, m)
    BY <1>3 DEF Owns, Passing
  <2> QED
    BY <2>1, <2>2
<1>5. ASSUME NEW x \in Thread
      PROVE /\ frame'[x].at \in {"hold", "rel", "wrel"} => holder'[frame'[x].lock] = None
            /\ frame'[x].at = "wunhold" => holder'[frame'[x].lock] = x
            /\ frame'[x].at \in {"load", "store", "unhold"} => holder'[TidLock] = x
  <2>1. CASE x = t
    BY <1>1, <1>3, <2>1
  <2>2. CASE x # t
    <3>1. frame'[x] = frame[x] /\ FrameGood(frame[x]) /\ ~Owns(x, l)
      BY <1>1, <1>2, <2>2 DEF IInv, FrameOK
    <3>2. frame[x].at \in {"hold", "rel", "wrel"} =>
            frame[x].lock \in Lock /\ holder[frame[x].lock] = None
      BY <3>1 DEF IInv, HoldersOK, FrameGood
    <3>3. frame[x].at = "wunhold" => frame[x].lock \in Lock
                                     /\ holder[frame[x].lock] = x
      BY <3>1 DEF IInv, HoldersOK, FrameGood
    <3>4. frame[x].at \in {"load", "store", "unhold"} => holder[TidLock] = x
      BY DEF IInv, HoldersOK
    <3> QED
      BY <1>1, <1>3, <3>1, <3>2, <3>3, <3>4 DEF Owns
  <2> QED
    BY <2>1, <2>2
<1>6. HoldersOK'
  BY <1>5 DEF HoldersOK
<1> QED
  BY <1>4, <1>6, OwnSame

\* Every step keeps locks exclusive and holders in order.
LEMMA OwnStep == IInv /\ Next => HoldersOK' /\ MutualExclusion'
<1> DEFINE Goal == HoldersOK' /\ MutualExclusion'
<1> SUFFICES ASSUME IInv, Next PROVE Goal
  OBVIOUS
<1>1. /\ TypeOK /\ FrameOK /\ HoldersOK /\ Idle \in AllThreads
      /\ Sema \subseteq AllSemas /\ Lock \subseteq AllSemas
      /\ AllThreads \subseteq AllSemas /\ Thread \subseteq AllThreads
      /\ Sema \cap Lock = {} /\ AllThreads \cap Lock = {} /\ None \notin Lock
      /\ value \in [AllSemas -> Nat]
  BY SynchAssumption DEF IInv, TypeOK, AllSemas, AllThreads
<1>2. ASSUME NEW r \in AllSemas \ Lock, NEW v, value' = [value EXCEPT ![r] = v]
      PROVE  \A l \in Lock : value'[l] = value[l]
  BY <1>1, <1>2
<1>3. ASSUME holder' = holder, frame' = frame, \A l \in Lock : value'[l] = value[l]
      PROVE  Goal
  BY <1>3, OwnOther
<1>4. ASSUME NEW t \in Thread, holder' = holder,
             \A l \in Lock : value'[l] = value[l],
             \A x \in AllThreads : x # t => frame'[x] = frame[x],
             frame[t].at \notin Passing, frame'[t].at \notin Passing,
             frame'[t].at = "wunhold" => holder[frame'[t].lock] = t,
             frame'[t].at \in {"load", "store", "unhold"} => holder[TidLock] = t
      PROVE  Goal
  BY <1>4, OwnOther
<1>5. \A t \in Thread : \A f : /\ [frame EXCEPT ![t] = f][t] = f
                               /\ \A x \in AllThreads :
                                     x # t => [frame EXCEPT ![t] = f][x] = frame[x]
  BY <1>1, PutFields
<1>6. \A t \in Thread : \A label :
        /\ Go(t, label)[t].at = label
        /\ Go(t, label)[t].lock = frame[t].lock
        /\ \A x \in AllThreads : x # t => Go(t, label)[x] = frame[x]
  BY <1>1, GoFields
<1>8. \A t \in Thread : FrameGood(frame[t])
  BY <1>1 DEF FrameOK
<1>9. Code.at = "code"
  BY DEF Code, At
<1>10. ASSUME NEW t \in Thread, holder' = holder,
              \A l \in Lock : value'[l] = value[l],
              NEW f, frame' = [frame EXCEPT ![t] = f],
              frame[t].at \notin Passing,
              f.at \in {"code", "sema", "acq", "sig", "bsig", "bcast"}
       PROVE  Goal
  BY <1>4, <1>5, <1>10 DEF Passing
<1>11. ASSUME NEW t \in Thread, NEW c \in Cond, NEW label \in {"sig", "bsig"},
              frame[t].at \notin Passing, PopWaiter(t, c, label)
       PROVE  Goal
  <2>1. At(label, None, Head(condWaiters[c]), c, 0).at = label
    BY DEF At
  <2> QED
    BY <1>10, <1>11, <2>1 DEF PopWaiter
<1>12. ASSUME NEW t \in Thread, Call(t) PROVE Goal
  <2>1. frame[t].at = "code" /\ "code" \notin Passing
    BY <1>12
       DEF Call, CallSemaDown, SemaTryDown, CallSemaUp, CallLockAcquire,
           CallLockTryAcquire, CallLockRelease, CallCondWait, CallCondSignal,
           CallCondBroadcast, CallThreadCreate, CallThreadYield, CallThreadExit,
           InCode, Passing
  <2>2. ASSUME NEW s \in Sema, CallSemaDown(t, s) PROVE Goal
    <3>1. At("sema", None, s, None, 0).at = "sema"
      BY DEF At
    <3> QED
      BY <1>10, <2>1, <2>2, <3>1 DEF CallSemaDown
  <2>3. CASE \E s \in Sema : SemaTryDown(t, s)
    BY <1>1, <1>2, <1>3, <2>3 DEF SemaTryDown
  <2>4. CASE \E s \in Sema : CallSemaUp(t, s)
    BY <1>1, <1>3, <2>4, UpLocks DEF CallSemaUp
  <2>5. ASSUME NEW l \in Lock \ {TidLock}, CallLockAcquire(t, l) PROVE Goal
    <3>1. At("acq", l, None, None, 0).at = "acq"
      BY DEF At
    <3> QED
      BY <1>10, <2>1, <2>5, <3>1 DEF CallLockAcquire
  <2>6. ASSUME NEW l \in Lock \ {TidLock}, CallLockTryAcquire(t, l) PROVE Goal
    <3>1. /\ value[l] # 0 /\ value' = [value EXCEPT ![l] = @ - 1]
          /\ holder' = holder
          /\ frame' = [frame EXCEPT ![t] = At("hold", l, None, None, 0)]
      BY <2>6 DEF CallLockTryAcquire
    <3>2. /\ frame'[t].at = "hold" /\ frame'[t].lock = l
          /\ \A x \in AllThreads : x # t => frame'[x] = frame[x]
      BY <1>5, <3>1 DEF At
    <3> QED
      BY <2>1, <3>1, <3>2, GainStep
  <2>7. ASSUME NEW l \in Lock \ {TidLock}, CallLockRelease(t, l) PROVE Goal
    <3>1. /\ holder[l] = t /\ holder' = [holder EXCEPT ![l] = None]
          /\ value' = value
          /\ frame' = [frame EXCEPT ![t] = At("rel", l, None, None, 0)]
      BY <2>7 DEF CallLockRelease
    <3>2. /\ frame'[t].at = "rel" /\ frame'[t].lock = l
          /\ \A x \in AllThreads : x # t => frame'[x] = frame[x]
      BY <1>5, <3>1 DEF At
    <3>3. Owns(t, l) /\ Owns(t, l)'
      BY <3>1, <3>2 DEF Owns
    <3>4. t # None /\ frame[t].at \notin Passing
      BY <2>1, ThreadAssumption
    <3> QED
      BY <3>1, <3>2, <3>3, <3>4, HolderStep
  <2>8. ASSUME NEW c \in Cond, CallCondWait(t, c) PROVE Goal
    <3>1. /\ holder[LockOf[c]] = t /\ holder' = holder
          /\ value' = [value EXCEPT ![t] = 0]
          /\ frame' = [frame EXCEPT ![t] = At("wunhold", LockOf[c], None, c, 0)]
      BY <2>8 DEF CallCondWait
    <3>2. t \in AllSemas \ Lock
      BY <1>1
    <3>3. \A l \in Lock : value'[l] = value[l]
      BY <1>2, <3>1, <3>2
    <3>4. /\ frame'[t].at = "wunhold" /\ frame'[t].lock = LockOf[c]
          /\ \A x \in AllThreads : x # t => frame'[x] = frame[x]
      BY <1>5, <3>1 DEF At
    <3> QED
      BY <1>4, <2>1, <3>1, <3>3, <3>4 DEF Passing
  <2>9. ASSUME NEW c \in Cond, CallCondSignal(t, c) \/ CallCondBroadcast(t, c)
        PROVE Goal
    BY <1>11, <2>1, <2>9 DEF CallCondSignal, CallCondBroadcast
  <2>10. ASSUME NEW u \in Thread, CallThreadCreate(t, u) PROVE Goal
    <3>1. frame' = [frame EXCEPT ![t] = At("acq", TidLock, u, None, 0), ![u] = Code]
          /\ holder' = holder /\ value' = value
          /\ frame \in [AllThreads -> Frame]
      BY <1>1, <2>10 DEF CallThreadCreate, TypeOK
    <3>2. frame[u] = Code /\ t # u
      BY <2>10, CreateFields
    <3>3. \A x \in AllThreads : x # t => frame'[x] = frame[x]
      BY <1>1, <3>1, <3>2
    <3>4. frame'[t] = At("acq", TidLock, u, None, 0)
      BY <1>1, <3>1, <3>2
    <3> QED
      BY <1>4, <2>1, <3>1, <3>3, <3>4 DEF At, Passing
  <2>11. CASE CallThreadYield(t) \/ CallThreadExit(t)
    BY <1>3, <2>11 DEF CallThreadYield, CallThreadExit, synchVars
  <2> QED
    BY <1>12, <2>2, <2>3, <2>4, <2>5, <2>6, <2>7, <2>8, <2>9, <2>10, <2>11
       DEF Call
<1>13. ASSUME NEW t \in Thread, Finish(t) PROVE Goal
  <2>1. CASE SemaDown(t)
    <3>1. CASE value[Downs(t)] = 0 \/ frame[t].at = "sema" \/ frame[t].at = "wait"
      <4>1. holder' = holder /\ InDown(t) /\ frame[t].at \notin Passing
        BY <2>1 DEF SemaDown, InDown, Passing
      <4>2. CASE value[Downs(t)] = 0
        BY <1>3, <2>1, <4>2 DEF SemaDown
      <4>3. CASE value[Downs(t)] # 0
        <5>1. Downs(t) \in AllSemas \ Lock
          BY <1>1, <1>8, <3>1, <4>3 DEF Downs, FrameGood
        <5>2. \A l \in Lock : value'[l] = value[l]
          BY <1>2, <2>1, <4>3, <5>1 DEF SemaDown
        <5>3. CASE frame' = Return(t)
          BY <1>9, <1>10, <4>1, <5>2, <5>3 DEF Return
        <5>4. CASE frame' = Go(t, "acq")
          BY <1>4, <1>6, <4>1, <5>2, <5>4 DEF Passing
        <5> QED
          BY <2>1, <3>1, <4>3, <5>3, <5>4 DEF SemaDown, Downed
      <4> QED
        BY <4>2, <4>3
    <3>2. CASE value[Downs(t)] # 0 /\ frame[t].at = "acq"
      <4>1. /\ Downs(t) = frame[t].lock /\ frame[t].lock \in Lock
            /\ frame[t].at \notin Passing
        BY <1>8, <3>2 DEF Downs, FrameGood, Passing
      <4>2. /\ value' = [value EXCEPT ![frame[t].lock] = @ - 1]
            /\ holder' = holder /\ frame' = Go(t, "hold")
        BY <2>1, <3>2, <4>1 DEF SemaDown, Downed
      <4>3. /\ frame'[t].at = "hold" /\ frame'[t].lock = frame[t].lock
            /\ \A x \in AllThreads : x # t => frame'[x] = frame[x]
        BY <1>6, <4>2
      <4> QED
        BY <3>2, <4>1, <4>2, <4>3, GainStep
    <3> QED
      BY <2>1, <3>1, <3>2 DEF SemaDown, InDown
  <2>2. CASE LockHold(t)
    <3>0. PICK l \in Lock : l = frame[t].lock
      BY <1>8, <2>2 DEF LockHold, FrameGood
    <3>1. /\ frame[t].at = "hold"
          /\ holder' = [holder EXCEPT ![l] = t] /\ value' = value
          /\ frame' = IF l = TidLock THEN Go(t, "load") ELSE Return(t)
      BY <2>2, <3>0 DEF LockHold
    <3>2. /\ frame'[t].at = IF l = TidLock THEN "load" ELSE "code"
          /\ \A x \in AllThreads : x # t => frame'[x] = frame[x]
      <4>1. CASE l = TidLock
        BY <1>6, <3>1, <4>1
      <4>2. CASE l # TidLock
        BY <1>5, <1>9, <3>1, <4>2 DEF Return
      <4> QED
        BY <4>1, <4>2
    <3>3. holder'[l] = t
      BY <1>1, <3>1 DEF TypeOK
    <3>4. Owns(t, l) /\ Owns(t, l)'
      BY <3>0, <3>1, <3>3 DEF Owns
    <3>5. t # None /\ frame'[t].at \notin Passing
      BY <3>2, ThreadAssumption DEF Passing
    <3> QED
      BY <3>0, <3>1, <3>2, <3>4, <3>5, HolderStep
  <2>3. CASE LockReleased(t) \/ CondWaitRelease(t)
    <3>1. /\ frame[t].at \in {"rel", "wrel"} /\ frame[t].lock \in Lock
          /\ SemaUp(frame[t].lock) /\ holder' = holder
      BY <1>8, <2>3 DEF LockReleased, CondWaitRelease, FrameGood
    <3>2. /\ frame'[t].at \in {"code", "ready", "wait"}
          /\ \A x \in AllThreads : x # t => frame'[x] = frame[x]
      <4>1. CASE frame' = Return(t)
        BY <1>5, <1>9, <4>1 DEF Return
      <4>2. CASE frame' = Go(t, "ready") \/ frame' = Go(t, "wait")
        BY <1>6, <4>2
      <4> QED
        BY <2>3, <4>1, <4>2 DEF LockReleased, CondWaitRelease
    <3> QED
      BY <3>1, <3>2, LoseStep
  <2>4. CASE CondWaitUnhold(t)
    <3>0. PICK l \in Lock : l = frame[t].lock
      BY <1>8, <2>4 DEF CondWaitUnhold, FrameGood
    <3>1. /\ frame[t].at = "wunhold" /\ holder[l] = t
          /\ holder' = [holder EXCEPT ![l] = None] /\ value' = value
          /\ frame' = Go(t, "wrel")
      BY <1>1, <2>4, <3>0 DEF CondWaitUnhold, HoldersOK
    <3>2. /\ frame'[t].at = "wrel" /\ frame'[t].lock = l
          /\ \A x \in AllThreads : x # t => frame'[x] = frame[x]
      BY <1>6, <3>0, <3>1
    <3>3. /\ Owns(t, l) /\ Owns(t, l)'
          /\ frame[t].at \notin Passing /\ t # None
      BY <3>1, <3>2, ThreadAssumption DEF Owns, Passing
    <3> QED
      BY <3>1, <3>2, <3>3, HolderStep
  <2>5. CASE TidUnhold(t)
    <3>1. /\ frame[t].at = "unhold" /\ TidLock \in Lock /\ holder[TidLock] = t
          /\ holder' = [holder EXCEPT ![TidLock] = None] /\ value' = value
          /\ frame' = Go(t, "rel") /\ frame[t].lock = TidLock
      BY <1>1, <1>8, <2>5, SynchAssumption DEF TidUnhold, FrameGood, HoldersOK
    <3>2. /\ frame'[t].at = "rel" /\ frame'[t].lock = TidLock
          /\ \A x \in AllThreads : x # t => frame'[x] = frame[x]
      BY <1>6, <3>1
    <3>3. /\ Owns(t, TidLock) /\ Owns(t, TidLock)'
          /\ frame[t].at \notin Passing /\ t # None
      BY <3>1, <3>2, ThreadAssumption DEF Owns, Passing
    <3> QED
      BY <3>1, <3>2, <3>3, HolderStep
  <2>6. CASE CondSignalUp(t)
    <3>1. /\ frame[t].at \in {"sig", "bsig"} /\ holder' = holder
          /\ \A l \in Lock : value'[l] = value[l]
      BY <1>1, <1>8, <2>6, UpLocks DEF CondSignalUp, FrameGood
    <3>2. /\ frame'[t].at \in {"code", "bcast"} /\ frame[t].at \notin Passing
          /\ frame'[t].at \notin Passing
          /\ \A x \in AllThreads : x # t => frame'[x] = frame[x]
      BY <1>5, <1>6, <1>9, <2>6, <3>1 DEF CondSignalUp, Return, Passing
    <3> QED
      BY <1>4, <3>1, <3>2
  <2>7. CASE CondBroadcastNext(t)
    BY <1>8, <1>11, <2>7 DEF CondBroadcastNext, FrameGood, Passing
  <2>8. CASE CondBroadcastDone(t) \/ ThreadReady(t)
    BY <1>9, <1>10, <2>8 DEF CondBroadcastDone, ThreadReady, Return, Passing
  <2>9. CASE TidLoad(t)
    <3>1. /\ frame[t].at = "load" /\ holder' = holder /\ value' = value
          /\ holder[TidLock] = t /\ frame[t].at \notin Passing
      BY <1>1, <2>9 DEF TidLoad, HoldersOK, Passing
    <3>2. frame \in [AllThreads -> Frame] /\ frame[t] \in Frame /\ t \in AllThreads
      BY <1>1 DEF TypeOK
    <3>3. frame'[t].at = "store" /\ \A x \in AllThreads : x # t => frame'[x] = frame[x]
      BY <2>9, <3>2 DEF TidLoad, Frame
    <3> QED
      BY <1>4, <3>1, <3>3 DEF Passing
  <2>10. CASE TidStore(t)
    <3>1. /\ frame[t].at = "store" /\ holder' = holder /\ value' = value
          /\ holder[TidLock] = t /\ frame[t].at \notin Passing
          /\ frame' = Go(t, "unhold")
      BY <1>1, <2>10 DEF TidStore, HoldersOK, Passing
    <3> QED
      BY <1>4, <1>6, <3>1 DEF Passing
  <2> QED
    BY <1>13, <2>1, <2>2, <2>3, <2>4, <2>5, <2>6, <2>7, <2>8, <2>9, <2>10
       DEF Finish
<1>14. CASE IdleStep
  <2>1. CASE IdleInit \/ IdleUp
    <3>1. IdleStarted \in AllSemas /\ IdleStarted \notin Lock
      BY <1>1, SynchAssumption
    <3>2. holder' = holder /\ \A l \in Lock : value'[l] = value[l]
      BY <2>1, <3>1, UpLocks DEF IdleInit, IdleUp
    <3>3. /\ \A x \in AllThreads : x # Idle => frame'[x] = frame[x]
          /\ frame[Idle].at \in {"code", "idleup"}
          /\ frame'[Idle].at \in {"idleup", "idle"}
      BY <1>1, <2>1, GoFields DEF IdleInit, IdleUp
    <3> QED
      BY <3>2, <3>3, OwnOther DEF Passing
  <2>2. CASE IdleBlock \/ IdleHalt
    BY <1>3, <2>2 DEF IdleBlock, IdleHalt, synchVars
  <2> QED
    BY <1>14, <2>1, <2>2 DEF IdleStep
<1>15. CASE TimerInterrupt
  BY <1>3, <1>15 DEF TimerInterrupt, synchVars
<1>16. CASE \E s \in Sema \ {IdleStarted} : InterruptUp(s)
  BY <1>1, <1>3, <1>16, UpLocks DEF InterruptUp
<1> QED
  BY <1>12, <1>13, <1>14, <1>15, <1>16 DEF Next

-----------------------------------------------------------------------------
\* The state in which thread_start() waits for idle satisfies IInv.
LEMMA InitInv == Init => IInv
<1> SUFFICES ASSUME Init PROVE IInv
  OBVIOUS
<1>1. SchedInv
  BY SchedStart DEF Init
<1>2. /\ Sema \cap Lock = {} /\ (Sema \cup Lock) \cap AllThreads = {}
      /\ None \notin Sema \cup Lock \cup AllThreads /\ IdleStarted \in Sema
      /\ Main # Idle /\ Main \in Thread /\ Idle \notin Thread /\ TidLock # None
      /\ AllThreads = Thread \cup {Idle}
      /\ AllSemas = Sema \cup Lock \cup AllThreads
  BY ThreadAssumption, SynchAssumption DEF AllThreads, AllSemas
<1>3. /\ frame = [t \in AllThreads |->
                    IF t = Main THEN At("sema", None, IdleStarted, None, 0)
                                ELSE Code]
      /\ value = [s \in AllSemas |-> IF s \in Lock THEN 1 ELSE 0]
      /\ waiters = [s \in AllSemas |-> <<>>]
      /\ holder = [l \in Lock |-> None]
      /\ condWaiters = [c \in Cond |-> <<>>]
      /\ nextTid \in Nat /\ tid \in [AllThreads -> Nat]
  BY DEF Init
<1>4. TypeOK
  <2>1. At("sema", None, IdleStarted, None, 0) \in Frame /\ Code \in Frame
    BY <1>2, AtFrame DEF Code, Labels
  <2>2. frame \in [AllThreads -> Frame]
    BY <1>3, <2>1
  <2> QED
    BY <1>2, <1>3, <2>2 DEF TypeOK
<1>5. FrameOK
  <2>1. FrameGood(At("sema", None, IdleStarted, None, 0)) /\ FrameGood(Code)
    BY <1>2 DEF FrameGood, Code, At
  <2>2. \A t \in Thread : status[t] \in {"none", "dying"} => t # Main
    BY <1>2 DEF Init, SchedInit
  <2>3. frame[Idle] = Code /\ idleThread = None
    BY <1>2, <1>3 DEF Init, SchedInit
  <2>4. Code.at = "code" /\ Code.lock = None
    BY DEF Code, At
  <2> QED
    BY <1>2, <1>3, <2>1, <2>2, <2>3, <2>4 DEF FrameOK
<1>6. \A t \in AllThreads : frame[t].lock = None /\ frame[t].at \in {"code", "sema"}
  BY <1>3 DEF Code, At
<1>7. CreatorsOK /\ HoldersOK
  BY <1>2, <1>6 DEF CreatorsOK, HoldersOK
<1>8. \A t \in AllThreads : status[t] # "blocked"
  BY DEF Init, SchedInit
<1>9. WaitListExact
  <2>1. \A s \in AllSemas : waiters[s] = <<>>
    BY <1>3
  <2>2. Distinct(<<>>) /\ \A t : ~Queued(t, <<>>)
    BY DEF Distinct, Queued
  <2> QED
    BY <1>2, <1>8, <2>1, <2>2 DEF WaitListExact
<1>10. MutualExclusion
  <2>1. \A l \in Lock : value[l] = 1
    BY <1>2, <1>3
  <2>2. \A t \in AllThreads : \A l \in Lock : ~Owns(t, l)
    BY <1>2, <1>3, <1>6 DEF Owns
  <2> QED
    BY <2>1, <2>2 DEF MutualExclusion
<1> QED
  BY <1>1, <1>4, <1>5, <1>7, <1>9, <1>10 DEF IInv

\* IInv is inductive.
THEOREM SynchStep == IInv /\ [Next]_vars => IInv'
<1> SUFFICES ASSUME IInv, [Next]_vars PROVE IInv'
  OBVIOUS
<1>1. CASE Next
  <2>1. SchedInv'
    BY SchedStep, SchedStepOfNext DEF IInv
  <2> QED
    BY <1>1, <2>1, TypeStep, FrameStep, CreatorStep, WaitStep, OwnStep DEF IInv
<1>2. CASE UNCHANGED vars
  <2>1. SchedInv'
    BY SchedStep, SchedStepOfNext DEF IInv
  <2>2. /\ value' = value /\ waiters' = waiters /\ holder' = holder
        /\ condWaiters' = condWaiters /\ frame' = frame /\ nextTid' = nextTid
        /\ tid' = tid /\ status' = status /\ idleThread' = idleThread
    BY <1>2 DEF vars, schedVars, synchVars
  <2>3. TypeOK' /\ FrameOK' /\ CreatorsOK'
    BY <2>2 DEF IInv, TypeOK, FrameOK, CreatorsOK
  <2>4. WaitListExact'
    BY <2>2 DEF IInv, WaitListExact, InDown, Downs
  <2>5. HoldersOK' /\ MutualExclusion'
    BY <2>2 DEF IInv, HoldersOK, MutualExclusion, Owns
  <2> QED
    BY <2>1, <2>3, <2>4, <2>5 DEF IInv
<1> QED
  BY <1>1, <1>2

\* IInv holds in every reachable state.
THEOREM SynchCorrect == Spec => []IInv
<1>1. IInv /\ [Next]_vars => IInv'
  BY SynchStep
<1> QED
  BY InitInv, <1>1, PTL DEF Spec

\* Whatever threads, semaphores, locks and conditions there are, the variables
\* of synch.c keep their types.
THEOREM SynchTypes == Spec => []TypeOK
<1>1. IInv => TypeOK
  BY DEF IInv
<1> QED
  BY SynchCorrect, <1>1, PTL

\* Every thread on a wait list sleeps in sema_down() on that semaphore, and is
\* on no other list: the shared `elem' of struct thread is in one list at most.
THEOREM WaitListsExact == Spec => []WaitListExact
<1>1. IInv => WaitListExact
  BY DEF IInv
<1> QED
  BY SynchCorrect, <1>1, PTL

\* lock_acquire(), lock_try_acquire(), lock_release() and cond_wait() never let
\* two threads have one lock.
THEOREM LocksExclude == Spec => []MutualExclusion
<1>1. IInv => MutualExclusion
  BY DEF IInv
<1> QED
  BY SynchCorrect, <1>1, PTL

\* Run queue, statuses and running thread agree, whatever is called through
\* synch.c.
THEOREM SchedulerSafe == Spec => []SchedInv
<1>1. IInv => SchedInv
  BY DEF IInv
<1> QED
  BY SynchCorrect, <1>1, PTL

\* synch.c never blocks, unblocks or starts a thread in a state in which
\* thread.c's ASSERTs forbid it.
THEOREM SynchUsesScheduler == Spec => UsesScheduler
<1>1. IInv /\ [Next]_vars => [SchedNext]_schedVars
  BY SchedStepOfNext
<1> QED
  BY SynchCorrect, <1>1, PTL DEF Spec, UsesScheduler

-----------------------------------------------------------------------------
(***************************************************************************)
(* allocate_tid() of threads/thread.c never gives out a tid twice, and no  *)
(* thread runs without one, whatever threads are created beside each       *)
(* other.                                                                  *)
(*                                                                         *)
(* A tid exists in three places on its way: in next_tid, in the register   *)
(* of a thread between the load and the store of next_tid++, and in the    *)
(* frame of a thread that has not yet written it to the new struct thread. *)
(* TidInv follows it through them.                                         *)
(***************************************************************************)
\* t has been given frame[t].arg by allocate_tid() and not written it yet.
Given(t) == frame[t].lock = TidLock /\ frame[t].at \in {"unhold", "rel", "ready"}

\* Every tid is below next_tid and nobody else's, also those on their way;
\* who holds tid_lock has loaded the present next_tid; and a thread without a
\* tid has not run.
TidInv ==
  /\ \A t \in AllThreads : tid[t] < nextTid
  /\ nextTid > 0 /\ tid[Idle] # 0
  /\ \A t, u \in AllThreads : tid[t] = tid[u] /\ t # u => tid[t] = 0
  /\ \A t \in Thread : frame[t].at = "store" => frame[t].arg = nextTid
  /\ \A t \in Thread : Given(t) =>
        /\ frame[t].arg > 0 /\ frame[t].arg < nextTid
        /\ \A u \in AllThreads : tid[u] # frame[t].arg
  /\ \A t, u \in Thread : Given(t) /\ Given(u) /\ frame[t].arg = frame[u].arg => t = u
  /\ \A t \in Thread : tid[t] = 0 =>
        status[t] \notin {"ready", "running"} /\ frame[t].at = "code"

TInv == IInv /\ TidInv

\* The steps that have to do with tids.
TidStep == \E t \in Thread : \/ \E u \in Thread : CallThreadCreate(t, u)
                             \/ TidLoad(t) \/ TidStore(t) \/ ThreadReady(t)

-----------------------------------------------------------------------------
\* Only thread_create() brings back a thread that is gone.
LEMMA GoneStays ==
  ASSUME IInv, Next, NEW x \in Thread, status[x] \in {"none", "dying"}
  PROVE  status'[x] \in {"none", "dying"} \/ \E t \in Thread : CallThreadCreate(t, x)
<1> DEFINE Goal == \/ status'[x] \in {"none", "dying"}
                   \/ \E t \in Thread : CallThreadCreate(t, x)
<1> USE ThreadAssumption, SynchAssumption DEF AllSemas, IInv
<1>1. ASSUME NEW t \in Thread, Call(t) PROVE Goal
  <2>1. CASE \E s \in Sema : CallSemaUp(t, s)
    BY <2>1, UpStatus DEF CallSemaUp
  <2>2. CASE \E u \in Thread : CallThreadCreate(t, u)
    BY <2>2 DEF CallThreadCreate, InitThread, SchedInv, SchedTypeOK, AllThreads
  <2>3. CASE CallThreadYield(t)
    BY <2>3, YieldStatus DEF CallThreadYield
  <2>4. CASE CallThreadExit(t)
    BY <2>4, ExitStatus DEF CallThreadExit, InCode
  <2>5. CASE UNCHANGED schedVars
    BY <2>5 DEF schedVars
  <2> QED
    BY <1>1, <2>1, <2>2, <2>3, <2>4, <2>5
       DEF Call, CallSemaDown, SemaTryDown, CallLockAcquire, CallLockTryAcquire,
           CallLockRelease, CallCondWait, CallCondSignal, CallCondBroadcast,
           PopWaiter
<1>2. ASSUME NEW t \in Thread, Finish(t) PROVE Goal
  <2>1. CASE SemaDown(t)
    BY <2>1, BlockStatus DEF SemaDown, IntrEnable
  <2>2. CASE LockReleased(t) \/ CondWaitRelease(t) \/ CondSignalUp(t)
    <3>1. frame[t].at \in {"rel", "wrel"} => frame[t].lock \in AllSemas
      BY DEF FrameOK, FrameGood
    <3>2. frame[t].at \in {"sig", "bsig"} => frame[t].obj \in AllSemas
      BY DEF FrameOK, FrameGood
    <3> QED
      BY <2>2, <3>1, <3>2, UpStatus
         DEF LockReleased, CondWaitRelease, CondSignalUp
  <2>3. CASE ThreadReady(t)
    <3>1. frame[t].lock = TidLock
      BY <2>3 DEF ThreadReady, FrameOK, FrameGood
    <3>2. status[frame[t].obj] = "blocked" /\ frame[t].obj # x
      BY <3>1 DEF CreatorsOK
    <3> QED
      BY <2>3, <3>2 DEF ThreadReady, ThreadUnblock, SchedInv, SchedTypeOK, AllThreads
  <2>4. CASE UNCHANGED schedVars
    BY <2>4 DEF schedVars
  <2> QED
    BY <1>2, <2>1, <2>2, <2>3, <2>4
       DEF Finish, LockHold, CondWaitUnhold, CondBroadcastNext, PopWaiter,
           CondBroadcastDone, TidLoad, TidStore, TidUnhold
<1>3. CASE IdleStep
  BY <1>3, UpStatus, BlockStatus
     DEF IdleStep, IdleInit, IdleUp, IdleBlock, IdleHalt, IdleStart, IntrEnable
<1>4. CASE TimerInterrupt
  BY <1>4, TickStatus DEF TimerInterrupt
<1>5. CASE \E s \in Sema \ {IdleStarted} : InterruptUp(s)
  BY <1>5, UpStatus DEF InterruptUp
<1> QED
  BY <1>1, <1>2, <1>3, <1>4, <1>5 DEF Next

\* Moving on in a function keeps what allocate_tid() has returned.
LEMMA GoArg ==
  ASSUME TypeOK, NEW t \in AllThreads, NEW label
  PROVE  Go(t, label)[t].arg = frame[t].arg
<1>1. frame \in [AllThreads -> Frame] /\ frame[t] \in Frame
  BY DEF TypeOK
<1>2. Go(t, label)[t] = [frame[t] EXCEPT !.at = label]
  BY <1>1 DEF Go
<1> QED
  BY <1>1, <1>2 DEF Frame

\* In any other step no thread comes to hold a tid on its way.
LEMMA OtherStep ==
  ASSUME IInv, Next, ~TidStep, NEW x \in Thread
  PROVE  /\ nextTid' = nextTid /\ tid' = tid
         /\ frame'[x].at = "store" => frame'[x] = frame[x]
         /\ Given(x)' => Given(x) /\ frame'[x].arg = frame[x].arg
<1> DEFINE Goal == /\ nextTid' = nextTid /\ tid' = tid
                   /\ frame'[x].at = "store" => frame'[x] = frame[x]
                   /\ Given(x)' => Given(x) /\ frame'[x].arg = frame[x].arg
<1>1. /\ TypeOK /\ FrameOK /\ x \in AllThreads /\ Thread \subseteq AllThreads
      /\ Idle \in AllThreads /\ x # Idle /\ frame \in [AllThreads -> Frame]
  BY ThreadAssumption DEF IInv, TypeOK, AllThreads
<1>2. ASSUME nextTid' = nextTid, tid' = tid, frame' = frame PROVE Goal
  BY <1>2 DEF Given
<1>3. ASSUME NEW t \in AllThreads, nextTid' = nextTid, tid' = tid, NEW f,
             frame' = [frame EXCEPT ![t] = f],
             f.at # "store", f.lock = TidLock => f.at \notin {"unhold", "rel", "ready"}
      PROVE  Goal
  BY <1>1, <1>3 DEF Given
<1>4. ASSUME NEW t \in AllThreads, nextTid' = nextTid, tid' = tid, frame' = Return(t)
      PROVE  Goal
  <2>1. Code.at = "code"
    BY DEF Code, At
  <2> QED
    BY <1>3, <1>4, <2>1 DEF Return
<1>5. ASSUME NEW t \in AllThreads, nextTid' = nextTid, tid' = tid, NEW label,
             frame' = Go(t, label), label # "store",
             frame[t].lock = TidLock /\ label \in {"unhold", "rel", "ready"}
               => frame[t].at \in {"unhold", "rel", "ready"}
      PROVE  Goal
  BY <1>1, <1>5, GoFields, GoArg DEF Given
<1>6. ASSUME NEW t \in Thread, Call(t) PROVE Goal
  <2>1. ASSUME NEW s \in Sema, CallSemaDown(t, s) PROVE Goal
    <3>1. At("sema", None, s, None, 0).at = "sema"
      BY DEF At
    <3> QED
      BY <1>1, <1>3, <2>1, <3>1 DEF CallSemaDown
  <2>2. ASSUME NEW s \in Sema, SemaTryDown(t, s) \/ CallSemaUp(t, s) PROVE Goal
    BY <1>2, <2>2 DEF SemaTryDown, CallSemaUp
  <2>3. ASSUME NEW l \in Lock \ {TidLock}, \/ CallLockAcquire(t, l)
               \/ CallLockTryAcquire(t, l) \/ CallLockRelease(t, l) PROVE Goal
    BY <1>1, <1>3, <2>3 DEF CallLockAcquire, CallLockTryAcquire, CallLockRelease, At
  <2>4. ASSUME NEW c \in Cond, \/ CallCondWait(t, c) \/ CallCondSignal(t, c)
               \/ CallCondBroadcast(t, c) PROVE Goal
    BY <1>1, <1>3, <2>4
       DEF CallCondWait, CallCondSignal, CallCondBroadcast, PopWaiter, At
  <2>5. CASE CallThreadYield(t) \/ CallThreadExit(t)
    BY <1>2, <2>5 DEF CallThreadYield, CallThreadExit, synchVars
  <2> QED
    BY <1>6, <2>1, <2>2, <2>3, <2>4, <2>5 DEF Call, TidStep
<1>7. ASSUME NEW t \in Thread, Finish(t) PROVE Goal
  <2> USE <1>1
  <2>1. CASE SemaDown(t)
    BY <1>2, <1>4, <1>5, <2>1 DEF SemaDown, Downed
  <2>2. CASE LockHold(t)
    BY <1>4, <1>5, <2>2 DEF LockHold
  <2>3. CASE LockReleased(t)
    BY <1>4, <1>5, <2>3 DEF LockReleased
  <2>4. CASE CondWaitUnhold(t) \/ CondWaitRelease(t)
    <3>1. frame[t].lock # TidLock
      BY <2>4 DEF CondWaitUnhold, CondWaitRelease, FrameOK, FrameGood
    <3> QED
      BY <1>5, <2>4, <3>1 DEF CondWaitUnhold, CondWaitRelease
  <2>5. CASE CondSignalUp(t)
    BY <1>4, <1>5, <2>5 DEF CondSignalUp
  <2>6. CASE CondBroadcastNext(t)
    <3> DEFINE c == frame[t].cond
               f == At("bsig", None, Head(condWaiters[c]), c, 0)
    <3>1. f.at = "bsig"
      BY DEF At
    <3>2. frame' = [frame EXCEPT ![t] = f] /\ nextTid' = nextTid /\ tid' = tid
      BY <2>6 DEF CondBroadcastNext, PopWaiter
    <3> HIDE DEF f
    <3> QED
      BY <1>3, <3>1, <3>2
  <2>7. CASE CondBroadcastDone(t)
    BY <1>4, <2>7 DEF CondBroadcastDone
  <2>8. CASE TidUnhold(t)
    BY <1>5, <2>8 DEF TidUnhold
  <2> QED
    BY <1>7, <2>1, <2>2, <2>3, <2>4, <2>5, <2>6, <2>7, <2>8 DEF Finish, TidStep
<1>8. CASE IdleStep
  BY <1>1, <1>2, <1>5, <1>8
     DEF IdleStep, IdleInit, IdleUp, IdleBlock, IdleHalt, synchVars
<1>9. CASE TimerInterrupt
  BY <1>2, <1>9 DEF TimerInterrupt, synchVars
<1>10. CASE \E s \in Sema \ {IdleStarted} : InterruptUp(s)
  BY <1>2, <1>10 DEF InterruptUp
<1> QED
  BY <1>6, <1>7, <1>8, <1>9, <1>10 DEF Next

\* A step that makes a thread that can run, or leaves one, gives it a tid.
LEMMA UntoldStep ==
  ASSUME TInv, Next, NEW x \in Thread, tid'[x] = 0,
         ~\E t \in Thread : CallThreadCreate(t, x), tid[x] = 0,
         ~\E t \in Thread : ThreadReady(t) /\ frame[t].obj = x
  PROVE  status'[x] \notin {"ready", "running"} /\ frame'[x].at = "code"
<1>1. IInv /\ status[x] \notin {"ready", "running"} /\ frame[x].at = "code"
  BY DEF TInv, TidInv
<1>2. status[x] \in Statuses /\ status'[x] \in Statuses
  <2>1. SchedInv /\ SchedInv'
    BY <1>1, SynchStep DEF IInv
  <2> QED
    BY <2>1 DEF SchedInv, SchedTypeOK, AllThreads
<1>3. x # current
  BY <1>1, RunningThread
<1>4. frame'[x].at = "code"
  BY <1>1, <1>3, FrameMove DEF Code, At
<1>5. CASE status[x] \in {"none", "dying"}
  BY <1>1, <1>4, <1>5, GoneStays
<1>6. CASE status[x] = "blocked"
  <2>1. ~\E s \in AllSemas : SemaUp(s) /\ Wakes(s, x)
    BY <1>1, WaiterBlocked DEF Wakes, InDown
  <2>2. ~SemaDown(x)
    BY <1>1 DEF SemaDown, InDown
  <2> QED
    BY <1>1, <1>4, <1>6, <2>1, <2>2, BlockedStep
<1> QED
  BY <1>1, <1>2, <1>5, <1>6 DEF Statuses

\* A new thread has no tid yet.
LEMMA CreateTid ==
  ASSUME TInv, Next, NEW t \in Thread, NEW u \in Thread, CallThreadCreate(t, u)
  PROVE  TidInv'
<1>0. TidInv
  BY DEF TInv
<1>1. /\ IInv /\ TidInv /\ TypeOK /\ Thread \subseteq AllThreads /\ t # u
      /\ AllThreads = Thread \cup {Idle} /\ Idle \notin Thread
      /\ tid \in [AllThreads -> Nat] /\ nextTid \in Nat
  BY ThreadAssumption, CreateFields DEF TInv, IInv, TypeOK, AllThreads
<1>2. tid' = [tid EXCEPT ![u] = 0] /\ nextTid' = nextTid
  BY DEF CallThreadCreate
<1>3. \A x \in AllThreads : tid'[x] = IF x = u THEN 0 ELSE tid[x]
  BY <1>1, <1>2
<1>4. frame'[t].at = "acq" /\ frame'[u].at = "code" /\ status'[u] = "blocked"
      /\ \A x \in Thread : x \notin {t, u} => frame'[x] = frame[x]
  <2>1. frame' = [frame EXCEPT ![t] = At("acq", TidLock, u, None, 0), ![u] = Code]
        /\ frame \in [AllThreads -> Frame]
    BY <1>1 DEF CallThreadCreate, TypeOK
  <2>2. frame'[t] = At("acq", TidLock, u, None, 0)
    BY <1>1, <2>1
  <2> QED
    BY <1>1, <2>2, CreateFields DEF Code, At
<1>5. \A x \in Thread : /\ frame'[x].at = "store" => frame'[x] = frame[x]
                        /\ Given(x)' => Given(x) /\ frame'[x].arg = frame[x].arg
  BY <1>4 DEF Given
<1>6. ASSUME NEW x \in Thread, tid'[x] = 0
      PROVE status'[x] \notin {"ready", "running"} /\ frame'[x].at = "code"
  <2>1. CASE x = u
    BY <1>4, <2>1
  <2>2. CASE x # u
    <3>1. tid[x] = 0
      BY <1>1, <1>3, <1>6, <2>2
    <3>2. \A v \in Thread : v # u => status'[v] = status[v]
      BY <1>1, CreateFields
    <3>3. status[t] = "running"
      BY <1>1, RunningThread DEF CallThreadCreate, InCode
    <3> QED
      BY <1>1, <1>4, <2>2, <3>1, <3>2, <3>3 DEF TidInv
  <2> QED
    BY <2>1, <2>2
<1>7. \A x \in AllThreads : tid'[x] < nextTid'
  BY <1>1, <1>2, <1>3 DEF TidInv
<1>8. \A x, y \in AllThreads : tid'[x] = tid'[y] /\ x # y => tid'[x] = 0
  BY <1>1, <1>3 DEF TidInv
<1>9. \A x \in Thread : Given(x)' =>
        /\ frame'[x].arg > 0 /\ frame'[x].arg < nextTid'
        /\ \A v \in AllThreads : tid'[v] # frame'[x].arg
  <2> SUFFICES ASSUME NEW x \in Thread, Given(x)'
               PROVE  /\ frame'[x].arg > 0 /\ frame'[x].arg < nextTid'
                      /\ \A v \in AllThreads : tid'[v] # frame'[x].arg
    OBVIOUS
  <2>1. /\ frame[x].arg > 0 /\ frame[x].arg < nextTid /\ frame'[x].arg = frame[x].arg
        /\ \A v \in AllThreads : tid[v] # frame[x].arg
    BY <1>0, <1>5 DEF TidInv
  <2>2. frame[x].arg \in Nat
    BY <1>1, FrameFields
  <2> QED
    BY <1>2, <1>3, <2>1, <2>2
<1>10. nextTid' > 0 /\ tid'[Idle] # 0
  BY <1>1, <1>2, <1>3 DEF TidInv
<1>11. \A x \in Thread : frame'[x].at = "store" => frame'[x].arg = nextTid'
  BY <1>0, <1>2, <1>5 DEF TidInv
<1>12. \A x, y \in Thread :
         Given(x)' /\ Given(y)' /\ frame'[x].arg = frame'[y].arg => x = y
  BY <1>0, <1>5 DEF TidInv
<1> QED
  BY <1>6, <1>7, <1>8, <1>9, <1>10, <1>11, <1>12 DEF TidInv

\* The load and the store of next_tid++, under tid_lock.
LEMMA LoadStoreTid ==
  ASSUME TInv, Next, NEW t \in Thread, TidLoad(t) \/ TidStore(t)
  PROVE  TidInv'
<1>0. TidInv
  BY DEF TInv
<1>1. /\ IInv /\ TypeOK /\ t \in AllThreads /\ Thread \subseteq AllThreads
      /\ frame \in [AllThreads -> Frame] /\ nextTid \in Nat /\ frame[t].arg \in Nat
      /\ tid \in [AllThreads -> Nat]
  BY DEF TInv, IInv, TypeOK, AllThreads, Frame
<1>2. tid' = tid /\ status' = status
  BY DEF TidLoad, TidStore, schedVars
<1>3. frame[t].lock = TidLock /\ holder[TidLock] = t
  BY <1>1 DEF IInv, FrameOK, FrameGood, HoldersOK, TidLoad, TidStore
<1>4. \A x \in Thread : x # t =>
         frame'[x] = frame[x] /\ frame[x].at \notin {"load", "store", "unhold"}
  <2>1. \A x \in Thread : x # t => frame[x].at \notin {"load", "store", "unhold"}
    BY <1>1, <1>3 DEF IInv, HoldersOK
  <2>2. \A x \in AllThreads : x # t => frame'[x] = frame[x]
    BY <1>1, GoFields DEF TidLoad, TidStore
  <2> QED
    BY <1>1, <2>1, <2>2
<1>5. tid[t] # 0 /\ \A x \in Thread : tid[x] = 0 =>
         status'[x] \notin {"ready", "running"} /\ frame'[x].at = "code"
  <2>1. tid[t] # 0
    BY <1>0 DEF TidInv, TidLoad, TidStore
  <2> QED
    BY <1>0, <1>2, <1>4, <2>1 DEF TidInv
<1>6. CASE TidLoad(t)
  <2>1. frame' = [frame EXCEPT ![t] = [frame[t] EXCEPT !.at = "store", !.arg = nextTid]]
        /\ nextTid' = nextTid
    BY <1>6 DEF TidLoad
  <2>2. frame'[t].at = "store" /\ frame'[t].arg = nextTid
    BY <1>1, <2>1 DEF Frame
  <2>3. \A x \in Thread : Given(x)' => x # t /\ Given(x) /\ frame'[x] = frame[x]
    BY <1>4, <2>2 DEF Given
  <2>4. \A x \in Thread : frame'[x].at = "store" => frame'[x].arg = nextTid'
    BY <1>4, <2>1, <2>2
  <2> QED
    BY <1>0, <1>2, <1>5, <2>1, <2>3, <2>4 DEF TidInv
<1>7. CASE TidStore(t)
  <2>1. frame[t].at = "store" /\ frame[t].arg = nextTid /\ nextTid' = nextTid + 1
    BY <1>0, <1>7 DEF TidInv, TidStore
  <2>2. /\ frame'[t].at = "unhold" /\ frame'[t].arg = nextTid
        /\ frame'[t].lock = TidLock
    BY <1>1, <1>3, <1>7, <2>1, GoFields, GoArg DEF TidStore
  <2>3. \A x \in Thread : /\ frame'[x].at # "store"
                          /\ Given(x)' => x = t \/ (Given(x) /\ frame'[x] = frame[x])
    BY <1>4, <2>2 DEF Given
  <2>4. \A x \in AllThreads : tid[x] < nextTid /\ tid[x] \in Nat
    BY <1>0, <1>1 DEF TidInv
  <2>5. \A x \in Thread : Given(x)' =>
          /\ frame'[x].arg > 0 /\ frame'[x].arg < nextTid'
          /\ \A u \in AllThreads : tid'[u] # frame'[x].arg
    <3> SUFFICES ASSUME NEW x \in Thread, Given(x)'
                 PROVE  /\ frame'[x].arg > 0 /\ frame'[x].arg < nextTid'
                        /\ \A u \in AllThreads : tid'[u] # frame'[x].arg
      OBVIOUS
    <3>1. CASE x = t
      BY <1>0, <1>1, <1>2, <2>1, <2>2, <2>4, <3>1 DEF TidInv
    <3>2. CASE x # t
      <4>1. /\ frame'[x] = frame[x] /\ frame[x].arg > 0 /\ frame[x].arg < nextTid
            /\ \A u \in AllThreads : tid[u] # frame[x].arg
        BY <1>0, <2>3, <3>2 DEF TidInv
      <4>2. frame[x].arg \in Nat
        BY <1>1, FrameFields
      <4> QED
        BY <1>1, <1>2, <2>1, <4>1, <4>2
    <3> QED
      BY <3>1, <3>2
  <2>6. \A x, y \in Thread :
          Given(x)' /\ Given(y)' /\ frame'[x].arg = frame'[y].arg => x = y
    <3>1. \A x \in Thread : x # t /\ Given(x)' =>
             /\ Given(x) /\ frame'[x].arg = frame[x].arg
             /\ frame[x].arg \in Nat /\ frame[x].arg < nextTid
      BY <1>0, <1>1, <2>3, FrameFields DEF TidInv
    <3>2. \A x \in Thread : x # t /\ Given(x)' => frame'[x].arg # frame'[t].arg
      BY <1>1, <2>2, <3>1
    <3> QED
      BY <1>0, <3>1, <3>2 DEF TidInv
  <2>7. nextTid' > 0 /\ \A x \in AllThreads : tid'[x] < nextTid'
    BY <1>1, <1>2, <2>1, <2>4
  <2> QED
    BY <1>0, <1>2, <1>5, <2>3, <2>5, <2>6, <2>7 DEF TidInv
<1> QED
  BY <1>6, <1>7

\* The new thread gets its tid before it joins the run queue.
LEMMA ReadyTid ==
  ASSUME TInv, Next, NEW t \in Thread, ThreadReady(t)
  PROVE  TidInv'
<1>0. TidInv
  BY DEF TInv
<1> DEFINE u == frame[t].obj
           a == frame[t].arg
<1>1. /\ IInv /\ TypeOK /\ t \in AllThreads /\ Thread \subseteq AllThreads
      /\ AllThreads = Thread \cup {Idle} /\ Idle \notin Thread
      /\ frame \in [AllThreads -> Frame] /\ nextTid \in Nat /\ a \in Nat
      /\ tid \in [AllThreads -> Nat]
  BY ThreadAssumption DEF TInv, IInv, TypeOK, AllThreads, Frame
<1>2. /\ frame[t].lock = TidLock /\ Given(t) /\ u \in Thread
      /\ status[u] = "blocked" /\ current = t
  BY <1>1 DEF ThreadReady, IInv, FrameOK, FrameGood, Given, CreatorsOK
<1>3. /\ a > 0 /\ a < nextTid /\ \A x \in AllThreads : tid[x] # a
      /\ tid' = [tid EXCEPT ![u] = a] /\ nextTid' = nextTid
      /\ frame' = Return(t) /\ status' = [status EXCEPT ![u] = "ready"]
  BY <1>0, <1>2 DEF TidInv, ThreadReady, ThreadUnblock
<1>4. \A x \in AllThreads : tid'[x] = IF x = u THEN a ELSE tid[x]
  BY <1>1, <1>3
<1>5. /\ frame'[t] = Code /\ Code.at = "code"
      /\ \A x \in Thread : x # t => frame'[x] = frame[x]
  BY <1>1, <1>3, PutFields DEF Return, Code, At
<1>6. \A x \in Thread : /\ frame'[x].at = "store" => frame'[x] = frame[x]
                        /\ Given(x)' => x # t /\ Given(x) /\ frame'[x] = frame[x]
  BY <1>5 DEF Given
<1> HIDE DEF u, a
<1>7. \A x \in AllThreads : tid'[x] < nextTid'
  BY <1>0, <1>3, <1>4 DEF TidInv
<1>8. nextTid' > 0 /\ tid'[Idle] # 0
  BY <1>0, <1>1, <1>2, <1>3, <1>4 DEF TidInv
<1>9. \A x, y \in AllThreads : tid'[x] = tid'[y] /\ x # y => tid'[x] = 0
  BY <1>0, <1>3, <1>4 DEF TidInv
<1>10. \A x \in Thread : frame'[x].at = "store" => frame'[x].arg = nextTid'
  BY <1>0, <1>3, <1>6 DEF TidInv
<1>11. \A x \in Thread : Given(x)' =>
         /\ frame'[x].arg > 0 /\ frame'[x].arg < nextTid'
         /\ \A v \in AllThreads : tid'[v] # frame'[x].arg
  <2>1. \A x \in Thread : Given(x)' => frame[x].arg # a
    BY <1>0, <1>2, <1>6 DEF TidInv, a
  <2> QED
    BY <1>0, <1>3, <1>4, <1>6, <2>1 DEF TidInv
<1>12. \A x, y \in Thread :
         Given(x)' /\ Given(y)' /\ frame'[x].arg = frame'[y].arg => x = y
  BY <1>0, <1>6 DEF TidInv
<1>13. ASSUME NEW x \in Thread, tid'[x] = 0
       PROVE status'[x] \notin {"ready", "running"} /\ frame'[x].at = "code"
  <2>1. tid[x] = 0 /\ x # u
    BY <1>1, <1>3, <1>4, <1>13
  <2>2. status'[x] = status[x]
    BY <1>1, <1>3, <2>1 DEF IInv, SchedInv, SchedTypeOK
  <2> QED
    BY <1>0, <1>5, <2>1, <2>2 DEF TidInv
<1> QED
  BY <1>7, <1>8, <1>9, <1>10, <1>11, <1>12, <1>13 DEF TidInv

\* TidInv is inductive, given IInv.
LEMMA TidInvStep == TInv /\ [Next]_vars => TidInv'
<1> SUFFICES ASSUME TInv, [Next]_vars PROVE TidInv'
  OBVIOUS
<1>1. CASE Next /\ TidStep
  BY <1>1, CreateTid, LoadStoreTid, ReadyTid DEF TidStep
<1>2. CASE Next /\ ~TidStep
  <2>0. TidInv /\ IInv
    BY DEF TInv
  <2>1. nextTid' = nextTid /\ tid' = tid
    BY <1>2, <2>0, OtherStep, ThreadAssumption
  <2>2. \A x \in Thread : frame'[x].at = "store" => frame'[x] = frame[x]
    BY <1>2, <2>0, OtherStep
  <2>3. \A x \in Thread : Given(x)' => Given(x) /\ frame'[x].arg = frame[x].arg
    BY <1>2, <2>0, OtherStep
  <2>4. \A x \in Thread : tid'[x] = 0 =>
           status'[x] \notin {"ready", "running"} /\ frame'[x].at = "code"
    BY <1>2, <2>1, UntoldStep DEF TidStep
  <2> QED
    BY <2>0, <2>1, <2>2, <2>3, <2>4 DEF TidInv
<1>3. CASE UNCHANGED vars
  <2>1. /\ frame' = frame /\ nextTid' = nextTid /\ tid' = tid /\ status' = status
    BY <1>3 DEF vars, schedVars, synchVars
  <2> QED
    BY <2>1 DEF TInv, TidInv, Given
<1> QED
  BY <1>1, <1>2, <1>3

LEMMA InitTid == Init => TidInv
<1> SUFFICES ASSUME Init PROVE TidInv
  OBVIOUS
<1>1. /\ AllThreads = Thread \cup {Idle} /\ Idle \notin Thread /\ Main # Idle
      /\ None # TidLock
  BY ThreadAssumption, SynchAssumption DEF AllThreads
<1>2. /\ tid = [t \in AllThreads |-> IF t = Main THEN 1 ELSE IF t = Idle THEN 2 ELSE 0]
      /\ nextTid = 3
  BY DEF Init
<1>3. \A t \in Thread : /\ frame[t].at \in {"code", "sema"} /\ ~Given(t)
                        /\ t # Main => frame[t].at = "code" /\ status[t] = "none"
  BY <1>1 DEF Init, SchedInit, Code, At, Given
<1>4. \A t \in AllThreads :
        tid[t] = IF t = Main THEN 1 ELSE IF t = Idle THEN 2 ELSE 0
  BY <1>2
<1>5. \A t, u \in AllThreads : tid[t] = tid[u] /\ t # u => tid[t] = 0
  BY <1>4
<1>6. \A t \in Thread : tid[t] = 0 =>
         status[t] \notin {"ready", "running"} /\ frame[t].at = "code"
  BY <1>1, <1>3, <1>4
<1>7. nextTid > 0 /\ tid[Idle] # 0 /\ \A t \in AllThreads : tid[t] < nextTid
  <2>1. nextTid = 3 /\ tid[Idle] = 2
    BY <1>1, <1>2
  <2>2. \A t \in AllThreads : tid[t] \in {0, 1, 2}
    BY <1>4
  <2> QED
    BY <2>1, <2>2
<1>8. \A t \in Thread : frame[t].at # "store"
  BY <1>3
<1>9. \A t \in Thread : ~Given(t)
  BY <1>3
<1> QED
  BY <1>5, <1>6, <1>7, <1>8, <1>9 DEF TidInv

\* allocate_tid() never gives a tid twice, however many threads are in
\* thread_create() at once, and no thread runs or is queued without its tid.
THEOREM TidsUnique == Spec => []TidUnique
<1>1. Init => TInv
  BY InitInv, InitTid DEF TInv
<1>2. TInv /\ [Next]_vars => TInv'
  BY SynchStep, TidInvStep DEF TInv
<1>3. TInv => TidUnique
  <2> SUFFICES ASSUME TidInv, NEW t \in AllThreads, NEW u \in AllThreads
               PROVE  /\ status[t] \in {"ready", "running"} => tid[t] # 0
                      /\ t # u /\ tid[t] = tid[u] => tid[t] = 0
    BY DEF TInv, TidUnique
  <2>1. t \in Thread \/ t = Idle
    BY DEF AllThreads
  <2> QED
    BY <2>1 DEF TidInv
<1> QED
  BY <1>1, <1>2, <1>3, PTL DEF Spec

-----------------------------------------------------------------------------
(***************************************************************************)
(* No wakeup of a semaphore is lost: as long as threads sleep in           *)
(* sema_down(), each unit of its value has a thread that sema_up() has     *)
(* woken and that will look at the value again.  The unit may be gone by   *)
(* then, taken by a thread that never slept, but it is never left behind.  *)
(*                                                                         *)
(* A woken thread is told from one that is only about to enter the loop by *)
(* its interrupt level, which thread_block() leaves off; SleepersOff says  *)
(* so of the threads that still sleep.                                     *)
(***************************************************************************)
\* Whoever sleeps in sema_down() comes back to its loop with interrupts off.
SleepersOff ==
  \A t \in Thread : status[t] = "blocked" /\ InDown(t) => intr[t] = "off"

WakeInv == IInv /\ SleepersOff /\ NoLostWakeup

\* Woken threads are threads, and finitely many.
LEMMA WokenFinite ==
  ASSUME IInv, NEW s
  PROVE  /\ Woken(s) \subseteq Thread /\ IsFiniteSet(Woken(s))
         /\ Cardinality(Woken(s)) \in Nat
         /\ \A t \in Woken(s) : status[t] # "none"
<1>1. \A t \in Woken(s) : t \in Thread /\ status[t] # "none"
  <2> SUFFICES ASSUME NEW t \in Woken(s) PROVE t \in Thread /\ status[t] # "none"
    OBVIOUS
  <2>1. t \in AllThreads /\ frame[t].at \in {"sema", "acq", "wait"}
    BY DEF Woken, InDown
  <2>2. t # Idle
    BY <2>1 DEF IInv, FrameOK
  <2>3. frame[t] # Code
    BY <2>1 DEF Code, At
  <2> QED
    BY <2>1, <2>2, <2>3 DEF AllThreads, IInv, FrameOK
<1>2. IsFiniteSet(Woken(s))
  BY <1>1, FiniteThreads, FS_Subset
<1> QED
  BY <1>1, <1>2, FS_CardinalityType

\* Only a thread's own steps, and its creation, change its interrupt level.
LEMMA IntrMove ==
  ASSUME IInv, Next, NEW x \in Thread
  PROVE  intr'[x] = intr[x] \/ x = current \/ status[x] = "none"
<1>1. [SchedNext]_schedVars
  BY SchedStepOfNext
<1>2. intr \in [AllThreads -> {"on", "off"}] /\ x \in AllThreads
  BY DEF IInv, SchedInv, SchedTypeOK, AllThreads
<1> QED
  BY <1>1, <1>2
     DEF SchedNext, schedVars, ThreadBlock, Tick, ThreadYield, IntrEnable,
         IdleStart, ThreadExit, ThreadUnblock, InitThread

\* A woken thread that runs is not interrupted before its test of the value.
LEMMA WokenActs ==
  ASSUME IInv, Next, NEW s, NEW x \in Woken(s), x = current
  PROVE  SemaDown(x)
<1>1. InDown(x) /\ intr[x] = "off" /\ x \in Thread /\ x # Idle
  BY WokenFinite, ThreadAssumption DEF Woken
<1>2. ASSUME NEW t \in Thread, Call(t) \/ Finish(t) PROVE SemaDown(x)
  <2>1. t = x
    BY <1>2, Actor
  <2> QED
    BY <1>1, <1>2, <2>1
       DEF Call, Finish, InDown, InCode, CallSemaDown, SemaTryDown, CallSemaUp,
           CallLockAcquire, CallLockTryAcquire, CallLockRelease, CallCondWait,
           CallCondSignal, CallCondBroadcast, CallThreadCreate,
           CallThreadYield, CallThreadExit, LockHold, LockReleased,
           CondWaitUnhold, CondWaitRelease, CondSignalUp, CondBroadcastNext,
           CondBroadcastDone, TidLoad, TidStore, TidUnhold, ThreadReady
<1> QED
  BY <1>1, <1>2
     DEF Next, IdleStep, IdleInit, IdleUp, IdleBlock, IdleHalt, TimerInterrupt,
         Tick, InterruptUp

\* A woken thread stays woken until it takes its turn in sema_down().
LEMMA WokenStays ==
  ASSUME IInv, Next, NEW s, NEW x \in Woken(s), ~SemaDown(x)
  PROVE  x \in Woken(s)'
<1>1. /\ InDown(x) /\ Downs(x) = s /\ intr[x] = "off" /\ status[x] # "blocked"
      /\ x \in Thread /\ x \in AllThreads /\ status[x] # "none"
  BY WokenFinite DEF Woken
<1>2. x # current
  BY WokenActs
<1>3. frame'[x] = frame[x] /\ intr'[x] = intr[x]
  BY <1>1, <1>2, FrameMove, IntrMove
<1>4. ~\E t \in Thread : CallThreadCreate(t, x)
  BY <1>1 DEF CallThreadCreate
<1>5. status'[x] # "blocked"
  BY <1>1, <1>4, BlockedStep
<1> QED
  BY <1>1, <1>3, <1>5 DEF Woken, InDown, Downs

\* thread_block() leaves interrupts off, and a sleeper takes no step.
LEMMA SleepersStep == IInv /\ SleepersOff /\ Next => SleepersOff'
<1> SUFFICES ASSUME IInv, SleepersOff, Next, NEW x \in Thread,
                    status'[x] = "blocked", InDown(x)'
             PROVE  intr'[x] = "off"
  BY DEF SleepersOff
<1>1. CASE status[x] = "blocked"
  <2>1. frame'[x] = frame[x] /\ intr'[x] = intr[x]
    BY <1>1, SleeperStays, IntrMove
  <2> QED
    BY <1>1, <2>1 DEF SleepersOff, InDown
<1>2. CASE SemaDown(x) /\ value[Downs(x)] = 0
  BY <1>2 DEF SemaDown, ThreadBlock, IInv, SchedInv, SchedTypeOK, AllThreads
<1>3. CASE \E t \in Thread : CallThreadCreate(t, x)
  BY <1>3, CreateFields DEF InDown, Code, At
<1> QED
  BY <1>1, <1>2, <1>3, BlockedStep

-----------------------------------------------------------------------------
\* Apart from sema_up() and sema_down(), a step only lowers the value of a
\* semaphore that has waiters.
LEMMA ValueMove ==
  ASSUME IInv, Next, NEW s \in AllSemas, waiters'[s] # <<>>
  PROVE  \/ \E r \in AllSemas : SemaUp(r)
         \/ \E t \in Thread : SemaDown(t)
         \/ waiters'[s] = waiters[s] /\ value'[s] <= value[s]
<1> DEFINE Goal == \/ \E r \in AllSemas : SemaUp(r)
                   \/ \E t \in Thread : SemaDown(t)
                   \/ waiters'[s] = waiters[s] /\ value'[s] <= value[s]
<1>1. /\ value \in [AllSemas -> Nat] /\ waiters \in [AllSemas -> Seq(AllThreads)]
      /\ Sema \subseteq AllSemas /\ Lock \subseteq AllSemas
      /\ Thread \subseteq AllSemas /\ Idle \in AllSemas
  BY DEF IInv, TypeOK, AllSemas, AllThreads
<1>2. ASSUME waiters' = waiters, value' = value PROVE Goal
  BY <1>1, <1>2
<1>3. ASSUME waiters' = waiters, NEW r \in AllSemas,
             value' = [value EXCEPT ![r] = @ - 1] PROVE Goal
  BY <1>1, <1>3
<1>4. ASSUME NEW t \in Thread, Call(t) PROVE Goal
  <2>1. ASSUME NEW r \in Sema, CallSemaUp(t, r) PROVE Goal
    BY <1>1, <2>1 DEF CallSemaUp
  <2>2. CASE \/ \E r \in Sema : SemaTryDown(t, r)
             \/ \E l \in Lock : CallLockTryAcquire(t, l)
    BY <1>1, <1>3, <2>2 DEF SemaTryDown, CallLockTryAcquire
  <2>3. CASE \E c \in Cond : CallCondWait(t, c)
    <3>1. /\ value' = [value EXCEPT ![t] = 0]
          /\ waiters' = [waiters EXCEPT ![t] = <<>>]
      BY <2>3 DEF CallCondWait
    <3>2. s # t
      BY <1>1, <3>1
    <3> QED
      BY <1>1, <3>1, <3>2
  <2> QED
    BY <1>2, <1>4, <2>1, <2>2, <2>3
       DEF Call, CallSemaDown, CallLockAcquire, CallLockRelease, CallCondSignal,
           CallCondBroadcast, PopWaiter, CallThreadCreate, CallThreadYield,
           CallThreadExit, synchVars
<1>5. ASSUME NEW t \in Thread, Finish(t) PROVE Goal
  <2>1. CASE LockReleased(t) \/ CondWaitRelease(t) \/ CondSignalUp(t)
    <3>1. frame[t].at \in {"rel", "wrel"} => frame[t].lock \in AllSemas
      BY <1>1 DEF IInv, FrameOK, FrameGood
    <3>2. frame[t].at \in {"sig", "bsig"} => frame[t].obj \in AllSemas
      BY DEF IInv, FrameOK, FrameGood, AllSemas
    <3> QED
      BY <2>1, <3>1, <3>2 DEF LockReleased, CondWaitRelease, CondSignalUp
  <2> QED
    BY <1>2, <1>5, <2>1
       DEF Finish, LockHold, CondWaitUnhold, CondBroadcastNext, PopWaiter,
           CondBroadcastDone, TidLoad, TidStore, TidUnhold, ThreadReady
<1>6. CASE IdleStep
  BY <1>1, <1>2, <1>6, SynchAssumption
     DEF IdleStep, IdleInit, IdleUp, IdleBlock, IdleHalt, synchVars
<1>7. CASE TimerInterrupt
  BY <1>2, <1>7 DEF TimerInterrupt, synchVars
<1>8. CASE \E r \in Sema \ {IdleStarted} : InterruptUp(r)
  BY <1>1, <1>8 DEF InterruptUp
<1> QED
  BY <1>4, <1>5, <1>6, <1>7, <1>8 DEF Next

\* sema_down() takes at most one unit and one woken thread with it.
LEMMA DownWakes ==
  ASSUME WakeInv, Next, NEW t \in Thread, SemaDown(t), NEW s \in AllSemas,
         IInv', waiters'[s] # <<>>
  PROVE  value'[s] <= Cardinality(Woken(s)')
<1> DEFINE r == Downs(t)
           W == Woken(s)
           V == Woken(s)'
<1>1. /\ IInv /\ value \in [AllSemas -> Nat] /\ t \in AllThreads /\ r \in AllSemas
      /\ waiters \in [AllSemas -> Seq(AllThreads)]
  BY DEF WakeInv, IInv, TypeOK, AllSemas, AllThreads, SemaDown, InDown, Downs,
         FrameOK, FrameGood
<1>2. IsFiniteSet(W) /\ Cardinality(W) \in Nat
  BY <1>1, WokenFinite
<1>3. IsFiniteSet(V) /\ Cardinality(V) \in Nat
  <2>1. V \subseteq Thread
    <3> SUFFICES ASSUME NEW x \in V PROVE x \in Thread
      OBVIOUS
    <3>1. x \in AllThreads /\ frame'[x].at \in {"sema", "acq", "wait"}
      BY DEF Woken, InDown
    <3> QED
      BY <3>1 DEF IInv, FrameOK, AllThreads
  <2> QED
    BY <2>1, FiniteThreads, FS_Subset, FS_CardinalityType
<1>4. \A x \in W : x = t \/ x \in V
  <2> SUFFICES ASSUME NEW x \in W, x # t PROVE x \in V
    OBVIOUS
  <2>1. ~SemaDown(x)
    BY DEF SemaDown
  <2> QED
    BY <1>1, <2>1, WokenStays
<1>5. s # r => t \notin W
  BY DEF Woken
<1>6. waiters[s] # <<>> => value[s] <= Cardinality(W)
  BY DEF WakeInv, NoLostWakeup
<1>7. CASE s # r
  <2>1. value'[s] = value[s] /\ waiters'[s] = waiters[s]
    BY <1>1, <1>7 DEF SemaDown
  <2>2. W \subseteq V
    BY <1>4, <1>5, <1>7
  <2>3. Cardinality(W) <= Cardinality(V)
    BY <1>3, <2>2, FS_Subset
  <2> QED
    BY <1>1, <1>2, <1>3, <1>6, <2>1, <2>3
<1>8. CASE s = r /\ value[r] = 0
  BY <1>1, <1>3, <1>8 DEF SemaDown
<1>9. CASE s = r /\ value[r] # 0
  <2>1. value'[s] = value[s] - 1 /\ waiters' = waiters
    BY <1>1, <1>9 DEF SemaDown
  <2>2. W \ {t} \subseteq V
    BY <1>4
  <2>3. Cardinality(W \ {t}) <= Cardinality(V)
    BY <1>3, <2>2, FS_Subset
  <2>4. Cardinality(W) - 1 <= Cardinality(W \ {t}) /\ Cardinality(W \ {t}) \in Nat
    BY <1>2, FS_RemoveElement, FS_CardinalityType
  <2>5. value[s] <= Cardinality(W)
    BY <1>6, <2>1
  <2>6. value[s] \in Nat
    BY <1>1
  <2> QED
    BY <1>2, <1>3, <2>1, <2>3, <2>4, <2>5, <2>6
<1> QED
  BY <1>7, <1>8, <1>9

\* sema_up() adds a unit and, when threads sleep, a woken thread.
LEMMA UpWakes ==
  ASSUME WakeInv, Next, NEW r \in AllSemas, SemaUp(r), NEW s \in AllSemas,
         waiters'[s] # <<>>, IsFiniteSet(Woken(s)'), Woken(s) \subseteq Woken(s)'
  PROVE  value'[s] <= Cardinality(Woken(s)')
<1> DEFINE W == Woken(s)
           V == Woken(s)'
<1>1. /\ IInv /\ value \in [AllSemas -> Nat]
      /\ waiters \in [AllSemas -> Seq(AllThreads)]
  BY DEF WakeInv, IInv, TypeOK
<1>2. /\ IsFiniteSet(W) /\ Cardinality(W) \in Nat
      /\ IsFiniteSet(V) /\ Cardinality(V) \in Nat
      /\ Cardinality(W) <= Cardinality(V)
  BY <1>1, WokenFinite, FS_CardinalityType, FS_Subset
<1>3. waiters[s] # <<>> => value[s] <= Cardinality(W)
  BY DEF WakeInv, NoLostWakeup
<1>4. CASE s # r
  <2>1. value'[s] = value[s] /\ waiters'[s] = waiters[s]
    BY <1>1, <1>4 DEF SemaUp
  <2>2. value[s] \in Nat /\ value[s] <= Cardinality(W)
    BY <1>1, <1>3, <2>1
  <2> QED
    BY <1>2, <2>1, <2>2
<1>5. CASE s = r
  <2> DEFINE w == Head(waiters[s])
  <2>1. waiters[s] # <<>> /\ value'[s] = value[s] + 1 /\ ThreadUnblock(w)
    BY <1>1, <1>5 DEF SemaUp
  <2>2. w \in Thread /\ status[w] = "blocked" /\ InDown(w) /\ Downs(w) = s
    BY <1>1, <2>1, WaiterBlocked
  <2>3. frame'[w] = frame[w] /\ intr'[w] = "off"
    <3>1. frame'[w] = frame[w] /\ intr'[w] = intr[w]
      BY <1>1, <2>2, SleeperStays, IntrMove
    <3> QED
      BY <2>2, <3>1 DEF WakeInv, SleepersOff
  <2>4. status'[w] = "ready"
    BY <1>1, <2>1, <2>2
       DEF ThreadUnblock, IInv, SchedInv, SchedTypeOK, AllThreads
  <2>5. w \in V /\ w \notin W
    BY <2>2, <2>3, <2>4 DEF Woken, InDown, Downs, AllThreads
  <2>6. W \cup {w} \subseteq V
    BY <2>5
  <2>7. IsFiniteSet(W \cup {w}) /\ Cardinality(W \cup {w}) = Cardinality(W) + 1
    BY <1>2, <2>5, FS_AddElement
  <2>8. Cardinality(W \cup {w}) <= Cardinality(V)
    BY <1>2, <2>6, FS_Subset
  <2>9. value[s] \in Nat /\ value[s] <= Cardinality(W)
    BY <1>1, <1>3, <2>1
  <2> HIDE DEF w
  <2> QED
    BY <1>2, <2>1, <2>7, <2>8, <2>9
<1> QED
  BY <1>4, <1>5

\* NoLostWakeup is inductive, given the rest.
LEMMA WakeStep == WakeInv /\ IInv' /\ Next => NoLostWakeup'
<1> SUFFICES ASSUME WakeInv, IInv', Next, NEW s \in AllSemas, waiters'[s] # <<>>
             PROVE  value'[s] <= Cardinality(Woken(s)')
  BY DEF NoLostWakeup
<1>1. CASE \E t \in Thread : SemaDown(t)
  BY <1>1, DownWakes
<1>2. CASE ~\E t \in Thread : SemaDown(t)
  <2>1. IInv
    BY DEF WakeInv
  <2>2. Woken(s) \subseteq Woken(s)'
    <3> SUFFICES ASSUME NEW x \in Woken(s) PROVE x \in Woken(s)'
      OBVIOUS
    <3>1. ~SemaDown(x)
      BY <1>2, <2>1, WokenFinite
    <3> QED
      BY <2>1, <3>1, WokenStays
  <2>3. IsFiniteSet(Woken(s)')
    <3>1. \A x \in Woken(s)' : x \in Thread
      <4> SUFFICES ASSUME NEW x \in Woken(s)' PROVE x \in Thread
        OBVIOUS
      <4>1. x \in AllThreads /\ frame'[x].at \in {"sema", "acq", "wait"}
        BY DEF Woken, InDown
      <4> QED
        BY <4>1 DEF IInv, FrameOK, AllThreads
    <3> QED
      BY <3>1, FiniteThreads, FS_Subset
  <2>4. CASE \E r \in AllSemas : SemaUp(r)
    BY <2>2, <2>3, <2>4, UpWakes
  <2>5. CASE waiters'[s] = waiters[s] /\ value'[s] <= value[s]
    <3>1. value[s] <= Cardinality(Woken(s))
      BY <2>5 DEF WakeInv, NoLostWakeup
    <3>2. value[s] \in Nat /\ value'[s] \in Nat
      BY <2>1 DEF IInv, TypeOK
    <3>3. /\ Cardinality(Woken(s)) <= Cardinality(Woken(s)')
          /\ Cardinality(Woken(s)) \in Nat /\ Cardinality(Woken(s)') \in Nat
      BY <2>1, <2>2, <2>3, WokenFinite, FS_Subset, FS_CardinalityType
    <3> QED
      BY <2>5, <3>1, <3>2, <3>3
  <2> QED
    BY <1>2, <2>1, <2>4, <2>5, ValueMove
<1> QED
  BY <1>1, <1>2

\* sema_up() loses no wakeup, whoever calls it and however many threads come
\* between a sleeper and its unit.
THEOREM WakeupsKept == Spec => []NoLostWakeup
<1>1. Init => WakeInv
  <2> SUFFICES ASSUME Init PROVE WakeInv
    OBVIOUS
  <2>1. \A s \in AllSemas : waiters[s] = <<>>
    BY DEF Init
  <2>2. \A t \in Thread : status[t] # "blocked"
    BY DEF Init, SchedInit, AllThreads
  <2> QED
    BY <2>1, <2>2, InitInv DEF WakeInv, SleepersOff, NoLostWakeup
<1>2. WakeInv /\ [Next]_vars => WakeInv'
  <2> SUFFICES ASSUME WakeInv, [Next]_vars PROVE WakeInv'
    OBVIOUS
  <2>1. IInv'
    BY SynchStep DEF WakeInv
  <2>2. CASE Next
    BY <2>1, <2>2, SleepersStep, WakeStep DEF WakeInv
  <2>3. CASE UNCHANGED vars
    <3>1. /\ status' = status /\ intr' = intr /\ frame' = frame
          /\ waiters' = waiters /\ value' = value
      BY <2>3 DEF vars, schedVars, synchVars
    <3> QED
      BY <2>1, <3>1 DEF WakeInv, SleepersOff, NoLostWakeup, Woken, InDown, Downs
  <2> QED
    BY <2>2, <2>3
<1>3. WakeInv => NoLostWakeup
  BY DEF WakeInv
<1> QED
  BY <1>1, <1>2, <1>3, PTL DEF Spec

-----------------------------------------------------------------------------
\* t is in cond_wait(), up to the sema_down of its own semaphore.
Waits(t) == frame[t].at \in {"wunhold", "wrel", "wait"}

\* u has taken t's semaphore_elem off the list and is about to up it.
Signals(u, t) == frame[u].at \in {"sig", "bsig"} /\ frame[u].obj = t

\* The three places exclude each other, and a waiting thread is in one.
SignalInv ==
  /\ \A c \in Cond : Distinct(condWaiters[c])
  /\ \A t \in AllThreads : \A c \in Cond : Queued(t, condWaiters[c]) =>
        /\ t \in Thread /\ Waits(t) /\ frame[t].cond = c /\ value[t] = 0
        /\ \A u \in Thread : ~Signals(u, t)
  /\ \A u \in Thread : \A t \in AllThreads : Signals(u, t) =>
        /\ t \in Thread /\ Waits(t) /\ value[t] = 0
        /\ \A v \in Thread : Signals(v, t) => v = u
  /\ \A t \in Thread :
        /\ value[t] \in {0, 1}
        /\ value[t] = 1 => Waits(t)
        /\ Waits(t) => /\ frame[t].cond \in Cond
                       /\ \/ Queued(t, condWaiters[frame[t].cond])
                          \/ \E u \in Thread : Signals(u, t)
                          \/ value[t] = 1

SInv == IInv /\ SignalInv

\* t takes the first waiter off the list of c.
Pops(t, c) ==
  /\ frame[t].at \in {"code", "bcast"}
  /\ PopWaiter(t, c, "sig") \/ PopWaiter(t, c, "bsig")

\* t takes the unit that its own semaphore has been given.
TakesSignal(t) == SemaDown(t) /\ frame[t].at = "wait" /\ value[t] # 0

\* The steps that move a semaphore_elem from one place to the next.
SignalStep ==
  \E t \in Thread :
    \/ \E c \in Cond : CallCondWait(t, c)
    \/ \E c \in Cond : Pops(t, c)
    \/ CondSignalUp(t)
    \/ TakesSignal(t)

-----------------------------------------------------------------------------
\* What SignalInv speaks of stays as it is.
Quiet ==
  /\ condWaiters' = condWaiters
  /\ \A x \in Thread : /\ value'[x] = value[x]
                       /\ Waits(x)' <=> Waits(x)
                       /\ Waits(x) => frame'[x].cond = frame[x].cond
  /\ \A u \in Thread : \A x \in AllThreads : Signals(u, x)' <=> Signals(u, x)

LEMMA QuietKeeps ==
  ASSUME SInv, Quiet PROVE SignalInv'
<1> SUFFICES ASSUME SignalInv PROVE SignalInv'
  BY DEF SInv
<1>1. condWaiters' = condWaiters
  BY DEF Quiet
<1>2. ASSUME NEW x \in Thread
      PROVE  /\ value'[x] = value[x] /\ Waits(x)' = Waits(x)
             /\ Waits(x) => frame'[x].cond = frame[x].cond
  BY DEF Quiet, Waits
<1>3. ASSUME NEW u \in Thread, NEW x \in AllThreads
      PROVE  Signals(u, x)' <=> Signals(u, x)
  BY DEF Quiet
<1>4. Thread \subseteq AllThreads
  BY DEF AllThreads
<1> QED
  BY <1>1, <1>2, <1>3, <1>4 DEF SignalInv

\* Frames may change away from the places of SignalInv.
LEMMA QuietFrames ==
  ASSUME TypeOK, condWaiters' = condWaiters, \A x \in Thread : value'[x] = value[x],
         \A x \in Thread :
           \/ frame'[x] = frame[x]
           \/ /\ frame[x].at \notin {"sig", "bsig"} /\ frame'[x].at \notin {"sig", "bsig"}
              /\ \/ ~Waits(x) /\ ~Waits(x)'
                 \/ Waits(x) /\ Waits(x)' /\ frame'[x].cond = frame[x].cond
  PROVE  Quiet
  BY DEF Quiet, Waits, Signals

\* Every other step is quiet.
LEMMA QuietStep ==
  ASSUME IInv, Next, ~SignalStep PROVE Quiet
<1>1. /\ TypeOK /\ FrameOK /\ value \in [AllSemas -> Nat]
      /\ frame \in [AllThreads -> Frame]
      /\ Thread \subseteq AllThreads /\ Idle \notin Thread /\ Idle \in AllThreads
      /\ \A s \in Sema \cup Lock : s \in AllSemas /\ s \notin AllThreads
  BY ThreadAssumption, SynchAssumption DEF IInv, TypeOK, AllSemas, AllThreads
<1>2. ASSUME condWaiters' = condWaiters, frame' = frame,
             \A x \in Thread : value'[x] = value[x] PROVE Quiet
  BY <1>1, <1>2, QuietFrames
<1>3. ASSUME condWaiters' = condWaiters, \A x \in Thread : value'[x] = value[x],
             NEW t \in AllThreads, NEW f, frame' = [frame EXCEPT ![t] = f],
             frame[t].at \notin {"sig", "bsig"}, f.at \notin {"sig", "bsig"},
             ~Waits(t), f.at \notin {"wunhold", "wrel", "wait"} PROVE Quiet
  <2>1. frame'[t] = f /\ \A x \in AllThreads : x # t => frame'[x] = frame[x]
    BY <1>1, <1>3
  <2> QED
    BY <1>1, <1>3, <2>1, QuietFrames DEF Waits
<1>4. ASSUME condWaiters' = condWaiters, \A x \in Thread : value'[x] = value[x],
             NEW t \in AllThreads, frame' = Return(t),
             frame[t].at \notin {"sig", "bsig"}, ~Waits(t) PROVE Quiet
  <2>1. Code.at = "code"
    BY DEF Code, At
  <2> QED
    BY <1>3, <1>4, <2>1 DEF Return
<1>5. ASSUME condWaiters' = condWaiters, \A x \in Thread : value'[x] = value[x],
             NEW t \in AllThreads, NEW label, frame' = Go(t, label),
             frame[t].at \notin {"sig", "bsig"}, label \notin {"sig", "bsig"},
             Waits(t) <=> label \in {"wunhold", "wrel", "wait"} PROVE Quiet
  <2>1. /\ frame'[t].at = label /\ frame'[t].cond = frame[t].cond
        /\ \A x \in AllThreads : x # t => frame'[x] = frame[x]
    BY <1>1, <1>5, GoFields
  <2> QED
    BY <1>1, <1>5, <2>1, QuietFrames DEF Waits
<1>6. ASSUME NEW s \in Sema \cup Lock, SemaUp(s)
      PROVE  \A x \in Thread : value'[x] = value[x]
  BY <1>1, <1>6 DEF SemaUp
<1>7. ASSUME NEW s \in Sema \cup Lock, value' = [value EXCEPT ![s] = @ - 1]
      PROVE  \A x \in Thread : value'[x] = value[x]
  BY <1>1, <1>7
<1>8. ASSUME NEW t \in Thread, Call(t) PROVE Quiet
  <2>1. ASSUME NEW s \in Sema, CallSemaDown(t, s) PROVE Quiet
    BY <1>1, <1>3, <2>1 DEF CallSemaDown, At, InCode, Waits
  <2>2. ASSUME NEW s \in Sema, SemaTryDown(t, s) \/ CallSemaUp(t, s) PROVE Quiet
    BY <1>2, <1>6, <1>7, <2>2 DEF SemaTryDown, CallSemaUp
  <2>3. ASSUME NEW l \in Lock, CallLockTryAcquire(t, l) PROVE Quiet
    <3>1. /\ \A x \in Thread : value'[x] = value[x]
          /\ At("hold", l, None, None, 0).at = "hold"
      BY <1>7, <2>3 DEF CallLockTryAcquire, At
    <3> QED
      BY <1>1, <1>3, <2>3, <3>1 DEF CallLockTryAcquire, InCode, Waits
  <2>4. ASSUME NEW l \in Lock, CallLockAcquire(t, l) \/ CallLockRelease(t, l)
        PROVE Quiet
    BY <1>1, <1>3, <2>4 DEF CallLockAcquire, CallLockRelease, At, InCode, Waits
  <2>5. ASSUME NEW c \in Cond,
               CallCondWait(t, c) \/ CallCondSignal(t, c) \/ CallCondBroadcast(t, c)
        PROVE Quiet
    BY <2>5 DEF SignalStep, Pops, CallCondSignal, CallCondBroadcast, InCode
  <2>6. ASSUME NEW u \in Thread, CallThreadCreate(t, u) PROVE Quiet
    <3>1. \A x \in Thread : x # t => frame'[x] = frame[x]
      BY <2>6, CreateFields
    <3>2. frame'[t].at = "acq" /\ frame[t].at = "code"
      <4>1. t # u /\ frame[t].at = "code"
        BY <2>6, CreateFields, ZenonT(60) DEF CallThreadCreate, InCode
      <4>2. frame'[t] = At("acq", TidLock, u, None, 0)
        BY <1>1, <2>6, <4>1 DEF CallThreadCreate
      <4> QED
        BY <4>1, <4>2 DEF At
    <3>3. condWaiters' = condWaiters /\ value' = value
      BY <2>6 DEF CallThreadCreate
    <3> QED
      BY <1>1, <3>1, <3>2, <3>3, QuietFrames DEF Waits
  <2>7. CASE CallThreadYield(t) \/ CallThreadExit(t)
    BY <1>2, <2>7 DEF CallThreadYield, CallThreadExit, synchVars
  <2> QED
    BY <1>8, <2>1, <2>2, <2>3, <2>4, <2>5, <2>6, <2>7 DEF Call
<1>9. ASSUME NEW t \in Thread, Finish(t) PROVE Quiet
  <2>0. t \in AllThreads /\ FrameGood(frame[t])
    BY <1>1 DEF FrameOK
  <2>1. CASE SemaDown(t)
    <3>1. CASE value[Downs(t)] = 0
      BY <1>2, <2>1, <3>1 DEF SemaDown
    <3>2. CASE value[Downs(t)] # 0
      <4>1. frame[t].at \in {"sema", "acq"}
        BY <2>1, <3>2 DEF SemaDown, InDown, Downs, SignalStep, TakesSignal
      <4>2. Downs(t) \in Sema \cup Lock
        BY <2>0, <4>1 DEF Downs, FrameGood
      <4>3. /\ condWaiters' = condWaiters /\ frame' = Downed(t)
            /\ \A x \in Thread : value'[x] = value[x]
        BY <1>7, <2>1, <3>2, <4>2 DEF SemaDown
      <4>4. frame' = Return(t) \/ frame' = Go(t, "hold")
        BY <4>1, <4>3 DEF Downed
      <4> QED
        BY <1>4, <1>5, <2>0, <4>1, <4>3, <4>4 DEF Waits
    <3> QED
      BY <3>1, <3>2
  <2>2. CASE LockHold(t)
    BY <1>4, <1>5, <2>0, <2>2 DEF LockHold, Waits
  <2>3. CASE LockReleased(t) \/ CondWaitRelease(t)
    <3>1. frame[t].lock \in Lock /\ SemaUp(frame[t].lock)
      BY <2>0, <2>3 DEF LockReleased, CondWaitRelease, FrameGood
    <3>2. \A x \in Thread : value'[x] = value[x]
      BY <1>6, <3>1
    <3> QED
      BY <1>4, <1>5, <2>0, <2>3, <3>2 DEF LockReleased, CondWaitRelease, Waits
  <2>4. CASE CondWaitUnhold(t)
    BY <1>5, <2>0, <2>4 DEF CondWaitUnhold, Waits
  <2>5. CASE CondSignalUp(t)
    BY <2>5 DEF SignalStep
  <2>6. CASE CondBroadcastNext(t)
    BY <2>0, <2>6 DEF CondBroadcastNext, SignalStep, Pops, FrameGood
  <2>7. CASE CondBroadcastDone(t)
    BY <1>4, <2>0, <2>7 DEF CondBroadcastDone, Waits
  <2>8. CASE TidLoad(t)
    <3>1. /\ condWaiters' = condWaiters /\ value' = value /\ frame[t].at = "load"
          /\ frame' = [frame EXCEPT ![t] =
                         [frame[t] EXCEPT !.at = "store", !.arg = nextTid]]
      BY <2>8 DEF TidLoad
    <3>2. [frame[t] EXCEPT !.at = "store", !.arg = nextTid].at = "store"
      BY <1>1, <2>0 DEF Frame
    <3> QED
      BY <1>3, <2>0, <3>1, <3>2 DEF Waits
  <2>9. CASE TidStore(t) \/ TidUnhold(t)
    BY <1>5, <2>0, <2>9 DEF TidStore, TidUnhold, Waits
  <2>10. CASE ThreadReady(t)
    BY <1>4, <2>0, <2>10 DEF ThreadReady, Waits
  <2> QED
    BY <1>9, <2>1, <2>2, <2>3, <2>4, <2>5, <2>6, <2>7, <2>8, <2>9, <2>10
       DEF Finish
<1>10. CASE IdleStep
  <2>1. IdleStarted \in Sema \cup Lock /\ IdleStarted \in AllSemas
    BY <1>1, SynchAssumption
  <2>2. /\ condWaiters' = condWaiters /\ \A x \in Thread : value'[x] = value[x]
        /\ \A x \in Thread : frame'[x] = frame[x]
    BY <1>1, <1>6, <1>10, <2>1, GoFields
       DEF IdleStep, IdleInit, IdleUp, IdleBlock, IdleHalt, synchVars
  <2> QED
    BY <1>1, <2>2, QuietFrames
<1>11. CASE TimerInterrupt
  BY <1>2, <1>11 DEF TimerInterrupt, synchVars
<1>12. CASE \E s \in Sema \ {IdleStarted} : InterruptUp(s)
  BY <1>2, <1>6, <1>12 DEF InterruptUp
<1> QED
  BY <1>8, <1>9, <1>10, <1>11, <1>12 DEF Next

-----------------------------------------------------------------------------
\* cond_wait() puts a thread that was in no place on the list.
LEMMA WaitJoins ==
  ASSUME SInv, NEW t \in Thread, NEW c \in Cond, CallCondWait(t, c)
  PROVE  SignalInv'
<1>1. /\ SignalInv /\ TypeOK /\ t \in AllThreads /\ t \in AllSemas
      /\ value \in [AllSemas -> Nat] /\ Thread \subseteq AllSemas
      /\ Thread \subseteq AllThreads /\ AllThreads \subseteq AllSemas
      /\ condWaiters \in [Cond -> Seq(AllThreads)]
      /\ frame \in [AllThreads -> Frame]
  BY DEF SInv, IInv, TypeOK, AllSemas, AllThreads
<1>2. /\ frame[t].at = "code" /\ ~Waits(t)
      /\ \A d \in Cond : ~Queued(t, condWaiters[d])
      /\ \A u \in Thread : ~Signals(u, t)
  <2>1. frame[t].at = "code" /\ ~Waits(t)
    BY DEF CallCondWait, InCode, Waits
  <2> QED
    BY <1>1, <2>1 DEF SignalInv
<1>3. /\ frame'[t] = At("wunhold", LockOf[c], None, c, 0)
      /\ \A x \in AllThreads : x # t => frame'[x] = frame[x]
  BY <1>1 DEF CallCondWait
<1>4. frame'[t].at = "wunhold" /\ frame'[t].cond = c
  BY <1>3 DEF At
<1>5. \A x \in AllSemas : value'[x] = IF x = t THEN 0 ELSE value[x]
  BY <1>1 DEF CallCondWait
<1>6. /\ condWaiters'[c] = Append(condWaiters[c], t)
      /\ \A d \in Cond : d # c => condWaiters'[d] = condWaiters[d]
  BY <1>1 DEF CallCondWait
<1>7. \A d \in Cond : \A x \in AllThreads :
        Queued(x, condWaiters'[d]) <=> Queued(x, condWaiters[d]) \/ (d = c /\ x = t)
  <2>1. condWaiters[c] \in Seq(AllThreads)
    BY <1>1
  <2>2. \A x \in AllThreads :
           Queued(x, Append(condWaiters[c], t)) <=> Queued(x, condWaiters[c]) \/ x = t
    BY <1>1, <2>1, QueuedAppend
  <2> QED
    BY <1>6, <2>2
<1>8. \A d \in Cond : Distinct(condWaiters'[d])
  <2>1. condWaiters[c] \in Seq(AllThreads) /\ Distinct(condWaiters[c])
        /\ ~Queued(t, condWaiters[c])
    BY <1>1, <1>2 DEF SignalInv
  <2>2. Distinct(condWaiters'[c])
    BY <1>1, <1>6, <2>1, DistinctAppend
  <2> QED
    BY <1>1, <1>6, <2>2 DEF SignalInv
<1>9. \A u \in Thread : \A x \in AllThreads : Signals(u, x)' <=> Signals(u, x)
  BY <1>1, <1>2, <1>3, <1>4 DEF Signals
<1>10. \A x \in Thread : /\ Waits(x)' <=> Waits(x) \/ x = t
                         /\ x # t => frame'[x] = frame[x]
  BY <1>1, <1>3, <1>4 DEF Waits
<1>11. \A x \in AllThreads : \A d \in Cond : Queued(x, condWaiters'[d]) =>
          /\ x \in Thread /\ Waits(x)' /\ frame'[x].cond = d /\ value'[x] = 0
          /\ \A u \in Thread : ~Signals(u, x)'
  BY <1>1, <1>2, <1>4, <1>5, <1>7, <1>9, <1>10 DEF SignalInv
<1>12. \A u \in Thread : \A x \in AllThreads : Signals(u, x)' =>
          /\ x \in Thread /\ Waits(x)' /\ value'[x] = 0
          /\ \A v \in Thread : Signals(v, x)' => v = u
  BY <1>1, <1>2, <1>5, <1>9, <1>10 DEF SignalInv
<1>13. ASSUME NEW x \in Thread
       PROVE  /\ value'[x] \in {0, 1}
              /\ value'[x] = 1 => Waits(x)'
              /\ Waits(x)' => /\ frame'[x].cond \in Cond
                              /\ \/ Queued(x, condWaiters'[frame'[x].cond])
                                 \/ \E u \in Thread : Signals(u, x)'
                                 \/ value'[x] = 1
  <2>1. CASE x = t
    BY <1>1, <1>4, <1>5, <1>7, <1>10, <2>1
  <2>2. CASE x # t
    BY <1>1, <1>5, <1>7, <1>9, <1>10, <2>2 DEF SignalInv
  <2> QED
    BY <2>1, <2>2
<1> QED
  BY <1>8, <1>11, <1>12, <1>13 DEF SignalInv

\* cond_signal() and cond_broadcast() take the first one off the list.
LEMMA SignalPops ==
  ASSUME SInv, NEW t \in Thread, NEW c \in Cond, Pops(t, c)
  PROVE  SignalInv'
<1> DEFINE w == Head(condWaiters[c])
<1>1. /\ SignalInv /\ TypeOK /\ t \in AllThreads
      /\ Thread \subseteq AllThreads
      /\ condWaiters \in [Cond -> Seq(AllThreads)]
      /\ frame \in [AllThreads -> Frame]
      /\ condWaiters[c] # <<>> /\ Distinct(condWaiters[c])
      /\ ~Waits(t) /\ frame[t].at \notin {"sig", "bsig"}
  BY DEF Waits, SInv, IInv, TypeOK, AllThreads, Pops, PopWaiter, SignalInv
<1>2. /\ w \in AllThreads /\ Queued(w, condWaiters[c])
      /\ Distinct(Tail(condWaiters[c]))
      /\ \A x : Queued(x, Tail(condWaiters[c])) <=> Queued(x, condWaiters[c]) /\ x # w
  BY <1>1, QueuedTail
<1>3. /\ condWaiters'[c] = Tail(condWaiters[c]) /\ value' = value
      /\ \A d \in Cond : d # c => condWaiters'[d] = condWaiters[d]
  BY <1>1 DEF Pops, PopWaiter
<1>4. /\ frame'[t].at \in {"sig", "bsig"} /\ frame'[t].obj = w
      /\ \A x \in AllThreads : x # t => frame'[x] = frame[x]
  BY <1>1 DEF Pops, PopWaiter, At
<1>5. /\ w \in Thread /\ Waits(w) /\ frame[w].cond = c /\ value[w] = 0
      /\ \A u \in Thread : ~Signals(u, w)
  BY <1>1, <1>2 DEF SignalInv
<1> HIDE DEF w
<1>6. \A d \in Cond : \A x \in AllThreads :
        Queued(x, condWaiters'[d]) <=> Queued(x, condWaiters[d]) /\ x # w
  <2>1. \A d \in Cond : d # c => ~Queued(w, condWaiters[d])
    BY <1>1, <1>2, <1>5 DEF SignalInv
  <2> QED
    BY <1>2, <1>3, <2>1
<1>7. \A u \in Thread : \A x \in AllThreads :
         Signals(u, x)' <=> Signals(u, x) \/ (u = t /\ x = w)
  BY <1>1, <1>4 DEF Signals
<1>8. \A x \in Thread : /\ Waits(x)' <=> Waits(x)
                        /\ Waits(x) => frame'[x] = frame[x]
  BY <1>1, <1>4 DEF Waits
<1>9. \A d \in Cond : Distinct(condWaiters'[d])
  BY <1>1, <1>2, <1>3 DEF SignalInv
<1>10. \A x \in AllThreads : \A d \in Cond : Queued(x, condWaiters'[d]) =>
          /\ x \in Thread /\ Waits(x)' /\ frame'[x].cond = d /\ value'[x] = 0
          /\ \A u \in Thread : ~Signals(u, x)'
  BY <1>1, <1>3, <1>6, <1>7, <1>8 DEF SignalInv
<1>11. \A u \in Thread : \A x \in AllThreads : Signals(u, x)' =>
          /\ x \in Thread /\ Waits(x)' /\ value'[x] = 0
          /\ \A v \in Thread : Signals(v, x)' => v = u
  BY <1>1, <1>3, <1>5, <1>7, <1>8 DEF SignalInv
<1>12. ASSUME NEW x \in Thread
       PROVE  /\ value'[x] \in {0, 1}
              /\ value'[x] = 1 => Waits(x)'
              /\ Waits(x)' => /\ frame'[x].cond \in Cond
                              /\ \/ Queued(x, condWaiters'[frame'[x].cond])
                                 \/ \E u \in Thread : Signals(u, x)'
                                 \/ value'[x] = 1
  BY <1>1, <1>3, <1>6, <1>7, <1>8 DEF SignalInv
<1> QED
  BY <1>9, <1>10, <1>11, <1>12 DEF SignalInv

\* sema_up() of the semaphore in the semaphore_elem.
LEMMA SignalUps ==
  ASSUME SInv, NEW t \in Thread, CondSignalUp(t)
  PROVE  SignalInv'
<1> DEFINE w == frame[t].obj
<1>1. /\ SignalInv /\ TypeOK /\ t \in AllThreads /\ Thread \subseteq AllThreads
      /\ Thread \subseteq AllSemas /\ value \in [AllSemas -> Nat]
      /\ frame \in [AllThreads -> Frame] /\ FrameGood(frame[t])
      /\ frame[t].at \in {"sig", "bsig"}
  BY DEF SInv, IInv, TypeOK, FrameOK, AllSemas, AllThreads, CondSignalUp
<1>2. w \in AllThreads /\ Signals(t, w)
  BY <1>1 DEF FrameGood, Signals
<1>3. /\ w \in Thread /\ Waits(w) /\ value[w] = 0
      /\ \A v \in Thread : Signals(v, w) => v = t
      /\ \A d \in Cond : ~Queued(w, condWaiters[d])
  BY <1>1, <1>2 DEF SignalInv
<1>4. /\ condWaiters' = condWaiters
      /\ \A x \in Thread : value'[x] = IF x = w THEN 1 ELSE value[x]
  BY <1>1, <1>3 DEF CondSignalUp, SemaUp
<1>5. /\ frame'[t].at \in {"code", "bcast"}
      /\ \A x \in AllThreads : x # t => frame'[x] = frame[x]
  BY <1>1, GoFields, PutFields DEF CondSignalUp, Return, Code, At
<1> HIDE DEF w
<1>6. \A u \in Thread : \A x \in AllThreads : Signals(u, x)' <=> Signals(u, x) /\ u # t
  BY <1>1, <1>5 DEF Signals
<1>7. \A x \in AllThreads : Signals(t, x) => x = w
  BY DEF Signals, w
<1>8. \A x \in Thread : /\ Waits(x)' <=> Waits(x)
                        /\ Waits(x) => frame'[x] = frame[x]
  BY <1>1, <1>5 DEF Waits
<1>9. \A x \in AllThreads : \A d \in Cond : Queued(x, condWaiters'[d]) =>
          /\ x \in Thread /\ Waits(x)' /\ frame'[x].cond = d /\ value'[x] = 0
          /\ \A u \in Thread : ~Signals(u, x)'
  BY <1>1, <1>3, <1>4, <1>6, <1>8 DEF SignalInv
<1>10. \A u \in Thread : \A x \in AllThreads : Signals(u, x)' =>
          /\ x \in Thread /\ Waits(x)' /\ value'[x] = 0
          /\ \A v \in Thread : Signals(v, x)' => v = u
  BY <1>1, <1>3, <1>4, <1>6, <1>8 DEF SignalInv
<1>11. ASSUME NEW x \in Thread
       PROVE  /\ value'[x] \in {0, 1}
              /\ value'[x] = 1 => Waits(x)'
              /\ Waits(x)' => /\ frame'[x].cond \in Cond
                              /\ \/ Queued(x, condWaiters'[frame'[x].cond])
                                 \/ \E u \in Thread : Signals(u, x)'
                                 \/ value'[x] = 1
  <2>1. CASE x = w
    BY <1>1, <1>3, <1>4, <1>8, <2>1 DEF SignalInv
  <2>2. CASE x # w
    <3>1. \A u \in Thread : Signals(u, x) => Signals(u, x)'
      BY <1>1, <1>6, <1>7, <2>2
    <3> QED
      BY <1>1, <1>4, <1>8, <2>2, <3>1 DEF SignalInv
  <2> QED
    BY <2>1, <2>2
<1>12. \A d \in Cond : Distinct(condWaiters'[d])
  BY <1>1, <1>4 DEF SignalInv
<1> QED
  BY <1>9, <1>10, <1>11, <1>12 DEF SignalInv

\* The waiting thread takes its signal and leaves the wait.
LEMMA SignalTaken ==
  ASSUME SInv, NEW t \in Thread, TakesSignal(t)
  PROVE  SignalInv'
<1>1. /\ SignalInv /\ TypeOK /\ t \in AllThreads /\ Thread \subseteq AllThreads
      /\ Thread \subseteq AllSemas /\ value \in [AllSemas -> Nat]
      /\ frame \in [AllThreads -> Frame]
      /\ frame[t].at = "wait" /\ value[t] # 0
  BY DEF SInv, IInv, TypeOK, AllSemas, AllThreads, TakesSignal
<1>2. value[t] = 1 /\ Waits(t)
  BY <1>1 DEF SignalInv, Waits
<1>3. /\ \A d \in Cond : ~Queued(t, condWaiters[d])
      /\ \A u \in Thread : ~Signals(u, t)
  BY <1>1, <1>2 DEF SignalInv
<1>4. /\ condWaiters' = condWaiters /\ frame' = Go(t, "acq")
      /\ \A x \in Thread : value'[x] = IF x = t THEN 0 ELSE value[x]
  BY <1>1, <1>2 DEF TakesSignal, SemaDown, Downs, Downed
<1>5. /\ frame'[t].at = "acq"
      /\ \A x \in AllThreads : x # t => frame'[x] = frame[x]
  BY <1>1, <1>4, GoFields
<1>6. \A u \in Thread : \A x \in AllThreads : Signals(u, x)' <=> Signals(u, x)
  BY <1>1, <1>5 DEF Signals
<1>7. \A x \in Thread : /\ Waits(x)' <=> Waits(x) /\ x # t
                        /\ x # t => frame'[x] = frame[x]
  BY <1>1, <1>5 DEF Waits
<1>8. \A x \in AllThreads : \A d \in Cond : Queued(x, condWaiters'[d]) =>
          /\ x \in Thread /\ Waits(x)' /\ frame'[x].cond = d /\ value'[x] = 0
          /\ \A u \in Thread : ~Signals(u, x)'
  BY <1>1, <1>3, <1>4, <1>6, <1>7 DEF SignalInv
<1>9. \A u \in Thread : \A x \in AllThreads : Signals(u, x)' =>
          /\ x \in Thread /\ Waits(x)' /\ value'[x] = 0
          /\ \A v \in Thread : Signals(v, x)' => v = u
  BY <1>1, <1>3, <1>4, <1>6, <1>7 DEF SignalInv
<1>10. ASSUME NEW x \in Thread
       PROVE  /\ value'[x] \in {0, 1}
              /\ value'[x] = 1 => Waits(x)'
              /\ Waits(x)' => /\ frame'[x].cond \in Cond
                              /\ \/ Queued(x, condWaiters'[frame'[x].cond])
                                 \/ \E u \in Thread : Signals(u, x)'
                                 \/ value'[x] = 1
  BY <1>1, <1>4, <1>6, <1>7 DEF SignalInv
<1>11. \A d \in Cond : Distinct(condWaiters'[d])
  BY <1>1, <1>4 DEF SignalInv
<1> QED
  BY <1>8, <1>9, <1>10, <1>11 DEF SignalInv

\* SignalInv is inductive, given IInv.
LEMMA SignalInvStep == SInv /\ [Next]_vars => SignalInv'
<1> SUFFICES ASSUME SInv, [Next]_vars PROVE SignalInv'
  OBVIOUS
<1>0. IInv
  BY DEF SInv
<1>1. CASE Next /\ ~SignalStep
  BY <1>0, <1>1, QuietStep, QuietKeeps
<1>2. CASE Next /\ SignalStep
  BY <1>2, WaitJoins, SignalPops, SignalUps, SignalTaken DEF SignalStep
<1>3. CASE UNCHANGED vars
  <2>1. Quiet
    BY <1>3 DEF vars, synchVars, Quiet, Waits, Signals
  <2> QED
    BY <2>1, QuietKeeps
<1> QED
  BY <1>1, <1>2, <1>3

LEMMA InitSignal == Init => SignalInv
<1> SUFFICES ASSUME Init PROVE SignalInv
  OBVIOUS
<1>1. /\ Thread \subseteq AllThreads /\ AllThreads \subseteq AllSemas
      /\ Lock \cap AllThreads = {}
  BY SynchAssumption DEF AllThreads, AllSemas
<1>2. /\ \A c \in Cond : condWaiters[c] = <<>>
      /\ \A t \in Thread : value[t] = 0
      /\ \A t \in Thread : frame[t].at \in {"code", "sema"}
  BY <1>1 DEF Init, Code, At
<1>3. Distinct(<<>>) /\ \A t : ~Queued(t, <<>>)
  BY DEF Distinct, Queued
<1>4. \A u \in Thread : ~Waits(u) /\ \A t : ~Signals(u, t)
  BY <1>2 DEF Waits, Signals
<1> QED
  BY <1>1, <1>2, <1>3, <1>4 DEF SignalInv

\* Counting the places gives SignalAccounted.
LEMMA SignalCount == SInv => SignalAccounted
<1> SUFFICES ASSUME SInv, NEW t \in Thread
             PROVE  LET listed     == {c \in Cond : Queued(t, condWaiters[c])}
                        signallers == {u \in Thread :
                                         /\ frame[u].at \in {"sig", "bsig"}
                                         /\ frame[u].obj = t}
                        waits      == frame[t].at \in {"wunhold", "wrel", "wait"}
                    IN  Cardinality(listed) + Cardinality(signallers) + value[t]
                          = IF waits THEN 1 ELSE 0
  BY DEF SignalAccounted
<1> DEFINE listed     == {c \in Cond : Queued(t, condWaiters[c])}
           signallers == {u \in Thread : Signals(u, t)}
<1>1. SignalInv /\ t \in AllThreads /\ Thread \subseteq AllThreads
  BY DEF SInv, AllThreads
<1>2. value[t] \in {0, 1}
  BY <1>1 DEF SignalInv
<1>3. ASSUME ~Waits(t) PROVE listed = {} /\ signallers = {} /\ value[t] = 0
  BY <1>1, <1>3 DEF SignalInv
<1>4. ASSUME Waits(t), value[t] = 1 PROVE listed = {} /\ signallers = {}
  BY <1>1, <1>4 DEF SignalInv
<1>5. ASSUME NEW c \in Cond, Queued(t, condWaiters[c])
      PROVE  listed = {c} /\ signallers = {} /\ value[t] = 0 /\ Waits(t)
  BY <1>1, <1>5 DEF SignalInv
<1>6. ASSUME NEW u \in Thread, Signals(u, t)
      PROVE  listed = {} /\ signallers = {u} /\ value[t] = 0 /\ Waits(t)
  BY <1>1, <1>6 DEF SignalInv
<1>7. Waits(t) => \/ \E c \in Cond : Queued(t, condWaiters[c])
                  \/ \E u \in Thread : Signals(u, t)
                  \/ value[t] = 1
  BY <1>1 DEF SignalInv
<1>8. Cardinality({}) = 0 /\ \A x : Cardinality({x}) = 1
  BY FS_EmptySet, FS_Singleton
<1> HIDE DEF listed, signallers
<1>9. Cardinality(listed) + Cardinality(signallers) + value[t]
        = IF Waits(t) THEN 1 ELSE 0
  <2>1. CASE ~Waits(t)
    BY <1>3, <1>8, <2>1
  <2>2. CASE \E c \in Cond : Queued(t, condWaiters[c])
    BY <1>5, <1>8, <2>2
  <2>3. CASE \E u \in Thread : Signals(u, t)
    <3>1. PICK u \in Thread : Signals(u, t)
      BY <2>3
    <3>2. listed = {} /\ signallers = {u} /\ value[t] = 0 /\ Waits(t)
      BY <1>6, <3>1
    <3>3. Cardinality(listed) = 0 /\ Cardinality(signallers) = 1
      BY <1>8, <3>2
    <3> QED
      BY <3>2, <3>3
  <2>4. CASE Waits(t) /\ value[t] = 1
    BY <1>4, <1>8, <2>4
  <2> QED
    BY <1>7, <2>1, <2>2, <2>3, <2>4
<1> QED
  BY <1>9 DEF listed, signallers, Signals, Waits

\* A signal is neither lost nor given twice: each cond_wait() is on the list of
\* its condition, or about to be upped by one signaller, or upped.
THEOREM SignalsExact == Spec => []SignalAccounted
<1>1. Init => SInv
  BY InitInv, InitSignal DEF SInv
<1>2. SInv /\ [Next]_vars => SInv'
  BY SynchStep, SignalInvStep DEF SInv
<1> QED
  BY <1>1, <1>2, SignalCount, PTL DEF Spec

-----------------------------------------------------------------------------
(***************************************************************************)
(* The locks and condition variables of synch.c are monitors: every step   *)
(* of Synch is a step of module Monitor or none at all.                    *)
(*                                                                         *)
(* cond_wait() joins the list before it releases the lock, in three steps, *)
(* where Monitor has one.  What makes them one is that nobody can look at  *)
(* the list meanwhile: MonitorInv says that a thread in these steps is the *)
(* last on the list, that the others on it wait, and that who signals has  *)
(* the lock.                                                               *)
(***************************************************************************)
MonitorInv ==
  /\ \A t \in Thread :
       /\ Waits(t) => frame[t].lock = LockOf[frame[t].cond]
       /\ frame[t].at \in {"wunhold", "wrel"} =>
            LET q == condWaiters[frame[t].cond] IN q # <<>> /\ q[Len(q)] = t
       /\ frame[t].at \in {"sig", "bsig", "bcast"} =>
            holder[LockOf[frame[t].cond]] = t
  /\ \A c \in Cond : \A i \in DOMAIN condWaiters[c] :
       i < Len(condWaiters[c]) => frame[condWaiters[c][i]].at = "wait"

MInv == SInv /\ MonitorInv

\* t is not on its way back from a wait.
NotBack(t) == frame[t].at = "acq" => frame[t].cond = None

\* A step of t, or of nobody, that leaves the conditions alone.
Dull(t) ==
  /\ condWaiters' = condWaiters
  /\ \A x \in Thread : x # t => frame'[x] = frame[x]
  /\ \A l \in Lock : \/ holder'[l] = holder[l]
                     \/ {holder[l], holder'[l]} \subseteq {None, t}
  /\ frame'[t] = frame[t] \/ (~Waits(t) /\ ~Waits(t)')
  /\ frame'[t].at \in {"sig", "bsig", "bcast"} =>
        /\ frame[t].at \in {"sig", "bsig", "bcast"}
        /\ frame'[t].cond = frame[t].cond /\ holder' = holder

\* It leaves t's locks alone too, or takes or releases one.
Keeps(t) ==
  /\ \A l \in Lock : Owns(t, l)' <=> Owns(t, l)
  /\ frame'[t] = frame[t] \/ (NotBack(t) /\ NotBack(t)')

Takes(t, l) ==
  /\ NotBack(t)' /\ frame[t].at \in {"code", "acq"}
  /\ frame[t].at = "acq" => frame[t].lock = l
  /\ \A x \in Thread : ~Owns(x, l)
  /\ \A m \in Lock : Owns(t, m)' <=> Owns(t, m) \/ m = l

Gives(t, l) ==
  /\ frame[t].at = "rel" /\ NotBack(t)'
  /\ Owns(t, l)
  /\ \A m \in Lock : Owns(t, m)' <=> Owns(t, m) /\ m # l

\* The steps in which conditions play a part.
CondStep ==
  \E t \in Thread :
    \/ \E c \in Cond :
         CallCondWait(t, c) \/ CallCondSignal(t, c) \/ CallCondBroadcast(t, c)
    \/ CondBroadcastNext(t)
    \/ CondWaitUnhold(t) \/ CondWaitRelease(t)
    \/ TakesSignal(t)

DullStep ==
  \E t \in Thread :
    Dull(t) /\ (Keeps(t) \/ \E l \in Lock : Takes(t, l) \/ Gives(t, l))

-----------------------------------------------------------------------------
\* Every other step is dull.
LEMMA OtherDull ==
  ASSUME IInv, Next, ~CondStep PROVE DullStep
<1>1. /\ TypeOK /\ FrameOK /\ holder \in [Lock -> AllThreads \cup {None}]
      /\ frame \in [AllThreads -> Frame] /\ Thread \subseteq AllThreads
      /\ Main \in Thread /\ Idle \notin Thread /\ Idle \in AllThreads
      /\ None \notin Thread /\ None \notin Lock /\ TidLock \in Lock
  BY ThreadAssumption, SynchAssumption DEF IInv, TypeOK, AllThreads
<1>2. ASSUME condWaiters' = condWaiters, holder' = holder,
             \A x \in Thread : frame'[x] = frame[x]
      PROVE  DullStep
  <2>1. Dull(Main) /\ Keeps(Main)
    BY <1>1, <1>2 DEF Dull, Keeps, Owns
  <2> QED
    BY <1>1, <2>1 DEF DullStep
<1>3. ASSUME NEW t \in Thread, condWaiters' = condWaiters, holder' = holder,
             \A x \in Thread : x # t => frame'[x] = frame[x],
             frame[t].at \notin {"hold", "rel", "wunhold", "wrel", "wait"},
             frame'[t].at \notin {"hold", "rel", "wunhold", "wrel", "wait"},
             frame'[t].at \in {"sig", "bsig", "bcast"} =>
               /\ frame[t].at \in {"sig", "bsig", "bcast"}
               /\ frame'[t].cond = frame[t].cond,
             NotBack(t), NotBack(t)'
      PROVE  DullStep
  <2>1. Dull(t)
    BY <1>3 DEF Dull, Waits
  <2>2. Keeps(t)
    BY <1>3 DEF Keeps, Owns
  <2> QED
    BY <2>1, <2>2 DEF DullStep
<1>4. Code.at = "code" /\ Code.cond = None
  BY DEF Code, At
<1>5. ASSUME NEW t \in Thread, Call(t) PROVE DullStep
  <2>0. t \in AllThreads
    BY <1>1
  <2>1. ASSUME NEW s \in Sema, CallSemaDown(t, s) PROVE DullStep
    <3>1. frame'[t].at = "sema" /\ \A x \in AllThreads : x # t => frame'[x] = frame[x]
      BY <1>1, <2>1 DEF CallSemaDown, At
    <3> QED
      BY <1>1, <1>3, <2>1, <3>1 DEF CallSemaDown, InCode, NotBack
  <2>2. ASSUME NEW s \in Sema, SemaTryDown(t, s) \/ CallSemaUp(t, s) PROVE DullStep
    BY <1>2, <2>2 DEF SemaTryDown, CallSemaUp
  <2>3. ASSUME NEW l \in Lock, CallLockAcquire(t, l) PROVE DullStep
    <3>1. /\ frame'[t].at = "acq" /\ frame'[t].cond = None
          /\ \A x \in AllThreads : x # t => frame'[x] = frame[x]
      BY <1>1, <2>3 DEF CallLockAcquire, At
    <3> QED
      BY <1>1, <1>3, <2>3, <3>1 DEF CallLockAcquire, InCode, NotBack
  <2>4. ASSUME NEW l \in Lock, CallLockTryAcquire(t, l) PROVE DullStep
    <3>1. /\ frame'[t].at = "hold" /\ frame'[t].lock = l /\ frame[t].at = "code"
          /\ \A x \in AllThreads : x # t => frame'[x] = frame[x]
          /\ holder' = holder /\ condWaiters' = condWaiters
      BY <1>1, <2>4 DEF CallLockTryAcquire, At, InCode
    <3>2. \A x \in Thread : ~Owns(x, l)
      <4>1. value[l] # 0
        BY <2>4 DEF CallLockTryAcquire
      <4> QED
        BY <1>1, <4>1, FreeLock
    <3>3. Dull(t)
      BY <1>1, <3>1 DEF Dull, Waits
    <3>4. Takes(t, l)
      BY <3>1, <3>2 DEF Takes, NotBack, Owns
    <3> QED
      BY <3>3, <3>4 DEF DullStep
  <2>5. ASSUME NEW l \in Lock, CallLockRelease(t, l) PROVE DullStep
    <3>1. /\ frame'[t].at = "rel" /\ frame'[t].lock = l /\ frame[t].at = "code"
          /\ \A x \in AllThreads : x # t => frame'[x] = frame[x]
          /\ holder[l] = t /\ holder' = [holder EXCEPT ![l] = None]
          /\ condWaiters' = condWaiters
      BY <1>1, <2>5 DEF CallLockRelease, At, InCode
    <3>2. Dull(t)
      BY <1>1, <3>1 DEF Dull, Waits
    <3>3. Keeps(t)
      BY <1>1, <3>1 DEF Keeps, NotBack, Owns
    <3> QED
      BY <3>2, <3>3 DEF DullStep
  <2>6. ASSUME NEW c \in Cond,
               CallCondWait(t, c) \/ CallCondSignal(t, c) \/ CallCondBroadcast(t, c)
        PROVE DullStep
    BY <2>6 DEF CondStep
  <2>7. ASSUME NEW u \in Thread, CallThreadCreate(t, u) PROVE DullStep
    <3>1. \A x \in Thread : x # t => frame'[x] = frame[x]
      BY <2>7, CreateFields
    <3>2. frame'[t].at = "acq" /\ frame'[t].cond = None /\ frame[t].at = "code"
      <4>1. t # u /\ frame[t].at = "code"
        BY <2>7, CreateFields, ZenonT(60) DEF CallThreadCreate, InCode
      <4>2. frame'[t] = At("acq", TidLock, u, None, 0)
        BY <1>1, <2>7, <4>1 DEF CallThreadCreate
      <4> QED
        BY <4>1, <4>2 DEF At
    <3>3. condWaiters' = condWaiters /\ holder' = holder
      BY <2>7 DEF CallThreadCreate
    <3> QED
      BY <1>3, <3>1, <3>2, <3>3 DEF NotBack
  <2>8. CASE CallThreadYield(t) \/ CallThreadExit(t)
    BY <1>2, <2>8 DEF CallThreadYield, CallThreadExit, synchVars
  <2> QED
    BY <1>5, <2>1, <2>2, <2>3, <2>4, <2>5, <2>6, <2>7, <2>8 DEF Call
<1>6. ASSUME NEW t \in Thread, Finish(t) PROVE DullStep
  <2>0. t \in AllThreads /\ FrameGood(frame[t])
    BY <1>1 DEF FrameOK
  <2>1. ASSUME frame' = Return(t), condWaiters' = condWaiters, holder' = holder,
               frame[t].at \notin {"acq", "hold", "rel", "wunhold", "wrel", "wait"}
        PROVE  DullStep
    <3>1. /\ frame'[t] = Code
          /\ \A x \in AllThreads : x # t => frame'[x] = frame[x]
      BY <1>1, <2>0, <2>1, PutFields DEF Return
    <3> QED
      BY <1>1, <1>3, <1>4, <2>1, <3>1 DEF NotBack
  <2>2. ASSUME NEW label, frame' = Go(t, label), condWaiters' = condWaiters,
               holder' = holder,
               frame[t].at \notin {"acq", "hold", "rel", "wunhold", "wrel", "wait"},
               label \notin {"acq", "hold", "rel", "wunhold", "wrel", "wait"},
               label \in {"sig", "bsig", "bcast"} =>
                 frame[t].at \in {"sig", "bsig", "bcast"}
        PROVE  DullStep
    <3>1. /\ frame'[t].at = label /\ frame'[t].cond = frame[t].cond
          /\ \A x \in AllThreads : x # t => frame'[x] = frame[x]
      BY <1>1, <2>0, <2>2, GoFields
    <3> QED
      BY <1>1, <1>3, <2>2, <3>1 DEF NotBack
  <2>3. CASE SemaDown(t)
    <3>1. CASE value[Downs(t)] = 0
      BY <1>2, <2>3, <3>1 DEF SemaDown
    <3>2. CASE value[Downs(t)] # 0 /\ frame[t].at = "sema"
      BY <2>1, <2>3, <3>2 DEF SemaDown, Downed
    <3>3. CASE value[Downs(t)] # 0 /\ frame[t].at = "wait"
      BY <2>3, <3>3 DEF CondStep, TakesSignal, Downs
    <3>4. CASE value[Downs(t)] # 0 /\ frame[t].at = "acq"
      <4>0. PICK l \in Lock : l = frame[t].lock
        BY <2>0, <3>4 DEF FrameGood
      <4>1. /\ frame' = Go(t, "hold") /\ holder' = holder
            /\ condWaiters' = condWaiters /\ value[l] # 0
        BY <2>3, <3>4, <4>0 DEF SemaDown, Downed, Downs
      <4>2. /\ frame'[t].at = "hold" /\ frame'[t].lock = l
            /\ \A x \in AllThreads : x # t => frame'[x] = frame[x]
        BY <1>1, <2>0, <4>0, <4>1, GoFields
      <4>3. \A x \in Thread : ~Owns(x, l)
        BY <1>1, <4>1, FreeLock
      <4>4. Dull(t)
        BY <1>1, <3>4, <4>1, <4>2 DEF Dull, Waits
      <4>5. Takes(t, l)
        BY <3>4, <4>0, <4>1, <4>2, <4>3 DEF Takes, NotBack, Owns
      <4> QED
        BY <4>4, <4>5 DEF DullStep
    <3> QED
      BY <2>3, <3>1, <3>2, <3>3, <3>4 DEF SemaDown, InDown
  <2>4. CASE LockHold(t)
    <3>0. PICK l \in Lock : l = frame[t].lock
      BY <2>0, <2>4 DEF LockHold, FrameGood
    <3>1. /\ frame[t].at = "hold" /\ holder' = [holder EXCEPT ![l] = t]
          /\ condWaiters' = condWaiters
          /\ frame' = Go(t, "load") \/ frame' = Return(t)
      BY <2>4, <3>0 DEF LockHold
    <3>2. /\ frame'[t].at \in {"load", "code"}
          /\ \A x \in AllThreads : x # t => frame'[x] = frame[x]
      <4>1. CASE frame' = Go(t, "load")
        BY <1>1, <2>0, <4>1, GoFields
      <4>2. CASE frame' = Return(t)
        BY <1>1, <1>4, <2>0, <4>2, PutFields DEF Return
      <4> QED
        BY <3>1, <4>1, <4>2
    <3>3. holder[l] = None
      BY <3>0, <3>1 DEF IInv, HoldersOK
    <3>4. Dull(t)
      BY <1>1, <3>1, <3>2, <3>3 DEF Dull, Waits
    <3>5. Keeps(t)
      BY <1>1, <3>0, <3>1, <3>2 DEF Keeps, NotBack, Owns
    <3> QED
      BY <3>4, <3>5 DEF DullStep
  <2>5. CASE LockReleased(t)
    <3>0. PICK l \in Lock : l = frame[t].lock
      BY <2>0, <2>5 DEF LockReleased, FrameGood
    <3>1. /\ frame[t].at = "rel" /\ holder' = holder
          /\ condWaiters' = condWaiters
          /\ frame' = Go(t, "ready") \/ frame' = Return(t)
      BY <2>5 DEF LockReleased
    <3>2. /\ frame'[t].at \in {"ready", "code"}
          /\ \A x \in AllThreads : x # t => frame'[x] = frame[x]
      <4>1. CASE frame' = Go(t, "ready")
        BY <1>1, <2>0, <4>1, GoFields
      <4>2. CASE frame' = Return(t)
        BY <1>1, <1>4, <2>0, <4>2, PutFields DEF Return
      <4> QED
        BY <3>1, <4>1, <4>2
    <3>3. holder[l] = None
      BY <3>0, <3>1 DEF IInv, HoldersOK
    <3>4. Dull(t)
      BY <1>1, <3>1, <3>2 DEF Dull, Waits
    <3>5. Gives(t, l)
      BY <1>1, <3>0, <3>1, <3>2, <3>3 DEF Gives, NotBack, Owns
    <3> QED
      BY <3>4, <3>5 DEF DullStep
  <2>6. CASE CondWaitUnhold(t) \/ CondWaitRelease(t)
    BY <2>6 DEF CondStep
  <2>7. CASE CondSignalUp(t)
    BY <2>1, <2>2, <2>7 DEF CondSignalUp
  <2>8. CASE CondBroadcastNext(t)
    BY <2>8 DEF CondStep
  <2>9. CASE CondBroadcastDone(t) \/ ThreadReady(t)
    BY <2>1, <2>9 DEF CondBroadcastDone, ThreadReady
  <2>10. CASE TidLoad(t)
    <3>1. /\ condWaiters' = condWaiters /\ holder' = holder /\ frame[t].at = "load"
          /\ frame' = [frame EXCEPT ![t] =
                         [frame[t] EXCEPT !.at = "store", !.arg = nextTid]]
      BY <2>10 DEF TidLoad
    <3>2. frame'[t].at = "store" /\ \A x \in AllThreads : x # t => frame'[x] = frame[x]
      BY <1>1, <2>0, <3>1 DEF Frame
    <3> QED
      BY <1>1, <1>3, <3>1, <3>2 DEF NotBack
  <2>11. CASE TidStore(t)
    BY <2>2, <2>11 DEF TidStore
  <2>12. CASE TidUnhold(t)
    <3>1. /\ frame[t].at = "unhold" /\ holder' = [holder EXCEPT ![TidLock] = None]
          /\ condWaiters' = condWaiters /\ frame' = Go(t, "rel")
          /\ frame[t].lock = TidLock /\ holder[TidLock] = t
      BY <2>0, <2>12 DEF TidUnhold, FrameGood, IInv, HoldersOK
    <3>2. /\ frame'[t].at = "rel" /\ frame'[t].lock = TidLock
          /\ \A x \in AllThreads : x # t => frame'[x] = frame[x]
      BY <1>1, <2>0, <3>1, GoFields
    <3>3. Dull(t)
      BY <1>1, <3>1, <3>2 DEF Dull, Waits
    <3>4. Keeps(t)
      BY <1>1, <3>1, <3>2 DEF Keeps, NotBack, Owns
    <3> QED
      BY <3>3, <3>4 DEF DullStep
  <2> QED
    BY <1>6, <2>3, <2>4, <2>5, <2>6, <2>7, <2>8, <2>9, <2>10, <2>11, <2>12
       DEF Finish
<1>7. CASE IdleStep
  <2>1. /\ condWaiters' = condWaiters /\ holder' = holder
        /\ \A x \in Thread : frame'[x] = frame[x]
    BY <1>1, <1>7, GoFields
       DEF IdleStep, IdleInit, IdleUp, IdleBlock, IdleHalt, synchVars
  <2> QED
    BY <1>2, <2>1
<1>8. CASE TimerInterrupt
  BY <1>2, <1>8 DEF TimerInterrupt, synchVars
<1>9. CASE \E s \in Sema \ {IdleStarted} : InterruptUp(s)
  BY <1>2, <1>9 DEF InterruptUp
<1> QED
  BY <1>5, <1>6, <1>7, <1>8, <1>9 DEF Next

-----------------------------------------------------------------------------
\* owner, queue and resume are what their definitions mean them to be.
OwnerExact ==
  /\ owner \in [Lock -> Thread \cup {None}]
  /\ \A l \in Lock : \A t \in Thread : owner[l] = t <=> Owns(t, l)
  /\ \A l \in Lock : owner[l] = None <=> \A t \in Thread : ~Owns(t, l)

LEMMA OwnerIs == MutualExclusion => OwnerExact
<1> SUFFICES ASSUME MutualExclusion PROVE OwnerExact
  OBVIOUS
<1>1. None \notin Thread /\ Thread \subseteq AllThreads
  BY ThreadAssumption DEF AllThreads
<1>2. ASSUME NEW l \in Lock
      PROVE  /\ owner[l] \in Thread \cup {None}
             /\ \A t \in Thread : owner[l] = t <=> Owns(t, l)
             /\ owner[l] = None <=> \A t \in Thread : ~Owns(t, l)
  <2>1. \A t, u \in Thread : Owns(t, l) /\ Owns(u, l) => t = u
    BY <1>1 DEF MutualExclusion
  <2>2. owner[l] = IF \E t \in Thread : Owns(t, l)
                   THEN CHOOSE t \in Thread : Owns(t, l) ELSE None
    BY DEF owner
  <2> QED
    BY <1>1, <2>1, <2>2
<1>3. owner = [l \in Lock |-> owner[l]]
  BY DEF owner
<1>4. owner \in [Lock -> Thread \cup {None}]
  BY <1>2, <1>3
<1> QED
  BY <1>2, <1>4 DEF OwnerExact

LEMMA OwnerIsNext == MutualExclusion' => OwnerExact'
  BY OwnerIs, PTL

\* Two functions on locks that agree everywhere are one.
LEMMA OwnerKept ==
  ASSUME OwnerExact, OwnerExact',
         \A x \in Thread : \A l \in Lock : Owns(x, l)' <=> Owns(x, l)
  PROVE  owner' = owner
<1>1. owner \in [Lock -> Thread \cup {None}] /\ owner' \in [Lock -> Thread \cup {None}]
  BY DEF OwnerExact
<1>2. ASSUME NEW l \in Lock PROVE owner'[l] = owner[l]
  BY <1>1 DEF OwnerExact
<1> QED
  BY <1>1, <1>2

LEMMA OwnerTakes ==
  ASSUME OwnerExact, OwnerExact', NEW t \in Thread, NEW l \in Lock,
         \A x \in Thread : ~Owns(x, l),
         \A x \in Thread : \A m \in Lock :
            Owns(x, m)' <=> Owns(x, m) \/ (x = t /\ m = l)
  PROVE  owner[l] = None /\ owner' = [owner EXCEPT ![l] = t]
<1>1. owner \in [Lock -> Thread \cup {None}] /\ owner' \in [Lock -> Thread \cup {None}]
  BY DEF OwnerExact
<1>2. owner[l] = None /\ owner'[l] = t
  BY DEF OwnerExact
<1>3. ASSUME NEW m \in Lock, m # l PROVE owner'[m] = owner[m]
  <2>1. \A x \in Thread : Owns(x, m)' <=> Owns(x, m)
    BY <1>3
  <2> QED
    BY <1>1, <2>1 DEF OwnerExact
<1> QED
  BY <1>1, <1>2, <1>3

LEMMA OwnerGives ==
  ASSUME OwnerExact, OwnerExact', NEW t \in Thread, NEW l \in Lock, Owns(t, l),
         \A x \in Thread : \A m \in Lock :
            Owns(x, m)' <=> Owns(x, m) /\ ~(x = t /\ m = l)
  PROVE  owner[l] = t /\ owner' = [owner EXCEPT ![l] = None]
<1>1. owner \in [Lock -> Thread \cup {None}] /\ owner' \in [Lock -> Thread \cup {None}]
  BY DEF OwnerExact
<1>2. owner[l] = t
  BY DEF OwnerExact
<1>3. \A x \in Thread : ~Owns(x, l)'
  BY <1>2 DEF OwnerExact
<1>4. owner'[l] = None
  BY <1>3 DEF OwnerExact
<1>5. ASSUME NEW m \in Lock, m # l PROVE owner'[m] = owner[m]
  <2>1. \A x \in Thread : Owns(x, m)' <=> Owns(x, m)
    BY <1>5
  <2> QED
    BY <1>1, <2>1 DEF OwnerExact
<1> QED
  BY <1>1, <1>2, <1>4, <1>5

QueueExact ==
  \A c \in Cond :
    LET q == condWaiters[c]  n == Len(q) IN
    /\ n > 0 /\ frame[q[n]].at # "wait" => queue[c] = SubSeq(q, 1, n - 1)
    /\ ~(n > 0 /\ frame[q[n]].at # "wait") => queue[c] = q

LEMMA QueueIs == QueueExact
  BY DEF QueueExact, queue

LEMMA QueueIsNext == QueueExact'
  BY QueueIs, PTL

\* Who is queued in the sense of Monitor is on the list, in sema_down().
LEMMA QueueIn ==
  ASSUME MInv
  PROVE  /\ \A c \in Cond : \A t : Queued(t, queue[c]) =>
               t \in Thread /\ Queued(t, condWaiters[c]) /\ frame[t].at = "wait"
         /\ \A t : M!Waiting(t) => t \in Thread /\ frame[t].at = "wait"
<1>1. ASSUME NEW c \in Cond, NEW t, Queued(t, queue[c])
      PROVE  t \in Thread /\ Queued(t, condWaiters[c]) /\ frame[t].at = "wait"
  <2> DEFINE q == condWaiters[c]
             n == Len(q)
  <2>1. /\ q \in Seq(AllThreads) /\ n \in Nat /\ DOMAIN q = 1 .. n
        /\ \A i \in 1 .. n : q[i] \in AllThreads /\ q[i] = q[i]
    BY DEF MInv, SInv, IInv, TypeOK
  <2>2. queue[c] = IF n > 0 /\ frame[q[n]].at # "wait" THEN SubSeq(q, 1, n - 1)
                                                       ELSE q
    BY DEF queue
  <2>3. \A i \in 1 .. n : i < n => frame[q[i]].at = "wait"
    BY <2>1 DEF MInv, MonitorInv
  <2>4. PICK i \in DOMAIN queue[c] : queue[c][i] = t
    BY <1>1 DEF Queued
  <2>5. i \in 1 .. n /\ q[i] = t /\ frame[q[i]].at = "wait"
    <3>1. CASE n > 0 /\ frame[q[n]].at # "wait"
      <4>1. queue[c] = SubSeq(q, 1, n - 1)
        BY <2>2, <3>1
      <4>2. i \in 1 .. n - 1 /\ queue[c][i] = q[i]
        BY <2>1, <2>4, <3>1, <4>1
      <4> QED
        BY <2>1, <2>3, <2>4, <4>2
    <3>2. CASE ~(n > 0 /\ frame[q[n]].at # "wait")
      BY <2>1, <2>2, <2>3, <2>4, <3>2
    <3> QED
      BY <3>1, <3>2
  <2>6. Queued(t, q) /\ t \in AllThreads
    BY <2>1, <2>5 DEF Queued
  <2> HIDE DEF q, n
  <2>7. t \in Thread
    BY <2>6 DEF MInv, SInv, SignalInv, q
  <2> QED
    BY <2>5, <2>6, <2>7 DEF q
<1> QED
  BY <1>1 DEF M!Waiting, Queued

\* queue changes with the list and with what the listed threads do.
LEMMA QueueKept ==
  ASSUME MInv, condWaiters' = condWaiters,
         \A x \in Thread : \A c \in Cond : Queued(x, condWaiters[c]) =>
            (frame'[x].at = "wait" <=> frame[x].at = "wait")
  PROVE  queue' = queue
<1>1. ASSUME NEW c \in Cond PROVE queue'[c] = queue[c]
  <2> DEFINE q == condWaiters[c]
             n == Len(q)
  <2>1. q \in Seq(AllThreads) /\ n \in Nat /\ DOMAIN q = 1 .. n
    BY DEF MInv, SInv, IInv, TypeOK
  <2>2. n > 0 => Queued(q[n], q) /\ q[n] \in AllThreads
    BY <2>1 DEF Queued
  <2>3. n > 0 => q[n] \in Thread
    BY <2>2 DEF MInv, SInv, SignalInv
  <2>4. n > 0 => (frame'[q[n]].at = "wait" <=> frame[q[n]].at = "wait")
    BY <2>2, <2>3
  <2> QED
    BY <2>4 DEF queue
<1> QED
  BY <1>1 DEF queue

\* The lock a thread on its way back has yet to take.
LEMMA ResumeIs ==
  ASSUME NEW x \in Thread
  PROVE  resume[x] = IF /\ frame[x].at \in {"wait", "acq"} /\ frame[x].cond # None
                        /\ \A c \in Cond : ~Queued(x, condWaiters[c])
                     THEN frame[x].lock ELSE None
  BY DEF resume

LEMMA ResumeKept ==
  ASSUME condWaiters' = condWaiters, NEW x \in Thread,
         \/ frame'[x] = frame[x]
         \/ /\ ~Waits(x) /\ NotBack(x) /\ ~Waits(x)' /\ NotBack(x)'
  PROVE  resume'[x] = resume[x]
  BY DEF resume, Waits, NotBack

-----------------------------------------------------------------------------
\* A dull step keeps MonitorInv ...
LEMMA DullKeeps ==
  ASSUME MInv, NEW t \in Thread, Dull(t) PROVE MonitorInv'
<1>1. /\ MonitorInv /\ SignalInv /\ condWaiters' = condWaiters
      /\ condWaiters \in [Cond -> Seq(AllThreads)]
      /\ None \notin Thread /\ Thread \subseteq AllThreads
  BY ThreadAssumption DEF MInv, SInv, IInv, TypeOK, Dull, AllThreads
<1>2. ASSUME NEW x \in Thread
      PROVE  /\ Waits(x)' => frame'[x] = frame[x]
             /\ \A c \in Cond : Queued(x, condWaiters[c]) => frame'[x] = frame[x]
  BY <1>1 DEF Dull, Waits, SignalInv
<1>3. ASSUME NEW x \in Thread, Waits(x)'
      PROVE  /\ frame'[x].lock = LockOf[frame'[x].cond]
             /\ frame'[x].at \in {"wunhold", "wrel"} =>
                  LET q == condWaiters'[frame'[x].cond]
                  IN  q # <<>> /\ q[Len(q)] = x
  BY <1>1, <1>2, <1>3 DEF MonitorInv, Waits
<1>4. ASSUME NEW x \in Thread, frame'[x].at \in {"sig", "bsig", "bcast"}
      PROVE  holder'[LockOf[frame'[x].cond]] = x
  <2>1. /\ frame[x].at \in {"sig", "bsig", "bcast"}
        /\ frame'[x].cond = frame[x].cond
        /\ x = t => holder' = holder
    BY <1>4 DEF Dull
  <2>2. frame[x].cond \in Cond /\ LockOf[frame[x].cond] \in Lock
    <3>1. FrameGood(frame[x])
      BY DEF MInv, SInv, IInv, FrameOK
    <3> QED
      BY <2>1, <3>1, SynchAssumption DEF FrameGood
  <2>3. holder[LockOf[frame[x].cond]] = x
    BY <1>1, <2>1 DEF MonitorInv
  <2> QED
    BY <1>1, <2>1, <2>2, <2>3 DEF Dull
<1>5. ASSUME NEW c \in Cond, NEW i \in DOMAIN condWaiters'[c],
             i < Len(condWaiters'[c])
      PROVE  frame'[condWaiters'[c][i]].at = "wait"
  <2>1. /\ frame[condWaiters[c][i]].at = "wait"
        /\ condWaiters[c][i] \in AllThreads /\ Queued(condWaiters[c][i], condWaiters[c])
    BY <1>1, <1>5 DEF MonitorInv, Queued
  <2>2. condWaiters[c][i] \in Thread
    BY <1>1, <2>1 DEF SignalInv
  <2> QED
    BY <1>1, <1>2, <2>1, <2>2
<1>6. \A x \in Thread : frame'[x].at \in {"wunhold", "wrel"} => Waits(x)'
  BY DEF Waits
<1> QED
  BY <1>3, <1>4, <1>5, <1>6 DEF MonitorInv

\* ... and is a step of Monitor, or none.
LEMMA DullMonitor ==
  ASSUME MInv, IInv', NEW t \in Thread, Dull(t),
         Keeps(t) \/ \E l \in Lock : Takes(t, l) \/ Gives(t, l)
  PROVE  [M!Next]_(M!vars)
<1>1. OwnerExact /\ OwnerExact'
  BY OwnerIs, OwnerIsNext DEF MInv, SInv, IInv
<1>2. /\ SignalInv /\ condWaiters' = condWaiters /\ None \notin Thread
      /\ Thread \subseteq AllThreads
  BY ThreadAssumption DEF MInv, SInv, Dull, AllThreads
<1>3. queue' = queue
  <2>1. \A x \in Thread : \A c \in Cond : Queued(x, condWaiters[c]) =>
           frame'[x] = frame[x]
    BY <1>2 DEF Dull, SignalInv
  <2> QED
    BY <1>2, <2>1, QueueKept
<1>4. \A x \in Thread : \A l \in Lock : x # t => (Owns(x, l)' <=> Owns(x, l))
  BY <1>2 DEF Dull, Owns
<1>5. \A x \in Thread : x # t => resume'[x] = resume[x]
  BY <1>2, ResumeKept DEF Dull
<1>6. /\ resume = [x \in Thread |-> resume[x]] /\ resume' = [x \in Thread |-> resume'[x]]
  BY DEF resume
<1>7. CASE Keeps(t)
  <2>1. owner' = owner
    BY <1>1, <1>4, <1>7, OwnerKept DEF Keeps
  <2>2. resume'[t] = resume[t]
    BY <1>2, <1>7, ResumeKept DEF Dull, Keeps
  <2>3. resume' = resume
    BY <1>5, <1>6, <2>2
  <2> QED
    BY <1>3, <2>1, <2>3 DEF M!vars
<1>8. ASSUME NEW l \in Lock, Takes(t, l) PROVE M!Acquire(t, l)
  <2>1. owner[l] = None /\ owner' = [owner EXCEPT ![l] = t]
    <3>1. \A x \in Thread : \A m \in Lock :
             Owns(x, m)' <=> Owns(x, m) \/ (x = t /\ m = l)
      BY <1>4, <1>8 DEF Takes
    <3> QED
      BY <1>1, <1>8, <3>1, OwnerTakes DEF Takes
  <2>2. ~M!Waiting(t)
    BY <1>8, QueueIn DEF Takes
  <2>3. resume[t] \in {None, l}
    BY <1>8, ResumeIs DEF Takes
  <2>4. resume'[t] = None
    <3>1. ~Waits(t)' /\ NotBack(t)'
      BY <1>8 DEF Takes, Dull, Waits
    <3> QED
      BY <3>1 DEF resume, Waits, NotBack
  <2>5. resume' = [resume EXCEPT ![t] = None]
    BY <1>5, <1>6, <2>4
  <2> QED
    BY <1>3, <2>1, <2>2, <2>3, <2>5 DEF M!Acquire
<1>9. ASSUME NEW l \in Lock, Gives(t, l) PROVE M!Release(t, l)
  <2>1. owner[l] = t /\ owner' = [owner EXCEPT ![l] = None]
    <3>1. \A x \in Thread : \A m \in Lock :
             Owns(x, m)' <=> Owns(x, m) /\ ~(x = t /\ m = l)
      BY <1>4, <1>9 DEF Gives
    <3> QED
      BY <1>1, <1>9, <3>1, OwnerGives DEF Gives
  <2>2. ~M!Waiting(t)
    BY <1>9, QueueIn DEF Gives
  <2>3. resume[t] = None
    BY <1>9, ResumeIs DEF Gives
  <2>4. resume'[t] = None
    <3>1. ~Waits(t)' /\ NotBack(t)'
      BY <1>9 DEF Gives, Dull, Waits
    <3> QED
      BY <3>1 DEF resume, Waits, NotBack
  <2>5. resume' = resume
    BY <1>5, <1>6, <2>3, <2>4
  <2> QED
    BY <1>3, <2>1, <2>2, <2>3, <2>5 DEF M!Release
<1> QED
  BY <1>7, <1>8, <1>9 DEF M!Next

-----------------------------------------------------------------------------
\* Who has the lock of a condition, and does not wait, sees only threads that
\* have released it.
LEMMA AllWait ==
  ASSUME MInv, NEW t \in Thread, NEW c \in Cond, holder[LockOf[c]] = t, ~Waits(t)
  PROVE  /\ Owns(t, LockOf[c]) /\ LockOf[c] \in Lock
         /\ \A x \in Thread : frame[x].at \in {"wunhold", "wrel"} => frame[x].cond # c
         /\ \A i \in DOMAIN condWaiters[c] :
              /\ condWaiters[c][i] \in Thread /\ condWaiters[c][i] # t
              /\ frame[condWaiters[c][i]].at = "wait"
         /\ queue[c] = condWaiters[c]
<1> DEFINE l == LockOf[c]
           q == condWaiters[c]
<1>1. /\ MonitorInv /\ SignalInv /\ HoldersOK /\ MutualExclusion
      /\ q \in Seq(AllThreads) /\ Thread \subseteq AllThreads
      /\ LockOf[c] \in Lock
  BY SynchAssumption DEF MInv, SInv, IInv, TypeOK, AllThreads
<1>2. Owns(t, LockOf[c])
  BY DEF Owns
<1>3. ASSUME NEW x \in Thread, frame[x].at \in {"wunhold", "wrel"} PROVE frame[x].cond # c
  <2> SUFFICES ASSUME frame[x].cond = c PROVE FALSE
    OBVIOUS
  <2>1. frame[x].lock = LockOf[c]
    BY <1>1, <1>3 DEF MonitorInv, Waits
  <2>2. Owns(x, LockOf[c])
    BY <1>1, <1>3, <2>1 DEF HoldersOK, Owns
  <2>3. x = t
    BY <1>1, <1>2, <2>2 DEF MutualExclusion
  <2> QED
    BY <1>3, <2>3 DEF Waits
<1>4. ASSUME NEW i \in DOMAIN q
      PROVE  q[i] \in Thread /\ q[i] # t /\ frame[q[i]].at = "wait"
  <2>1. q[i] \in AllThreads /\ Queued(q[i], q)
    BY <1>1, <1>4 DEF Queued
  <2>2. q[i] \in Thread /\ Waits(q[i]) /\ frame[q[i]].cond = c
    BY <1>1, <2>1 DEF SignalInv
  <2> QED
    BY <1>3, <2>2 DEF Waits
<1>5. queue[c] = q
  <2>1. Len(q) \in Nat /\ DOMAIN q = 1 .. Len(q)
    BY <1>1
  <2>2. Len(q) > 0 => frame[q[Len(q)]].at = "wait"
    BY <1>4, <2>1
  <2> QED
    BY <2>2 DEF queue
<1> QED
  BY <1>1, <1>2, <1>3, <1>4, <1>5

\* cond_wait() joins the list of the condition, which Monitor does not see.
LEMMA WaitCalled ==
  ASSUME MInv, IInv', NEW t \in Thread, NEW c \in Cond, CallCondWait(t, c)
  PROVE  MonitorInv' /\ UNCHANGED M!vars
<1> DEFINE q == condWaiters[c]
           n == Len(q)
<1>1. /\ MonitorInv /\ SignalInv /\ TypeOK /\ t \in AllThreads
      /\ condWaiters \in [Cond -> Seq(AllThreads)]
      /\ frame \in [AllThreads -> Frame] /\ Thread \subseteq AllThreads
      /\ q \in Seq(AllThreads) /\ n \in Nat /\ DOMAIN q = 1 .. n
  BY DEF MInv, SInv, IInv, TypeOK, AllThreads
<1>2. /\ frame[t].at = "code" /\ ~Waits(t) /\ holder' = holder
      /\ holder[LockOf[c]] = t
  BY DEF CallCondWait, InCode, Waits
<1>3. /\ frame'[t] = At("wunhold", LockOf[c], None, c, 0)
      /\ \A x \in AllThreads : x # t => frame'[x] = frame[x]
  BY <1>1 DEF CallCondWait
<1>4. frame'[t].at = "wunhold" /\ frame'[t].cond = c /\ frame'[t].lock = LockOf[c]
  BY <1>3 DEF At
<1>5. /\ condWaiters'[c] = Append(q, t)
      /\ \A d \in Cond : d # c => condWaiters'[d] = condWaiters[d]
  BY <1>1 DEF CallCondWait
<1>6. /\ Len(condWaiters'[c]) = n + 1 /\ condWaiters'[c][n + 1] = t
      /\ DOMAIN condWaiters'[c] = 1 .. n + 1
      /\ \A i \in 1 .. n : condWaiters'[c][i] = q[i]
  BY <1>1, <1>5
<1>7. /\ \A x \in Thread : frame[x].at \in {"wunhold", "wrel"} => frame[x].cond # c
      /\ \A i \in 1 .. n : q[i] \in Thread /\ q[i] # t /\ frame[q[i]].at = "wait"
      /\ queue[c] = q
  BY <1>1, <1>2, AllWait
<1>8. \A d \in Cond : \A x \in AllThreads : Queued(x, condWaiters[d]) =>
         x \in Thread /\ x # t /\ frame[x].cond = d
  BY <1>1, <1>2 DEF SignalInv
<1>9. \A d \in Cond : \A x \in Thread :
         x # t => (Queued(x, condWaiters'[d]) <=> Queued(x, condWaiters[d]))
  <2>1. \A x \in Thread : Queued(x, Append(q, t)) <=> Queued(x, q) \/ x = t
    BY <1>1, QueuedAppend
  <2> QED
    BY <1>5, <2>1
<1>10. MonitorInv'
  <2>1. ASSUME NEW x \in Thread
        PROVE  /\ Waits(x)' => frame'[x].lock = LockOf[frame'[x].cond]
               /\ frame'[x].at \in {"sig", "bsig", "bcast"} =>
                    holder'[LockOf[frame'[x].cond]] = x
    BY <1>1, <1>2, <1>3, <1>4 DEF MonitorInv, Waits
  <2>2. ASSUME NEW x \in Thread, frame'[x].at \in {"wunhold", "wrel"}
        PROVE  LET p == condWaiters'[frame'[x].cond] IN p # <<>> /\ p[Len(p)] = x
    <3>1. CASE x = t
      BY <1>1, <1>4, <1>6, <3>1
    <3>2. CASE x # t
      <4>1. frame'[x] = frame[x] /\ frame[x].cond # c /\ frame[x].cond \in Cond
        BY <1>1, <1>3, <1>7, <2>2, <3>2 DEF SignalInv, Waits
      <4> QED
        BY <1>1, <1>5, <2>2, <4>1 DEF MonitorInv
    <3> QED
      BY <3>1, <3>2
  <2>3. ASSUME NEW d \in Cond, NEW i \in DOMAIN condWaiters'[d],
               i < Len(condWaiters'[d])
        PROVE  frame'[condWaiters'[d][i]].at = "wait"
    <3>1. CASE d = c
      <4>1. i \in 1 .. n /\ condWaiters'[d][i] = q[i]
        BY <1>1, <1>6, <2>3, <3>1
      <4>2. q[i] \in AllThreads /\ q[i] # t /\ frame[q[i]].at = "wait"
        BY <1>1, <1>7, <4>1
      <4> QED
        BY <1>3, <4>1, <4>2
    <3>2. CASE d # c
      <4>1. /\ frame[condWaiters[d][i]].at = "wait"
            /\ condWaiters[d][i] \in AllThreads /\ condWaiters[d][i] # t
        BY <1>1, <1>2, <1>5, <2>3, <3>2 DEF MonitorInv
      <4> QED
        BY <1>3, <1>5, <3>2, <4>1
    <3> QED
      BY <3>1, <3>2
  <2> QED
    BY <2>1, <2>2, <2>3 DEF MonitorInv
<1>11. queue' = queue
  <2>1. queue'[c] = q
    <3> DEFINE p == condWaiters'[c]
    <3>1. Len(p) > 0 /\ frame'[p[Len(p)]].at # "wait"
      BY <1>1, <1>4, <1>6
    <3>2. queue'[c] = SubSeq(p, 1, Len(p) - 1)
      BY <3>1, QueueIsNext DEF QueueExact
    <3> QED
      BY <1>1, <1>5, <1>6, <3>2
  <2>2. ASSUME NEW d \in Cond, d # c PROVE queue'[d] = queue[d]
    <3> DEFINE p == condWaiters[d]
               k == Len(p)
    <3>1. p \in Seq(AllThreads) /\ k \in Nat /\ DOMAIN p = 1 .. k
      BY <1>1
    <3>2. k > 0 => p[k] \in AllThreads /\ Queued(p[k], p)
      BY <3>1 DEF Queued
    <3>3. k > 0 => frame'[p[k]] = frame[p[k]]
      BY <1>3, <1>8, <3>2
    <3> QED
      BY <1>5, <2>2, <3>3 DEF queue
  <2> QED
    BY <1>7, <2>1, <2>2 DEF queue
<1>12. resume' = resume
  <2>1. resume[t] = None /\ resume'[t] = None
    BY <1>2, <1>4 DEF resume
  <2>2. ASSUME NEW x \in Thread, x # t PROVE resume'[x] = resume[x]
    BY <1>1, <1>3, <1>9, <2>2 DEF resume
  <2> QED
    BY <2>1, <2>2 DEF resume
<1>13. owner' = owner
  <2>1. \A x \in Thread : \A l \in Lock : Owns(x, l)' <=> Owns(x, l)
    BY <1>1, <1>2, <1>3, <1>4 DEF Owns
  <2> QED
    BY <2>1, OwnerKept, OwnerIs, OwnerIsNext DEF MInv, SInv, IInv
<1> QED
  BY <1>10, <1>11, <1>12, <1>13 DEF M!vars

\* Its holder is NULL before the unit goes back: Monitor sees neither.
LEMMA WaitUnheld ==
  ASSUME MInv, IInv', NEW t \in Thread, CondWaitUnhold(t)
  PROVE  MonitorInv' /\ UNCHANGED M!vars
<1>1. /\ MonitorInv /\ SignalInv /\ TypeOK /\ t \in AllThreads
      /\ holder \in [Lock -> AllThreads \cup {None}]
      /\ Thread \subseteq AllThreads /\ None \notin Thread
      /\ condWaiters' = condWaiters /\ frame[t].at = "wunhold"
      /\ condWaiters \in [Cond -> Seq(AllThreads)]
  BY ThreadAssumption DEF MInv, SInv, IInv, TypeOK, AllThreads, CondWaitUnhold
<1>2. PICK l \in Lock : l = frame[t].lock
  BY <1>1 DEF MInv, SInv, IInv, FrameOK, FrameGood
<1>3. holder[l] = t /\ holder' = [holder EXCEPT ![l] = None]
  BY <1>1, <1>2 DEF MInv, SInv, IInv, HoldersOK, CondWaitUnhold
<1>4. /\ frame'[t].at = "wrel" /\ frame'[t].lock = l
      /\ frame'[t].cond = frame[t].cond
      /\ \A x \in AllThreads : x # t => frame'[x] = frame[x]
  BY <1>1, <1>2, GoFields DEF CondWaitUnhold
<1>5. MonitorInv'
  <2>1. ASSUME NEW x \in Thread
        PROVE  /\ Waits(x)' => frame'[x].lock = LockOf[frame'[x].cond]
               /\ frame'[x].at \in {"wunhold", "wrel"} =>
                    LET q == condWaiters'[frame'[x].cond]
                    IN  q # <<>> /\ q[Len(q)] = x
    BY <1>1, <1>2, <1>4 DEF MonitorInv, Waits
  <2>2. ASSUME NEW x \in Thread, frame'[x].at \in {"sig", "bsig", "bcast"}
        PROVE  holder'[LockOf[frame'[x].cond]] = x
    <3>1. x # t /\ frame'[x] = frame[x] /\ holder[LockOf[frame[x].cond]] = x
      BY <1>1, <1>4, <2>2 DEF MonitorInv
    <3> QED
      BY <1>1, <1>3, <3>1
  <2>3. ASSUME NEW d \in Cond, NEW i \in DOMAIN condWaiters'[d],
               i < Len(condWaiters'[d])
        PROVE  frame'[condWaiters'[d][i]].at = "wait"
    BY <1>1, <1>4, <2>3 DEF MonitorInv
  <2> QED
    BY <2>1, <2>2, <2>3 DEF MonitorInv
<1>6. queue' = queue
  BY <1>1, <1>4, QueueKept
<1>7. resume' = resume
  BY <1>1, <1>4 DEF resume
<1>8. owner' = owner
  <2>1. \A x \in Thread : \A m \in Lock : Owns(x, m)' <=> Owns(x, m)
    BY <1>1, <1>2, <1>3, <1>4 DEF Owns
  <2> QED
    BY <2>1, OwnerKept, OwnerIs, OwnerIsNext DEF MInv, SInv, IInv
<1> QED
  BY <1>5, <1>6, <1>7, <1>8 DEF M!vars

\* The unit of the lock goes back: this is the wait of Monitor.
LEMMA WaitStarts ==
  ASSUME MInv, IInv', NEW t \in Thread, CondWaitRelease(t)
  PROVE  MonitorInv' /\ \E c \in Cond : M!Wait(t, c)
<1>1. /\ MonitorInv /\ SignalInv /\ TypeOK /\ t \in AllThreads
      /\ Thread \subseteq AllThreads /\ None \notin Cond
      /\ condWaiters' = condWaiters /\ holder' = holder /\ frame[t].at = "wrel"
      /\ condWaiters \in [Cond -> Seq(AllThreads)]
  BY ThreadAssumption, SynchAssumption
     DEF MInv, SInv, IInv, TypeOK, AllThreads, CondWaitRelease
<1>2. PICK l \in Lock : l = frame[t].lock
  BY <1>1 DEF MInv, SInv, IInv, FrameOK, FrameGood
<1>3. PICK c \in Cond : c = frame[t].cond
  BY <1>1 DEF SignalInv, Waits
<1>4. holder[l] = None /\ l = LockOf[c]
  BY <1>1, <1>2, <1>3 DEF MInv, SInv, IInv, HoldersOK, MonitorInv, Waits
<1>5. /\ frame'[t].at = "wait" /\ frame'[t].lock = l /\ frame'[t].cond = c
      /\ \A x \in AllThreads : x # t => frame'[x] = frame[x]
  BY <1>1, <1>2, <1>3, GoFields DEF CondWaitRelease
<1> DEFINE q == condWaiters[c]
           n == Len(q)
<1>6. /\ q \in Seq(AllThreads) /\ n \in Nat \ {0} /\ DOMAIN q = 1 .. n
      /\ q[n] = t /\ Queued(t, q)
  <2>1. q \in Seq(AllThreads) /\ q # <<>> /\ q[n] = t
    BY <1>1, <1>3 DEF MonitorInv
  <2>2. n \in Nat \ {0} /\ DOMAIN q = 1 .. n
    BY <2>1
  <2> QED
    BY <2>1, <2>2 DEF Queued
<1>7. MonitorInv'
  <2>1. ASSUME NEW x \in Thread
        PROVE  /\ Waits(x)' => frame'[x].lock = LockOf[frame'[x].cond]
               /\ frame'[x].at \in {"wunhold", "wrel"} =>
                    LET p == condWaiters'[frame'[x].cond]
                    IN  p # <<>> /\ p[Len(p)] = x
               /\ frame'[x].at \in {"sig", "bsig", "bcast"} =>
                    holder'[LockOf[frame'[x].cond]] = x
    BY <1>1, <1>4, <1>5 DEF MonitorInv, Waits
  <2>2. ASSUME NEW d \in Cond, NEW i \in DOMAIN condWaiters'[d],
               i < Len(condWaiters'[d])
        PROVE  frame'[condWaiters'[d][i]].at = "wait"
    <3>1. condWaiters[d][i] \in AllThreads /\ frame[condWaiters[d][i]].at = "wait"
      BY <1>1, <2>2 DEF MonitorInv
    <3> QED
      BY <1>1, <1>5, <3>1
  <2> QED
    BY <2>1, <2>2 DEF MonitorInv
<1>8. owner[l] = t /\ owner' = [owner EXCEPT ![l] = None]
  <2>1. Owns(t, l)
    BY <1>1, <1>2 DEF Owns
  <2>2. \A x \in Thread : \A m \in Lock :
           Owns(x, m)' <=> Owns(x, m) /\ ~(x = t /\ m = l)
    <3>1. None \notin Thread
      BY ThreadAssumption
    <3> QED
      BY <1>1, <1>2, <1>4, <1>5, <3>1 DEF Owns
  <2> QED
    BY <2>1, <2>2, OwnerGives, OwnerIs, OwnerIsNext DEF MInv, SInv, IInv
<1>9. queue' = [queue EXCEPT ![c] = Append(@, t)]
  <2>1. queue[c] = SubSeq(q, 1, n - 1) /\ queue'[c] = q
    <3>1. n > 0 /\ frame[q[n]].at # "wait" /\ frame'[q[n]].at = "wait"
      BY <1>1, <1>5, <1>6
    <3>2. queue[c] = SubSeq(q, 1, n - 1)
      BY <3>1, QueueIs DEF QueueExact
    <3>3. queue'[c] = q
      BY <1>1, <3>1, QueueIsNext DEF QueueExact
    <3> QED
      BY <3>2, <3>3
  <2>2. Append(SubSeq(q, 1, n - 1), t) = q
    BY <1>6
  <2>3. ASSUME NEW d \in Cond, d # c PROVE queue'[d] = queue[d]
    <3> DEFINE p == condWaiters[d]
               k == Len(p)
    <3>1. p \in Seq(AllThreads) /\ k \in Nat /\ DOMAIN p = 1 .. k
      BY <1>1
    <3>2. k > 0 => p[k] \in AllThreads /\ Queued(p[k], p)
      BY <3>1 DEF Queued
    <3>3. k > 0 => p[k] # t
      BY <1>1, <1>3, <2>3, <3>2 DEF SignalInv
    <3>4. k > 0 => frame'[p[k]] = frame[p[k]]
      BY <1>5, <3>2, <3>3
    <3> QED
      BY <1>1, <3>4 DEF queue
  <2>4. queue = [d \in Cond |-> queue[d]] /\ queue' = [d \in Cond |-> queue'[d]]
    BY DEF queue
  <2> QED
    BY <2>1, <2>2, <2>3, <2>4
<1>10. ~M!Waiting(t) /\ resume[t] = None
  BY <1>1, QueueIn DEF resume
<1>11. resume' = resume
  <2>1. resume'[t] = None
    BY <1>1, <1>5, <1>6 DEF resume
  <2>2. ASSUME NEW x \in Thread, x # t PROVE resume'[x] = resume[x]
    BY <1>1, <1>5, <2>2, ResumeKept
  <2> QED
    BY <1>10, <2>1, <2>2 DEF resume
<1> QED
  BY <1>4, <1>7, <1>8, <1>9, <1>10, <1>11 DEF M!Wait

\* The thread leaves the wait and goes for the lock it has yet to take.
LEMMA WaitEnds ==
  ASSUME MInv, IInv', NEW t \in Thread, TakesSignal(t)
  PROVE  MonitorInv' /\ UNCHANGED M!vars
<1>1. /\ MonitorInv /\ SignalInv /\ TypeOK /\ t \in AllThreads
      /\ Thread \subseteq AllThreads /\ None \notin Cond
      /\ condWaiters' = condWaiters /\ holder' = holder /\ frame[t].at = "wait"
      /\ condWaiters \in [Cond -> Seq(AllThreads)]
      /\ frame' = Go(t, "acq") /\ value[t] # 0
  BY ThreadAssumption, SynchAssumption
     DEF MInv, SInv, IInv, TypeOK, AllThreads, TakesSignal, SemaDown, Downs, Downed
<1>2. \A d \in Cond : ~Queued(t, condWaiters[d])
  BY <1>1 DEF SignalInv
<1>3. frame[t].cond \in Cond
  BY <1>1 DEF SignalInv, Waits
<1>4. /\ frame'[t].at = "acq" /\ frame'[t].lock = frame[t].lock
      /\ frame'[t].cond = frame[t].cond
      /\ \A x \in AllThreads : x # t => frame'[x] = frame[x]
  BY <1>1, GoFields
<1>5. MonitorInv'
  <2>1. ASSUME NEW x \in Thread
        PROVE  /\ Waits(x)' => frame'[x].lock = LockOf[frame'[x].cond]
               /\ frame'[x].at \in {"wunhold", "wrel"} =>
                    LET p == condWaiters'[frame'[x].cond]
                    IN  p # <<>> /\ p[Len(p)] = x
               /\ frame'[x].at \in {"sig", "bsig", "bcast"} =>
                    holder'[LockOf[frame'[x].cond]] = x
    BY <1>1, <1>4 DEF MonitorInv, Waits
  <2>2. ASSUME NEW d \in Cond, NEW i \in DOMAIN condWaiters'[d],
               i < Len(condWaiters'[d])
        PROVE  frame'[condWaiters'[d][i]].at = "wait"
    <3>1. /\ condWaiters[d][i] \in AllThreads /\ condWaiters[d][i] # t
          /\ frame[condWaiters[d][i]].at = "wait"
      BY <1>1, <1>2, <2>2 DEF MonitorInv, Queued
    <3> QED
      BY <1>1, <1>4, <3>1
  <2> QED
    BY <2>1, <2>2 DEF MonitorInv
<1>6. queue' = queue
  BY <1>1, <1>2, <1>4, QueueKept
<1>7. resume' = resume
  BY <1>1, <1>2, <1>3, <1>4 DEF resume
<1>8. owner' = owner
  <2>1. \A x \in Thread : \A m \in Lock : Owns(x, m)' <=> Owns(x, m)
    BY <1>1, <1>4 DEF Owns
  <2> QED
    BY <2>1, OwnerKept, OwnerIs, OwnerIsNext DEF MInv, SInv, IInv
<1> QED
  BY <1>5, <1>6, <1>7, <1>8 DEF M!vars

\* cond_signal() and cond_broadcast() release the one that waited longest.
LEMMA WaitSignalled ==
  ASSUME MInv, IInv', NEW t \in Thread, NEW c \in Cond, Pops(t, c),
         holder[LockOf[c]] = t
  PROVE  MonitorInv' /\ M!Signal(t, c)
<1> DEFINE q == condWaiters[c]
           n == Len(q)
           w == Head(q)
           l == LockOf[c]
<1>1. /\ MonitorInv /\ SignalInv /\ TypeOK /\ t \in AllThreads
      /\ Thread \subseteq AllThreads /\ None \notin Cond
      /\ condWaiters \in [Cond -> Seq(AllThreads)]
      /\ frame \in [AllThreads -> Frame] /\ frame[t].at \in {"code", "bcast"}
      /\ ~Waits(t) /\ holder' = holder
  BY SynchAssumption
     DEF MInv, SInv, IInv, TypeOK, AllThreads, Waits, Pops, PopWaiter
<1>2. /\ q \in Seq(AllThreads) /\ q # <<>> /\ n \in Nat \ {0} /\ DOMAIN q = 1 .. n
      /\ w = q[1]
  <2>1. q \in Seq(AllThreads) /\ q # <<>>
    BY <1>1 DEF Pops, PopWaiter
  <2> QED
    BY <2>1
<1>3. /\ Owns(t, l) /\ l \in Lock
      /\ \A x \in Thread : frame[x].at \in {"wunhold", "wrel"} => frame[x].cond # c
      /\ \A i \in 1 .. n : q[i] \in Thread /\ q[i] # t /\ frame[q[i]].at = "wait"
      /\ queue[c] = q
  BY <1>1, <1>2, AllWait
<1>4. /\ condWaiters'[c] = Tail(q)
      /\ \A d \in Cond : d # c => condWaiters'[d] = condWaiters[d]
  BY <1>1 DEF Pops, PopWaiter
<1>5. /\ frame'[t].at \in {"sig", "bsig"} /\ frame'[t].cond = c
      /\ \A x \in AllThreads : x # t => frame'[x] = frame[x]
  BY <1>1 DEF Pops, PopWaiter, At
<1>6. /\ Len(Tail(q)) = n - 1 /\ DOMAIN Tail(q) = 1 .. n - 1
      /\ \A i \in 1 .. n - 1 : Tail(q)[i] = q[i + 1]
      /\ \A i \in 1 .. n - 1 : i + 1 \in 1 .. n
  BY <1>2
<1>7. \A i \in 1 .. n - 1 : /\ Tail(q)[i] \in Thread /\ Tail(q)[i] # t
                            /\ frame'[Tail(q)[i]].at = "wait"
  BY <1>1, <1>3, <1>5, <1>6
<1>8. /\ w \in Thread /\ w # t /\ frame[w].at = "wait" /\ frame[w].cond = c
      /\ frame[w].lock = l /\ Queued(w, q) /\ frame'[w] = frame[w]
  <2>1. w \in Thread /\ w # t /\ frame[w].at = "wait" /\ Queued(w, q)
    BY <1>2, <1>3 DEF Queued
  <2>2. frame[w].cond = c
    BY <1>1, <2>1 DEF SignalInv
  <2>3. frame[w].lock = l
    BY <1>1, <2>1, <2>2 DEF MonitorInv, Waits
  <2> QED
    BY <1>1, <1>5, <2>1, <2>2, <2>3
<1> HIDE DEF w
<1>9. \A d \in Cond : \A x \in Thread :
         Queued(x, condWaiters'[d]) <=> Queued(x, condWaiters[d]) /\ x # w
  <2>1. Distinct(q)
    BY <1>1 DEF SignalInv
  <2>2. \A x : Queued(x, Tail(q)) <=> Queued(x, q) /\ x # w
    BY <1>2, <2>1, QueuedTail DEF w
  <2>3. \A d \in Cond : d # c => ~Queued(w, condWaiters[d])
    BY <1>1, <1>8 DEF SignalInv
  <2> QED
    BY <1>4, <2>2, <2>3
<1>10. MonitorInv'
  <2>1. ASSUME NEW x \in Thread
        PROVE  /\ Waits(x)' => frame'[x].lock = LockOf[frame'[x].cond]
               /\ frame'[x].at \in {"sig", "bsig", "bcast"} =>
                    holder'[LockOf[frame'[x].cond]] = x
    BY <1>1, <1>5 DEF MonitorInv, Waits
  <2>2. ASSUME NEW x \in Thread, frame'[x].at \in {"wunhold", "wrel"}
        PROVE  LET p == condWaiters'[frame'[x].cond] IN p # <<>> /\ p[Len(p)] = x
    <3>1. x # t /\ frame'[x] = frame[x]
      BY <1>1, <1>5, <2>2
    <3>2. frame[x].cond \in Cond /\ frame[x].cond # c
      BY <1>1, <1>3, <2>2, <3>1 DEF SignalInv, Waits
    <3> QED
      BY <1>1, <1>4, <2>2, <3>1, <3>2 DEF MonitorInv
  <2>3. ASSUME NEW d \in Cond, NEW i \in DOMAIN condWaiters'[d],
               i < Len(condWaiters'[d])
        PROVE  frame'[condWaiters'[d][i]].at = "wait"
    <3>1. CASE d = c
      BY <1>4, <1>6, <1>7, <2>3, <3>1
    <3>2. CASE d # c
      <4>1. /\ frame[condWaiters[d][i]].at = "wait"
            /\ condWaiters[d][i] \in AllThreads /\ condWaiters[d][i] # t
        BY <1>1, <1>4, <2>3, <3>2 DEF MonitorInv
      <4> QED
        BY <1>4, <1>5, <3>2, <4>1
    <3> QED
      BY <3>1, <3>2
  <2> QED
    BY <2>1, <2>2, <2>3 DEF MonitorInv
<1>11. owner[l] = t /\ owner' = owner
  <2>1. OwnerExact /\ OwnerExact'
    BY OwnerIs, OwnerIsNext DEF MInv, SInv, IInv
  <2>2. \A x \in Thread : \A m \in Lock : Owns(x, m)' <=> Owns(x, m)
    BY <1>1, <1>5 DEF Owns
  <2> QED
    BY <1>3, <2>1, <2>2, OwnerKept DEF OwnerExact
<1>12. ~M!Waiting(t) /\ resume[t] = None
  BY <1>1, QueueIn DEF resume
<1>13. queue' = [queue EXCEPT ![c] = Tail(@)]
  <2>1. queue'[c] = Tail(q)
    <3>0. n - 1 > 0 => n - 1 \in 1 .. n - 1
      BY <1>2
    <3>1. n - 1 > 0 => frame'[Tail(q)[n - 1]].at = "wait"
      BY <1>7, <3>0
    <3>2. ~(Len(Tail(q)) > 0 /\ frame'[Tail(q)[Len(Tail(q))]].at # "wait")
      BY <1>2, <1>6, <3>1
    <3> DEFINE p == condWaiters'[c]
    <3>3. ~(Len(p) > 0 /\ frame'[p[Len(p)]].at # "wait")
      BY <1>4, <3>2
    <3>4. queue'[c] = p
      BY <3>3, QueueIsNext DEF QueueExact
    <3> QED
      BY <1>4, <3>4
  <2>2. ASSUME NEW d \in Cond, d # c PROVE queue'[d] = queue[d]
    <3> DEFINE p == condWaiters[d]
               k == Len(p)
    <3>1. p \in Seq(AllThreads) /\ k \in Nat /\ DOMAIN p = 1 .. k
      BY <1>1
    <3>2. k > 0 => p[k] \in AllThreads /\ Queued(p[k], p)
      BY <3>1 DEF Queued
    <3>3. k > 0 => frame'[p[k]] = frame[p[k]]
      BY <1>1, <1>5, <3>2 DEF SignalInv
    <3> QED
      BY <1>4, <2>2, <3>3 DEF queue
  <2>3. queue = [d \in Cond |-> queue[d]] /\ queue' = [d \in Cond |-> queue'[d]]
    BY DEF queue
  <2> QED
    BY <1>3, <2>1, <2>2, <2>3
<1>14. resume' = [resume EXCEPT ![w] = l]
  <2>1. resume'[w] = l
    BY <1>1, <1>8, <1>9 DEF resume
  <2>2. resume'[t] = None
    BY <1>5 DEF resume
  <2>3. ASSUME NEW x \in Thread, x # w, x # t PROVE resume'[x] = resume[x]
    BY <1>1, <1>5, <1>9, <2>3 DEF resume
  <2>4. resume = [x \in Thread |-> resume[x]] /\ resume' = [x \in Thread |-> resume'[x]]
    BY DEF resume
  <2> QED
    BY <1>8, <1>12, <2>1, <2>2, <2>3, <2>4
<1> QED
  BY <1>2, <1>3, <1>10, <1>11, <1>12, <1>13, <1>14 DEF M!Signal, w

-----------------------------------------------------------------------------
\* Every step keeps MonitorInv and is a step of Monitor, or none.
LEMMA MonitorStep ==
  MInv /\ SInv' /\ [Next]_vars => MonitorInv' /\ [M!Next]_(M!vars)
<1> SUFFICES ASSUME MInv, SInv', [Next]_vars
             PROVE  MonitorInv' /\ [M!Next]_(M!vars)
  OBVIOUS
<1>0. IInv /\ IInv'
  BY DEF MInv, SInv
<1>1. CASE Next /\ ~CondStep
  <2>1. PICK t \in Thread :
          Dull(t) /\ (Keeps(t) \/ \E l \in Lock : Takes(t, l) \/ Gives(t, l))
    BY <1>0, <1>1, OtherDull DEF DullStep
  <2> QED
    BY <1>0, <2>1, DullKeeps, DullMonitor
<1>2. CASE Next /\ CondStep
  <2>1. PICK t \in Thread :
          \/ \E c \in Cond :
               CallCondWait(t, c) \/ CallCondSignal(t, c) \/ CallCondBroadcast(t, c)
          \/ CondBroadcastNext(t) \/ CondWaitUnhold(t) \/ CondWaitRelease(t)
          \/ TakesSignal(t)
    BY <1>2 DEF CondStep
  <2>2. CASE \E c \in Cond : CallCondWait(t, c)
    BY <1>0, <2>2, WaitCalled
  <2>3. CASE CondWaitUnhold(t)
    BY <1>0, <2>3, WaitUnheld
  <2>4. CASE TakesSignal(t)
    BY <1>0, <2>4, WaitEnds
  <2>5. CASE CondWaitRelease(t)
    BY <1>0, <2>5, WaitStarts DEF M!Next
  <2>6. ASSUME NEW c \in Cond, Pops(t, c), holder[LockOf[c]] = t
        PROVE  MonitorInv' /\ [M!Next]_(M!vars)
    BY <1>0, <2>6, WaitSignalled DEF M!Next
  <2>7. CASE \E c \in Cond : CallCondSignal(t, c) \/ CallCondBroadcast(t, c)
    BY <2>6, <2>7 DEF CallCondSignal, CallCondBroadcast, InCode, Pops
  <2>8. CASE CondBroadcastNext(t)
    <3>1. frame[t].at = "bcast" /\ FrameGood(frame[t])
      BY <1>0, <2>8 DEF CondBroadcastNext, IInv, FrameOK
    <3>2. frame[t].cond \in Cond /\ holder[LockOf[frame[t].cond]] = t
      BY <3>1 DEF FrameGood, MInv, MonitorInv
    <3> QED
      BY <2>6, <2>8, <3>1, <3>2 DEF CondBroadcastNext, Pops
  <2> QED
    BY <2>1, <2>2, <2>3, <2>4, <2>5, <2>7, <2>8
<1>3. CASE UNCHANGED vars
  <2>1. /\ condWaiters' = condWaiters /\ frame' = frame /\ holder' = holder
    BY <1>3 DEF vars, synchVars
  <2>2. MonitorInv'
    BY <2>1 DEF MInv, MonitorInv, Waits
  <2>3. queue' = queue /\ resume' = resume
    BY <2>1 DEF queue, resume
  <2>4. owner' = owner
    <3>1. \A x \in Thread : \A m \in Lock : Owns(x, m)' <=> Owns(x, m)
      BY <2>1 DEF Owns
    <3> QED
      BY <1>0, <3>1, OwnerKept, OwnerIs, OwnerIsNext DEF IInv
  <2> QED
    BY <2>2, <2>3, <2>4 DEF M!vars
<1> QED
  BY <1>1, <1>2, <1>3

LEMMA InitMonitor == Init => MonitorInv /\ M!Init
<1> SUFFICES ASSUME Init PROVE MonitorInv /\ M!Init
  OBVIOUS
<1>1. /\ Thread \subseteq AllThreads /\ None \notin Lock
      /\ \A c \in Cond : condWaiters[c] = <<>>
      /\ \A l \in Lock : holder[l] = None
      /\ \A t \in Thread : frame[t].at \in {"code", "sema"}
  BY SynchAssumption DEF Init, AllThreads, Code, At
<1>2. MonitorInv
  <2>1. \A c \in Cond : DOMAIN condWaiters[c] = {}
    BY <1>1
  <2> QED
    BY <1>1, <2>1 DEF MonitorInv, Waits
<1>3. owner = [l \in Lock |-> None]
  <2>1. None \notin Thread
    BY ThreadAssumption
  <2> QED
    BY <1>1, <2>1 DEF owner, Owns
<1>4. queue = [c \in Cond |-> <<>>]
  BY <1>1 DEF queue
<1>5. resume = [t \in Thread |-> None]
  BY <1>1 DEF resume
<1> QED
  BY <1>2, <1>3, <1>4, <1>5 DEF M!Init

\* synch.c implements Monitor: "Atomically releases LOCK and waits for COND",
\* and a signal releases the waiter that has waited longest, for any threads,
\* locks and conditions.
THEOREM SynchImplementsMonitor == Spec => MonitorSpec
<1>1. Init => MInv /\ M!Init
  BY InitInv, InitSignal, InitMonitor DEF MInv, SInv
<1>2. MInv /\ [Next]_vars => MInv' /\ [M!Next]_(M!vars)
  BY SynchStep, SignalInvStep, MonitorStep DEF MInv, SInv
<1> QED
  BY <1>1, <1>2, PTL DEF Spec, MonitorSpec, M!Spec
=============================================================================
