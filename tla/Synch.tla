-------------------------------- MODULE Synch -------------------------------
(***************************************************************************)
(* Semaphores, locks and condition variables of threads/synch.c, and the   *)
(* thread operations of threads/thread.c that use them, over the scheduler *)
(* of module Thread.                                                       *)
(*                                                                         *)
(* frame[t] says where in these functions t is.  What the code does with   *)
(* interrupts off is one step; everywhere else the timer, a device or,     *)
(* after a switch, another thread can come in between, and the functions   *)
(* are cut there:                                                          *)
(*   lock_acquire   acq (sema_down) . hold (holder = t)                    *)
(*   lock_release   holder = NULL . rel (sema_up)                          *)
(*   cond_wait      push waiter . wunhold . wrel . wait . acq . hold       *)
(*   cond_signal    pop waiter . sig (sema_up)                             *)
(*   cond_broadcast bcast { pop waiter . bsig (sema_up) }                  *)
(*   thread_create  init_thread . acq . hold . load . store . unhold .    *)
(*                  rel . ready                                            *)
(* A thread at "code" runs its own code and may call anything whose        *)
(* ASSERTs about the caller hold.                                          *)
(***************************************************************************)
EXTENDS Thread, FiniteSets

CONSTANTS Sema,        \* semaphores of device drivers and other clients
          Lock,        \* locks; the semaphore in a lock goes by its name
          Cond,        \* condition variables
          LockOf,      \* the one lock each condition is used with
          TidLock,     \* tid_lock, used by allocate_tid() only
          IdleStarted, \* the semaphore thread_start() waits on
          MaxValue,    \* bound: no client ups a semaphore beyond this
          MaxTid       \* bound: no thread is created with a larger tid

ASSUME SynchAssumption ==
  /\ TidLock \in Lock /\ IdleStarted \in Sema
  /\ LockOf \in [Cond -> Lock \ {TidLock}]
  /\ Sema \cap Lock = {} /\ (Sema \cup Lock) \cap AllThreads = {}
  /\ None \notin Sema \cup Lock \cup Cond
  /\ MaxValue \in Nat \ {0} /\ MaxTid \in Nat

\* Every thread takes a page of memory.
ASSUME FiniteThreads == IsFiniteSet(Thread)

VARIABLES value,       \* value of every semaphore
          waiters,     \* waiters of every semaphore
          holder,      \* holder of every lock
          condWaiters, \* the threads whose semaphore_elem is on each condition
          frame,       \* where each thread is
          nextTid,     \* next_tid of allocate_tid()
          tid          \* tid of every thread

synchVars == <<value, waiters, holder, condWaiters, frame, nextTid, tid>>
vars == <<schedVars, synchVars>>

\* Every semaphore: a client's, a lock's, and the one in the semaphore_elem
\* that cond_wait keeps on the stack of the waiting thread.
AllSemas == Sema \cup Lock \cup AllThreads

\* obj is the semaphore, or the new thread, that the call is about.
At(label, lock, obj, cond, arg) ==
  [at |-> label, lock |-> lock, obj |-> obj, cond |-> cond, arg |-> arg]

Code == At("code", None, None, None, 0)

Go(t, label) == [frame EXCEPT ![t].at = label]
Return(t)    == [frame EXCEPT ![t] = Code]

\* t runs the caller's own code, with interrupts on.
InCode(t) == current = t /\ frame[t].at = "code" /\ t # Idle

-----------------------------------------------------------------------------
\* Mutant: sema_up() looks at the first waiter without taking it off the list.
SemaUpPeek(s) ==
  /\ value' = [value EXCEPT ![s] = @ + 1]
  /\ UNCHANGED waiters
  /\ IF waiters[s] = <<>> THEN UNCHANGED schedVars
                          ELSE ThreadUnblock(Head(waiters[s]))

\* Mutant: sema_up() wakes nobody.
SemaUpSilent(s) ==
  value' = [value EXCEPT ![s] = @ + 1] /\ UNCHANGED <<waiters, schedVars>>

\* sema_up(), called by a thread or an interrupt handler.
SemaUp(s) ==
  /\ value' = [value EXCEPT ![s] = @ + 1]
  /\ IF waiters[s] = <<>>
     THEN UNCHANGED <<waiters, schedVars>>
     ELSE /\ waiters' = [waiters EXCEPT ![s] = Tail(@)]
          /\ ThreadUnblock(Head(waiters[s]))

\* The semaphore a thread in sema_down() downs, and where it goes then.
InDown(t) == frame[t].at \in {"sema", "acq", "wait"}

Downs(t) == IF frame[t].at = "sema" THEN frame[t].obj
            ELSE IF frame[t].at = "acq" THEN frame[t].lock
            ELSE t

Downed(t) == IF frame[t].at = "sema" THEN Return(t)
             ELSE Go(t, IF frame[t].at = "acq" THEN "hold" ELSE "acq")

\* sema_down(): one test of the loop.  A thread that finds 0 sleeps, and
\* comes back to the test with interrupts still off; a thread that was woken
\* may find 0 again, and then queues anew behind those who came meanwhile.
SemaDown(t) ==
  /\ current = t /\ InDown(t)
  /\ IF value[Downs(t)] = 0
     THEN /\ waiters' = [waiters EXCEPT ![Downs(t)] = Append(@, t)]
          /\ ThreadBlock
          /\ UNCHANGED <<value, frame>>
     ELSE /\ value' = [value EXCEPT ![Downs(t)] = @ - 1]
          /\ frame' = Downed(t)
          /\ IntrEnable
          /\ UNCHANGED waiters
  /\ UNCHANGED <<holder, condWaiters, nextTid, tid>>

CallSemaDown(t, s) ==
  /\ InCode(t)
  /\ frame' = [frame EXCEPT ![t] = At("sema", None, s, None, 0)]
  /\ UNCHANGED <<schedVars, value, waiters, holder, condWaiters, nextTid, tid>>

\* Mutant: sema_try_down() without its test.
SemaTryDownBlind(t, s) ==
  /\ InCode(t)
  /\ value' = [value EXCEPT ![s] = @ - 1]
  /\ UNCHANGED <<schedVars, waiters, holder, condWaiters, frame, nextTid, tid>>

SemaTryDown(t, s) ==
  /\ InCode(t) /\ value[s] > 0
  /\ value' = [value EXCEPT ![s] = @ - 1]
  /\ UNCHANGED <<schedVars, waiters, holder, condWaiters, frame, nextTid, tid>>

CallSemaUp(t, s) ==
  /\ InCode(t) /\ value[s] < MaxValue
  /\ SemaUp(s)
  /\ UNCHANGED <<holder, condWaiters, frame, nextTid, tid>>

\* A device's interrupt handler ups a semaphore.
InterruptUp(s) ==
  /\ intr[current] = "on" /\ value[s] < MaxValue
  /\ SemaUp(s)
  /\ UNCHANGED <<holder, condWaiters, frame, nextTid, tid>>

-----------------------------------------------------------------------------
\* lock_acquire(), whose caller must not hold the lock.
CallLockAcquire(t, l) ==
  /\ InCode(t) /\ holder[l] # t
  /\ frame' = [frame EXCEPT ![t] = At("acq", l, None, None, 0)]
  /\ UNCHANGED <<schedVars, value, waiters, holder, condWaiters, nextTid, tid>>

\* lock_try_acquire() when it succeeds; it has no effect when it fails.
CallLockTryAcquire(t, l) ==
  /\ InCode(t) /\ holder[l] # t /\ value[l] > 0
  /\ value' = [value EXCEPT ![l] = @ - 1]
  /\ frame' = [frame EXCEPT ![t] = At("hold", l, None, None, 0)]
  /\ UNCHANGED <<schedVars, waiters, holder, condWaiters, nextTid, tid>>

LockHold(t) ==
  /\ current = t /\ frame[t].at = "hold"
  /\ holder' = [holder EXCEPT ![frame[t].lock] = t]
  /\ frame' = IF frame[t].lock = TidLock THEN Go(t, "load") ELSE Return(t)
  /\ UNCHANGED <<schedVars, value, waiters, condWaiters, nextTid, tid>>

\* lock_release(), whose caller must hold the lock: the holder goes first.
CallLockRelease(t, l) ==
  /\ InCode(t) /\ holder[l] = t
  /\ holder' = [holder EXCEPT ![l] = None]
  /\ frame' = [frame EXCEPT ![t] = At("rel", l, None, None, 0)]
  /\ UNCHANGED <<schedVars, value, waiters, condWaiters, nextTid, tid>>

LockReleased(t) ==
  /\ current = t /\ frame[t].at = "rel"
  /\ SemaUp(frame[t].lock)
  /\ frame' = IF frame[t].lock = TidLock THEN Go(t, "ready") ELSE Return(t)
  /\ UNCHANGED <<holder, condWaiters, nextTid, tid>>

-----------------------------------------------------------------------------
\* cond_wait(): a fresh semaphore_elem joins the waiters of the condition.
CallCondWait(t, c) ==
  /\ InCode(t) /\ holder[LockOf[c]] = t
  /\ value' = [value EXCEPT ![t] = 0]
  /\ waiters' = [waiters EXCEPT ![t] = <<>>]
  /\ condWaiters' = [condWaiters EXCEPT ![c] = Append(@, t)]
  /\ frame' = [frame EXCEPT ![t] = At("wunhold", LockOf[c], None, c, 0)]
  /\ UNCHANGED <<schedVars, holder, nextTid, tid>>

\* Mutant: cond_wait() ups the semaphore of the lock but leaves its holder.
CondWaitKeep(t) ==
  /\ current = t /\ frame[t].at = "wunhold"
  /\ frame' = Go(t, "wrel")
  /\ UNCHANGED <<schedVars, value, waiters, holder, condWaiters, nextTid, tid>>

CondWaitUnhold(t) ==
  /\ current = t /\ frame[t].at = "wunhold"
  /\ holder' = [holder EXCEPT ![frame[t].lock] = None]
  /\ frame' = Go(t, "wrel")
  /\ UNCHANGED <<schedVars, value, waiters, condWaiters, nextTid, tid>>

CondWaitRelease(t) ==
  /\ current = t /\ frame[t].at = "wrel"
  /\ SemaUp(frame[t].lock)
  /\ frame' = Go(t, "wait")
  /\ UNCHANGED <<holder, condWaiters, nextTid, tid>>

\* Mutant: the waiter to signal stays on the list of the condition.
PopWaiterPeek(t, c, label) ==
  /\ condWaiters[c] # <<>>
  /\ frame' = [frame EXCEPT ![t] = At(label, None, Head(condWaiters[c]), c, 0)]
  /\ UNCHANGED <<schedVars, value, waiters, holder, condWaiters, nextTid, tid>>

\* Mutant: the waiter that came last is signalled.
PopWaiterLast(t, c, label) ==
  LET n == Len(condWaiters[c]) IN
  /\ n > 0
  /\ condWaiters' = [condWaiters EXCEPT ![c] = SubSeq(@, 1, n - 1)]
  /\ frame' = [frame EXCEPT ![t] = At(label, None, condWaiters[c][n], c, 0)]
  /\ UNCHANGED <<schedVars, value, waiters, holder, nextTid, tid>>

\* The waiter that has waited longest leaves the list of the condition; the
\* signalling thread will up its semaphore next.
PopWaiter(t, c, label) ==
  /\ condWaiters[c] # <<>>
  /\ condWaiters' = [condWaiters EXCEPT ![c] = Tail(@)]
  /\ frame' = [frame EXCEPT ![t] =
                 At(label, None, Head(condWaiters[c]), c, 0)]
  /\ UNCHANGED <<schedVars, value, waiters, holder, nextTid, tid>>

CallCondSignal(t, c) ==
  InCode(t) /\ holder[LockOf[c]] = t /\ PopWaiter(t, c, "sig")

CallCondBroadcast(t, c) ==
  InCode(t) /\ holder[LockOf[c]] = t /\ PopWaiter(t, c, "bsig")

\* Mutant: the waiter is taken off the list, and that is all.
CondSignalDrop(t) ==
  /\ current = t /\ frame[t].at \in {"sig", "bsig"}
  /\ frame' = IF frame[t].at = "sig" THEN Return(t) ELSE Go(t, "bcast")
  /\ UNCHANGED <<schedVars, value, waiters, holder, condWaiters, nextTid, tid>>

CondSignalUp(t) ==
  /\ current = t /\ frame[t].at \in {"sig", "bsig"}
  /\ SemaUp(frame[t].obj)
  /\ frame' = IF frame[t].at = "sig" THEN Return(t) ELSE Go(t, "bcast")
  /\ UNCHANGED <<holder, condWaiters, nextTid, tid>>

CondBroadcastNext(t) ==
  /\ current = t /\ frame[t].at = "bcast"
  /\ PopWaiter(t, frame[t].cond, "bsig")

CondBroadcastDone(t) ==
  /\ current = t /\ frame[t].at = "bcast"
  /\ condWaiters[frame[t].cond] = <<>>
  /\ frame' = Return(t)
  /\ UNCHANGED <<schedVars, value, waiters, holder, condWaiters, nextTid, tid>>

-----------------------------------------------------------------------------
\* Mutant: allocate_tid() goes on without having acquired tid_lock.
CallThreadCreateUnlocked(t, u) ==
  /\ InCode(t) /\ status[u] = "none" /\ nextTid <= MaxTid
  /\ InitThread(u)
  /\ frame' = [frame EXCEPT ![t] = At("load", TidLock, u, None, 0), ![u] = Code]
  /\ tid' = [tid EXCEPT ![u] = 0]
  /\ UNCHANGED <<value, waiters, holder, condWaiters, nextTid>>

\* thread_create(): the new thread u, then allocate_tid().
CallThreadCreate(t, u) ==
  /\ InCode(t) /\ status[u] = "none" /\ nextTid <= MaxTid
  /\ InitThread(u)
  /\ frame' = [frame EXCEPT ![t] = At("acq", TidLock, u, None, 0), ![u] = Code]
  /\ tid' = [tid EXCEPT ![u] = 0]
  /\ UNCHANGED <<value, waiters, holder, condWaiters, nextTid>>

\* tid = next_tid++, which is a load and a store.
TidLoad(t) ==
  /\ current = t /\ frame[t].at = "load"
  /\ frame' = [frame EXCEPT ![t].at = "store", ![t].arg = nextTid]
  /\ UNCHANGED <<schedVars, value, waiters, holder, condWaiters, nextTid, tid>>

TidStore(t) ==
  /\ current = t /\ frame[t].at = "store"
  /\ nextTid' = frame[t].arg + 1
  /\ frame' = Go(t, "unhold")
  /\ UNCHANGED <<schedVars, value, waiters, holder, condWaiters, tid>>

TidUnhold(t) ==
  /\ current = t /\ frame[t].at = "unhold"
  /\ holder' = [holder EXCEPT ![TidLock] = None]
  /\ frame' = Go(t, "rel")
  /\ UNCHANGED <<schedVars, value, waiters, condWaiters, nextTid, tid>>

\* t->tid = tid, and the new thread joins the run queue.
ThreadReady(t) ==
  /\ current = t /\ frame[t].at = "ready"
  /\ tid' = [tid EXCEPT ![frame[t].obj] = frame[t].arg]
  /\ ThreadUnblock(frame[t].obj)
  /\ frame' = Return(t)
  /\ UNCHANGED <<value, waiters, holder, condWaiters, nextTid>>

CallThreadYield(t) ==
  InCode(t) /\ ThreadYield /\ UNCHANGED synchVars

\* A thread that exits has released its locks.
CallThreadExit(t) ==
  /\ InCode(t) /\ \A l \in Lock : holder[l] # t
  /\ ThreadExit
  /\ UNCHANGED synchVars

\* Mutant: idle() enters its loop without having set idle_thread.
IdleInitForgets ==
  /\ current = Idle /\ frame[Idle].at = "code"
  /\ frame' = Go(Idle, "idleup")
  /\ UNCHANGED <<schedVars, value, waiters, holder, condWaiters, nextTid, tid>>

\* idle(): set idle_thread, up idle_started, then block and halt forever.
IdleInit ==
  /\ current = Idle /\ frame[Idle].at = "code"
  /\ IdleStart
  /\ frame' = Go(Idle, "idleup")
  /\ UNCHANGED <<value, waiters, holder, condWaiters, nextTid, tid>>

IdleUp ==
  /\ current = Idle /\ frame[Idle].at = "idleup"
  /\ SemaUp(IdleStarted)
  /\ frame' = Go(Idle, "idle")
  /\ UNCHANGED <<holder, condWaiters, nextTid, tid>>

IdleBlock ==
  /\ current = Idle /\ frame[Idle].at = "idle" /\ intr[Idle] = "on"
  /\ ThreadBlock /\ UNCHANGED synchVars

IdleHalt ==
  /\ current = Idle /\ frame[Idle].at = "idle" /\ intr[Idle] = "off"
  /\ IntrEnable /\ UNCHANGED synchVars

-----------------------------------------------------------------------------
\* Main, tid 1, created idle, tid 2, and enters sema_down (&idle_started).
Init ==
  /\ SchedInit
  /\ value = [s \in AllSemas |-> IF s \in Lock THEN 1 ELSE 0]
  /\ waiters = [s \in AllSemas |-> <<>>]
  /\ holder = [l \in Lock |-> None]
  /\ condWaiters = [c \in Cond |-> <<>>]
  /\ frame = [t \in AllThreads |->
                IF t = Main THEN At("sema", None, IdleStarted, None, 0)
                            ELSE Code]
  /\ nextTid = 3
  /\ tid = [t \in AllThreads |-> IF t = Main THEN 1 ELSE IF t = Idle THEN 2 ELSE 0]

\* The calls a client may make; idle_started and tid_lock are not theirs.
Call(t) ==
  \/ \E s \in Sema \ {IdleStarted} :
        CallSemaDown(t, s) \/ SemaTryDown(t, s) \/ CallSemaUp(t, s)
  \/ \E l \in Lock \ {TidLock} :
        \/ CallLockAcquire(t, l) \/ CallLockTryAcquire(t, l)
        \/ CallLockRelease(t, l)
  \/ \E c \in Cond :
        CallCondWait(t, c) \/ CallCondSignal(t, c) \/ CallCondBroadcast(t, c)
  \/ \E u \in Thread : CallThreadCreate(t, u)
  \/ CallThreadYield(t)
  \/ CallThreadExit(t)

\* The steps of a call that has been made.
Finish(t) ==
  \/ SemaDown(t)
  \/ LockHold(t) \/ LockReleased(t)
  \/ CondWaitUnhold(t) \/ CondWaitRelease(t)
  \/ CondSignalUp(t) \/ CondBroadcastNext(t) \/ CondBroadcastDone(t)
  \/ TidLoad(t) \/ TidStore(t) \/ TidUnhold(t) \/ ThreadReady(t)

IdleStep == IdleInit \/ IdleUp \/ IdleBlock \/ IdleHalt

TimerInterrupt == Tick /\ UNCHANGED synchVars

Next ==
  \/ \E t \in Thread : Call(t) \/ Finish(t)
  \/ IdleStep
  \/ TimerInterrupt
  \/ \E s \in Sema \ {IdleStarted} : InterruptUp(s)

\* The timer never stops and idle loops.  A thread in a function of this
\* module that runs again and again gets on with it: strong fairness, because
\* preemption disables the step, and a time slice is long enough for one.
\* What clients do in their own code, and devices, need not happen.
Fairness ==
  /\ WF_vars(TimerInterrupt)
  /\ WF_vars(IdleStep)
  /\ \A t \in Thread : SF_vars(Finish(t))

Spec == Init /\ [][Next]_vars
FairSpec == Spec /\ Fairness

-----------------------------------------------------------------------------
Labels == {"code", "sema", "acq", "hold", "rel", "wunhold", "wrel", "wait",
           "sig", "bsig", "bcast", "load", "store", "unhold", "ready",
           "idleup", "idle"}

Frame == [at: Labels, lock: Lock \cup {None}, cond: Cond \cup {None},
          obj: Sema \cup AllThreads \cup {None}, arg: Nat]

TypeOK ==
  /\ value \in [AllSemas -> Nat]
  /\ waiters \in [AllSemas -> Seq(AllThreads)]
  /\ holder \in [Lock -> AllThreads \cup {None}]
  /\ condWaiters \in [Cond -> Seq(AllThreads)]
  /\ frame \in [AllThreads -> Frame]
  /\ nextTid \in Nat
  /\ tid \in [AllThreads -> Nat]

\* thread.h on `elem': the run queue and the wait lists share it, so a thread
\* is on a wait list, once, exactly while it is blocked in sema_down() on
\* that semaphore.  thread_unblock()'s ASSERT rests on it, and nobody else
\* sleeps: every other blocked thread is one thread_create() is making.
WaitListExact ==
  /\ \A s \in AllSemas : \A t \in AllThreads :
        Queued(t, waiters[s]) <=>
          status[t] = "blocked" /\ InDown(t) /\ Downs(t) = s
  /\ \A s \in AllSemas : Distinct(waiters[s])
  /\ \A t \in Thread : status[t] = "blocked" =>
        \/ InDown(t)
        \/ \E u \in Thread : frame[u].lock = TidLock /\ frame[u].obj = t

\* t has taken the 1 from l's semaphore and not put it back: it holds l, or
\* is just before or just after the time that holder says so.
Owns(t, l) ==
  \/ holder[l] = t
  \/ frame[t].lock = l /\ frame[t].at \in {"hold", "rel", "wrel"}

\* A lock has at most one owner, and its semaphore is 1 when it has none,
\* although holder and value are written apart.
MutualExclusion ==
  \A l \in Lock :
    /\ value[l] \in {0, 1}
    /\ value[l] = 0 <=> \E t \in AllThreads : Owns(t, l)
    /\ \A t, u \in AllThreads : Owns(t, l) /\ Owns(u, l) => t = u

\* Threads that sema_up() took off the wait list of s and that have not yet
\* looked at its value again.
Woken(s) == {t \in AllThreads : /\ InDown(t) /\ Downs(t) = s
                                /\ intr[t] = "off" /\ status[t] # "blocked"}

\* While threads sleep on s there is a woken thread for each unit of its
\* value, even when a thread that never slept takes the unit first.
NoLostWakeup ==
  \A s \in AllSemas :
    waiters[s] # <<>> => value[s] <= Cardinality(Woken(s))

\* A thread in cond_wait() is on the list of its condition, or one signaller
\* is about to up its semaphore, or its semaphore has been upped: no signal
\* is lost, and none comes twice.
SignalAccounted ==
  \A t \in Thread :
    LET listed     == {c \in Cond : Queued(t, condWaiters[c])}
        signallers == {u \in Thread : /\ frame[u].at \in {"sig", "bsig"}
                                      /\ frame[u].obj = t}
        waits      == frame[t].at \in {"wunhold", "wrel", "wait"}
    IN  Cardinality(listed) + Cardinality(signallers) + value[t]
          = IF waits THEN 1 ELSE 0

\* allocate_tid() gives every thread a tid of its own, before the thread runs.
TidUnique ==
  \A t, u \in AllThreads :
    /\ status[t] \in {"ready", "running"} => tid[t] # 0
    /\ t # u /\ "none" \notin {status[t], status[u]} /\ tid[t] = tid[u]
         => tid[t] = 0

\* The locks and conditions implement their specification.
owner == [l \in Lock |-> IF \E t \in Thread : Owns(t, l)
                         THEN CHOOSE t \in Thread : Owns(t, l) ELSE None]

\* A waiter that has not released the lock yet is not waiting yet.  It is the
\* last on the list, for nobody can join before it has.
queue == [c \in Cond |->
            LET q == condWaiters[c]  n == Len(q)
            IN  IF n > 0 /\ frame[q[n]].at # "wait" THEN SubSeq(q, 1, n - 1)
                                                    ELSE q]

resume == [t \in Thread |->
             IF /\ frame[t].at \in {"wait", "acq"} /\ frame[t].cond # None
                /\ \A c \in Cond : ~Queued(t, condWaiters[c])
             THEN frame[t].lock ELSE None]

M == INSTANCE Monitor

\* cond_wait() "atomically releases LOCK and waits for COND", and locks,
\* signals and broadcasts are those of module Monitor.
MonitorSpec == M!Spec

\* The code of synch.c uses the scheduler as module Thread allows: it blocks
\* and unblocks no thread in a wrong state.
UsesScheduler == [][SchedNext]_schedVars

\* When a lock is free and threads sleep on it, somebody takes it.
FreeLockTaken ==
  \A l \in Lock : (value[l] = 1 /\ waiters[l] # <<>>) ~> (value[l] = 0)

\* A signalled thread leaves the wait and goes for the lock.
SignalDelivered ==
  \A t \in Thread :
    (frame[t].at = "wait" /\ \A c \in Cond : ~Queued(t, condWaiters[c]))
      ~> (frame[t].at = "acq")
=============================================================================
