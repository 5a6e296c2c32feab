------------------------------- MODULE Thread -------------------------------
(***************************************************************************)
(* The scheduler of threads/thread.c on one CPU: the run queue, the status *)
(* of every thread, the running thread, and the timer that preempts it.    *)
(*                                                                         *)
(* Everything the code does with interrupts off is one step, because the   *)
(* only concurrency on this machine is the interrupt.  intr[t] is the      *)
(* interrupt level at which t's next instruction runs: a thread that calls *)
(* thread_block comes back from schedule() with interrupts still off, one  *)
(* that was preempted comes back with them on.                             *)
(*                                                                         *)
(* SchedNext lets the running thread call any operation of the module; Synch    *)
(* restricts the calls to those that synch.c and its clients make.         *)
(***************************************************************************)
EXTENDS Integers, Sequences

CONSTANTS Thread,      \* the pages that may hold a struct thread, but for idle
          Main,        \* initial_thread, never obtained from nor given to palloc
          Idle,        \* the idle thread
          None,        \* a null pointer
          TIME_SLICE   \* timer ticks a thread may run before it is preempted

ASSUME ThreadAssumption ==
  /\ Main \in Thread /\ Idle \notin Thread
  /\ None \notin Thread \cup {Idle}
  /\ TIME_SLICE \in Nat \ {0}

VARIABLES current,     \* the thread whose stack the CPU is on
          status,      \* enum thread_status, or "none": no such thread
          readyList,   \* ready_list
          idleThread,  \* idle_thread, null until idle() has started
          threadTicks, \* timer ticks since the last thread switch
          intr         \* interrupt level of each thread's next instruction

schedVars == <<current, status, readyList, idleThread, threadTicks, intr>>

AllThreads == Thread \cup {Idle}
Statuses == {"none", "blocked", "ready", "running", "dying"}

Queued(t, q) == \E i \in DOMAIN q : q[i] = t
Distinct(q)  == \A i, j \in DOMAIN q : q[i] = q[j] => i = j

(***************************************************************************)
(* schedule(): the head of the run queue, or idle, runs next, and          *)
(* schedule_tail() frees the page of a dying predecessor.  st and q are    *)
(* the statuses and the run queue after the caller's own changes.  When    *)
(* there is no thread to run, current becomes None: ASSERT (is_thread      *)
(* (next)) panics.                                                         *)
(***************************************************************************)
Schedule(st, q) ==
  LET next == IF q = <<>> THEN idleThread ELSE Head(q)
  IN  /\ current' = next
      /\ readyList' = IF q = <<>> THEN q ELSE Tail(q)
      /\ status' = [t \in AllThreads |->
                      IF t = next THEN "running"
                      ELSE IF st[t] = "dying" /\ t # Main THEN "none"
                      ELSE st[t]]
      /\ threadTicks' = 0
      /\ UNCHANGED idleThread

ThreadBlock ==
  /\ Schedule([status EXCEPT ![current] = "blocked"], readyList)
  /\ intr' = [intr EXCEPT ![current] = "off"]

ThreadUnblock(t) ==
  /\ readyList' = Append(readyList, t)
  /\ status' = [status EXCEPT ![t] = "ready"]
  /\ UNCHANGED <<current, idleThread, threadTicks, intr>>

\* Mutant: a yield queues the running thread even if it is idle.
ThreadYieldIdle ==
  /\ Schedule([status EXCEPT ![current] = "ready"], Append(readyList, current))
  /\ UNCHANGED intr

ThreadYield ==
  /\ Schedule([status EXCEPT ![current] = "ready"],
              IF current # idleThread THEN Append(readyList, current)
                                      ELSE readyList)
  /\ UNCHANGED intr

ThreadExit ==
  /\ Schedule([status EXCEPT ![current] = "dying"], readyList)
  /\ UNCHANGED intr

\* thread_create() up to init_thread(): a new, blocked thread on no list.
\* kernel_thread() starts it with interrupts on.
InitThread(t) ==
  /\ status' = [status EXCEPT ![t] = "blocked"]
  /\ intr' = [intr EXCEPT ![t] = "on"]
  /\ UNCHANGED <<current, readyList, idleThread, threadTicks>>

\* intr_set_level (old_level), by a thread that thread_block put to sleep.
IntrEnable ==
  /\ intr' = [intr EXCEPT ![current] = "on"]
  /\ UNCHANGED <<current, status, readyList, idleThread, threadTicks>>

\* The first statement of idle().
IdleStart ==
  /\ idleThread' = current
  /\ UNCHANGED <<current, status, readyList, threadTicks, intr>>

\* Mutant: the end of a time slice starts the next one, of the same thread.
TickNoYield ==
  /\ intr[current] = "on"
  /\ threadTicks' = (threadTicks + 1) % TIME_SLICE
  /\ UNCHANGED <<current, status, readyList, idleThread, intr>>

\* timer_interrupt() and thread_tick(): at the end of its time slice the
\* running thread yields on return from the interrupt.
Tick ==
  /\ intr[current] = "on"
  /\ IF threadTicks + 1 >= TIME_SLICE
     THEN ThreadYield
     ELSE /\ threadTicks' = threadTicks + 1
          /\ UNCHANGED <<current, status, readyList, idleThread, intr>>

-----------------------------------------------------------------------------
\* thread_start() has created the idle thread and is about to wait for it.
SchedInit ==
  /\ current = Main
  /\ status = [t \in AllThreads |-> IF t = Main THEN "running"
                                 ELSE IF t = Idle THEN "ready" ELSE "none"]
  /\ readyList = <<Idle>>
  /\ idleThread = None
  /\ threadTicks = 0
  /\ intr = [t \in AllThreads |-> "on"]

SchedNext ==
  \/ (current = Idle => idleThread = Idle) /\ ThreadBlock
  \/ Tick
  \/ ThreadYield
  \/ IntrEnable
  \/ current = Idle /\ idleThread = None /\ IdleStart
  \/ current # Idle /\ ThreadExit
  \/ \E t \in Thread : status[t] = "blocked" /\ ThreadUnblock(t)
  \/ \E t \in Thread : status[t] = "none" /\ InitThread(t)

\* The timer never stops, and no kernel code keeps interrupts off forever.
SchedFairness ==
  /\ WF_schedVars(Tick)
  /\ WF_schedVars(IntrEnable)

SchedSpec == SchedInit /\ [][SchedNext]_schedVars

FairSchedSpec == SchedSpec /\ SchedFairness

-----------------------------------------------------------------------------
SchedTypeOK ==
  /\ current \in AllThreads
  /\ status \in [AllThreads -> Statuses]
  /\ readyList \in Seq(AllThreads)
  /\ idleThread \in {None, Idle}
  /\ threadTicks \in 0 .. TIME_SLICE - 1
  /\ intr \in [AllThreads -> {"on", "off"}]

\* thread.h: "a thread in the ready state is on the run queue" - and nothing
\* else is, no thread twice, so that schedule() always finds the thread it
\* switches to unmoved.  Idle is off the queue once it has started, although
\* a yield marks it ready.
RunQueueExact ==
  /\ \A t \in AllThreads :
        Queued(t, readyList) <=> /\ status[t] = "ready"
                                 /\ t = Idle => idleThread = None
  /\ Distinct(readyList)

\* One thread runs, and it is the one whose stack the CPU is on.
OneRunning == \A t \in AllThreads : status[t] = "running" <=> t = current

\* Until idle_thread is set, next_thread_to_run must not find the queue
\* empty: idle itself runs or is on the queue.
IdleReachable ==
  idleThread = None => status[Idle] \in {"ready", "running"}

SchedInv == SchedTypeOK /\ RunQueueExact /\ OneRunning /\ IdleReachable

\* Round robin: a thread on the run queue runs after finitely many switches.
ReadyRuns ==
  \A t \in Thread : (status[t] = "ready") ~> (status[t] = "running")
=============================================================================
