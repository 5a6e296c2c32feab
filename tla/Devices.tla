------------------------------ MODULE Devices -------------------------------
(***************************************************************************)
(* The modules about devices and the threads that wait for them: the       *)
(* serial port, of which this module has the variables, the clock and the  *)
(* console.  They share no state.  An execution is of the one that part    *)
(* names: the serial port's variables stay as they are at first when it is *)
(* another, and those of the clock and the console are None then.  (The    *)
(* disk driver is alone in module Disk.)                                   *)
(***************************************************************************)
EXTENDS Serial

CONSTANTS Sleeper, Word, Naps, MaxTicks,    \* of the clock: its threads, the rest as there
          Page, Kernel                      \* of the console

VARIABLES part,
          kLo, kHi, kOff, kAt, kWant, kBegun, kStart, kLow, kSince,
          oFilesysLock, oConsoleLock, oDepth, oUse, oAt, oTodo, oPanic, oBroken

clockVars  == <<kLo, kHi, kOff, kAt, kWant, kBegun, kStart, kLow, kSince>>
consoleVars == <<oFilesysLock, oConsoleLock, oDepth, oUse, oAt, oTodo, oPanic, oBroken>>
devicesVars == <<part, vars, clockVars, consoleVars>>

-----------------------------------------------------------------------------
K == INSTANCE Clock WITH
       Thread <- Sleeper, Nobody <- None,
       lo <- kLo, hi <- kHi, off <- kOff, at <- kAt, want <- kWant, begun <- kBegun,
       start <- kStart, low <- kLow, since <- kSince

O == INSTANCE Console WITH
       Nobody <- None, filesys_lock <- oFilesysLock,
       console_lock <- oConsoleLock, depth <- oDepth, use <- oUse, at <- oAt,
       todo <- oTodo, panic <- oPanic, broken <- oBroken

\* The arguments of timer_sleep() are numbers.
ASSUME DevicesAssumption ==
  K!ClockAssumption /\ Naps \subseteq Int /\ O!ConsoleAssumption

-----------------------------------------------------------------------------
NoClock == /\ kLo = None /\ kHi = None /\ kOff = None /\ kAt = None /\ kWant = None
           /\ kBegun = None /\ kStart = None /\ kLow = None /\ kSince = None
NoConsole == /\ oFilesysLock = None /\ oConsoleLock = None /\ oDepth = None
             /\ oUse = None /\ oAt = None /\ oTodo = None /\ oPanic = None
             /\ oBroken = None

DevicesInit ==
  /\ part \in {"serial", "clock", "console"}
  /\ Init
  /\ IF part = "clock" THEN K!Init ELSE NoClock
  /\ IF part = "console" THEN O!Init ELSE NoConsole

\* A step of one part leaves the variables of the others alone.
PortStep == part = "serial" /\ UNCHANGED <<part, clockVars, consoleVars>>
ClockStep == part = "clock" /\ UNCHANGED <<part, vars, consoleVars>>
ConsoleStep == part = "console" /\ UNCHANGED <<part, vars, clockVars>>

DevicesNext ==
  \/ PortStep /\ Next
  \/ ClockStep /\ K!Next
  \/ ConsoleStep /\ O!Next

\* What a thread of the serial port or of the clock does by itself.
StepOf(t) == \/ PortStep /\ t \in Thread /\ Step(t)
             \/ ClockStep /\ t \in Sleeper /\ K!Operate(t)

\* Ready threads run, and handlers run to their ends.  The timer's interrupt, and the
\* port's as long as it has bytes to send, stay pending while interrupts are off and
\* come when a thread turns them on; a thread's step may be disabled the same way,
\* hence strong fairness.  What disables a step of the console is a lock that somebody
\* holds, and lock_release() hands a lock to nobody: a thread that waits for one gets
\* it for certain only if it stays free.  As part never changes, a condition that
\* names several parts is one on each; of the serial port this is Fairness.
DevicesFairness ==
  /\ \A t \in Thread \cup Sleeper : SF_devicesVars(StepOf(t))
  /\ \A t \in Page : WF_devicesVars(ConsoleStep /\ O!Operate(t))
  /\ SF_devicesVars(\/ PortStep /\ "xmit" \in ier /\ Interrupt
                    \/ ClockStep /\ K!TimerInterrupt)
  /\ SF_devicesVars(PortStep /\ TransmitByte)
  /\ WF_devicesVars(PortStep /\ ReceiveDone)
  /\ WF_devicesVars(PortStep /\ InterruptDone)

DevicesSpec == DevicesInit /\ [][DevicesNext]_devicesVars /\ DevicesFairness

-----------------------------------------------------------------------------
\* Messages do not mix, the console's depth counts them, and no lock is left behind
\* or panicked about but by the ways that leave one behind.
MessagesRight == part = "console" => O!MessagesRight

\* timer_sleep() lasts as long as it was asked to, whenever the clock ticks.
SleptEnough == part = "clock" => K!SleptEnough

\* What a thread may wait for in a call that prints or reads.
Waits(t) == part = "console" /\ O!Busy(t)
Ended(t) == part = "console" /\ (~O!Busy(t) \/ O!Stuck)

\* Another thread's call returns.
OtherReturns(t) ==
  part = "console" /\ \E u \in Page \ {t} : O!Busy(u) /\ ~O!Busy(u)'

Panicked == part = "console" /\ oPanic # O!Calm

\* A sleeper whose time the clock reaches wakes up.  A call that prints or reads ends,
\* unless it waits for a key, a fault has left a lock behind, or other threads'
\* calls return without end: these may take the lock again before the thread that
\* lock_release() woke has run.  And who panics halts, having said why.
CallsEnd ==
  /\ \A t \in Sleeper :
       (part = "clock" /\ K!Sleeps(t)) ~> (part = "clock" /\ kAt[t] = "user")
  /\ \A t \in Page :
       (Waits(t) ~> Ended(t)) \/ []<><<OtherReturns(t)>>_devicesVars
  /\ Panicked ~> (Panicked /\ oAt[oPanic.who] = "halted")
=============================================================================
