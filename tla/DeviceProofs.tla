---------------------------- MODULE DeviceProofs ----------------------------
(***************************************************************************)
(* The clock and the console, for words of any width, any number of        *)
(* threads, a clock that runs until both its words are full, and any       *)
(* sequence of writes, reads, faults, messages and panics: timer_sleep()   *)
(* never returns early; messages do not mix and no lock is left behind but *)
(* by a fault.  What module Devices adds to the serial port takes nothing  *)
(* away from it, so that what SerialProofs proves holds there too.         *)
(*                                                                         *)
(* ClockInv says what interrupts being off is for: as long as a thread is  *)
(* between its two loads of ticks, the word it has loaded is the one that  *)
(* is still there.                                                         *)
(*                                                                         *)
(* What MessagesRight does not say is why the depth of console_lock can    *)
(* only be 0 or 1: a thread in a page that has inherited the lock counts   *)
(* once, and would leave a count behind if a fault struck it too.  It      *)
(* cannot be struck, because a fault in a message means that it came from  *)
(* a write, which holds filesys_lock as well; console_lock left behind     *)
(* means filesys_lock left behind in the same page, and then nobody        *)
(* writes.                                                                 *)
(***************************************************************************)
EXTENDS Devices, SerialProofs

ClockTypes ==
  /\ kLo \in 0 .. Word - 1 /\ kHi \in Int
  /\ kOff \in Sleeper \cup {None}
  /\ kAt \in [Sleeper -> {"user", "ticks", "low", "high"}]
  /\ kWant \in [Sleeper -> Int] /\ kStart \in [Sleeper -> Int]
  /\ kBegun \in [Sleeper -> BOOLEAN]
  /\ kLow \in [Sleeper -> Int] /\ kSince \in [Sleeper -> Int]

ClockInv ==
  /\ ClockTypes
  /\ \A t \in Sleeper :
       /\ kAt[t] \in {"low", "high"} => kOff = t
       /\ kAt[t] = "high" => kLow[t] = kLo
       /\ kAt[t] = "user" => ~kBegun[t]
       /\ kSince[t] <= K!Ticks
  /\ K!SleptEnough

\* What the constants have to be; the arguments of timer_sleep() are numbers.
ClockConstants == K!ClockAssumption /\ Naps \subseteq Int

LEMMA TicksInt == ASSUME K!ClockAssumption, ClockTypes PROVE K!Ticks \in Int
BY DEF K!Ticks, ClockTypes, K!ClockAssumption

\* The clock counts, with its carry.
LEMMA TickCounts ==
  ASSUME K!ClockAssumption, ClockTypes, K!TimerInterrupt
  PROVE  K!Ticks' = K!Ticks + 1 /\ kLo' \in 0 .. Word - 1 /\ kHi' \in Int
<1>1. /\ kLo \in Int /\ kHi \in Int /\ Word \in Int /\ 0 <= kLo /\ kLo < Word
  BY DEF ClockTypes, K!ClockAssumption
<1>2. CASE kLo + 1 = Word
  <2>1. kLo' = 0 /\ kHi' = kHi + 1
    BY <1>1, <1>2 DEF K!TimerInterrupt
  <2> QED
    BY <1>1, <1>2, <2>1 DEF K!Ticks
<1>3. CASE kLo + 1 # Word
  <2>1. kLo' = kLo + 1 /\ kHi' = kHi
    BY <1>1, <1>3 DEF K!TimerInterrupt
  <2> QED
    BY <1>1, <1>3, <2>1 DEF K!Ticks
<1> QED
  BY <1>2, <1>3

LEMMA TickKeeps ==
  ASSUME K!ClockAssumption, ClockInv, K!TimerInterrupt PROVE ClockInv'
<1>1. K!Ticks \in Int /\ ClockTypes
  BY TicksInt DEF ClockInv
<1>2. K!Ticks' = K!Ticks + 1 /\ kLo' \in 0 .. Word - 1 /\ kHi' \in Int
  BY <1>1, TickCounts
<1>3. /\ kOff = None /\ None \notin Sleeper
      /\ UNCHANGED <<kOff, kAt, kWant, kBegun, kStart, kLow, kSince>>
  BY DEF K!TimerInterrupt, K!ClockAssumption
<1>4. ClockTypes'
  BY <1>1, <1>2, <1>3 DEF ClockTypes
<1>5. ASSUME NEW t \in Sleeper
      PROVE  /\ kAt[t] \notin {"low", "high"} /\ kSince[t] <= K!Ticks + 1
             /\ kAt[t] = "user" => (K!Ticks + 1) - kSince[t] >= kWant[t]
             /\ kBegun[t] => kStart[t] \in kSince[t] .. K!Ticks + 1
  BY <1>1, <1>3 DEF ClockInv, ClockTypes, K!SleptEnough
<1> QED
  BY <1>2, <1>3, <1>4, <1>5 DEF ClockInv, K!SleptEnough

\* A step of a thread leaves the clock alone, and what the others know.
LEMMA SleeperKeeps ==
  ASSUME ClockConstants, ClockInv, NEW t \in Sleeper,
         K!Operate(t) \/ \E n \in Naps : K!TimerSleep(t, n)
  PROVE  ClockInv'
<1>0. /\ K!Ticks \in Int /\ ClockTypes /\ None \notin Sleeper
      /\ kLo \in Int /\ kHi \in Int /\ Word \in Int /\ Naps \subseteq Int
  BY TicksInt DEF ClockInv, ClockConstants, K!ClockAssumption, ClockTypes
<1>1. UNCHANGED <<kLo, kHi>> /\ K!Ticks' = K!Ticks
  BY DEF K!Operate, K!TimerSleep, K!IntrDisable, K!LoadLow, K!LoadHigh, K!Ticks
<1>2. ASSUME ClockTypes',
             \A u \in Sleeper : u # t =>
               /\ kAt'[u] = kAt[u] /\ kLow'[u] = kLow[u] /\ kBegun'[u] = kBegun[u]
               /\ kSince'[u] = kSince[u] /\ kStart'[u] = kStart[u] /\ kWant'[u] = kWant[u]
               /\ kAt[u] \in {"low", "high"} => kOff' = u,
             kAt'[t] \in {"low", "high"} => kOff' = t,
             kAt'[t] = "high" => kLow'[t] = kLo,
             kAt'[t] = "user" => ~kBegun'[t] /\ K!Ticks - kSince'[t] >= kWant'[t],
             kSince'[t] <= K!Ticks,
             kBegun'[t] => kStart'[t] \in kSince'[t] .. K!Ticks
      PROVE  ClockInv'
  <2>1. \A u \in Sleeper :
          /\ kAt'[u] \in {"low", "high"} => kOff' = u
          /\ kAt'[u] = "high" => kLow'[u] = kLo'
          /\ kAt'[u] = "user" => ~kBegun'[u]
          /\ kSince'[u] <= K!Ticks'
          /\ kAt'[u] = "user" => K!Ticks' - kSince'[u] >= kWant'[u]
          /\ kBegun'[u] => kStart'[u] \in kSince'[u] .. K!Ticks'
    BY <1>1, <1>2 DEF ClockInv, K!SleptEnough
  <2> QED
    BY <1>2, <2>1 DEF ClockInv, K!SleptEnough
<1>3. /\ kAt[t] \in {"low", "high"} => kOff = t
      /\ kAt[t] = "high" => kLow[t] = kLo
      /\ kAt[t] = "user" => ~kBegun[t]
      /\ kSince[t] <= K!Ticks /\ kSince[t] \in Int /\ kStart[t] \in Int /\ kWant[t] \in Int
      /\ kBegun[t] => kStart[t] \in kSince[t] .. K!Ticks
      /\ kOff \in {None, t} => \A u \in Sleeper : u # t => kAt[u] \notin {"low", "high"}
  BY <1>0 DEF ClockInv, ClockTypes, K!SleptEnough
<1>4. ASSUME NEW n \in Naps, K!TimerSleep(t, n) PROVE ClockInv'
  <2>1. /\ kAt[t] = "user" /\ kOff \in {None, t} /\ n \in Int
        /\ kWant' = [kWant EXCEPT ![t] = n] /\ kSince' = [kSince EXCEPT ![t] = K!Ticks]
        /\ kAt' = [kAt EXCEPT ![t] = "ticks"]
        /\ UNCHANGED <<kLo, kHi, kOff, kBegun, kStart, kLow>>
    BY <1>0, <1>4 DEF K!TimerSleep, K!MayRun, K!Goto
  <2>2. ClockTypes'
    BY <1>0, <2>1 DEF ClockTypes
  <2>3. kAt'[t] = "ticks" /\ kSince'[t] = K!Ticks /\ ~kBegun'[t]
    BY <1>0, <1>3, <2>1 DEF ClockTypes
  <2>4. \A u \in Sleeper : u # t =>
          kAt'[u] = kAt[u] /\ kSince'[u] = kSince[u] /\ kWant'[u] = kWant[u]
    BY <1>0, <2>1 DEF ClockTypes
  <2> QED
    BY <1>0, <1>2, <1>3, <2>1, <2>2, <2>3, <2>4
<1>5. CASE K!IntrDisable(t)
  <2>1. /\ kOff \in {None, t} /\ kOff' = t
        /\ kAt' = [kAt EXCEPT ![t] = "low"]
        /\ UNCHANGED <<kLo, kHi, kWant, kBegun, kStart, kLow, kSince>>
    BY <1>5 DEF K!IntrDisable, K!MayRun, K!Goto
  <2>2. ClockTypes'
    BY <1>0, <2>1 DEF ClockTypes
  <2>3. kAt'[t] = "low" /\ \A u \in Sleeper : u # t => kAt'[u] = kAt[u]
    BY <1>0, <2>1 DEF ClockTypes
  <2> QED
    BY <1>2, <1>3, <2>1, <2>2, <2>3
<1>6. CASE K!LoadLow(t)
  <2>1. /\ kOff \in {None, t} /\ kAt[t] = "low"
        /\ kLow' = [kLow EXCEPT ![t] = kLo] /\ kAt' = [kAt EXCEPT ![t] = "high"]
        /\ UNCHANGED <<kLo, kHi, kOff, kWant, kBegun, kStart, kSince>>
    BY <1>6 DEF K!LoadLow, K!MayRun, K!Goto
  <2>2. ClockTypes'
    BY <1>0, <2>1 DEF ClockTypes
  <2>3. /\ kAt'[t] = "high" /\ kLow'[t] = kLo
        /\ \A u \in Sleeper : u # t => kAt'[u] = kAt[u] /\ kLow'[u] = kLow[u]
    BY <1>0, <2>1 DEF ClockTypes
  <2> QED
    BY <1>2, <1>3, <2>1, <2>2, <2>3
<1>7. CASE K!LoadHigh(t)
  <2>1. /\ kOff \in {None, t} /\ kAt[t] = "high" /\ kOff' = None
        /\ kLow' = [kLow EXCEPT ![t] = 0]
        /\ UNCHANGED <<kLo, kHi, kWant, kSince>>
    BY <1>7 DEF K!LoadHigh, K!MayRun
  <2>2. kHi * Word + kLow[t] = K!Ticks
    BY <1>3, <2>1 DEF K!Ticks
  <2>3. CASE ~kBegun[t]
    <3>1. /\ kStart' = [kStart EXCEPT ![t] = K!Ticks]
          /\ kBegun' = [kBegun EXCEPT ![t] = TRUE] /\ kAt' = [kAt EXCEPT ![t] = "ticks"]
      BY <1>7, <2>2, <2>3 DEF K!LoadHigh, K!Goto
    <3>2. ClockTypes'
      BY <1>0, <2>1, <3>1 DEF ClockTypes
    <3>3. kAt'[t] = "ticks" /\ kStart'[t] = K!Ticks
      BY <1>0, <3>1 DEF ClockTypes
    <3>4. \A u \in Sleeper : u # t => /\ kAt'[u] = kAt[u] /\ kLow'[u] = kLow[u]
                                     /\ kBegun'[u] = kBegun[u] /\ kStart'[u] = kStart[u]
      BY <1>0, <2>1, <3>1 DEF ClockTypes
    <3> QED
      BY <1>0, <1>2, <1>3, <2>1, <3>2, <3>3, <3>4
  <2>4. CASE kBegun[t] /\ K!Ticks - kStart[t] < kWant[t]
    <3>1. kAt' = [kAt EXCEPT ![t] = "ticks"] /\ UNCHANGED <<kStart, kBegun>>
      BY <1>7, <2>2, <2>4 DEF K!LoadHigh, K!Goto
    <3>2. ClockTypes'
      BY <1>0, <2>1, <3>1 DEF ClockTypes
    <3>3. /\ kAt'[t] = "ticks"
          /\ \A u \in Sleeper : u # t => kAt'[u] = kAt[u] /\ kLow'[u] = kLow[u]
      BY <1>0, <2>1, <3>1 DEF ClockTypes
    <3> QED
      BY <1>2, <1>3, <2>1, <3>1, <3>2, <3>3
  <2>5. CASE kBegun[t] /\ ~(K!Ticks - kStart[t] < kWant[t])
    <3>1. /\ kAt' = [kAt EXCEPT ![t] = "user"] /\ kBegun' = [kBegun EXCEPT ![t] = FALSE]
          /\ kStart' = [kStart EXCEPT ![t] = 0]
      BY <1>7, <2>2, <2>5 DEF K!LoadHigh, K!Goto
    <3>2. ClockTypes'
      BY <1>0, <2>1, <3>1 DEF ClockTypes
    <3>3. kAt'[t] = "user" /\ ~kBegun'[t]
      BY <1>0, <3>1 DEF ClockTypes
    <3>4. \A u \in Sleeper : u # t => /\ kAt'[u] = kAt[u] /\ kLow'[u] = kLow[u]
                                     /\ kBegun'[u] = kBegun[u] /\ kStart'[u] = kStart[u]
      BY <1>0, <2>1, <3>1 DEF ClockTypes
    <3>5. K!Ticks - kSince[t] >= kWant[t]
      BY <1>0, <1>3, <2>5
    <3> QED
      BY <1>2, <1>3, <2>1, <3>2, <3>3, <3>4, <3>5
  <2> QED
    BY <2>3, <2>4, <2>5
<1> QED
  BY <1>4, <1>5, <1>6, <1>7 DEF K!Operate

LEMMA ClockStart == ASSUME K!ClockAssumption, K!Init PROVE ClockInv
<1>1. ClockTypes
  BY DEF K!Init, ClockTypes, K!ClockAssumption
<1>2. K!Ticks = 0
  BY DEF K!Init, K!Ticks, K!ClockAssumption
<1> QED
  BY <1>1, <1>2 DEF K!Init, ClockInv, K!SleptEnough

\* Whoever moves, the invariant stays.
LEMMA ClockKeeps == ASSUME ClockConstants, ClockInv, [K!Next]_K!vars PROVE ClockInv'
<1>1. CASE K!Next
  BY <1>1, TickKeeps, SleeperKeeps DEF K!Next, ClockConstants
<1>2. CASE UNCHANGED K!vars
  BY <1>2 DEF K!vars, ClockInv, ClockTypes, K!SleptEnough, K!Ticks
<1> QED
  BY <1>1, <1>2

-----------------------------------------------------------------------------
Labels == {"free", "user", "kernel", "halted", "lock", "key", "store", "unlock",
           "acquire", "put", "last", "release"}
Messages == {"write", "kill", "exit", "message", "panic"}

ConsoleTypes ==
  /\ oFilesysLock \in Page \cup {None} /\ oConsoleLock \in Page \cup {None}
  /\ oDepth \in Nat /\ oUse \in BOOLEAN
  /\ oAt \in [Page -> Labels] /\ oTodo \in [Page -> Messages \cup {"none", "read"}]
  /\ oPanic = O!Calm \/ oPanic.who \in Page
  /\ oBroken \subseteq {"filesys", "console"}

\* What a thread has to do at each place.
InPlace(t) ==
  /\ oAt[t] \in {"free", "user", "kernel", "halted"} => oTodo[t] = "none"
  /\ oAt[t] \in {"lock", "unlock"} => oTodo[t] \in {"read", "write"}
  /\ oAt[t] \in {"key", "store"} => oTodo[t] = "read"
  /\ oAt[t] \in {"acquire", "put", "last", "release"} => oTodo[t] \in Messages

ConsoleInv ==
  /\ ConsoleTypes
  /\ \A t \in Page : InPlace(t)
  /\ oPanic = O!Calm => oUse /\ ("console" \in oBroken => "filesys" \in oBroken)
  /\ oPanic # O!Calm => ~oUse /\ oTodo[oPanic.who] \in {"panic", "none"}
  /\ O!MessagesRight

-----------------------------------------------------------------------------
\* A thread that is elsewhere than the kernel's messages and the calls that hold
\* filesys_lock, before and after.
Outside(t) == ~O!Printing(t) /\ ~O!InFilesys(t)

\* A thread that moves outside both locks disturbs nobody.
LEMMA MovesOutside ==
  ASSUME O!ConsoleAssumption, ConsoleInv, NEW t \in Page,
         NEW l \in Labels, NEW op \in Messages \cup {"none", "read"},
         oPanic = O!Calm, Outside(t), O!With(t, l, op),
         UNCHANGED <<oFilesysLock, oConsoleLock, oDepth, oUse, oPanic, oBroken>>
  PROVE  (Outside(t)' /\ InPlace(t)') => ConsoleInv'
<1> SUFFICES ASSUME Outside(t)', InPlace(t)' PROVE ConsoleInv'
  OBVIOUS
<1>1. /\ oAt' \in [Page -> Labels] /\ oTodo' \in [Page -> Messages \cup {"none", "read"}]
      /\ \A u \in Page : u # t => oAt'[u] = oAt[u] /\ oTodo'[u] = oTodo[u]
  BY DEF O!With, ConsoleInv, ConsoleTypes
<1>2. /\ \A u \in Page : O!Printing(u)' <=> O!Printing(u)
      /\ \A u \in Page : O!InFilesys(u)' <=> O!InFilesys(u)
  BY <1>1 DEF Outside, O!Printing, O!InFilesys
<1>3. ConsoleTypes'
  BY <1>1 DEF ConsoleTypes, ConsoleInv, O!Calm
<1>4. \A u \in Page : InPlace(u)'
  BY <1>1 DEF ConsoleInv, InPlace
<1>5. O!MessagesRight'
  BY <1>2 DEF ConsoleInv, ConsoleTypes, O!MessagesRight, O!Calm
<1> QED
  BY <1>3, <1>4, <1>5 DEF ConsoleInv, O!Calm

\* A process starts, calls or is killed, and the kernel has a message.
LEMMA CallKeeps ==
  ASSUME O!ConsoleAssumption, ConsoleInv, NEW t \in Page,
         O!Call(t) \/ (t = Kernel /\ O!KernelPrints)
  PROVE  ConsoleInv'
<1>1. /\ oPanic = O!Calm /\ oAt[t] \in {"free", "user", "kernel"} /\ oTodo[t] = "none"
      /\ UNCHANGED <<oFilesysLock, oConsoleLock, oDepth, oUse, oPanic, oBroken>>
  BY DEF O!Call, O!Start, O!CallWrite, O!CallRead, O!CallExit, O!Killed, O!KernelPrints,
     O!At,
         ConsoleInv, InPlace
<1>2. Outside(t)
  BY <1>1 DEF Outside, O!Printing, O!InFilesys
<1>3. PICK l \in Labels, op \in Messages \cup {"none", "read"} :
        /\ O!With(t, l, op)
        /\ \/ l = "user" /\ op = "none"
           \/ l = "lock" /\ op \in {"read", "write"}
           \/ l = "acquire" /\ op \in {"exit", "kill", "message"}
  BY DEF O!Call, O!Start, O!CallWrite, O!CallRead, O!CallExit, O!Killed, O!KernelPrints,
     Labels, Messages
<1>4. oAt'[t] = l /\ oTodo'[t] = op
  BY <1>3 DEF O!With, ConsoleInv, ConsoleTypes
<1>5. Outside(t)' /\ InPlace(t)'
  BY <1>3, <1>4 DEF Outside, O!Printing, O!InFilesys, InPlace, Messages
<1> QED
  BY <1>1, <1>2, <1>3, <1>5, MovesOutside

-----------------------------------------------------------------------------
\* Where a thread is after a step, and that the others stay where they are.
LEMMA Moves ==
  ASSUME ConsoleInv, NEW t \in Page, NEW l \in Labels,
         NEW op \in Messages \cup {"none", "read"},
         O!With(t, l, op) \/ (O!Go(t, l) /\ op = oTodo[t] /\ UNCHANGED oTodo)
  PROVE  /\ oAt' \in [Page -> Labels] /\ oTodo' \in [Page -> Messages \cup {"none", "read"}]
         /\ oAt'[t] = l /\ oTodo'[t] = op
         /\ \A u \in Page : u # t => oAt'[u] = oAt[u] /\ oTodo'[u] = oTodo[u]
         /\ \A u \in Page : u # t => /\ O!Printing(u)' <=> O!Printing(u)
                                     /\ O!InFilesys(u)' <=> O!InFilesys(u)
                                     /\ InPlace(u)' <=> InPlace(u)
         /\ O!Printing(t)' <=> l \in {"put", "last", "release"}
         /\ O!InFilesys(t)' <=> l \in {"key", "store",
                 "unlock"} \/ (op = "write" /\ l # "lock")
<1>1. oAt' = [oAt EXCEPT ![t] = l] /\ oTodo' = [oTodo EXCEPT ![t] = op]
  BY DEF O!With, O!Go, ConsoleInv, ConsoleTypes
<1>2. /\ oAt' \in [Page -> Labels] /\ oTodo' \in [Page -> Messages \cup {"none", "read"}]
      /\ oAt'[t] = l /\ oTodo'[t] = op
      /\ \A u \in Page : u # t => oAt'[u] = oAt[u] /\ oTodo'[u] = oTodo[u]
  BY <1>1 DEF ConsoleInv, ConsoleTypes
<1> QED
  BY <1>2 DEF O!Printing, O!InFilesys, InPlace

\* A thread that panics for a reason that MessagesRight allows ends the calm, and
\* with it the console's lock.
LEMMA PanicKeeps ==
  ASSUME O!ConsoleAssumption, ConsoleInv, NEW t \in Page, NEW why, O!Panic(t, why),
         why = "readonly" \/ (why = "held" /\ "filesys" \in oBroken)
  PROVE  ConsoleInv'
<1>1. O!With(t, "acquire", "panic")
  BY DEF O!Panic
<1>2. /\ oAt' \in [Page -> Labels] /\ oTodo' \in [Page -> Messages \cup {"none", "read"}]
      /\ oAt'[t] = "acquire" /\ oTodo'[t] = "panic"
      /\ \A u \in Page : u # t => InPlace(u)' <=> InPlace(u)
  BY <1>1, Moves DEF Labels, Messages
<1>3. oPanic' # O!Calm /\ oPanic'.who = t /\ oPanic'.why = why /\ oUse' = FALSE
      /\ UNCHANGED <<oFilesysLock, oConsoleLock, oDepth, oBroken>>
  BY DEF O!Panic, O!Calm, O!ConsoleAssumption
<1>4. ConsoleTypes'
  BY <1>2, <1>3 DEF ConsoleInv, ConsoleTypes
<1>5. \A u \in Page : InPlace(u)'
  BY <1>2 DEF ConsoleInv, InPlace, Messages
<1>6. O!MessagesRight'
  BY <1>3 DEF O!MessagesRight, O!Calm
<1> QED
  BY <1>2, <1>3, <1>4, <1>5, <1>6 DEF ConsoleInv, O!Calm

\* Nobody is inside filesys_lock once a fault has ended its holder.
LEMMA LeftBehind ==
  ASSUME ConsoleInv, oPanic = O!Calm, "filesys" \in oBroken
  PROVE  \A u \in Page : ~O!InFilesys(u)
BY DEF ConsoleInv, O!MessagesRight

\* A fault in the buffer of a read ends a thread that holds filesys_lock, and one in
\* the buffer of a write a thread that holds both locks.  What makes the depth come
\* out right is that a thread that has inherited console_lock cannot be struck:
\* filesys_lock has been left behind too, and nobody writes any more.
LEMMA StruckKeeps ==
  ASSUME O!ConsoleAssumption, ConsoleInv, NEW t \in Page, O!Struck(t), oPanic = O!Calm,
         oAt[t] = "store" \/ (O!Printing(t) /\ oTodo[t] = "write")
  PROVE  ConsoleInv'
<1>1. O!With(t, "acquire", "exit") /\ UNCHANGED <<oFilesysLock, oConsoleLock, oDepth, oUse,
        oPanic>>
  BY DEF O!Struck
<1>2. /\ O!InFilesys(t) /\ oFilesysLock = t
      /\ "filesys" \notin oBroken /\ "console" \notin oBroken
  <2>1. O!InFilesys(t)
    BY DEF O!InFilesys, O!Printing
  <2> QED
    BY <2>1, LeftBehind DEF ConsoleInv, O!MessagesRight
<1>3. O!Printing(t) <=> oConsoleLock = t
  BY <1>2 DEF ConsoleInv, O!MessagesRight
<1>4. oBroken' = IF O!Printing(t) THEN {"filesys", "console"} ELSE {"filesys"}
  BY <1>2, <1>3 DEF O!Struck, ConsoleInv, ConsoleTypes
<1>5. /\ oAt' \in [Page -> Labels] /\ oTodo' \in [Page -> Messages \cup {"none", "read"}]
      /\ oAt'[t] = "acquire" /\ oTodo'[t] = "exit"
      /\ \A u \in Page : u # t => /\ O!Printing(u)' <=> O!Printing(u)
                                  /\ O!InFilesys(u)' <=> O!InFilesys(u)
                                  /\ InPlace(u)' <=> InPlace(u)
      /\ ~O!Printing(t)' /\ ~O!InFilesys(t)'
  BY <1>1, Moves DEF Labels, Messages
<1>6. ConsoleTypes'
  BY <1>1, <1>4, <1>5 DEF ConsoleInv, ConsoleTypes, O!Calm
<1>7. \A u \in Page : InPlace(u)'
  BY <1>5 DEF ConsoleInv, InPlace, Messages
<1>8. oDepth = 0 /\ \A u \in Page : O!Printing(u) => oConsoleLock = u
  BY <1>2 DEF ConsoleInv, O!MessagesRight
<1>9. O!MessagesRight'
  <2>1. /\ \A u \in Page : ~O!InFilesys(u)'
        /\ oFilesysLock' = t /\ t # None /\ oPanic'.why = "none" /\ oDepth' = 0
    BY <1>1, <1>2, <1>5, <1>8 DEF ConsoleInv, O!MessagesRight, O!Calm, O!ConsoleAssumption
  <2>2. CASE O!Printing(t)
    <3>1. \A u \in Page : ~O!Printing(u)'
      BY <1>3, <1>5, <1>8, <2>2
    <3> QED
      BY <1>1, <1>3, <1>4, <2>1, <2>2, <3>1 DEF O!MessagesRight, O!Calm
  <2>3. CASE ~O!Printing(t)
    <3>1. \A u \in Page : O!Printing(u)' <=> O!Printing(u)
      BY <1>5, <2>3
    <3>2. \A u \in Page : oConsoleLock = u => O!Printing(u)
      BY <1>2 DEF ConsoleInv, O!MessagesRight
    <3> QED
      BY <1>1, <1>4, <1>8, <2>1, <2>3, <3>1, <3>2 DEF O!MessagesRight, O!Calm
  <2> QED
    BY <2>2, <2>3
<1> QED
  BY <1>1, <1>4, <1>6, <1>7, <1>9 DEF ConsoleInv, O!Calm

-----------------------------------------------------------------------------
\* lock_acquire() takes a lock that is free, and panics only in a page whose
\* last thread left the lock behind.
LEMMA LockKeeps ==
  ASSUME O!ConsoleAssumption, ConsoleInv, NEW t \in Page, O!LockFilesys(t)
  PROVE  ConsoleInv'
<1>1. oAt[t] = "lock" /\ oPanic = O!Calm /\ oTodo[t] \in {"read", "write"}
  BY DEF O!LockFilesys, O!At, ConsoleInv, InPlace
<1>2. ~O!InFilesys(t) /\ ~O!Printing(t)
  BY <1>1 DEF O!InFilesys, O!Printing
<1>3. CASE oFilesysLock = t
  BY <1>2, <1>3, <1>1, PanicKeeps DEF O!LockFilesys, ConsoleInv, O!MessagesRight
<1>4. CASE oFilesysLock # t
  <2>1. PICK l \in Labels :
          /\ \/ l = "acquire" /\ oTodo[t] = "write"
             \/ l \in {"key", "unlock"} /\ oTodo[t] = "read"
          /\ O!Go(t, l) /\ oFilesysLock = None /\ oFilesysLock' = t
          /\ UNCHANGED <<oConsoleLock, oDepth, oUse, oTodo, oPanic, oBroken>>
    <3>1. /\ oFilesysLock = None /\ oFilesysLock' = t
          /\ UNCHANGED <<oConsoleLock, oDepth, oUse, oTodo, oPanic, oBroken>>
      BY <1>4 DEF O!LockFilesys
    <3>2. CASE oTodo[t] = "write"
      BY <1>4, <3>1, <3>2 DEF O!LockFilesys, Labels
    <3>3. CASE oTodo[t] = "read"
      BY <1>4, <3>1, <3>3 DEF O!LockFilesys, Labels
    <3> QED
      BY <1>1, <3>2, <3>3
  <2>2. /\ oAt' \in [Page -> Labels] /\ oTodo' = oTodo /\ oAt'[t] = l
        /\ \A u \in Page : u # t => /\ O!Printing(u)' <=> O!Printing(u)
                                    /\ O!InFilesys(u)' <=> O!InFilesys(u)
                                    /\ InPlace(u)' <=> InPlace(u)
        /\ ~O!Printing(t)' /\ O!InFilesys(t)'
    BY <1>1, <2>1, Moves DEF Messages
  <2>3. ConsoleTypes'
    BY <2>1, <2>2 DEF ConsoleInv, ConsoleTypes, O!Calm
  <2>4. \A u \in Page : InPlace(u)'
    BY <1>1, <2>1, <2>2 DEF ConsoleInv, InPlace, Messages
  <2>5. /\ \A u \in Page : ~O!InFilesys(u)
        /\ "filesys" \notin oBroken
    BY <2>1 , <1>1 DEF ConsoleInv, O!MessagesRight, O!ConsoleAssumption
  <2>6. \A u \in Page : O!Printing(u)' <=> O!Printing(u)
    BY <1>2, <2>2
  <2>7. O!MessagesRight'
    BY <1>1, <2>1, <2>2, <2>5, <2>6 DEF ConsoleInv, ConsoleTypes, O!MessagesRight, O!Calm
  <2> QED
    BY <1>1, <2>1, <2>3, <2>4, <2>7 DEF ConsoleInv, O!Calm
<1> QED
  BY <1>3, <1>4

\* A thread that reads goes from key to key with filesys_lock.
LEMMA ReadKeeps ==
  ASSUME O!ConsoleAssumption, ConsoleInv, NEW t \in Page, O!InputGetc(t) \/ O!StoreByte(t)
  PROVE  ConsoleInv'
<1>1. oAt[t] \in {"key", "store"} /\ oPanic = O!Calm /\ oTodo[t] = "read" /\ O!InFilesys(t)
  BY DEF O!InputGetc, O!StoreByte, O!At, ConsoleInv, InPlace, O!InFilesys
<1>2. CASE oAt[t] = "store" /\ O!Struck(t)
  BY <1>1, <1>2, StruckKeeps
<1>3. CASE O!Panic(t, "readonly")
  BY <1>3, PanicKeeps
<1>4. CASE \E l \in {"key", "store", "unlock"} :
             O!Go(t, l) /\ UNCHANGED <<oFilesysLock, oConsoleLock, oDepth, oUse, oTodo,
                     oPanic, oBroken>>
  <2>1. PICK l \in {"key", "store", "unlock"} :
             O!Go(t, l) /\ UNCHANGED <<oFilesysLock, oConsoleLock, oDepth, oUse, oTodo,
                     oPanic, oBroken>>
    BY <1>4
  <2>2. /\ oAt' \in [Page -> Labels] /\ oTodo' = oTodo /\ oAt'[t] = l
        /\ \A u \in Page : u # t => /\ O!Printing(u)' <=> O!Printing(u)
                                    /\ O!InFilesys(u)' <=> O!InFilesys(u)
                                    /\ InPlace(u)' <=> InPlace(u)
        /\ ~O!Printing(t)' /\ O!InFilesys(t)'
    BY <1>1, <2>1, Moves DEF Labels
  <2>3. /\ \A u \in Page : O!Printing(u)' <=> O!Printing(u)
        /\ \A u \in Page : O!InFilesys(u)' <=> O!InFilesys(u)
    BY <1>1, <2>2 DEF O!Printing
  <2>4. ConsoleTypes'
    BY <2>1, <2>2 DEF ConsoleInv, ConsoleTypes, O!Calm
  <2>5. \A u \in Page : InPlace(u)'
    BY <1>1, <2>1, <2>2 DEF ConsoleInv, InPlace
  <2>6. O!MessagesRight'
    BY <1>1, <2>1, <2>3 DEF ConsoleInv, ConsoleTypes, O!MessagesRight, O!Calm
  <2> QED
    BY <1>1, <2>1, <2>4, <2>5, <2>6 DEF ConsoleInv, O!Calm
<1> QED
  BY <1>2, <1>3, <1>4 DEF O!InputGetc, O!StoreByte, O!At

\* lock_release() frees the lock, that nobody else is inside.
LEMMA UnlockKeeps ==
  ASSUME O!ConsoleAssumption, ConsoleInv, NEW t \in Page, O!UnlockFilesys(t)
  PROVE  ConsoleInv'
<1>1. /\ oAt[t] = "unlock" /\ oPanic = O!Calm /\ O!InFilesys(t) /\ ~O!Printing(t)
      /\ oFilesysLock' = None /\ O!With(t, "user", "none")
      /\ UNCHANGED <<oConsoleLock, oDepth, oUse, oPanic, oBroken>>
  BY DEF O!UnlockFilesys, O!At, O!InFilesys, O!Printing
<1>2. /\ oAt' \in [Page -> Labels] /\ oTodo' \in [Page -> Messages \cup {"none", "read"}]
      /\ oAt'[t] = "user" /\ oTodo'[t] = "none"
      /\ \A u \in Page : u # t => /\ O!Printing(u)' <=> O!Printing(u)
                                  /\ O!InFilesys(u)' <=> O!InFilesys(u)
                                  /\ InPlace(u)' <=> InPlace(u)
      /\ ~O!Printing(t)' /\ ~O!InFilesys(t)'
  BY <1>1, Moves DEF Labels
<1>3. ConsoleTypes'
  BY <1>1, <1>2 DEF ConsoleInv, ConsoleTypes, O!Calm
<1>4. \A u \in Page : InPlace(u)'
  BY <1>2 DEF ConsoleInv, InPlace
<1>5. /\ oFilesysLock = t /\ "filesys" \notin oBroken
      /\ \A u \in Page : u # t => ~O!InFilesys(u)
  BY <1>1, LeftBehind DEF ConsoleInv, O!MessagesRight
<1>6. /\ \A u \in Page : O!Printing(u)' <=> O!Printing(u)
      /\ \A u \in Page : ~O!InFilesys(u)'
  BY <1>1, <1>2, <1>5
<1>7. O!MessagesRight'
  BY <1>1, <1>5, <1>6 DEF ConsoleInv, ConsoleTypes, O!MessagesRight, O!Calm,
     O!ConsoleAssumption
<1> QED
  BY <1>1, <1>3, <1>4, <1>7 DEF ConsoleInv, O!Calm

-----------------------------------------------------------------------------
\* Who prints after a panic is the thread that has panicked.
LEMMA Prints ==
  ASSUME ConsoleInv, NEW t \in Page, oPanic.who \in {None, t}, oTodo[t] # "none",
         O!ConsoleAssumption
  PROVE  /\ oPanic = O!Calm \/ (oPanic.who = t /\ oTodo[t] = "panic")
         /\ oPanic = O!Calm => oUse = TRUE
         /\ oPanic # O!Calm => oUse = FALSE
<1>1. oPanic # O!Calm => oPanic.who = t
  BY DEF ConsoleInv, ConsoleTypes, O!ConsoleAssumption
<1> QED
  BY <1>1 DEF ConsoleInv, ConsoleTypes

\* After a panic only types are at stake.
LEMMA PanickedKeeps ==
  ASSUME O!ConsoleAssumption, ConsoleInv, NEW t \in Page, oPanic # O!Calm,
         NEW l \in Labels, NEW op \in Messages \cup {"none", "read"},
         O!With(t, l, op) \/ (O!Go(t, l) /\ op = oTodo[t] /\ UNCHANGED oTodo),
         oPanic.who = t => op \in {"panic", "none"},
         UNCHANGED <<oFilesysLock, oConsoleLock, oDepth, oUse, oPanic, oBroken>>
  PROVE  InPlace(t)' => ConsoleInv'
<1> SUFFICES ASSUME InPlace(t)' PROVE ConsoleInv'
  OBVIOUS
<1>1. /\ oAt' \in [Page -> Labels] /\ oTodo' \in [Page -> Messages \cup {"none", "read"}]
      /\ oTodo'[t] = op
      /\ \A u \in Page : u # t => oTodo'[u] = oTodo[u] /\ (InPlace(u)' <=> InPlace(u))
  BY Moves
<1>2. ConsoleTypes'
  BY <1>1 DEF ConsoleInv, ConsoleTypes, O!Calm
<1>3. \A u \in Page : InPlace(u)'
  BY <1>1 DEF ConsoleInv
<1>4. O!MessagesRight' /\ oPanic' # O!Calm
  BY DEF ConsoleInv, O!MessagesRight, O!Calm
<1>5. oPanic.who \in Page
  BY DEF ConsoleInv, ConsoleTypes
<1>6. oTodo'[oPanic'.who] \in {"panic", "none"}
  BY <1>1, <1>5 DEF ConsoleInv
<1> QED
  BY <1>2, <1>3, <1>4, <1>6 DEF ConsoleInv, O!Calm

\* acquire_console() counts only in a page whose last thread left console_lock
\* behind.
LEMMA AcquireKeeps ==
  ASSUME O!ConsoleAssumption, ConsoleInv, NEW t \in Page, O!Acquire(t)
  PROVE  ConsoleInv'
<1>1. PICK l \in {"put", "last", "release"} : O!Go(t, l)
  BY DEF O!Acquire, O!Begin
<1>2. /\ oAt[t] = "acquire" /\ oTodo[t] \in Messages /\ oPanic.who \in {None, t}
      /\ UNCHANGED <<oFilesysLock, oUse, oTodo, oPanic, oBroken>>
      /\ ~O!Printing(t)
  BY DEF O!Acquire, ConsoleInv, InPlace, O!Printing
<1>3. /\ oPanic = O!Calm \/ (oPanic.who = t /\ oTodo[t] = "panic")
      /\ oPanic = O!Calm => oUse = TRUE
      /\ oPanic # O!Calm => oUse = FALSE
  BY <1>2, Prints DEF Messages
<1>4. /\ oAt' \in [Page -> Labels] /\ oTodo' = oTodo /\ oAt'[t] = l
      /\ \A u \in Page : u # t => /\ O!Printing(u)' <=> O!Printing(u)
                                  /\ O!InFilesys(u)' <=> O!InFilesys(u)
                                  /\ InPlace(u)' <=> InPlace(u)
      /\ O!Printing(t)'
      /\ O!InFilesys(t)' <=> oTodo[t] = "write"
  BY <1>1, <1>2, Moves DEF Labels
<1>5. InPlace(t)'
  BY <1>1, <1>2, <1>4 DEF InPlace
<1>6. CASE oPanic # O!Calm
  BY <1>1, <1>2, <1>3, <1>5, <1>6, PanickedKeeps DEF O!Acquire, Labels
<1>7. CASE oPanic = O!Calm
  <2>1. \/ oConsoleLock = t /\ oDepth' = oDepth + 1 /\ oConsoleLock' = oConsoleLock
        \/ oConsoleLock = None /\ oConsoleLock' = t /\ oDepth' = oDepth
    BY <1>3, <1>7 DEF O!Acquire
  <2>2. /\ \A u \in Page : O!Printing(u) => oConsoleLock = u
        /\ IF "console" \in oBroken
           THEN oConsoleLock # None /\ oDepth = IF O!Printing(oConsoleLock) THEN 1 ELSE 0
           ELSE oDepth = 0 /\ \A u \in Page : oConsoleLock = u => O!Printing(u)
        /\ t # None /\ oDepth \in Nat
    BY <1>7 DEF ConsoleInv, ConsoleTypes, O!MessagesRight, O!ConsoleAssumption
  <2>3. \A u \in Page : O!Printing(u)' <=> u = t
    BY <1>2, <1>4, <2>1, <2>2 DEF O!ConsoleAssumption
  <2>4. oConsoleLock' = t /\ oDepth' = IF "console" \in oBroken THEN 1 ELSE 0
    BY <1>2, <2>1, <2>2
  <2>5. \A u \in Page : O!InFilesys(u)' <=> O!InFilesys(u)
    BY <1>2, <1>4 DEF O!InFilesys
  <2>6. ConsoleTypes'
    BY <1>2, <1>4, <2>4 DEF ConsoleInv, ConsoleTypes, O!Calm
  <2>7. \A u \in Page : InPlace(u)'
    BY <1>4, <1>5 DEF ConsoleInv
  <2>8. O!MessagesRight'
    BY <1>2, <1>7, <2>2, <2>3, <2>4, <2>5
       DEF ConsoleInv, ConsoleTypes, O!MessagesRight, O!Calm
  <2> QED
    BY <1>2, <1>7, <2>6, <2>7, <2>8 DEF ConsoleInv, O!Calm
<1> QED
  BY <1>6, <1>7

\* putchar_have_lock() has the lock whenever there is one to have.
LEMMA PutcharKeeps ==
  ASSUME O!ConsoleAssumption, ConsoleInv, NEW t \in Page, O!Putchar(t)
  PROVE  ConsoleInv'
<1>1. /\ oAt[t] \in {"put", "last"} /\ oTodo[t] \in Messages /\ oPanic.who \in {None, t}
      /\ O!Printing(t)
  BY DEF O!Putchar, ConsoleInv, InPlace, O!Printing
<1>2. /\ oPanic = O!Calm \/ (oPanic.who = t /\ oTodo[t] = "panic")
      /\ oPanic = O!Calm => oUse = TRUE
      /\ oPanic # O!Calm => oUse = FALSE
  BY <1>1, Prints DEF Messages
<1>3. O!Locked(t)
  BY <1>1, <1>2 DEF O!Locked, ConsoleInv, O!MessagesRight
<1>4. CASE oTodo[t] = "write" /\ O!Struck(t)
  BY <1>1, <1>2, <1>4, StruckKeeps
<1>5. CASE \E l \in {"last", "release"} :
             O!Go(t, l) /\ UNCHANGED <<oFilesysLock, oConsoleLock, oDepth, oUse, oTodo,
                     oPanic, oBroken>>
  <2>1. PICK l \in {"last", "release"} :
             O!Go(t, l) /\ UNCHANGED <<oFilesysLock, oConsoleLock, oDepth, oUse, oTodo,
                     oPanic, oBroken>>
    BY <1>5
  <2>2. /\ oAt' \in [Page -> Labels] /\ oTodo' = oTodo /\ oAt'[t] = l
        /\ \A u \in Page : u # t => /\ O!Printing(u)' <=> O!Printing(u)
                                    /\ O!InFilesys(u)' <=> O!InFilesys(u)
                                    /\ InPlace(u)' <=> InPlace(u)
        /\ O!Printing(t)'
        /\ O!InFilesys(t)' <=> oTodo[t] = "write"
    BY <1>1, <2>1, Moves DEF Labels
  <2>3. InPlace(t)'
    BY <1>1, <2>1, <2>2 DEF InPlace
  <2>4. CASE oPanic # O!Calm
    BY <1>1, <1>2, <2>1, <2>3, <2>4, PanickedKeeps DEF Labels
  <2>5. CASE oPanic = O!Calm
    <3>1. /\ \A u \in Page : O!Printing(u)' <=> O!Printing(u)
          /\ \A u \in Page : O!InFilesys(u)' <=> O!InFilesys(u)
      BY <1>1, <2>2 DEF O!InFilesys
    <3>2. ConsoleTypes'
      BY <2>1, <2>2 DEF ConsoleInv, ConsoleTypes, O!Calm
    <3>3. \A u \in Page : InPlace(u)'
      BY <2>2, <2>3 DEF ConsoleInv
    <3>4. O!MessagesRight'
      BY <2>1, <2>5, <3>1 DEF ConsoleInv, ConsoleTypes, O!MessagesRight, O!Calm
    <3> QED
      BY <2>1, <2>5, <3>2, <3>3, <3>4 DEF ConsoleInv, O!Calm
  <2> QED
    BY <2>4, <2>5
<1> QED
  BY <1>3, <1>4, <1>5 DEF O!Putchar

\* release_console() frees the lock, or takes back what acquire_console() counted.
LEMMA ReleaseKeeps ==
  ASSUME O!ConsoleAssumption, ConsoleInv, NEW t \in Page, O!Release(t)
  PROVE  ConsoleInv'
<1>1. /\ oAt[t] = "release" /\ oTodo[t] \in Messages /\ oPanic.who \in {None, t}
      /\ UNCHANGED <<oFilesysLock, oUse, oPanic, oBroken>>
      /\ O!Printing(t)
  BY DEF O!Release, ConsoleInv, InPlace, O!Printing
<1>2. /\ oPanic = O!Calm \/ (oPanic.who = t /\ oTodo[t] = "panic")
      /\ oPanic = O!Calm => oUse = TRUE
      /\ oPanic # O!Calm => oUse = FALSE
  BY <1>1, Prints DEF Messages
<1>3. PICK l \in Labels, op \in Messages \cup {"none", "read"} :
        /\ O!With(t, l, op) \/ (O!Go(t, l) /\ op = oTodo[t] /\ UNCHANGED oTodo)
        /\ \/ l = "unlock" /\ op = "write" /\ oTodo[t] = "write"
           \/ l = "acquire" /\ op = "exit" /\ oTodo[t] = "kill"
           \/ l \in {"free", "user", "kernel",
                   "halted"} /\ op = "none" /\ oTodo[t] # "write"
  BY <1>1 DEF O!Release, O!Idle, Labels, Messages
<1>4. /\ oAt' \in [Page -> Labels] /\ oTodo' \in [Page -> Messages \cup {"none", "read"}]
      /\ oAt'[t] = l /\ oTodo'[t] = op
      /\ \A u \in Page : u # t => /\ O!Printing(u)' <=> O!Printing(u)
                                  /\ O!InFilesys(u)' <=> O!InFilesys(u)
                                  /\ InPlace(u)' <=> InPlace(u)
      /\ ~O!Printing(t)'
      /\ O!InFilesys(t)' <=> O!InFilesys(t)
  BY <1>1, <1>3, Moves DEF O!InFilesys
<1>5. InPlace(t)'
  BY <1>3, <1>4 DEF InPlace, Messages
<1>6. CASE oPanic # O!Calm
  BY <1>1, <1>2, <1>3, <1>5, <1>6, PanickedKeeps DEF O!Release
<1>7. CASE oPanic = O!Calm
  <2>1. IF oDepth > 0 THEN oDepth' = oDepth - 1 /\ oConsoleLock' = oConsoleLock
                     ELSE oConsoleLock' = None /\ oDepth' = oDepth
    BY <1>2, <1>7 DEF O!Release
  <2>2. /\ \A u \in Page : O!Printing(u) <=> u = t
        /\ oConsoleLock = t /\ t # None
        /\ oDepth = IF "console" \in oBroken THEN 1 ELSE 0
    BY <1>1, <1>7 DEF ConsoleInv, O!MessagesRight, O!ConsoleAssumption
  <2>3. \A u \in Page : ~O!Printing(u)'
    BY <1>4, <2>2
  <2>4. /\ oDepth' = 0
        /\ oConsoleLock' = IF "console" \in oBroken THEN t ELSE None
    BY <2>1, <2>2
  <2>5. \A u \in Page : O!InFilesys(u)' <=> O!InFilesys(u)
    BY <1>4
  <2>6. ConsoleTypes'
    BY <1>1, <1>4, <2>4 DEF ConsoleInv, ConsoleTypes, O!Calm
  <2>7. \A u \in Page : InPlace(u)'
    BY <1>4, <1>5 DEF ConsoleInv
  <2>8. O!MessagesRight'
    BY <1>1, <1>7, <2>2, <2>3, <2>4, <2>5
       DEF ConsoleInv, ConsoleTypes, O!MessagesRight, O!Calm, O!ConsoleAssumption
  <2> QED
    BY <1>1, <1>7, <2>6, <2>7, <2>8 DEF ConsoleInv, O!Calm
<1> QED
  BY <1>6, <1>7

-----------------------------------------------------------------------------
\* Nobody prints or holds anything at first.
LEMMA ConsoleStart == ASSUME O!ConsoleAssumption, O!Init PROVE ConsoleInv
<1>1. \A t \in Page : oAt[t] \in {"kernel", "free"} /\ oTodo[t] = "none"
  BY DEF O!Init
<1>2. ConsoleTypes
  BY DEF O!Init, ConsoleTypes, Labels
<1>3. \A t \in Page : InPlace(t) /\ ~O!Printing(t) /\ ~O!InFilesys(t)
  BY <1>1 DEF InPlace, O!Printing, O!InFilesys
<1>4. O!MessagesRight
  BY <1>3 DEF O!Init, O!MessagesRight, O!Calm, O!ConsoleAssumption
<1> QED
  BY <1>2, <1>3, <1>4 DEF ConsoleInv, O!Init

\* Whoever moves, the invariant stays.
LEMMA ConsoleKeeps == ASSUME O!ConsoleAssumption, ConsoleInv,
        [O!Next]_O!vars PROVE ConsoleInv'
<1>1. CASE \E t \in Page : O!Call(t) \/ O!InputGetc(t)
  BY <1>1, CallKeeps, ReadKeeps
<1>2. CASE O!KernelPrints
  BY <1>2, CallKeeps DEF O!ConsoleAssumption
<1>3. ASSUME NEW t \in Page, O!Operate(t) PROVE ConsoleInv'
  BY <1>3, LockKeeps, ReadKeeps, UnlockKeeps, AcquireKeeps, PutcharKeeps, ReleaseKeeps
     DEF O!Operate
<1>4. CASE UNCHANGED O!vars
  <2>1. /\ \A t \in Page : O!Printing(t)' <=> O!Printing(t)
        /\ \A t \in Page : O!InFilesys(t)' <=> O!InFilesys(t)
        /\ \A t \in Page : InPlace(t)' <=> InPlace(t)
    BY <1>4 DEF O!vars, O!Printing, O!InFilesys, InPlace
  <2>2. O!MessagesRight'
    BY <1>4, <2>1 DEF O!vars, ConsoleInv, ConsoleTypes, O!MessagesRight, O!Calm
  <2> QED
    BY <1>4, <2>1, <2>2 DEF O!vars, ConsoleInv, ConsoleTypes, O!Calm
<1> QED
  BY <1>1, <1>2, <1>3, <1>4 DEF O!Next

-----------------------------------------------------------------------------
\* Of the three parts, two have an invariant here; the third, the serial port, has
\* its own in SerialProofs.
DevicesInv ==
  /\ part = "clock" => ClockInv
  /\ part = "console" => ConsoleInv

LEMMA DevicesStart == DevicesInit => DevicesInv
<1> SUFFICES ASSUME DevicesInit PROVE DevicesInv
  OBVIOUS
<1>1. K!ClockAssumption /\ O!ConsoleAssumption
  BY DevicesAssumption
<1>2. CASE part = "clock"
  BY <1>1, <1>2, ClockStart DEF DevicesInit, DevicesInv
<1>3. CASE part = "console"
  BY <1>1, <1>3, ConsoleStart DEF DevicesInit, DevicesInv
<1> QED
  BY <1>2, <1>3 DEF DevicesInv

LEMMA DevicesKeep == DevicesInv /\ [DevicesNext]_devicesVars => DevicesInv'
<1> SUFFICES ASSUME DevicesInv, [DevicesNext]_devicesVars PROVE DevicesInv'
  OBVIOUS
<1>1. ClockConstants /\ O!ConsoleAssumption
  BY DevicesAssumption DEF ClockConstants
<1>2. part' = part
  BY DEF DevicesNext, devicesVars, PortStep, ClockStep, ConsoleStep
<1>3. ASSUME part = "clock" PROVE ClockInv'
  <2>1. [K!Next]_K!vars
    BY <1>3 DEF DevicesNext, devicesVars, PortStep, ClockStep, ConsoleStep, clockVars, K!vars
  <2> QED
    BY <1>1, <1>3, <2>1, ClockKeeps DEF DevicesInv
<1>4. ASSUME part = "console" PROVE ConsoleInv'
  <2>1. [O!Next]_O!vars
    BY <1>4 DEF DevicesNext, devicesVars, PortStep, ClockStep, ConsoleStep, consoleVars, O!vars
  <2> QED
    BY <1>1, <1>4, <2>1, ConsoleKeeps DEF DevicesInv
<1> QED
  BY <1>2, <1>3, <1>4 DEF DevicesInv

\* Whatever the clock does between the two loads of timer_ticks(), timer_sleep()
\* comes back no sooner than it was asked to, and no start lies outside the
\* time since the call.
THEOREM SleepsEnough == DevicesSpec => []SleptEnough
<1>1. DevicesInv => SleptEnough
  BY DEF DevicesInv, ClockInv, SleptEnough
<1> QED
  BY <1>1, DevicesStart, DevicesKeep, PTL DEF DevicesSpec

\* Messages come one after the other until there is a panic, acquire_console() and
\* release_console() count right, and who panics about a lock has been left
\* it by a thread that a fault ended.
THEOREM MessagesOrdered == DevicesSpec => []MessagesRight
<1>1. DevicesInv => MessagesRight
  BY DEF DevicesInv, ConsoleInv, MessagesRight
<1> QED
  BY <1>1, DevicesStart, DevicesKeep, PTL DEF DevicesSpec

\* Beside the clock and the console the serial port does what it does alone: the
\* devices implement module Serial, and all that SerialProofs proves of it.
THEOREM DevicesImplementSerial == DevicesSpec => Spec
<1>1. DevicesInit => Init
  BY DEF DevicesInit
<1>2. [DevicesNext]_devicesVars => [Next]_vars
  BY DEF DevicesNext, devicesVars, PortStep, ClockStep, ConsoleStep
<1> QED
  BY <1>1, <1>2, PTL DEF DevicesSpec, Spec
=============================================================================
