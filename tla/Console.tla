------------------------------- MODULE Console ------------------------------
(***************************************************************************)
(* Messages on the console: lib/kernel/console.c under the system calls    *)
(* that write to it and read from the keyboard (userprog/syscall.c), which *)
(* hold filesys_lock all the while, and under the messages of a dying      *)
(* process (userprog/exception.c, process.c) and of a panic.               *)
(*                                                                         *)
(* A thread is the page of its struct thread.  The page of a thread that   *)
(* has died may become another thread, and a lock knows its holder by the  *)
(* page.  todo says what a thread prints: the buffer of a write, the last  *)
(* words of a process that is killed or exits, or a message of the kernel. *)
(* The kernel checks the first byte of a user's buffer; further on there   *)
(* may be nothing mapped, or memory that is only to be read.  How the      *)
(* sleepers of a lock wake up is in module Synch.                          *)
(***************************************************************************)
EXTENDS Integers

CONSTANTS Page, Kernel, \* Kernel is a thread without a process
          Nobody

ConsoleAssumption == Kernel \in Page /\ Nobody \notin Page

VARIABLES filesys_lock, console_lock,   \* their holders
          depth,        \* console_lock_depth
          use,          \* use_console_lock
          at, todo,     \* where each thread is, and with what
          panic,        \* the thread that has panicked, and why
          broken        \* ghost: the locks whose holder a fault has ended

vars == <<filesys_lock, console_lock, depth, use, at, todo, panic, broken>>

Calm           == [who |-> Nobody, why |-> "none"]
At(t, label)   == at[t] = label /\ panic = Calm
Go(t, l)       == at' = [at EXCEPT ![t] = l]
With(t, l, op) == at' = [at EXCEPT ![t] = l] /\ todo' = [todo EXCEPT ![t] = op]
Idle(t)        == IF t = Kernel THEN "kernel" ELSE "user"

\* Mutant: the console keeps its lock.
PanicLocked(t, why) ==
  /\ panic' = [who |-> t, why |-> why]
  /\ With(t, "acquire", "panic")
  /\ UNCHANGED <<filesys_lock, console_lock, depth, use, broken>>

\* debug_panic(): from here on the console works without its lock.
Panic(t, why) ==
  /\ panic' = [who |-> t, why |-> why]
  /\ use' = FALSE
  /\ With(t, "acquire", "panic")
  /\ UNCHANGED <<filesys_lock, console_lock, depth, broken>>

\* thread_exit() out of what the thread was doing, a fault's doing.
Struck(t) ==
  /\ With(t, "acquire", "exit")
  /\ broken' = broken \cup (IF filesys_lock = t THEN {"filesys"} ELSE {})
                      \cup (IF console_lock = t THEN {"console"} ELSE {})
  /\ UNCHANGED <<filesys_lock, console_lock, depth, use, panic>>

-----------------------------------------------------------------------------
\* A new process, in a page that is free.
Start(t) ==
  /\ At(t, "free")
  /\ With(t, "user", "none")
  /\ UNCHANGED <<filesys_lock, console_lock, depth, use, panic, broken>>

\* sys_write() to the console and sys_read() from the keyboard, past their checks.
CallWrite(t) ==
  /\ At(t, "user")
  /\ With(t, "lock", "write")
  /\ UNCHANGED <<filesys_lock, console_lock, depth, use, panic, broken>>
CallRead(t) ==
  /\ At(t, "user")
  /\ With(t, "lock", "read")
  /\ UNCHANGED <<filesys_lock, console_lock, depth, use, panic, broken>>

\* sys_exit(), which is also what becomes of a call with a bad stack, argument,
\* buffer or descriptor, and page_fault() at an address with no memory.
CallExit(t) ==
  /\ At(t, "user")
  /\ With(t, "acquire", "exit")
  /\ UNCHANGED <<filesys_lock, console_lock, depth, use, panic, broken>>

\* kill() in user mode prints a message and exits.
Killed(t) ==
  /\ At(t, "user")
  /\ With(t, "acquire", "kill")
  /\ UNCHANGED <<filesys_lock, console_lock, depth, use, panic, broken>>

KernelPrints ==
  /\ At(Kernel, "kernel")
  /\ With(Kernel, "acquire", "message")
  /\ UNCHANGED <<filesys_lock, console_lock, depth, use, panic, broken>>

-----------------------------------------------------------------------------
\* lock_acquire (&filesys_lock) asserts that the thread does not hold it.
LockFilesys(t) ==
  /\ At(t, "lock")
  /\ IF filesys_lock = t THEN Panic(t, "held")
     ELSE /\ filesys_lock = Nobody
          /\ filesys_lock' = t
          /\ \E label \in IF todo[t] = "write" THEN {"acquire"} ELSE {"key", "unlock"} : Go(t, label)
          /\ UNCHANGED <<console_lock, depth, use, todo, panic, broken>>

\* input_getc(), when somebody presses a key.
InputGetc(t) ==
  /\ At(t, "key")
  /\ Go(t, "store")
  /\ UNCHANGED <<filesys_lock, console_lock, depth, use, todo, panic, broken>>

\* The byte goes to the user's buffer, after which there may be more to read.  A
\* fault in the kernel at an address with no memory ends the process; where there is
\* memory, kill() panics.
StoreByte(t) ==
  /\ At(t, "store")
  /\ \/ /\ \E more \in BOOLEAN : Go(t, IF more THEN "key" ELSE "unlock")
        /\ UNCHANGED <<filesys_lock, console_lock, depth, use, todo, panic, broken>>
     \/ Struck(t)
     \/ Panic(t, "readonly")

UnlockFilesys(t) ==
  /\ At(t, "unlock")
  /\ filesys_lock' = Nobody
  /\ With(t, "user", "none")
  /\ UNCHANGED <<console_lock, depth, use, panic, broken>>

-----------------------------------------------------------------------------
\* A message has two characters, one or none.
Begin(t) == \E label \in {"put", "last", "release"} : Go(t, label)

\* Mutant: the depth is not counted.
AcquireFlat(t) ==
  /\ at[t] = "acquire" /\ panic.who \in {Nobody, t}
  /\ use => console_lock \in {t, Nobody}
  /\ console_lock' = IF use THEN t ELSE console_lock
  /\ Begin(t)
  /\ UNCHANGED <<filesys_lock, depth, use, todo, panic, broken>>

\* acquire_console()
Acquire(t) ==
  /\ at[t] = "acquire" /\ panic.who \in {Nobody, t}
  /\ IF ~use THEN UNCHANGED <<console_lock, depth>>
     ELSE IF console_lock = t
     THEN depth' = depth + 1 /\ UNCHANGED console_lock
     ELSE console_lock = Nobody /\ console_lock' = t /\ UNCHANGED depth
  /\ Begin(t)
  /\ UNCHANGED <<filesys_lock, use, todo, panic, broken>>

\* console_locked_by_current_thread()
Locked(t) == ~use \/ console_lock = t

\* putchar_have_lock(): the bytes of a write come from the user's buffer.
Putchar(t) ==
  /\ at[t] \in {"put", "last"} /\ panic.who \in {Nobody, t}
  /\ IF ~Locked(t) THEN Panic(t, "unlocked")
     ELSE \/ /\ Go(t, IF at[t] = "put" THEN "last" ELSE "release")
             /\ UNCHANGED <<filesys_lock, console_lock, depth, use, todo, panic, broken>>
          \/ todo[t] = "write" /\ Struck(t)

\* release_console(), and where the thread goes on.
Release(t) ==
  /\ at[t] = "release" /\ panic.who \in {Nobody, t}
  /\ IF ~use THEN UNCHANGED <<console_lock, depth>>
     ELSE IF depth > 0
     THEN depth' = depth - 1 /\ UNCHANGED console_lock
     ELSE console_lock' = Nobody /\ UNCHANGED depth
  /\ CASE todo[t] = "write"   -> Go(t, "unlock") /\ UNCHANGED todo
       [] todo[t] = "kill"    -> With(t, "acquire", "exit")
       [] todo[t] = "exit"    -> With(t, "free", "none")
       [] todo[t] = "message" -> With(t, Idle(t), "none")
       [] todo[t] = "panic"   -> With(t, "halted", "none")
  /\ UNCHANGED <<filesys_lock, use, panic, broken>>

-----------------------------------------------------------------------------
Init ==
  /\ filesys_lock = Nobody /\ console_lock = Nobody
  /\ depth = 0 /\ use = TRUE
  /\ at = [t \in Page |-> IF t = Kernel THEN "kernel" ELSE "free"]
  /\ todo = [t \in Page |-> "none"]
  /\ panic = Calm /\ broken = {}

Call(t) == Start(t) \/ CallWrite(t) \/ CallRead(t) \/ CallExit(t) \/ Killed(t)

\* What a thread does by itself once it runs.
Operate(t) ==
  LockFilesys(t) \/ StoreByte(t) \/ UnlockFilesys(t)
  \/ Acquire(t) \/ Putchar(t) \/ Release(t)

Next ==
  \/ \E t \in Page : Call(t) \/ Operate(t) \/ InputGetc(t)
  \/ KernelPrints

-----------------------------------------------------------------------------
Printing(t)  == at[t] \in {"put", "last", "release"}
InFilesys(t) == \/ at[t] \in {"key", "store", "unlock"}
                \/ todo[t] = "write" /\ at[t] # "lock"

\* Messages come one after the other, whoever prints them, until there is a panic;
\* the depth counts what the holder of the lock prints inside its own message, and
\* both locks are held exactly by those who are about it, unless a fault has ended a
\* thread that held one.  Then its page holds the lock for good: the next thread
\* in that page prints with it, and panics when it wants filesys_lock.  Nothing else
\* panics but a read into memory that is only to be read.
MessagesRight ==
  /\ panic = Calm =>
       /\ \A t, u \in Page : Printing(t) /\ Printing(u) => t = u
       /\ \A t \in Page : Printing(t) => console_lock = t
       /\ IF "console" \in broken
          THEN console_lock # Nobody /\ depth = IF Printing(console_lock) THEN 1 ELSE 0
          ELSE depth = 0 /\ \A t \in Page : console_lock = t => Printing(t)
       /\ \A t \in Page : InFilesys(t) => filesys_lock = t
       /\ IF "filesys" \in broken
          THEN filesys_lock # Nobody /\ ~InFilesys(filesys_lock)
          ELSE \A t \in Page : filesys_lock = t => InFilesys(t)
  /\ \/ panic.why \in {"none", "readonly"}
     \/ panic.why = "held" /\ "filesys" \in broken

\* A thread in a call.
Busy(t) == at[t] \notin {"free", "user", "kernel", "halted"}

\* What a call may have to wait for without end: a lock that was left behind, and
\* a key that filesys_lock is held for.
Stuck == panic # Calm \/ broken # {} \/ \E t \in Page : at[t] = "key"
=============================================================================
