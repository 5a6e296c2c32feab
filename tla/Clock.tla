-------------------------------- MODULE Clock ------------------------------
(***************************************************************************)
(* Time, devices/timer.c: threads that sleep until ticks has gone far      *)
(* enough, and the interrupt that counts it (delays are in module Library).*)
(* ticks is twice as wide as a word, so that reading it takes two loads;   *)
(* timer_ticks() turns interrupts off for them, and as long as they are    *)
(* off the thread runs alone.  A word holds numbers below Word.            *)
(***************************************************************************)
EXTENDS Integers

CONSTANTS Thread, Nobody,
          Word,
          Naps,         \* arguments of timer_sleep()
          MaxTicks      \* bound: the clock stops here

ClockAssumption ==
  /\ Nobody \notin Thread /\ Word \in Nat \ {0} /\ MaxTicks \in 0 .. Word * Word - 1

VARIABLES lo, hi,       \* ticks
          off,          \* the thread that has turned interrupts off
          at,           \* where each thread is
          want,         \* what it has passed to timer_sleep()
          begun, start, \* timer_sleep() knows its start, and which it is
          low,          \* the word of ticks it has loaded
          since         \* ghost: ticks when it called

vars == <<lo, hi, off, at, want, begun, start, low, since>>

Ticks == hi * Word + lo
MayRun(t, label) == at[t] = label /\ off \in {Nobody, t}
Goto(t, label)   == at' = [at EXCEPT ![t] = label]

-----------------------------------------------------------------------------
\* timer_interrupt(); the processor adds with carry.
TimerInterrupt ==
  /\ off = Nobody /\ Ticks < MaxTicks
  /\ lo' = (lo + 1) % Word
  /\ hi' = IF lo + 1 = Word THEN hi + 1 ELSE hi
  /\ UNCHANGED <<off, at, want, begun, start, low, since>>

\* timer_sleep()
TimerSleep(t, n) ==
  /\ MayRun(t, "user")
  /\ want' = [want EXCEPT ![t] = n]
  /\ since' = [since EXCEPT ![t] = Ticks]
  /\ Goto(t, "ticks")
  /\ UNCHANGED <<lo, hi, off, begun, start, low>>

\* Mutant: interrupts stay on.
IntrDisableNot(t) ==
  /\ MayRun(t, "ticks")
  /\ Goto(t, "low")
  /\ UNCHANGED <<lo, hi, off, want, begun, start, low, since>>

\* timer_ticks()
IntrDisable(t) ==
  /\ MayRun(t, "ticks")
  /\ off' = t
  /\ Goto(t, "low")
  /\ UNCHANGED <<lo, hi, want, begun, start, low, since>>

LoadLow(t) ==
  /\ MayRun(t, "low")
  /\ low' = [low EXCEPT ![t] = lo]
  /\ Goto(t, "high")
  /\ UNCHANGED <<lo, hi, off, want, begun, start, since>>

\* The second load, intr_set_level(), and what timer_sleep() does with the time:
\* it notes its start, yields, or returns.
LoadHigh(t) ==
  LET now == hi * Word + low[t] IN
  /\ MayRun(t, "high")
  /\ off' = Nobody
  /\ low' = [low EXCEPT ![t] = 0]
  /\ IF ~begun[t]
     THEN /\ start' = [start EXCEPT ![t] = now]
          /\ begun' = [begun EXCEPT ![t] = TRUE]
          /\ Goto(t, "ticks")
     ELSE IF now - start[t] < want[t]
     THEN Goto(t, "ticks") /\ UNCHANGED <<start, begun>>
     ELSE /\ Goto(t, "user")
          /\ begun' = [begun EXCEPT ![t] = FALSE]
          /\ start' = [start EXCEPT ![t] = 0]
  /\ UNCHANGED <<lo, hi, want, since>>

Init ==
  /\ lo = 0 /\ hi = 0 /\ off = Nobody
  /\ at = [t \in Thread |-> "user"]
  /\ want = [t \in Thread |-> 0] /\ start = [t \in Thread |-> 0]
  /\ begun = [t \in Thread |-> FALSE]
  /\ low = [t \in Thread |-> 0] /\ since = [t \in Thread |-> 0]

Operate(t) == IntrDisable(t) \/ LoadLow(t) \/ LoadHigh(t)

Next ==
  \/ TimerInterrupt
  \/ \E t \in Thread : Operate(t) \/ \E n \in Naps : TimerSleep(t, n)

-----------------------------------------------------------------------------
\* A thread that comes back from timer_sleep() has slept as many ticks as it asked
\* for, and nobody takes for its start a time before its call or after now,
\* whatever the clock does between the two loads.
SleptEnough ==
  \A t \in Thread :
    /\ at[t] = "user" => Ticks - since[t] >= want[t]
    /\ begun[t] => start[t] \in since[t] .. Ticks

\* A sleeper that the clock will get far enough for.
Sleeps(t) == begun[t] /\ start[t] + want[t] <= MaxTicks
=============================================================================
