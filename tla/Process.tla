------------------------------- MODULE Process ------------------------------
(***************************************************************************)
(* exec, wait and exit of user processes: userprog/process.c and the       *)
(* system calls of userprog/syscall.c that reach it.                       *)
(*                                                                         *)
(* Each process is a kernel thread; all of this code runs with interrupts  *)
(* on and takes no lock, so the steps of different threads interleave as   *)
(* the timer likes.  A step ends where the code stores or loads something  *)
(* another thread changes, or calls a semaphore.  Only the parent ever     *)
(* downs its sema_pexec and sema_pwait, so a semaphore is its value and    *)
(* whether the parent sleeps on it.                                        *)
(*                                                                         *)
(* process_list is the doubly linked list of lib/kernel/list.c, with its   *)
(* pointers: find_process() walks it one element at a time, and            *)
(* list_push_back() and list_remove() store two pointers of it in two      *)
(* steps.  op is where a thread stands in one of the three, at is where it *)
(* goes on afterwards.  A struct process is a block of the heap: list is   *)
(* the set of those linked in, freed that of those given to free().        *)
(*                                                                         *)
(* A fault is a use of a null or freed struct, or a failed assertion of    *)
(* the kernel.  What the machine does then is left open: in the model      *)
(* nothing moves any more.                                                 *)
(*                                                                         *)
(* Assume names the conditions under which the code is to work; each run   *)
(* says which it needs:                                                    *)
(*   atomic    the timer preempts nobody inside a walk of process_list,    *)
(*             before the use of the struct it found, or in a change of    *)
(*             the list (InList)                                           *)
(*   prompt    nor in the windows of InWindow                              *)
(*   onechild  a process waits for a child before it starts another        *)
(*   reap      a process waits for its children before it exits            *)
(*   zeroed    the memory malloc() returns reads as 0                      *)
(*   memory    thread_create() and malloc() find memory                    *)
(***************************************************************************)
EXTENDS Integers, Sequences, SequencesExt

CONSTANTS Pid,        \* thread identifiers
          Boot,       \* the initial process, which runs no user program
          First, End, \* the head and tail elements of process_list
          None,
          Status,     \* exit statuses that sys_exit() and page_fault() store
          ByKernel,   \* how a process ended that kill() ended
          Junk,       \* what uninitialised memory holds
          Assume

Conditions == {"atomic", "prompt", "onechild", "reap", "zeroed", "memory"}

ASSUME ProcessAssumption ==
  /\ Boot \in Pid /\ None \notin Pid /\ ByKernel \notin Status
  /\ {First, End} \cap (Pid \cup {None}) = {} /\ First # End
  /\ Assume \subseteq Conditions

VARIABLES proc,       \* struct process of every pid
          next, prev, \* the pointers of process_list
          list,       \* the structs linked in
          freed,      \* the structs given to free()
          at,         \* where each thread is
          op,         \* where it is in a walk or a change of process_list
          cur, par,   \* curr_p of process_wait(), parent_p
          arg,        \* the child that the call a thread makes is about
          val,        \* an exit status in hand
          fault,      \* a null or freed struct has been used
          exited,     \* ghost: the status each process really ended with
          reaped,     \* ghost: the children a wait has returned a status for
          ret         \* ghost: what the last exec or wait of a process returned

heap == <<proc, next, prev, list, freed>>
locals == <<cur, par, arg, val>>
ghosts == <<exited, reaped, ret>>
vars == <<heap, at, op, locals, fault, ghosts>>

Node == Pid \cup {First, End}
Uninit == IF "zeroed" \in Assume THEN 0 ELSE Junk
HasMemory == IF "memory" \in Assume THEN {TRUE} ELSE BOOLEAN

\* A struct process as process_execute() leaves it: status, exec_file and the
\* semaphores are not initialised.
NewProc(parent, exec) ==
  [parent |-> parent, children |-> <<>>, dead |-> FALSE, loaded |-> FALSE,
   status |-> Uninit, exec |-> exec, pexec |-> 0, pwait |-> 0]

NoRet == [op |-> "none", child |-> None, value |-> 0, early |-> FALSE]
Idle  == [do |-> "none", on |-> End, goal |-> None]

Unreaped(p) == ToSet(proc[p].children) \ reaped
Valid == Pid \ freed

Exiting == {"exit", "exitparent", "exitfree", "exitsignal", "exitup", "exitreap",
            "exitchild", "exitclose", "gone"}

\* The stretches of code in which a switch to another thread does harm: from
\* thread_create() to sema_down() in process_execute(), from the test of
\* is_dead to sema_down() in process_wait(), from is_dead = true to sema_up() in
\* process_exit(), and in a child that failed to load from its own sema_up()
\* until it is gone.
InWindow(p) ==
  \/ at[p] \in {"enlist", "pexec", "pwait", "exitfree", "exitsignal", "exitup", "failed"}
  \/ at[p] \in ({"setstatus"} \cup Exiting) \ {"gone"} /\ ~proc[p].loaded

\* Inside a walk of process_list or a change of it, or between two searches of
\* process_wait() for the child.
InList(p) ==
  \/ op[p].do \in {"link", "tie", "close", "free"}
  \/ op[p].do = "find" /\ op[p].on # First
  \/ at[p] \in {"waitfind", "waitparent", "waitdead"}

Runs(p) ==
  /\ ~fault
  /\ "prompt" \in Assume => \A q \in Pid \ {p} : ~InWindow(q)
  /\ "atomic" \in Assume => \A q \in Pid \ {p} : ~InList(q)

At(p, label)    == Runs(p) /\ at[p] = label /\ op[p].do = "none"
Found(p, label) == /\ Runs(p) /\ at[p] = label
                   /\ op[p].do = "find" /\ op[p].on \in {op[p].goal, End}

\* What find_process() returns.
Got(p) == IF op[p].on = End THEN None ELSE op[p].on

Fault == fault' = TRUE /\ UNCHANGED <<heap, at, op, locals, ghosts>>

Do(p, label, do, on, goal) ==
  /\ at' = [at EXCEPT ![p] = label]
  /\ op' = [op EXCEPT ![p] = [do |-> do, on |-> on, goal |-> goal]]
Go(p, label)           == Do(p, label, "none", End, None)
Search(p, label, goal) == Do(p, label, "find", First, goal)
Unlink(p, label, e)    == Do(p, label, "skip", e, None)
UnlinkFree(p, label, e) == Do(p, label, "skip", e, e)

\* sema_up() by p, which goes on at label, for a parent that sleeps at asleep.
Wake(p, label, q, asleep, woken) ==
  /\ at' = [at EXCEPT ![p] = label, ![q] = IF @ = asleep THEN woken ELSE @]
  /\ UNCHANGED op

Return(p, call, child, value, early) ==
  /\ Go(p, "user")
  /\ ret' = [ret EXCEPT ![p] = [op |-> call, child |-> child, value |-> value,
                                early |-> early]]
  /\ arg' = [arg EXCEPT ![p] = None] /\ cur' = [cur EXCEPT ![p] = None]
  /\ val' = [val EXCEPT ![p] = 0]
  /\ UNCHANGED <<par, fault, exited>>

-----------------------------------------------------------------------------
\* find_processelem(): one round of the loop.
Walk(p) ==
  /\ Runs(p) /\ op[p].do = "find" /\ op[p].on \notin {op[p].goal, End}
  /\ IF op[p].on \in freed THEN Fault ELSE
     /\ op' = [op EXCEPT ![p].on = next[@]]
     /\ UNCHANGED <<heap, at, locals, fault, ghosts>>

\* list_insert() before the tail: its second half, a store each.
Link(p) ==
  /\ Runs(p) /\ op[p].do = "link"
  /\ IF prev[End] \in freed THEN Fault ELSE
     /\ next' = [next EXCEPT ![prev[End]] = op[p].on]
     /\ list' = list \cup {op[p].on}
     /\ op' = [op EXCEPT ![p].do = "tie"]
     /\ UNCHANGED <<proc, prev, freed, at, locals, fault, ghosts>>

Tie(p) ==
  /\ Runs(p) /\ op[p].do = "tie"
  /\ prev' = [prev EXCEPT ![End] = op[p].on]
  /\ op' = [op EXCEPT ![p] = Idle]
  /\ UNCHANGED <<proc, next, list, freed, at, locals, fault, ghosts>>

\* list_remove(), a store each.
Skip(p) ==
  /\ Runs(p) /\ op[p].do = "skip"
  /\ LET e == op[p].on IN
     IF {e, prev[e]} \cap freed # {} THEN Fault ELSE
     /\ next' = [next EXCEPT ![prev[e]] = next[e]]
     /\ list' = list \ {e}
     /\ op' = [op EXCEPT ![p].do = "close"]
     /\ UNCHANGED <<proc, prev, freed, at, locals, fault, ghosts>>

Close(p) ==
  /\ Runs(p) /\ op[p].do = "close"
  /\ LET e == op[p].on IN
     IF {e, next[e]} \cap freed # {} THEN Fault ELSE
     /\ prev' = [prev EXCEPT ![next[e]] = prev[e]]
     /\ op' = [op EXCEPT ![p] = IF op[p].goal = None THEN Idle ELSE [@ EXCEPT !.do = "free"]]
     /\ UNCHANGED <<proc, next, list, freed, at, locals, fault, ghosts>>

\* free() of the struct just removed.
Free(p) ==
  /\ Runs(p) /\ op[p].do = "free"
  /\ IF op[p].on \in freed THEN Fault ELSE
     /\ freed' = freed \cup {op[p].on}
     /\ op' = [op EXCEPT ![p] = Idle]
     /\ UNCHANGED <<proc, next, prev, list, at, locals, fault, ghosts>>

ListStep(p) == Walk(p) \/ Link(p) \/ Tie(p) \/ Skip(p) \/ Close(p) \/ Free(p)

-----------------------------------------------------------------------------
\* process_execute().  The pid is that of the thread still to be created.
CallExec(p, c) ==
  /\ At(p, "user") /\ at[c] = "none"
  /\ \A q \in Pid : at[q] \in {"exec", "create"} => arg[q] # c
  /\ "onechild" \in Assume => Unreaped(p) = {}
  /\ arg' = [arg EXCEPT ![p] = c]
  /\ ret' = [ret EXCEPT ![p] = NoRet]
  /\ Search(p, "exec", p)
  /\ UNCHANGED <<heap, cur, par, val, fault, exited, reaped>>

\* Both semaphores are initialised for every exec.  Without two pages for the
\* copies of the file name the call fails.
ExecInit(p) ==
  /\ Found(p, "exec")
  /\ IF Got(p) \notin Valid THEN Fault ELSE
     /\ proc' = [proc EXCEPT ![p].pexec = 0, ![p].pwait = 0]
     /\ \/ Go(p, "create") /\ UNCHANGED <<locals, fault, ghosts>>
        \/ Return(p, "exec", None, -1, FALSE) /\ UNCHANGED reaped
     /\ UNCHANGED <<next, prev, list, freed>>

\* thread_create(): from here on the child may run.  When it fails, free() is
\* given a pointer into a page of palloc_get_page() and panics.
ExecCreate(p) ==
  /\ At(p, "create")
  /\ \E created \in HasMemory :
       IF ~created THEN Fault ELSE
       /\ at' = [at EXCEPT ![p] = "enlist", ![arg[p]] = "load"]
       /\ UNCHANGED <<heap, op, locals, fault, ghosts>>

\* malloc(), whose result is not looked at, the new struct, and the first half
\* of list_insert().
ExecEnlist(p) ==
  /\ At(p, "enlist")
  /\ \E found \in HasMemory :
       IF ~found THEN Fault ELSE
       /\ \E exec \in {"null"} \cup (IF "zeroed" \in Assume THEN {} ELSE {"junk"}) :
            proc' = [proc EXCEPT ![arg[p]] = NewProc(p, exec)]
       /\ prev' = [prev EXCEPT ![arg[p]] = prev[End]]
       /\ next' = [next EXCEPT ![arg[p]] = End]
       /\ Do(p, "pexec", "link", arg[p], None)
       /\ UNCHANGED <<list, freed, locals, fault, ghosts>>

\* sema_down (&curr_p->sema_pexec)
ExecDown(p) ==
  /\ At(p, "pexec") \/ At(p, "pexecwoken")
  /\ IF p \in freed THEN Fault ELSE
     /\ IF proc[p].pexec = 0
        THEN Go(p, "pexecsleep") /\ UNCHANGED proc
        ELSE Go(p, "execed") /\ proc' = [proc EXCEPT ![p].pexec = @ - 1]
     /\ UNCHANGED <<next, prev, list, freed, locals, fault, ghosts>>

\* A child that has loaded becomes one of children_pids, the struct of one that
\* has not is removed and freed.
ExecReturn(p) ==
  /\ At(p, "execed")
  /\ LET c == arg[p] IN
     IF {c, p} \cap freed # {} THEN Fault
     ELSE IF ~proc[c].loaded
     THEN UnlinkFree(p, "execfailed", c) /\ UNCHANGED <<heap, locals, fault, ghosts>>
     ELSE \E found \in HasMemory :
            IF ~found THEN Fault ELSE
            /\ proc' = [proc EXCEPT ![p].children = Append(@, c)]
            /\ Return(p, "exec", c, 1, FALSE)
            /\ UNCHANGED <<next, prev, list, freed, reaped>>

ExecFailed(p) ==
  /\ At(p, "execfailed")
  /\ Return(p, "exec", arg[p], -1, FALSE)
  /\ UNCHANGED <<heap, reaped>>

-----------------------------------------------------------------------------
\* start_process(): load() has run; the thread looks for its own struct, which
\* the parent should have put on process_list by now,
ChildLoad(c) ==
  /\ At(c, "load")
  /\ Search(c, "loading", c)
  /\ UNCHANGED <<heap, locals, fault, ghosts>>

\* stores whether load() succeeded, and looks for the parent.
ChildFound(c, success) ==
  /\ Found(c, "loading")
  /\ IF Got(c) \notin Valid THEN Fault ELSE
     /\ proc' = [proc EXCEPT ![c].loaded = success]
     /\ Search(c, "signal", proc[c].parent)
     /\ UNCHANGED <<next, prev, list, freed, locals, fault, ghosts>>

Loaded(c) == IF proc[c].loaded THEN "loaded" ELSE "failed"

\* The parent is to be woken only if it sleeps already.
ChildSignal(c) ==
  /\ Found(c, "signal")
  /\ IF Got(c) \notin Valid THEN Fault ELSE
     /\ par' = [par EXCEPT ![c] = Got(c)]
     /\ Go(c, IF at[Got(c)] = "pexecsleep" THEN "signalup" ELSE Loaded(c))
     /\ UNCHANGED <<heap, cur, arg, val, fault, ghosts>>

\* sema_up (&parent_p->sema_pexec)
ChildUp(c) ==
  /\ At(c, "signalup")
  /\ IF par[c] \in freed THEN Fault ELSE
     /\ proc' = [proc EXCEPT ![par[c]].pexec = @ + 1]
     /\ Wake(c, Loaded(c), par[c], "pexecsleep", "pexecwoken")
     /\ UNCHANGED <<next, prev, list, freed, locals, fault, ghosts>>

ChildRun(c) ==
  /\ At(c, "loaded")
  /\ IF c \in freed THEN Fault ELSE
     /\ proc' = [proc EXCEPT ![c].exec = "file"]
     /\ Go(c, "user")
     /\ UNCHANGED <<next, prev, list, freed, locals, fault, ghosts>>

-----------------------------------------------------------------------------
\* sys_exit(): set_exitstatus() searches for the struct and stores the status,
\* thread_exit() calls process_exit().
SysExit(p, status) ==
  /\ val' = [val EXCEPT ![p] = status]
  /\ ret' = [ret EXCEPT ![p] = NoRet]
  /\ Search(p, "setstatus", p)
  /\ UNCHANGED <<heap, cur, par, arg, fault, exited, reaped>>

MayEnd(p) == p # Boot /\ ("reap" \in Assume => Unreaped(p) = {})

ChildFailOne(c) == At(c, "failed") /\ SysExit(c, 1)   \* the status of success

ChildFail(c) == At(c, "failed") /\ SysExit(c, -1)

\* sys_exit() for the exit system call, and what page_fault() does to
\* a process that used an invalid address.
CallExit(p, status) ==
  /\ At(p, "user") /\ MayEnd(p)
  /\ SysExit(p, status)

SetStatus(p) ==
  /\ Found(p, "setstatus")
  /\ IF Got(p) \notin Valid THEN Fault ELSE
     /\ proc' = [proc EXCEPT ![p].status = val[p]]
     /\ exited' = [exited EXCEPT ![p] = val[p]]
     /\ Search(p, "exit", p)
     /\ UNCHANGED <<next, prev, list, freed, locals, fault, reaped, ret>>

\* kill() of exception.c: thread_exit(), and no status is set.
Killed(p) ==
  /\ At(p, "user") /\ MayEnd(p)
  /\ exited' = [exited EXCEPT ![p] = ByKernel]
  /\ ret' = [ret EXCEPT ![p] = NoRet]
  /\ Search(p, "exit", p)
  /\ UNCHANGED <<heap, locals, fault, reaped>>

\* Any other system call that begins with a search for the caller's struct.
CallOther(p) ==
  /\ At(p, "user")
  /\ Search(p, "other", p)
  /\ UNCHANGED <<heap, locals, fault, ghosts>>

OtherFound(p) ==
  /\ Found(p, "other")
  /\ IF Got(p) \notin Valid THEN Fault ELSE
     /\ Go(p, "user")
     /\ UNCHANGED <<heap, locals, fault, ghosts>>

-----------------------------------------------------------------------------
\* process_wait(): its searches, in their order.
CallWait(p, c) ==
  /\ At(p, "user")
  /\ arg' = [arg EXCEPT ![p] = c]
  /\ ret' = [ret EXCEPT ![p] = NoRet]
  /\ Search(p, "wait", p)
  /\ UNCHANGED <<heap, cur, par, val, fault, exited, reaped>>

WaitSelf(p) ==
  /\ Found(p, "wait")
  /\ IF Got(p) \in freed THEN Fault ELSE
     /\ cur' = [cur EXCEPT ![p] = Got(p)]
     /\ Search(p, "waitfind", arg[p])
     /\ UNCHANGED <<heap, par, arg, val, fault, ghosts>>

WaitFind(p) ==
  /\ Found(p, "waitfind")
  /\ IF Got(p) \in freed THEN Fault
     ELSE IF Got(p) = None
     THEN Return(p, "wait", arg[p], -1, TRUE) /\ UNCHANGED <<heap, reaped>>
     ELSE Search(p, "waitparent", arg[p]) /\ UNCHANGED <<heap, locals, fault, ghosts>>

WaitParent(p) ==
  /\ Found(p, "waitparent")
  /\ IF ~ {cur[p], Got(p)} \subseteq Valid THEN Fault
     ELSE IF proc[arg[p]].parent # cur[p]
     THEN Return(p, "wait", arg[p], -1, TRUE) /\ UNCHANGED <<heap, reaped>>
     ELSE Search(p, "waitdead", arg[p]) /\ UNCHANGED <<heap, locals, fault, ghosts>>

WaitDeadAnyway(p) ==   \* is_dead is not looked at
  /\ Found(p, "waitdead")
  /\ IF Got(p) \notin Valid THEN Fault ELSE
     /\ Search(p, "status", arg[p])
     /\ UNCHANGED <<heap, locals, fault, ghosts>>

WaitDead(p) ==
  /\ Found(p, "waitdead")
  /\ IF Got(p) \notin Valid THEN Fault ELSE
     /\ IF proc[arg[p]].dead THEN Search(p, "status", arg[p]) ELSE Go(p, "pwait")
     /\ UNCHANGED <<heap, locals, fault, ghosts>>

\* sema_down (&curr_p->sema_pwait)
WaitDown(p) ==
  /\ At(p, "pwait") \/ At(p, "pwaitwoken")
  /\ IF cur[p] \in freed THEN Fault ELSE
     /\ IF proc[p].pwait = 0
        THEN Go(p, "pwaitsleep") /\ UNCHANGED proc
        ELSE Search(p, "status", arg[p]) /\ proc' = [proc EXCEPT ![p].pwait = @ - 1]
     /\ UNCHANGED <<next, prev, list, freed, locals, fault, ghosts>>

\* get_exitstatus()
WaitStatus(p) ==
  /\ Found(p, "status")
  /\ IF Got(p) \notin Valid THEN Fault ELSE
     /\ val' = [val EXCEPT ![p] = proc[arg[p]].status]
     /\ Search(p, "waitremove", arg[p])
     /\ UNCHANGED <<heap, cur, par, arg, fault, ghosts>>

WaitRemoveForgets(p) ==   \* the struct stays on the list
  /\ Found(p, "waitremove")
  /\ reaped' = reaped \cup {arg[p]}
  /\ Return(p, "wait", arg[p], val[p], FALSE)
  /\ UNCHANGED heap

WaitRemove(p) ==
  /\ Found(p, "waitremove")
  /\ IF Got(p) \notin Valid THEN Fault ELSE
     /\ Unlink(p, "removed", arg[p])
     /\ UNCHANGED <<heap, locals, fault, ghosts>>

WaitRemoved(p) ==
  /\ At(p, "removed")
  /\ Search(p, "waitfree", arg[p])
  /\ UNCHANGED <<heap, locals, fault, ghosts>>

\* free (find_process (child_tid)): the struct is no longer on the list, so
\* that nothing is freed, unless the search still finds it.
WaitFree(p) ==
  /\ Found(p, "waitfree")
  /\ IF Got(p) \in freed THEN Fault ELSE
     /\ freed' = freed \cup ({Got(p)} \ {None})
     /\ reaped' = reaped \cup {arg[p]}
     /\ Return(p, "wait", arg[p], val[p], FALSE)
     /\ UNCHANGED <<proc, next, prev, list>>

-----------------------------------------------------------------------------
\* process_exit(): the process looks for its struct and for its parent, and is
\* dead for its parent and its children.
ExitFound(p) ==
  /\ Found(p, "exit")
  /\ IF Got(p) \notin Valid THEN Fault ELSE
     /\ Search(p, "exitparent", proc[p].parent)
     /\ UNCHANGED <<heap, locals, fault, ghosts>>

ExitMark(p) ==
  /\ Found(p, "exitparent")
  /\ IF {p, Got(p)} \cap freed # {} THEN Fault ELSE
     /\ proc' = [proc EXCEPT ![p].dead = TRUE]
     /\ par' = [par EXCEPT ![p] = Got(p)]
     /\ Go(p, "exitfree")
     /\ UNCHANGED <<next, prev, list, freed, cur, arg, val, fault, ghosts>>

ExitFreeAlways(p) ==   \* also when the parent lives
  /\ At(p, "exitfree")
  /\ IF {p, par[p]} \cap freed # {} THEN Fault ELSE
     /\ UnlinkFree(p, "exitsignal", p)
     /\ UNCHANGED <<heap, locals, fault, ghosts>>

\* Nobody will wait for a process without a living parent: its struct goes.
ExitFree(p) ==
  /\ At(p, "exitfree")
  /\ IF {p, par[p]} \cap freed # {} THEN Fault ELSE
     /\ IF par[p] = None \/ proc[par[p]].dead
        THEN UnlinkFree(p, "exitsignal", p)
        ELSE Go(p, "exitsignal")
     /\ UNCHANGED <<heap, locals, fault, ghosts>>

ExitSignalExec(p) ==   \* looks at the waiters of sema_pexec
  /\ At(p, "exitsignal")
  /\ IF par[p] \notin Valid THEN Fault ELSE
     /\ Go(p, IF at[par[p]] = "pexecsleep" THEN "exitup" ELSE "exitreap")
     /\ UNCHANGED <<heap, locals, fault, ghosts>>

\* A parent that sleeps in process_wait() is to be woken, whomever it waits for.
ExitSignal(p) ==
  /\ At(p, "exitsignal")
  /\ IF par[p] \notin Valid THEN Fault ELSE
     /\ Go(p, IF at[par[p]] = "pwaitsleep" THEN "exitup" ELSE "exitreap")
     /\ UNCHANGED <<heap, locals, fault, ghosts>>

\* sema_up (&parent_p->sema_pwait)
ExitUp(p) ==
  /\ At(p, "exitup")
  /\ IF par[p] \in freed THEN Fault ELSE
     /\ proc' = [proc EXCEPT ![par[p]].pwait = @ + 1]
     /\ Wake(p, "exitreap", par[p], "pwaitsleep", "pwaitwoken")
     /\ UNCHANGED <<next, prev, list, freed, locals, fault, ghosts>>

\* One round of the loop over children_pids: the struct of a child that is
\* dead by now goes, one that lives will find its parent dead.
ExitReap(p) ==
  /\ At(p, "exitreap")
  /\ IF p \in freed THEN Fault ELSE
     /\ IF proc[p].children = <<>> THEN Go(p, "exitclose") /\ UNCHANGED proc
        ELSE /\ Search(p, "exitchild", Head(proc[p].children))
             /\ proc' = [proc EXCEPT ![p].children = Tail(@)]
     /\ UNCHANGED <<next, prev, list, freed, locals, fault, ghosts>>

ExitChild(p) ==
  /\ Found(p, "exitchild")
  /\ LET c == Got(p) IN
     IF c \in freed THEN Fault ELSE
     /\ IF c # None /\ proc[c].dead THEN UnlinkFree(p, "exitreap", c)
                                    ELSE Go(p, "exitreap")
     /\ UNCHANGED <<heap, locals, fault, ghosts>>

\* The open files and the executable are closed through the struct.
ExitClose(p) ==
  /\ At(p, "exitclose")
  /\ IF p \in freed \/ proc[p].exec = "junk" THEN Fault ELSE
     /\ Go(p, "gone")
     /\ UNCHANGED <<heap, locals, fault, ghosts>>

-----------------------------------------------------------------------------
Init ==
  /\ proc = [p \in Pid |-> NewProc(None, "null")]
  /\ next = [x \in Node |-> IF x = First THEN Boot ELSE End]
  /\ prev = [x \in Node |-> IF x = End THEN Boot ELSE First]
  /\ list = {Boot}
  /\ freed = {}
  /\ at = [p \in Pid |-> IF p = Boot THEN "user" ELSE "none"]
  /\ op = [p \in Pid |-> Idle]
  /\ cur = [p \in Pid |-> None] /\ par = [p \in Pid |-> None]
  /\ arg = [p \in Pid |-> None] /\ val = [p \in Pid |-> 0]
  /\ fault = FALSE
  /\ exited = [p \in Pid |-> None]
  /\ reaped = {}
  /\ ret = [p \in Pid |-> NoRet]

Call(p) ==
  \/ \E c \in Pid : CallExec(p, c) \/ CallWait(p, c)
  \/ \E s \in Status : CallExit(p, s)
  \/ Killed(p) \/ CallOther(p)

ExecStep(p)  == ExecInit(p) \/ ExecCreate(p) \/ ExecEnlist(p) \/ ExecDown(p)
                  \/ ExecReturn(p) \/ ExecFailed(p)
ChildStep(p) == \/ ChildLoad(p) \/ ChildSignal(p) \/ ChildUp(p) \/ ChildRun(p)
                \/ ChildFail(p)
                \/ \E success \in BOOLEAN : ChildFound(p, success)
WaitStep(p)  == WaitSelf(p) \/ WaitFind(p) \/ WaitParent(p) \/ WaitDead(p) \/ WaitDown(p)
                  \/ WaitStatus(p) \/ WaitRemove(p) \/ WaitRemoved(p) \/ WaitFree(p)
ExitStep(p)  == SetStatus(p) \/ ExitFound(p) \/ ExitMark(p) \/ ExitFree(p)
                  \/ ExitSignal(p) \/ ExitUp(p) \/ ExitReap(p) \/ ExitChild(p) \/ ExitClose(p)

\* What the kernel does on its own once a call has been made.
Step(p) == \/ ListStep(p) \/ ExecStep(p) \/ ChildStep(p) \/ WaitStep(p)
           \/ ExitStep(p) \/ OtherFound(p)

Next == \E p \in Pid : Call(p) \/ Step(p)

Spec == Init /\ [][Next]_vars

-----------------------------------------------------------------------------
Labels == Exiting \cup
  {"none", "user", "other", "exec", "create", "enlist", "pexec", "pexecsleep",
   "pexecwoken", "execed", "execfailed", "load", "loading", "signal", "signalup",
   "loaded", "failed", "setstatus", "wait", "waitfind", "waitparent", "waitdead",
   "pwait", "pwaitsleep", "pwaitwoken", "status", "waitremove", "removed", "waitfree"}

Values == Status \cup {Junk, -1, 0}

TypeOK ==
  /\ proc \in [Pid -> [parent: Pid \cup {None}, children: Seq(Pid),
                       dead: BOOLEAN, loaded: BOOLEAN, status: Values,
                       exec: {"null", "junk", "file"}, pexec: Nat, pwait: Nat]]
  /\ next \in [Node -> Node] /\ prev \in [Node -> Node]
  /\ list \subseteq Pid /\ freed \subseteq Pid /\ reaped \subseteq Pid
  /\ at \in [Pid -> Labels]
  /\ op \in [Pid -> [do: {"none", "find", "link", "tie", "skip", "close", "free"},
                     on: Node, goal: Pid \cup {None}]]
  /\ cur \in [Pid -> Pid \cup {None}] /\ par \in [Pid -> Pid \cup {None}]
  /\ arg \in [Pid -> Pid \cup {None}] /\ val \in [Pid -> Values]
  /\ fault \in BOOLEAN
  /\ exited \in [Pid -> Values \cup {None, ByKernel}]
  /\ ret \in [Pid -> [op: {"none", "exec", "wait"}, child: Pid \cup {None},
                      value: Values \cup {1}, early: BOOLEAN]]

\* No struct process is used that is not there (NULL) or no longer there, and
\* no assertion of the kernel fails, in a walk of process_list or elsewhere.
NoFault == ~fault

\* process.c on process_wait(): it "waits for thread TID to die and returns
\* its exit status"; for one that is not a child, or was waited for before, it
\* returns -1 at once.
WaitContract ==
  \A p \in Pid : ret[p].op = "wait" =>
    LET c == ret[p].child IN
    IF ret[p].early THEN c \notin Unreaped(p)
                    ELSE at[c] \in Exiting /\ exited[c] \in {ret[p].value, ByKernel}

\* "... or if process_wait() has already been successfully called for the given
\* TID, returns -1 immediately": the status of a child is delivered once.
WaitOnce ==
  [][\A p \in Pid :
       ret'[p] # ret[p] /\ ret'[p].op = "wait" /\ ~ret'[p].early
         => ret'[p].child \in reaped' \ reaped]_vars

\* process_execute() returns once the child has loaded, or has failed to, and
\* returns its tid exactly if it has loaded; without a child it returns -1.
ExecContract ==
  \A p \in Pid : ret[p].op = "exec" =>
    LET c == ret[p].child IN
    IF c = None THEN ret[p].value = -1
    ELSE /\ at[c] \notin {"none", "load", "loading"}
         /\ ret[p].value = 1 <=> proc[c].loaded

\* Both calls.
CallsContract == WaitContract /\ ExecContract

\* A parent that sleeps has the sema_up() of the child it waits for still to
\* come, and one that was woken finds the unit: no wakeup is lost, and the
\* parent does not sleep for ever.
Over == {"exitreap", "exitchild", "exitclose", "gone"}

NoWakeupLost ==
  \A p \in Pid :
    /\ at[p] = "pexecsleep" => at[arg[p]] \in {"load", "loading", "signal", "signalup"}
    /\ at[p] = "pwaitsleep" => at[arg[p]] \notin Over
    /\ at[p] = "pexecwoken" => proc[p].pexec > 0
    /\ at[p] = "pwaitwoken" => proc[p].pwait > 0
=============================================================================
