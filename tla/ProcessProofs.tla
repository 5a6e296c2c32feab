---------------------------- MODULE ProcessProofs ---------------------------
(***************************************************************************)
(* exec, wait and exit, for any set of pids and any tree of processes.     *)
(*                                                                         *)
(* The types hold whatever the timer and the programs do.  The other       *)
(* results need the conditions of Process, all of them (Careful).  Under   *)
(* them CallInv says how far a parent and its child can be apart, one      *)
(* process at a time, and Linked that process_list is one chain, from the  *)
(* pointers of which every half-made insertion and removal can be read     *)
(* off; it follows (Arrival) that a search finds a struct exactly if it is *)
(* on the list.                                                            *)
(*                                                                         *)
(* Most steps move one thread and store to its own struct only: Kept says  *)
(* that what is known of the others survives them, and each action then    *)
(* shows what is known of its own thread.                                  *)
(***************************************************************************)
EXTENDS Process, SequenceTheorems, TLAPS

Struct ==
  [parent: Pid \cup {None}, children: Seq(Pid), dead: BOOLEAN, loaded: BOOLEAN,
   status: Values, exec: {"null", "junk", "file"}, pexec: Nat, pwait: Nat]

Result == [op: {"none", "exec", "wait"}, child: Pid \cup {None},
           value: Values \cup {1}, early: BOOLEAN]

Doing    == {"none", "find", "link", "tie", "skip", "close", "free"}
Changing == {"link", "tie", "skip", "close", "free"}
Op       == [do: Doing, on: Node, goal: Pid \cup {None}]

Early == {"exec", "create", "enlist"}
Late  == {"pexec", "pexecsleep", "pexecwoken", "execed", "execfailed"}
Looks == {"wait", "waitfind", "waitparent", "waitdead"}
Waits == {"pwait", "pwaitsleep", "pwaitwoken", "status", "waitremove", "removed", "waitfree"}

\* A call in progress has its child, and a change of the list its struct.
ProcessTypeInv ==
  /\ proc \in [Pid -> Struct]
  /\ next \in [Node -> Node] /\ prev \in [Node -> Node]
  /\ list \subseteq Pid /\ freed \subseteq Pid /\ reaped \subseteq Pid
  /\ at \in [Pid -> Labels] /\ op \in [Pid -> Op]
  /\ cur \in [Pid -> Pid \cup {None}] /\ par \in [Pid -> Pid \cup {None}]
  /\ arg \in [Pid -> Pid \cup {None}] /\ val \in [Pid -> Values]
  /\ fault \in BOOLEAN
  /\ exited \in [Pid -> Values \cup {None, ByKernel}]
  /\ ret \in [Pid -> Result]
  /\ \A p \in Pid : /\ at[p] \in Early \cup Late \cup Looks \cup Waits => arg[p] \in Pid
                    /\ op[p].do \in Changing => op[p].on \in Pid

-----------------------------------------------------------------------------
\* A store to one field of a struct leaves it a struct.
LEMMA FieldTypes ==
  ASSUME NEW f \in [Pid -> Struct], NEW p
  PROVE  /\ \A v \in BOOLEAN : [f EXCEPT ![p].loaded = v] \in [Pid -> Struct]
         /\ \A v \in BOOLEAN : [f EXCEPT ![p].dead = v] \in [Pid -> Struct]
         /\ \A v \in Values : [f EXCEPT ![p].status = v] \in [Pid -> Struct]
         /\ \A v \in {"null", "junk", "file"} : [f EXCEPT ![p].exec = v] \in [Pid -> Struct]
         /\ \A v \in Nat : [f EXCEPT ![p].pexec = v] \in [Pid -> Struct]
         /\ \A v \in Nat : [f EXCEPT ![p].pwait = v] \in [Pid -> Struct]
         /\ \A v \in Seq(Pid) : [f EXCEPT ![p].children = v] \in [Pid -> Struct]
         /\ \A v \in Struct : [f EXCEPT ![p] = v] \in [Pid -> Struct]
<1>0. \A v \in Struct : [f EXCEPT ![p] = v] \in [Pid -> Struct] OBVIOUS
<1>1. ASSUME p \notin Pid
      PROVE  \A v : [f EXCEPT ![p] = v] = f
  BY <1>1
<1>2. CASE p \notin Pid
  BY <1>1, <1>2
<1>3. CASE p \in Pid
  <2> f[p] \in Struct BY <1>3
  <2>1. \A v \in BOOLEAN : [f[p] EXCEPT !.loaded = v] \in Struct BY DEF Struct
  <2>2. \A v \in BOOLEAN : [f[p] EXCEPT !.dead = v] \in Struct BY DEF Struct
  <2>3. \A v \in Values : [f[p] EXCEPT !.status = v] \in Struct BY DEF Struct
  <2>4. \A v \in {"null", "junk", "file"} : [f[p] EXCEPT !.exec = v] \in Struct BY DEF Struct
  <2>5. \A v \in Nat : [f[p] EXCEPT !.pexec = v] \in Struct BY DEF Struct
  <2>6. \A v \in Nat : [f[p] EXCEPT !.pwait = v] \in Struct BY DEF Struct
  <2>7. \A v \in Seq(Pid) : [f[p] EXCEPT !.children = v] \in Struct BY DEF Struct
  <2> HIDE DEF Struct
  <2> QED BY <1>0, <2>1, <2>2, <2>3, <2>4, <2>5, <2>6, <2>7
<1> QED BY <1>2, <1>3

\* What Do and Return do to the thread that moves, and to no other.
LEMMA DoEffect ==
  ASSUME ProcessTypeInv, NEW p \in Pid, NEW label \in Labels, NEW do \in Doing,
         NEW on \in Node, NEW goal \in Pid \cup {None}, Do(p, label, do, on, goal)
  PROVE  /\ at' \in [Pid -> Labels] /\ op' \in [Pid -> Op]
         /\ at'[p] = label
         /\ op'[p].do = do /\ op'[p].on = on /\ op'[p].goal = goal
         /\ \A q \in Pid \ {p} : at'[q] = at[q] /\ op'[q] = op[q]
<1>0. at \in [Pid -> Labels] /\ op \in [Pid -> Op]
  BY DEF ProcessTypeInv
<1>1. [do |-> do, on |-> on, goal |-> goal] \in Op
  BY DEF Op
<1>2. /\ at' = [at EXCEPT ![p] = label]
      /\ op' = [op EXCEPT ![p] = [do |-> do, on |-> on, goal |-> goal]]
  BY DEF Do
<1>3. op'[p] = [do |-> do, on |-> on, goal |-> goal]
  BY <1>0, <1>2
<1> HIDE DEF Op, Labels
<1> QED
  BY <1>0, <1>1, <1>2, <1>3

LEMMA ReturnEffect ==
  ASSUME ProcessTypeInv, NEW p \in Pid, NEW call, NEW child, NEW value, NEW early,
         [op |-> call, child |-> child, value |-> value, early |-> early] \in Result,
         Return(p, call, child, value, early)
  PROVE  /\ at' \in [Pid -> Labels] /\ op' \in [Pid -> Op]
         /\ ret' \in [Pid -> Result] /\ arg' \in [Pid -> Pid \cup {None}]
         /\ cur' \in [Pid -> Pid \cup {None}] /\ val' \in [Pid -> Values]
         /\ at'[p] = "user" /\ op'[p].do = "none"
         /\ arg'[p] = None /\ cur'[p] = None
         /\ ret'[p] = [op |-> call, child |-> child, value |-> value, early |-> early]
         /\ \A q \in Pid \ {p} :
              /\ at'[q] = at[q] /\ op'[q] = op[q] /\ arg'[q] = arg[q] /\ cur'[q] = cur[q]
              /\ val'[q] = val[q] /\ ret'[q] = ret[q]
         /\ UNCHANGED <<par, fault, exited>>
<1>1. "user" \in Labels /\ "none" \in Doing /\ End \in Node /\ None \in Pid \cup {None}
  BY DEF Labels, Doing, Node
<1>2. Do(p, "user", "none", End, None)
  BY DEF Return, Go
<1>3. /\ at' \in [Pid -> Labels] /\ op' \in [Pid -> Op] /\ at'[p] = "user"
      /\ op'[p].do = "none" /\ \A q \in Pid \ {p} : at'[q] = at[q] /\ op'[q] = op[q]
  BY <1>1, <1>2, DoEffect
<1>4. /\ ret \in [Pid -> Result] /\ arg \in [Pid -> Pid \cup {None}]
      /\ cur \in [Pid -> Pid \cup {None}] /\ val \in [Pid -> Values]
  BY DEF ProcessTypeInv
<1>6. 0 \in Values
  BY DEF Values
<1>7. /\ ret' = [ret EXCEPT ![p] = [op |-> call, child |-> child, value |-> value, early |-> early]]
      /\ arg' = [arg EXCEPT ![p] = None] /\ cur' = [cur EXCEPT ![p] = None]
      /\ val' = [val EXCEPT ![p] = 0] /\ UNCHANGED <<par, fault, exited>>
  BY DEF Return
<1> HIDE DEF Result, Values, Labels, Op
<1> QED
  BY <1>3, <1>4, <1>6, <1>7

LEMMA FaultTypes ==
  ASSUME ProcessTypeInv, Fault
  PROVE  ProcessTypeInv'
BY DEF ProcessTypeInv, Fault, heap, locals, ghosts

Calling == Early \cup Late \cup Looks \cup Waits

\* A step that moves p by Do keeps the types if its stores do, and if the call
\* that p is in has its child.
LEMMA DoTypes ==
  ASSUME ProcessTypeInv, NEW p \in Pid, NEW label \in Labels, NEW do \in Doing,
         NEW on \in Node, NEW goal \in Pid \cup {None}, Do(p, label, do, on, goal),
         do \in Changing => on \in Pid,
         arg' \in [Pid -> Pid \cup {None}], \A q \in Pid \ {p} : arg'[q] = arg[q],
         label \in Calling => arg'[p] \in Pid,
         proc' \in [Pid -> Struct], next' \in [Node -> Node], prev' \in [Node -> Node],
         list' \subseteq Pid, freed' \subseteq Pid, reaped' \subseteq Pid,
         cur' \in [Pid -> Pid \cup {None}], par' \in [Pid -> Pid \cup {None}],
         val' \in [Pid -> Values], fault' \in BOOLEAN,
         exited' \in [Pid -> Values \cup {None, ByKernel}], ret' \in [Pid -> Result]
  PROVE  ProcessTypeInv'
<1>1. /\ at' \in [Pid -> Labels] /\ op' \in [Pid -> Op] /\ at'[p] = label
      /\ op'[p].do = do /\ op'[p].on = on
      /\ \A q \in Pid \ {p} : at'[q] = at[q] /\ op'[q] = op[q]
  BY DoEffect
<1>2. \A q \in Pid : /\ at'[q] \in Calling => arg'[q] \in Pid
                     /\ op'[q].do \in Changing => op'[q].on \in Pid
  <2> TAKE q \in Pid
  <2>1. CASE q = p BY <1>1, <2>1
  <2>2. CASE q # p
    <3>1. /\ at[q] \in Calling => arg[q] \in Pid
          /\ op[q].do \in Changing => op[q].on \in Pid
      BY DEF ProcessTypeInv, Calling
    <3> QED BY <1>1, <2>2, <3>1
  <2> QED BY <2>1, <2>2
<1> HIDE DEF Result, Values, Labels, Op, Struct, Node, Changing
<1> QED
  BY <1>1, <1>2 DEF ProcessTypeInv, Calling

\* Nothing but the thread moves.
LEMMA MoveTypes ==
  ASSUME ProcessTypeInv, NEW p \in Pid, NEW label \in Labels, NEW do \in Doing,
         NEW on \in Node, NEW goal \in Pid \cup {None}, Do(p, label, do, on, goal),
         do \in Changing => on \in Pid,
         label \in Calling => arg[p] \in Pid,
         UNCHANGED <<heap, locals, fault, ghosts>>
  PROVE  ProcessTypeInv'
<1>1. /\ arg' \in [Pid -> Pid \cup {None}] /\ \A q \in Pid : arg'[q] = arg[q]
      /\ proc' \in [Pid -> Struct] /\ next' \in [Node -> Node] /\ prev' \in [Node -> Node]
      /\ list' \subseteq Pid /\ freed' \subseteq Pid /\ reaped' \subseteq Pid
      /\ cur' \in [Pid -> Pid \cup {None}] /\ par' \in [Pid -> Pid \cup {None}]
      /\ val' \in [Pid -> Values] /\ fault' \in BOOLEAN
      /\ exited' \in [Pid -> Values \cup {None, ByKernel}] /\ ret' \in [Pid -> Result]
  BY DEF ProcessTypeInv, heap, locals, ghosts
<1> QED
  BY <1>1, DoTypes

\* A call returns.
LEMMA ReturnTypes ==
  ASSUME ProcessTypeInv, NEW p \in Pid, NEW call, NEW child, NEW value, NEW early,
         [op |-> call, child |-> child, value |-> value, early |-> early] \in Result,
         Return(p, call, child, value, early),
         proc' \in [Pid -> Struct], UNCHANGED <<next, prev, list>>,
         freed' \subseteq Pid, reaped' \subseteq Pid
  PROVE  ProcessTypeInv'
<1>1. /\ at' \in [Pid -> Labels] /\ op' \in [Pid -> Op]
      /\ ret' \in [Pid -> Result] /\ arg' \in [Pid -> Pid \cup {None}]
      /\ cur' \in [Pid -> Pid \cup {None}] /\ val' \in [Pid -> Values]
      /\ at'[p] = "user" /\ op'[p].do = "none"
      /\ \A q \in Pid \ {p} : at'[q] = at[q] /\ op'[q] = op[q] /\ arg'[q] = arg[q]
      /\ UNCHANGED <<par, fault, exited>>
  BY ReturnEffect
<1>2. "user" \notin Calling /\ "none" \notin Changing
  BY DEF Calling, Changing, Early, Late, Looks, Waits
<1>3. \A q \in Pid : /\ at'[q] \in Calling => arg'[q] \in Pid
                     /\ op'[q].do \in Changing => op'[q].on \in Pid
  BY <1>1, <1>2 DEF ProcessTypeInv, Calling
<1> HIDE DEF Result, Values, Labels, Op, Struct, Node, Changing
<1> QED
  BY <1>1, <1>3 DEF ProcessTypeInv, Calling

\* What an arrived search returns.
LEMMA GotTypes ==
  ASSUME ProcessTypeInv, NEW p \in Pid, NEW label, Found(p, label)
  PROVE  Got(p) \in Pid \cup {None}
<1>1. op[p] \in Op
  BY DEF ProcessTypeInv
<1> QED
  BY <1>1, ProcessAssumption DEF Found, Got, Op

LEMMA WakeTypes ==
  ASSUME ProcessTypeInv, NEW p \in Pid, NEW label \in Labels \ Calling, NEW q,
         NEW asleep \in Calling, NEW woken \in Labels, Wake(p, label, q, asleep, woken),
         proc' \in [Pid -> Struct],
         UNCHANGED <<next, prev, list, freed, locals, fault, ghosts>>
  PROVE  ProcessTypeInv'
<1>1. /\ at' = [at EXCEPT ![p] = label, ![q] = IF @ = asleep THEN woken ELSE @]
      /\ UNCHANGED <<op, arg>>
  BY DEF Wake, locals
<1>2. at \in [Pid -> Labels]
  BY DEF ProcessTypeInv
<1> HIDE DEF Labels
<1>3. at' \in [Pid -> Labels]
  BY <1>1, <1>2
<1>4. \A x \in Pid : at'[x] \in Calling => at[x] \in Calling
  BY <1>1, <1>2
<1>5. \A x \in Pid : at[x] \in Calling => arg[x] \in Pid
  BY DEF ProcessTypeInv, Calling
<1>6. \A x \in Pid : at'[x] \in Calling => arg'[x] \in Pid
  BY <1>1, <1>4, <1>5
<1> HIDE DEF Result, Values, Op, Struct, Node, Changing
<1> QED
  BY <1>1, <1>3, <1>6 DEF ProcessTypeInv, Calling, locals, ghosts

-----------------------------------------------------------------------------
\* The types after each step, whatever has happened before.
LEMMA Names ==
  /\ {"user", "other", "exec", "create", "pexec", "pexecsleep", "execed",
      "execfailed", "loading", "signal", "signalup", "loaded", "failed",
      "setstatus", "exit", "exitparent", "exitfree", "exitsignal", "exitup",
      "exitreap", "exitchild", "exitclose", "gone", "wait", "waitfind",
      "waitparent", "waitdead", "pwait", "pwaitsleep", "status", "waitremove",
      "removed", "waitfree", "pexecwoken", "pwaitwoken", "enlist", "load"} \subseteq Labels
  /\ {"user", "other", "loading", "signal", "signalup", "loaded", "failed",
      "setstatus", "exit", "exitparent", "exitfree", "exitsignal", "exitup",
      "exitreap", "exitchild", "exitclose", "gone", "load"} \cap Calling = {}
  /\ "find" \in Doing \ Changing /\ "none" \in Doing \ Changing
  /\ First \in Node /\ End \in Node /\ Pid \subseteq Node
  /\ NoRet \in Result
  /\ {-1, 0} \subseteq Values /\ Status \subseteq Values
BY DEF Labels, Exiting, Calling, Early, Late, Looks, Waits, Doing, Changing, Node, NoRet,
       Result, Values

LEMMA SearchTypes ==
  ASSUME ProcessTypeInv, NEW p \in Pid, NEW label \in Labels,
         NEW goal \in Pid \cup {None}, Search(p, label, goal),
         label \in Calling => arg[p] \in Pid,
         UNCHANGED <<heap, locals, fault, ghosts>>
  PROVE  ProcessTypeInv'
<1>1. Do(p, label, "find", First, goal)
  BY DEF Search
<1> QED
  BY <1>1, Names, MoveTypes

LEMMA GoTypes ==
  ASSUME ProcessTypeInv, NEW p \in Pid, NEW label \in Labels, Go(p, label),
         label \in Calling => arg[p] \in Pid,
         UNCHANGED <<heap, locals, fault, ghosts>>
  PROVE  ProcessTypeInv'
<1>1. Do(p, label, "none", End, None)
  BY DEF Go
<1> QED
  BY <1>1, Names, MoveTypes

\* A step that stores to structs and moves its thread.
LEMMA StoreTypes ==
  ASSUME ProcessTypeInv, NEW p \in Pid, NEW label \in Labels,
         NEW goal \in Pid \cup {None},
         Search(p, label, goal) \/ Go(p, label),
         label \in Calling => arg[p] \in Pid,
         proc' \in [Pid -> Struct],
         UNCHANGED <<next, prev, list, freed, locals, fault, reaped, ret>>,
         exited' \in [Pid -> Values \cup {None, ByKernel}]
  PROVE  ProcessTypeInv'
<1>1. Do(p, label, "find", First, goal) \/ Do(p, label, "none", End, None)
  BY DEF Search, Go
<1>2. /\ arg' \in [Pid -> Pid \cup {None}] /\ \A q \in Pid : arg'[q] = arg[q]
      /\ next' \in [Node -> Node] /\ prev' \in [Node -> Node]
      /\ list' \subseteq Pid /\ freed' \subseteq Pid /\ reaped' \subseteq Pid
      /\ cur' \in [Pid -> Pid \cup {None}] /\ par' \in [Pid -> Pid \cup {None}]
      /\ val' \in [Pid -> Values] /\ fault' \in BOOLEAN /\ ret' \in [Pid -> Result]
  BY DEF ProcessTypeInv, locals
<1>3. None \in Pid \cup {None}
  OBVIOUS
<1>4. CASE Do(p, label, "find", First, goal)
  BY <1>2, <1>4, Names, DoTypes
<1>5. CASE Do(p, label, "none", End, None)
  BY <1>2, <1>3, <1>5, Names, DoTypes
<1> QED
  BY <1>1, <1>4, <1>5

\* So does one that changes what the call works on.
LEMMA LocalTypes ==
  ASSUME ProcessTypeInv, NEW p \in Pid, NEW label \in Labels,
         NEW goal \in Pid \cup {None},
         Search(p, label, goal) \/ Go(p, label),
         label \in Calling => arg'[p] \in Pid,
         arg' \in [Pid -> Pid \cup {None}], \A q \in Pid \ {p} : arg'[q] = arg[q],
         UNCHANGED <<next, prev, list, freed, fault, reaped>>, proc' \in [Pid -> Struct],
         cur' \in [Pid -> Pid \cup {None}], par' \in [Pid -> Pid \cup {None}],
         val' \in [Pid -> Values],
         exited' \in [Pid -> Values \cup {None, ByKernel}], ret' \in [Pid -> Result]
  PROVE  ProcessTypeInv'
<1>1. Do(p, label, "find", First, goal) \/ Do(p, label, "none", End, None)
  BY DEF Search, Go
<1>2. /\ next' \in [Node -> Node] /\ prev' \in [Node -> Node]
      /\ list' \subseteq Pid /\ freed' \subseteq Pid /\ reaped' \subseteq Pid
      /\ fault' \in BOOLEAN
  BY DEF ProcessTypeInv
<1>3. None \in Pid \cup {None}
  OBVIOUS
<1>4. CASE Do(p, label, "find", First, goal)
  BY <1>2, <1>4, Names, DoTypes
<1>5. CASE Do(p, label, "none", End, None)
  BY <1>2, <1>3, <1>5, Names, DoTypes
<1> QED
  BY <1>1, <1>4, <1>5

LEMMA ListTypes ==
  ASSUME ProcessTypeInv, NEW p \in Pid, ListStep(p)
  PROVE  ProcessTypeInv'
<1>0. /\ op \in [Pid -> Op] /\ op[p] \in Op /\ next \in [Node -> Node] /\ prev \in [Node -> Node]
      /\ list \subseteq Pid /\ freed \subseteq Pid
      /\ op[p].do \in Changing => op[p].on \in Pid
      /\ \A q \in Pid : op[q].do \in Changing => op[q].on \in Pid
  BY DEF ProcessTypeInv
<1>1. ASSUME op' \in [Pid -> Op], next' \in [Node -> Node], prev' \in [Node -> Node],
             list' \subseteq Pid, freed' \subseteq Pid,
             \A q \in Pid : op'[q].do \in Changing => op'[q].on \in Pid,
             UNCHANGED <<proc, at, locals, fault, ghosts>>
      PROVE  ProcessTypeInv'
  <2> HIDE DEF Result, Values, Labels, Op, Struct, Node, Changing
  <2> QED BY <1>1 DEF ProcessTypeInv, locals, ghosts
<1>2. ASSUME NEW v \in Op, op' = [op EXCEPT ![p] = v], v.do \in Changing => v.on \in Pid
      PROVE  op' \in [Pid -> Op] /\ \A q \in Pid : op'[q].do \in Changing => op'[q].on \in Pid
  <2> HIDE DEF Op, Changing
  <2> QED BY <1>0, <1>2
<1>3. /\ op[p].do \in Doing /\ op[p].on \in Node /\ op[p].goal \in Pid \cup {None}
      /\ op[p] = [do |-> op[p].do, on |-> op[p].on, goal |-> op[p].goal]
  BY <1>0 DEF Op
<1>4. \A v \in Node : [op[p] EXCEPT !.on = v] \in Op /\ [op[p] EXCEPT !.on = v].do = op[p].do
  BY <1>3 DEF Op
<1>5. \A v \in Doing : /\ [op[p] EXCEPT !.do = v] \in Op
                       /\ [op[p] EXCEPT !.do = v].do = v /\ [op[p] EXCEPT !.do = v].on = op[p].on
  BY <1>3 DEF Op
<1>6. Idle \in Op /\ Idle.do = "none"
  BY DEF Idle, Op, Doing, Node
<1>7. {"link", "tie", "skip", "close", "free"} \subseteq Changing /\ "none" \notin Changing
      /\ "find" \notin Changing /\ Changing \subseteq Doing
  BY DEF Changing, Doing
<1>w. CASE Walk(p)
  <2>1. CASE Fault BY <2>1, FaultTypes
  <2>2. CASE op' = [op EXCEPT ![p].on = next[@]] /\ UNCHANGED <<heap, at, locals, fault, ghosts>>
    <3>1. op' = [op EXCEPT ![p] = [op[p] EXCEPT !.on = next[op[p].on]]] /\ next[op[p].on] \in Node
      BY <1>0, <1>3, <2>2
    <3>2. op[p].do = "find" BY <1>w DEF Walk
    <3>3. op' \in [Pid -> Op] /\ \A q \in Pid : op'[q].do \in Changing => op'[q].on \in Pid
      BY <1>2, <1>4, <1>7, <3>1, <3>2
    <3> QED BY <1>0, <1>1, <2>2, <3>3 DEF heap
  <2> QED BY <1>w, <2>1, <2>2 DEF Walk
<1>l. CASE Link(p)
  <2>1. CASE Fault BY <2>1, FaultTypes
  <2>2. CASE ~Fault
    <3>1. /\ next' = [next EXCEPT ![prev[End]] = op[p].on] /\ list' = list \cup {op[p].on}
          /\ op' = [op EXCEPT ![p] = [op[p] EXCEPT !.do = "tie"]] /\ op[p].do = "link"
          /\ UNCHANGED <<proc, prev, freed, at, locals, fault, ghosts>>
      BY <2>2, <1>l, <1>0 DEF Link
    <3>2. op' \in [Pid -> Op] /\ \A q \in Pid : op'[q].do \in Changing => op'[q].on \in Pid
      BY <1>0, <1>2, <1>5, <1>7, <3>1
    <3>3. next' \in [Node -> Node]
      BY <1>0, <1>3, <3>1
    <3> QED BY <1>0, <1>1, <1>7, <3>1, <3>2, <3>3
  <2> QED BY <2>1, <2>2
<1>t. CASE Tie(p)
  <2>1. /\ prev' = [prev EXCEPT ![End] = op[p].on]
        /\ op' = [op EXCEPT ![p] = Idle]
        /\ UNCHANGED <<proc, next, list, freed, at, locals, fault, ghosts>>
    BY <1>t DEF Tie
  <2>2. op' \in [Pid -> Op] /\ \A q \in Pid : op'[q].do \in Changing => op'[q].on \in Pid
    BY <1>2, <1>6, <1>7, <2>1
  <2>3. prev' \in [Node -> Node]
    BY <1>0, <1>3, <2>1
  <2> QED BY <1>0, <1>1, <2>1, <2>2, <2>3
<1>s. CASE Skip(p)
  <2>1. CASE Fault BY <2>1, FaultTypes
  <2>2. CASE ~Fault
    <3>1. /\ next' = [next EXCEPT ![prev[op[p].on]] = next[op[p].on]] /\ list' = list \ {op[p].on}
          /\ op' = [op EXCEPT ![p] = [op[p] EXCEPT !.do = "close"]] /\ op[p].do = "skip"
          /\ UNCHANGED <<proc, prev, freed, at, locals, fault, ghosts>>
      BY <2>2, <1>s, <1>0 DEF Skip
    <3>2. op' \in [Pid -> Op] /\ \A q \in Pid : op'[q].do \in Changing => op'[q].on \in Pid
      BY <1>0, <1>2, <1>5, <1>7, <3>1
    <3>3. next' \in [Node -> Node]
      BY <1>0, <1>3, <3>1
    <3> QED BY <1>0, <1>1, <1>7, <3>1, <3>2, <3>3
  <2> QED BY <2>1, <2>2
<1>c. CASE Close(p)
  <2>1. CASE Fault BY <2>1, FaultTypes
  <2>2. CASE ~Fault
    <3>1. /\ prev' = [prev EXCEPT ![next[op[p].on]] = prev[op[p].on]]
          /\ op' = [op EXCEPT ![p] = IF op[p].goal = None THEN Idle ELSE [op[p] EXCEPT !.do = "free"]]
          /\ op[p].do = "close"
          /\ UNCHANGED <<proc, next, list, freed, at, locals, fault, ghosts>>
      BY <2>2, <1>c, <1>0 DEF Close
    <3>2. op' \in [Pid -> Op] /\ \A q \in Pid : op'[q].do \in Changing => op'[q].on \in Pid
      <4>1. CASE op[p].goal = None BY <1>2, <1>6, <1>7, <3>1, <4>1
      <4>2. CASE op[p].goal # None BY <1>0, <1>2, <1>5, <1>7, <3>1, <4>2
      <4> QED BY <4>1, <4>2
    <3>3. prev' \in [Node -> Node]
      BY <1>0, <1>3, <3>1
    <3> QED BY <1>0, <1>1, <1>7, <3>1, <3>2, <3>3
  <2> QED BY <2>1, <2>2
<1>f. CASE Free(p)
  <2>1. CASE Fault BY <2>1, FaultTypes
  <2>2. CASE ~Fault
    <3>1. /\ freed' = freed \cup {op[p].on} /\ op[p].do = "free"
          /\ op' = [op EXCEPT ![p] = Idle]
          /\ UNCHANGED <<proc, next, prev, list, at, locals, fault, ghosts>>
      BY <2>2, <1>f, <1>0 DEF Free
    <3>2. op' \in [Pid -> Op] /\ \A q \in Pid : op'[q].do \in Changing => op'[q].on \in Pid
      BY <1>2, <1>6, <1>7, <3>1
    <3> QED BY <1>0, <1>1, <1>7, <3>1, <3>2
  <2> QED BY <2>1, <2>2
<1> QED
  BY <1>w, <1>l, <1>t, <1>s, <1>c, <1>f DEF ListStep

LEMMA ExecTypes ==
  ASSUME ProcessTypeInv, NEW p \in Pid,
         ExecStep(p) \/ \E c \in Pid : CallExec(p, c)
  PROVE  ProcessTypeInv'
<1>0. /\ proc \in [Pid -> Struct] /\ arg \in [Pid -> Pid \cup {None}]
      /\ next \in [Node -> Node] /\ prev \in [Node -> Node]
      /\ list \subseteq Pid /\ freed \subseteq Pid /\ reaped \subseteq Pid
      /\ ret \in [Pid -> Result] /\ exited \in [Pid -> Values \cup {None, ByKernel}]
      /\ cur \in [Pid -> Pid \cup {None}] /\ par \in [Pid -> Pid \cup {None}]
      /\ val \in [Pid -> Values] /\ fault \in BOOLEAN /\ at \in [Pid -> Labels]
      /\ \A q \in Pid : at[q] \in Calling => arg[q] \in Pid
      /\ \A q \in Pid : op[q].do \in Changing => op[q].on \in Pid
  BY DEF ProcessTypeInv, Calling
<1> HIDE DEF Result, Values, Labels, Op, Node, Changing
<1>f. CASE Fault BY <1>f, FaultTypes
<1>1. ASSUME NEW c \in Pid, CallExec(p, c) PROVE ProcessTypeInv'
  <2>1. /\ arg' = [arg EXCEPT ![p] = c] /\ ret' = [ret EXCEPT ![p] = NoRet]
        /\ Search(p, "exec", p)
        /\ UNCHANGED <<heap, cur, par, val, fault, exited, reaped>>
    BY <1>1 DEF CallExec
  <2>2. /\ arg' \in [Pid -> Pid \cup {None}] /\ \A q \in Pid \ {p} : arg'[q] = arg[q]
        /\ arg'[p] \in Pid /\ ret' \in [Pid -> Result]
    BY <1>0, <2>1, Names
  <2>3. UNCHANGED <<proc, next, prev, list, freed, fault, reaped, cur, par, val, exited>>
    BY <2>1 DEF heap
  <2>4. /\ proc' \in [Pid -> Struct] /\ cur' \in [Pid -> Pid \cup {None}]
        /\ par' \in [Pid -> Pid \cup {None}] /\ val' \in [Pid -> Values]
        /\ exited' \in [Pid -> Values \cup {None, ByKernel}]
    BY <1>0, <2>3
  <2> QED BY <2>1, <2>2, <2>3, <2>4, Names, LocalTypes
<1>2. CASE ExecInit(p) /\ ~Fault
  <2>1. proc' \in [Pid -> Struct]
    <3>1. proc' = [proc EXCEPT ![p].pexec = 0, ![p].pwait = 0]
      BY <1>2 DEF ExecInit
    <3>2. proc' = [[proc EXCEPT ![p].pexec = 0] EXCEPT ![p].pwait = 0]
      BY <1>0, <3>1
    <3>3. [proc EXCEPT ![p].pexec = 0] \in [Pid -> Struct]
      BY <1>0, FieldTypes
    <3> QED BY <3>2, <3>3, FieldTypes
  <2>2. CASE Go(p, "create") /\ UNCHANGED <<locals, fault, ghosts>>
    <3>1. at[p] \in Calling /\ UNCHANGED <<next, prev, list, freed>>
      BY <1>2 DEF ExecInit, Found, Calling, Early
    <3>2. UNCHANGED <<reaped, ret, exited>>
      BY <2>2 DEF ghosts
    <3> QED BY <1>0, <2>1, <2>2, <3>1, <3>2, Names, StoreTypes
  <2>3. CASE Return(p, "exec", None, -1, FALSE) /\ UNCHANGED reaped
    <3>1. UNCHANGED <<next, prev, list, freed>>
      BY <1>2 DEF ExecInit
    <3>2. [op |-> "exec", child |-> None, value |-> -1, early |-> FALSE] \in Result
      BY Names DEF Result
    <3> QED BY <1>0, <2>1, <2>3, <3>1, <3>2, ReturnTypes
  <2> QED BY <1>2, <2>2, <2>3 DEF ExecInit
<1>3. CASE ExecCreate(p) /\ ~Fault
  <2>1. /\ at' = [at EXCEPT ![p] = "enlist", ![arg[p]] = "load"]
        /\ UNCHANGED <<heap, op, locals, fault, ghosts>> /\ at[p] = "create"
    BY <1>3 DEF ExecCreate, At
  <2>2. "create" \in Calling /\ "load" \notin Calling
    BY DEF Calling, Early, Late, Looks, Waits
  <2>3. at' \in [Pid -> Labels]
    BY <1>0, <2>1, Names
  <2>4. \A q \in Pid : at'[q] \in Calling => at[q] \in Calling
    BY <1>0, <2>1, <2>2
  <2> QED BY <1>0, <2>1, <2>3, <2>4 DEF ProcessTypeInv, heap, locals, ghosts, Calling
<1>4. CASE ExecEnlist(p) /\ ~Fault
  <2>1. PICK exec \in {"null", "junk"} : proc' = [proc EXCEPT ![arg[p]] = NewProc(p, exec)]
    BY <1>4 DEF ExecEnlist
  <2>2. /\ prev' = [prev EXCEPT ![arg[p]] = prev[End]] /\ next' = [next EXCEPT ![arg[p]] = End]
        /\ Do(p, "pexec", "link", arg[p], None) /\ at[p] = "enlist"
        /\ UNCHANGED <<list, freed, locals, fault, ghosts>>
    BY <1>4 DEF ExecEnlist, At
  <2>3. NewProc(p, exec) \in Struct
    <3>1. Uninit \in Values BY DEF Uninit, Values
    <3>2. <<>> \in Seq(Pid) OBVIOUS
    <3> HIDE DEF Values
    <3> QED BY <3>1, <3>2 DEF NewProc, Struct
  <2>4. proc' \in [Pid -> Struct] BY <1>0, <2>1, <2>3
  <2>5. next' \in [Node -> Node] /\ prev' \in [Node -> Node]
    BY <1>0, <2>2, Names
  <2>6. arg[p] \in Pid /\ arg[p] \in Node /\ arg' = arg
    BY <1>0, <2>2, Names DEF locals, Calling, Early
  <2>7. "link" \in Doing BY DEF Doing
  <2>8. UNCHANGED <<list, freed, cur, par, val, fault, exited, reaped, ret>>
    BY <2>2 DEF locals, ghosts
  <2> QED BY <1>0, <2>2, <2>4, <2>5, <2>6, <2>7, <2>8, Names, DoTypes
<1>5. CASE ExecDown(p) /\ ~Fault
  <2>1. at[p] \in Calling
    BY <1>5 DEF ExecDown, At, Calling, Late
  <2>2. UNCHANGED <<next, prev, list, freed, locals, fault, reaped, ret, exited>>
    BY <1>5 DEF ExecDown, ghosts
  <2>3. CASE Go(p, "pexecsleep") /\ UNCHANGED proc
    BY <1>0, <2>1, <2>2, <2>3, Names, StoreTypes
  <2>4. CASE Go(p, "execed") /\ proc[p].pexec # 0 /\ proc' = [proc EXCEPT ![p].pexec = @ - 1]
    <3>1. proc[p].pexec - 1 \in Nat
      BY <1>0, <2>4 DEF Struct
    <3>2. proc' \in [Pid -> Struct]
      BY <1>0, <2>4, <3>1, FieldTypes
    <3> QED BY <1>0, <2>1, <2>2, <2>4, <3>2, Names, StoreTypes
  <2> QED BY <1>5, <2>3, <2>4 DEF ExecDown
<1>6. CASE ExecReturn(p) /\ ~Fault
  <2>1. arg[p] \in Pid
    BY <1>0, <1>6 DEF ExecReturn, At, Calling, Late
  <2>2. CASE UnlinkFree(p, "execfailed", arg[p]) /\ UNCHANGED <<heap, locals, fault, ghosts>>
    <3>1. Do(p, "execfailed", "skip", arg[p], arg[p]) /\ "skip" \in Doing
      BY <2>2 DEF UnlinkFree, Doing
    <3> QED BY <2>1, <2>2, <3>1, Names, MoveTypes
  <2>3. CASE /\ proc' = [proc EXCEPT ![p].children = Append(@, arg[p])]
             /\ Return(p, "exec", arg[p], 1, FALSE)
             /\ UNCHANGED <<next, prev, list, freed, reaped>>
    <3>1. Append(proc[p].children, arg[p]) \in Seq(Pid)
      BY <1>0, <2>1 DEF Struct
    <3>2. proc' \in [Pid -> Struct]
      BY <1>0, <2>3, <3>1, FieldTypes
    <3>3. [op |-> "exec", child |-> arg[p], value |-> 1, early |-> FALSE] \in Result
      BY <2>1 DEF Result
    <3> QED BY <1>0, <2>3, <3>2, <3>3, ReturnTypes
  <2> QED BY <1>6, <2>2, <2>3 DEF ExecReturn
<1>7. CASE ExecFailed(p)
  <2>1. arg[p] \in Pid /\ Return(p, "exec", arg[p], -1, FALSE) /\ UNCHANGED <<heap, reaped>>
    BY <1>0, <1>7 DEF ExecFailed, At, Calling, Late
  <2>2. [op |-> "exec", child |-> arg[p], value |-> -1, early |-> FALSE] \in Result
    BY <2>1, Names DEF Result
  <2>3. proc' \in [Pid -> Struct] /\ UNCHANGED <<next, prev, list, freed>>
    BY <1>0, <2>1 DEF heap
  <2> QED BY <1>0, <2>1, <2>2, <2>3, ReturnTypes
<1> QED
  BY <1>f, <1>1, <1>2, <1>3, <1>4, <1>5, <1>6, <1>7 DEF ExecStep

LEMMA ChildTypes ==
  ASSUME ProcessTypeInv, NEW p \in Pid, ChildStep(p)
  PROVE  ProcessTypeInv'
<1>0. /\ proc \in [Pid -> Struct] /\ arg \in [Pid -> Pid \cup {None}]
      /\ ret \in [Pid -> Result] /\ exited \in [Pid -> Values \cup {None, ByKernel}]
      /\ cur \in [Pid -> Pid \cup {None}] /\ par \in [Pid -> Pid \cup {None}]
      /\ val \in [Pid -> Values]
      /\ proc[p].parent \in Pid \cup {None}
  BY DEF ProcessTypeInv, Struct
<1> HIDE DEF Result, Values, Labels, Op, Node, Changing
<1>f. CASE Fault BY <1>f, FaultTypes
<1>1. CASE ChildLoad(p)
  BY <1>1, Names, SearchTypes DEF ChildLoad
<1>2. ASSUME NEW success \in BOOLEAN, ChildFound(p, success), ~Fault PROVE ProcessTypeInv'
  <2>1. /\ proc' = [proc EXCEPT ![p].loaded = success]
        /\ Search(p, "signal", proc[p].parent)
        /\ UNCHANGED <<next, prev, list, freed, locals, fault, ghosts>>
    BY <1>2 DEF ChildFound
  <2>2. proc' \in [Pid -> Struct] BY <1>0, <2>1, FieldTypes
  <2> QED BY <1>0, <2>1, <2>2, Names, StoreTypes DEF ghosts
<1>3. CASE ChildSignal(p) /\ ~Fault
  <2>1. /\ par' = [par EXCEPT ![p] = Got(p)]
        /\ \E l \in {"signalup", "loaded", "failed"} : Go(p, l)
        /\ UNCHANGED <<heap, cur, arg, val, fault, ghosts>>
    BY <1>3 DEF ChildSignal, Loaded
  <2>2. Got(p) \in Pid \cup {None}
    BY <1>3, GotTypes DEF ChildSignal
  <2>3. par' \in [Pid -> Pid \cup {None}] BY <1>0, <2>1, <2>2
  <2>4. UNCHANGED <<proc, next, prev, list, freed, fault, reaped, cur, arg, val, exited, ret>>
    BY <2>1 DEF heap, ghosts
  <2>5. None \in Pid \cup {None} OBVIOUS
  <2>6. /\ proc' \in [Pid -> Struct] /\ cur' \in [Pid -> Pid \cup {None}]
        /\ arg' \in [Pid -> Pid \cup {None}] /\ val' \in [Pid -> Values]
        /\ exited' \in [Pid -> Values \cup {None, ByKernel}] /\ ret' \in [Pid -> Result]
        /\ \A q \in Pid : arg'[q] = arg[q]
    BY <1>0, <2>4
  <2>7. PICK l \in {"signalup", "loaded", "failed"} : Go(p, l)
    BY <2>1
  <2>8. l \in Labels /\ l \notin Calling
    BY <2>7, Names
  <2> QED BY <2>3, <2>4, <2>5, <2>6, <2>7, <2>8, LocalTypes
<1>4. CASE ChildUp(p) /\ ~Fault
  <2>1. /\ proc' = [proc EXCEPT ![par[p]].pexec = @ + 1]
        /\ Wake(p, Loaded(p), par[p], "pexecsleep", "pexecwoken")
        /\ UNCHANGED <<next, prev, list, freed, locals, fault, ghosts>>
    BY <1>4 DEF ChildUp
  <2>2. proc' \in [Pid -> Struct]
    <3>1. CASE par[p] \in Pid
      <4>1. proc[par[p]].pexec + 1 \in Nat BY <1>0, <3>1 DEF Struct
      <4> QED BY <1>0, <2>1, <4>1, FieldTypes
    <3>2. CASE par[p] \notin Pid
      <4>1. proc' = proc BY <1>0, <2>1, <3>2
      <4> QED BY <1>0, <4>1
    <3> QED BY <3>1, <3>2
  <2>3. "pexecsleep" \in Calling /\ "pexecwoken" \in Labels /\ Loaded(p) \in Labels \ Calling
    BY Names DEF Calling, Late, Loaded
  <2> QED BY <2>1, <2>2, <2>3, WakeTypes
<1>5. CASE ChildRun(p) /\ ~Fault
  <2>1. /\ proc' = [proc EXCEPT ![p].exec = "file"] /\ Go(p, "user")
        /\ UNCHANGED <<next, prev, list, freed, locals, fault, ghosts>>
    BY <1>5 DEF ChildRun
  <2>2. proc' \in [Pid -> Struct] BY <1>0, <2>1, FieldTypes
  <2> QED BY <1>0, <2>1, <2>2, Names, StoreTypes DEF ghosts
<1>6. CASE ChildFail(p)
  <2>1. /\ val' = [val EXCEPT ![p] = -1] /\ ret' = [ret EXCEPT ![p] = NoRet]
        /\ Search(p, "setstatus", p)
        /\ UNCHANGED <<heap, cur, par, arg, fault, exited, reaped>>
    BY <1>6 DEF ChildFail, SysExit
  <2>2. val' \in [Pid -> Values] /\ ret' \in [Pid -> Result]
    BY <1>0, <2>1, Names
  <2>3. UNCHANGED <<proc, next, prev, list, freed, fault, reaped, cur, par, arg, exited>>
    BY <2>1 DEF heap
  <2> QED BY <1>0, <2>1, <2>2, <2>3, Names, LocalTypes
<1> QED
  BY <1>f, <1>1, <1>2, <1>3, <1>4, <1>5, <1>6 DEF ChildStep

LEMMA WaitTypes ==
  ASSUME ProcessTypeInv, NEW p \in Pid,
         WaitStep(p) \/ \E c \in Pid : CallWait(p, c)
  PROVE  ProcessTypeInv'
<1>0. /\ proc \in [Pid -> Struct] /\ arg \in [Pid -> Pid \cup {None}]
      /\ ret \in [Pid -> Result] /\ exited \in [Pid -> Values \cup {None, ByKernel}]
      /\ cur \in [Pid -> Pid \cup {None}] /\ par \in [Pid -> Pid \cup {None}]
      /\ val \in [Pid -> Values] /\ freed \subseteq Pid /\ reaped \subseteq Pid
      /\ at[p] \in Calling => arg[p] \in Pid
  BY DEF ProcessTypeInv, Calling
<1> HIDE DEF Result, Values, Labels, Op, Node, Changing
<1>f. CASE Fault BY <1>f, FaultTypes
<1>r. ASSUME NEW value \in Values, NEW early \in {TRUE, FALSE}, arg[p] \in Pid
      PROVE  [op |-> "wait", child |-> arg[p], value |-> value, early |-> early] \in Result
  BY <1>r DEF Result
<1>1. ASSUME NEW c \in Pid, CallWait(p, c) PROVE ProcessTypeInv'
  <2>1. /\ arg' = [arg EXCEPT ![p] = c] /\ ret' = [ret EXCEPT ![p] = NoRet]
        /\ Search(p, "wait", p)
        /\ UNCHANGED <<heap, cur, par, val, fault, exited, reaped>>
    BY <1>1 DEF CallWait
  <2>2. /\ arg' \in [Pid -> Pid \cup {None}] /\ \A q \in Pid \ {p} : arg'[q] = arg[q]
        /\ arg'[p] \in Pid /\ ret' \in [Pid -> Result]
    BY <1>0, <2>1, Names
  <2>3. UNCHANGED <<proc, next, prev, list, freed, fault, reaped, cur, par, val, exited>>
    BY <2>1 DEF heap
  <2>4. /\ proc' \in [Pid -> Struct] /\ cur' \in [Pid -> Pid \cup {None}]
        /\ par' \in [Pid -> Pid \cup {None}] /\ val' \in [Pid -> Values]
        /\ exited' \in [Pid -> Values \cup {None, ByKernel}]
    BY <1>0, <2>3
  <2> QED BY <2>1, <2>2, <2>3, <2>4, Names, LocalTypes
<1>2. CASE WaitSelf(p) /\ ~Fault
  <2>1. /\ cur' = [cur EXCEPT ![p] = Got(p)] /\ Search(p, "waitfind", arg[p])
        /\ UNCHANGED <<heap, par, arg, val, fault, ghosts>>
    BY <1>2 DEF WaitSelf
  <2>2. Got(p) \in Pid \cup {None} /\ arg[p] \in Pid
    BY <1>0, <1>2, GotTypes DEF WaitSelf, Found, Calling, Looks
  <2>3. cur' \in [Pid -> Pid \cup {None}] BY <1>0, <2>1, <2>2
  <2>4. UNCHANGED <<proc, next, prev, list, freed, fault, reaped, par, arg, val, exited, ret>>
    BY <2>1 DEF heap, ghosts
  <2> QED BY <1>0, <2>1, <2>2, <2>3, <2>4, Names, LocalTypes
<1>3. CASE WaitFind(p) /\ ~Fault
  <2>1. arg[p] \in Pid
    BY <1>0, <1>3 DEF WaitFind, Found, Calling, Looks
  <2>2. CASE Search(p, "waitparent", arg[p]) /\ UNCHANGED <<heap, locals, fault, ghosts>>
    BY <2>1, <2>2, Names, SearchTypes
  <2>3. CASE Return(p, "wait", arg[p], -1, TRUE) /\ UNCHANGED <<heap, reaped>>
    <3>1. [op |-> "wait", child |-> arg[p], value |-> -1, early |-> TRUE] \in Result
      BY <1>r, <2>1, Names
    <3>2. proc' \in [Pid -> Struct] /\ UNCHANGED <<next, prev, list, freed>>
      BY <1>0, <2>3 DEF heap
    <3> QED BY <1>0, <2>3, <3>1, <3>2, ReturnTypes
  <2> QED BY <1>3, <2>2, <2>3 DEF WaitFind
<1>4. CASE WaitParent(p) /\ ~Fault
  <2>1. arg[p] \in Pid
    BY <1>0, <1>4 DEF WaitParent, Found, Calling, Looks
  <2>2. CASE Search(p, "waitdead", arg[p]) /\ UNCHANGED <<heap, locals, fault, ghosts>>
    BY <2>1, <2>2, Names, SearchTypes
  <2>3. CASE Return(p, "wait", arg[p], -1, TRUE) /\ UNCHANGED <<heap, reaped>>
    <3>1. [op |-> "wait", child |-> arg[p], value |-> -1, early |-> TRUE] \in Result
      BY <1>r, <2>1, Names
    <3>2. proc' \in [Pid -> Struct] /\ UNCHANGED <<next, prev, list, freed>>
      BY <1>0, <2>3 DEF heap
    <3> QED BY <1>0, <2>3, <3>1, <3>2, ReturnTypes
  <2> QED BY <1>4, <2>2, <2>3 DEF WaitParent
<1>5. CASE WaitDead(p) /\ ~Fault
  <2>1. arg[p] \in Pid /\ UNCHANGED <<heap, locals, fault, ghosts>>
    BY <1>0, <1>5 DEF WaitDead, Found, Calling, Looks
  <2>2. Search(p, "status", arg[p]) \/ Go(p, "pwait")
    BY <1>5 DEF WaitDead
  <2> QED BY <2>1, <2>2, Names, SearchTypes, GoTypes
<1>6. CASE WaitDown(p) /\ ~Fault
  <2>1. at[p] \in Calling
    BY <1>6 DEF WaitDown, At, Calling, Waits
  <2>2. UNCHANGED <<next, prev, list, freed, locals, fault, reaped, ret, exited>>
    BY <1>6 DEF WaitDown, ghosts
  <2>3. CASE Go(p, "pwaitsleep") /\ UNCHANGED proc
    BY <1>0, <2>1, <2>2, <2>3, Names, StoreTypes
  <2>4. CASE Search(p, "status", arg[p]) /\ proc[p].pwait # 0 /\ proc' = [proc EXCEPT ![p].pwait = @ - 1]
    <3>1. proc[p].pwait - 1 \in Nat
      BY <1>0, <2>4 DEF Struct
    <3>2. proc' \in [Pid -> Struct]
      BY <1>0, <2>4, <3>1, FieldTypes
    <3> QED BY <1>0, <2>1, <2>2, <2>4, <3>2, Names, StoreTypes
  <2> QED BY <1>6, <2>3, <2>4 DEF WaitDown
<1>7. CASE WaitStatus(p) /\ ~Fault
  <2>1. /\ val' = [val EXCEPT ![p] = proc[arg[p]].status]
        /\ Search(p, "waitremove", arg[p])
        /\ UNCHANGED <<heap, cur, par, arg, fault, ghosts>>
    BY <1>7 DEF WaitStatus
  <2>2. arg[p] \in Pid
    BY <1>0, <1>7 DEF WaitStatus, Found, Calling, Waits
  <2>3. val' \in [Pid -> Values]
    <3>1. proc[arg[p]].status \in Values BY <1>0, <2>2 DEF Struct
    <3> QED BY <1>0, <2>1, <3>1
  <2>4. UNCHANGED <<proc, next, prev, list, freed, fault, reaped, par, arg, cur, exited, ret>>
    BY <2>1 DEF heap, ghosts
  <2> QED BY <1>0, <2>1, <2>2, <2>3, <2>4, Names, LocalTypes
<1>8. CASE WaitRemove(p) /\ ~Fault
  <2>1. arg[p] \in Pid /\ UNCHANGED <<heap, locals, fault, ghosts>>
    BY <1>0, <1>8 DEF WaitRemove, Found, Calling, Waits
  <2>2. Do(p, "removed", "skip", arg[p], None) /\ "skip" \in Doing
    BY <1>8 DEF WaitRemove, Unlink, Doing
  <2> QED BY <2>1, <2>2, Names, MoveTypes
<1>9. CASE WaitRemoved(p)
  <2>1. arg[p] \in Pid
    BY <1>0, <1>9 DEF WaitRemoved, At, Calling, Waits
  <2> QED BY <1>9, <2>1, Names, SearchTypes DEF WaitRemoved
<1>10. CASE WaitFree(p) /\ ~Fault
  <2>1. arg[p] \in Pid /\ Got(p) \in Pid \cup {None}
    BY <1>0, <1>10, GotTypes DEF WaitFree, Found, Calling, Waits
  <2>2. /\ freed' = freed \cup ({Got(p)} \ {None}) /\ reaped' = reaped \cup {arg[p]}
        /\ Return(p, "wait", arg[p], val[p], FALSE)
        /\ UNCHANGED <<proc, next, prev, list>>
    BY <1>10 DEF WaitFree
  <2>3. freed' \subseteq Pid /\ reaped' \subseteq Pid BY <1>0, <2>1, <2>2
  <2>4. [op |-> "wait", child |-> arg[p], value |-> val[p], early |-> FALSE] \in Result
    BY <1>0, <1>r, <2>1
  <2> QED BY <1>0, <2>2, <2>3, <2>4, ReturnTypes
<1> QED
  BY <1>f, <1>1, <1>2, <1>3, <1>4, <1>5, <1>6, <1>7, <1>8, <1>9, <1>10 DEF WaitStep

LEMMA ExitTypes ==
  ASSUME ProcessTypeInv, NEW p \in Pid,
         \/ ExitStep(p) \/ OtherFound(p) \/ CallOther(p) \/ Killed(p)
         \/ \E s \in Status : CallExit(p, s)
  PROVE  ProcessTypeInv'
<1>0. /\ proc \in [Pid -> Struct] /\ arg \in [Pid -> Pid \cup {None}]
      /\ ret \in [Pid -> Result] /\ exited \in [Pid -> Values \cup {None, ByKernel}]
      /\ cur \in [Pid -> Pid \cup {None}] /\ par \in [Pid -> Pid \cup {None}]
      /\ val \in [Pid -> Values] /\ proc[p].parent \in Pid \cup {None}
      /\ proc[p].children \in Seq(Pid)
  BY DEF ProcessTypeInv, Struct
<1> HIDE DEF Result, Values, Labels, Op, Node, Changing
<1>f. CASE Fault BY <1>f, FaultTypes
<1>1. ASSUME NEW s \in Status, CallExit(p, s) PROVE ProcessTypeInv'
  <2>1. /\ val' = [val EXCEPT ![p] = s] /\ ret' = [ret EXCEPT ![p] = NoRet]
        /\ Search(p, "setstatus", p)
        /\ UNCHANGED <<heap, cur, par, arg, fault, exited, reaped>>
    BY <1>1 DEF CallExit, SysExit
  <2>2. val' \in [Pid -> Values] /\ ret' \in [Pid -> Result]
    BY <1>0, <2>1, Names
  <2>3. UNCHANGED <<proc, next, prev, list, freed, fault, reaped, cur, par, arg, exited>>
    BY <2>1 DEF heap
  <2> QED BY <1>0, <2>1, <2>2, <2>3, Names, LocalTypes
<1>2. CASE Killed(p)
  <2>1. /\ exited' = [exited EXCEPT ![p] = ByKernel] /\ ret' = [ret EXCEPT ![p] = NoRet]
        /\ Search(p, "exit", p) /\ UNCHANGED <<heap, locals, fault, reaped>>
    BY <1>2 DEF Killed
  <2>2. exited' \in [Pid -> Values \cup {None, ByKernel}] /\ ret' \in [Pid -> Result]
    BY <1>0, <2>1, Names
  <2>3. UNCHANGED <<proc, next, prev, list, freed, fault, reaped, cur, par, arg, val>>
    BY <2>1 DEF heap, locals
  <2> QED BY <1>0, <2>1, <2>2, <2>3, Names, LocalTypes
<1>3. CASE CallOther(p)
  BY <1>3, Names, SearchTypes DEF CallOther
<1>4. CASE OtherFound(p) /\ ~Fault
  BY <1>4, Names, GoTypes DEF OtherFound
<1>5. CASE SetStatus(p) /\ ~Fault
  <2>1. /\ proc' = [proc EXCEPT ![p].status = val[p]]
        /\ exited' = [exited EXCEPT ![p] = val[p]]
        /\ Search(p, "exit", p)
        /\ UNCHANGED <<next, prev, list, freed, locals, fault, reaped, ret>>
    BY <1>5 DEF SetStatus
  <2>2. proc' \in [Pid -> Struct] BY <1>0, <2>1, FieldTypes
  <2>3. exited' \in [Pid -> Values \cup {None, ByKernel}] BY <1>0, <2>1
  <2> QED BY <1>0, <2>1, <2>2, <2>3, Names, StoreTypes
<1>6. CASE ExitFound(p) /\ ~Fault
  BY <1>0, <1>6, Names, SearchTypes DEF ExitFound
<1>7. CASE ExitMark(p) /\ ~Fault
  <2>1. /\ proc' = [proc EXCEPT ![p].dead = TRUE] /\ par' = [par EXCEPT ![p] = Got(p)]
        /\ Go(p, "exitfree")
        /\ UNCHANGED <<next, prev, list, freed, cur, arg, val, fault, ghosts>>
    BY <1>7 DEF ExitMark
  <2>2. Got(p) \in Pid \cup {None} BY <1>7, GotTypes DEF ExitMark
  <2>3. proc' \in [Pid -> Struct] /\ par' \in [Pid -> Pid \cup {None}]
    BY <1>0, <2>1, <2>2, FieldTypes
  <2>4. UNCHANGED <<next, prev, list, freed, cur, arg, val, fault, exited, reaped, ret>>
    BY <2>1 DEF ghosts
  <2>5. None \in Pid \cup {None} OBVIOUS
  <2>6. /\ cur' \in [Pid -> Pid \cup {None}]
        /\ arg' \in [Pid -> Pid \cup {None}] /\ val' \in [Pid -> Values]
        /\ exited' \in [Pid -> Values \cup {None, ByKernel}] /\ ret' \in [Pid -> Result]
        /\ \A q \in Pid : arg'[q] = arg[q]
    BY <1>0, <2>4
  <2> QED BY <2>1, <2>3, <2>4, <2>5, <2>6, Names, LocalTypes
<1>8. CASE ExitFree(p) /\ ~Fault
  <2>1. UNCHANGED <<heap, locals, fault, ghosts>>
    BY <1>8 DEF ExitFree
  <2>2. CASE UnlinkFree(p, "exitsignal", p)
    <3>1. Do(p, "exitsignal", "skip", p, p) /\ "skip" \in Doing
      BY <2>2 DEF UnlinkFree, Doing
    <3> QED BY <2>1, <3>1, Names, MoveTypes
  <2>3. CASE Go(p, "exitsignal")
    BY <2>1, <2>3, Names, GoTypes
  <2> QED BY <1>8, <2>2, <2>3 DEF ExitFree
<1>9. CASE ExitSignal(p) /\ ~Fault
  <2>1. UNCHANGED <<heap, locals, fault, ghosts>> /\ (Go(p, "exitup") \/ Go(p, "exitreap"))
    BY <1>9 DEF ExitSignal
  <2> QED BY <2>1, Names, GoTypes
<1>10. CASE ExitUp(p) /\ ~Fault
  <2>1. /\ proc' = [proc EXCEPT ![par[p]].pwait = @ + 1]
        /\ Wake(p, "exitreap", par[p], "pwaitsleep", "pwaitwoken")
        /\ UNCHANGED <<next, prev, list, freed, locals, fault, ghosts>>
    BY <1>10 DEF ExitUp
  <2>2. proc' \in [Pid -> Struct]
    <3>1. CASE par[p] \in Pid
      <4>1. proc[par[p]].pwait + 1 \in Nat BY <1>0, <3>1 DEF ProcessTypeInv, Struct
      <4> QED BY <1>0, <2>1, <4>1, FieldTypes
    <3>2. CASE par[p] \notin Pid
      <4>1. proc' = proc BY <1>0, <2>1, <3>2
      <4> QED BY <1>0, <4>1
    <3> QED BY <3>1, <3>2
  <2>3. "pwaitsleep" \in Calling /\ "pwaitwoken" \in Labels /\ "exitreap" \in Labels \ Calling
    BY Names DEF Calling, Waits
  <2> QED BY <2>1, <2>2, <2>3, WakeTypes
<1>11. CASE ExitReap(p) /\ ~Fault
  <2>1. UNCHANGED <<next, prev, list, freed, locals, fault, exited, reaped, ret>>
    BY <1>11 DEF ExitReap, ghosts
  <2>2. CASE Go(p, "exitclose") /\ UNCHANGED proc
    BY <1>0, <2>1, <2>2, Names, StoreTypes
  <2>3. CASE /\ proc[p].children # <<>> /\ Search(p, "exitchild", Head(proc[p].children))
             /\ proc' = [proc EXCEPT ![p].children = Tail(@)]
    <3>1. Head(proc[p].children) \in Pid /\ Tail(proc[p].children) \in Seq(Pid)
      BY <1>0, <2>3
    <3>2. proc' \in [Pid -> Struct] BY <1>0, <2>3, <3>1, FieldTypes
    <3> QED BY <1>0, <2>1, <2>3, <3>1, <3>2, Names, StoreTypes
  <2> QED BY <1>11, <2>2, <2>3 DEF ExitReap
<1>12. CASE ExitChild(p) /\ ~Fault
  <2>1. UNCHANGED <<heap, locals, fault, ghosts>> /\ Got(p) \in Pid \cup {None}
    BY <1>12, GotTypes DEF ExitChild
  <2>2. CASE Got(p) # None /\ UnlinkFree(p, "exitreap", Got(p))
    <3>1. Do(p, "exitreap", "skip", Got(p), Got(p)) /\ "skip" \in Doing
      BY <2>2 DEF UnlinkFree, Doing
    <3> QED BY <2>1, <2>2, <3>1, Names, MoveTypes
  <2>3. CASE Go(p, "exitreap")
    BY <2>1, <2>3, Names, GoTypes
  <2> QED BY <1>12, <2>2, <2>3 DEF ExitChild
<1>13. CASE ExitClose(p) /\ ~Fault
  BY <1>13, Names, GoTypes DEF ExitClose
<1> QED
  BY <1>f, <1>1, <1>2, <1>3, <1>4, <1>5, <1>6, <1>7, <1>8, <1>9, <1>10, <1>11, <1>12, <1>13
     DEF ExitStep

\* The types of process.c's structs and locals, of every schedule and with every
\* condition dropped.
THEOREM ProcessTypesHold == Spec => []ProcessTypeInv
<1>1. ASSUME Init PROVE ProcessTypeInv
  <2>1. \A exec \in {"null"} : NewProc(None, exec) \in Struct
    <3>1. Uninit \in Values BY DEF Uninit, Values
    <3>2. <<>> \in Seq(Pid) OBVIOUS
    <3> HIDE DEF Values
    <3> QED BY <3>1, <3>2 DEF NewProc, Struct
  <2>2. NoRet \in Result /\ 0 \in Values /\ Boot \in Pid /\ First \in Node /\ End \in Node
        /\ Pid \subseteq Node
    BY Names, ProcessAssumption
  <2>3. Idle \in Op /\ Idle.do = "none" /\ "none" \notin Changing
    BY DEF Idle, Op, Doing, Node, Changing
  <2>4. {"user", "none"} \subseteq Labels /\ {"user", "none"} \cap Calling = {}
    BY DEF Labels, Exiting, Calling, Early, Late, Looks, Waits
  <2> HIDE DEF Result, Values, Labels, Op, Struct, Node, Changing, Calling
  <2>5. /\ proc \in [Pid -> Struct] /\ next \in [Node -> Node] /\ prev \in [Node -> Node]
        /\ list \subseteq Pid /\ freed \subseteq Pid /\ reaped \subseteq Pid
        /\ at \in [Pid -> Labels] /\ op \in [Pid -> Op]
    BY <1>1, <2>1, <2>2, <2>3, <2>4 DEF Init
  <2>6. /\ cur \in [Pid -> Pid \cup {None}] /\ par \in [Pid -> Pid \cup {None}]
        /\ arg \in [Pid -> Pid \cup {None}] /\ val \in [Pid -> Values]
        /\ fault \in BOOLEAN
        /\ exited \in [Pid -> Values \cup {None, ByKernel}] /\ ret \in [Pid -> Result]
    BY <1>1, <2>2 DEF Init
  <2>7. \A p \in Pid : at[p] \notin Calling /\ op[p].do \notin Changing
    BY <1>1, <2>3, <2>4 DEF Init
  <2> QED BY <2>5, <2>6, <2>7 DEF ProcessTypeInv, Calling
<1>2. ASSUME ProcessTypeInv, [Next]_vars PROVE ProcessTypeInv'
  <2>1. CASE UNCHANGED vars
    BY <1>2, <2>1 DEF ProcessTypeInv, vars, heap, locals, ghosts
  <2>2. ASSUME NEW p \in Pid, Call(p) \/ Step(p) PROVE ProcessTypeInv'
    BY <1>2, <2>2, ListTypes, ExecTypes, ChildTypes, WaitTypes, ExitTypes DEF Call, Step
  <2> QED BY <1>2, <2>1, <2>2 DEF Next
<1> QED
  BY <1>1, <1>2, PTL DEF Spec

-----------------------------------------------------------------------------
\* The conditions, all of them.
Careful == Assume = Conditions

Able  == {"user", "other"} \cup Early \cup Late \cup Looks \cup Waits
Loads == {"load", "loading", "signal", "signalup"}
Dying == {"exitfree", "exitsignal", "exitup"} \cup Over

\* The searches of a thread, and what each looks for.
Selves   == {"exec", "loading", "setstatus", "exit", "other", "wait"}
Parents  == {"signal", "exitparent"}
Childs   == {"waitfind", "waitparent", "waitdead", "status", "waitremove", "waitfree"}
Searches == Selves \cup Parents \cup Childs \cup {"exitchild"}
Changes  == {"pexec", "removed", "execfailed"}

OneWindow == \A p, q \in Pid : InWindow(p) /\ InWindow(q) => p = q
OneInList == \A p, q \in Pid : InList(p) /\ InList(q) => p = q
OneExec ==
  \A p, q \in Pid :
    at[p] \in Early \cup Late /\ at[q] \in Early \cup Late /\ arg[p] = arg[q] => p = q

\* Where a thread can be in a walk or a change of the list.
Ops(p) ==
  /\ at[p] \in Searches => op[p].do = "find"
  /\ at[p] \in Selves => op[p].goal = p
  /\ at[p] \in Parents => op[p].goal = proc[p].parent
  /\ at[p] \in Childs => op[p].goal = arg[p]
  /\ at[p] = "exitchild" => op[p].goal \in reaped
  /\ at[p] \notin Searches \cup Changes => op[p].do = "none"
  /\ at[p] \in Changes /\ op[p].do # "none" => op[p].on = arg[p]
  /\ at[p] = "pexec" => op[p].do \in {"link", "tie", "none"}
  /\ at[p] = "removed" => op[p].do \in {"skip", "close", "none"} /\ op[p].goal = None
  /\ at[p] = "execfailed" => \/ op[p].do \in {"skip", "close", "free"} /\ op[p].goal = arg[p]
                             \/ op[p].do = "none"

\* A process is on the list from its creation until its parent takes it off.
Life(p) ==
  /\ p \in list \/ at[p] \in {"none", "load"} \cup Over
  /\ at[p] = "none" => p \notin list
  /\ p \in freed => at[p] = "gone" /\ p \notin list /\ ~proc[p].loaded
  /\ p \in reaped => at[p] \in Over /\ p \notin list
  /\ p = Boot => at[p] \in Able

\* What its struct and its locals hold.
Fields(p) ==
  /\ proc[p].dead <=> at[p] \in Dying
  /\ at[p] \in Exiting => exited[p] \in {proc[p].status, ByKernel}
  /\ proc[p].pexec = IF at[p] = "pexecwoken" THEN 1 ELSE 0
  /\ proc[p].pwait = IF at[p] = "pwaitwoken" THEN 1 ELSE 0
  /\ proc[p].exec # "junk"
  /\ at[p] \in {"loaded"} \cup Able => p = Boot \/ proc[p].loaded
  /\ at[p] \in {"none", "load", "loading", "failed"} => ~proc[p].loaded
  /\ at[p] \in {"signalup", "exitfree", "exitsignal", "exitup"} => par[p] = proc[p].parent
  /\ at[p] = "signalup" => at[proc[p].parent] = "pexecsleep"
  /\ at[p] = "exitup" => at[proc[p].parent] = "pwaitsleep"
  /\ at[p] \in {"waitfind", "waitparent", "waitdead", "pwait", "pwaitsleep", "pwaitwoken"}
       => cur[p] = p
  /\ p = Boot => proc[p].parent = None

\* The one child a process has not waited for.
Children(p) ==
  /\ \A c \in Unreaped(p) :
       /\ c \in list \/ (at[p] \in {"removed", "waitfree"} /\ arg[p] = c)
       /\ proc[c].parent = p /\ c # p /\ c # Boot
       /\ proc[c].loaded /\ at[c] \notin {"none"} \cup Loads
  /\ \A c, d \in Unreaped(p) : c = d
  /\ Unreaped(p) # {} => at[p] \in {"user", "other"} \cup Looks \cup Waits

\* A process has a parent that executes it or has yet to wait for it.
Parent(p) ==
  p \in list /\ p # Boot =>
    /\ proc[p].parent \in Pid
    /\ \/ at[proc[p].parent] \in Late /\ arg[proc[p].parent] = p
       \/ p \in Unreaped(proc[p].parent)

\* A new thread that is not on the list yet is about to be put there.
Loading(p) ==
  at[p] = "load" /\ p \notin list =>
    \E q \in Pid : /\ at[q] = "enlist" \/ (at[q] = "pexec" /\ op[q].do = "link")
                   /\ arg[q] = p

\* How far an exec and its child are.
Execing(p) ==
  /\ at[p] \in Early \cup Late => arg[p] \in Pid /\ arg[p] # p /\ arg[p] # Boot
  /\ at[p] \in {"exec", "create"} => at[arg[p]] = "none"
  /\ at[p] = "enlist" => at[arg[p]] = "load" /\ arg[p] \notin list
  /\ at[p] \in Late => proc[arg[p]].parent = p
  /\ at[p] = "pexec" => at[arg[p]] = "load" /\ (arg[p] \in list <=> op[p].do # "link")
  /\ at[p] \in {"pexecsleep", "pexecwoken", "execed"} => arg[p] \in list
  /\ at[p] = "pexecsleep" => at[arg[p]] \in Loads
  /\ at[p] \in {"pexecwoken", "execed", "execfailed"} => at[arg[p]] \notin {"none"} \cup Loads
  /\ at[p] = "execfailed" =>
       /\ ~proc[arg[p]].loaded /\ at[arg[p]] = "gone"
       /\ arg[p] \in list <=> op[p].do = "skip"
       /\ arg[p] \in freed <=> op[p].do = "none"

\* How far a wait and the child are.
Waiting(p) ==
  /\ at[p] = "waitparent" => arg[p] \in list
  /\ at[p] \in {"waitdead"} \cup Waits => arg[p] \in Unreaped(p)
  /\ at[p] = "pwait" => ~proc[arg[p]].dead
  /\ at[p] = "pwaitsleep" => at[arg[p]] \notin Over
  /\ at[p] \in {"pwaitwoken", "status", "waitremove", "removed", "waitfree"}
       => at[arg[p]] \in Dying
  /\ at[p] \in {"waitremove", "removed", "waitfree"} => val[p] = proc[arg[p]].status
  /\ at[p] = "removed" => (arg[p] \in list <=> op[p].do = "skip")
  /\ at[p] = "waitfree" => arg[p] \notin list

\* What the last call of p returned: the contracts of Process, for one process.
Said(p) ==
  /\ ret[p].op = "wait" => ret[p].child \in Pid
  /\ ret[p].op = "wait" =>
       IF ret[p].early THEN ret[p].child \notin Unreaped(p)
       ELSE at[ret[p].child] \in Exiting /\ exited[ret[p].child] \in {ret[p].value, ByKernel}
  /\ ret[p].op = "exec" =>
       IF ret[p].child = None THEN ret[p].value = -1
       ELSE /\ at[ret[p].child] \notin {"none", "load", "loading"}
            /\ ret[p].value = 1 <=> proc[ret[p].child].loaded

Known(p) == /\ Ops(p) /\ Life(p) /\ Fields(p) /\ Children(p) /\ Parent(p)
            /\ Loading(p) /\ Execing(p) /\ Waiting(p) /\ Said(p)

\* process_list is one chain: f numbers its elements in their order.  A prev
\* pointer that is not up to date is the one a half-made change stores next.
Chain(f) ==
  /\ \A x \in list \cup {First} :
       /\ next[x] \in list \cup {End} /\ f[x] < f[next[x]]
       /\ \A y \in list \cup {End} : f[x] < f[y] => f[next[x]] <= f[y]
  /\ \A x, y \in list \cup {First, End} : f[x] = f[y] => x = y
  /\ \A x \in list : f[First] < f[x] /\ f[x] < f[End]
  /\ f[First] < f[End]

Behind(y) ==
  \/ prev[y] \in list \cup {First} /\ next[prev[y]] = y
  \/ \E p \in Pid : op[p].do = "tie" /\ y = End
  \/ \E p \in Pid : op[p].do = "close" /\ next[op[p].on] = y

\* Where a walk or a change stands on it.
Stands(p, f) ==
  /\ op[p].do = "find" =>
       /\ op[p].on \in list \cup {First, End}
       /\ op[p].goal \in list => f[op[p].on] <= f[op[p].goal]
  /\ op[p].do = "link" => /\ op[p].on \notin list /\ next[op[p].on] = End
                          /\ prev[op[p].on] = prev[End]
  /\ op[p].do = "tie" => op[p].on \in list /\ next[op[p].on] = End
  /\ op[p].do = "skip" => op[p].on \in list
  /\ op[p].do = "close" => /\ op[p].on \notin list
                           /\ prev[op[p].on] \in list \cup {First}
                           /\ next[op[p].on] \in list \cup {End}
                           /\ next[prev[op[p].on]] = next[op[p].on]
  /\ op[p].do = "free" => op[p].on \notin list

Linked(f) == /\ Chain(f) /\ \A y \in list \cup {End} : Behind(y)
             /\ \A p \in Pid : Stands(p, f)

CallInv ==
  /\ OneWindow /\ OneInList /\ OneExec
  /\ \A p \in Pid : Known(p)
  /\ ~fault

-----------------------------------------------------------------------------
\* Nobody else is in a window or inside the list.
Alone(p) == \A q \in Pid \ {p} : ~InWindow(q) /\ ~InList(q)

\* p alone moves, or stores to its struct; the list may have pointers changed.
Solo(p) ==
  /\ UNCHANGED <<list, freed, reaped, fault>>
  /\ \A q \in Pid \ {p} :
       /\ at'[q] = at[q] /\ op'[q] = op[q] /\ proc'[q] = proc[q] /\ arg'[q] = arg[q]
       /\ cur'[q] = cur[q] /\ par'[q] = par[q] /\ val'[q] = val[q] /\ exited'[q] = exited[q]
       /\ ret'[q] = ret[q]

\* What the others know of p stays true.
Calm(p) ==
  /\ at[p] \notin {"none", "gone", "enlist", "pexecsleep", "pwaitsleep"}
  /\ at[p] = "pexec" => op[p].do # "link"
  /\ at'[p] # "none" /\ (at'[p] \in Loads <=> at[p] \in Loads)
  /\ at[p] \in Dying => at'[p] \in Dying /\ proc'[p].status = proc[p].status
  /\ at'[p] \in Over /\ at[p] \notin Over => at[proc[p].parent] # "pwaitsleep"
  /\ proc'[p].parent = proc[p].parent
  /\ at[p] \notin {"load", "loading"} =>
       at'[p] \notin {"load", "loading"} /\ proc'[p].loaded = proc[p].loaded
  /\ at[p] \in Exiting => at'[p] \in Exiting /\ exited'[p] = exited[p]
  /\ Unreaped(p) \subseteq Unreaped(p)'
  /\ at[p] \in Late /\ arg[p] \in list =>
       (at'[p] \in Late /\ arg'[p] = arg[p]) \/ arg[p] \in Unreaped(p)'

LEMMA RunsAlone ==
  ASSUME Careful, NEW p \in Pid, Runs(p)
  PROVE  Alone(p) /\ ~fault
BY DEF Careful, Runs, Alone, Conditions

LEMMA UnreapedPids ==
  ASSUME ProcessTypeInv, NEW p \in Pid
  PROVE  Unreaped(p) \subseteq Pid
<1>1. proc[p].children \in Seq(Pid)
  BY DEF ProcessTypeInv, Struct
<1> QED
  BY <1>1 DEF Unreaped, ToSet

\* A process that signals has a parent.
LEMMA ParentPid ==
  ASSUME CallInv, NEW p \in Pid
  PROVE  \/ proc[p].parent \in Pid
         \/ at[p] \notin {"signal", "signalup", "exitparent"} /\ (p \notin list \/ p = Boot)
BY DEF CallInv, Known, Life, Parent, Able, Early, Late, Looks, Waits, Over

LEMMA SaidKept ==
  ASSUME ProcessTypeInv, CallInv, NEW p \in Pid, Solo(p), Calm(p),
         NEW q \in Pid, ret'[q] = ret[q], Unreaped(q)' = Unreaped(q)
  PROVE  Said(q)'
<1>1. Said(q)
  BY DEF CallInv, Known
<1>2. ret[q].child \in Pid \cup {None}
  BY DEF ProcessTypeInv, Result
<1>3. \A c \in Pid : /\ at[c] \in Exiting => at'[c] \in Exiting /\ exited'[c] = exited[c]
                     /\ at[c] \notin {"none", "load", "loading"} =>
                          /\ at'[c] \notin {"none", "load", "loading"}
                          /\ proc'[c].loaded = proc[c].loaded
  BY DEF Solo, Calm
<1>4. ret[q].op = "wait" /\ ~ret[q].early => ret[q].child \in Pid
  BY <1>1 DEF Said
<1> QED
  BY <1>1, <1>2, <1>3, <1>4 DEF Said

LEMMA Kept ==
  ASSUME ProcessTypeInv, CallInv, NEW p \in Pid, Alone(p), Solo(p), Calm(p)
  PROVE  \A q \in Pid \ {p} : Known(q)'
<1> SUFFICES ASSUME NEW q \in Pid, q # p PROVE Known(q)'
  OBVIOUS
<1>0. /\ Ops(q) /\ Life(q) /\ Fields(q) /\ Children(q) /\ Parent(q)
      /\ Loading(q) /\ Execing(q) /\ Waiting(q) /\ Said(q)
  BY DEF CallInv, Known
<1>1. /\ UNCHANGED <<list, freed, reaped, fault>>
      /\ \A r \in Pid \ {p} :
           /\ at'[r] = at[r] /\ op'[r] = op[r] /\ proc'[r] = proc[r] /\ arg'[r] = arg[r]
           /\ cur'[r] = cur[r] /\ par'[r] = par[r] /\ val'[r] = val[r] /\ exited'[r] = exited[r]
           /\ ret'[r] = ret[r]
  BY DEF Solo
<1>2. \A r \in Pid \ {p} : Unreaped(r)' = Unreaped(r)
  BY <1>1 DEF Unreaped
<1>w. ~InWindow(q)
  BY DEF Alone
<1>t. /\ Unreaped(q) \subseteq Pid
      /\ at[q] \in Early \cup Late \cup Looks \cup Waits => arg[q] \in Pid
      /\ at[q] \in {"signalup", "exitup"} => proc[q].parent \in Pid
  <2>1. at[q] \in Early \cup Late \cup Looks \cup Waits => arg[q] \in Pid
    BY DEF ProcessTypeInv
  <2>2. at[q] = "exitup" => InWindow(q)
    BY DEF InWindow
  <2>3. at[q] = "signalup" => proc[q].parent \in Pid
    BY ParentPid
  <2>4. Unreaped(q) \subseteq Pid
    BY UnreapedPids
  <2> QED BY <1>w, <2>1, <2>2, <2>3, <2>4
<1>a. Ops(q)'
  BY <1>0, <1>1 DEF Ops
<1>b. Life(q)'
  BY <1>0, <1>1 DEF Life
<1>c. Fields(q)'
  BY <1>0, <1>1, <1>t, <1>w DEF Fields, Calm
<1>d. Children(q)'
  BY <1>0, <1>1, <1>2, <1>t DEF Children, Calm, Loads
<1>e. Parent(q)'
  BY <1>0, <1>1, <1>2 DEF Parent, Calm
<1>f. Loading(q)'
  BY <1>0, <1>1 DEF Loading, Calm
<1>g. Execing(q)'
  BY <1>0, <1>1, <1>w, <1>t DEF Execing, Calm, InWindow, Early, Late
<1>h. Waiting(q)'
  <2>1. at[q] \in {"waitdead"} \cup Waits => proc[arg[q]].parent = q /\ arg[q] # q
    BY <1>0 DEF Waiting, Children
  <2> QED BY <1>0, <1>1, <1>2, <1>w, <1>t, <2>1 DEF Waiting, Calm, InWindow, Looks, Waits, Dying
<1>i. Said(q)'
  BY <1>1, <1>2, SaidKept
<1> QED
  BY <1>a, <1>b, <1>c, <1>d, <1>e, <1>f, <1>g, <1>h, <1>i DEF Known

\* A walk that has arrived found the struct exactly if it is on the list, and
\* what is on the list has not been freed.
LEMMA Arrival ==
  ASSUME ProcessTypeInv, NEW f \in [Node -> Int], Linked(f), NEW p \in Pid,
         NEW label, Found(p, label)
  PROVE  Got(p) = IF op[p].goal \in list THEN op[p].goal ELSE None
<1>1. /\ op[p].do = "find" /\ op[p].on \in {op[p].goal, End}
      /\ op[p].goal \in Pid \cup {None} /\ list \subseteq Pid
      /\ Boot \in Pid /\ None \notin Pid /\ {First, End} \cap (Pid \cup {None}) = {}
  BY ProcessAssumption DEF Found, ProcessTypeInv, Op
<1>2. /\ op[p].on \in list \cup {First, End}
      /\ op[p].goal \in list => f[op[p].on] <= f[op[p].goal]
  BY <1>1 DEF Linked, Stands
<1>3. CASE op[p].goal \in list
  <2>1. f[op[p].goal] < f[End]
    BY <1>3 DEF Linked, Chain
  <2>2. f[op[p].goal] \in Int /\ f[End] \in Int
    BY <1>1, <1>3 DEF Node
  <2>3. op[p].on # End
    BY <1>2, <1>3, <2>1, <2>2
  <2> QED BY <1>1, <1>3, <2>3 DEF Got
<1>4. CASE op[p].goal \notin list
  BY <1>1, <1>2, <1>4 DEF Got
<1> QED
  BY <1>3, <1>4

LEMMA OnList ==
  ASSUME ProcessTypeInv, CallInv
  PROVE  list \cap freed = {} /\ list \subseteq Valid /\ None \notin freed
BY ProcessAssumption DEF CallInv, Known, Life, Valid, ProcessTypeInv

\* The chain does not change with a step that starts or ends a walk.
LEMMA Still ==
  ASSUME ProcessTypeInv, NEW f \in [Node -> Int], Linked(f), NEW p \in Pid,
         UNCHANGED <<next, prev, list>>, \A q \in Pid \ {p} : op'[q] = op[q],
         \/ op'[p] = op[p]
         \/ /\ op[p].do \notin {"tie", "close"}
            /\ \/ op'[p].do = "none"
               \/ op'[p].do = "find" /\ op'[p].on = First
               \/ op'[p].do = "skip" /\ op'[p].on \in list
  PROVE  Linked(f)'
<1>1. Chain(f)'
  BY DEF Linked, Chain
<1>2. \A y \in list \cup {End} : Behind(y)'
  <2> TAKE y \in list \cup {End}
  <2>1. Behind(y) BY DEF Linked
  <2> QED BY <2>1 DEF Behind
<1>3. ASSUME NEW q \in Pid PROVE Stands(q, f)'
  <2>1. Stands(q, f) BY DEF Linked
  <2>2. CASE op'[q] = op[q] BY <2>1, <2>2 DEF Stands
  <2>3. CASE op'[q] # op[q]
    <3>1. q = p BY <2>3
    <3>2. CASE op'[q].do = "none" BY <3>2 DEF Stands
    <3>3. CASE op'[q].do = "find" /\ op'[q].on = First
      <4>1. /\ \A x \in list : f[First] < f[x] /\ f[x] \in Int
            /\ f[First] \in Int /\ list' = list
        BY DEF Linked, Chain, ProcessTypeInv, Node
      <4>2. op'[q].goal \in list' => f[First] <= f[op'[q].goal]
        BY <4>1
      <4> QED BY <3>3, <4>2 DEF Stands
    <3>4. CASE op'[q].do = "skip" /\ op'[q].on \in list BY <3>4 DEF Stands
    <3> QED BY <2>3, <3>1, <3>2, <3>3, <3>4
  <2> QED BY <2>2, <2>3
<1>4. list' = list
  OBVIOUS
<1> QED
  BY <1>1, <1>2, <1>3, <1>4 DEF Linked

-----------------------------------------------------------------------------
Good == CallInv /\ \E f \in [Node -> Int] : Linked(f)

\* What is left to show of a step that only moves its own thread.
Own(p) == Ops(p) /\ Life(p) /\ Fields(p) /\ Children(p) /\ Execing(p) /\ Waiting(p)

OpMoves(p) ==
  \/ op'[p] = op[p]
  \/ /\ op[p].do \notin {"tie", "close"}
     /\ \/ op'[p].do = "none"
        \/ op'[p].do = "find" /\ op'[p].on = First
        \/ op'[p].do = "skip" /\ op'[p].on \in list

LEMMA Settled ==
  ASSUME ProcessTypeInv, CallInv, NEW f \in [Node -> Int], NEW p \in Pid, Alone(p), Solo(p),
         \A q \in Pid \ {p} : Known(q)',
         proc'[p].parent = proc[p].parent,
         at'[p] = "load" => at[p] = "load" /\ p \in list,
         OneExec', Own(p)', Said(p)', Linked(f)'
  PROVE  Good'
<1>1. /\ UNCHANGED <<list, freed, reaped, fault>>
      /\ \A q \in Pid \ {p} : /\ at'[q] = at[q] /\ op'[q] = op[q] /\ arg'[q] = arg[q]
                              /\ proc'[q] = proc[q]
  BY DEF Solo
<1>2. OneWindow'
  <2>1. \A q \in Pid \ {p} : ~InWindow(q)'
    BY <1>1 DEF Alone, InWindow
  <2> QED BY <2>1 DEF OneWindow
<1>3. OneInList'
  <2>1. \A q \in Pid \ {p} : ~InList(q)'
    BY <1>1 DEF Alone, InList
  <2> QED BY <2>1 DEF OneInList
<1>5. Parent(p) /\ Loading(p) /\ Execing(p) /\ Children(p)
  BY DEF CallInv, Known
<1>6. Parent(p)'
  <2>1. SUFFICES ASSUME p \in list, p # Boot
                 PROVE  Parent(p)'
    BY <1>1 DEF Parent
  <2>2. /\ proc[p].parent \in Pid
        /\ \/ at[proc[p].parent] \in Late /\ arg[proc[p].parent] = p
           \/ p \in Unreaped(proc[p].parent)
    BY <1>5, <2>1 DEF Parent
  <2>3. proc[p].parent # p
    BY <1>5, <2>2 DEF Execing, Children
  <2>4. Unreaped(proc[p].parent)' = Unreaped(proc[p].parent)
    BY <1>1, <2>2, <2>3 DEF Unreaped
  <2> QED BY <1>1, <2>2, <2>3, <2>4 DEF Parent
<1>7. Loading(p)'
  BY <1>1, <1>5 DEF Loading
<1>8. Known(p)'
  BY <1>6, <1>7 DEF Own, Known
<1>9. ~fault'
  BY <1>1 DEF CallInv
<1> QED
  BY <1>2, <1>3, <1>8, <1>9 DEF Good, CallInv

LEMMA Moved ==
  ASSUME ProcessTypeInv, CallInv, NEW f \in [Node -> Int], Linked(f), NEW p \in Pid, Alone(p),
         Solo(p), Calm(p), OpMoves(p), UNCHANGED <<next, prev>>,
         at'[p] = "load" => at[p] = "load" /\ p \in list,
         at'[p] \in Early \cup Late => at[p] \in Early \cup Late /\ arg'[p] = arg[p],
         Own(p)', Said(p)'
  PROVE  Good'
<1>1. \A q \in Pid \ {p} : Known(q)'
  BY Kept
<1>2. UNCHANGED <<next, prev, list>> /\ \A q \in Pid \ {p} : op'[q] = op[q]
  BY DEF Solo
<1>3. Linked(f)'
  BY <1>2, Still DEF OpMoves
<1>4. proc'[p].parent = proc[p].parent
  BY DEF Calm
<1>5. OneExec'
  <2>1. OneExec BY DEF CallInv
  <2> QED BY <2>1 DEF OneExec, Solo
<1> QED
  BY <1>1, <1>3, <1>4, <1>5, Settled

\* What the searches find.
LEMMA FindsSelf ==
  ASSUME ProcessTypeInv, CallInv, NEW f \in [Node -> Int], Linked(f), NEW p \in Pid,
         NEW label \in Selves, Found(p, label)
  PROVE  Got(p) = p /\ p \in list /\ p \in Valid
<1>1. at[p] = label
  BY DEF Found
<1>2. op[p].goal = p /\ p \in list
  BY <1>1 DEF CallInv, Known, Ops, Life, Selves, Over
<1> QED
  BY <1>2, Arrival, OnList

\* A process that is on the list has a parent that is there and lives.
LEMMA LivingParent ==
  ASSUME ProcessTypeInv, CallInv, NEW p \in list, p # Boot
  PROVE  /\ proc[p].parent \in Pid /\ proc[p].parent \in list /\ proc[p].parent # p
         /\ proc[p].parent \notin freed /\ proc[p].parent \in Valid
         /\ at[proc[p].parent] \in Able /\ ~proc[proc[p].parent].dead
         /\ \/ at[proc[p].parent] \in Late /\ arg[proc[p].parent] = p
            \/ p \in Unreaped(proc[p].parent)
<1>1. p \in Pid
  BY DEF ProcessTypeInv
<1>2. /\ proc[p].parent \in Pid
      /\ \/ at[proc[p].parent] \in Late /\ arg[proc[p].parent] = p
         \/ p \in Unreaped(proc[p].parent)
  BY <1>1 DEF CallInv, Known, Parent
<1>3. /\ Children(proc[p].parent) /\ Life(proc[p].parent) /\ Execing(proc[p].parent)
      /\ Fields(proc[p].parent)
  BY <1>2 DEF CallInv, Known
<1>4. at[proc[p].parent] \in Able
  BY <1>2, <1>3 DEF Children, Able
<1>5. proc[p].parent \in list /\ ~proc[proc[p].parent].dead
  BY <1>3, <1>4 DEF Life, Fields, Dying, Able, Early, Late, Looks, Waits, Over
<1>6. proc[p].parent # p
  BY <1>2, <1>3 DEF Children, Execing
<1> QED
  BY <1>2, <1>4, <1>5, <1>6, OnList

LEMMA FindsParent ==
  ASSUME ProcessTypeInv, CallInv, NEW f \in [Node -> Int], Linked(f), NEW p \in Pid,
         NEW label \in Parents, Found(p, label)
  PROVE  Got(p) = proc[p].parent /\ p \in list /\ p # Boot
<1>1. at[p] = label
  BY DEF Found
<1>2. op[p].goal = proc[p].parent /\ p \in list /\ p # Boot
  BY <1>1 DEF CallInv, Known, Ops, Life, Parents, Over, Able, Early, Late, Looks, Waits
<1>3. proc[p].parent \in list
  BY <1>2, LivingParent
<1> QED
  BY <1>2, <1>3, Arrival

LEMMA FindsChild ==
  ASSUME ProcessTypeInv, CallInv, NEW f \in [Node -> Int], Linked(f), NEW p \in Pid,
         NEW label \in Childs, Found(p, label)
  PROVE  /\ arg[p] \in Pid /\ p \in list /\ p \in Valid
         /\ Got(p) = IF arg[p] \in list THEN arg[p] ELSE None
         /\ label \in {"waitparent", "waitdead", "status", "waitremove"}
              => arg[p] \in list /\ arg[p] \in Valid
         /\ label \in {"waitdead", "status", "waitremove", "waitfree"} => arg[p] \in Unreaped(p)
<1>1. at[p] = label
  BY DEF Found
<1>2. op[p].goal = arg[p] /\ p \in list /\ arg[p] \in Pid
  BY <1>1 DEF CallInv, Known, Ops, Life, Childs, Over, ProcessTypeInv, Looks, Waits
<1>3. Waiting(p) /\ Children(p)
  BY DEF CallInv, Known
<1>4. label \in {"waitdead", "status", "waitremove", "waitfree"} => arg[p] \in Unreaped(p)
  BY <1>1, <1>3 DEF Waiting, Waits
<1>5. label \in {"waitparent", "waitdead", "status", "waitremove"} => arg[p] \in list
  BY <1>1, <1>3, <1>4 DEF Waiting, Children
<1> QED
  BY <1>2, <1>4, <1>5, Arrival, OnList

-----------------------------------------------------------------------------
Unmoved(p) ==
  /\ proc'[p] = proc[p] /\ arg'[p] = arg[p] /\ cur'[p] = cur[p] /\ par'[p] = par[p]
  /\ val'[p] = val[p] /\ exited'[p] = exited[p] /\ ret'[p] = ret[p]
  /\ Unreaped(p)' = Unreaped(p)

\* A step that does nothing but move its thread.
LEMMA PureEffect ==
  ASSUME ProcessTypeInv, NEW p \in Pid, NEW label \in Labels, NEW do \in Doing,
         NEW on \in Node, NEW goal \in Pid \cup {None}, Do(p, label, do, on, goal),
         UNCHANGED <<heap, locals, fault, ghosts>>
  PROVE  /\ at'[p] = label /\ op'[p].do = do /\ op'[p].on = on /\ op'[p].goal = goal
         /\ Solo(p) /\ Unmoved(p) /\ UNCHANGED <<next, prev, list, freed, reaped>>
<1>1. /\ at'[p] = label
      /\ op'[p].do = do /\ op'[p].on = on /\ op'[p].goal = goal
      /\ \A q \in Pid \ {p} : at'[q] = at[q] /\ op'[q] = op[q]
  BY DoEffect
<1>2. UNCHANGED <<proc, next, prev, list, freed, cur, par, arg, val, fault, exited, reaped, ret>>
  BY DEF heap, locals, ghosts
<1> QED
  BY <1>1, <1>2 DEF Solo, Unmoved, Unreaped

LEMMA SearchEffect ==
  ASSUME ProcessTypeInv, NEW p \in Pid, NEW label \in Labels, NEW goal \in Pid \cup {None},
         Search(p, label, goal), UNCHANGED <<heap, locals, fault, ghosts>>
  PROVE  /\ at'[p] = label /\ op'[p].do = "find" /\ op'[p].on = First /\ op'[p].goal = goal
         /\ Solo(p) /\ Unmoved(p) /\ UNCHANGED <<next, prev, list, freed, reaped>>
<1>1. Do(p, label, "find", First, goal)
  BY DEF Search
<1> QED
  BY <1>1, Names, PureEffect

LEMMA GoEffect ==
  ASSUME ProcessTypeInv, NEW p \in Pid, NEW label \in Labels, Go(p, label),
         UNCHANGED <<heap, locals, fault, ghosts>>
  PROVE  /\ at'[p] = label /\ op'[p].do = "none"
         /\ Solo(p) /\ Unmoved(p) /\ UNCHANGED <<next, prev, list, freed, reaped>>
<1>1. Do(p, label, "none", End, None)
  BY DEF Go
<1> QED
  BY <1>1, Names, PureEffect

LEMMA UnlinkEffect ==
  ASSUME ProcessTypeInv, NEW p \in Pid, NEW label \in Labels, NEW e \in Pid,
         NEW goal \in Pid \cup {None}, Do(p, label, "skip", e, goal),
         UNCHANGED <<heap, locals, fault, ghosts>>
  PROVE  /\ at'[p] = label /\ op'[p].do = "skip" /\ op'[p].on = e /\ op'[p].goal = goal
         /\ Solo(p) /\ Unmoved(p) /\ UNCHANGED <<next, prev, list, freed, reaped>>
<1>1. "skip" \in Doing /\ e \in Node
  BY Names DEF Doing
<1> QED
  BY <1>1, PureEffect

\* The searches and moves from one label to another that leave everybody
\* in the same relation to p.
Quietly(p, label) ==
  /\ at[p] \notin {"none", "gone", "enlist", "pexecsleep", "pwaitsleep", "load", "pexec"} \cup Late
  /\ label \notin {"none", "load"} \cup Early \cup Late
  /\ label \in Loads <=> at[p] \in Loads
  /\ at[p] \in Dying => label \in Dying
  /\ at[p] \in Exiting => label \in Exiting
  /\ at[p] \notin {"load", "loading"} => label # "loading"
  /\ label \in Over /\ at[p] \notin Over => at[proc[p].parent] # "pwaitsleep"

LEMMA PureMove ==
  ASSUME ProcessTypeInv, CallInv, NEW f \in [Node -> Int], Linked(f), NEW p \in Pid, Alone(p),
         NEW label, at'[p] = label, Solo(p), Unmoved(p), UNCHANGED <<next, prev>>,
         Quietly(p, label), OpMoves(p), Own(p)'
  PROVE  Good'
<1>1. Calm(p)
  BY DEF Calm, Quietly, Unmoved, Loads
<1>3. Said(p)'
  BY <1>1, SaidKept DEF Unmoved
<1>2. at'[p] # "load" /\ at'[p] \notin Early \cup Late
  BY DEF Quietly
<1> QED
  BY <1>1, <1>2, <1>3, Moved

LEMMA ChildrenKept ==
  ASSUME ProcessTypeInv, CallInv, NEW p \in Pid, Solo(p), Unreaped(p)' = Unreaped(p),
         \/ at[p] \notin {"user", "other"} \cup Looks \cup Waits
         \/ /\ at'[p] \in {"user", "other"} \cup Looks \cup Waits
            /\ at[p] \in {"removed", "waitfree"} =>
                 at'[p] \in {"removed", "waitfree"} /\ arg'[p] = arg[p]
  PROVE  Children(p)'
<1>1. Children(p)
  BY DEF CallInv, Known
<1>2. Unreaped(p) \subseteq Pid
  BY UnreapedPids
<1>3. list' = list /\ \A q \in Pid \ {p} : proc'[q] = proc[q] /\ at'[q] = at[q]
  BY DEF Solo
<1> QED
  BY <1>1, <1>2, <1>3 DEF Children

\* The moves that store nothing, one after the other.
LEMMA LoadInv ==
  ASSUME Careful, ProcessTypeInv, CallInv, NEW f \in [Node -> Int], Linked(f), NEW p \in Pid,
         ChildLoad(p)
  PROVE  Good'
<1>1. /\ Alone(p) /\ at[p] = "load" /\ op[p].do = "none"
      /\ Search(p, "loading", p) /\ UNCHANGED <<heap, locals, fault, ghosts>>
  BY RunsAlone DEF ChildLoad, At
<1>2. /\ at'[p] = "loading" /\ op'[p].do = "find" /\ op'[p].on = First /\ op'[p].goal = p
      /\ Solo(p) /\ Unmoved(p) /\ UNCHANGED <<next, prev, list, freed, reaped>>
  <2>1. "loading" \in Labels BY Names
  <2> QED BY <1>1, <2>1, SearchEffect
<1>3. p \in list
  <2>1. Loading(p) BY DEF CallInv, Known
  <2>2. \A q \in Pid \ {p} : ~InWindow(q) BY <1>1 DEF Alone
  <2> QED BY <1>1, <2>1, <2>2 DEF Loading, InWindow
<1>4. Ops(p) /\ Life(p) /\ Fields(p) /\ Execing(p) /\ Waiting(p)
  BY DEF CallInv, Known
<1>5. Children(p)'
  BY <1>1, <1>2, ChildrenKept DEF Unmoved, Looks, Waits
<1>6. Own(p)'
  BY <1>1, <1>2, <1>3, <1>4, <1>5
     DEF Own, Ops, Life, Fields, Execing, Waiting, Unmoved, Searches, Selves, Parents, Childs,
         Changes, Able, Early, Late, Looks, Waits, Over, Dying, Exiting
<1>7. Calm(p)
  BY <1>1, <1>2 DEF Calm, Unmoved, Loads, Dying, Over, Late, Exiting
<1>9. Said(p)'
  BY <1>2, <1>7, SaidKept DEF Unmoved
<1>8. OpMoves(p)
  BY <1>1, <1>2 DEF OpMoves
<1> QED
  BY <1>1, <1>2, <1>3, <1>6, <1>7, <1>8, <1>9, Moved DEF Early, Late

\* The moves that store nothing: a search starts, or ends.
LEMMA OtherInv ==
  ASSUME Careful, ProcessTypeInv, CallInv, NEW f \in [Node -> Int], Linked(f), NEW p \in Pid,
         CallOther(p)
  PROVE  Good'
<1>1. Alone(p) /\ at[p] = "user" /\ op[p].do = "none"
  BY RunsAlone DEF CallOther, At
<1>k. Ops(p) /\ Life(p) /\ Fields(p) /\ Execing(p) /\ Waiting(p)
  BY DEF CallInv, Known
<1>m. Search(p, "other", p) /\ UNCHANGED <<heap, locals, fault, ghosts>>
  BY DEF CallOther
<1>a. "other" \in Labels
  BY Names
<1>b. /\ at'[p] = "other" /\ op'[p].do = "find" /\ op'[p].on = First /\ op'[p].goal = p
   /\ Solo(p) /\ Unmoved(p) /\ UNCHANGED <<next, prev, list, freed, reaped>>
  BY <1>m, <1>a, SearchEffect
<1>c. Children(p)'
  BY <1>1, <1>b, ChildrenKept DEF Unmoved, Looks, Waits
<1>d. Own(p)'
  BY <1>1, <1>k, <1>m, <1>b, <1>c
     DEF Own, Solo, Ops, Life, Fields, Execing, Waiting, Unmoved, Searches, Selves, Parents, Childs,
         Changes, Able, Early, Late, Looks, Waits, Over, Dying, Exiting
<1>e. Quietly(p, "other") /\ OpMoves(p)
  BY <1>1, <1>k, <1>m, <1>b
     DEF Quietly, OpMoves, Loads, Dying, Over, Early, Late, Exiting
<1> QED BY <1>1, <1>b, <1>d, <1>e, PureMove

LEMMA OtherFoundInv ==
  ASSUME Careful, ProcessTypeInv, CallInv, NEW f \in [Node -> Int], Linked(f), NEW p \in Pid,
         OtherFound(p)
  PROVE  Good'
<1>1. Alone(p) /\ at[p] = "other" /\ op[p].do = "find"
  BY RunsAlone DEF OtherFound, Found
<1>2. Got(p) = p /\ p \in list /\ p \in Valid
  BY FindsSelf DEF OtherFound, Selves
<1>k. Ops(p) /\ Life(p) /\ Fields(p) /\ Execing(p) /\ Waiting(p)
  BY DEF CallInv, Known
<1>m. Go(p, "user") /\ UNCHANGED <<heap, locals, fault, ghosts>>
  BY <1>2 DEF OtherFound
<1>a. "user" \in Labels
  BY Names
<1>b. /\ at'[p] = "user" /\ op'[p].do = "none"
   /\ Solo(p) /\ Unmoved(p) /\ UNCHANGED <<next, prev, list, freed, reaped>>
  BY <1>m, <1>a, GoEffect
<1>c. Children(p)'
  BY <1>1, <1>b, ChildrenKept DEF Unmoved, Looks, Waits
<1>d. Own(p)'
  BY <1>1, <1>2, <1>k, <1>m, <1>b, <1>c
     DEF Own, Solo, Ops, Life, Fields, Execing, Waiting, Unmoved, Searches, Selves, Parents, Childs,
         Changes, Able, Early, Late, Looks, Waits, Over, Dying, Exiting
<1>e. Quietly(p, "user") /\ OpMoves(p)
  BY <1>1, <1>2, <1>k, <1>m, <1>b
     DEF Quietly, OpMoves, Loads, Dying, Over, Early, Late, Exiting
<1> QED BY <1>1, <1>b, <1>d, <1>e, PureMove

LEMMA ExitFoundInv ==
  ASSUME Careful, ProcessTypeInv, CallInv, NEW f \in [Node -> Int], Linked(f), NEW p \in Pid,
         ExitFound(p)
  PROVE  Good'
<1>1. Alone(p) /\ at[p] = "exit" /\ op[p].do = "find"
  BY RunsAlone DEF ExitFound, Found
<1>2. Got(p) = p /\ p \in list /\ p \in Valid
  BY FindsSelf DEF ExitFound, Selves
<1>3. proc[p].parent \in Pid \cup {None}
  BY DEF ProcessTypeInv, Struct
<1>k. Ops(p) /\ Life(p) /\ Fields(p) /\ Execing(p) /\ Waiting(p)
  BY DEF CallInv, Known
<1>m. Search(p, "exitparent", proc[p].parent) /\ UNCHANGED <<heap, locals, fault, ghosts>>
  BY <1>2 DEF ExitFound
<1>a. "exitparent" \in Labels
  BY Names
<1>b. /\ at'[p] = "exitparent" /\ op'[p].do = "find" /\ op'[p].on = First /\ op'[p].goal = proc[p].parent
   /\ Solo(p) /\ Unmoved(p) /\ UNCHANGED <<next, prev, list, freed, reaped>>
  BY <1>3, <1>m, <1>a, SearchEffect
<1>c. Children(p)'
  BY <1>1, <1>b, ChildrenKept DEF Unmoved, Looks, Waits
<1>d. Own(p)'
  BY <1>1, <1>2, <1>3, <1>k, <1>m, <1>b, <1>c
     DEF Own, Solo, Ops, Life, Fields, Execing, Waiting, Unmoved, Searches, Selves, Parents, Childs,
         Changes, Able, Early, Late, Looks, Waits, Over, Dying, Exiting
<1>e. Quietly(p, "exitparent") /\ OpMoves(p)
  BY <1>1, <1>2, <1>3, <1>k, <1>m, <1>b
     DEF Quietly, OpMoves, Loads, Dying, Over, Early, Late, Exiting
<1> QED BY <1>1, <1>b, <1>d, <1>e, PureMove

LEMMA ExitFreeInv ==
  ASSUME Careful, ProcessTypeInv, CallInv, NEW f \in [Node -> Int], Linked(f), NEW p \in Pid,
         ExitFree(p)
  PROVE  Good'
<1>1. Alone(p) /\ at[p] = "exitfree" /\ op[p].do = "none"
  BY RunsAlone DEF ExitFree, At
<1>2. /\ p \in list /\ p # Boot /\ par[p] = proc[p].parent /\ p \notin freed
      /\ proc[p].parent \in Valid /\ proc[p].parent \in Pid \ {p} /\ ~proc[proc[p].parent].dead
  <2>1. p \in list /\ p # Boot /\ par[p] = proc[p].parent
    BY <1>1 DEF CallInv, Known, Life, Fields, Over, Able, Early, Late, Looks, Waits
  <2> QED BY <2>1, LivingParent, OnList
<1>k. Ops(p) /\ Life(p) /\ Fields(p) /\ Execing(p) /\ Waiting(p)
  BY DEF CallInv, Known
<1>m. Go(p, "exitsignal") /\ UNCHANGED <<heap, locals, fault, ghosts>>
  BY <1>2, ProcessAssumption DEF ExitFree, Valid
<1>a. "exitsignal" \in Labels
  BY Names
<1>b. /\ at'[p] = "exitsignal" /\ op'[p].do = "none"
   /\ Solo(p) /\ Unmoved(p) /\ UNCHANGED <<next, prev, list, freed, reaped>>
  BY <1>m, <1>a, GoEffect
<1>c. Children(p)'
  BY <1>1, <1>b, ChildrenKept DEF Unmoved, Looks, Waits
<1>d. Own(p)'
  BY <1>1, <1>2, <1>k, <1>m, <1>b, <1>c
     DEF Own, Solo, Ops, Life, Fields, Execing, Waiting, Unmoved, Searches, Selves, Parents, Childs,
         Changes, Able, Early, Late, Looks, Waits, Over, Dying, Exiting
<1>e. Quietly(p, "exitsignal") /\ OpMoves(p)
  BY <1>1, <1>2, <1>k, <1>m, <1>b
     DEF Quietly, OpMoves, Loads, Dying, Over, Early, Late, Exiting
<1> QED BY <1>1, <1>b, <1>d, <1>e, PureMove

LEMMA ExitSignalInv ==
  ASSUME Careful, ProcessTypeInv, CallInv, NEW f \in [Node -> Int], Linked(f), NEW p \in Pid,
         ExitSignal(p)
  PROVE  Good'
<1>1. Alone(p) /\ at[p] = "exitsignal" /\ op[p].do = "none"
  BY RunsAlone DEF ExitSignal, At
<1>2. /\ p \in list /\ p # Boot /\ par[p] = proc[p].parent /\ p \notin freed
      /\ proc[p].parent \in Valid /\ proc[p].parent \in Pid \ {p} /\ ~proc[proc[p].parent].dead
  <2>1. p \in list /\ p # Boot /\ par[p] = proc[p].parent
    BY <1>1 DEF CallInv, Known, Life, Fields, Over, Able, Early, Late, Looks, Waits
  <2> QED BY <2>1, LivingParent, OnList
<1>k. Ops(p) /\ Life(p) /\ Fields(p) /\ Execing(p) /\ Waiting(p)
  BY DEF CallInv, Known
<1>x. CASE at[proc[p].parent] = "pwaitsleep"
  <2>m. Go(p, "exitup") /\ UNCHANGED <<heap, locals, fault, ghosts>>
    BY <1>2, <1>x DEF ExitSignal
  <2>a. "exitup" \in Labels
    BY Names
  <2>b. /\ at'[p] = "exitup" /\ op'[p].do = "none"
     /\ Solo(p) /\ Unmoved(p) /\ UNCHANGED <<next, prev, list, freed, reaped>>
    BY <2>m, <2>a, GoEffect
  <2>c. Children(p)'
    BY <1>1, <2>b, ChildrenKept DEF Unmoved, Looks, Waits
  <2>d. Own(p)'
    BY <1>1, <1>2, <1>k, <1>x, <2>m, <2>b, <2>c
       DEF Own, Solo, Ops, Life, Fields, Execing, Waiting, Unmoved, Searches, Selves, Parents, Childs,
           Changes, Able, Early, Late, Looks, Waits, Over, Dying, Exiting
  <2>e. Quietly(p, "exitup") /\ OpMoves(p)
    BY <1>1, <1>2, <1>k, <1>x, <2>m, <2>b
       DEF Quietly, OpMoves, Loads, Dying, Over, Early, Late, Exiting
  <2> QED BY <1>1, <2>b, <2>d, <2>e, PureMove
<1>y. CASE at[proc[p].parent] # "pwaitsleep"
  <2>m. Go(p, "exitreap") /\ UNCHANGED <<heap, locals, fault, ghosts>>
    BY <1>2, <1>y DEF ExitSignal
  <2>a. "exitreap" \in Labels
    BY Names
  <2>b. /\ at'[p] = "exitreap" /\ op'[p].do = "none"
     /\ Solo(p) /\ Unmoved(p) /\ UNCHANGED <<next, prev, list, freed, reaped>>
    BY <2>m, <2>a, GoEffect
  <2>c. Children(p)'
    BY <1>1, <2>b, ChildrenKept DEF Unmoved, Looks, Waits
  <2>d. Own(p)'
    BY <1>1, <1>2, <1>k, <1>y, <2>m, <2>b, <2>c
       DEF Own, Solo, Ops, Life, Fields, Execing, Waiting, Unmoved, Searches, Selves, Parents, Childs,
           Changes, Able, Early, Late, Looks, Waits, Over, Dying, Exiting
  <2>e. Quietly(p, "exitreap") /\ OpMoves(p)
    BY <1>1, <1>2, <1>k, <1>y, <2>m, <2>b
       DEF Quietly, OpMoves, Loads, Dying, Over, Early, Late, Exiting
  <2> QED BY <1>1, <2>b, <2>d, <2>e, PureMove
<1> QED BY <1>x, <1>y

LEMMA ExitChildInv ==
  ASSUME Careful, ProcessTypeInv, CallInv, NEW f \in [Node -> Int], Linked(f), NEW p \in Pid,
         ExitChild(p)
  PROVE  Good'
<1>1. Alone(p) /\ at[p] = "exitchild" /\ op[p].do = "find"
  BY RunsAlone DEF ExitChild, Found
<1>2. Got(p) = None
  <2>1. op[p].goal \in reaped /\ op[p].goal \in Pid
    BY <1>1 DEF CallInv, Known, Ops, ProcessTypeInv
  <2>2. op[p].goal \notin list
    BY <2>1 DEF CallInv, Known, Life
  <2> QED BY <2>2, Arrival DEF ExitChild
<1>3. None \notin freed
  BY OnList
<1>k. Ops(p) /\ Life(p) /\ Fields(p) /\ Execing(p) /\ Waiting(p)
  BY DEF CallInv, Known
<1>m. Go(p, "exitreap") /\ UNCHANGED <<heap, locals, fault, ghosts>>
  BY <1>2, <1>3 DEF ExitChild
<1>a. "exitreap" \in Labels
  BY Names
<1>b. /\ at'[p] = "exitreap" /\ op'[p].do = "none"
   /\ Solo(p) /\ Unmoved(p) /\ UNCHANGED <<next, prev, list, freed, reaped>>
  BY <1>m, <1>a, GoEffect
<1>c. Children(p)'
  BY <1>1, <1>b, ChildrenKept DEF Unmoved, Looks, Waits
<1>d. Own(p)'
  BY <1>1, <1>2, <1>3, <1>k, <1>m, <1>b, <1>c
     DEF Own, Solo, Ops, Life, Fields, Execing, Waiting, Unmoved, Searches, Selves, Parents, Childs,
         Changes, Able, Early, Late, Looks, Waits, Over, Dying, Exiting
<1>e. Quietly(p, "exitreap") /\ OpMoves(p)
  BY <1>1, <1>2, <1>3, <1>k, <1>m, <1>b
     DEF Quietly, OpMoves, Loads, Dying, Over, Early, Late, Exiting
<1> QED BY <1>1, <1>b, <1>d, <1>e, PureMove

LEMMA ExitCloseInv ==
  ASSUME Careful, ProcessTypeInv, CallInv, NEW f \in [Node -> Int], Linked(f), NEW p \in Pid,
         ExitClose(p)
  PROVE  Good'
<1>1. Alone(p) /\ at[p] = "exitclose" /\ op[p].do = "none"
  BY RunsAlone DEF ExitClose, At
<1>2. p \notin freed /\ proc[p].exec # "junk"
  BY <1>1 DEF CallInv, Known, Life, Fields
<1>k. Ops(p) /\ Life(p) /\ Fields(p) /\ Execing(p) /\ Waiting(p)
  BY DEF CallInv, Known
<1>m. Go(p, "gone") /\ UNCHANGED <<heap, locals, fault, ghosts>>
  BY <1>2 DEF ExitClose
<1>a. "gone" \in Labels
  BY Names
<1>b. /\ at'[p] = "gone" /\ op'[p].do = "none"
   /\ Solo(p) /\ Unmoved(p) /\ UNCHANGED <<next, prev, list, freed, reaped>>
  BY <1>m, <1>a, GoEffect
<1>c. Children(p)'
  BY <1>1, <1>b, ChildrenKept DEF Unmoved, Looks, Waits
<1>d. Own(p)'
  BY <1>1, <1>2, <1>k, <1>m, <1>b, <1>c
     DEF Own, Solo, Ops, Life, Fields, Execing, Waiting, Unmoved, Searches, Selves, Parents, Childs,
         Changes, Able, Early, Late, Looks, Waits, Over, Dying, Exiting
<1>e. Quietly(p, "gone") /\ OpMoves(p)
  BY <1>1, <1>2, <1>k, <1>m, <1>b
     DEF Quietly, OpMoves, Loads, Dying, Over, Early, Late, Exiting
<1> QED BY <1>1, <1>b, <1>d, <1>e, PureMove

LEMMA WaitDeadInv ==
  ASSUME Careful, ProcessTypeInv, CallInv, NEW f \in [Node -> Int], Linked(f), NEW p \in Pid,
         WaitDead(p)
  PROVE  Good'
<1>1. Alone(p) /\ at[p] = "waitdead" /\ op[p].do = "find"
  BY RunsAlone DEF WaitDead, Found
<1>2. /\ arg[p] \in Pid /\ arg[p] \in list /\ arg[p] \in Valid /\ arg[p] \in Unreaped(p)
      /\ Got(p) = arg[p] /\ arg[p] # p
  BY FindsChild DEF WaitDead, Childs, CallInv, Known, Children
<1>3. proc[arg[p]].dead <=> at[arg[p]] \in Dying
  BY <1>2 DEF CallInv, Known, Fields
<1>4. arg[p] \in Pid \cup {None} /\ cur[p] = p
  BY <1>1, <1>2 DEF CallInv, Known, Fields
<1>k. Ops(p) /\ Life(p) /\ Fields(p) /\ Execing(p) /\ Waiting(p)
  BY DEF CallInv, Known
<1>x. CASE proc[arg[p]].dead
  <2>m. Search(p, "status", arg[p]) /\ UNCHANGED <<heap, locals, fault, ghosts>>
    BY <1>2, <1>x DEF WaitDead
  <2>a. "status" \in Labels
    BY Names
  <2>b. /\ at'[p] = "status" /\ op'[p].do = "find" /\ op'[p].on = First /\ op'[p].goal = arg[p]
     /\ Solo(p) /\ Unmoved(p) /\ UNCHANGED <<next, prev, list, freed, reaped>>
    BY <1>4, <2>m, <2>a, SearchEffect
  <2>c. Children(p)'
    BY <1>1, <2>b, ChildrenKept DEF Unmoved, Looks, Waits
  <2>d. Own(p)'
    BY <1>1, <1>2, <1>3, <1>4, <1>k, <1>x, <2>m, <2>b, <2>c
       DEF Own, Solo, Ops, Life, Fields, Execing, Waiting, Unmoved, Searches, Selves, Parents, Childs,
           Changes, Able, Early, Late, Looks, Waits, Over, Dying, Exiting
  <2>e. Quietly(p, "status") /\ OpMoves(p)
    BY <1>1, <1>2, <1>3, <1>4, <1>k, <1>x, <2>m, <2>b
       DEF Quietly, OpMoves, Loads, Dying, Over, Early, Late, Exiting
  <2> QED BY <1>1, <2>b, <2>d, <2>e, PureMove
<1>y. CASE ~proc[arg[p]].dead
  <2>m. Go(p, "pwait") /\ UNCHANGED <<heap, locals, fault, ghosts>>
    BY <1>2, <1>y DEF WaitDead
  <2>a. "pwait" \in Labels
    BY Names
  <2>b. /\ at'[p] = "pwait" /\ op'[p].do = "none"
     /\ Solo(p) /\ Unmoved(p) /\ UNCHANGED <<next, prev, list, freed, reaped>>
    BY <2>m, <2>a, GoEffect
  <2>c. Children(p)'
    BY <1>1, <2>b, ChildrenKept DEF Unmoved, Looks, Waits
  <2>d. Own(p)'
    BY <1>1, <1>2, <1>3, <1>4, <1>k, <1>y, <2>m, <2>b, <2>c
       DEF Own, Solo, Ops, Life, Fields, Execing, Waiting, Unmoved, Searches, Selves, Parents, Childs,
           Changes, Able, Early, Late, Looks, Waits, Over, Dying, Exiting
  <2>e. Quietly(p, "pwait") /\ OpMoves(p)
    BY <1>1, <1>2, <1>3, <1>4, <1>k, <1>y, <2>m, <2>b
       DEF Quietly, OpMoves, Loads, Dying, Over, Early, Late, Exiting
  <2> QED BY <1>1, <2>b, <2>d, <2>e, PureMove
<1> QED BY <1>x, <1>y

LEMMA WaitRemoveInv ==
  ASSUME Careful, ProcessTypeInv, CallInv, NEW f \in [Node -> Int], Linked(f), NEW p \in Pid,
         WaitRemove(p)
  PROVE  Good'
<1>1. Alone(p) /\ at[p] = "waitremove" /\ op[p].do = "find"
  BY RunsAlone DEF WaitRemove, Found
<1>2. /\ arg[p] \in Pid /\ arg[p] \in list /\ arg[p] \in Valid /\ arg[p] \in Unreaped(p)
      /\ Got(p) = arg[p] /\ arg[p] # p
  BY FindsChild DEF WaitRemove, Childs, CallInv, Known, Children
<1>3. None \in Pid \cup {None}
  OBVIOUS
<1>k. Ops(p) /\ Life(p) /\ Fields(p) /\ Execing(p) /\ Waiting(p)
  BY DEF CallInv, Known
<1>m. Do(p, "removed", "skip", arg[p], None) /\ UNCHANGED <<heap, locals, fault, ghosts>>
  BY <1>2 DEF WaitRemove, Unlink
<1>a. "removed" \in Labels
  BY Names
<1>b. /\ at'[p] = "removed" /\ op'[p].do = "skip" /\ op'[p].on = arg[p] /\ op'[p].goal = None
   /\ Solo(p) /\ Unmoved(p) /\ UNCHANGED <<next, prev, list, freed, reaped>>
  BY <1>2, <1>3, <1>m, <1>a, UnlinkEffect
<1>c. Children(p)'
  BY <1>1, <1>b, ChildrenKept DEF Unmoved, Looks, Waits
<1>d. Own(p)'
  BY <1>1, <1>2, <1>3, <1>k, <1>m, <1>b, <1>c
     DEF Own, Solo, Ops, Life, Fields, Execing, Waiting, Unmoved, Searches, Selves, Parents, Childs,
         Changes, Able, Early, Late, Looks, Waits, Over, Dying, Exiting
<1>e. Quietly(p, "removed") /\ OpMoves(p)
  BY <1>1, <1>2, <1>3, <1>k, <1>m, <1>b
     DEF Quietly, OpMoves, Loads, Dying, Over, Early, Late, Exiting
<1> QED BY <1>1, <1>b, <1>d, <1>e, PureMove

LEMMA WaitRemovedInv ==
  ASSUME Careful, ProcessTypeInv, CallInv, NEW f \in [Node -> Int], Linked(f), NEW p \in Pid,
         WaitRemoved(p)
  PROVE  Good'
<1>1. Alone(p) /\ at[p] = "removed" /\ op[p].do = "none"
  BY RunsAlone DEF WaitRemoved, At
<1>2. arg[p] \in Pid /\ arg[p] \in Unreaped(p) /\ arg[p] # p
  <2>1. arg[p] \in Unreaped(p)
    BY <1>1 DEF CallInv, Known, Waiting, Waits
  <2> QED BY <2>1, UnreapedPids DEF CallInv, Known, Children
<1>k. Ops(p) /\ Life(p) /\ Fields(p) /\ Execing(p) /\ Waiting(p)
  BY DEF CallInv, Known
<1>m. Search(p, "waitfree", arg[p]) /\ UNCHANGED <<heap, locals, fault, ghosts>>
  BY DEF WaitRemoved
<1>a. "waitfree" \in Labels
  BY Names
<1>b. /\ at'[p] = "waitfree" /\ op'[p].do = "find" /\ op'[p].on = First /\ op'[p].goal = arg[p]
   /\ Solo(p) /\ Unmoved(p) /\ UNCHANGED <<next, prev, list, freed, reaped>>
  BY <1>2, <1>m, <1>a, SearchEffect
<1>c. Children(p)'
  BY <1>1, <1>b, ChildrenKept DEF Unmoved, Looks, Waits
<1>d. Own(p)'
  BY <1>1, <1>2, <1>k, <1>m, <1>b, <1>c
     DEF Own, Solo, Ops, Life, Fields, Execing, Waiting, Unmoved, Searches, Selves, Parents, Childs,
         Changes, Able, Early, Late, Looks, Waits, Over, Dying, Exiting
<1>e. Quietly(p, "waitfree") /\ OpMoves(p)
  BY <1>1, <1>2, <1>k, <1>m, <1>b
     DEF Quietly, OpMoves, Loads, Dying, Over, Early, Late, Exiting
<1> QED BY <1>1, <1>b, <1>d, <1>e, PureMove

-----------------------------------------------------------------------------
\* A call returns, with nothing stored but the semaphores of p.
LEMMA Returned ==
  ASSUME ProcessTypeInv, CallInv, NEW f \in [Node -> Int], Linked(f), NEW p \in Pid, Alone(p),
         at[p] \in {"exec", "waitfind", "waitparent", "execfailed"},
         op[p].do \notin {"tie", "close"}, at[p] = "execfailed" => arg[p] \notin list,
         NEW call, NEW child, NEW value, NEW early,
         [op |-> call, child |-> child, value |-> value, early |-> early] \in Result,
         Return(p, call, child, value, early),
         UNCHANGED <<next, prev, list, freed, reaped>>,
         \A q \in Pid \ {p} : proc'[q] = proc[q],
         proc'[p].parent = proc[p].parent, proc'[p].children = proc[p].children,
         proc'[p].dead = proc[p].dead, proc'[p].loaded = proc[p].loaded,
         proc'[p].status = proc[p].status, proc'[p].exec = proc[p].exec,
         proc'[p].pexec = 0, proc'[p].pwait = 0,
         Said(p)'
  PROVE  Good'
<1>1. /\ at'[p] = "user" /\ op'[p].do = "none"
      /\ \A q \in Pid \ {p} :
           /\ at'[q] = at[q] /\ op'[q] = op[q] /\ arg'[q] = arg[q] /\ cur'[q] = cur[q]
           /\ val'[q] = val[q] /\ ret'[q] = ret[q]
      /\ UNCHANGED <<par, fault, exited>>
  BY ReturnEffect
<1>2. Solo(p) /\ Unreaped(p)' = Unreaped(p)
  BY <1>1 DEF Solo, Unreaped
<1>3. Ops(p) /\ Life(p) /\ Fields(p)
  BY DEF CallInv, Known
<1>4. Children(p)'
  BY <1>1, <1>2, ChildrenKept
<1>5. Own(p)'
  <2>1. Ops(p)'
    BY <1>1 DEF Ops, Searches, Selves, Parents, Childs, Changes
  <2>2. Life(p)' /\ Fields(p)'
    BY <1>1, <1>3
       DEF Life, Fields, Able, Early, Late, Looks, Waits, Over, Dying, Exiting
  <2>3. Execing(p)' /\ Waiting(p)'
    BY <1>1 DEF Execing, Waiting, Early, Late, Waits
  <2> QED BY <1>4, <2>1, <2>2, <2>3 DEF Own
<1>6. Calm(p)
  BY <1>1, <1>2 DEF Calm, Loads, Dying, Over, Late, Exiting
<1>7. OpMoves(p)
  BY <1>1 DEF OpMoves
<1> QED
  BY <1>1, <1>2, <1>5, <1>6, <1>7, Moved DEF Early, Late

LEMMA WaitFindInv ==
  ASSUME Careful, ProcessTypeInv, CallInv, NEW f \in [Node -> Int], Linked(f), NEW p \in Pid,
         WaitFind(p)
  PROVE  Good'
<1>1. Alone(p) /\ at[p] = "waitfind" /\ op[p].do = "find"
  BY RunsAlone DEF WaitFind, Found
<1>2. /\ arg[p] \in list => arg[p] \notin freed
      /\ Got(p) = IF arg[p] \in list THEN arg[p] ELSE None
      /\ None \notin freed /\ None \notin Pid /\ arg[p] \in Pid
  BY FindsChild, OnList, ProcessAssumption DEF WaitFind, Childs
<1>k. Ops(p) /\ Life(p) /\ Fields(p) /\ Execing(p) /\ Waiting(p) /\ Children(p)
  BY DEF CallInv, Known
<1>x. CASE arg[p] \in list
  <2>m. Search(p, "waitparent", arg[p]) /\ UNCHANGED <<heap, locals, fault, ghosts>>
    BY <1>2, <1>x DEF WaitFind
  <2>a. "waitparent" \in Labels
    BY Names
  <2>b. /\ at'[p] = "waitparent"
        /\ op'[p].do = "find" /\ op'[p].on = First /\ op'[p].goal = arg[p]
        /\ Solo(p) /\ Unmoved(p) /\ UNCHANGED <<next, prev, list, freed, reaped>>
    BY <1>2, <2>m, <2>a, SearchEffect
  <2>c. Children(p)'
    BY <1>1, <2>b, ChildrenKept DEF Unmoved, Looks, Waits
  <2>d. Own(p)'
    BY <1>1, <1>2, <1>k, <1>x, <2>b, <2>c
       DEF Own, Solo, Ops, Life, Fields, Execing, Waiting, Unmoved, Searches, Selves, Parents,
           Childs, Changes, Able, Early, Late, Looks, Waits, Over, Dying, Exiting
  <2>e. Quietly(p, "waitparent") /\ OpMoves(p)
    BY <1>1, <2>b DEF Quietly, OpMoves, Loads, Dying, Over, Early, Late, Exiting
  <2> QED BY <1>1, <2>b, <2>d, <2>e, PureMove
<1>y. CASE arg[p] \notin list
  <2>1. Return(p, "wait", arg[p], -1, TRUE) /\ UNCHANGED <<heap, reaped>>
    BY <1>2, <1>y DEF WaitFind
  <2>2. [op |-> "wait", child |-> arg[p], value |-> -1, early |-> TRUE] \in Result
    BY <1>2, Names DEF Result
  <2>3. /\ UNCHANGED <<proc, next, prev, list, freed, reaped>>
        /\ ret'[p] = [op |-> "wait", child |-> arg[p], value |-> -1, early |-> TRUE]
    BY <2>1 DEF Return, heap, ProcessTypeInv
  <2>4. proc'[p].pexec = 0 /\ proc'[p].pwait = 0
    BY <1>1, <1>k, <2>3 DEF Fields
  <2>5. arg[p] \notin Unreaped(p) /\ Unreaped(p)' = Unreaped(p)
    BY <1>1, <1>k, <1>y, <2>3 DEF Children, Unreaped
  <2>6. Said(p)'
    BY <1>2, <2>3, <2>5 DEF Said
  <2> QED BY <1>1, <2>1, <2>2, <2>3, <2>4, <2>6, Returned
<1> QED BY <1>x, <1>y

LEMMA WaitParentInv ==
  ASSUME Careful, ProcessTypeInv, CallInv, NEW f \in [Node -> Int], Linked(f), NEW p \in Pid,
         WaitParent(p)
  PROVE  Good'
<1>1. Alone(p) /\ at[p] = "waitparent" /\ op[p].do = "find"
  BY RunsAlone DEF WaitParent, Found
<1>k. /\ Ops(p) /\ Life(p) /\ Fields(p) /\ Execing(p) /\ Waiting(p) /\ Children(p)
      /\ \A q \in Pid : Parent(q) /\ Fields(q)
  BY DEF CallInv, Known
<1>2. /\ arg[p] \in Pid /\ arg[p] \in list /\ Got(p) = arg[p] /\ cur[p] = p
      /\ {cur[p], Got(p)} \subseteq Valid
  BY <1>1, <1>k, FindsChild DEF WaitParent, Childs, Fields
<1>x. CASE proc[arg[p]].parent = p
  <2>m. Search(p, "waitdead", arg[p]) /\ UNCHANGED <<heap, locals, fault, ghosts>>
    BY <1>2, <1>x DEF WaitParent
  <2>1. arg[p] \in Unreaped(p)
    <3>1. arg[p] # Boot
      BY <1>2, <1>k, <1>x, ProcessAssumption DEF Fields
    <3> QED BY <1>1, <1>2, <1>k, <1>x, <3>1 DEF Parent, Late
  <2>a. "waitdead" \in Labels
    BY Names
  <2>b. /\ at'[p] = "waitdead"
        /\ op'[p].do = "find" /\ op'[p].on = First /\ op'[p].goal = arg[p]
        /\ Solo(p) /\ Unmoved(p) /\ UNCHANGED <<next, prev, list, freed, reaped>>
    BY <1>2, <2>m, <2>a, SearchEffect
  <2>c. Children(p)'
    BY <1>1, <2>b, ChildrenKept DEF Unmoved, Looks, Waits
  <2>d. Own(p)'
    BY <1>1, <1>2, <1>k, <2>1, <2>b, <2>c
       DEF Own, Solo, Ops, Life, Fields, Execing, Waiting, Unmoved, Searches, Selves, Parents,
           Childs, Changes, Able, Early, Late, Looks, Waits, Over, Dying, Exiting
  <2>e. Quietly(p, "waitdead") /\ OpMoves(p)
    BY <1>1, <2>b DEF Quietly, OpMoves, Loads, Dying, Over, Early, Late, Exiting
  <2> QED BY <1>1, <2>b, <2>d, <2>e, PureMove
<1>y. CASE proc[arg[p]].parent # p
  <2>1. Return(p, "wait", arg[p], -1, TRUE) /\ UNCHANGED <<heap, reaped>>
    BY <1>2, <1>y DEF WaitParent
  <2>2. [op |-> "wait", child |-> arg[p], value |-> -1, early |-> TRUE] \in Result
    BY <1>2, Names DEF Result
  <2>3. /\ UNCHANGED <<proc, next, prev, list, freed, reaped>>
        /\ ret'[p] = [op |-> "wait", child |-> arg[p], value |-> -1, early |-> TRUE]
    BY <2>1 DEF Return, heap, ProcessTypeInv
  <2>4. proc'[p].pexec = 0 /\ proc'[p].pwait = 0
    BY <1>1, <1>k, <2>3 DEF Fields
  <2>5. arg[p] \notin Unreaped(p) /\ Unreaped(p)' = Unreaped(p)
    BY <1>1, <1>k, <1>y, <2>3 DEF Children, Unreaped
  <2>6. Said(p)'
    BY <1>2, <2>3, <2>5 DEF Said
  <2> QED BY <1>1, <2>1, <2>2, <2>3, <2>4, <2>6, Returned
<1> QED BY <1>x, <1>y

LEMMA ExecFailedInv ==
  ASSUME Careful, ProcessTypeInv, CallInv, NEW f \in [Node -> Int], Linked(f), NEW p \in Pid,
         ExecFailed(p)
  PROVE  Good'
<1>1. Alone(p) /\ at[p] = "execfailed" /\ op[p].do = "none"
  BY RunsAlone DEF ExecFailed, At
<1>k. Fields(p) /\ Execing(p)
  BY DEF CallInv, Known
<1>2. /\ arg[p] \in Pid /\ arg[p] # p /\ arg[p] \notin list /\ at[arg[p]] = "gone"
      /\ ~proc[arg[p]].loaded
  BY <1>1, <1>k DEF Execing, Late
<1>3. Return(p, "exec", arg[p], -1, FALSE) /\ UNCHANGED <<heap, reaped>>
  BY DEF ExecFailed
<1>4. [op |-> "exec", child |-> arg[p], value |-> -1, early |-> FALSE] \in Result
  BY <1>2, Names DEF Result
<1>5. /\ UNCHANGED <<proc, next, prev, list, freed, reaped>> /\ at'[arg[p]] = at[arg[p]]
      /\ ret'[p] = [op |-> "exec", child |-> arg[p], value |-> -1, early |-> FALSE]
  BY <1>2, <1>3 DEF Return, Go, Do, heap, ProcessTypeInv
<1>6. proc'[p].pexec = 0 /\ proc'[p].pwait = 0
  BY <1>1, <1>k, <1>5 DEF Fields
<1>7. Said(p)'
  BY <1>2, <1>5, ProcessAssumption DEF Said
<1> QED BY <1>1, <1>2, <1>3, <1>4, <1>5, <1>6, <1>7, Returned

-----------------------------------------------------------------------------
\* Of the struct of p only the fields named may change.
Keeps(p, fields) ==
  /\ proc'[p].parent = proc[p].parent /\ proc'[p].children = proc[p].children
  /\ "dead" \in fields \/ proc'[p].dead = proc[p].dead
  /\ "loaded" \in fields \/ proc'[p].loaded = proc[p].loaded
  /\ "status" \in fields \/ proc'[p].status = proc[p].status
  /\ "exec" \in fields \/ proc'[p].exec = proc[p].exec
  /\ "pexec" \in fields \/ proc'[p].pexec = proc[p].pexec
  /\ "pwait" \in fields \/ proc'[p].pwait = proc[p].pwait

LEMMA SearchMoves ==
  ASSUME ProcessTypeInv, NEW p \in Pid, NEW label \in Labels, NEW goal \in Pid \cup {None},
         Search(p, label, goal)
  PROVE  /\ at'[p] = label /\ op'[p].do = "find" /\ op'[p].on = First /\ op'[p].goal = goal
         /\ \A q \in Pid \ {p} : at'[q] = at[q] /\ op'[q] = op[q]
<1>1. Do(p, label, "find", First, goal)
  BY DEF Search
<1> QED
  BY <1>1, Names, DoEffect

LEMMA GoMoves ==
  ASSUME ProcessTypeInv, NEW p \in Pid, NEW label \in Labels, Go(p, label)
  PROVE  /\ at'[p] = label /\ op'[p].do = "none"
         /\ \A q \in Pid \ {p} : at'[q] = at[q] /\ op'[q] = op[q]
<1>1. Do(p, label, "none", End, None)
  BY DEF Go
<1> QED
  BY <1>1, Names, DoEffect

\* The steps that store to the struct or the locals of the thread that moves.
LEMMA ChildFoundInv ==
  ASSUME Careful, ProcessTypeInv, CallInv, NEW f \in [Node -> Int], Linked(f), NEW p \in Pid,
         NEW success \in BOOLEAN, ChildFound(p, success)
  PROVE  Good'
<1>1. Alone(p) /\ at[p] = "loading" /\ op[p].do = "find"
  BY RunsAlone DEF ChildFound, Found
<1>2. Got(p) = p /\ p \in list /\ p \in Valid
  BY FindsSelf DEF ChildFound, Selves
<1>3. proc[p].parent \in Pid \cup {None}
  BY DEF ProcessTypeInv, Struct
<1>k. Ops(p) /\ Life(p) /\ Fields(p) /\ Execing(p) /\ Waiting(p)
  BY DEF CallInv, Known
<1>m. /\ proc' = [proc EXCEPT ![p].loaded = success] /\ Search(p, "signal", proc[p].parent)
      /\ UNCHANGED <<next, prev, list, freed, locals, fault, ghosts>>
  BY <1>2 DEF ChildFound
<1>a. "signal" \in Labels
  BY Names
<1>b. /\ at'[p] = "signal" /\ op'[p].do = "find" /\ op'[p].on = First /\ op'[p].goal = proc[p].parent
      /\ \A q \in Pid \ {p} : at'[q] = at[q] /\ op'[q] = op[q]
  BY <1>2, <1>3, <1>m, <1>a, SearchMoves DEF ProcessTypeInv, Struct
<1>v. /\ Keeps(p, {"loaded"}) /\ arg'[p] = arg[p] /\ cur'[p] = cur[p] /\ par'[p] = par[p]
      /\ val'[p] = val[p] /\ exited'[p] = exited[p] /\ ret'[p] = ret[p]
  BY <1>m DEF ProcessTypeInv, Struct, Keeps, heap, locals, ghosts
<1>s. Solo(p) /\ UNCHANGED <<next, prev, list, freed, reaped>>
  BY <1>m, <1>b DEF Solo, heap, locals, ghosts, ProcessTypeInv
<1>u. Unreaped(p)' = Unreaped(p)
  BY <1>v, <1>s DEF Unreaped, Keeps
<1>c. Children(p)'
  BY <1>1, <1>b, <1>s, <1>u, ChildrenKept DEF Looks, Waits
<1>d. Own(p)'
  BY <1>1, <1>2, <1>3, <1>k, <1>b, <1>c, <1>v, <1>s, <1>u
     DEF Own, Solo, Keeps, Ops, Life, Fields, Execing, Waiting, Searches, Selves, Parents,
         Childs, Changes, Able, Early, Late, Looks, Waits, Loads, Over, Dying,
         Exiting
<1>e. Calm(p) /\ OpMoves(p)
  BY <1>1, <1>2, <1>3, <1>b, <1>v, <1>s, <1>u
     DEF Calm, OpMoves, Keeps, Loads, Dying, Over, Early, Late, Looks, Waits, Exiting
<1>f. Said(p)'
  BY <1>v, <1>s, <1>u, <1>e, SaidKept
<1> QED
  BY <1>1, <1>b, <1>d, <1>e, <1>f, <1>s, <1>v, Moved DEF Early, Late

LEMMA ChildRunInv ==
  ASSUME Careful, ProcessTypeInv, CallInv, NEW f \in [Node -> Int], Linked(f), NEW p \in Pid,
         ChildRun(p)
  PROVE  Good'
<1>1. Alone(p) /\ at[p] = "loaded" /\ op[p].do = "none"
  BY RunsAlone DEF ChildRun, At
<1>2. p \notin freed
  BY <1>1 DEF CallInv, Known, Life
<1>k. Ops(p) /\ Life(p) /\ Fields(p) /\ Execing(p) /\ Waiting(p)
  BY DEF CallInv, Known
<1>m. /\ proc' = [proc EXCEPT ![p].exec = "file"] /\ Go(p, "user")
      /\ UNCHANGED <<next, prev, list, freed, locals, fault, ghosts>>
  BY <1>2 DEF ChildRun
<1>a. "user" \in Labels
  BY Names
<1>b. /\ at'[p] = "user" /\ op'[p].do = "none"
      /\ \A q \in Pid \ {p} : at'[q] = at[q] /\ op'[q] = op[q]
  BY <1>2, <1>m, <1>a, GoMoves DEF ProcessTypeInv, Struct
<1>v. /\ Keeps(p, {"exec"}) /\ proc'[p].exec = "file"
      /\ arg'[p] = arg[p] /\ cur'[p] = cur[p] /\ par'[p] = par[p]
      /\ val'[p] = val[p] /\ exited'[p] = exited[p] /\ ret'[p] = ret[p]
  BY <1>m DEF ProcessTypeInv, Struct, Keeps, heap, locals, ghosts
<1>s. Solo(p) /\ UNCHANGED <<next, prev, list, freed, reaped>>
  BY <1>m, <1>b DEF Solo, heap, locals, ghosts, ProcessTypeInv
<1>u. Unreaped(p)' = Unreaped(p)
  BY <1>v, <1>s DEF Unreaped, Keeps
<1>c. Children(p)'
  BY <1>1, <1>b, <1>s, <1>u, ChildrenKept DEF Looks, Waits
<1>d. Own(p)'
  BY <1>1, <1>2, <1>k, <1>b, <1>c, <1>v, <1>s, <1>u
     DEF Own, Solo, Keeps, Ops, Life, Fields, Execing, Waiting, Searches, Selves, Parents,
         Childs, Changes, Able, Early, Late, Looks, Waits, Loads, Over, Dying,
         Exiting
<1>e. Calm(p) /\ OpMoves(p)
  BY <1>1, <1>2, <1>b, <1>v, <1>s, <1>u
     DEF Calm, OpMoves, Keeps, Loads, Dying, Over, Early, Late, Looks, Waits, Exiting
<1>f. Said(p)'
  BY <1>v, <1>s, <1>u, <1>e, SaidKept
<1> QED
  BY <1>1, <1>b, <1>d, <1>e, <1>f, <1>s, <1>v, Moved DEF Early, Late

LEMMA ChildFailInv ==
  ASSUME Careful, ProcessTypeInv, CallInv, NEW f \in [Node -> Int], Linked(f), NEW p \in Pid,
         ChildFail(p)
  PROVE  Good'
<1>1. Alone(p) /\ at[p] = "failed" /\ op[p].do = "none"
  BY RunsAlone DEF ChildFail, At
<1>k. Ops(p) /\ Life(p) /\ Fields(p) /\ Execing(p) /\ Waiting(p)
  BY DEF CallInv, Known
<1>m. /\ val' = [val EXCEPT ![p] = -1] /\ ret' = [ret EXCEPT ![p] = NoRet] /\ Search(p, "setstatus", p)
      /\ UNCHANGED <<heap, cur, par, arg, fault, exited, reaped>>
  BY DEF ChildFail, SysExit
<1>a. "setstatus" \in Labels
  BY Names
<1>b. /\ at'[p] = "setstatus" /\ op'[p].do = "find" /\ op'[p].on = First /\ op'[p].goal = p
      /\ \A q \in Pid \ {p} : at'[q] = at[q] /\ op'[q] = op[q]
  BY <1>m, <1>a, SearchMoves DEF ProcessTypeInv, Struct
<1>v. /\ Keeps(p, {}) /\ arg'[p] = arg[p] /\ cur'[p] = cur[p] /\ par'[p] = par[p]
      /\ exited'[p] = exited[p] /\ ret'[p] = NoRet
  BY <1>m DEF ProcessTypeInv, Struct, Keeps, heap, locals, ghosts
<1>s. Solo(p) /\ UNCHANGED <<next, prev, list, freed, reaped>>
  BY <1>m, <1>b DEF Solo, heap, locals, ghosts, ProcessTypeInv
<1>u. Unreaped(p)' = Unreaped(p)
  BY <1>v, <1>s DEF Unreaped, Keeps
<1>c. Children(p)'
  BY <1>1, <1>b, <1>s, <1>u, ChildrenKept DEF Looks, Waits
<1>d. Own(p)'
  BY <1>1, <1>k, <1>b, <1>c, <1>v, <1>s, <1>u
     DEF Own, Solo, Keeps, Ops, Life, Fields, Execing, Waiting, Searches, Selves, Parents,
         Childs, Changes, Able, Early, Late, Looks, Waits, Loads, Over, Dying,
         Exiting
<1>e. Calm(p) /\ OpMoves(p)
  BY <1>1, <1>b, <1>v, <1>s, <1>u
     DEF Calm, OpMoves, Keeps, Loads, Dying, Over, Early, Late, Looks, Waits, Exiting
<1>f. Said(p)'
  BY <1>v DEF Said, NoRet
<1> QED
  BY <1>1, <1>b, <1>d, <1>e, <1>f, <1>s, <1>v, Moved DEF Early, Late

LEMMA CallExitInv ==
  ASSUME Careful, ProcessTypeInv, CallInv, NEW f \in [Node -> Int], Linked(f), NEW p \in Pid,
         NEW s \in Status, CallExit(p, s)
  PROVE  Good'
<1>1. Alone(p) /\ at[p] = "user" /\ op[p].do = "none"
  BY RunsAlone DEF CallExit, At
<1>2. p # Boot /\ Unreaped(p) = {}
  BY DEF CallExit, MayEnd, Careful, Conditions
<1>k. Ops(p) /\ Life(p) /\ Fields(p) /\ Execing(p) /\ Waiting(p)
  BY DEF CallInv, Known
<1>m. /\ val' = [val EXCEPT ![p] = s] /\ ret' = [ret EXCEPT ![p] = NoRet] /\ Search(p, "setstatus", p)
      /\ UNCHANGED <<heap, cur, par, arg, fault, exited, reaped>>
  BY DEF CallExit, SysExit
<1>a. "setstatus" \in Labels
  BY Names
<1>b. /\ at'[p] = "setstatus" /\ op'[p].do = "find" /\ op'[p].on = First /\ op'[p].goal = p
      /\ \A q \in Pid \ {p} : at'[q] = at[q] /\ op'[q] = op[q]
  BY <1>2, <1>m, <1>a, SearchMoves DEF ProcessTypeInv, Struct
<1>v. /\ Keeps(p, {}) /\ arg'[p] = arg[p] /\ cur'[p] = cur[p] /\ par'[p] = par[p]
      /\ exited'[p] = exited[p] /\ ret'[p] = NoRet
  BY <1>m DEF ProcessTypeInv, Struct, Keeps, heap, locals, ghosts
<1>s. Solo(p) /\ UNCHANGED <<next, prev, list, freed, reaped>>
  BY <1>m, <1>b DEF Solo, heap, locals, ghosts, ProcessTypeInv
<1>u. Unreaped(p)' = Unreaped(p)
  BY <1>v, <1>s DEF Unreaped, Keeps
<1>c. Children(p)'
  BY <1>2, <1>u DEF Children
<1>d. Own(p)'
  BY <1>1, <1>2, <1>k, <1>b, <1>c, <1>v, <1>s, <1>u
     DEF Own, Solo, Keeps, Ops, Life, Fields, Execing, Waiting, Searches, Selves, Parents,
         Childs, Changes, Able, Early, Late, Looks, Waits, Loads, Over, Dying,
         Exiting
<1>e. Calm(p) /\ OpMoves(p)
  BY <1>1, <1>2, <1>b, <1>v, <1>s, <1>u
     DEF Calm, OpMoves, Keeps, Loads, Dying, Over, Early, Late, Looks, Waits, Exiting
<1>f. Said(p)'
  BY <1>v DEF Said, NoRet
<1> QED
  BY <1>1, <1>b, <1>d, <1>e, <1>f, <1>s, <1>v, Moved DEF Early, Late

LEMMA KilledInv ==
  ASSUME Careful, ProcessTypeInv, CallInv, NEW f \in [Node -> Int], Linked(f), NEW p \in Pid,
         Killed(p)
  PROVE  Good'
<1>1. Alone(p) /\ at[p] = "user" /\ op[p].do = "none"
  BY RunsAlone DEF Killed, At
<1>2. p # Boot /\ Unreaped(p) = {}
  BY DEF Killed, MayEnd, Careful, Conditions
<1>k. Ops(p) /\ Life(p) /\ Fields(p) /\ Execing(p) /\ Waiting(p)
  BY DEF CallInv, Known
<1>m. /\ exited' = [exited EXCEPT ![p] = ByKernel] /\ ret' = [ret EXCEPT ![p] = NoRet]
      /\ Search(p, "exit", p) /\ UNCHANGED <<heap, locals, fault, reaped>>
  BY DEF Killed
<1>a. "exit" \in Labels
  BY Names
<1>b. /\ at'[p] = "exit" /\ op'[p].do = "find" /\ op'[p].on = First /\ op'[p].goal = p
      /\ \A q \in Pid \ {p} : at'[q] = at[q] /\ op'[q] = op[q]
  BY <1>2, <1>m, <1>a, SearchMoves DEF ProcessTypeInv, Struct
<1>v. /\ Keeps(p, {}) /\ arg'[p] = arg[p] /\ cur'[p] = cur[p] /\ par'[p] = par[p]
      /\ exited'[p] = ByKernel /\ ret'[p] = NoRet
  BY <1>m DEF ProcessTypeInv, Struct, Keeps, heap, locals, ghosts
<1>s. Solo(p) /\ UNCHANGED <<next, prev, list, freed, reaped>>
  BY <1>m, <1>b DEF Solo, heap, locals, ghosts, ProcessTypeInv
<1>u. Unreaped(p)' = Unreaped(p)
  BY <1>v, <1>s DEF Unreaped, Keeps
<1>c. Children(p)'
  BY <1>2, <1>u DEF Children
<1>d. Own(p)'
  BY <1>1, <1>2, <1>k, <1>b, <1>c, <1>v, <1>s, <1>u
     DEF Own, Solo, Keeps, Ops, Life, Fields, Execing, Waiting, Searches, Selves, Parents,
         Childs, Changes, Able, Early, Late, Looks, Waits, Loads, Over, Dying,
         Exiting
<1>e. Calm(p) /\ OpMoves(p)
  BY <1>1, <1>2, <1>b, <1>v, <1>s, <1>u
     DEF Calm, OpMoves, Keeps, Loads, Dying, Over, Early, Late, Looks, Waits, Exiting
<1>f. Said(p)'
  BY <1>v DEF Said, NoRet
<1> QED
  BY <1>1, <1>b, <1>d, <1>e, <1>f, <1>s, <1>v, Moved DEF Early, Late

LEMMA SetStatusInv ==
  ASSUME Careful, ProcessTypeInv, CallInv, NEW f \in [Node -> Int], Linked(f), NEW p \in Pid,
         SetStatus(p)
  PROVE  Good'
<1>1. Alone(p) /\ at[p] = "setstatus" /\ op[p].do = "find"
  BY RunsAlone DEF SetStatus, Found
<1>2. Got(p) = p /\ p \in list /\ p \in Valid
  BY FindsSelf DEF SetStatus, Selves
<1>k. Ops(p) /\ Life(p) /\ Fields(p) /\ Execing(p) /\ Waiting(p)
  BY DEF CallInv, Known
<1>m. /\ proc' = [proc EXCEPT ![p].status = val[p]] /\ exited' = [exited EXCEPT ![p] = val[p]]
      /\ Search(p, "exit", p)
      /\ UNCHANGED <<next, prev, list, freed, locals, fault, reaped, ret>>
  BY <1>2 DEF SetStatus
<1>a. "exit" \in Labels
  BY Names
<1>b. /\ at'[p] = "exit" /\ op'[p].do = "find" /\ op'[p].on = First /\ op'[p].goal = p
      /\ \A q \in Pid \ {p} : at'[q] = at[q] /\ op'[q] = op[q]
  BY <1>2, <1>m, <1>a, SearchMoves DEF ProcessTypeInv, Struct
<1>v. /\ Keeps(p, {"status"}) /\ proc'[p].status = val[p] /\ exited'[p] = val[p]
      /\ arg'[p] = arg[p] /\ cur'[p] = cur[p] /\ par'[p] = par[p]
      /\ ret'[p] = ret[p]
  BY <1>m DEF ProcessTypeInv, Struct, Keeps, heap, locals, ghosts
<1>s. Solo(p) /\ UNCHANGED <<next, prev, list, freed, reaped>>
  BY <1>m, <1>b DEF Solo, heap, locals, ghosts, ProcessTypeInv
<1>u. Unreaped(p)' = Unreaped(p)
  BY <1>v, <1>s DEF Unreaped, Keeps
<1>c. Children(p)'
  BY <1>1, <1>b, <1>s, <1>u, ChildrenKept DEF Looks, Waits
<1>d. Own(p)'
  BY <1>1, <1>2, <1>k, <1>b, <1>c, <1>v, <1>s, <1>u
     DEF Own, Solo, Keeps, Ops, Life, Fields, Execing, Waiting, Searches, Selves, Parents,
         Childs, Changes, Able, Early, Late, Looks, Waits, Loads, Over, Dying,
         Exiting
<1>e. Calm(p) /\ OpMoves(p)
  BY <1>1, <1>2, <1>b, <1>v, <1>s, <1>u
     DEF Calm, OpMoves, Keeps, Loads, Dying, Over, Early, Late, Looks, Waits, Exiting
<1>f. Said(p)'
  BY <1>v, <1>s, <1>u, <1>e, SaidKept
<1> QED
  BY <1>1, <1>b, <1>d, <1>e, <1>f, <1>s, <1>v, Moved DEF Early, Late

LEMMA ExitMarkInv ==
  ASSUME Careful, ProcessTypeInv, CallInv, NEW f \in [Node -> Int], Linked(f), NEW p \in Pid,
         ExitMark(p)
  PROVE  Good'
<1>1. Alone(p) /\ at[p] = "exitparent" /\ op[p].do = "find"
  BY RunsAlone DEF ExitMark, Found
<1>2. Got(p) = proc[p].parent /\ p \in list /\ p # Boot
  BY FindsParent DEF ExitMark, Parents
<1>3. proc[p].parent \notin freed /\ p \notin freed
  BY <1>2, LivingParent, OnList
<1>k. Ops(p) /\ Life(p) /\ Fields(p) /\ Execing(p) /\ Waiting(p)
  BY DEF CallInv, Known
<1>m. /\ proc' = [proc EXCEPT ![p].dead = TRUE] /\ par' = [par EXCEPT ![p] = proc[p].parent]
      /\ Go(p, "exitfree")
      /\ UNCHANGED <<next, prev, list, freed, cur, arg, val, fault, ghosts>>
  BY <1>2, <1>3 DEF ExitMark
<1>a. "exitfree" \in Labels
  BY Names
<1>b. /\ at'[p] = "exitfree" /\ op'[p].do = "none"
      /\ \A q \in Pid \ {p} : at'[q] = at[q] /\ op'[q] = op[q]
  BY <1>2, <1>3, <1>m, <1>a, GoMoves DEF ProcessTypeInv, Struct
<1>v. /\ Keeps(p, {"dead"}) /\ proc'[p].dead = TRUE /\ par'[p] = proc[p].parent
      /\ arg'[p] = arg[p] /\ cur'[p] = cur[p] /\ val'[p] = val[p]
      /\ exited'[p] = exited[p] /\ ret'[p] = ret[p]
  BY <1>m DEF ProcessTypeInv, Struct, Keeps, heap, locals, ghosts
<1>s. Solo(p) /\ UNCHANGED <<next, prev, list, freed, reaped>>
  BY <1>m, <1>b DEF Solo, heap, locals, ghosts, ProcessTypeInv
<1>u. Unreaped(p)' = Unreaped(p)
  BY <1>v, <1>s DEF Unreaped, Keeps
<1>c. Children(p)'
  BY <1>1, <1>b, <1>s, <1>u, ChildrenKept DEF Looks, Waits
<1>d. Own(p)'
  BY <1>1, <1>2, <1>3, <1>k, <1>b, <1>c, <1>v, <1>s, <1>u
     DEF Own, Solo, Keeps, Ops, Life, Fields, Execing, Waiting, Searches, Selves, Parents,
         Childs, Changes, Able, Early, Late, Looks, Waits, Loads, Over, Dying,
         Exiting
<1>e. Calm(p) /\ OpMoves(p)
  BY <1>1, <1>2, <1>3, <1>b, <1>v, <1>s, <1>u
     DEF Calm, OpMoves, Keeps, Loads, Dying, Over, Early, Late, Looks, Waits, Exiting
<1>f. Said(p)'
  BY <1>v, <1>s, <1>u, <1>e, SaidKept
<1> QED
  BY <1>1, <1>b, <1>d, <1>e, <1>f, <1>s, <1>v, Moved DEF Early, Late

LEMMA CallWaitInv ==
  ASSUME Careful, ProcessTypeInv, CallInv, NEW f \in [Node -> Int], Linked(f), NEW p \in Pid,
         NEW c \in Pid, CallWait(p, c)
  PROVE  Good'
<1>1. Alone(p) /\ at[p] = "user" /\ op[p].do = "none"
  BY RunsAlone DEF CallWait, At
<1>k. Ops(p) /\ Life(p) /\ Fields(p) /\ Execing(p) /\ Waiting(p)
  BY DEF CallInv, Known
<1>m. /\ arg' = [arg EXCEPT ![p] = c] /\ ret' = [ret EXCEPT ![p] = NoRet] /\ Search(p, "wait", p)
      /\ UNCHANGED <<heap, cur, par, val, fault, exited, reaped>>
  BY DEF CallWait
<1>a. "wait" \in Labels
  BY Names
<1>b. /\ at'[p] = "wait" /\ op'[p].do = "find" /\ op'[p].on = First /\ op'[p].goal = p
      /\ \A q \in Pid \ {p} : at'[q] = at[q] /\ op'[q] = op[q]
  BY <1>m, <1>a, SearchMoves DEF ProcessTypeInv, Struct
<1>v. /\ Keeps(p, {}) /\ arg'[p] = c /\ cur'[p] = cur[p] /\ par'[p] = par[p]
      /\ val'[p] = val[p] /\ exited'[p] = exited[p] /\ ret'[p] = NoRet
  BY <1>m DEF ProcessTypeInv, Struct, Keeps, heap, locals, ghosts
<1>s. Solo(p) /\ UNCHANGED <<next, prev, list, freed, reaped>>
  BY <1>m, <1>b DEF Solo, heap, locals, ghosts, ProcessTypeInv
<1>u. Unreaped(p)' = Unreaped(p)
  BY <1>v, <1>s DEF Unreaped, Keeps
<1>c. Children(p)'
  BY <1>1, <1>b, <1>s, <1>u, ChildrenKept DEF Looks, Waits
<1>d. Own(p)'
  BY <1>1, <1>k, <1>b, <1>c, <1>v, <1>s, <1>u
     DEF Own, Solo, Keeps, Ops, Life, Fields, Execing, Waiting, Searches, Selves, Parents,
         Childs, Changes, Able, Early, Late, Looks, Waits, Loads, Over, Dying,
         Exiting
<1>e. Calm(p) /\ OpMoves(p)
  BY <1>1, <1>b, <1>v, <1>s, <1>u
     DEF Calm, OpMoves, Keeps, Loads, Dying, Over, Early, Late, Looks, Waits, Exiting
<1>f. Said(p)'
  BY <1>v DEF Said, NoRet
<1> QED
  BY <1>1, <1>b, <1>d, <1>e, <1>f, <1>s, <1>v, Moved DEF Early, Late

LEMMA WaitSelfInv ==
  ASSUME Careful, ProcessTypeInv, CallInv, NEW f \in [Node -> Int], Linked(f), NEW p \in Pid,
         WaitSelf(p)
  PROVE  Good'
<1>1. Alone(p) /\ at[p] = "wait" /\ op[p].do = "find"
  BY RunsAlone DEF WaitSelf, Found
<1>2. Got(p) = p /\ p \in list /\ p \in Valid
  BY FindsSelf DEF WaitSelf, Selves
<1>3. p \notin freed /\ arg[p] \in Pid \cup {None}
  BY <1>2, OnList DEF ProcessTypeInv
<1>k. Ops(p) /\ Life(p) /\ Fields(p) /\ Execing(p) /\ Waiting(p)
  BY DEF CallInv, Known
<1>m. /\ cur' = [cur EXCEPT ![p] = p] /\ Search(p, "waitfind", arg[p])
      /\ UNCHANGED <<heap, par, arg, val, fault, ghosts>>
  BY <1>2, <1>3 DEF WaitSelf
<1>a. "waitfind" \in Labels
  BY Names
<1>b. /\ at'[p] = "waitfind" /\ op'[p].do = "find" /\ op'[p].on = First /\ op'[p].goal = arg[p]
      /\ \A q \in Pid \ {p} : at'[q] = at[q] /\ op'[q] = op[q]
  BY <1>2, <1>3, <1>m, <1>a, SearchMoves DEF ProcessTypeInv, Struct
<1>v. /\ Keeps(p, {}) /\ cur'[p] = p /\ arg'[p] = arg[p] /\ par'[p] = par[p]
      /\ val'[p] = val[p] /\ exited'[p] = exited[p] /\ ret'[p] = ret[p]
  BY <1>m DEF ProcessTypeInv, Struct, Keeps, heap, locals, ghosts
<1>s. Solo(p) /\ UNCHANGED <<next, prev, list, freed, reaped>>
  BY <1>m, <1>b DEF Solo, heap, locals, ghosts, ProcessTypeInv
<1>u. Unreaped(p)' = Unreaped(p)
  BY <1>v, <1>s DEF Unreaped, Keeps
<1>c. Children(p)'
  BY <1>1, <1>b, <1>s, <1>u, ChildrenKept DEF Looks, Waits
<1>d. Own(p)'
  BY <1>1, <1>2, <1>3, <1>k, <1>b, <1>c, <1>v, <1>s, <1>u
     DEF Own, Solo, Keeps, Ops, Life, Fields, Execing, Waiting, Searches, Selves, Parents,
         Childs, Changes, Able, Early, Late, Looks, Waits, Loads, Over, Dying,
         Exiting
<1>e. Calm(p) /\ OpMoves(p)
  BY <1>1, <1>2, <1>3, <1>b, <1>v, <1>s, <1>u
     DEF Calm, OpMoves, Keeps, Loads, Dying, Over, Early, Late, Looks, Waits, Exiting
<1>f. Said(p)'
  BY <1>v, <1>s, <1>u, <1>e, SaidKept
<1> QED
  BY <1>1, <1>b, <1>d, <1>e, <1>f, <1>s, <1>v, Moved DEF Early, Late

LEMMA WaitStatusInv ==
  ASSUME Careful, ProcessTypeInv, CallInv, NEW f \in [Node -> Int], Linked(f), NEW p \in Pid,
         WaitStatus(p)
  PROVE  Good'
<1>1. Alone(p) /\ at[p] = "status" /\ op[p].do = "find"
  BY RunsAlone DEF WaitStatus, Found
<1>2. /\ arg[p] \in Pid /\ arg[p] \in list /\ arg[p] \in Valid /\ arg[p] \in Unreaped(p)
      /\ Got(p) = arg[p] /\ arg[p] # p
  BY FindsChild DEF WaitStatus, Childs, CallInv, Known, Children
<1>k. Ops(p) /\ Life(p) /\ Fields(p) /\ Execing(p) /\ Waiting(p)
  BY DEF CallInv, Known
<1>m. /\ val' = [val EXCEPT ![p] = proc[arg[p]].status] /\ Search(p, "waitremove", arg[p])
      /\ UNCHANGED <<heap, cur, par, arg, fault, ghosts>>
  BY <1>2 DEF WaitStatus
<1>a. "waitremove" \in Labels
  BY Names
<1>b. /\ at'[p] = "waitremove" /\ op'[p].do = "find" /\ op'[p].on = First /\ op'[p].goal = arg[p]
      /\ \A q \in Pid \ {p} : at'[q] = at[q] /\ op'[q] = op[q]
  BY <1>2, <1>m, <1>a, SearchMoves DEF ProcessTypeInv, Struct
<1>v. /\ Keeps(p, {}) /\ val'[p] = proc[arg[p]].status /\ arg'[p] = arg[p]
      /\ cur'[p] = cur[p] /\ par'[p] = par[p] /\ exited'[p] = exited[p] /\ ret'[p] = ret[p]
  BY <1>m DEF ProcessTypeInv, Struct, Keeps, heap, locals, ghosts
<1>s. Solo(p) /\ UNCHANGED <<next, prev, list, freed, reaped>>
  BY <1>m, <1>b DEF Solo, heap, locals, ghosts, ProcessTypeInv
<1>u. Unreaped(p)' = Unreaped(p)
  BY <1>v, <1>s DEF Unreaped, Keeps
<1>c. Children(p)'
  BY <1>1, <1>b, <1>s, <1>u, ChildrenKept DEF Looks, Waits
<1>d. Own(p)'
  BY <1>1, <1>2, <1>k, <1>b, <1>c, <1>v, <1>s, <1>u
     DEF Own, Solo, Keeps, Ops, Life, Fields, Execing, Waiting, Searches, Selves, Parents,
         Childs, Changes, Able, Early, Late, Looks, Waits, Loads, Over, Dying,
         Exiting
<1>e. Calm(p) /\ OpMoves(p)
  BY <1>1, <1>2, <1>b, <1>v, <1>s, <1>u
     DEF Calm, OpMoves, Keeps, Loads, Dying, Over, Early, Late, Looks, Waits, Exiting
<1>f. Said(p)'
  BY <1>v, <1>s, <1>u, <1>e, SaidKept
<1> QED
  BY <1>1, <1>b, <1>d, <1>e, <1>f, <1>s, <1>v, Moved DEF Early, Late

-----------------------------------------------------------------------------
\* The semaphores, and the loops that are over.
LEMMA ChildSignalInv ==
  ASSUME Careful, ProcessTypeInv, CallInv, NEW f \in [Node -> Int], Linked(f), NEW p \in Pid,
         ChildSignal(p)
  PROVE  Good'
<1>1. Alone(p) /\ at[p] = "signal" /\ op[p].do = "find"
  BY RunsAlone DEF ChildSignal, Found
<1>2. Got(p) = proc[p].parent /\ p \in list /\ p # Boot
  BY FindsParent DEF ChildSignal, Parents
<1>3. /\ proc[p].parent \in Pid /\ proc[p].parent # p /\ proc[p].parent \in Valid
      /\ at[proc[p].parent] \in Late /\ arg[proc[p].parent] = p
  <2>1. /\ proc[p].parent \in Pid /\ proc[p].parent # p /\ proc[p].parent \in Valid
        /\ \/ at[proc[p].parent] \in Late /\ arg[proc[p].parent] = p
           \/ p \in Unreaped(proc[p].parent)
    BY <1>2, LivingParent
  <2>2. Children(proc[p].parent)
    BY <2>1 DEF CallInv, Known
  <2> QED BY <1>1, <2>1, <2>2 DEF Children, Loads
<1>4. at[proc[p].parent] = "pexecsleep"
  <2>1. Execing(proc[p].parent) /\ ~InWindow(proc[p].parent)
    BY <1>1, <1>3 DEF CallInv, Known, Alone
  <2> QED BY <1>1, <1>3, <2>1 DEF Execing, InWindow, Late, Loads
<1>k. Ops(p) /\ Life(p) /\ Fields(p) /\ Execing(p) /\ Waiting(p)
  BY DEF CallInv, Known
<1>m. /\ par' = [par EXCEPT ![p] = proc[p].parent] /\ Go(p, "signalup")
      /\ UNCHANGED <<heap, cur, arg, val, fault, ghosts>>
  BY <1>2, <1>3, <1>4 DEF ChildSignal
<1>a. "signalup" \in Labels
  BY Names
<1>b. /\ at'[p] = "signalup" /\ op'[p].do = "none"
      /\ \A q \in Pid \ {p} : at'[q] = at[q] /\ op'[q] = op[q]
  BY <1>2, <1>3, <1>4, <1>m, <1>a, GoMoves DEF ProcessTypeInv, Struct
<1>v. /\ Keeps(p, {}) /\ par'[p] = proc[p].parent
      /\ arg'[p] = arg[p] /\ cur'[p] = cur[p]
      /\ val'[p] = val[p] /\ exited'[p] = exited[p] /\ ret'[p] = ret[p]
  BY <1>m DEF ProcessTypeInv, Struct, Keeps, heap, locals, ghosts
<1>s. Solo(p) /\ UNCHANGED <<next, prev, list, freed, reaped>>
  BY <1>m, <1>b DEF Solo, heap, locals, ghosts, ProcessTypeInv
<1>u. Unreaped(p)' = Unreaped(p)
  BY <1>v, <1>s DEF Unreaped, Keeps
<1>c. Children(p)'
  BY <1>1, <1>b, <1>s, <1>u, ChildrenKept DEF Looks, Waits
<1>d. Own(p)'
  BY <1>1, <1>2, <1>3, <1>4, <1>k, <1>b, <1>c, <1>v, <1>s, <1>u
     DEF Own, Solo, Keeps, Ops, Life, Fields, Execing, Waiting, Searches, Selves, Parents,
         Childs, Changes, Able, Early, Late, Looks, Waits, Loads, Over, Dying,
         Exiting
<1>e. Calm(p) /\ OpMoves(p)
  BY <1>1, <1>2, <1>3, <1>4, <1>b, <1>v, <1>s, <1>u
     DEF Calm, OpMoves, Keeps, Loads, Dying, Over, Early, Late, Looks, Waits, Exiting
<1>f. Said(p)'
  BY <1>v, <1>s, <1>u, <1>e, SaidKept
<1> QED
  BY <1>1, <1>b, <1>d, <1>e, <1>f, <1>s, <1>v, Moved DEF Early, Late

LEMMA ExecSleepsInv ==
  ASSUME Careful, ProcessTypeInv, CallInv, NEW f \in [Node -> Int], Linked(f), NEW p \in Pid,
         ExecDown(p), at[p] = "pexec"
  PROVE  Good'
<1>1. Alone(p) /\ at[p] = "pexec" /\ op[p].do = "none"
  BY RunsAlone DEF ExecDown, At
<1>2. p \notin freed
  BY <1>1 DEF CallInv, Known, Life
<1>3. proc[p].pexec = 0
  BY <1>1 DEF CallInv, Known, Fields
<1>4. arg[p] \in Pid /\ arg[p] # p
  BY <1>1 DEF CallInv, Known, Execing, Late
<1>k. Ops(p) /\ Life(p) /\ Fields(p) /\ Execing(p) /\ Waiting(p)
  BY DEF CallInv, Known
<1>m. /\ Go(p, "pexecsleep") /\ proc' = proc
      /\ UNCHANGED <<next, prev, list, freed, locals, fault, ghosts>>
  BY <1>1, <1>2, <1>3, <1>4 DEF ExecDown, ProcessTypeInv, Struct
<1>a. "pexecsleep" \in Labels
  BY Names
<1>b. /\ at'[p] = "pexecsleep" /\ op'[p].do = "none"
      /\ \A q \in Pid \ {p} : at'[q] = at[q] /\ op'[q] = op[q]
  BY <1>2, <1>3, <1>4, <1>m, <1>a, GoMoves DEF ProcessTypeInv, Struct
<1>v. /\ Keeps(p, {}) /\ arg'[p] = arg[p] /\ cur'[p] = cur[p] /\ par'[p] = par[p]
      /\ val'[p] = val[p] /\ exited'[p] = exited[p] /\ ret'[p] = ret[p]
  BY <1>m DEF ProcessTypeInv, Struct, Keeps, heap, locals, ghosts
<1>s. Solo(p) /\ UNCHANGED <<next, prev, list, freed, reaped>>
  BY <1>m, <1>b DEF Solo, heap, locals, ghosts, ProcessTypeInv
<1>u. Unreaped(p)' = Unreaped(p)
  BY <1>v, <1>s DEF Unreaped, Keeps
<1>c. Children(p)'
  BY <1>1, <1>b, <1>s, <1>u, ChildrenKept DEF Looks, Waits
<1>d. Own(p)'
  BY <1>1, <1>2, <1>3, <1>4, <1>k, <1>b, <1>c, <1>v, <1>s, <1>u
     DEF Own, Solo, Keeps, Ops, Life, Fields, Execing, Waiting, Searches, Selves, Parents,
         Childs, Changes, Able, Early, Late, Looks, Waits, Loads, Over, Dying,
         Exiting
<1>e. Calm(p) /\ OpMoves(p)
  BY <1>1, <1>2, <1>3, <1>4, <1>b, <1>v, <1>s, <1>u
     DEF Calm, OpMoves, Keeps, Loads, Dying, Over, Early, Late, Looks, Waits, Exiting
<1>f. Said(p)'
  BY <1>v, <1>s, <1>u, <1>e, SaidKept
<1> QED
  BY <1>1, <1>b, <1>d, <1>e, <1>f, <1>s, <1>v, Moved DEF Early, Late

LEMMA ExecWokenInv ==
  ASSUME Careful, ProcessTypeInv, CallInv, NEW f \in [Node -> Int], Linked(f), NEW p \in Pid,
         ExecDown(p), at[p] = "pexecwoken"
  PROVE  Good'
<1>1. Alone(p) /\ at[p] = "pexecwoken" /\ op[p].do = "none"
  BY RunsAlone DEF ExecDown, At
<1>2. p \notin freed
  BY <1>1 DEF CallInv, Known, Life
<1>3. proc[p].pexec = 1
  BY <1>1 DEF CallInv, Known, Fields
<1>4. arg[p] \in Pid /\ arg[p] # p
  BY <1>1 DEF CallInv, Known, Execing, Late
<1>k. Ops(p) /\ Life(p) /\ Fields(p) /\ Execing(p) /\ Waiting(p)
  BY DEF CallInv, Known
<1>m. /\ Go(p, "execed") /\ proc' = [proc EXCEPT ![p].pexec = 0]
      /\ UNCHANGED <<next, prev, list, freed, locals, fault, ghosts>>
  BY <1>1, <1>2, <1>3, <1>4 DEF ExecDown, ProcessTypeInv, Struct
<1>a. "execed" \in Labels
  BY Names
<1>b. /\ at'[p] = "execed" /\ op'[p].do = "none"
      /\ \A q \in Pid \ {p} : at'[q] = at[q] /\ op'[q] = op[q]
  BY <1>2, <1>3, <1>4, <1>m, <1>a, GoMoves DEF ProcessTypeInv, Struct
<1>v. /\ Keeps(p, {"pexec"}) /\ proc'[p].pexec = 0 /\ arg'[p] = arg[p] /\ cur'[p] = cur[p] /\ par'[p] = par[p]
      /\ val'[p] = val[p] /\ exited'[p] = exited[p] /\ ret'[p] = ret[p]
  BY <1>m DEF ProcessTypeInv, Struct, Keeps, heap, locals, ghosts
<1>s. Solo(p) /\ UNCHANGED <<next, prev, list, freed, reaped>>
  BY <1>m, <1>b DEF Solo, heap, locals, ghosts, ProcessTypeInv
<1>u. Unreaped(p)' = Unreaped(p)
  BY <1>v, <1>s DEF Unreaped, Keeps
<1>c. Children(p)'
  BY <1>1, <1>b, <1>s, <1>u, ChildrenKept DEF Looks, Waits
<1>d. Own(p)'
  BY <1>1, <1>2, <1>3, <1>4, <1>k, <1>b, <1>c, <1>v, <1>s, <1>u
     DEF Own, Solo, Keeps, Ops, Life, Fields, Execing, Waiting, Searches, Selves, Parents,
         Childs, Changes, Able, Early, Late, Looks, Waits, Loads, Over, Dying,
         Exiting
<1>e. Calm(p) /\ OpMoves(p)
  BY <1>1, <1>2, <1>3, <1>4, <1>b, <1>v, <1>s, <1>u
     DEF Calm, OpMoves, Keeps, Loads, Dying, Over, Early, Late, Looks, Waits, Exiting
<1>f. Said(p)'
  BY <1>v, <1>s, <1>u, <1>e, SaidKept
<1> QED
  BY <1>1, <1>b, <1>d, <1>e, <1>f, <1>s, <1>v, Moved DEF Early, Late

LEMMA WaitSleepsInv ==
  ASSUME Careful, ProcessTypeInv, CallInv, NEW f \in [Node -> Int], Linked(f), NEW p \in Pid,
         WaitDown(p), at[p] = "pwait"
  PROVE  Good'
<1>1. Alone(p) /\ at[p] = "pwait" /\ op[p].do = "none"
  BY RunsAlone DEF WaitDown, At
<1>2. p \notin freed
  BY <1>1 DEF CallInv, Known, Life
<1>3. proc[p].pwait = 0
  BY <1>1 DEF CallInv, Known, Fields
<1>4. cur[p] = p
  BY <1>1 DEF CallInv, Known, Fields
<1>5. /\ arg[p] \in Pid /\ arg[p] \in Unreaped(p) /\ arg[p] # p
      /\ proc[arg[p]].dead <=> at[arg[p]] \in Dying
  <2>1. arg[p] \in Unreaped(p)
    BY <1>1 DEF CallInv, Known, Waiting, Waits
  <2>2. Unreaped(p) \subseteq Pid
    BY UnreapedPids
  <2> QED BY <2>1, <2>2 DEF CallInv, Known, Children, Fields
<1>k. Ops(p) /\ Life(p) /\ Fields(p) /\ Execing(p) /\ Waiting(p)
  BY DEF CallInv, Known
<1>m. /\ Go(p, "pwaitsleep") /\ proc' = proc
      /\ UNCHANGED <<next, prev, list, freed, locals, fault, ghosts>>
  BY <1>1, <1>2, <1>3, <1>4, <1>5 DEF WaitDown, ProcessTypeInv, Struct
<1>a. "pwaitsleep" \in Labels
  BY Names
<1>b. /\ at'[p] = "pwaitsleep" /\ op'[p].do = "none"
      /\ \A q \in Pid \ {p} : at'[q] = at[q] /\ op'[q] = op[q]
  BY <1>2, <1>3, <1>4, <1>5, <1>m, <1>a, GoMoves DEF ProcessTypeInv, Struct
<1>v. /\ Keeps(p, {}) /\ arg'[p] = arg[p] /\ cur'[p] = cur[p] /\ par'[p] = par[p]
      /\ val'[p] = val[p] /\ exited'[p] = exited[p] /\ ret'[p] = ret[p]
  BY <1>m DEF ProcessTypeInv, Struct, Keeps, heap, locals, ghosts
<1>s. Solo(p) /\ UNCHANGED <<next, prev, list, freed, reaped>>
  BY <1>m, <1>b DEF Solo, heap, locals, ghosts, ProcessTypeInv
<1>u. Unreaped(p)' = Unreaped(p)
  BY <1>v, <1>s DEF Unreaped, Keeps
<1>c. Children(p)'
  BY <1>1, <1>b, <1>s, <1>u, ChildrenKept DEF Looks, Waits
<1>d. Own(p)'
  BY <1>1, <1>2, <1>3, <1>4, <1>5, <1>k, <1>b, <1>c, <1>v, <1>s, <1>u
     DEF Own, Solo, Keeps, Ops, Life, Fields, Execing, Waiting, Searches, Selves, Parents,
         Childs, Changes, Able, Early, Late, Looks, Waits, Loads, Over, Dying,
         Exiting
<1>e. Calm(p) /\ OpMoves(p)
  BY <1>1, <1>2, <1>3, <1>4, <1>5, <1>b, <1>v, <1>s, <1>u
     DEF Calm, OpMoves, Keeps, Loads, Dying, Over, Early, Late, Looks, Waits, Exiting
<1>f. Said(p)'
  BY <1>v, <1>s, <1>u, <1>e, SaidKept
<1> QED
  BY <1>1, <1>b, <1>d, <1>e, <1>f, <1>s, <1>v, Moved DEF Early, Late

LEMMA WaitWokenInv ==
  ASSUME Careful, ProcessTypeInv, CallInv, NEW f \in [Node -> Int], Linked(f), NEW p \in Pid,
         WaitDown(p), at[p] = "pwaitwoken"
  PROVE  Good'
<1>1. Alone(p) /\ at[p] = "pwaitwoken" /\ op[p].do = "none"
  BY RunsAlone DEF WaitDown, At
<1>2. p \notin freed
  BY <1>1 DEF CallInv, Known, Life
<1>3. proc[p].pwait = 1
  BY <1>1 DEF CallInv, Known, Fields
<1>4. cur[p] = p
  BY <1>1 DEF CallInv, Known, Fields
<1>5. /\ arg[p] \in Pid /\ arg[p] \in Unreaped(p) /\ arg[p] # p
      /\ proc[arg[p]].dead <=> at[arg[p]] \in Dying
  <2>1. arg[p] \in Unreaped(p)
    BY <1>1 DEF CallInv, Known, Waiting, Waits
  <2>2. Unreaped(p) \subseteq Pid
    BY UnreapedPids
  <2> QED BY <2>1, <2>2 DEF CallInv, Known, Children, Fields
<1>k. Ops(p) /\ Life(p) /\ Fields(p) /\ Execing(p) /\ Waiting(p)
  BY DEF CallInv, Known
<1>m. /\ Search(p, "status", arg[p]) /\ proc' = [proc EXCEPT ![p].pwait = 0]
      /\ UNCHANGED <<next, prev, list, freed, locals, fault, ghosts>>
  BY <1>1, <1>2, <1>3, <1>4, <1>5 DEF WaitDown, ProcessTypeInv, Struct
<1>a. "status" \in Labels
  BY Names
<1>b. /\ at'[p] = "status" /\ op'[p].do = "find" /\ op'[p].on = First /\ op'[p].goal = arg[p]
      /\ \A q \in Pid \ {p} : at'[q] = at[q] /\ op'[q] = op[q]
  BY <1>2, <1>3, <1>4, <1>5, <1>m, <1>a, SearchMoves DEF ProcessTypeInv, Struct
<1>v. /\ Keeps(p, {"pwait"}) /\ proc'[p].pwait = 0 /\ arg'[p] = arg[p] /\ cur'[p] = cur[p] /\ par'[p] = par[p]
      /\ val'[p] = val[p] /\ exited'[p] = exited[p] /\ ret'[p] = ret[p]
  BY <1>m DEF ProcessTypeInv, Struct, Keeps, heap, locals, ghosts
<1>s. Solo(p) /\ UNCHANGED <<next, prev, list, freed, reaped>>
  BY <1>m, <1>b DEF Solo, heap, locals, ghosts, ProcessTypeInv
<1>u. Unreaped(p)' = Unreaped(p)
  BY <1>v, <1>s DEF Unreaped, Keeps
<1>c. Children(p)'
  BY <1>1, <1>b, <1>s, <1>u, ChildrenKept DEF Looks, Waits
<1>d. Own(p)'
  BY <1>1, <1>2, <1>3, <1>4, <1>5, <1>k, <1>b, <1>c, <1>v, <1>s, <1>u
     DEF Own, Solo, Keeps, Ops, Life, Fields, Execing, Waiting, Searches, Selves, Parents,
         Childs, Changes, Able, Early, Late, Looks, Waits, Loads, Over, Dying,
         Exiting
<1>e. Calm(p) /\ OpMoves(p)
  BY <1>1, <1>2, <1>3, <1>4, <1>5, <1>b, <1>v, <1>s, <1>u
     DEF Calm, OpMoves, Keeps, Loads, Dying, Over, Early, Late, Looks, Waits, Exiting
<1>f. Said(p)'
  BY <1>v, <1>s, <1>u, <1>e, SaidKept
<1> QED
  BY <1>1, <1>b, <1>d, <1>e, <1>f, <1>s, <1>v, Moved DEF Early, Late

LEMMA ExecInitInv ==
  ASSUME Careful, ProcessTypeInv, CallInv, NEW f \in [Node -> Int], Linked(f), NEW p \in Pid,
         ExecInit(p)
  PROVE  Good'
<1>1. Alone(p) /\ at[p] = "exec" /\ op[p].do = "find"
  BY RunsAlone DEF ExecInit, Found
<1>2. Got(p) = p /\ p \in list /\ p \in Valid
  BY FindsSelf DEF ExecInit, Selves
<1>3. arg[p] \in Pid /\ arg[p] # p /\ at[arg[p]] = "none"
  BY <1>1 DEF CallInv, Known, Execing, Early
<1>k. Ops(p) /\ Life(p) /\ Fields(p) /\ Execing(p) /\ Waiting(p) /\ Said(p)
  BY DEF CallInv, Known
<1>m. /\ proc' = [proc EXCEPT ![p].pexec = 0, ![p].pwait = 0]
      /\ UNCHANGED <<next, prev, list, freed, reaped>>
      /\ \/ Go(p, "create") /\ UNCHANGED <<locals, fault, ghosts>>
         \/ Return(p, "exec", None, -1, FALSE)
  BY <1>2 DEF ExecInit, ghosts
<1>v. /\ Keeps(p, {"pexec", "pwait"}) /\ proc'[p].pexec = 0 /\ proc'[p].pwait = 0
      /\ \A q \in Pid \ {p} : proc'[q] = proc[q]
  BY <1>m DEF ProcessTypeInv, Struct, Keeps
<1>u. Unreaped(p)' = Unreaped(p)
  BY <1>m, <1>v DEF Unreaped, Keeps
<1>x. CASE Go(p, "create") /\ UNCHANGED <<locals, fault, ghosts>>
  <2>a. "create" \in Labels
    BY Names
  <2>b. /\ at'[p] = "create" /\ op'[p].do = "none"
        /\ \A q \in Pid \ {p} : at'[q] = at[q] /\ op'[q] = op[q]
    BY <1>x, <2>a, GoMoves
  <2>v. UNCHANGED <<arg, cur, par, val, exited, ret, fault>>
    BY <1>x DEF locals, ghosts
  <2>s. Solo(p)
    BY <1>m, <1>v, <2>b, <2>v DEF Solo
  <2>c. Children(p)'
    BY <1>1, <1>u, <2>s, ChildrenKept DEF Looks, Waits
  <2>d. Own(p)'
    BY <1>1, <1>3, <1>k, <1>v, <2>b, <2>c, <2>v, <2>s
       DEF Own, Solo, Keeps, Ops, Life, Fields, Execing, Waiting, Searches, Selves, Parents,
           Childs, Changes, Able, Early, Late, Looks, Waits, Over, Dying, Exiting
  <2>e. Calm(p) /\ OpMoves(p)
    BY <1>1, <1>v, <1>u, <2>b
       DEF Calm, OpMoves, Keeps, Loads, Dying, Over, Late, Exiting
  <2>f. Said(p)'
    BY <1>u, <2>e, <2>s, <2>v, SaidKept
  <2> QED BY <1>1, <1>m, <2>b, <2>d, <2>e, <2>f, <2>s, <2>v, Moved DEF Early, Late
<1>y. CASE Return(p, "exec", None, -1, FALSE)
  <2>1. [op |-> "exec", child |-> None, value |-> -1, early |-> FALSE] \in Result
    BY Names DEF Result
  <2>2. ret'[p] = [op |-> "exec", child |-> None, value |-> -1, early |-> FALSE]
    BY <1>y DEF Return, ProcessTypeInv
  <2>3. Said(p)'
    BY <2>2 DEF Said
  <2> QED BY <1>1, <1>y, <1>m, <1>v, <2>1, <2>3, Returned DEF Keeps
<1> QED BY <1>m, <1>x, <1>y

\* The loop over children_pids: all of them have been waited for.
LEMMA ExitReapInv ==
  ASSUME Careful, ProcessTypeInv, CallInv, NEW f \in [Node -> Int], Linked(f), NEW p \in Pid,
         ExitReap(p)
  PROVE  Good'
<1>1. Alone(p) /\ at[p] = "exitreap" /\ op[p].do = "none"
  BY RunsAlone DEF ExitReap, At
<1>2. p \notin freed
  BY <1>1 DEF CallInv, Known, Life
<1>3. Unreaped(p) = {}
  BY <1>1 DEF CallInv, Known, Children, Looks, Waits
<1>k. Ops(p) /\ Life(p) /\ Fields(p) /\ Execing(p) /\ Waiting(p)
  BY DEF CallInv, Known
<1>4. proc[p].children \in Seq(Pid)
  BY DEF ProcessTypeInv, Struct
<1>m. /\ UNCHANGED <<next, prev, list, freed, locals, fault, ghosts>>
      /\ IF proc[p].children = <<>> THEN Go(p, "exitclose") /\ UNCHANGED proc
         ELSE /\ Search(p, "exitchild", Head(proc[p].children))
              /\ proc' = [proc EXCEPT ![p].children = Tail(@)]
  BY <1>2 DEF ExitReap
<1>x. CASE proc[p].children = <<>>
  <2>1. Go(p, "exitclose") /\ UNCHANGED <<heap, locals, fault, ghosts>>
    BY <1>m, <1>x DEF heap
  <2>a. "exitclose" \in Labels
    BY Names
  <2>b. /\ at'[p] = "exitclose" /\ op'[p].do = "none"
        /\ Solo(p) /\ Unmoved(p) /\ UNCHANGED <<next, prev, list, freed, reaped>>
    BY <2>1, <2>a, GoEffect
  <2>c. Children(p)'
    BY <1>1, <2>b, ChildrenKept DEF Unmoved, Looks, Waits
  <2>d. Own(p)'
    BY <1>1, <1>k, <2>b, <2>c
       DEF Own, Solo, Ops, Life, Fields, Execing, Waiting, Unmoved, Searches, Selves, Parents,
           Childs, Changes, Able, Early, Late, Looks, Waits, Over, Dying, Exiting
  <2>e. Quietly(p, "exitclose") /\ OpMoves(p)
    BY <1>1, <2>b DEF Quietly, OpMoves, Loads, Dying, Over, Early, Late, Exiting
  <2> QED BY <1>1, <2>b, <2>d, <2>e, PureMove
<1>y. CASE proc[p].children # <<>>
  <2> DEFINE s == proc[p].children
  <2>1. s \in Seq(Pid) /\ s # <<>>
    BY <1>4, <1>y
  <2> HIDE DEF s
  <2>2. Head(s) \in Pid /\ Head(s) \in ToSet(s) /\ ToSet(Tail(s)) \subseteq ToSet(s)
    <3>1. Len(s) \in Nat /\ Len(s) >= 1
      BY <2>1
    <3>2. Head(s) = s[1] /\ 1 \in DOMAIN s
      BY <2>1, <3>1
    <3>3. \A i \in DOMAIN Tail(s) : i + 1 \in DOMAIN s /\ Tail(s)[i] = s[i + 1]
      BY <2>1, <3>1
    <3> QED BY <2>1, <3>2, <3>3 DEF ToSet
  <2>3. /\ Search(p, "exitchild", Head(s)) /\ proc' = [proc EXCEPT ![p].children = Tail(s)]
    BY <1>m, <1>y DEF s
  <2>4. Head(s) \in reaped
    BY <1>3, <2>2 DEF Unreaped, s
  <2>a. "exitchild" \in Labels
    BY Names
  <2>b. /\ at'[p] = "exitchild" /\ op'[p].do = "find" /\ op'[p].on = First
        /\ op'[p].goal = Head(s)
        /\ \A q \in Pid \ {p} : at'[q] = at[q] /\ op'[q] = op[q]
    BY <2>2, <2>3, <2>a, SearchMoves
  <2>v. /\ proc'[p].parent = proc[p].parent /\ proc'[p].dead = proc[p].dead
        /\ proc'[p].loaded = proc[p].loaded /\ proc'[p].status = proc[p].status
        /\ proc'[p].exec = proc[p].exec /\ proc'[p].pexec = proc[p].pexec
        /\ proc'[p].pwait = proc[p].pwait /\ proc'[p].children = Tail(s)
        /\ \A q \in Pid \ {p} : proc'[q] = proc[q]
    BY <2>3 DEF ProcessTypeInv, Struct
  <2>w. UNCHANGED <<next, prev, list, freed, reaped, arg, cur, par, val, exited, ret, fault>>
    BY <1>m DEF locals, ghosts
  <2>s. Solo(p)
    BY <2>b, <2>v, <2>w DEF Solo
  <2>u. Unreaped(p)' = {}
    BY <1>3, <2>2, <2>v, <2>w DEF Unreaped, s
  <2>c. Children(p)'
    BY <2>u DEF Children
  <2>d. Own(p)'
    BY <1>1, <1>k, <2>b, <2>c, <2>4, <2>v, <2>w
       DEF Own, Ops, Life, Fields, Execing, Waiting, Searches, Selves, Parents,
           Childs, Changes, Able, Early, Late, Looks, Waits, Over, Dying, Exiting
  <2>e. Calm(p) /\ OpMoves(p)
    BY <1>1, <1>3, <2>b, <2>v, <2>w, <2>u
       DEF Calm, OpMoves, Loads, Dying, Over, Late, Exiting
  <2>f. Said(p)'
    BY <1>3, <2>e, <2>s, <2>u, <2>w, SaidKept
  <2> QED BY <1>1, <2>b, <2>d, <2>e, <2>f, <2>s, <2>w, Moved DEF Early, Late
<1> QED BY <1>x, <1>y

\* exec returns: the child is one of children_pids, or it is gone by now.
LEMMA ExecReturnInv ==
  ASSUME Careful, ProcessTypeInv, CallInv, NEW f \in [Node -> Int], Linked(f), NEW p \in Pid,
         ExecReturn(p)
  PROVE  Good'
<1> DEFINE c == arg[p]
<1>1. Alone(p) /\ at[p] = "execed" /\ op[p].do = "none"
  BY RunsAlone DEF ExecReturn, At
<1>k. Ops(p) /\ Life(p) /\ Fields(p) /\ Execing(p) /\ Waiting(p) /\ Children(p)
  BY DEF CallInv, Known
<1>2. /\ c \in Pid /\ c # p /\ c # Boot /\ c \in list /\ proc[c].parent = p
      /\ at[c] \notin {"none"} \cup Loads
  BY <1>1, <1>k DEF Execing, Late
<1>3. p \notin freed /\ c \notin freed /\ c \notin reaped /\ p \in list
  BY <1>1, <1>2, <1>k DEF CallInv, Known, Life, Over
<1>4. Unreaped(p) = {}
  BY <1>1, <1>k DEF Children, Looks, Waits
<1>m. IF ~proc[c].loaded
      THEN UnlinkFree(p, "execfailed", c) /\ UNCHANGED <<heap, locals, fault, ghosts>>
      ELSE /\ proc' = [proc EXCEPT ![p].children = Append(@, c)]
           /\ Return(p, "exec", c, 1, FALSE)
           /\ UNCHANGED <<next, prev, list, freed, reaped>>
  <2>1. HasMemory = {TRUE}
    BY DEF HasMemory, Careful, Conditions
  <2>2. {c, p} \cap freed = {}
    BY <1>3
  <2> QED BY <2>1, <2>2 DEF ExecReturn
<1>x. CASE ~proc[c].loaded
  <2>1. at[c] = "gone"
    <3>1. at[c] \notin {"loaded"} \cup Able
      BY <1>2, <1>x DEF CallInv, Known, Fields
    <3>2. at[c] \in Labels /\ ~InWindow(c)
      BY <1>1, <1>2 DEF ProcessTypeInv, Alone
    <3> QED BY <1>2, <1>x, <3>1, <3>2
            DEF InWindow, Labels, Able, Early, Late, Looks, Waits, Loads, Exiting
  <2>m. Do(p, "execfailed", "skip", c, c) /\ UNCHANGED <<heap, locals, fault, ghosts>>
    BY <1>m, <1>x DEF UnlinkFree
  <2>a. "execfailed" \in Labels /\ c \in Pid \cup {None}
    BY <1>2, Names
  <2>b. /\ at'[p] = "execfailed" /\ op'[p].do = "skip" /\ op'[p].on = c /\ op'[p].goal = c
        /\ Solo(p) /\ Unmoved(p) /\ UNCHANGED <<next, prev, list, freed, reaped>>
    BY <1>2, <2>m, <2>a, UnlinkEffect
  <2>c. Children(p)'
    BY <1>1, <2>b, ChildrenKept DEF Unmoved, Looks, Waits
  <2>d. Own(p)'
    BY <1>1, <1>2, <1>3, <1>k, <1>x, <2>1, <2>b, <2>c
       DEF Own, Solo, Ops, Life, Fields, Execing, Waiting, Unmoved, Searches, Selves, Parents,
           Childs, Changes, Able, Early, Late, Looks, Waits, Loads, Over, Dying, Exiting
  <2>e. Calm(p) /\ OpMoves(p)
    BY <1>1, <1>2, <2>b
       DEF Calm, OpMoves, Unmoved, Loads, Dying, Over, Late, Exiting
  <2>f. Said(p)'
    BY <2>b, <2>e, SaidKept DEF Unmoved
  <2> QED BY <1>1, <2>b, <2>d, <2>e, <2>f, Moved DEF Early, Late, Unmoved
<1>y. CASE proc[c].loaded
  <2>m. /\ proc' = [proc EXCEPT ![p].children = Append(@, c)]
        /\ Return(p, "exec", c, 1, FALSE)
        /\ UNCHANGED <<next, prev, list, freed, reaped>>
    BY <1>m, <1>y
  <2>a. [op |-> "exec", child |-> c, value |-> 1, early |-> FALSE] \in Result
    BY <1>2 DEF Result
  <2>b. /\ at'[p] = "user" /\ op'[p].do = "none"
        /\ ret'[p] = [op |-> "exec", child |-> c, value |-> 1, early |-> FALSE]
        /\ \A q \in Pid \ {p} :
             /\ at'[q] = at[q] /\ op'[q] = op[q] /\ arg'[q] = arg[q] /\ cur'[q] = cur[q]
             /\ val'[q] = val[q] /\ ret'[q] = ret[q]
        /\ UNCHANGED <<par, fault, exited>>
    <3>1. /\ ret' = [ret EXCEPT ![p] = [op |-> "exec", child |-> c, value |-> 1,
                                          early |-> FALSE]]
          /\ arg' = [arg EXCEPT ![p] = None] /\ cur' = [cur EXCEPT ![p] = None]
          /\ val' = [val EXCEPT ![p] = 0] /\ Go(p, "user")
          /\ UNCHANGED <<par, fault, exited>>
      BY <2>m DEF Return
    <3>2. "user" \in Labels
      BY Names
    <3>3. /\ at'[p] = "user" /\ op'[p].do = "none"
          /\ \A q \in Pid \ {p} : at'[q] = at[q] /\ op'[q] = op[q]
      BY <3>1, <3>2, GoMoves
    <3> QED BY <3>1, <3>3 DEF ProcessTypeInv
  <2>v. /\ proc'[p].parent = proc[p].parent /\ proc'[p].dead = proc[p].dead
        /\ proc'[p].loaded = proc[p].loaded /\ proc'[p].status = proc[p].status
        /\ proc'[p].exec = proc[p].exec /\ proc'[p].pexec = proc[p].pexec
        /\ proc'[p].pwait = proc[p].pwait
        /\ proc'[p].children = Append(proc[p].children, c)
        /\ \A q \in Pid \ {p} : proc'[q] = proc[q]
    BY <2>m DEF ProcessTypeInv, Struct
  <2>s. Solo(p)
    BY <2>b, <2>m, <2>v DEF Solo
  <2>u. Unreaped(p)' = {c}
    <3>1. proc[p].children \in Seq(Pid)
      BY DEF ProcessTypeInv, Struct
    <3>2. ToSet(Append(proc[p].children, c)) = ToSet(proc[p].children) \cup {c}
      <4> DEFINE s == proc[p].children
      <4>1. s \in Seq(Pid) /\ c \in Pid BY <1>2, <3>1
      <4> HIDE DEF s, c
      <4>2. /\ Len(Append(s, c)) = Len(s) + 1 /\ Append(s, c)[Len(s) + 1] = c
            /\ \A i \in 1 .. Len(s) : Append(s, c)[i] = s[i]
            /\ DOMAIN s = 1 .. Len(s) /\ DOMAIN Append(s, c) = 1 .. Len(s) + 1
            /\ Len(s) \in Nat
        BY <4>1
      <4>3. ToSet(Append(s, c)) = ToSet(s) \cup {c}
        BY <4>2 DEF ToSet
      <4> QED BY <4>3 DEF s
    <3>3. ToSet(proc[p].children) \ reaped = {}
      BY <1>4 DEF Unreaped
    <3> QED BY <1>3, <2>m, <2>v, <3>2, <3>3 DEF Unreaped
  <2>c. Children(p)'
    BY <1>2, <1>y, <2>b, <2>m, <2>u, <2>v DEF Children
  <2>d. Own(p)'
    BY <1>1, <1>k, <2>b, <2>c, <2>m, <2>v
       DEF Own, Ops, Life, Fields, Execing, Waiting, Searches, Selves, Parents,
           Childs, Changes, Able, Early, Late, Looks, Waits, Over, Dying, Exiting
  <2>e. Calm(p) /\ OpMoves(p)
    BY <1>1, <1>4, <2>b, <2>u, <2>v
       DEF Calm, OpMoves, Loads, Dying, Over, Late, Exiting
  <2>f. Said(p)'
    <3>1. /\ ret'[p].op = "exec" /\ ret'[p].child = c /\ ret'[p].value = 1
          /\ at'[c] = at[c] /\ proc'[c] = proc[c] /\ c # None
      BY <1>2, <2>b, <2>v, ProcessAssumption
    <3> QED BY <1>2, <1>y, <3>1 DEF Said, Loads
  <2>g. UNCHANGED <<next, prev>> /\ at'[p] = "user"
    BY <2>b, <2>m
  <2> QED BY <1>1, <2>d, <2>e, <2>f, <2>g, <2>s, Moved DEF Early, Late
<1> QED BY <1>x, <1>y

-----------------------------------------------------------------------------
\* The steps that several threads see.
LEMMA CallExecInv ==
  ASSUME Careful, ProcessTypeInv, CallInv, NEW f \in [Node -> Int], Linked(f), NEW p \in Pid,
         NEW c \in Pid, CallExec(p, c)
  PROVE  Good'
<1>1. Alone(p) /\ at[p] = "user" /\ op[p].do = "none" /\ at[c] = "none"
  BY RunsAlone DEF CallExec, At
<1>2. Unreaped(p) = {} /\ \A q \in Pid : at[q] \in {"exec", "create"} => arg[q] # c
  BY DEF CallExec, Careful, Conditions
<1>3. c # p /\ c # Boot
  BY <1>1 DEF CallInv, Known, Life, Able, Early, Late, Looks, Waits
<1>k. Ops(p) /\ Life(p) /\ Fields(p) /\ Execing(p) /\ Waiting(p)
  BY DEF CallInv, Known
<1>m. /\ arg' = [arg EXCEPT ![p] = c] /\ ret' = [ret EXCEPT ![p] = NoRet]
      /\ Search(p, "exec", p)
      /\ UNCHANGED <<heap, cur, par, val, fault, exited, reaped>>
  BY DEF CallExec
<1>b. /\ at'[p] = "exec" /\ op'[p].do = "find" /\ op'[p].on = First /\ op'[p].goal = p
      /\ \A q \in Pid \ {p} : at'[q] = at[q] /\ op'[q] = op[q]
  <2>1. "exec" \in Labels
    BY Names
  <2> QED BY <1>m, <2>1, SearchMoves
<1>v. /\ arg'[p] = c /\ ret'[p] = NoRet
      /\ \A q \in Pid \ {p} : arg'[q] = arg[q] /\ ret'[q] = ret[q]
      /\ UNCHANGED <<proc, next, prev, list, freed, cur, par, val, fault, exited, reaped>>
  BY <1>m DEF ProcessTypeInv, heap
<1>s. Solo(p) /\ Unreaped(p)' = Unreaped(p)
  BY <1>b, <1>v DEF Solo, Unreaped
<1>c. Children(p)'
  BY <1>2, <1>s DEF Children
<1>d. Own(p)'
  BY <1>1, <1>3, <1>k, <1>b, <1>c, <1>v
     DEF Own, Ops, Life, Fields, Execing, Waiting, Searches, Selves, Parents,
         Childs, Changes, Able, Early, Late, Looks, Waits, Over, Dying, Exiting
<1>e. Calm(p) /\ OpMoves(p)
  BY <1>1, <1>b, <1>v, <1>s
     DEF Calm, OpMoves, Loads, Dying, Over, Late, Exiting
<1>f. Said(p)'
  BY <1>v DEF Said, NoRet
<1>g. OneExec'
  <2>1. ASSUME NEW q \in Pid \ {p}, at[q] \in Early \cup Late
        PROVE  arg[q] # c
    <3>1. Execing(q) /\ at[q] # "enlist"
      BY <1>1 DEF CallInv, Known, Alone, InWindow
    <3> QED BY <1>1, <1>2, <2>1, <3>1 DEF Execing, Early, Late, Loads
  <2>2. OneExec
    BY DEF CallInv
  <2> QED BY <1>b, <1>v, <2>1, <2>2 DEF OneExec
<1>h. \A q \in Pid \ {p} : Known(q)'
  BY <1>1, <1>e, <1>s, Kept
<1>i. Linked(f)'
  BY <1>b, <1>v, <1>e, Still DEF OpMoves
<1> QED
  BY <1>1, <1>b, <1>d, <1>f, <1>g, <1>h, <1>i, <1>s, <1>v, Settled

\* The end of a wait: nothing is freed, and the child has been waited for.
LEMMA WaitFreeInv ==
  ASSUME Careful, ProcessTypeInv, CallInv, NEW f \in [Node -> Int], Linked(f), NEW p \in Pid,
         WaitFree(p)
  PROVE  Good'
<1> DEFINE c == arg[p]
<1>1. Alone(p) /\ at[p] = "waitfree" /\ op[p].do = "find" /\ ~fault
  BY RunsAlone DEF WaitFree, Found
<1>k. \A q \in Pid : /\ Ops(q) /\ Life(q) /\ Fields(q) /\ Children(q) /\ Parent(q)
                     /\ Loading(q) /\ Execing(q) /\ Waiting(q) /\ Said(q)
  BY DEF CallInv, Known
<1>2. /\ c \in Pid /\ c \in Unreaped(p) /\ c \notin list /\ c # p /\ Got(p) = None
      /\ val[p] = proc[c].status /\ at[c] \in Dying
  BY <1>1, <1>k, FindsChild DEF WaitFree, Childs, Waiting, Children
<1>3. at[c] \in Over
  BY <1>1, <1>2 DEF Alone, InWindow, Dying
<1>4. Unreaped(p) = {c} /\ \A q \in Pid \ {p} : c \notin Unreaped(q)
  BY <1>2, <1>k DEF Children
<1>m. /\ Return(p, "wait", c, val[p], FALSE) /\ reaped' = reaped \cup {c} /\ freed' = freed
      /\ UNCHANGED <<proc, next, prev, list>>
  BY <1>2, OnList DEF WaitFree
<1>b. /\ at'[p] = "user" /\ op'[p].do = "none" /\ arg'[p] = None
      /\ ret'[p].op = "wait" /\ ret'[p].child = c /\ ret'[p].value = val[p] /\ ~ret'[p].early
      /\ \A q \in Pid \ {p} :
           /\ at'[q] = at[q] /\ op'[q] = op[q] /\ arg'[q] = arg[q] /\ cur'[q] = cur[q]
           /\ val'[q] = val[q] /\ ret'[q] = ret[q]
      /\ UNCHANGED <<par, fault, exited>>
  <2>1. /\ ret' = [ret EXCEPT ![p] = [op |-> "wait", child |-> c, value |-> val[p],
                                      early |-> FALSE]]
        /\ arg' = [arg EXCEPT ![p] = None] /\ cur' = [cur EXCEPT ![p] = None]
        /\ val' = [val EXCEPT ![p] = 0] /\ Go(p, "user")
        /\ UNCHANGED <<par, fault, exited>>
    BY <1>m DEF Return
  <2>2. "user" \in Labels
    BY Names
  <2>3. /\ at'[p] = "user" /\ op'[p].do = "none"
        /\ \A q \in Pid \ {p} : at'[q] = at[q] /\ op'[q] = op[q]
    BY <2>1, <2>2, GoMoves
  <2> QED BY <2>1, <2>3 DEF ProcessTypeInv
<1>u. Unreaped(p)' = {} /\ \A q \in Pid \ {p} : Unreaped(q)' = Unreaped(q)
  BY <1>4, <1>m DEF Unreaped
<1>h. ASSUME NEW q \in Pid, q # p PROVE Known(q)'
  <2>0. Unreaped(q) \subseteq Pid /\ ~InWindow(q)
    BY <1>1, <1>h, UnreapedPids DEF Alone
  <2>1. Ops(q)'
    BY <1>k, <1>m, <1>b, <1>h DEF Ops
  <2>2. Life(q)'
    BY <1>2, <1>3, <1>k, <1>m, <1>b, <1>h DEF Life
  <2>3. Fields(q)'
    <3>1. at[q] # "exitup"
      BY <2>0 DEF InWindow
    <3>2. at[q] = "signalup" => at[proc[q].parent] = "pexecsleep" /\ proc[q].parent \in Pid
      BY <1>k, ParentPid DEF Fields
    <3> QED BY <1>1, <1>k, <1>m, <1>b, <1>h, <3>1, <3>2 DEF Fields
  <2>4. Children(q)'
    <3>1. \A d \in Unreaped(q) : at'[d] = at[d] \/ at'[d] = "user"
      BY <1>b, <2>0
    <3> QED BY <1>k, <1>m, <1>b, <1>u, <1>h, <2>0, <3>1 DEF Children, Loads
  <2>5. Parent(q)'
    BY <1>1, <1>2, <1>4, <1>k, <1>m, <1>b, <1>u, <1>h DEF Parent, Late
  <2>6. Loading(q)'
    BY <1>1, <1>k, <1>m, <1>b, <1>h DEF Loading
  <2>7. Execing(q)'
    <3>1. at[q] \in Early \cup Late => arg[q] \in Pid
      BY DEF ProcessTypeInv
    <3> QED BY <1>1, <1>k, <1>m, <1>b, <1>h, <3>1 DEF Execing, Early, Late, Loads
  <2>8. Waiting(q)'
    <3>1. at[q] \in Looks \cup Waits => arg[q] \in Pid
      BY DEF ProcessTypeInv
    <3>2. at[q] \notin {"waitdead", "pwait"}
      BY <1>1, <1>h DEF Alone, InWindow, InList
    <3> QED BY <1>1, <1>k, <1>m, <1>b, <1>u, <1>h, <3>1, <3>2
            DEF Waiting, Looks, Waits, Dying, Over
  <2>9. Said(q)'
    <3>1. ret[q].child \in Pid \cup {None}
      BY DEF ProcessTypeInv, Result
    <3> QED BY <1>1, <1>k, <1>m, <1>b, <1>u, <1>h, <3>1 DEF Said, Exiting
  <2> QED BY <2>1, <2>2, <2>3, <2>4, <2>5, <2>6, <2>7, <2>8, <2>9 DEF Known
<1>i. Known(p)'
  <2>1. Ops(p)'
    BY <1>b DEF Ops, Searches, Selves, Parents, Childs, Changes
  <2>2. Life(p)' /\ Fields(p)'
    BY <1>1, <1>2, <1>k, <1>m, <1>b
       DEF Life, Fields, Able, Early, Late, Looks, Waits, Over, Dying, Exiting
  <2>3. Execing(p)' /\ Waiting(p)' /\ Loading(p)'
    BY <1>b DEF Execing, Waiting, Loading, Early, Late, Waits
  <2>4. Children(p)'
    BY <1>u DEF Children
  <2>5. Parent(p)'
    <3>1. SUFFICES ASSUME p \in list, p # Boot
                   PROVE  Parent(p)'
      BY <1>m DEF Parent
    <3>2. /\ proc[p].parent \in Pid /\ proc[p].parent # p
          /\ \/ at[proc[p].parent] \in Late /\ arg[proc[p].parent] = p
             \/ p \in Unreaped(proc[p].parent)
      BY <3>1, LivingParent
    <3> QED BY <1>m, <1>b, <1>u, <3>2 DEF Parent
  <2>6. Said(p)'
    BY <1>2, <1>3, <1>k, <1>m, <1>b DEF Said, Fields, Over, Dying, Exiting
  <2> QED BY <2>1, <2>2, <2>3, <2>4, <2>5, <2>6 DEF Known
<1>j. OneWindow' /\ OneInList' /\ OneExec'
  <2>1. \A q \in Pid \ {p} : ~InWindow(q)' /\ ~InList(q)'
    BY <1>1, <1>m, <1>b DEF Alone, InWindow, InList
  <2>2. OneExec
    BY DEF CallInv
  <2> QED BY <1>b, <2>1, <2>2 DEF OneWindow, OneInList, OneExec, Early, Late
<1>l. Linked(f)'
  BY <1>1, <1>m, <1>b, Still
<1> QED
  BY <1>1, <1>b, <1>h, <1>i, <1>j, <1>l DEF Good, CallInv

\* thread_create(): the child runs, and is not on process_list yet.
LEMMA ExecCreateInv ==
  ASSUME Careful, ProcessTypeInv, CallInv, NEW f \in [Node -> Int], Linked(f), NEW p \in Pid,
         ExecCreate(p)
  PROVE  Good'
<1> DEFINE c == arg[p]
<1>1. Alone(p) /\ at[p] = "create" /\ op[p].do = "none" /\ ~fault
  BY RunsAlone DEF ExecCreate, At
<1>k. \A q \in Pid : /\ Ops(q) /\ Life(q) /\ Fields(q) /\ Children(q) /\ Parent(q)
                     /\ Loading(q) /\ Execing(q) /\ Waiting(q) /\ Said(q)
  BY DEF CallInv, Known
<1>2. c \in Pid /\ c # p /\ c # Boot /\ at[c] = "none" /\ c \notin list
  BY <1>1, <1>k DEF Execing, Early, Life
<1>3. c \notin reaped /\ c \notin freed /\ op[c].do = "none" /\ Unreaped(c) = {}
  BY <1>2, <1>k DEF Life, Ops, Over, Searches, Selves, Parents, Childs, Changes, Children,
                    Looks, Waits
<1>m. /\ at' = [at EXCEPT ![p] = "enlist", ![c] = "load"]
      /\ UNCHANGED <<heap, op, locals, fault, ghosts>>
  <2>1. HasMemory = {TRUE}
    BY DEF HasMemory, Careful, Conditions
  <2> QED BY <2>1 DEF ExecCreate
<1>v. UNCHANGED <<proc, next, prev, list, freed, op, cur, par, arg, val, fault, exited,
                  reaped, ret>>
  BY <1>m DEF heap, locals, ghosts
<1>b. /\ at'[p] = "enlist" /\ at'[c] = "load"
      /\ \A q \in Pid \ {p, c} : at'[q] = at[q]
  BY <1>2, <1>m DEF ProcessTypeInv
<1>u. \A q \in Pid : Unreaped(q)' = Unreaped(q)
  BY <1>v DEF Unreaped
<1>x. \A q \in Pid \ {p} : at[q] \in Early \cup Late => arg[q] # c
  <2>1. OneExec
    BY DEF CallInv
  <2> QED BY <1>1, <2>1 DEF OneExec, Early
<1>h. ASSUME NEW q \in Pid PROVE Known(q)'
  <2>0. Unreaped(q) \subseteq Pid /\ (q # p => ~InWindow(q))
    BY <1>1, UnreapedPids DEF Alone
  <2>1. Ops(q)'
    BY <1>1, <1>2, <1>3, <1>k, <1>v, <1>b DEF Ops, Searches, Selves, Parents, Childs, Changes
  <2>2. Life(q)'
    BY <1>1, <1>2, <1>3, <1>k, <1>v, <1>b
       DEF Life, Able, Early, Late, Looks, Waits, Over
  <2>3. Fields(q)'
    <3>1. at[q] # "exitup"
      BY <1>1, <2>0 DEF InWindow
    <3>2. at[q] = "signalup" => at[proc[q].parent] = "pexecsleep" /\ proc[q].parent \in Pid
      BY <1>k, ParentPid DEF Fields
    <3> QED BY <1>1, <1>2, <1>k, <1>v, <1>b, <3>1, <3>2
            DEF Fields, Able, Early, Late, Looks, Waits, Dying, Over, Exiting
  <2>4. Children(q)'
    BY <1>1, <1>2, <1>3, <1>k, <1>v, <1>b, <1>u, <2>0 DEF Children, Loads, Looks, Waits
  <2>5. Parent(q)'
    BY <1>1, <1>2, <1>3, <1>k, <1>v, <1>b, <1>u DEF Parent, Late
  <2>6. Loading(q)'
    BY <1>1, <1>2, <1>k, <1>v, <1>b DEF Loading
  <2>7. Execing(q)'
    <3>1. at[q] \in Early \cup Late => arg[q] \in Pid
      BY DEF ProcessTypeInv
    <3> QED BY <1>1, <1>2, <1>k, <1>v, <1>b, <1>x, <3>1 DEF Execing, Early, Late, Loads
  <2>8. Waiting(q)'
    <3>1. at[q] \in Looks \cup Waits => arg[q] \in Pid
      BY DEF ProcessTypeInv
    <3> QED BY <1>1, <1>2, <1>k, <1>v, <1>b, <1>u, <3>1
            DEF Waiting, Looks, Waits, Dying, Over
  <2>9. Said(q)'
    <3>1. ret[q].child \in Pid \cup {None}
      BY DEF ProcessTypeInv, Result
    <3> QED BY <1>1, <1>2, <1>k, <1>v, <1>b, <1>u, <3>1 DEF Said, Exiting
  <2> QED BY <2>1, <2>2, <2>3, <2>4, <2>5, <2>6, <2>7, <2>8, <2>9 DEF Known
<1>j. OneWindow' /\ OneInList' /\ OneExec'
  <2>1. \A q \in Pid \ {p} : ~InWindow(q)' /\ ~InList(q)'
    BY <1>1, <1>2, <1>3, <1>v, <1>b DEF Alone, InWindow, InList, Exiting
  <2>2. OneExec
    BY DEF CallInv
  <2> QED BY <1>1, <1>2, <1>v, <1>b, <2>1, <2>2 DEF OneWindow, OneInList, OneExec, Early, Late
<1>l. Linked(f)'
  BY <1>v, Still
<1> QED
  BY <1>1, <1>v, <1>h, <1>j, <1>l DEF Good, CallInv

\* The new struct, with the first half of the insertion.
LEMMA ExecEnlistInv ==
  ASSUME Careful, ProcessTypeInv, CallInv, NEW f \in [Node -> Int], Linked(f), NEW p \in Pid,
         ExecEnlist(p)
  PROVE  Good'
<1> DEFINE c == arg[p]
<1>1. Alone(p) /\ at[p] = "enlist" /\ op[p].do = "none" /\ ~fault
  BY RunsAlone DEF ExecEnlist, At
<1>k. \A q \in Pid : /\ Ops(q) /\ Life(q) /\ Fields(q) /\ Children(q) /\ Parent(q)
                     /\ Loading(q) /\ Execing(q) /\ Waiting(q) /\ Said(q)
  BY DEF CallInv, Known
<1>2. c \in Pid /\ c # p /\ c # Boot /\ at[c] = "load" /\ c \notin list
  BY <1>1, <1>k DEF Execing, Early
<1>3. c \notin reaped /\ Unreaped(c) = {}
  BY <1>2, <1>k DEF Life, Over, Children, Looks, Waits
<1>m. /\ proc' = [proc EXCEPT ![c] = NewProc(p, "null")]
      /\ prev' = [prev EXCEPT ![c] = prev[End]] /\ next' = [next EXCEPT ![c] = End]
      /\ Do(p, "pexec", "link", c, None)
      /\ UNCHANGED <<list, freed, locals, fault, ghosts>>
  <2>1. HasMemory = {TRUE} /\ "zeroed" \in Assume
    BY DEF HasMemory, Careful, Conditions
  <2> QED BY <2>1 DEF ExecEnlist
<1>a. /\ at'[p] = "pexec" /\ op'[p].do = "link" /\ op'[p].on = c /\ op'[p].goal = None
      /\ \A q \in Pid \ {p} : at'[q] = at[q] /\ op'[q] = op[q]
  <2>1. "pexec" \in Labels /\ "link" \in Doing /\ c \in Node /\ None \in Pid \cup {None}
    BY <1>2, Names DEF Doing
  <2> QED BY <1>m, <2>1, DoEffect
<1>b. /\ proc'[c].parent = p /\ ~proc'[c].dead /\ ~proc'[c].loaded /\ proc'[c].exec = "null"
      /\ proc'[c].pexec = 0 /\ proc'[c].pwait = 0 /\ proc'[c].children = <<>>
      /\ \A q \in Pid \ {c} : proc'[q] = proc[q]
  BY <1>2, <1>m DEF ProcessTypeInv, NewProc
<1>c. /\ next'[c] = End /\ prev'[c] = prev[End]
      /\ \A x \in Node \ {c} : next'[x] = next[x] /\ prev'[x] = prev[x]
  BY <1>2, <1>m, Names DEF ProcessTypeInv
<1>v. UNCHANGED <<list, freed, cur, par, arg, val, fault, exited, reaped, ret>>
  BY <1>m DEF locals, ghosts
<1>u. Unreaped(c)' = {} /\ \A q \in Pid \ {c} : Unreaped(q)' = Unreaped(q)
  <2>1. ToSet(<<>>) = {}
    BY DEF ToSet
  <2> QED BY <1>b, <1>v, <2>1 DEF Unreaped
<1>x. \A q \in Pid \ {p} : at[q] \in Early \cup Late => arg[q] # c
  <2>1. OneExec
    BY DEF CallInv
  <2> QED BY <1>1, <2>1 DEF OneExec, Early
<1>h. ASSUME NEW q \in Pid PROVE Known(q)'
  <2>0. Unreaped(q) \subseteq Pid /\ (q # p => ~InWindow(q))
    BY <1>1, UnreapedPids DEF Alone
  <2>1. Ops(q)'
    BY <1>1, <1>2, <1>k, <1>a, <1>b, <1>v DEF Ops, Searches, Selves, Parents, Childs, Changes
  <2>2. Life(q)'
    BY <1>1, <1>2, <1>k, <1>a, <1>b, <1>v DEF Life, Able, Early, Late, Looks, Waits, Over
  <2>3. Fields(q)'
    <3>1. at[q] # "exitup"
      BY <1>1, <2>0 DEF InWindow
    <3>2. at[q] = "signalup" => at[proc[q].parent] = "pexecsleep" /\ proc[q].parent \in Pid
      BY <1>k, ParentPid DEF Fields
    <3> QED BY <1>1, <1>2, <1>k, <1>a, <1>b, <1>v, <3>1, <3>2
            DEF Fields, Able, Early, Late, Looks, Waits, Dying, Over, Exiting
  <2>4. Children(q)'
    BY <1>1, <1>2, <1>3, <1>k, <1>a, <1>b, <1>v, <1>u, <2>0 DEF Children, Loads, Looks, Waits
  <2>5. Parent(q)'
    BY <1>1, <1>2, <1>3, <1>k, <1>a, <1>b, <1>v, <1>u DEF Parent, Late
  <2>6. Loading(q)'
    BY <1>1, <1>2, <1>k, <1>a, <1>v DEF Loading
  <2>7. Execing(q)'
    <3>1. at[q] \in Early \cup Late => arg[q] \in Pid
      BY DEF ProcessTypeInv
    <3> QED BY <1>1, <1>2, <1>k, <1>a, <1>b, <1>v, <1>x, <3>1 DEF Execing, Early, Late, Loads
  <2>8. Waiting(q)'
    <3>1. at[q] \in Looks \cup Waits => arg[q] \in Pid
      BY DEF ProcessTypeInv
    <3> QED BY <1>1, <1>2, <1>k, <1>a, <1>b, <1>v, <1>u, <3>1
            DEF Waiting, Looks, Waits, Dying, Over
  <2>9. Said(q)'
    <3>1. ret[q].child \in Pid \cup {None}
      BY DEF ProcessTypeInv, Result
    <3> QED BY <1>1, <1>2, <1>k, <1>a, <1>b, <1>v, <1>u, <3>1 DEF Said, Exiting
  <2> QED BY <2>1, <2>2, <2>3, <2>4, <2>5, <2>6, <2>7, <2>8, <2>9 DEF Known
<1>j. OneWindow' /\ OneInList' /\ OneExec'
  <2>1. \A q \in Pid \ {p} : ~InWindow(q)' /\ ~InList(q)'
    BY <1>1, <1>2, <1>a, <1>b, <1>v DEF Alone, InWindow, InList, Exiting
  <2>2. OneExec
    BY DEF CallInv
  <2> QED BY <1>1, <1>a, <1>v, <2>1, <2>2 DEF OneWindow, OneInList, OneExec, Early, Late
<1>l. Linked(f)'
  <2>1. list \cup {First, End} \subseteq Node \ {c} /\ First \in Node /\ End \in Node
    BY <1>2, ProcessAssumption, Names DEF ProcessTypeInv
  <2>2. \A q \in Pid \ {p} : op[q].do \notin {"link", "tie", "close", "free"}
    BY <1>1 DEF Alone, InList
  <2>3. Chain(f)'
    BY <1>c, <1>v, <2>1 DEF Linked, Chain
  <2>4. \A y \in list \cup {End} : Behind(y)'
    <3> TAKE y \in list \cup {End}
    <3>1. Behind(y) BY DEF Linked
    <3>2. prev[y] \in list \cup {First} /\ next[prev[y]] = y
      BY <1>1, <2>2, <3>1 DEF Behind
    <3> QED BY <1>c, <1>v, <2>1, <3>2 DEF Behind
  <2>5. ASSUME NEW q \in Pid PROVE Stands(q, f)'
    <3>1. Stands(q, f) BY DEF Linked
    <3>2. CASE q = p
      BY <1>2, <1>a, <1>c, <1>v, <2>1, <3>2 DEF Stands
    <3>3. CASE q # p
      BY <1>a, <1>c, <1>v, <2>1, <2>2, <3>1, <3>3 DEF Stands
    <3> QED BY <3>2, <3>3
  <2> QED BY <1>v, <2>3, <2>4, <2>5 DEF Linked
<1> QED
  BY <1>1, <1>v, <1>h, <1>j, <1>l DEF Good, CallInv

\* sema_up() of a child wakes the parent that sleeps.
LEMMA ChildUpInv ==
  ASSUME Careful, ProcessTypeInv, CallInv, NEW f \in [Node -> Int], Linked(f), NEW c \in Pid,
         ChildUp(c)
  PROVE  Good'
<1> DEFINE p == proc[c].parent
<1>1. Alone(c) /\ at[c] = "signalup" /\ op[c].do = "none" /\ ~fault
  BY RunsAlone DEF ChildUp, At
<1>k. \A q \in Pid : /\ Ops(q) /\ Life(q) /\ Fields(q) /\ Children(q) /\ Parent(q)
                     /\ Loading(q) /\ Execing(q) /\ Waiting(q) /\ Said(q)
  BY DEF CallInv, Known
<1>2. /\ c \in list /\ c # Boot /\ par[c] = p /\ at[p] = "pexecsleep"
      /\ p \in Pid /\ p # c /\ p \notin freed /\ op[p].do = "none"
  <2>1. c \in list /\ c # Boot /\ par[c] = p /\ at[p] = "pexecsleep"
    BY <1>1, <1>k DEF Life, Fields, Able, Early, Late, Looks, Waits, Over
  <2>2. p \in Pid /\ p # c /\ p \notin freed
    BY <2>1, LivingParent
  <2>3. op[p].do = "none"
    BY <1>k, <2>1, <2>2 DEF Ops, Searches, Selves, Parents, Childs, Changes
  <2> QED BY <2>1, <2>2, <2>3
<1>3. arg[p] = c /\ Unreaped(c) = {} /\ proc[p].pexec = 0 /\ Unreaped(p) = {}
  <2>1. c \notin Unreaped(p)
    BY <1>1, <1>2, <1>k DEF Children, Loads
  <2>2. arg[p] = c
    BY <1>2, <2>1, LivingParent
  <2> QED BY <1>1, <1>2, <1>k, <2>2 DEF Children, Fields, Looks, Waits
<1>m. /\ proc' = [proc EXCEPT ![p].pexec = 1]
      /\ at' = [at EXCEPT ![c] = Loaded(c), ![p] = "pexecwoken"]
      /\ UNCHANGED <<next, prev, list, freed, op, locals, fault, ghosts>>
  <2>1. /\ proc' = [proc EXCEPT ![par[c]].pexec = @ + 1]
        /\ at' = [at EXCEPT ![c] = Loaded(c),
                            ![par[c]] = IF @ = "pexecsleep" THEN "pexecwoken" ELSE @]
        /\ UNCHANGED <<next, prev, list, freed, op, locals, fault, ghosts>>
    BY <1>2 DEF ChildUp, Wake
  <2>2. proc' = [proc EXCEPT ![p].pexec = 1]
    <3>1. proc' = [proc EXCEPT ![p].pexec = @ + 1] /\ proc[p].pexec = 0 /\ proc \in [Pid -> Struct]
      BY <1>2, <1>3, <2>1 DEF ProcessTypeInv
    <3> HIDE DEF p, Struct
    <3>2. [proc[p] EXCEPT !.pexec = proc[p].pexec + 1] = [proc[p] EXCEPT !.pexec = 1]
      BY <3>1
    <3> QED BY <3>1, <3>2
  <2>3. at' = [at EXCEPT ![c] = Loaded(c), ![p] = "pexecwoken"]
    BY <1>2, <2>1 DEF ProcessTypeInv
  <2> QED BY <2>1, <2>2, <2>3
<1>v. UNCHANGED <<next, prev, list, freed, op, cur, par, arg, val, fault, exited, reaped, ret>>
  BY <1>m DEF locals, ghosts
<1>b. /\ at'[p] = "pexecwoken" /\ at'[c] = Loaded(c)
      /\ \A q \in Pid \ {p, c} : at'[q] = at[q]
  BY <1>2, <1>m DEF ProcessTypeInv
<1>c. /\ proc'[p].parent = proc[p].parent /\ proc'[p].dead = proc[p].dead
      /\ proc'[p].loaded = proc[p].loaded /\ proc'[p].status = proc[p].status
      /\ proc'[p].exec = proc[p].exec /\ proc'[p].pexec = 1
      /\ proc'[p].pwait = proc[p].pwait /\ proc'[p].children = proc[p].children
      /\ \A q \in Pid \ {p} : proc'[q] = proc[q]
  BY <1>2, <1>m DEF ProcessTypeInv, Struct
<1>d. at'[c] = IF proc[c].loaded THEN "loaded" ELSE "failed"
  BY <1>b DEF Loaded
<1>u. \A q \in Pid : Unreaped(q)' = Unreaped(q)
  BY <1>c, <1>v DEF Unreaped
<1>x. \A q \in Pid \ {p} : at[q] \in Early \cup Late => arg[q] # c
  <2>1. OneExec
    BY DEF CallInv
  <2> QED BY <1>2, <1>3, <2>1 DEF OneExec, Late
<1>y. \A q \in Pid : q \in list /\ q # Boot /\ proc[q].parent = p => q = c
  <2> TAKE q \in Pid
  <2> HAVE q \in list /\ q # Boot /\ proc[q].parent = p
  <2>1. arg[p] = q \/ q \in Unreaped(p)
    BY LivingParent
  <2> QED BY <1>3, <2>1
<1>h. ASSUME NEW q \in Pid PROVE Known(q)'
  <2>0. Unreaped(q) \subseteq Pid /\ (q # c => ~InWindow(q))
    BY <1>1, UnreapedPids DEF Alone
  <2>1. Ops(q)'
    BY <1>1, <1>2, <1>k, <1>v, <1>b, <1>c, <1>d
       DEF Ops, Searches, Selves, Parents, Childs, Changes
  <2>2. Life(q)'
    BY <1>1, <1>2, <1>k, <1>v, <1>b, <1>c, <1>d
       DEF Life, Able, Early, Late, Looks, Waits, Over
  <2>3. Fields(q)'
    <3>1. at[q] # "exitup"
      BY <1>1, <2>0 DEF InWindow
    <3>2. at[q] = "signalup" =>
            at[proc[q].parent] = "pexecsleep" /\ proc[q].parent \in Pid
              /\ q \in list /\ q # Boot
      BY <1>k, ParentPid DEF Fields, Life, Able, Early, Late, Looks, Waits, Over
    <3>3. at[q] = "signalup" /\ q # c => proc[q].parent # p
      BY <1>y, <3>2
    <3> HIDE DEF p
    <3> QED BY <1>1, <1>2, <1>k, <1>v, <1>b, <1>c, <1>d, <3>1, <3>2, <3>3
            DEF Fields, Able, Early, Late, Looks, Waits, Dying, Over, Exiting
  <2>4. Children(q)'
    BY <1>1, <1>2, <1>3, <1>k, <1>v, <1>b, <1>c, <1>d, <1>u, <2>0
       DEF Children, Loads, Looks, Waits
  <2>5. Parent(q)'
    <3> HIDE DEF p
    <3> QED BY <1>1, <1>2, <1>3, <1>k, <1>v, <1>b, <1>c, <1>d, <1>u DEF Parent, Late
  <2>6. Loading(q)'
    BY <1>1, <1>2, <1>k, <1>v, <1>b, <1>d DEF Loading
  <2>7. Execing(q)'
    <3>1. at[q] \in Early \cup Late => arg[q] \in Pid
      BY DEF ProcessTypeInv
    <3> HIDE DEF p
    <3> QED BY <1>1, <1>2, <1>3, <1>k, <1>v, <1>b, <1>c, <1>d, <1>x, <3>1
            DEF Execing, Early, Late, Loads
  <2>8. Waiting(q)'
    <3>1. at[q] \in Looks \cup Waits => arg[q] \in Pid
      BY DEF ProcessTypeInv
    <3> HIDE DEF p
    <3> QED BY <1>1, <1>2, <1>k, <1>v, <1>b, <1>c, <1>d, <1>u, <3>1
            DEF Waiting, Looks, Waits, Dying, Over
  <2>9. Said(q)'
    <3>1. ret[q].child \in Pid \cup {None}
      BY DEF ProcessTypeInv, Result
    <3> HIDE DEF p
    <3> QED BY <1>1, <1>2, <1>k, <1>v, <1>b, <1>c, <1>d, <1>u, <3>1 DEF Said, Exiting
  <2> QED BY <2>1, <2>2, <2>3, <2>4, <2>5, <2>6, <2>7, <2>8, <2>9 DEF Known
<1>j. OneWindow' /\ OneInList' /\ OneExec'
  <2>1. \A q \in Pid \ {c} : ~InWindow(q)' /\ ~InList(q)'
    BY <1>1, <1>2, <1>v, <1>b, <1>c DEF Alone, InWindow, InList, Exiting
  <2>2. OneExec
    BY DEF CallInv
  <2> QED BY <1>1, <1>2, <1>v, <1>b, <1>d, <2>1, <2>2
          DEF OneWindow, OneInList, OneExec, Early, Late
<1>l. Linked(f)'
  BY <1>v, Still
<1> QED
  BY <1>1, <1>v, <1>h, <1>j, <1>l DEF Good, CallInv

LEMMA ExitUpInv ==
  ASSUME Careful, ProcessTypeInv, CallInv, NEW f \in [Node -> Int], Linked(f), NEW c \in Pid,
         ExitUp(c)
  PROVE  Good'
<1> DEFINE p == proc[c].parent
<1>1. Alone(c) /\ at[c] = "exitup" /\ op[c].do = "none" /\ ~fault
  BY RunsAlone DEF ExitUp, At
<1>k. \A q \in Pid : /\ Ops(q) /\ Life(q) /\ Fields(q) /\ Children(q) /\ Parent(q)
                     /\ Loading(q) /\ Execing(q) /\ Waiting(q) /\ Said(q)
  BY DEF CallInv, Known
<1>2. /\ c \in list /\ c # Boot /\ par[c] = p /\ at[p] = "pwaitsleep"
      /\ p \in Pid /\ p # c /\ p \notin freed /\ op[p].do = "none"
  <2>1. c \in list /\ c # Boot /\ par[c] = p /\ at[p] = "pwaitsleep"
    BY <1>1, <1>k DEF Life, Fields, Able, Early, Late, Looks, Waits, Over
  <2>2. p \in Pid /\ p # c /\ p \notin freed
    BY <2>1, LivingParent
  <2>3. op[p].do = "none"
    BY <1>k, <2>1, <2>2 DEF Ops, Searches, Selves, Parents, Childs, Changes
  <2> QED BY <2>1, <2>2, <2>3
<1>3. arg[p] = c /\ Unreaped(c) = {} /\ proc[p].pwait = 0 /\ c \in Unreaped(p)
  <2>1. c \in Unreaped(p) /\ arg[p] \in Unreaped(p)
    BY <1>2, <1>k, LivingParent DEF Late, Waiting, Waits
  <2> QED BY <1>1, <1>2, <1>k, <2>1 DEF Children, Fields, Looks, Waits
<1>m. /\ proc' = [proc EXCEPT ![p].pwait = 1]
      /\ at' = [at EXCEPT ![c] = "exitreap", ![p] = "pwaitwoken"]
      /\ UNCHANGED <<next, prev, list, freed, op, locals, fault, ghosts>>
  <2>1. /\ proc' = [proc EXCEPT ![par[c]].pwait = @ + 1]
        /\ at' = [at EXCEPT ![c] = "exitreap",
                            ![par[c]] = IF @ = "pwaitsleep" THEN "pwaitwoken" ELSE @]
        /\ UNCHANGED <<next, prev, list, freed, op, locals, fault, ghosts>>
    BY <1>2 DEF ExitUp, Wake
  <2>2. proc' = [proc EXCEPT ![p].pwait = 1]
    <3>1. proc' = [proc EXCEPT ![p].pwait = @ + 1] /\ proc[p].pwait = 0 /\ proc \in [Pid -> Struct]
      BY <1>2, <1>3, <2>1 DEF ProcessTypeInv
    <3> HIDE DEF p, Struct
    <3>2. [proc[p] EXCEPT !.pwait = proc[p].pwait + 1] = [proc[p] EXCEPT !.pwait = 1]
      BY <3>1
    <3> QED BY <3>1, <3>2
  <2>3. at' = [at EXCEPT ![c] = "exitreap", ![p] = "pwaitwoken"]
    BY <1>2, <2>1 DEF ProcessTypeInv
  <2> QED BY <2>1, <2>2, <2>3
<1>v. UNCHANGED <<next, prev, list, freed, op, cur, par, arg, val, fault, exited, reaped, ret>>
  BY <1>m DEF locals, ghosts
<1>b. /\ at'[p] = "pwaitwoken" /\ at'[c] = "exitreap"
      /\ \A q \in Pid \ {p, c} : at'[q] = at[q]
  BY <1>2, <1>m DEF ProcessTypeInv
<1>c. /\ proc'[p].parent = proc[p].parent /\ proc'[p].dead = proc[p].dead
      /\ proc'[p].loaded = proc[p].loaded /\ proc'[p].status = proc[p].status
      /\ proc'[p].exec = proc[p].exec /\ proc'[p].pexec = proc[p].pexec
      /\ proc'[p].pwait = 1 /\ proc'[p].children = proc[p].children
      /\ \A q \in Pid \ {p} : proc'[q] = proc[q]
  BY <1>2, <1>m DEF ProcessTypeInv, Struct
<1>u. \A q \in Pid : Unreaped(q)' = Unreaped(q)
  BY <1>c, <1>v DEF Unreaped
<1>h. ASSUME NEW q \in Pid PROVE Known(q)'
  <2>0. Unreaped(q) \subseteq Pid /\ (q # c => ~InWindow(q))
    BY <1>1, UnreapedPids DEF Alone
  <2>1. Ops(q)'
    BY <1>1, <1>2, <1>k, <1>v, <1>b, <1>c
       DEF Ops, Searches, Selves, Parents, Childs, Changes
  <2>2. Life(q)'
    BY <1>1, <1>2, <1>k, <1>v, <1>b, <1>c
       DEF Life, Able, Early, Late, Looks, Waits, Over
  <2>3. Fields(q)'
    <3>1. q # c => at[q] # "exitup"
      BY <1>1, <2>0 DEF InWindow
    <3>2. at[q] = "signalup" =>
            at[proc[q].parent] = "pexecsleep" /\ proc[q].parent \in Pid
      BY <1>k, ParentPid DEF Fields
    <3> HIDE DEF p
    <3> QED BY <1>1, <1>2, <1>k, <1>v, <1>b, <1>c, <3>1, <3>2
            DEF Fields, Able, Early, Late, Looks, Waits, Dying, Over, Exiting
  <2>4. Children(q)'
    BY <1>1, <1>2, <1>3, <1>k, <1>v, <1>b, <1>c, <1>u, <2>0
       DEF Children, Loads, Looks, Waits
  <2>5. Parent(q)'
    <3> HIDE DEF p
    <3> QED BY <1>1, <1>2, <1>3, <1>k, <1>v, <1>b, <1>c, <1>u DEF Parent, Late
  <2>6. Loading(q)'
    BY <1>1, <1>2, <1>k, <1>v, <1>b DEF Loading
  <2>7. Execing(q)'
    <3>1. at[q] \in Early \cup Late => arg[q] \in Pid
      BY DEF ProcessTypeInv
    <3> HIDE DEF p
    <3> QED BY <1>1, <1>2, <1>3, <1>k, <1>v, <1>b, <1>c, <3>1
            DEF Execing, Early, Late, Loads
  <2>8. Waiting(q)'
    <3>1. at[q] \in Looks \cup Waits => arg[q] \in Pid
      BY DEF ProcessTypeInv
    <3>2. arg[q] = c /\ at[q] \in {"waitdead"} \cup Waits => q = p
      BY <1>2, <1>k DEF Waiting, Children
    <3> HIDE DEF p
    <3> QED BY <1>1, <1>2, <1>3, <1>k, <1>v, <1>b, <1>c, <1>u, <3>1, <3>2
            DEF Waiting, Looks, Waits, Dying, Over
  <2>9. Said(q)'
    <3>1. ret[q].child \in Pid \cup {None}
      BY DEF ProcessTypeInv, Result
    <3> HIDE DEF p
    <3> QED BY <1>1, <1>2, <1>k, <1>v, <1>b, <1>c, <1>u, <3>1 DEF Said, Exiting
  <2> QED BY <2>1, <2>2, <2>3, <2>4, <2>5, <2>6, <2>7, <2>8, <2>9 DEF Known
<1>j. OneWindow' /\ OneInList' /\ OneExec'
  <2>1. \A q \in Pid \ {c} : ~InWindow(q)' /\ ~InList(q)'
    BY <1>1, <1>2, <1>v, <1>b, <1>c DEF Alone, InWindow, InList, Exiting
  <2>2. OneExec
    BY DEF CallInv
  <2> QED BY <1>1, <1>2, <1>v, <1>b, <2>1, <2>2
          DEF OneWindow, OneInList, OneExec, Early, Late
<1>l. Linked(f)'
  BY <1>v, Still
<1> QED
  BY <1>1, <1>v, <1>h, <1>j, <1>l DEF Good, CallInv

-----------------------------------------------------------------------------
\* The steps inside the list.  A thread that is inside is alone there.
LEMMA InsideAlone ==
  ASSUME Careful, ProcessTypeInv, CallInv, NEW p \in Pid, Runs(p)
  PROVE  /\ Alone(p) /\ ~fault
         /\ \A q \in Pid \ {p} : /\ op[q].do \notin {"link", "tie", "close", "free"}
                                 /\ op[q].do = "find" => op[q].on = First
BY RunsAlone DEF Alone, InList

\* A step that changes the op of p and pointers of the list, and nothing else.
LEMMA Pointed ==
  ASSUME ProcessTypeInv, CallInv, NEW f \in [Node -> Int], NEW p \in Pid, Alone(p),
         UNCHANGED <<proc, list, freed, at, locals, fault, ghosts>>,
         \A q \in Pid \ {p} : op'[q] = op[q],
         at[p] \in Searches \cup Changes, Loading(p),
         Ops(p)', Execing(p)', Waiting(p)', op[p].do # "link", Linked(f)'
  PROVE  Good'
<1>v. UNCHANGED <<proc, list, freed, at, cur, par, arg, val, fault, exited, reaped, ret>>
  BY DEF locals, ghosts
<1>s. Solo(p) /\ Unreaped(p)' = Unreaped(p)
  BY <1>v DEF Solo, Unreaped
<1>k. Life(p) /\ Fields(p) /\ Children(p)
  BY DEF CallInv, Known
<1>c. Calm(p)
  BY <1>v, <1>s
     DEF Calm, Searches, Selves, Parents, Childs, Changes, Loads, Dying, Over, Exiting
<1>a. \A q \in Pid \ {p} : Known(q)'
  BY <1>c, <1>s, Kept
<1>d. Own(p)'
  <2>1. Life(p)' /\ Fields(p)'
    BY <1>k, <1>v DEF Life, Fields
  <2>2. Children(p)'
    BY <1>k, <1>v, <1>s DEF Children
  <2> QED BY <2>1, <2>2 DEF Own
<1>f. Said(p)'
  BY <1>c, <1>s, <1>v, SaidKept
<1>g. OneExec'
  <2>1. OneExec BY DEF CallInv
  <2> QED BY <1>v, <2>1 DEF OneExec
<1>h. at'[p] # "load" /\ proc'[p].parent = proc[p].parent
  BY <1>v DEF Searches, Selves, Parents, Childs, Changes
<1> QED
  BY <1>a, <1>d, <1>f, <1>g, <1>h, <1>s, Settled

LEMMA WalkInv ==
  ASSUME Careful, ProcessTypeInv, CallInv, NEW f \in [Node -> Int], Linked(f), NEW p \in Pid,
         Walk(p)
  PROVE  Good'
<1>1. /\ Alone(p) /\ op[p].do = "find" /\ op[p].on \notin {op[p].goal, End}
      /\ \A q \in Pid \ {p} : /\ op[q].do \notin {"link", "tie", "close", "free"}
                              /\ op[q].do = "find" => op[q].on = First
  BY InsideAlone DEF Walk
<1>k. Ops(p) /\ Execing(p) /\ Waiting(p) /\ Loading(p) /\ Stands(p, f)
  BY DEF CallInv, Known, Linked
<1>2. op[p].on \in list \cup {First} /\ op[p].on \notin freed
  <2>1. First \notin freed
    BY ProcessAssumption DEF ProcessTypeInv
  <2>2. op[p].on \in list \cup {First}
    BY <1>1, <1>k DEF Stands
  <2> QED BY <2>1, <2>2, OnList
<1>3. op[p].on \in Node /\ op[p].goal \in Pid \cup {None} /\ at[p] \in Searches \cup Changes
  BY <1>1, <1>k DEF ProcessTypeInv, Op, Ops
<1>m. /\ op' = [op EXCEPT ![p].on = next[op[p].on]]
      /\ UNCHANGED <<heap, at, locals, fault, ghosts>>
  BY <1>1, <1>2, <1>3 DEF Walk, ProcessTypeInv, Op
<1>b. /\ op'[p].do = "find" /\ op'[p].on = next[op[p].on] /\ op'[p].goal = op[p].goal
      /\ \A q \in Pid \ {p} : op'[q] = op[q]
  BY <1>1, <1>m DEF ProcessTypeInv, Op
<1>v. UNCHANGED <<proc, next, prev, list, freed, at, cur, par, arg, val, fault, exited,
                  reaped, ret>>
  BY <1>m DEF heap, locals, ghosts
<1>c. Ops(p)' /\ Execing(p)' /\ Waiting(p)'
  BY <1>1, <1>k, <1>b, <1>v
     DEF Ops, Execing, Waiting, Searches, Selves, Parents, Childs, Changes, Early, Late, Waits,
         Unreaped
<1>l. Linked(f)'
  <2>1. Chain(f)'
    BY <1>v DEF Linked, Chain
  <2>2. \A y \in list \cup {End} : Behind(y)'
    <3> TAKE y \in list \cup {End}
    <3>1. Behind(y) BY DEF Linked
    <3> QED BY <1>1, <1>b, <1>v, <3>1 DEF Behind
  <2>3. ASSUME NEW q \in Pid PROVE Stands(q, f)'
    <3>1. Stands(q, f) BY DEF Linked
    <3>2. CASE q # p
      BY <1>b, <1>v, <3>1, <3>2 DEF Stands
    <3>3. CASE q = p
      <4>1. Chain(f) BY DEF Linked
      <4>2. next[op[p].on] \in list \cup {First, End}
        BY <1>2, <4>1 DEF Chain
      <4>3. ASSUME op[p].goal \in list PROVE f[next[op[p].on]] <= f[op[p].goal]
        <5>1. f[op[p].on] <= f[op[p].goal] /\ f[op[p].on] # f[op[p].goal]
          BY <1>1, <1>2, <1>k, <4>1, <4>3 DEF Stands, Chain
        <5>2. f[op[p].on] \in Int /\ f[op[p].goal] \in Int
          BY <1>3, <4>3, Names DEF ProcessTypeInv
        <5>3. f[op[p].on] < f[op[p].goal]
          BY <5>1, <5>2
        <5> QED BY <1>2, <4>1, <4>3, <5>3 DEF Chain
      <4> QED BY <1>b, <1>v, <3>3, <4>2, <4>3 DEF Stands
    <3> QED BY <3>2, <3>3
  <2> QED BY <1>v, <2>1, <2>2, <2>3 DEF Linked
<1> QED
  BY <1>1, <1>3, <1>k, <1>b, <1>c, <1>l, <1>m, Pointed DEF heap

LEMMA TieInv ==
  ASSUME Careful, ProcessTypeInv, CallInv, NEW f \in [Node -> Int], Linked(f), NEW p \in Pid,
         Tie(p)
  PROVE  Good'
<1>1. /\ Alone(p) /\ op[p].do = "tie"
      /\ \A q \in Pid \ {p} : /\ op[q].do \notin {"link", "tie", "close", "free"}
                              /\ op[q].do = "find" => op[q].on = First
  BY InsideAlone DEF Tie
<1>k. Ops(p) /\ Execing(p) /\ Waiting(p) /\ Loading(p) /\ Stands(p, f)
  BY DEF CallInv, Known, Linked
<1>2. at[p] = "pexec" /\ op[p].on = arg[p]
  BY <1>1, <1>k DEF Ops, Searches, Selves, Parents, Childs, Changes
<1>m. /\ prev' = [prev EXCEPT ![End] = op[p].on] /\ op' = [op EXCEPT ![p] = Idle]
      /\ UNCHANGED <<proc, next, list, freed, at, locals, fault, ghosts>>
  BY DEF Tie
<1>b. op'[p].do = "none" /\ \A q \in Pid \ {p} : op'[q] = op[q]
  BY <1>m DEF ProcessTypeInv, Idle
<1>v. UNCHANGED <<proc, next, list, freed, at, cur, par, arg, val, fault, exited,
                  reaped, ret>>
  BY <1>m DEF locals, ghosts
<1>c. Ops(p)' /\ Execing(p)' /\ Waiting(p)'
  BY <1>1, <1>2, <1>k, <1>b, <1>v
     DEF Ops, Execing, Waiting, Searches, Selves, Parents, Childs, Changes, Early, Late, Waits,
         Unreaped
<1>l. Linked(f)'
  <2>0. /\ prev'[End] = op[p].on /\ \A y \in list : prev'[y] = prev[y] /\ y # End
    BY <1>m, ProcessAssumption, Names DEF ProcessTypeInv
  <2>1. Chain(f)'
    BY <1>v DEF Linked, Chain
  <2>2. \A y \in list \cup {End} : Behind(y)'
    <3> TAKE y \in list \cup {End}
    <3>1. Behind(y) BY DEF Linked
    <3>2. op[p].on \in list /\ next[op[p].on] = End
      BY <1>1, <1>k DEF Stands
    <3>3. CASE y = End
      BY <1>v, <2>0, <3>2, <3>3 DEF Behind
    <3>4. CASE y # End
      BY <1>1, <1>v, <2>0, <3>1, <3>4 DEF Behind
    <3> QED BY <3>3, <3>4
  <2>3. ASSUME NEW q \in Pid PROVE Stands(q, f)'
    <3>1. Stands(q, f) BY DEF Linked
    <3>2. CASE q # p
      BY <1>1, <1>b, <1>v, <3>1, <3>2 DEF Stands
    <3>3. CASE q = p
      BY <1>b, <3>3 DEF Stands
    <3> QED BY <3>2, <3>3
  <2> QED BY <1>v, <2>1, <2>2, <2>3 DEF Linked
<1> QED
  BY <1>1, <1>2, <1>k, <1>b, <1>c, <1>l, <1>m, Pointed DEF Changes

LEMMA CloseInv ==
  ASSUME Careful, ProcessTypeInv, CallInv, NEW f \in [Node -> Int], Linked(f), NEW p \in Pid,
         Close(p)
  PROVE  Good'
<1> DEFINE e == op[p].on
<1>1. /\ Alone(p) /\ op[p].do = "close"
      /\ \A q \in Pid \ {p} : /\ op[q].do \notin {"link", "tie", "close", "free"}
                              /\ op[q].do = "find" => op[q].on = First
  BY InsideAlone DEF Close
<1>k. Ops(p) /\ Execing(p) /\ Waiting(p) /\ Loading(p) /\ Stands(p, f)
  BY DEF CallInv, Known, Linked
<1>2. /\ e = arg[p] /\ e \in Pid
      /\ \/ at[p] = "removed" /\ op[p].goal = None
         \/ at[p] = "execfailed" /\ op[p].goal = e /\ e # None
  BY <1>1, <1>k, ProcessAssumption
     DEF Ops, Searches, Selves, Parents, Childs, Changes, ProcessTypeInv, Changing
<1>3. /\ e \notin list /\ prev[e] \in list \cup {First} /\ next[e] \in list \cup {End}
      /\ next[prev[e]] = next[e]
  BY <1>1, <1>k DEF Stands
<1>4. {e, next[e]} \cap freed = {}
  <2>1. e \notin freed
    <3>1. CASE at[p] = "execfailed"
      BY <1>1, <1>2, <1>k, <3>1 DEF Execing
    <3>2. CASE at[p] = "removed"
      <4>1. e \in Unreaped(p)
        BY <1>2, <1>k, <3>2 DEF Waiting, Waits
      <4>2. proc[e].loaded
        BY <4>1 DEF CallInv, Known, Children
      <4> QED BY <1>2, <4>2 DEF CallInv, Known, Life
    <3> QED BY <1>2, <3>1, <3>2
  <2>2. End \notin freed
    BY ProcessAssumption DEF ProcessTypeInv
  <2> QED BY <1>3, <2>1, <2>2, OnList
<1>m. /\ prev' = [prev EXCEPT ![next[e]] = prev[e]]
      /\ op' = [op EXCEPT ![p] = IF op[p].goal = None THEN Idle ELSE [@ EXCEPT !.do = "free"]]
      /\ UNCHANGED <<proc, next, list, freed, at, locals, fault, ghosts>>
  BY <1>4 DEF Close
<1>b. /\ op[p].goal = None => op'[p].do = "none" /\ op'[p].goal = None
      /\ op[p].goal # None => op'[p].do = "free" /\ op'[p].on = e /\ op'[p].goal = op[p].goal
      /\ \A q \in Pid \ {p} : op'[q] = op[q]
  BY <1>m DEF ProcessTypeInv, Idle, Op
<1>v. UNCHANGED <<proc, next, list, freed, at, cur, par, arg, val, fault, exited,
                  reaped, ret>>
  BY <1>m DEF locals, ghosts
<1>c. Ops(p)' /\ Execing(p)' /\ Waiting(p)'
  <2>1. None # e /\ at'[p] = at[p] /\ at[p] \in {"removed", "execfailed"}
    BY <1>2, <1>v, ProcessAssumption
  <2>2. Ops(p)'
    BY <1>1, <1>2, <1>b, <1>v, <2>1
       DEF Ops, Searches, Selves, Parents, Childs, Changes
  <2>3. Execing(p)'
    BY <1>1, <1>2, <1>3, <1>k, <1>b, <1>v, <2>1 DEF Execing, Early, Late
  <2>4. Waiting(p)'
    BY <1>1, <1>2, <1>3, <1>k, <1>b, <1>v, <2>1 DEF Waiting, Waits, Unreaped
  <2> QED BY <2>2, <2>3, <2>4
<1>l. Linked(f)'
  <2>0. /\ prev'[next[e]] = prev[e] /\ \A y \in Node : y # next[e] => prev'[y] = prev[y]
        /\ list \cup {End} \subseteq Node
    <3>1. next[e] \in Node /\ list \cup {End} \subseteq Node
      BY <1>3, Names DEF ProcessTypeInv
    <3> QED BY <1>m, <3>1 DEF ProcessTypeInv
  <2>1. Chain(f)'
    BY <1>v DEF Linked, Chain
  <2>2. \A y \in list \cup {End} : Behind(y)'
    <3> TAKE y \in list \cup {End}
    <3>1. Behind(y) BY DEF Linked
    <3>3. CASE y = next[e]
      BY <1>3, <1>v, <2>0, <3>3 DEF Behind
    <3>4. CASE y # next[e]
      BY <1>1, <1>v, <2>0, <3>1, <3>4 DEF Behind
    <3> QED BY <3>3, <3>4
  <2>3. ASSUME NEW q \in Pid PROVE Stands(q, f)'
    <3>1. Stands(q, f) BY DEF Linked
    <3>2. CASE q # p
      BY <1>1, <1>b, <1>v, <3>1, <3>2 DEF Stands
    <3>3. CASE q = p
      BY <1>3, <1>b, <1>v, <3>3 DEF Stands
    <3> QED BY <3>2, <3>3
  <2> QED BY <1>v, <2>1, <2>2, <2>3 DEF Linked
<1> QED
  BY <1>1, <1>2, <1>k, <1>b, <1>c, <1>l, <1>m, Pointed DEF Changes

\* The second store of an insertion puts the struct on the list.
LEMMA LinkInv ==
  ASSUME Careful, ProcessTypeInv, CallInv, NEW f \in [Node -> Int], Linked(f), NEW p \in Pid,
         Link(p)
  PROVE  Good'
<1> DEFINE e == op[p].on
           x0 == prev[End]
<1>1. /\ Alone(p) /\ op[p].do = "link" /\ ~fault
      /\ \A q \in Pid \ {p} : /\ op[q].do \notin {"link", "tie", "close", "free"}
                              /\ op[q].do = "find" => op[q].on = First
  BY InsideAlone DEF Link
<1>k. \A q \in Pid : /\ Ops(q) /\ Life(q) /\ Fields(q) /\ Children(q) /\ Parent(q)
                     /\ Loading(q) /\ Execing(q) /\ Waiting(q) /\ Said(q)
  BY DEF CallInv, Known
<1>2. /\ at[p] = "pexec" /\ e = arg[p] /\ e \in Pid /\ e # p /\ e # Boot
      /\ at[e] = "load" /\ proc[e].parent = p
  <2>1. at[p] = "pexec" /\ e = arg[p]
    BY <1>1, <1>k DEF Ops, Searches, Selves, Parents, Childs, Changes
  <2> QED BY <1>k, <2>1 DEF Execing, Late
<1>3. e \notin list /\ next[e] = End /\ prev[e] = x0
  <2>1. Stands(p, f) BY DEF Linked
  <2> QED BY <1>1, <2>1 DEF Stands
<1>4. x0 \in list \cup {First} /\ next[x0] = End /\ x0 # e /\ x0 \notin freed
  <2>1. Behind(End) BY DEF Linked
  <2>2. x0 \in list \cup {First} /\ next[x0] = End
    BY <1>1, <2>1 DEF Behind
  <2>3. First \notin freed /\ First \notin Pid
    BY ProcessAssumption DEF ProcessTypeInv
  <2> QED BY <1>2, <1>3, <2>2, <2>3, OnList
<1>m. /\ next' = [next EXCEPT ![x0] = e] /\ list' = list \cup {e}
      /\ op' = [op EXCEPT ![p].do = "tie"]
      /\ UNCHANGED <<proc, prev, freed, at, locals, fault, ghosts>>
  BY <1>4 DEF Link
<1>v. UNCHANGED <<proc, prev, freed, at, cur, par, arg, val, fault, exited, reaped, ret>>
  BY <1>m DEF locals, ghosts
<1>b. /\ op'[p].do = "tie" /\ op'[p].on = e /\ op'[p].goal = op[p].goal
      /\ \A q \in Pid \ {p} : op'[q] = op[q]
  BY <1>m DEF ProcessTypeInv, Op
<1>n. /\ next'[x0] = e /\ \A x \in Node \ {x0} : next'[x] = next[x]
      /\ list \cup {First, End, e} \subseteq Node /\ {First, End} \cap Pid = {}
  <2>1. list \cup {First, End, e} \subseteq Node /\ {First, End} \cap Pid = {}
    BY <1>2, ProcessAssumption, Names DEF ProcessTypeInv
  <2>2. x0 \in Node
    BY <1>4, <2>1
  <2> QED BY <1>m, <2>1, <2>2 DEF ProcessTypeInv
<1>u. \A q \in Pid : Unreaped(q)' = Unreaped(q)
  BY <1>v DEF Unreaped
<1>x. \A q \in Pid \ {p} : at[q] \in Early \cup Late => arg[q] # e
  <2>1. OneExec
    BY DEF CallInv
  <2> QED BY <1>2, <2>1 DEF OneExec, Late
<1>h. ASSUME NEW q \in Pid PROVE Known(q)'
  <2>0. Unreaped(q) \subseteq Pid
    BY UnreapedPids
  <2>1. Ops(q)'
    BY <1>1, <1>2, <1>k, <1>v, <1>b DEF Ops, Searches, Selves, Parents, Childs, Changes
  <2>2. Life(q)'
    BY <1>2, <1>k, <1>m, <1>v DEF Life, Over
  <2>3. Fields(q)'
    BY <1>k, <1>v DEF Fields
  <2>4. Children(q)'
    BY <1>k, <1>m, <1>v, <1>u, <2>0 DEF Children
  <2>5. Parent(q)'
    BY <1>2, <1>k, <1>m, <1>v, <1>u DEF Parent, Late
  <2>6. Loading(q)'
    BY <1>2, <1>k, <1>m, <1>v, <1>b DEF Loading
  <2>7. Execing(q)'
    <3>1. at[q] = "enlist" => q = p
      BY <1>1 DEF Alone, InWindow
    <3> QED BY <1>1, <1>2, <1>3, <1>k, <1>m, <1>v, <1>b, <1>x, <3>1 DEF Execing, Early, Late
  <2>8. Waiting(q)'
    <3>1. at[q] \in {"waitdead"} \cup Waits => arg[q] # e
      BY <1>2, <1>k DEF Waiting, Children, Loads
    <3> QED BY <1>2, <1>k, <1>m, <1>v, <1>b, <1>u, <3>1 DEF Waiting, Waits
  <2>9. Said(q)'
    BY <1>k, <1>v, <1>u DEF Said
  <2> QED BY <2>1, <2>2, <2>3, <2>4, <2>5, <2>6, <2>7, <2>8, <2>9 DEF Known
<1>j. OneWindow' /\ OneInList' /\ OneExec'
  <2>1. \A q \in Pid \ {p} : ~InWindow(q)' /\ ~InList(q)'
    BY <1>1, <1>v, <1>b DEF Alone, InWindow, InList
  <2>2. OneExec
    BY DEF CallInv
  <2> QED BY <1>v, <2>1, <2>2 DEF OneWindow, OneInList, OneExec
<1>g. PICK g \in [Node -> Int] :
        /\ g[e] = f[End] /\ g[End] = f[End] + 1
        /\ \A x \in list \cup {First} : g[x] = f[x] /\ f[x] < f[End] /\ f[x] \in Int
        /\ f[End] \in Int
  <2> DEFINE h == [f EXCEPT ![e] = f[End], ![End] = f[End] + 1]
  <2>1. \A x \in list \cup {First} : f[x] < f[End]
    BY DEF Linked, Chain
  <2>2. e # End /\ \A x \in list \cup {First} : x # e /\ x # End
    BY <1>2, <1>3, <1>n, ProcessAssumption DEF ProcessTypeInv
  <2>3. e \in Node /\ End \in Node /\ f[End] \in Int /\ f[End] + 1 \in Int
    BY <1>n
  <2>4. \A x \in list \cup {First} : x \in Node /\ f[x] \in Int
    BY <1>n
  <2>5. h \in [Node -> Int]
    BY <2>3
  <2>6. h[e] = f[End] /\ h[End] = f[End] + 1 /\ \A x \in list \cup {First} : h[x] = f[x]
    BY <2>2, <2>3, <2>4
  <2> HIDE DEF h
  <2> QED BY <2>1, <2>3, <2>4, <2>5, <2>6
<1>c. Chain(g)'
  <2>0. Chain(f) BY DEF Linked
  <2>e. e # End /\ e # First /\ First # End
    BY <1>2, <1>n, ProcessAssumption
  <2>1. ASSUME NEW x \in list \cup {First}, x # x0
        PROVE  next'[x] = next[x] /\ next[x] \in list
    <3>1. next'[x] = next[x] /\ next[x] \in list \cup {End}
      BY <1>n, <2>0, <2>1 DEF Chain
    <3>2. f[x] # f[x0] /\ f[x] \in Int /\ f[x0] \in Int
      BY <1>4, <1>g, <2>0, <2>1 DEF Chain
    <3>3. CASE f[x] < f[x0]
      <4>1. x0 \in list
        BY <1>4, <1>g, <2>0, <2>1, <3>3 DEF Chain
      <4>2. f[next[x]] <= f[x0] /\ f[x0] < f[End]
        BY <1>g, <2>0, <2>1, <3>3, <4>1 DEF Chain
      <4> QED BY <1>g, <3>1, <3>2, <4>2
    <3>4. CASE f[x0] < f[x]
      <4>1. x \in list
        BY <1>4, <1>g, <2>0, <2>1, <3>4 DEF Chain
      <4>2. f[End] <= f[x]
        BY <1>4, <2>0, <3>4, <4>1 DEF Chain
      <4> QED BY <1>g, <4>1, <4>2
    <3> QED BY <3>2, <3>3, <3>4
  <2>2. ASSUME NEW x \in list' \cup {First}
        PROVE  /\ next'[x] \in list' \cup {End} /\ g[x] < g[next'[x]]
               /\ \A y \in list' \cup {End} : g[x] < g[y] => g[next'[x]] <= g[y]
    <3>1. CASE x = e
      <4>1. next'[x] = End
        BY <1>2, <1>3, <1>4, <1>n, <3>1
      <4> QED BY <1>m, <1>g, <3>1, <4>1
    <3>2. CASE x = x0
      <4>1. next'[x] = e /\ x \in list \cup {First}
        BY <1>4, <1>n, <3>2
      <4>2. \A y \in list : f[x] < f[y] => f[End] <= f[y]
        BY <1>4, <2>0, <3>2 DEF Chain
      <4> QED BY <1>m, <1>g, <4>1, <4>2
    <3>3. CASE x # e /\ x # x0
      <4>1. x \in list \cup {First} /\ next'[x] = next[x] /\ next[x] \in list
        BY <1>m, <2>1, <2>2, <3>3
      <4>2. f[x] < f[next[x]] /\ \A y \in list : f[x] < f[y] => f[next[x]] <= f[y]
        BY <2>0, <4>1 DEF Chain
      <4> QED BY <1>m, <1>g, <4>1, <4>2
    <3> QED BY <3>1, <3>2, <3>3
  <2>3. \A x, y \in list' \cup {First, End} : g[x] = g[y] => x = y
    BY <1>m, <1>g, <2>0 DEF Chain
  <2>4. \A x \in list' : g[First] < g[x] /\ g[x] < g[End]
    BY <1>m, <1>g, <2>0 DEF Chain
  <2>5. g[First] < g[End]
    BY <1>g
  <2> QED BY <2>2, <2>3, <2>4, <2>5 DEF Chain
<1>l. Linked(g)'
  <2>2. ASSUME NEW y \in list' \cup {End} PROVE Behind(y)'
    <3>1. CASE y = End
      BY <1>b, <3>1 DEF Behind
    <3>2. CASE y = e
      BY <1>3, <1>4, <1>m, <1>v, <1>n, <3>2 DEF Behind
    <3>3. CASE y # End /\ y # e
      <4>1. y \in list /\ Behind(y)
        BY <1>m, <2>2, <3>3 DEF Linked
      <4>2. prev[y] \in list \cup {First} /\ next[prev[y]] = y
        BY <1>1, <3>3, <4>1 DEF Behind
      <4>3. prev[y] # x0
        BY <1>4, <3>3, <4>2
      <4> QED BY <1>m, <1>v, <1>n, <4>2, <4>3 DEF Behind
    <3> QED BY <3>1, <3>2, <3>3
  <2>3. ASSUME NEW q \in Pid PROVE Stands(q, g)'
    <3>1. Stands(q, f) BY DEF Linked
    <3>2. CASE q # p
      <4>1. op[q].do = "find" => \A y \in list' : g[First] <= g[y]
        BY <1>m, <1>g, <1>c DEF Chain
      <4> QED BY <1>1, <1>b, <1>m, <3>1, <3>2, <4>1 DEF Stands
    <3>3. CASE q = p
      <4>1. next'[e] = End
        BY <1>2, <1>3, <1>4, <1>n
      <4> QED BY <1>b, <1>m, <3>3, <4>1 DEF Stands
    <3> QED BY <3>2, <3>3
  <2> QED BY <1>c, <2>2, <2>3 DEF Linked
<1> QED
  BY <1>1, <1>v, <1>g, <1>h, <1>j, <1>l DEF Good, CallInv

\* The first store of a removal takes the struct off the list.
LEMMA SkipInv ==
  ASSUME Careful, ProcessTypeInv, CallInv, NEW f \in [Node -> Int], Linked(f), NEW p \in Pid,
         Skip(p)
  PROVE  Good'
<1> DEFINE e == op[p].on
           x0 == prev[e]
           z == next[e]
<1>1. /\ Alone(p) /\ op[p].do = "skip" /\ ~fault
      /\ \A q \in Pid \ {p} : /\ op[q].do \notin {"link", "tie", "close", "free"}
                              /\ op[q].do = "find" => op[q].on = First
  BY InsideAlone DEF Skip
<1>k. \A q \in Pid : /\ Ops(q) /\ Life(q) /\ Fields(q) /\ Children(q) /\ Parent(q)
                     /\ Loading(q) /\ Execing(q) /\ Waiting(q) /\ Said(q)
  BY DEF CallInv, Known
<1>2. at[p] \in {"removed", "execfailed"} /\ e = arg[p] /\ e \in list /\ e \in Pid
  <2>1. Stands(p, f) BY DEF Linked
  <2>2. at[p] \in {"removed", "execfailed"} /\ e = arg[p]
    BY <1>1, <1>k DEF Ops, Searches, Selves, Parents, Childs, Changes
  <2> QED BY <1>1, <2>1, <2>2 DEF Stands, ProcessTypeInv
<1>3. e # p /\ e # Boot /\ proc[e].parent = p /\ at[e] \in Over /\ Unreaped(p) \subseteq {e}
  <2>1. CASE at[p] = "removed"
    <3>1. e \in Unreaped(p) /\ at[e] \in Dying
      BY <1>2, <1>k, <2>1 DEF Waiting, Waits
    <3>2. e # p /\ e # Boot /\ proc[e].parent = p /\ Unreaped(p) \subseteq {e}
      BY <1>k, <3>1 DEF Children
    <3>3. at[e] \in Over
      BY <1>1, <1>2, <3>1, <3>2 DEF Alone, InWindow, Dying
    <3> QED BY <3>2, <3>3
  <2>2. CASE at[p] = "execfailed"
    BY <1>2, <1>k, <2>2 DEF Execing, Children, Late, Looks, Waits, Over
  <2> QED BY <1>2, <2>1, <2>2
<1>4. \A q \in Pid \ {p} : /\ at[q] \in Late => arg[q] # e
                           /\ e \notin Unreaped(q)
  BY <1>3, <1>k DEF Execing, Children
<1>5. /\ x0 \in list \cup {First} /\ next[x0] = e /\ z \in list \cup {End}
      /\ f[x0] < f[e] /\ f[e] < f[z] /\ x0 # e /\ z # e /\ e \notin {First, End}
      /\ \A y \in list \cup {First, End} : f[y] \in Int
  <2>1. Behind(e) /\ Chain(f)
    BY <1>2 DEF Linked
  <2>2. e \notin {First, End}
    BY <1>2, ProcessAssumption
  <2>3. x0 \in list \cup {First} /\ next[x0] = e
    <3>1. \A q \in Pid : op[q].do \notin {"tie", "close"}
      BY <1>1
    <3> QED BY <2>1, <2>2, <3>1 DEF Behind
  <2>4. \A y \in list \cup {First, End} : f[y] \in Int
    BY Names DEF ProcessTypeInv
  <2>5. f[x0] < f[e]
    BY <2>1, <2>3 DEF Chain
  <2>6. z \in list \cup {End} /\ f[e] < f[z]
    BY <1>2, <2>1 DEF Chain
  <2> QED BY <1>2, <2>2, <2>3, <2>4, <2>5, <2>6
<1>6. {e, x0} \cap freed = {}
  <2>1. First \notin freed
    BY ProcessAssumption DEF ProcessTypeInv
  <2> QED BY <1>2, <1>5, <2>1, OnList
<1>m. /\ next' = [next EXCEPT ![x0] = z] /\ list' = list \ {e}
      /\ op' = [op EXCEPT ![p].do = "close"]
      /\ UNCHANGED <<proc, prev, freed, at, locals, fault, ghosts>>
  BY <1>6 DEF Skip
<1>v. UNCHANGED <<proc, prev, freed, at, cur, par, arg, val, fault, exited, reaped, ret>>
  BY <1>m DEF locals, ghosts
<1>b. /\ op'[p].do = "close" /\ op'[p].on = e /\ op'[p].goal = op[p].goal
      /\ \A q \in Pid \ {p} : op'[q] = op[q]
  BY <1>m DEF ProcessTypeInv, Op
<1>n. /\ next'[x0] = z /\ \A x \in Node \ {x0} : next'[x] = next[x]
      /\ list \cup {First, End} \subseteq Node
  <2>1. list \cup {First, End} \subseteq Node
    BY Names DEF ProcessTypeInv
  <2>2. x0 \in Node
    BY <1>5, <2>1
  <2> QED BY <1>m, <2>1, <2>2 DEF ProcessTypeInv
<1>u. \A q \in Pid : Unreaped(q)' = Unreaped(q)
  BY <1>v DEF Unreaped
<1>h. ASSUME NEW q \in Pid PROVE Known(q)'
  <2>0. Unreaped(q) \subseteq Pid
    BY UnreapedPids
  <2>1. Ops(q)'
    BY <1>1, <1>2, <1>k, <1>v, <1>b DEF Ops, Searches, Selves, Parents, Childs, Changes
  <2>2. Life(q)'
    BY <1>2, <1>3, <1>k, <1>m, <1>v DEF Life
  <2>3. Fields(q)'
    BY <1>k, <1>v DEF Fields
  <2>4. Children(q)'
    <3>1. e \in Unreaped(q) => q = p /\ at[p] = "removed" /\ arg[p] = e
      BY <1>2, <1>4, <1>k DEF Children, Looks, Waits
    <3> HIDE DEF e
    <3> QED BY <1>k, <1>m, <1>v, <1>u, <2>0, <3>1 DEF Children
  <2>5. Parent(q)'
    BY <1>k, <1>m, <1>v, <1>u DEF Parent
  <2>6. Loading(q)'
    BY <1>2, <1>3, <1>k, <1>m, <1>v, <1>b DEF Loading, Over
  <2>7. Execing(q)'
    <3>1. at[q] = "enlist" => q = p
      BY <1>1 DEF Alone, InWindow
    <3> HIDE DEF e
    <3> QED BY <1>1, <1>2, <1>4, <1>6, <1>k, <1>m, <1>v, <1>b, <3>1 DEF Execing, Early, Late
  <2>8. Waiting(q)'
    <3>1. q # p => at[q] # "waitparent"
      BY <1>1 DEF Alone, InList
    <3>2. q # p /\ at[q] \in Waits => arg[q] # e
      BY <1>4, <1>k DEF Waiting
    <3> HIDE DEF e
    <3> QED BY <1>1, <1>2, <1>k, <1>m, <1>v, <1>b, <1>u, <3>1, <3>2 DEF Waiting, Waits
  <2>9. Said(q)'
    BY <1>k, <1>v, <1>u DEF Said
  <2> QED BY <2>1, <2>2, <2>3, <2>4, <2>5, <2>6, <2>7, <2>8, <2>9 DEF Known
<1>j. OneWindow' /\ OneInList' /\ OneExec'
  <2>1. \A q \in Pid \ {p} : ~InWindow(q)' /\ ~InList(q)'
    BY <1>1, <1>v, <1>b DEF Alone, InWindow, InList
  <2>2. OneExec
    BY DEF CallInv
  <2> QED BY <1>v, <2>1, <2>2 DEF OneWindow, OneInList, OneExec
<1>f. Chain(f) BY DEF Linked
<1> HIDE DEF e, x0, z
<1>c. Chain(f)'
  <2>1. ASSUME NEW x \in list \cup {First}, next[x] = e
        PROVE  x = x0
    <3>1. f[x] < f[e] /\ f[x] \in Int /\ f[x0] \in Int /\ f[e] \in Int
      BY <1>2, <1>5, <1>f, <2>1 DEF Chain
    <3>2. CASE f[x] < f[x0]
      <4>1. x0 \in list
        BY <1>5, <1>f, <2>1, <3>1, <3>2 DEF Chain
      <4> QED BY <1>5, <1>f, <2>1, <3>1, <3>2, <4>1 DEF Chain
    <3>3. CASE f[x0] < f[x]
      <4>1. x \in list
        BY <1>5, <1>f, <2>1, <3>1, <3>3 DEF Chain
      <4> QED BY <1>5, <1>f, <2>1, <3>1, <3>3, <4>1 DEF Chain
    <3>4. CASE f[x] = f[x0]
      BY <1>5, <1>f, <2>1, <3>4 DEF Chain
    <3> QED BY <3>1, <3>2, <3>3, <3>4
  <2>2. ASSUME NEW x \in list' \cup {First}
        PROVE  /\ next'[x] \in list' \cup {End} /\ f[x] < f[next'[x]]
               /\ \A y \in list' \cup {End} : f[x] < f[y] => f[next'[x]] <= f[y]
    <3>1. CASE x = x0
      <4>1. next'[x] = z /\ z \in list' \cup {End} /\ f[x0] < f[z]
        BY <1>2, <1>5, <1>m, <1>n, <3>1
      <4>2. ASSUME NEW y \in list' \cup {End}, f[x0] < f[y] PROVE f[z] <= f[y]
        <5>1. y \in list \cup {End} /\ y # e
          BY <1>m, <1>5
        <5>2. f[e] <= f[y] /\ f[e] # f[y]
          BY <1>2, <1>5, <1>f, <4>2, <5>1 DEF Chain
        <5>3. f[e] < f[y]
          BY <1>2, <1>5, <5>1, <5>2
        <5> QED BY <1>2, <1>f, <5>1, <5>3 DEF Chain, z
      <4> QED BY <3>1, <4>1, <4>2
    <3>2. CASE x # x0
      <4>1. x \in list \cup {First} /\ next'[x] = next[x] /\ next[x] # e
        BY <1>m, <1>n, <2>1, <2>2, <3>2
      <4>2. /\ next[x] \in list \cup {End} /\ f[x] < f[next[x]]
            /\ \A y \in list \cup {End} : f[x] < f[y] => f[next[x]] <= f[y]
        BY <1>f, <4>1 DEF Chain
      <4> QED BY <1>m, <4>1, <4>2
    <3> QED BY <3>1, <3>2
  <2>3. list' \subseteq list
    BY <1>m
  <2>4. \A x, y \in list' \cup {First, End} : f[x] = f[y] => x = y
    BY <1>f, <2>3 DEF Chain
  <2>5. \A x \in list' : f[First] < f[x] /\ f[x] < f[End]
    BY <1>f, <2>3 DEF Chain
  <2>6. f[First] < f[End]
    BY <1>f DEF Chain
  <2> QED BY <2>2, <2>4, <2>5, <2>6 DEF Chain
<1>l. Linked(f)'
  <2>1. next'[e] = z
    BY <1>2, <1>5, <1>n DEF z
  <2>2. ASSUME NEW y \in list' \cup {End} PROVE Behind(y)'
    <3>1. CASE y = z
      <4>1. op'[p].do = "close" /\ next'[op'[p].on] = y
        BY <1>b, <2>1, <3>1 DEF e
      <4> QED BY <4>1 DEF Behind
    <3>2. CASE y # z
      <4>1. y \in list \cup {End} /\ Behind(y) /\ y # e
        BY <1>m, <1>5, <2>2 DEF Linked
      <4>2. \A q \in Pid : op[q].do \notin {"tie", "close"}
        BY <1>1
      <4>3. prev[y] \in list \cup {First} /\ next[prev[y]] = y
        BY <4>1, <4>2 DEF Behind
      <4>4. prev[y] # x0 /\ prev[y] # e
        BY <1>5, <3>2, <4>1, <4>3 DEF z
      <4>5. prev'[y] \in list' \cup {First} /\ next'[prev'[y]] = y
        BY <1>m, <1>v, <1>n, <4>3, <4>4
      <4> QED BY <4>5 DEF Behind
    <3> QED BY <3>1, <3>2
  <2>3. ASSUME NEW q \in Pid PROVE Stands(q, f)'
    <3>1. Stands(q, f) BY DEF Linked
    <3>2. CASE q # p
      <4>1. \A y \in list' : f[First] <= f[y]
        <5>1. \A y \in list' : f[First] < f[y] /\ f[First] \in Int /\ f[y] \in Int
          BY <1>m, <1>5, <1>f DEF Chain
        <5> QED BY <5>1
      <4>2. op[q].do = "skip" => op[q].on # e
        <5>1. op[q].do = "skip" => op[q].on = arg[q] /\ at[q] \in {"removed", "execfailed"}
          BY <1>k DEF Ops, Searches, Selves, Parents, Childs, Changes
        <5>2. at[q] = "removed" => arg[q] \in Unreaped(q)
          BY <1>k DEF Waiting, Waits
        <5> QED BY <1>4, <3>2, <5>1, <5>2 DEF Late
      <4> QED BY <1>1, <1>b, <1>m, <3>1, <3>2, <4>1, <4>2 DEF Stands
    <3>3. CASE q = p
      <4>1. /\ op'[p].do = "close" /\ op'[p].on = e /\ e \notin list'
            /\ prev'[e] = x0 /\ x0 \in list' \cup {First}
            /\ next'[e] = z /\ z \in list' \cup {End} /\ next'[x0] = z
        BY <1>b, <1>m, <1>v, <1>n, <1>5, <2>1 DEF e, x0
      <4> QED BY <3>3, <4>1 DEF Stands
    <3> QED BY <3>2, <3>3
  <2> QED BY <1>c, <2>2, <2>3 DEF Linked
<1> QED
  BY <1>1, <1>v, <1>h, <1>j, <1>l DEF Good, CallInv

\* free() of a struct that was removed before.
LEMMA FreeInv ==
  ASSUME Careful, ProcessTypeInv, CallInv, NEW f \in [Node -> Int], Linked(f), NEW p \in Pid,
         Free(p)
  PROVE  Good'
<1> DEFINE e == op[p].on
<1>1. /\ Alone(p) /\ op[p].do = "free" /\ ~fault
  BY InsideAlone DEF Free
<1>k. \A q \in Pid : /\ Ops(q) /\ Life(q) /\ Fields(q) /\ Children(q) /\ Parent(q)
                     /\ Loading(q) /\ Execing(q) /\ Waiting(q) /\ Said(q)
  BY DEF CallInv, Known
<1>2. at[p] = "execfailed" /\ e = arg[p]
  BY <1>1, <1>k DEF Ops, Searches, Selves, Parents, Childs, Changes
<1>3. e \notin freed /\ e \notin list /\ at[e] = "gone" /\ ~proc[e].loaded
  BY <1>1, <1>2, <1>k DEF Execing
<1>m. /\ freed' = freed \cup {e} /\ op' = [op EXCEPT ![p] = Idle]
      /\ UNCHANGED <<proc, next, prev, list, at, locals, fault, ghosts>>
  BY <1>3 DEF Free
<1>v. UNCHANGED <<proc, next, prev, list, at, cur, par, arg, val, fault, exited, reaped, ret>>
  BY <1>m DEF locals, ghosts
<1>b. op'[p].do = "none" /\ \A q \in Pid \ {p} : op'[q] = op[q]
  BY <1>m DEF ProcessTypeInv, Idle
<1>u. \A q \in Pid : Unreaped(q)' = Unreaped(q)
  BY <1>v DEF Unreaped
<1>x. \A q \in Pid \ {p} : at[q] \in Early \cup Late => arg[q] # e
  <2>1. OneExec
    BY DEF CallInv
  <2> QED BY <1>2, <2>1 DEF OneExec, Late
<1> HIDE DEF e
<1>h. ASSUME NEW q \in Pid PROVE Known(q)'
  <2>1. Ops(q)'
    BY <1>1, <1>2, <1>k, <1>v, <1>b DEF Ops, Searches, Selves, Parents, Childs, Changes
  <2>2. Life(q)'
    BY <1>3, <1>k, <1>m, <1>v DEF Life
  <2>3. Fields(q)'
    BY <1>k, <1>v DEF Fields
  <2>4. Children(q)'
    BY <1>k, <1>v, <1>u DEF Children
  <2>5. Parent(q)'
    BY <1>k, <1>v, <1>u DEF Parent
  <2>6. Loading(q)'
    BY <1>1, <1>2, <1>k, <1>v, <1>b DEF Loading
  <2>7. Execing(q)'
    BY <1>1, <1>2, <1>3, <1>k, <1>m, <1>v, <1>b, <1>x DEF Execing, Early, Late
  <2>8. Waiting(q)'
    BY <1>1, <1>2, <1>k, <1>v, <1>b, <1>u DEF Waiting, Waits
  <2>9. Said(q)'
    BY <1>k, <1>v, <1>u DEF Said
  <2> QED BY <2>1, <2>2, <2>3, <2>4, <2>5, <2>6, <2>7, <2>8, <2>9 DEF Known
<1>j. OneWindow' /\ OneInList' /\ OneExec'
  <2>1. \A q \in Pid \ {p} : ~InWindow(q)' /\ ~InList(q)'
    BY <1>1, <1>v, <1>b DEF Alone, InWindow, InList
  <2>2. OneExec
    BY DEF CallInv
  <2> QED BY <1>v, <2>1, <2>2 DEF OneWindow, OneInList, OneExec
<1>l. Linked(f)'
  BY <1>1, <1>v, <1>b, Still
<1> QED
  BY <1>1, <1>v, <1>h, <1>j, <1>l DEF Good, CallInv

-----------------------------------------------------------------------------
\* The invariant: what the types say and what CallInv and the list say.
LEMMA InitGood ==
  ASSUME Init
  PROVE  Good
<1>1. /\ proc = [p \in Pid |-> NewProc(None, "null")]
      /\ next = [x \in Node |-> IF x = First THEN Boot ELSE End]
      /\ prev = [x \in Node |-> IF x = End THEN Boot ELSE First]
      /\ list = {Boot} /\ freed = {} /\ reaped = {} /\ fault = FALSE
      /\ at = [p \in Pid |-> IF p = Boot THEN "user" ELSE "none"]
      /\ op = [p \in Pid |-> Idle] /\ arg = [p \in Pid |-> None]
      /\ ret = [p \in Pid |-> NoRet]
  BY DEF Init
<1>2. /\ Boot \in Pid /\ {First, End} \cap Pid = {} /\ First # End
      /\ First \in Node /\ End \in Node /\ Boot \in Node
  BY ProcessAssumption, Names
<1>3. \A p \in Pid : Unreaped(p) = {}
  <2>1. ToSet(<<>>) = {}
    BY DEF ToSet
  <2> QED BY <1>1, <2>1 DEF Unreaped, NewProc
<1>4. ASSUME NEW p \in Pid PROVE Known(p)
  <2>1. Ops(p) /\ Life(p)
    BY <1>1 DEF Ops, Life, Idle, Searches, Selves, Parents, Childs, Changes, Able, Early, Late,
                Looks, Waits, Over
  <2>2. Fields(p)
    BY <1>1 DEF Fields, NewProc, Dying, Over, Exiting, Able, Early, Late, Looks, Waits
  <2>3. Children(p) /\ Parent(p) /\ Loading(p)
    BY <1>1, <1>3 DEF Children, Parent, Loading
  <2>4. Execing(p) /\ Waiting(p) /\ Said(p)
    BY <1>1 DEF Execing, Waiting, Said, NoRet, Early, Late, Waits
  <2> QED BY <2>1, <2>2, <2>3, <2>4 DEF Known
<1>5. OneWindow /\ OneInList /\ OneExec
  BY <1>1 DEF OneWindow, OneInList, OneExec, InWindow, InList, Idle, Exiting, Early, Late
<1>6. PICK f \in [Node -> Int] : f[First] = 0 /\ f[Boot] = 1 /\ f[End] = 2
  <2> DEFINE h == [x \in Node |-> IF x = First THEN 0 ELSE IF x = Boot THEN 1 ELSE 2]
  <2>1. h \in [Node -> Int] /\ h[First] = 0 /\ h[Boot] = 1 /\ h[End] = 2
    BY <1>2
  <2> QED BY <2>1
<1>7. Linked(f)
  <2>1. /\ next[First] = Boot /\ next[Boot] = End /\ prev[End] = Boot /\ prev[Boot] = First
        /\ Boot # First /\ Boot # End
    BY <1>1, <1>2
  <2>2. Chain(f)
    BY <1>1, <1>2, <1>6, <2>1 DEF Chain
  <2>3. \A y \in list \cup {End} : Behind(y)
    BY <1>1, <2>1 DEF Behind
  <2>4. \A p \in Pid : Stands(p, f)
    BY <1>1 DEF Stands, Idle
  <2> QED BY <2>2, <2>3, <2>4 DEF Linked
<1> QED
  BY <1>1, <1>4, <1>5, <1>7 DEF Good, CallInv

LEMMA StepGood ==
  ASSUME Careful, ProcessTypeInv, Good, NEW p \in Pid, Call(p) \/ Step(p)
  PROVE  Good'
<1>1. PICK f \in [Node -> Int] : Linked(f)
  BY DEF Good
<1>2. CallInv
  BY DEF Good
<1>3. CASE Call(p)
  BY <1>1, <1>2, <1>3, CallExecInv, CallWaitInv, CallExitInv, KilledInv, OtherInv
     DEF Call
<1>4. CASE ListStep(p)
  BY <1>1, <1>2, <1>4, WalkInv, LinkInv, TieInv, SkipInv, CloseInv, FreeInv DEF ListStep
<1>5. CASE ExecStep(p)
  <2>1. ExecDown(p) => at[p] \in {"pexec", "pexecwoken"}
    BY DEF ExecDown, At
  <2> QED BY <1>1, <1>2, <1>5, <2>1, ExecInitInv, ExecCreateInv, ExecEnlistInv, ExecSleepsInv,
             ExecWokenInv, ExecReturnInv, ExecFailedInv DEF ExecStep
<1>6. CASE ChildStep(p)
  BY <1>1, <1>2, <1>6, LoadInv, ChildFoundInv, ChildSignalInv, ChildUpInv, ChildRunInv,
     ChildFailInv DEF ChildStep
<1>7. CASE WaitStep(p)
  <2>1. WaitDown(p) => at[p] \in {"pwait", "pwaitwoken"}
    BY DEF WaitDown, At
  <2> QED BY <1>1, <1>2, <1>7, <2>1, WaitSelfInv, WaitFindInv, WaitParentInv, WaitDeadInv,
             WaitSleepsInv, WaitWokenInv, WaitStatusInv, WaitRemoveInv, WaitRemovedInv,
             WaitFreeInv DEF WaitStep
<1>8. CASE ExitStep(p)
  BY <1>1, <1>2, <1>8, SetStatusInv, ExitFoundInv, ExitMarkInv, ExitFreeInv, ExitSignalInv,
     ExitUpInv, ExitReapInv, ExitChildInv, ExitCloseInv DEF ExitStep
<1>9. CASE OtherFound(p)
  BY <1>1, <1>2, <1>9, OtherFoundInv
<1> QED
  BY <1>3, <1>4, <1>5, <1>6, <1>7, <1>8, <1>9 DEF Step

LEMMA StutterGood ==
  ASSUME Good, UNCHANGED vars
  PROVE  Good'
<1>1. UNCHANGED <<proc, next, prev, list, freed, at, op, cur, par, arg, val, fault, exited,
                  reaped, ret>>
  BY DEF vars, heap, locals, ghosts
<1>2. ASSUME NEW q \in Pid PROVE Known(q) => Known(q)'
  BY <1>1 DEF Known, Ops, Life, Fields, Children, Parent, Loading, Execing, Waiting, Said,
              Unreaped
<1>3. (OneWindow /\ OneInList /\ OneExec) => (OneWindow /\ OneInList /\ OneExec)'
  BY <1>1 DEF OneWindow, OneInList, OneExec, InWindow, InList
<1>4. ASSUME NEW f \in [Node -> Int] PROVE Linked(f) => Linked(f)'
  BY <1>1 DEF Linked, Chain, Behind, Stands
<1> QED
  BY <1>1, <1>2, <1>3, <1>4 DEF Good, CallInv

\* How far parents and children of exec, wait and exit can be apart, and that
\* process_list is one chain.
THEOREM GoodHolds ==
  ASSUME Careful
  PROVE  Spec => []Good
<1>1. Init => Good
  BY InitGood
<1>2. ProcessTypeInv /\ Good /\ [Next]_vars => Good'
  BY StepGood, StutterGood DEF Next
<1> QED
  BY <1>1, <1>2, ProcessTypesHold, PTL DEF Spec

-----------------------------------------------------------------------------
\* The types of structs, pointers of process_list, locals and results, whatever
\* the timer and the programs do and with every condition dropped.  A semaphore
\* is a natural number and no more is said of it: two exiting children may both
\* find their parent asleep and both up it.
THEOREM ProcessTypes == Spec => []TypeOK
<1>1. ProcessTypeInv => TypeOK
  BY DEF ProcessTypeInv, TypeOK, Struct, Result, Op, Doing
<1> QED
  BY <1>1, ProcessTypesHold, PTL

\* Under the conditions no walk of process_list and no call of process.c uses
\* a null or freed struct, and no assertion fails.
THEOREM NeverFaults ==
  ASSUME Careful
  PROVE  Spec => []NoFault
<1>1. Good => NoFault
  BY DEF Good, CallInv, NoFault
<1> QED
  BY <1>1, GoodHolds, PTL

\* ... exec and wait return what process.c says they return,
THEOREM CallsRight ==
  ASSUME Careful
  PROVE  Spec => []CallsContract
<1>1. ASSUME Good PROVE CallsContract
  <2>1. \A p \in Pid : Said(p)
    BY <1>1 DEF Good, CallInv, Known
  <2>2. WaitContract
    BY <2>1 DEF WaitContract, Said
  <2>3. ExecContract
    BY <2>1 DEF ExecContract, Said
  <2> QED BY <2>2, <2>3 DEF CallsContract
<1> QED
  BY <1>1, GoodHolds, PTL

\* ... and no sleeping parent is left without the sema_up() that wakes it.
THEOREM WakeupsKept ==
  ASSUME Careful
  PROVE  Spec => []NoWakeupLost
<1>1. ASSUME Good, ProcessTypeInv PROVE NoWakeupLost
  <2> SUFFICES ASSUME NEW p \in Pid
               PROVE  /\ at[p] = "pexecsleep" =>
                           at[arg[p]] \in {"load", "loading", "signal", "signalup"}
                      /\ at[p] = "pwaitsleep" => at[arg[p]] \notin Over
                      /\ at[p] = "pexecwoken" => proc[p].pexec > 0
                      /\ at[p] = "pwaitwoken" => proc[p].pwait > 0
    BY DEF NoWakeupLost
  <2>1. Execing(p) /\ Waiting(p) /\ Fields(p)
    BY <1>1 DEF Good, CallInv, Known
  <2> QED BY <2>1 DEF Execing, Waiting, Fields, Loads
<1> QED
  BY <1>1, GoodHolds, ProcessTypesHold, PTL

\* Only the end of process_wait() reports a status.
LEMMA Reports ==
  ASSUME NEW p \in Pid, Call(p) \/ Step(p), ProcessTypeInv, NEW q \in Pid,
         ret'[q] # ret[q], ret'[q].op = "wait", ret'[q].early = FALSE
  PROVE  p = q /\ WaitFree(p) /\ ~Fault
<1>0. ret \in [Pid -> Result]
  BY DEF ProcessTypeInv
<1>1. UNCHANGED ret \/ ret' = [ret EXCEPT ![p] = NoRet]
      \/ (\E call, child, value, early :
            /\ Return(p, call, child, value, early)
            /\ call = "exec" \/ early = TRUE \/ WaitFree(p))
  <2>1. CASE Call(p)
    BY <2>1 DEF Call, CallExec, CallWait, CallExit, SysExit, Killed, CallOther, ghosts
  <2>2. CASE ListStep(p)
    BY <2>2 DEF ListStep, Walk, Link, Tie, Skip, Close, Free, Fault, ghosts
  <2>3. CASE ExecStep(p)
    BY <2>3 DEF ExecStep, ExecInit, ExecCreate, ExecEnlist, ExecDown, ExecReturn, ExecFailed,
                Fault, ghosts
  <2>4. CASE ChildStep(p)
    BY <2>4 DEF ChildStep, ChildLoad, ChildSignal, ChildUp, ChildRun, ChildFail, ChildFound,
                SysExit, Fault, ghosts
  <2>5. CASE WaitStep(p)
    BY <2>5 DEF WaitStep, WaitSelf, WaitFind, WaitParent, WaitDead, WaitDown, WaitStatus,
                WaitRemove, WaitRemoved, WaitFree, Fault, ghosts
  <2>6. CASE ExitStep(p)
    BY <2>6 DEF ExitStep, SetStatus, ExitFound, ExitMark, ExitFree, ExitSignal, ExitUp,
                ExitReap, ExitChild, ExitClose, Fault, ghosts
  <2>7. CASE OtherFound(p)
    BY <2>7 DEF OtherFound, Fault, ghosts
  <2> QED BY <2>1, <2>2, <2>3, <2>4, <2>5, <2>6, <2>7 DEF Step
<1>2. ret' # ret
  OBVIOUS
<1>3. ret' # [ret EXCEPT ![p] = NoRet]
  BY <1>0 DEF NoRet
<1>4. PICK call, child, value, early :
        /\ Return(p, call, child, value, early)
        /\ call = "exec" \/ early = TRUE \/ WaitFree(p)
  BY <1>1, <1>2, <1>3
<1>5. ret' = [ret EXCEPT ![p] = [op |-> call, child |-> child, value |-> value,
                                 early |-> early]]
  BY <1>4 DEF Return
<1>6. p = q /\ call = "wait" /\ early = FALSE
  BY <1>0, <1>5
<1>7. ~Fault
  BY <1>2 DEF Fault, ghosts
<1> QED
  BY <1>4, <1>6, <1>7

\* A wait reports the status of a child that no wait has reported before.
THEOREM WaitReportsOnce ==
  ASSUME Careful
  PROVE  Spec => WaitOnce
<1>1. ASSUME Good, ProcessTypeInv, [Next]_vars, NEW q \in Pid,
             ret'[q] # ret[q], ret'[q].op = "wait", ~ret'[q].early
      PROVE  ret'[q].child \in reaped' \ reaped
  <2>0. ret'[q].early = FALSE
    <3>1. ret' \in [Pid -> Result]
      <4>1. ProcessTypeInv'
        <5>1. CASE UNCHANGED vars
          BY <1>1, <5>1 DEF ProcessTypeInv, vars, heap, locals, ghosts
        <5>2. ASSUME NEW p \in Pid, Call(p) \/ Step(p) PROVE ProcessTypeInv'
          BY <1>1, <5>2, ListTypes, ExecTypes, ChildTypes, WaitTypes, ExitTypes DEF Call, Step
        <5> QED BY <1>1, <5>1, <5>2 DEF Next
      <4> QED BY <4>1 DEF ProcessTypeInv
    <3> QED BY <1>1, <3>1 DEF Result
  <2>1. ~ UNCHANGED vars
    BY <1>1 DEF vars, ghosts
  <2>2. PICK p \in Pid : Call(p) \/ Step(p)
    BY <1>1, <2>1 DEF Next
  <2>3. p = q /\ WaitFree(q) /\ ~Fault
    BY <1>1, <2>0, <2>2, Reports
  <2>4. Found(q, "waitfree") /\ reaped' = reaped \cup {arg[q]}
        /\ Return(q, "wait", arg[q], val[q], FALSE)
    BY <2>3 DEF WaitFree
  <2>5. ret'[q].child = arg[q]
    <3>1. /\ ret \in [Pid -> Result]
          /\ ret' = [ret EXCEPT ![q] = [op |-> "wait", child |-> arg[q], value |-> val[q],
                                        early |-> FALSE]]
      BY <1>1, <2>4 DEF Return, ProcessTypeInv
    <3> QED BY <3>1
  <2>6. arg[q] \in Unreaped(q)
    <3>1. Waiting(q) /\ at[q] = "waitfree"
      BY <1>1, <2>4 DEF Good, CallInv, Known, Found
    <3> QED BY <3>1 DEF Waiting, Waits
  <2> QED BY <2>4, <2>5, <2>6 DEF Unreaped
<1>2. Good /\ ProcessTypeInv /\ [Next]_vars
        => [\A p \in Pid :
              ret'[p] # ret[p] /\ ret'[p].op = "wait" /\ ~ret'[p].early
                => ret'[p].child \in reaped' \ reaped]_vars
  BY <1>1
<1> QED
  BY <1>2, GoodHolds, ProcessTypesHold, PTL DEF Spec, WaitOnce
=============================================================================
