----------------------------- MODULE DiskProofs -----------------------------
(***************************************************************************)
(* Reads return what is on the disk, writes return when the disk has the   *)
(* sector or has refused it, and every interrupt is counted for the        *)
(* command that caused it: for any number of threads and sectors, any      *)
(* devices, and commands that fail at any moment.                          *)
(*                                                                         *)
(* One thread at a time has the channel, the start-up without the lock.    *)
(* Stage says where the device and the interrupt are when that thread is   *)
(* at each place of its request, and Unheard what the next one finds.      *)
(***************************************************************************)
EXTENDS Disk, TLAPS

Spec == Init /\ [][Next]_vars

Booting == {"reset", "type0", "type1"}
Places == {"off", "code", "lock", "select", "sector", "issue", "poll", "sema", "unlock"}
          \cup Booting
Block == Val \cup {None}
Requests == [op : {"none", "identify", "read", "write"}, dev : Dev,
             sec : Secno \cup {None}, val : Block]

DiskTypes ==
  /\ lock \in Thread \cup {None} /\ at \in [Thread -> Places]
  /\ req \in [Thread -> Requests]
  /\ result \in [Thread -> Block]
  /\ expecting \in BOOLEAN /\ completion \in Nat /\ ata \subseteq Dev /\ dead \in BOOLEAN
  /\ sel \in Dev /\ err \in BOOLEAN /\ intrq \in BOOLEAN /\ data \in Block
  /\ platter \in [Dev -> [Secno -> Block]]

\* Threads that have the channel to themselves: the start-up or, with the lock, one
\* request.
Works(t)  == at[t] \in {"select", "sector", "issue", "poll", "sema", "unlock"}
Starts    == at[Main] \in Booting \/ (Works(Main) /\ req[Main].op = "identify")

\* At most one thread works: the holder of the lock, or the start-up alone.
Exclusive ==
  /\ Starts => lock = None /\ \A t \in Thread \ {Main} : at[t] = "off"
  /\ \A t \in Thread : Works(t) => lock = t \/ (t = Main /\ Starts)
  /\ \A t \in Thread : Works(t) /\ lock = t => req[t].op # "identify"

\* A request reads or writes a sector.
Asked(t) ==
  /\ Works(t) => req[t].op # "none"
  /\ at[t] = "lock" => req[t].op # "identify" /\ req[t].op # "none"
  /\ (at[t] = "lock" \/ Works(t)) /\ req[t].op # "identify" => req[t].sec \in Secno

\* No interrupt is under way, none of a command, and just one.
Unheard == phase = "idle" /\ completion = 0 /\ ~(intrq /\ expecting)
Quiet   == ~intrq /\ completion = 0
Told    == expecting /\ (intrq => completion = 0) /\ (~intrq => completion = 1)

Aimed(t)  == sel = req[t].dev /\ (req[t].op # "identify" => lba = req[t].sec)
Stored(t) == platter[req[t].dev][req[t].sec]

\* Where the device is when the thread that has the channel is at each place.
Stage(t) ==
  /\ at[t] = "select" => Unheard
  /\ at[t] = "sector" => phase = "idle" /\ Quiet /\ sel = req[t].dev
                         /\ req[t].op # "identify"
  /\ at[t] = "issue" => phase = "idle" /\ Quiet /\ Aimed(t)
  /\ at[t] = "sema" /\ req[t].op # "write" =>
       /\ Aimed(t)
       /\ \/ phase = req[t].op /\ Quiet /\ expecting
          \/ phase \in {"datain", "idle"} /\ Told
  /\ at[t] = "poll" /\ req[t].op # "write" =>
       Aimed(t) /\ phase \in {"datain", "idle"} /\ Quiet
  /\ at[t] = "poll" /\ req[t].op = "write" =>
       /\ Aimed(t)
       /\ \/ phase \in {"write", "dataout"} /\ Quiet /\ expecting
          \/ phase = "idle" /\ Told
  /\ at[t] = "sema" /\ req[t].op = "write" =>
       /\ Aimed(t)
       /\ \/ phase = "writing" /\ Quiet /\ expecting /\ data = req[t].val
          \/ phase = "idle" /\ Told /\ (req[t].val = Stored(t) \/ err)
  /\ at[t] \in {"sema", "poll"} /\ req[t].op = "read" /\ phase = "datain" =>
       data = Stored(t)
  /\ at[t] = "unlock" =>
       /\ phase = "idle" /\ Quiet
       /\ IF req[t].op = "read" THEN result[t] = Stored(t)
                                ELSE req[t].val = Stored(t) \/ err

DiskInv ==
  /\ DiskTypes /\ Exclusive
  /\ \A t \in Thread : Asked(t)
  /\ \A t \in Thread : Works(t) => Stage(t)
  /\ (\A t \in Thread : ~Works(t)) => Unheard
  /\ at[Main] \in Booting => expecting = FALSE

-----------------------------------------------------------------------------
\* One thread at most has the channel.
LEMMA OneWorks ==
  ASSUME DiskAssumption, DiskInv, NEW t \in Thread, Works(t)
  PROVE  /\ \A u \in Thread : u # t => ~Works(u)
         /\ Starts => t = Main
         /\ ~Starts => lock = t
<1>1. Starts => t = Main
  BY DEF DiskInv, Exclusive, Works
<1>2. ASSUME NEW u \in Thread, u # t, Works(u) PROVE FALSE
  BY <1>1, <1>2 DEF DiskInv, Exclusive, Works, DiskAssumption
<1> QED
  BY <1>1, <1>2 DEF DiskInv, Exclusive

\* The thread that has the channel goes on, or the device does meanwhile.
LEMMA WorkerKeeps ==
  ASSUME DiskAssumption, DiskInv, NEW t \in Thread, Works(t), NEW l \in Places,
         at' = [at EXCEPT ![t] = l],
         l \in {"select", "sector", "issue", "poll", "sema", "unlock"},
         UNCHANGED <<lock, req>>, DiskTypes', Stage(t)'
  PROVE  DiskInv'
<1>1. /\ at'[t] = l
      /\ \A u \in Thread : u # t => at'[u] = at[u] /\ ~Works(u)
      /\ Starts => t = Main
  BY OneWorks DEF DiskInv, DiskTypes
<1>2. Works(t)' /\ \A u \in Thread : u # t => ~Works(u)'
  BY <1>1 DEF Works
<1>3. Starts' <=> Starts
  <2>1. CASE t = Main
    BY <1>1, <1>2, <2>1 DEF Starts, Booting, Works
  <2>2. CASE t # Main
    BY <1>1, <1>2, <2>2 DEF Starts, DiskAssumption, Works
  <2> QED
    BY <2>1, <2>2
<1>4. Exclusive'
  BY <1>1, <1>2, <1>3 DEF DiskInv, Exclusive
<1>5. \A u \in Thread : Asked(u)'
  BY <1>1, <1>2 DEF DiskInv, Asked
<1>6. at'[Main] \notin Booting
  <2>1. CASE t = Main
    BY <1>2, <2>1 DEF Works, Booting
  <2>2. CASE t # Main
    <3>1. ~Starts
      BY <1>1, <2>2
    <3> QED
      BY <1>1, <2>2, <3>1 DEF Starts, DiskAssumption
  <2> QED
    BY <2>1, <2>2
<1> QED
  BY <1>2, <1>4, <1>5, <1>6 DEF DiskInv

\* identify_ata_device() goes on with a disk, or the kernel with its threads.
LEMMA IdentifyGoes ==
  ASSUME DiskAssumption, NEW D, D \subseteq Dev, Identify(D)
  PROVE  \/ at' = [t \in Thread |-> "code"] /\ req' = req
         \/ \E d \in Dev : /\ at' = [at EXCEPT ![Main] = "select"]
                           /\ req' = [req EXCEPT ![Main] = Request("identify", d, None, None)]
<1>1. CASE D = {}
  BY <1>1 DEF Identify
<1>2. CASE D # {}
  <2> DEFINE d == CHOOSE d \in D : \A e \in D : d <= e
  <2>1. \E x \in D : \A e \in D : x <= e
    <3>1. CASE 0 \in D
      BY <3>1 DEF Dev
    <3>2. CASE 0 \notin D
      <4>1. D = {1}
        BY <1>2, <3>2 DEF Dev
      <4> QED
        BY <4>1
    <3> QED
      BY <3>1, <3>2
  <2>2. d \in Dev
    BY <2>1
  <2>3. /\ at' = [at EXCEPT ![Main] = "select"]
        /\ req' = [req EXCEPT ![Main] = Request("identify", d, None, None)]
    BY <1>2 DEF Identify, Goto
  <2> QED
    BY <2>2, <2>3
<1> QED
  BY <1>1, <1>2

\* What the start-up asks of a disk is a request.
LEMMA IdentifyTyped == ASSUME NEW d \in Dev PROVE Request("identify", d, None, None) \in Requests
BY DEF Request, Requests, Block

\* While the kernel starts no other thread does anything, and the channel is quiet
\* from one step to the next.
LEMMA StartKeeps ==
  ASSUME DiskAssumption, DiskInv, Starts, DiskTypes', Unheard', lock' = lock,
         \/ at' = [t \in Thread |-> "code"]
         \/ /\ \E l \in Booting : at' = [at EXCEPT ![Main] = l]
            /\ at[Main] \in Booting /\ expecting' = expecting
         \/ at' = [at EXCEPT ![Main] = "select"] /\ req'[Main].op = "identify"
  PROVE  DiskInv'
<1>1. lock = None /\ \A t \in Thread : t # Main => at[t] = "off"
  BY DEF DiskInv, Exclusive
<1>2. CASE at' = [t \in Thread |-> "code"]
  BY <1>2, <1>1 DEF DiskInv, Exclusive, Works, Starts, Booting, Asked, DiskAssumption
<1>3. ASSUME NEW l \in Booting \cup {"select"}, at' = [at EXCEPT ![Main] = l],
             l = "select" => req'[Main].op = "identify",
             l \in Booting => at[Main] \in Booting /\ expecting' = expecting
      PROVE  DiskInv'
  <2>1. at'[Main] = l /\ \A t \in Thread : t # Main => at'[t] = "off"
    BY <1>1, <1>3 DEF DiskInv, DiskTypes, DiskAssumption
  <2>2. Starts' /\ \A t \in Thread : Works(t)' => t = Main /\ l = "select"
    BY <1>3, <2>1 DEF Starts, Works, Booting
  <2>3. Exclusive'
    BY <1>1, <2>1, <2>2 DEF Exclusive, DiskAssumption
  <2>4. \A t \in Thread : Asked(t)'
    BY <1>3, <2>1, <2>2 DEF Asked, Booting
  <2>5. \A t \in Thread : Works(t)' => Stage(t)'
    BY <2>1, <2>2 DEF Stage
  <2>6. at'[Main] \in Booting => expecting' = FALSE
    BY <1>3, <2>1 DEF DiskInv
  <2> QED
    BY <2>3, <2>4, <2>5, <2>6 DEF DiskInv
<1> QED
  BY <1>2, <1>3 DEF Booting

-----------------------------------------------------------------------------
\* The steps of the start-up.
LEMMA StartUpKeeps ==
  ASSUME DiskAssumption, DiskInv,
         ResetChannel \/ \E d \in Dev : CheckDeviceType(d)
  PROVE  DiskInv'
<1>1. Starts /\ at[Main] \in Booting
  BY DEF ResetChannel, CheckDeviceType, At, Starts, Booting
<1>2. \A t \in Thread : ~Works(t)
  BY <1>1, OneWorks DEF DiskInv, Exclusive, Works, Booting
<1>3. Unheard
  BY <1>2 DEF DiskInv
<1>4. CASE ResetChannel
  <2>1. DiskTypes'
    BY <1>4 DEF ResetChannel, Goto, DiskInv, DiskTypes, Places, Booting
  <2>2. Unheard'
    BY <1>1, <1>3, <1>4 DEF ResetChannel, Unheard, DiskInv
  <2> QED
    BY <1>1, <1>4, <2>1, <2>2, StartKeeps DEF ResetChannel, Goto, Booting
<1>5. ASSUME NEW d \in Dev, CheckDeviceType(d) PROVE DiskInv'
  <2>1. Unheard' /\ lock' = lock
    BY <1>3, <1>5 DEF CheckDeviceType, Unheard
  <2>2. ata' \subseteq Dev
    BY <1>5 DEF CheckDeviceType, DiskInv, DiskTypes
  <2>3. \/ at' = [t \in Thread |-> "code"] /\ req' = req
        \/ at' = [at EXCEPT ![Main] = "type1"] /\ req' = req
        \/ \E e \in Dev : /\ at' = [at EXCEPT ![Main] = "select"]
                          /\ req' = [req EXCEPT ![Main] = Request("identify", e, None, None)]
    BY <1>5, <2>2, IdentifyGoes DEF CheckDeviceType, Goto
  <2>4. /\ at' \in [Thread -> Places]
        /\ req' \in [Thread -> Requests]
    BY <2>3, IdentifyTyped DEF DiskInv, DiskTypes, Places, Booting
  <2>5. DiskTypes'
    BY <1>5, <2>2, <2>4 DEF CheckDeviceType, DiskInv, DiskTypes
  <2> QED
    <3>1. \A e : Request("identify", e, None, None).op = "identify"
      BY DEF Request
    <3>2. CASE at' = [at EXCEPT ![Main] = "type1"]
      BY <1>1, <1>5, <2>1, <2>5, <3>2, StartKeeps DEF Booting, CheckDeviceType
    <3>3. CASE at' = [t \in Thread |-> "code"]
      BY <1>1, <2>1, <2>5, <3>3, StartKeeps
    <3>4. ASSUME NEW e \in Dev, at' = [at EXCEPT ![Main] = "select"],
                 req' = [req EXCEPT ![Main] = Request("identify", e, None, None)]
          PROVE  DiskInv'
      <4>1. req'[Main].op = "identify"
        BY <3>1, <3>4 DEF DiskInv, DiskTypes, DiskAssumption
      <4> QED
        BY <1>1, <2>1, <2>5, <3>4, <4>1, StartKeeps
    <3> QED
      BY <2>3, <3>2, <3>3, <3>4
<1> QED
  BY <1>4, <1>5

\* A request waits for the lock.
LEMMA CallKeeps ==
  ASSUME DiskAssumption, DiskInv, NEW t \in Thread, NEW d \in Dev, NEW s \in Secno,
         DiskRead(t, d, s) \/ \E v \in Val : DiskWrite(t, d, s, v)
  PROVE  DiskInv'
<1>1. PICK op \in {"read", "write"}, v \in Block :
        /\ req' = [req EXCEPT ![t] = Request(op, d, s, v)]
        /\ at' = [at EXCEPT ![t] = "lock"] /\ at[t] = "code"
        /\ UNCHANGED <<lock, result, expecting, completion, ata, dead, deviceVars>>
  BY DEF DiskRead, DiskWrite, At, Goto, Block
<1>2. /\ at'[t] = "lock" /\ req'[t] = Request(op, d, s, v)
      /\ \A u \in Thread : u # t => at'[u] = at[u] /\ req'[u] = req[u]
  BY <1>1 DEF DiskInv, DiskTypes
<1>3. DiskTypes'
  BY <1>1 DEF DiskInv, DiskTypes, deviceVars, Places, Request, Requests
<1>4. /\ \A u \in Thread : Works(u)' <=> Works(u)
      /\ ~Works(t)
  BY <1>1, <1>2 DEF Works
<1>5. ~Starts /\ ~Starts'
  BY <1>1, <1>2, <1>4 DEF Starts, Works, Booting, DiskInv, Exclusive, DiskAssumption
<1>6. Exclusive'
  BY <1>1, <1>2, <1>4, <1>5 DEF DiskInv, Exclusive
<1>7. \A u \in Thread : Asked(u)'
  BY <1>2, <1>4 DEF DiskInv, Asked, Request
<1>8. ASSUME NEW u \in Thread, Works(u)' PROVE Stage(u)'
  <2>1. u # t /\ Stage(u) /\ at'[u] = at[u] /\ req'[u] = req[u]
    BY <1>2, <1>4, <1>8 DEF DiskInv
  <2> QED
    BY <1>1, <2>1 DEF Stage, Unheard, Quiet, Told, Aimed, Stored, deviceVars
<1>9. (\A u \in Thread : ~Works(u)') => Unheard'
  BY <1>1, <1>4 DEF DiskInv, Unheard, deviceVars
<1> QED
  BY <1>3, <1>5, <1>6, <1>7, <1>8, <1>9 DEF DiskInv, Starts

\* The lock is free only when nobody has the channel.
LEMMA AcquireKeeps ==
  ASSUME DiskAssumption, DiskInv, NEW t \in Thread, Acquire(t)
  PROVE  DiskInv'
<1>1. /\ at[t] = "lock" /\ lock = None /\ lock' = t
      /\ at' = [at EXCEPT ![t] = "select"]
      /\ UNCHANGED <<req, result, expecting, completion, ata, dead, deviceVars>>
  BY DEF Acquire, At, Goto
<1>2. ~Starts /\ \A u \in Thread : ~Works(u)
  BY <1>1 DEF Starts, Works, Booting, DiskInv, Exclusive, DiskAssumption
<1>3. at'[t] = "select" /\ \A u \in Thread : u # t => at'[u] = at[u]
  BY <1>1 DEF DiskInv, DiskTypes
<1>4. DiskTypes'
  BY <1>1 DEF DiskInv, DiskTypes, deviceVars, Places
<1>5. Works(t)' /\ \A u \in Thread : u # t => ~Works(u)'
  BY <1>2, <1>3 DEF Works
<1>6. req[t].op # "identify" /\ req[t].op # "none" /\ req[t].sec \in Secno
  BY <1>1 DEF DiskInv, Asked
<1>7. ~Starts'
  BY <1>1, <1>2, <1>3, <1>5, <1>6 DEF Starts, DiskAssumption, Booting
<1>8. Exclusive'
  BY <1>1, <1>5, <1>6, <1>7 DEF Exclusive
<1>9. \A u \in Thread : Asked(u)'
  BY <1>1, <1>3, <1>5, <1>6 DEF DiskInv, Asked
<1>10. Stage(t)'
  BY <1>1, <1>2, <1>3 DEF DiskInv, Stage, Unheard, deviceVars
<1> QED
  BY <1>4, <1>5, <1>7, <1>8, <1>9, <1>10 DEF DiskInv, Starts

\* The lock comes back with the channel quiet.
LEMMA ReleaseKeeps ==
  ASSUME DiskAssumption, DiskInv, NEW t \in Thread, Release(t)
  PROVE  DiskInv'
<1>1. /\ at[t] = "unlock" /\ lock' = None /\ at' = [at EXCEPT ![t] = "code"]
      /\ req' = [req EXCEPT ![t] = NoRequest] /\ result' = [result EXCEPT ![t] = None]
      /\ UNCHANGED <<expecting, completion, ata, dead, deviceVars>>
  BY DEF Release, At, Goto
<1>2. /\ Works(t) /\ \A u \in Thread : u # t => ~Works(u)
      /\ Starts => t = Main
  BY <1>1, OneWorks DEF Works
<1>3. at'[t] = "code" /\ \A u \in Thread : u # t => at'[u] = at[u] /\ req'[u] = req[u]
  BY <1>1 DEF DiskInv, DiskTypes
<1>4. \A u \in Thread : ~Works(u)'
  BY <1>2, <1>3 DEF Works
<1>5. ~Starts'
  BY <1>2, <1>3, <1>4 DEF Starts, Booting, DiskAssumption
<1>6. DiskTypes'
  BY <1>1 DEF DiskInv, DiskTypes, deviceVars, Places, NoRequest, Request, Requests, Block, Dev
<1>7. \A u \in Thread : Asked(u)'
  BY <1>3, <1>4 DEF DiskInv, Asked
<1>8. Unheard'
  BY <1>1, <1>2 DEF DiskInv, Stage, Unheard, Quiet, deviceVars
<1> QED
  BY <1>4, <1>5, <1>6, <1>7, <1>8 DEF DiskInv, Exclusive, Starts

-----------------------------------------------------------------------------
\* What DiskInv says of the thread that has the channel.
LEMMA WorkerFacts ==
  ASSUME DiskInv, NEW t \in Thread, Works(t)
  PROVE  /\ Stage(t) /\ DiskTypes
         /\ req[t].op \in {"identify", "read", "write"} /\ req[t].dev \in Dev
         /\ req[t].op # "identify" => req[t].sec \in Secno
         /\ req[t].val \in Block
BY DEF DiskInv, DiskTypes, Asked, Requests

\* Selecting the device drops an interrupt that nobody waits for.
LEMMA SelectKeeps ==
  ASSUME DiskAssumption, DiskInv, NEW t \in Thread,
         SelectDeviceWait(t) \/ SelectSector(t)
  PROVE  DiskInv'
<1>1. Works(t)
  BY DEF SelectDeviceWait, SelectSector, At, Works
<1>2. /\ Stage(t) /\ DiskTypes
      /\ req[t].op \in {"identify", "read", "write"} /\ req[t].dev \in Dev
  BY <1>1, WorkerFacts
<1>3. CASE SelectDeviceWait(t)
  <2> DEFINE l == IF req[t].op = "identify" THEN "issue" ELSE "sector"
  <2>1. /\ at[t] = "select" /\ at' = [at EXCEPT ![t] = l] /\ intrq' = FALSE
        /\ sel' = IF Busy THEN sel ELSE req[t].dev
        /\ UNCHANGED <<lock, req, result, expecting, completion, ata, dead,
                       kind, lba, phase, err, data, platter>>
    BY <1>3 DEF SelectDeviceWait, At, Goto
  <2>2. phase = "idle" /\ completion = 0 /\ ~Busy
    BY <1>2, <2>1 DEF Stage, Unheard, Busy
  <2>3. DiskTypes'
    BY <1>2, <2>1 DEF DiskTypes, Places
  <2>4. at'[t] = l
    BY <1>2, <2>1 DEF DiskTypes
  <2>5. Stage(t)'
    BY <2>1, <2>2, <2>4 DEF Stage, Quiet, Aimed
  <2> QED
    BY <1>1, <2>1, <2>3, <2>5, WorkerKeeps DEF Places
<1>4. CASE SelectSector(t)
  <2>1. /\ at[t] = "sector" /\ at' = [at EXCEPT ![t] = "issue"]
        /\ lba' = IF Busy THEN lba ELSE req[t].sec
        /\ UNCHANGED <<lock, req, result, expecting, completion, ata, dead,
                       kind, sel, phase, err, data, intrq, platter>>
    BY <1>4 DEF SelectSector, At, Goto
  <2>2. phase = "idle" /\ Quiet /\ ~Busy /\ sel = req[t].dev
    BY <1>2, <2>1 DEF Stage, Busy
  <2>3. DiskTypes'
    BY <1>2, <2>1 DEF DiskTypes, Places
  <2>4. at'[t] = "issue"
    BY <1>2, <2>1 DEF DiskTypes
  <2>5. Stage(t)'
    BY <2>1, <2>2, <2>4 DEF Stage, Quiet, Aimed
  <2> QED
    BY <1>1, <2>1, <2>3, <2>5, WorkerKeeps DEF Places
<1> QED
  BY <1>3, <1>4

\* The command starts with no interrupt under way.
LEMMA IssueKeeps ==
  ASSUME DiskAssumption, DiskInv, NEW t \in Thread, IssuePioCommand(t)
  PROVE  DiskInv'
<1> DEFINE l == IF req[t].op = "write" THEN "poll" ELSE "sema"
<1>1. /\ at[t] = "issue" /\ at' = [at EXCEPT ![t] = l] /\ expecting' = TRUE
      /\ IF Busy THEN UNCHANGED <<phase, err>> ELSE phase' = req[t].op /\ err' = FALSE
      /\ UNCHANGED <<lock, req, result, completion, ata, dead,
                     kind, sel, lba, data, intrq, platter>>
  BY DEF IssuePioCommand, At, Goto
<1>2. Works(t)
  BY <1>1 DEF Works
<1>3. /\ Stage(t) /\ DiskTypes
      /\ req[t].op \in {"identify", "read", "write"}
  BY <1>2, WorkerFacts
<1>4. phase = "idle" /\ Quiet /\ Aimed(t) /\ ~Busy
  BY <1>1, <1>3 DEF Stage, Busy
<1>5. DiskTypes'
  BY <1>1, <1>3, <1>4 DEF DiskTypes, Places
<1>6. at'[t] = l
  BY <1>1, <1>3 DEF DiskTypes
<1>7. Stage(t)'
  BY <1>1, <1>3, <1>4, <1>6 DEF Stage, Quiet, Aimed
<1> QED
  BY <1>1, <1>2, <1>5, <1>7, WorkerKeeps DEF Places

\* The sector of a write goes to the device.
LEMMA OutputKeeps ==
  ASSUME DiskAssumption, DiskInv, NEW t \in Thread, OutputSector(t)
  PROVE  DiskInv'
<1>1. /\ at[t] = "poll" /\ phase = "dataout" /\ at' = [at EXCEPT ![t] = "sema"]
      /\ data' = req[t].val /\ phase' = "writing"
      /\ UNCHANGED <<lock, req, result, expecting, completion, ata, dead,
                     kind, sel, lba, err, intrq, platter>>
  BY DEF OutputSector, At, Goto
<1>2. Works(t)
  BY <1>1 DEF Works
<1>3. Stage(t) /\ DiskTypes /\ req[t].val \in Block
  BY <1>2, WorkerFacts
<1>4. req[t].op = "write" /\ Aimed(t) /\ Quiet /\ expecting
  BY <1>1, <1>3 DEF Stage
<1>5. DiskTypes'
  BY <1>1, <1>3 DEF DiskTypes, Places
<1>6. at'[t] = "sema"
  BY <1>1, <1>3 DEF DiskTypes
<1>7. Stage(t)'
  BY <1>1, <1>4, <1>6 DEF Stage, Quiet, Aimed
<1> QED
  BY <1>1, <1>2, <1>5, <1>7, WorkerKeeps DEF Places

\* The sector of a read comes from the device.
LEMMA InputKeeps ==
  ASSUME DiskAssumption, DiskInv, NEW t \in Thread, InputSector(t)
  PROVE  DiskInv'
<1>1. /\ at[t] = "poll" /\ phase = "datain" /\ phase' = "idle" /\ data' = None
      /\ UNCHANGED <<lock, expecting, completion, ata, dead,
                     kind, sel, lba, err, intrq, platter>>
  BY DEF InputSector, At
<1>2. Works(t)
  BY <1>1 DEF Works
<1>3. /\ Stage(t) /\ DiskTypes
      /\ req[t].op \in {"identify", "read", "write"}
  BY <1>2, WorkerFacts
<1>4. req[t].op # "write" /\ Aimed(t) /\ Quiet
  BY <1>1, <1>3 DEF Stage
<1>5. CASE req[t].op = "read"
  <2>1. /\ at' = [at EXCEPT ![t] = "unlock"] /\ req' = req
        /\ result' = [result EXCEPT ![t] = data]
    BY <1>5 DEF InputSector, Goto
  <2>2. data = Stored(t)
    BY <1>1, <1>3, <1>5 DEF Stage
  <2>3. DiskTypes'
    BY <1>1, <1>3, <2>1 DEF DiskTypes, Places, Block
  <2>4. at'[t] = "unlock" /\ result'[t] = data
    BY <1>3, <2>1 DEF DiskTypes
  <2>5. Stage(t)'
    BY <1>1, <1>4, <1>5, <2>1, <2>2, <2>4 DEF Stage, Quiet, Stored
  <2> QED
    BY <1>1, <1>2, <2>1, <2>3, <2>5, WorkerKeeps DEF Places
<1>6. CASE req[t].op = "identify"
  <2>1. Starts /\ t = Main
    BY <1>2, <1>6, OneWorks DEF DiskInv, Exclusive
  <2>2. Identified(ata) /\ result' = result
    BY <1>6 DEF InputSector
  <2>3. {d \in ata : d > req[Main].dev} \subseteq Dev
    BY <1>3 DEF DiskTypes
  <2>4. \/ at' = [u \in Thread |-> "code"] /\ req' = req
        \/ \E e \in Dev : /\ at' = [at EXCEPT ![Main] = "select"]
                          /\ req' = [req EXCEPT ![Main] = Request("identify", e, None, None)]
    BY <2>2, <2>3, IdentifyGoes DEF Identified
  <2>5. /\ at' \in [Thread -> Places]
        /\ req' \in [Thread -> Requests]
    BY <1>3, <2>4, IdentifyTyped DEF DiskTypes, Places
  <2>6. DiskTypes'
    BY <1>1, <1>3, <2>2, <2>5 DEF DiskTypes, Block
  <2>7. Unheard'
    BY <1>1, <1>4 DEF Unheard, Quiet
  <2> QED
    <3>1. CASE at' = [u \in Thread |-> "code"]
      BY <1>1, <2>1, <2>6, <2>7, <3>1, StartKeeps
    <3>2. ASSUME NEW e \in Dev, at' = [at EXCEPT ![Main] = "select"],
                 req' = [req EXCEPT ![Main] = Request("identify", e, None, None)]
          PROVE  DiskInv'
      <4>1. req'[Main].op = "identify"
        BY <1>3, <3>2 DEF DiskTypes, DiskAssumption, Request
      <4> QED
        BY <1>1, <2>1, <2>6, <2>7, <3>2, <4>1, StartKeeps
    <3> QED
      BY <2>4, <3>1, <3>2
<1> QED
  BY <1>3, <1>4, <1>5, <1>6

\* Polling finds the device idle: it is no disk, or the kernel panics.
LEMMA NoDataKeeps ==
  ASSUME DiskAssumption, DiskInv, NEW t \in Thread, NoData(t)
  PROVE  DiskInv'
<1>1. /\ at[t] = "poll" /\ phase = "idle"
      /\ UNCHANGED <<lock, result, expecting, completion, deviceVars>>
  BY DEF NoData, At
<1>2. Works(t)
  BY <1>1 DEF Works
<1>3. Stage(t) /\ DiskTypes
  BY <1>2, WorkerFacts
<1>4. CASE req[t].op = "identify"
  <2>1. Starts /\ t = Main
    BY <1>2, <1>4, OneWorks DEF DiskInv, Exclusive
  <2>2. ata' = ata \ {req[t].dev} /\ Identified(ata') /\ dead' = dead
    BY <1>4 DEF NoData
  <2>3. ata' \subseteq Dev /\ {d \in ata' : d > req[Main].dev} \subseteq Dev
    BY <1>3, <2>2 DEF DiskTypes
  <2>4. \/ at' = [u \in Thread |-> "code"] /\ req' = req
        \/ \E e \in Dev : /\ at' = [at EXCEPT ![Main] = "select"]
                          /\ req' = [req EXCEPT ![Main] = Request("identify", e, None, None)]
    BY <2>2, <2>3, IdentifyGoes DEF Identified
  <2>5. at' \in [Thread -> Places] /\ req' \in [Thread -> Requests]
    BY <1>3, <2>4, IdentifyTyped DEF DiskTypes, Places
  <2>6. DiskTypes'
    BY <1>1, <1>3, <2>2, <2>3, <2>5 DEF DiskTypes, deviceVars
  <2>7. Unheard'
    BY <1>1, <1>3, <1>4 DEF Stage, Unheard, Quiet, deviceVars
  <2>8. CASE at' = [u \in Thread |-> "code"]
    BY <1>1, <2>1, <2>6, <2>7, <2>8, StartKeeps
  <2>9. ASSUME NEW e \in Dev, at' = [at EXCEPT ![Main] = "select"],
               req' = [req EXCEPT ![Main] = Request("identify", e, None, None)]
        PROVE  DiskInv'
    <3>1. req'[Main].op = "identify"
      BY <1>3, <2>9 DEF DiskTypes, DiskAssumption, Request
    <3> QED
      BY <1>1, <2>1, <2>6, <2>7, <2>9, <3>1, StartKeeps
  <2> QED
    BY <2>4, <2>8, <2>9
<1>5. CASE req[t].op # "identify"
  <2>1. dead' = TRUE /\ UNCHANGED <<ata, at, req>>
    BY <1>5 DEF NoData
  <2>2. DiskTypes'
    BY <1>1, <1>3, <2>1 DEF DiskTypes, deviceVars
  <2>3. Stage(t)'
    BY <1>1, <1>3, <2>1 DEF Stage, Unheard, Quiet, Told, Aimed, Stored, deviceVars
  <2>4. at' = [at EXCEPT ![t] = "poll"]
    BY <1>1, <1>3, <2>1 DEF DiskTypes
  <2> QED
    BY <1>1, <1>2, <2>1, <2>2, <2>3, <2>4, WorkerKeeps DEF Places
<1> QED
  BY <1>4, <1>5

\* sema_down() takes the one interrupt the command has caused.
LEMMA CompletedKeeps ==
  ASSUME DiskAssumption, DiskInv, NEW t \in Thread, Completed(t)
  PROVE  DiskInv'
<1> DEFINE l == IF req[t].op = "write" THEN "unlock" ELSE "poll"
<1>1. /\ at[t] = "sema" /\ completion > 0 /\ completion' = completion - 1
      /\ at' = [at EXCEPT ![t] = l]
      /\ UNCHANGED <<lock, req, result, expecting, ata, dead, deviceVars>>
  BY DEF Completed, At, Goto
<1>2. Works(t)
  BY <1>1 DEF Works
<1>3. Stage(t) /\ DiskTypes
  BY <1>2, WorkerFacts
<1>4. Told /\ Aimed(t) /\ phase \in {"datain", "idle"}
  BY <1>1, <1>3 DEF Stage, Quiet
<1>5. intrq = FALSE /\ completion = 1
  BY <1>1, <1>3, <1>4 DEF Told, DiskTypes
<1>6. DiskTypes'
  BY <1>1, <1>3, <1>5 DEF DiskTypes, deviceVars, Places
<1>7. at'[t] = l
  BY <1>1, <1>3 DEF DiskTypes
<1>8. Stage(t)'
  <2>1. CASE req[t].op = "write"
    BY <1>1, <1>3, <1>5, <1>7, <2>1 DEF Stage, Quiet, Stored, deviceVars
  <2>2. CASE req[t].op # "write"
    BY <1>1, <1>3, <1>4, <1>5, <1>7, <2>2 DEF Stage, Quiet, Aimed, Stored, deviceVars
  <2> QED
    BY <2>1, <2>2
<1> QED
  BY <1>1, <1>2, <1>6, <1>8, WorkerKeeps DEF Places

-----------------------------------------------------------------------------
\* The interrupt of a command reaches the thread that has issued it, and so does what
\* the device does meanwhile.
LEMMA DeviceKeeps ==
  ASSUME DiskAssumption, DiskInv, InterruptHandler \/ Device
  PROVE  DiskInv'
<1>1. DiskTypes
  BY DEF DiskInv
<1>2. ~Unheard
  BY DEF InterruptHandler, Device, DataIn, DataOut, DataStored, CommandFails, Busy, Unheard
<1>3. PICK t \in Thread : Works(t)
  BY <1>2 DEF DiskInv
<1>4. Stage(t)
  BY <1>3, WorkerFacts
<1>5. /\ UNCHANGED <<lock, at, req, result, expecting, ata, dead>>
      /\ UNCHANGED <<kind, sel, lba>>
  BY DEF InterruptHandler, Device, DataIn, DataOut, DataStored, CommandFails, driverVars
<1>6. at[t] \in {"select", "sector", "issue", "poll", "sema", "unlock"}
  BY <1>3 DEF Works
<1>7. at' = [at EXCEPT ![t] = at[t]]
  BY <1>1, <1>5 DEF DiskTypes
<1>8. req[t].op \in {"identify", "read", "write"} /\ req[t].dev \in Dev
      /\ (req[t].op # "identify" => req[t].sec \in Secno)
  BY <1>3, WorkerFacts
<1>9. CASE InterruptHandler
  <2>1. /\ intrq = TRUE /\ expecting = TRUE /\ intrq' = FALSE /\ completion' = completion + 1
        /\ UNCHANGED <<phase, err, data, platter>>
    BY <1>1, <1>9 DEF InterruptHandler, DiskTypes
  <2>2. DiskTypes'
    <3>1. completion' \in Nat
      <4>1. completion \in Nat
        BY <1>1 DEF DiskTypes
      <4> QED
        BY <2>1, <4>1
    <3>3. intrq' \in BOOLEAN
      BY <2>1
    <3>2. UNCHANGED <<lock, at, req, result, expecting, ata, dead, sel, err, data, platter>>
      BY <1>5, <2>1
    <3> QED
      BY <1>1, <3>1, <3>2, <3>3 DEF DiskTypes
  <2>3. Stage(t)'
    BY <1>4, <1>5, <1>8, <2>1 DEF Stage, Unheard, Quiet, Told, Aimed, Stored
  <2> QED
    BY <1>3, <1>5, <1>6, <1>7, <2>2, <2>3, WorkerKeeps DEF Places
<1>10. CASE DataIn
  <2>1. /\ phase \in {"identify", "read"} /\ phase' = "datain" /\ intrq' = TRUE
        /\ data' = IF phase = "read" THEN platter[sel][lba] ELSE None
        /\ UNCHANGED <<completion, err, platter>>
    BY <1>10 DEF DataIn, driverVars
  <2>2. /\ at[t] = "sema" /\ phase = req[t].op /\ Aimed(t) /\ Quiet /\ expecting
    BY <1>4, <1>6, <1>8, <2>1 DEF Stage, Unheard
  <2>3. data' \in Block
    BY <1>1, <1>8, <2>1, <2>2 DEF DiskTypes, Aimed, Block
  <2>4. DiskTypes'
    BY <1>1, <1>5, <2>1, <2>3 DEF DiskTypes
  <2>5. Stage(t)'
    BY <1>5, <1>8, <2>1, <2>2 DEF Stage, Quiet, Told, Aimed, Stored
  <2> QED
    BY <1>3, <1>5, <1>6, <1>7, <2>4, <2>5, WorkerKeeps DEF Places
<1>11. CASE DataOut
  <2>1. /\ phase = "write" /\ phase' = "dataout"
        /\ UNCHANGED <<completion, err, data, intrq, platter>>
    BY <1>11 DEF DataOut, driverVars
  <2>2. DiskTypes'
    BY <1>1, <1>5, <2>1 DEF DiskTypes
  <2>3. at[t] = "poll" /\ req[t].op = "write" /\ Aimed(t) /\ Quiet /\ expecting
    BY <1>4, <1>6, <1>8, <2>1 DEF Stage, Unheard
  <2>4. Stage(t)'
    BY <1>5, <2>1, <2>3 DEF Stage, Quiet, Aimed
  <2> QED
    BY <1>3, <1>5, <1>6, <1>7, <2>2, <2>4, WorkerKeeps DEF Places
<1>12. CASE DataStored
  <2>1. /\ phase = "writing" /\ phase' = "idle" /\ intrq' = TRUE /\ data' = None
        /\ platter' = [platter EXCEPT ![sel][lba] = data]
        /\ UNCHANGED <<completion, err>>
    BY <1>12 DEF DataStored, driverVars
  <2>2. /\ at[t] = "sema" /\ req[t].op = "write" /\ Aimed(t) /\ Quiet /\ expecting
        /\ data = req[t].val
    BY <1>4, <1>6, <1>8, <2>1 DEF Stage, Unheard
  <2>3. DiskTypes'
    BY <1>1, <1>5, <2>1 DEF DiskTypes, Block
  <2>4. platter'[req[t].dev][req[t].sec] = req[t].val
    BY <1>1, <1>8, <2>1, <2>2 DEF DiskTypes, Aimed
  <2>5. Stage(t)'
    BY <1>5, <2>1, <2>2, <2>4 DEF Stage, Quiet, Told, Aimed, Stored
  <2> QED
    BY <1>3, <1>5, <1>6, <1>7, <2>3, <2>5, WorkerKeeps DEF Places
<1>13. CASE CommandFails
  <2>1. /\ Busy /\ phase' = "idle" /\ intrq' = TRUE /\ err' = TRUE /\ data' = None
        /\ UNCHANGED <<completion, platter>>
    BY <1>13 DEF CommandFails, driverVars
  <2>2. /\ at[t] \in {"sema", "poll"} /\ Aimed(t) /\ Quiet /\ expecting
        /\ at[t] = "poll" => req[t].op = "write"
    BY <1>4, <1>6, <1>8, <2>1 DEF Stage, Unheard, Busy, Told
  <2>3. DiskTypes'
    BY <1>1, <1>5, <2>1 DEF DiskTypes, Block
  <2>4. Stage(t)'
    BY <1>5, <2>1, <2>2 DEF Stage, Quiet, Told, Aimed, Stored
  <2> QED
    BY <1>3, <1>5, <1>6, <1>7, <2>3, <2>4, WorkerKeeps DEF Places
<1> QED
  BY <1>9, <1>10, <1>11, <1>12, <1>13 DEF Device

-----------------------------------------------------------------------------
\* Nothing is under way when the kernel starts.
LEMMA DiskStart == ASSUME DiskAssumption, Init PROVE DiskInv
<1>1. at[Main] = "reset" /\ \A t \in Thread : t # Main => at[t] = "off"
  BY DEF Init, DiskAssumption
<1>2. \A t \in Thread : ~Works(t) /\ Asked(t)
  BY <1>1 DEF Works, Asked
<1>3. DiskTypes
  BY DEF Init, DiskTypes, Places, Booting, NoRequest, Request, Requests, Block, Dev
<1>4. Exclusive
  BY <1>1, <1>2 DEF Exclusive, Init
<1> QED
  BY <1>2, <1>3, <1>4 DEF DiskInv, Init, Unheard

\* Every step of the driver and of the device keeps the invariant.
LEMMA DiskStep == ASSUME DiskAssumption, DiskInv, [Next]_vars PROVE DiskInv'
<1>1. CASE ResetChannel \/ \E d \in Dev : CheckDeviceType(d)
  BY <1>1, StartUpKeeps
<1>2. CASE \E t \in Thread, d \in Dev, s \in Secno :
             DiskRead(t, d, s) \/ \E v \in Val : DiskWrite(t, d, s, v)
  BY <1>2, CallKeeps
<1>3. ASSUME NEW t \in Thread, Operate(t) PROVE DiskInv'
  BY <1>3, AcquireKeeps, SelectKeeps, IssueKeeps, OutputKeeps, InputKeeps, NoDataKeeps,
     CompletedKeeps, ReleaseKeeps DEF Operate
<1>4. CASE InterruptHandler \/ Device
  BY <1>4, DeviceKeeps
<1>5. CASE UNCHANGED vars
  BY <1>5 DEF vars, driverVars, deviceVars, DiskInv, DiskTypes, Exclusive, Asked, Stage,
              Works, Starts, Unheard, Quiet, Told, Aimed, Stored
<1> QED
  BY <1>1, <1>2, <1>3, <1>4, <1>5 DEF Next, Rest

\* It says of the thread that returns and of the interrupt what Served asks for.
LEMMA InvServed == ASSUME DiskAssumption, DiskInv PROVE Served
<1>1. ASSUME NEW t \in Thread, at[t] = "unlock"
      PROVE  IF req[t].op = "read" THEN result[t] = platter[req[t].dev][req[t].sec]
             ELSE req[t].val = platter[req[t].dev][req[t].sec] \/ err
  BY <1>1 DEF DiskInv, Stage, Works, Stored
<1>2. ASSUME Unheard PROVE Paired
  <2>1. completion = 0 /\ ~(completion > 0) /\ ~(intrq /\ expecting)
    BY <1>2 DEF Unheard
  <2> QED
    BY <2>1, Zenon DEF Paired
<1>3. ASSUME ~Unheard PROVE Paired
  <2>1. PICK t \in Thread : Works(t)
    BY <1>3 DEF DiskInv
  <2>2. Stage(t) /\ DiskTypes /\ req[t].op \in {"identify", "read", "write"}
    BY <2>1, WorkerFacts
  <2>3. at[t] \in {"select", "sector", "issue", "poll", "sema", "unlock"}
    BY <2>1 DEF Works
  <2>4. Quiet \/ (Told /\ phase \in {"datain", "idle"} /\ Awaits(t))
    BY <1>3, <2>2, <2>3 DEF Stage, Awaits
  <2>5. CASE Quiet
    <3>1. completion = 0 /\ ~(completion > 0) /\ ~(intrq /\ expecting)
      BY <2>5 DEF Quiet
    <3> QED
      BY <3>1, Zenon DEF Paired
  <2>6. CASE Told /\ phase \in {"datain", "idle"} /\ Awaits(t)
    <3>1. completion <= 1 /\ (completion = 0 \/ ~(intrq /\ expecting))
      BY <2>6 DEF Told
    <3>2. ~Busy
      BY <2>6 DEF Busy
    <3> QED
      BY <2>6, <3>1, <3>2, Zenon DEF Paired
  <2> QED
    BY <2>4, <2>5, <2>6
<1> QED
  BY <1>1, <1>2, <1>3 DEF Served

\* disk_read() and disk_write() return right, and no request takes the interrupt of
\* another for its own, although nothing resets expecting_interrupt.
THEOREM DiskServes == DiskAssumption => (Spec => []Served)
<1> SUFFICES ASSUME DiskAssumption PROVE Spec => []Served
  OBVIOUS
<1> QED
  BY DiskStart, DiskStep, InvServed, PTL DEF Spec
=============================================================================
