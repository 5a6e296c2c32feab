-------------------------------- MODULE Disk --------------------------------
(***************************************************************************)
(* devices/disk.c: one ATA channel with its two devices, the threads that  *)
(* read and write sectors, the interrupt handler, and the start-up code    *)
(* that finds out which devices are disks.                                 *)
(*                                                                         *)
(* at[t] is the next thing t does in disk_read(), disk_write() or, without *)
(* the lock, identify_ata_device().  The device is external: it takes a    *)
(* command, is busy, and raises an interrupt when it has data for the CPU  *)
(* or has stored what it was given; writing asks for data without one.     *)
(* Any command may fail instead.  A device is assumed to answer within the *)
(* 10 ms and 30 s that the driver polls for.                               *)
(***************************************************************************)
EXTENDS Integers

CONSTANTS Thread, Main,   \* Main runs disk_init()
          Secno, Val, None

\* None stands for NULL too: a lock that is free has no holder.
DiskAssumption == Main \in Thread /\ None \notin Thread

Dev == {0, 1}

VARIABLES lock,       \* the holder of the channel's lock
          at, req,    \* where each thread is, and with which request
          result,     \* what a read has returned
          expecting,  \* expecting_interrupt
          completion, \* completion_wait
          ata,        \* the devices with is_ata
          dead,       \* the kernel has panicked
          kind,       \* what is plugged in
          sel, lba,   \* the selected device and sector
          phase,      \* what the selected device does
          err,        \* its last command failed
          data,       \* its sector buffer
          intrq,      \* it asks for an interrupt
          platter     \* the contents of the disks

driverVars == <<lock, at, req, result, expecting, completion, ata, dead>>
deviceVars == <<kind, sel, lba, phase, err, data, intrq, platter>>
vars == <<driverVars, deviceVars>>

Request(op, d, s, v) == [op |-> op, dev |-> d, sec |-> s, val |-> v]
NoRequest            == Request("none", 0, None, None)
Goto(t, label)       == at' = [at EXCEPT ![t] = label]
At(t, label)         == at[t] = label /\ ~dead
Busy                 == phase \in {"identify", "read", "write", "writing"}

-----------------------------------------------------------------------------
\* Start-up.  A reset may leave an interrupt nobody waits for.
ResetChannel ==
  /\ At(Main, "reset")
  /\ intrq' \in BOOLEAN
  /\ Goto(Main, "type0")
  /\ UNCHANGED <<lock, req, result, expecting, completion, ata, dead,
                 kind, sel, lba, phase, err, data, platter>>

\* identify_ata_device() for the next disk; the kernel goes on after the last.
Identify(D) ==
  IF D = {}
  THEN at' = [t \in Thread |-> "code"] /\ UNCHANGED req
  ELSE LET d == CHOOSE d \in D : \A e \in D : d <= e IN
       /\ Goto(Main, "select")
       /\ req' = [req EXCEPT ![Main] = Request("identify", d, None, None)]

\* A master that failed its reset hides the slave.
CheckDeviceType(d) ==
  /\ At(Main, IF d = 0 THEN "type0" ELSE "type1")
  /\ sel' = d
  /\ ata' = IF kind[d] = "disk" THEN ata \cup {d} ELSE ata
  /\ IF d = 0 /\ kind[0] # "failed" THEN Goto(Main, "type1") /\ UNCHANGED req
                                    ELSE Identify(ata')
  /\ UNCHANGED <<lock, result, expecting, completion, dead,
                 kind, lba, phase, err, data, intrq, platter>>

Identified(D) == Identify({d \in D : d > req[Main].dev})

-----------------------------------------------------------------------------
DiskRead(t, d, s) ==
  /\ At(t, "code") /\ d \in ata
  /\ Goto(t, "lock")
  /\ req' = [req EXCEPT ![t] = Request("read", d, s, None)]
  /\ UNCHANGED <<lock, result, expecting, completion, ata, dead, deviceVars>>

DiskWrite(t, d, s, v) ==
  /\ At(t, "code") /\ d \in ata
  /\ Goto(t, "lock")
  /\ req' = [req EXCEPT ![t] = Request("write", d, s, v)]
  /\ UNCHANGED <<lock, result, expecting, completion, ata, dead, deviceVars>>

Acquire(t) ==
  /\ At(t, "lock") /\ lock = None
  /\ lock' = t /\ Goto(t, "select")
  /\ UNCHANGED <<req, result, expecting, completion, ata, dead, deviceVars>>

\* Polling for idleness reads the status, which drops a pending interrupt.
\* A busy device does not listen.
SelectDeviceWait(t) ==
  /\ At(t, "select")
  /\ intrq' = FALSE
  /\ sel' = IF Busy THEN sel ELSE req[t].dev
  /\ Goto(t, IF req[t].op = "identify" THEN "issue" ELSE "sector")
  /\ UNCHANGED <<lock, req, result, expecting, completion, ata, dead,
                 kind, lba, phase, err, data, platter>>

SelectSector(t) ==
  /\ At(t, "sector")
  /\ lba' = IF Busy THEN lba ELSE req[t].sec
  /\ Goto(t, "issue")
  /\ UNCHANGED <<lock, req, result, expecting, completion, ata, dead,
                 kind, sel, phase, err, data, intrq, platter>>

\* Mutant: the handler is not told that an interrupt will come.
IssueForgets(t) ==
  /\ At(t, "issue")
  /\ IF Busy THEN UNCHANGED <<phase, err>>
             ELSE phase' = req[t].op /\ err' = FALSE
  /\ Goto(t, IF req[t].op = "write" THEN "poll" ELSE "sema")
  /\ UNCHANGED <<lock, req, result, expecting, completion, ata, dead,
                 kind, sel, lba, data, intrq, platter>>

\* A write first polls for the data request; the others sleep.
IssuePioCommand(t) ==
  /\ At(t, "issue")
  /\ expecting' = TRUE
  /\ IF Busy THEN UNCHANGED <<phase, err>>
             ELSE phase' = req[t].op /\ err' = FALSE
  /\ Goto(t, IF req[t].op = "write" THEN "poll" ELSE "sema")
  /\ UNCHANGED <<lock, req, result, completion, ata, dead,
                 kind, sel, lba, data, intrq, platter>>

\* Mutant: disk_write() returns without waiting for the disk.
OutputOnly(t) ==
  /\ At(t, "poll") /\ phase = "dataout"
  /\ data' = req[t].val /\ phase' = "writing"
  /\ Goto(t, "unlock")
  /\ UNCHANGED <<lock, req, result, expecting, completion, ata, dead,
                 kind, sel, lba, err, intrq, platter>>

\* wait_while_busy() finds DRQ set: the sector is moved.
OutputSector(t) ==
  /\ At(t, "poll") /\ phase = "dataout"
  /\ data' = req[t].val /\ phase' = "writing"
  /\ Goto(t, "sema")
  /\ UNCHANGED <<lock, req, result, expecting, completion, ata, dead,
                 kind, sel, lba, err, intrq, platter>>

InputSector(t) ==
  /\ At(t, "poll") /\ phase = "datain"
  /\ phase' = "idle" /\ data' = None
  /\ IF req[t].op = "read"
     THEN /\ result' = [result EXCEPT ![t] = data]
          /\ Goto(t, "unlock") /\ UNCHANGED req
     ELSE Identified(ata) /\ UNCHANGED result
  /\ UNCHANGED <<lock, expecting, completion, ata, dead,
                 kind, sel, lba, err, intrq, platter>>

\* ... or it does not: no disk after all, or a panic.
NoData(t) ==
  /\ At(t, "poll") /\ phase = "idle"
  /\ IF req[t].op = "identify"
     THEN /\ ata' = ata \ {req[t].dev}
          /\ Identified(ata') /\ UNCHANGED dead
     ELSE dead' = TRUE /\ UNCHANGED <<ata, at, req>>
  /\ UNCHANGED <<lock, result, expecting, completion, deviceVars>>

\* sema_down (&c->completion_wait).
Completed(t) ==
  /\ At(t, "sema") /\ completion > 0
  /\ completion' = completion - 1
  /\ Goto(t, IF req[t].op = "write" THEN "unlock" ELSE "poll")
  /\ UNCHANGED <<lock, req, result, expecting, ata, dead, deviceVars>>

Release(t) ==
  /\ At(t, "unlock")
  /\ lock' = None /\ Goto(t, "code")
  /\ req' = [req EXCEPT ![t] = NoRequest] /\ result' = [result EXCEPT ![t] = None]
  /\ UNCHANGED <<expecting, completion, ata, dead, deviceVars>>

\* interrupt_handler(); an unexpected interrupt changes nothing.
InterruptHandler ==
  /\ intrq /\ expecting /\ ~dead
  /\ intrq' = FALSE
  /\ completion' = completion + 1
  /\ UNCHANGED <<lock, at, req, result, expecting, ata, dead,
                 kind, sel, lba, phase, err, data, platter>>

-----------------------------------------------------------------------------
\* The device.
DataIn ==
  /\ phase \in {"identify", "read"}
  /\ phase' = "datain" /\ intrq' = TRUE
  /\ data' = IF phase = "read" THEN platter[sel][lba] ELSE None
  /\ UNCHANGED <<driverVars, kind, sel, lba, err, platter>>

DataOut ==
  /\ phase = "write" /\ phase' = "dataout"
  /\ UNCHANGED <<driverVars, kind, sel, lba, err, data, intrq, platter>>

DataStored ==
  /\ phase = "writing" /\ phase' = "idle" /\ intrq' = TRUE /\ data' = None
  /\ platter' = [platter EXCEPT ![sel][lba] = data]
  /\ UNCHANGED <<driverVars, kind, sel, lba, err>>

CommandFails ==
  /\ Busy
  /\ phase' = "idle" /\ intrq' = TRUE /\ err' = TRUE /\ data' = None
  /\ UNCHANGED <<driverVars, kind, sel, lba, platter>>

Device == DataIn \/ DataOut \/ DataStored \/ CommandFails

\* A panicked kernel stays where it is; a machine without disks has no requests.
Rest == (dead \/ (ata = {} /\ at[Main] = "code")) /\ UNCHANGED vars

Init ==
  /\ lock = None
  /\ at = [t \in Thread |-> IF t = Main THEN "reset" ELSE "off"]
  /\ req = [t \in Thread |-> NoRequest]
  /\ result = [t \in Thread |-> None]
  /\ expecting = FALSE /\ completion = 0 /\ ata = {} /\ dead = FALSE
  /\ kind \in [Dev -> {"none", "disk", "failed"}]
  /\ sel = 0 /\ lba = None /\ phase = "idle" /\ err = FALSE
  /\ data = None /\ intrq = FALSE
  /\ platter = [d \in Dev |-> [s \in Secno |-> None]]

Operate(t) ==
  \/ Acquire(t) \/ SelectDeviceWait(t) \/ SelectSector(t) \/ IssuePioCommand(t)
  \/ OutputSector(t) \/ InputSector(t) \/ NoData(t) \/ Completed(t) \/ Release(t)

Next ==
  \/ ResetChannel \/ \E d \in Dev : CheckDeviceType(d)
  \/ \E t \in Thread, d \in Dev, s \in Secno :
        DiskRead(t, d, s) \/ \E v \in Val : DiskWrite(t, d, s, v)
  \/ \E t \in Thread : Operate(t)
  \/ InterruptHandler \/ Device \/ Rest

-----------------------------------------------------------------------------
\* Threads that a completion interrupt will wake.
Awaits(t) == at[t] = "sema" \/ (at[t] = "poll" /\ req[t].op = "write")

\* An interrupt belongs to the command of the thread that waits for it: none is
\* left over for the next request to take for its own, although
\* expecting_interrupt is never reset.
Paired ==
  /\ completion = 0 \/ ~(intrq /\ expecting)
  /\ completion > 0 \/ (intrq /\ expecting) =>
       completion <= 1 /\ ~Busy /\ \E t \in Thread : Awaits(t)

\* disk_read() and disk_write() "internally synchronize accesses": a read
\* returns what is on its sector of its disk, and a write returns "after the
\* disk has acknowledged receiving the data" - which it takes a failed write for.
Served ==
  /\ \A t \in Thread : at[t] = "unlock" =>
       LET stored == platter[req[t].dev][req[t].sec] IN
       IF req[t].op = "read" THEN result[t] = stored
                             ELSE req[t].val = stored \/ err
  /\ Paired

\* A thread's start-up or request, and the end of it.
Asks(t) == at[t] \notin {"off", "code"}
Over(t) == at[t] = "code" \/ dead

\* Another thread's request is answered.
OtherAnswered(t) == \E u \in Thread \ {t} : at[u] = "unlock" /\ at'[u] = "code"
=============================================================================
