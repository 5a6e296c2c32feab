-------------------------------- MODULE FilesProofs --------------------------------
(***************************************************************************)
(* The other steps of module Files, how calls begin, the reset, and the    *)
(* theorems: on a disk of any size, with any number of processes and       *)
(* names and a cache of any size, a sector has one owner and the counts    *)
(* are exact.                                                              *)
(*                                                                         *)
(* Closing a file takes most room: the last close of a file that has been  *)
(* removed gives back its sectors, that of another writes its blocks out,  *)
(* and the root directory is closed at the end of nearly every call.  A    *)
(* call begins with a plan that is Fit and a state that has no trace of    *)
(* the call before it.  A reset keeps what is on the disk, and the disk    *)
(* is right then because "quiet" switches the machine off between calls:   *)
(* every block that matters has been written by the close before.          *)
(***************************************************************************)
EXTENDS FilesSteps

-----------------------------------------------------------------------------
\* The length of a file that has grown.
LengthSet(f, n) == inode' = [inode EXCEPT ![f].data.length = n]

PutNext(R, f, n) ==
  /\ R # <<>> /\ R[1].op = "put" /\ R[1].sector = f /\ R[1].arg[1] = n
  /\ Tail(R) # <<>> /\ Tail(R)[1].op = "unlock" /\ Tail(Tail(R)) = <<>>

LEMMA SetLengthPlan ==
  ASSUME NEW T, Fit(T), T # <<>>, T[1].op = "setlength", NEW f, T[1].sector = f, f \in FileSector,
         NEW R, R = Tail(T), NEW U, U = <<Task("writeinode", f, 0)>> \o R
  PROVE  Fit(U) /\ Task("writeinode", f, 0) \in Tasks /\ PutNext(R, f, T[1].arg)
<1> DEFINE b == Task("writeinode", f, 0)
<1>1. b \in Tasks /\ b.op = "writeinode" /\ b.sector = f
  BY Sectors DEF Tasks, Task, Op, Arguments
<1>2. /\ R # <<>> => MayFollow(T[1], R[1])
      /\ R = <<>> => MayEnd(T[1])
      /\ Fit(R) /\ R \in Seq(Tasks) /\ Meant(T[1])
      /\ \A j \in 1 .. Len(R) : MayPrecede(T[1], R[j])
  BY FitRest DEF Fit
<1>3. R # <<>>
  BY <1>2 DEF MayEnd
<1>4. R[1].op = "put" /\ R[1].sector = f /\ R[1].arg[1] = T[1].arg
  BY <1>2, <1>3 DEF MayFollow
<1>5. Fit(U)
  <2>1. U = <<b>> \o R
    OBVIOUS
  <2> HIDE DEF b
  <2>2. Meant(b)
    BY <1>1 DEF Meant
  <2>3. MayFollow(b, R[1])
    BY <1>1, <1>4 DEF MayFollow
  <2>4. \A j \in 1 .. Len(R) : MayPrecede(b, R[j])
    BY <1>1, <1>2 DEF MayPrecede, CloseRoot
  <2>5. (R # <<>> => MayFollow(b, R[1])) /\ (R = <<>> => MayEnd(b))
    BY <1>3, <2>3
  <2>6. Fit(R) /\ b \in Tasks /\ b.op \notin {"lock", "erase", "lookup", "grow", "allocate", "release"}
    BY <1>1, <1>2
  <2> QED
    BY <2>1, <2>2, <2>4, <2>5, <2>6, FitCons
<1> DEFINE Q == Tail(R)
<1>6. /\ Q # <<>> => MayFollow(R[1], Q[1])
      /\ Q = <<>> => MayEnd(R[1])
      /\ Fit(Q)
  BY <1>2, <1>3, FitRest
<1> HIDE DEF Q, b
<1>7. Q # <<>> /\ Q[1].op = "unlock"
  BY <1>4, <1>6 DEF MayEnd, MayFollow
<1>8. Tail(Q) = <<>>
  BY <1>6, <1>7, LastTask
<1> QED
  BY <1>1, <1>3, <1>4, <1>5, <1>7, <1>8 DEF b, Q, PutNext

LEMMA SetLengthMove ==
  ASSUME NEW p \in Proc, Focus(p), mode = "up", mode' = mode, todo[p] # <<>>,
         todo[p][1].op = "setlength", NEW f, f = todo[p][1].sector,
         LengthSet(f, todo[p][1].arg), Then(p, <<Task("writeinode", f, 0)>>),
         UNCHANGED <<disk, cache, used, fd, exec, leaked, fsLock, reg, miss, lost>>
  PROVE  Focus(p)'
<1> DEFINE T == todo[p]
<1> DEFINE R == Tail(T)
<1> DEFINE a == T[1]
<1> DEFINE b == Task("writeinode", f, 0)
<1> DEFINE U == <<b>> \o R
<1> DEFINE n == inode[f].data
<1> DEFINE len == Len(n.direct)
<1>1. /\ T # <<>> /\ a.op = "setlength" /\ Fit(T) /\ ~Quiet(p) /\ Meant(a)
      /\ Fit(R) /\ R \in Seq(Tasks) /\ T \in Seq(Tasks) /\ a \in Tasks
      /\ Plans /\ Turn(p) /\ CacheRight(p) /\ DiskRight /\ HandleTypes
      /\ SystemData(p) /\ OwnersRight(p) /\ NewRight(p) /\ NamesRight(p) /\ DataRight(p)
      /\ SystemInodes(p) /\ Counted(p) /\ LoadedRight(p) /\ InodesRight(p) /\ Unnamed
  <2>1. Plans /\ T = todo[p]
    BY DEF Focus
  <2>2. Fit(T) /\ ~Quiet(p)
    BY <2>1 DEF Plans, Quiet
  <2>3. Fit(R) /\ R \in Seq(Tasks) /\ T \in Seq(Tasks) /\ a \in Tasks /\ Meant(a)
    BY <2>2, HeadOf DEF Fit
  <2> HIDE DEF T, R, a
  <2> QED
    BY <2>1, <2>2, <2>3 DEF Focus, a, T
<1>2. /\ f \in FileSector /\ inode[f].cnt > 0 /\ inode[f].loaded
  <2>1. todo[p][1].op \in DataOps
    BY DEF DataOps
  <2> QED
    BY <1>1, <2>1, FileOpen
<1>3. f \in File /\ FileRight(p, f) /\ InodeOf(f) = n
  BY <1>1, <1>2 DEF File, InodesRight, InodeOf
<1>4. /\ Fit(U) /\ b \in Tasks /\ b.op = "writeinode" /\ b.sector = f
      /\ R # <<>> /\ R[1].op = "put" /\ R[1].sector = f /\ R[1].arg[1] = a.arg
      /\ Tail(R) # <<>> /\ Tail(R)[1].op = "unlock" /\ Tail(Tail(R)) = <<>>
  <2>1. b.op = "writeinode" /\ b.sector = f
    BY DEF Task
  <2>2. T # <<>> /\ T[1].op = "setlength" /\ T[1].sector = f /\ R = Tail(T)
        /\ U = <<Task("writeinode", f, 0)>> \o R /\ Fit(T)
    BY <1>1
  <2> HIDE DEF U, T, R
  <2>3. Fit(U) /\ Task("writeinode", f, 0) \in Tasks /\ PutNext(R, f, T[1].arg)
    BY <1>2, <2>2, SetLengthPlan
  <2> QED
    BY <2>1, <2>3 DEF PutNext
<1>5. HeadFacts(a, R, T)
  BY <1>1, HeadNow
<1>6. HeadFacts(b, R, U)
  <2>1. U = <<b>> \o R /\ R \in Seq(Tasks) /\ b \in Tasks
    BY <1>1, <1>4
  <2> HIDE DEF U, b, R
  <2> QED
    BY <2>1, OneAhead
<1>7. WriteRest(Tail(R)) /\ Fit(Tail(R))
  <2>1. Fit(Tail(R))
    BY <1>1, <1>4, FitRest
  <2> QED
    BY <1>4, <2>1 DEF WriteRest
<1>8. HeadFacts(R[1], Tail(R), R)
  BY <1>1, <1>4, HeadNow
<1>9. Moves(p, U) /\ todo'[p] = U
  <2>1. U = <<b>> \o Tail(todo[p])
    BY SMTT(30)
  <2>2. U # <<>> /\ U[1].op # "lock"
    BY <1>4, <1>6 DEF HeadFacts
  <2> HIDE DEF U, b
  <2> QED
    BY <1>1, <1>4, <2>1, <2>2, ThenMoves DEF b
<1>10. a.arg = len /\ len \in Nat /\ len <= MaxLen
  <2>1. HasOn(T, {"setlength"}, f)
    BY <1>1, <1>5, SMTT(30) DEF HeadFacts
  <2>2. Grows(T, len)
    BY <1>1, <1>2, <2>1, SMTT(30) DEF DataRight, Growing
  <2>3. a.arg = len + (1 - 1 - Early(T))
    <3>1. 1 \in 1 .. Len(T)
      BY <1>5 DEF HeadFacts
    <3> QED
      BY <1>1, <2>2, <3>1 DEF Grows
  <2>4. Early(T) = 0
    BY <1>1, SMTT(30) DEF Early, AtHead
  <2>5. len \in Nat /\ len <= MaxLen
    <3>1. InodeOf(f) \in [direct : Seq(FileSector), length : Nat] /\ Len(InodeOf(f).direct) <= MaxLen
      BY <1>3, Zenon DEF FileRight
    <3>2. n \in [direct : Seq(FileSector), length : Nat] /\ Len(n.direct) <= MaxLen
      BY <3>1, <1>3, Zenon
    <3> HIDE DEF n
    <3>3. n.direct \in Seq(FileSector)
      BY <3>2
    <3> QED
      BY <3>2, <3>3
  <2> HIDE DEF len, T
  <2> QED
    BY <2>3, <2>4, <2>5
<1>11. inode \in [Sector -> Inodes] /\ inode[f] \in Inodes /\ f \in Sector
       /\ \A g \in FileSector : g \in Sector
  BY <1>1, <1>2, Sectors DEF HandleTypes
<1>12. /\ n \in [direct : Seq(FileSector), length : Nat]
       /\ IsInjective(n.direct) /\ f \notin ToSet(n.direct) /\ ~Caught(p, f)
  BY <1>3, Zenon DEF FileRight
<1>13. /\ inode' \in [Sector -> Inodes]
       /\ inode'[f].cnt = inode[f].cnt
       /\ inode'[f].deny = inode[f].deny /\ inode'[f].removed = inode[f].removed
       /\ inode'[f].loaded = inode[f].loaded
       /\ inode'[f].data.direct = n.direct /\ inode'[f].data.length = len
       /\ inode'[f].data \in [direct : Seq(FileSector), length : Nat]
       /\ \A t \in Sector : t # f => inode'[t] = inode[t]
  <2> DEFINE d == [n EXCEPT !.length = a.arg]
  <2> DEFINE m == [inode[f] EXCEPT !.data = d]
  <2>1. /\ d \in [direct : Seq(FileSector), length : Nat]
        /\ d.direct = n.direct /\ d.length = len
    <3> HIDE DEF n, len
    <3> QED
      BY <1>10, <1>12
  <2>2. d \in OnDisks
    <3>1. Seq(FileSector) \subseteq Seq(FileSector \cup {MapData, RootData})
      OBVIOUS
    <3> HIDE DEF d
    <3> QED
      BY <2>1, <3>1 DEF OnDisks
  <2>3. inode' = [inode EXCEPT ![f] = m]
    BY <1>11 DEF LengthSet
  <2> HIDE DEF d
  <2>4. /\ m \in Inodes /\ m.cnt = inode[f].cnt
        /\ m.deny = inode[f].deny /\ m.removed = inode[f].removed
        /\ m.loaded = inode[f].loaded /\ m.data = d
    BY <1>11, <2>2 DEF Inodes
  <2> HIDE DEF m
  <2>5. inode' \in [Sector -> Inodes] /\ inode'[f] = m
        /\ \A t \in Sector : t # f => inode'[t] = inode[t]
    BY <1>11, <2>3, <2>4
  <2> QED
    BY <2>1, <2>4, <2>5
<1>14. ~Has(T, {"create", "zero", "erase"} \cup Making \cup Naming)
  <2> DEFINE ops == {"create", "zero", "erase"} \cup Making \cup Naming
  <2>1. \A e \in Tasks : e.op \in ops => ~MayPrecede(a, e)
    BY <1>1 DEF MayPrecede, CloseRoot, Naming, Making
  <2>2. a.op \notin ops
    BY <1>1 DEF Naming, Making
  <2> HIDE DEF ops
  <2>3. ~Has(R, ops)
    BY <1>1, <2>1, NotLater, SMTT(30) DEF R, a
  <2> QED
    BY <1>5, <2>2, <2>3 DEF ops, HeadFacts
<1> HIDE DEF U, R, a, T, b, n, len
<1>15. \A o \in {{"unlock"}, {"close"}, {"setlength", "writeinode"}, Making, {"release"}, {"create"}, {"zero"}} :
          (Has(U, o) <=> Has(T, o)) /\ \A g : HasOn(U, o, g) <=> HasOn(T, o, g)
  <2>1. /\ \A o : Has(U, o) <=> (b.op \in o \/ Has(R, o))
        /\ \A o, g : HasOn(U, o, g) <=> ((b.op \in o /\ b.sector = g) \/ HasOn(R, o, g))
    BY <1>6, Zenon DEF HeadFacts
  <2>2. /\ \A o : Has(T, o) <=> (a.op \in o \/ Has(R, o))
        /\ \A o, g : HasOn(T, o, g) <=> ((a.op \in o /\ a.sector = g) \/ HasOn(R, o, g))
    BY <1>5, Zenon DEF HeadFacts
  <2>3. a.op = "setlength" /\ a.sector = f /\ b.op = "writeinode" /\ b.sector = f
    BY <1>1, <1>4, Zenon DEF T, a
  <2> SUFFICES ASSUME NEW o \in {{"unlock"}, {"close"}, {"setlength", "writeinode"}, Making, {"release"},
                                 {"create"}, {"zero"}}
               PROVE  (Has(U, o) <=> Has(T, o)) /\ \A g : HasOn(U, o, g) <=> HasOn(T, o, g)
    OBVIOUS
  <2>4. a.op \in o <=> b.op \in o
    BY <2>3 DEF Making
  <2> QED
    BY <2>1, <2>2, <2>3, <2>4, Zenon
<1>16. \A g : HasOn(U, DataOps, g) => HasOn(T, DataOps, g)
  <2>1. a.op \in DataOps /\ a.sector = f /\ b.op \in DataOps
    BY <1>1, <1>4 DEF DataOps, a, T
  <2> QED
    BY <1>4, <1>5, <1>6, <2>1 DEF HeadFacts
<1>17. (RootOpen(U) <=> RootOpen(T)) /\ ~RegHeld(U) /\ ~RegHeld(T)
  <2>1. ~RegHeld(T)
    BY <1>14 DEF RegHeld, Has, Naming
  <2> QED
    BY <1>1, <1>4, <1>5, <1>6, <2>1 DEF HeadFacts, Naming, OpenRoot, CloseRoot
<1>18. ~AtHead(U, {"load", "off"}) /\ ~AtHead(U, {"open"}) /\ ~AtHead(U, {"readat"})
       /\ ~AtHead(U, {"unique", "dirwrite"})
       /\ (\A g : ~AtHeadOn(U, "open", g) /\ ~AtHeadOn(T, "open", g)) /\ ~AtHead(T, {"open"})
       /\ (\A g : ~AtHeadOn(T, "load", g) /\ ~AtHeadOn(T, "flush", g)) /\ ~AtHead(T, {"off"})
  BY <1>1, <1>4, <1>6 DEF AtHead, AtHeadOn, a, HeadFacts
<1>19. ~Has(U, {"create"}) /\ ~Has(U, Making) /\ ~Has(U, {"erase", "deny", "newfd"}) /\ ~Has(U, {"zero"})
  <2>1. /\ ~Has(R, {"create"}) /\ ~Has(R, Making) /\ ~Has(R, {"erase", "deny", "newfd"}) /\ ~Has(R, {"zero"})
    <3>1. \A o : o \subseteq {"create", "zero", "erase"} \cup Making \cup Naming => ~Has(R, o)
      <4>1. ~Has(R, {"create", "zero", "erase"} \cup Making \cup Naming)
        BY <1>5, <1>14 DEF HeadFacts
      <4> QED
        BY <4>1 DEF Has
    <3> QED
      BY <3>1 DEF Making, Naming
  <2> QED
    BY <1>4, <1>6, <2>1 DEF HeadFacts, Making
<1>20. \A t \in Sector : /\ inode'[t].cnt = inode[t].cnt /\ inode'[t].deny = inode[t].deny
                         /\ inode'[t].removed = inode[t].removed /\ inode'[t].loaded = inode[t].loaded
  BY <1>13
<1>21. /\ FREE_MAP_SECTOR # f /\ MapData # f /\ RootData # f /\ ROOT_DIR_SECTOR # f
       /\ FREE_MAP_SECTOR \in Sector /\ MapData \in Sector /\ RootData \in Sector /\ ROOT_DIR_SECTOR \in Sector
  BY <1>2, Sectors, SMTT(30)
<1>22. HandleTypes'
  <2>1. \A t \in Sector : inode'[t].cnt = 0 => inode'[t] = Closed
    <3> TAKE t \in Sector
    <3>1. CASE t = f
      <4>1. ~(inode[f].cnt = 0)
        BY <1>2, <1>11, SMTT(30) DEF Inodes
      <4> QED
        BY <1>13, <3>1, <4>1
    <3>2. CASE t # f
      BY <1>1, <1>13, <3>2 DEF HandleTypes
    <3> QED
      BY <3>1, <3>2
  <2> QED
    BY <1>1, <1>13, <2>1 DEF HandleTypes
<1>23. SystemInodes(p)'
  <2>1. inode[FREE_MAP_SECTOR] = FreeMapInode
    BY <1>1, <1>18, SMTT(30) DEF SystemInodes, T
  <2>2. /\ inode'[FREE_MAP_SECTOR] = FreeMapInode /\ inode'[MapData] = Closed /\ inode'[RootData] = Closed
        /\ inode'[ROOT_DIR_SECTOR] = inode[ROOT_DIR_SECTOR]
    BY <1>1, <1>13, <1>21, <2>1 DEF SystemInodes
  <2>3. RootOpen(todo[p])' <=> RootOpen(todo[p])
    BY <1>9, <1>17 DEF T
  <2> QED
    BY <1>1, <2>2, <2>3 DEF SystemInodes
<1>24. Counted(p)'
  <2>1. SameFds
    BY <1>1, SameFdsNow
  <2>2. \A g \in FileSector : Held(p, g)' <=> Held(p, g)
    <3> TAKE g \in FileSector
    <3>1. HasOn(U, {"close"}, g) <=> HasOn(T, {"close"}, g)
      BY <1>15
    <3> QED
      BY <1>9, <1>17, <1>18, <3>1 DEF Held, T
  <2>3. \A g \in FileSector : inode'[g].cnt = inode[g].cnt /\ inode'[g].deny = inode[g].deny
    BY <1>11, <1>20
  <2> QED
    BY <1>1, <2>1, <2>2, <2>3, KeepCounts
<1>25. LoadedRight(p)'
  <2>1. ASSUME NEW t \in {ROOT_DIR_SECTOR} \cup FileSector, inode'[t].cnt > 0
        PROVE  inode'[t].loaded
    <3>1. t \in Sector
      BY <1>11, <1>21
    <3>2. inode[t].cnt > 0 => inode[t].loaded
      BY <1>1, <1>18 DEF LoadedRight, T
    <3>3. inode'[t].cnt = inode[t].cnt /\ inode'[t].loaded = inode[t].loaded
      BY <1>20, <3>1
    <3> QED
      BY <2>1, <3>2, <3>3
  <2>2. ~AtHead(U, {"load"})
    BY <1>18, SMTT(30) DEF AtHead
  <2> QED
    BY <1>9, <2>1, <2>2 DEF LoadedRight
<1>26. \A g \in File : g # f => InodeOf(g)' = InodeOf(g)
  <2> TAKE g \in File
  <2>1. g \in Sector
    BY <1>1, <1>11, FileFacts, SMTT(30)
  <2> QED
    BY <1>13, <2>1 DEF InodeOf
<1>27. InodeOf(f)' = inode'[f].data
  BY <1>2, <1>13 DEF InodeOf
<1>28. Made(p)' = Made(p) /\ ToGive(p)' = ToGive(p)
  BY <1>9, <1>15 DEF Made, ToGive, T
<1>29. Writing(p, f)' /\ \A g : ~HasOn(U, {"setlength"}, g)
  <2>1. HasOn(U, {"setlength", "writeinode"}, f)
    BY <1>4, <1>6 DEF HeadFacts
  <2>2. ~Has(Tail(R), {"setlength"})
    BY <1>7, UnlockRest
  <2>3. ~Has(U, {"setlength"})
    BY <1>4, <1>6, <1>8, <2>2 DEF HeadFacts
  <2> QED
    BY <1>9, <2>1, <2>3, HasOnHas DEF Writing
<1>30. ASSUME SameStore(p)
       PROVE Unnamed' /\ InodesRight(p)' /\ OwnersRight(p)' /\ NewRight(p)' /\ NamesRight(p)' /\ DataRight(p)'
  <2>1. InDir' = InDir /\ Named' = Named /\ \A t : Caught(p, t)' <=> Caught(p, t)
    BY <1>30 DEF SameStore
  <2>2. File' = File
    <3>1. \A g \in FileSector : inode'[g].cnt = inode[g].cnt
      BY <1>11, <1>20
    <3> QED
      BY <2>1, <3>1 DEF File
  <2>3. Unnamed'
    <3>1. \A g \in FileSector : inode'[g].cnt = inode[g].cnt /\ inode'[g].removed = inode[g].removed
      BY <1>11, <1>20
    <3> QED
      BY <1>1, <2>1, <3>1 DEF Unnamed
  <2>4. InodesRight(p)'
    <3> SUFFICES ASSUME NEW g \in File PROVE FileRight(p, g)'
      BY <2>2 DEF InodesRight
    <3>1. CASE g # f
      <4>1. ~Growing(p, g)' /\ (~Growing(p, g))
        <5>1. ~Growing(p, g)
          <6>1. SUFFICES ASSUME HasOn(T, {"setlength"}, g) PROVE FALSE
            BY DEF Growing, T
          <6>2. a.sector = g \/ HasOn(R, {"setlength"}, g)
            BY <1>5, <6>1 DEF HeadFacts
          <6>3. ~HasOn(R, {"setlength"}, g)
            <7>1. ~HasOn(U, {"setlength"}, g)
              BY <1>29
            <7> QED
              BY <1>6, <7>1 DEF HeadFacts
          <6>4. a.sector = f
            BY DEF a, T
          <6> QED
            BY <3>1, <6>2, <6>3, <6>4
        <5> QED
          BY <1>9, <1>29, <5>1 DEF Growing
      <4>2. Writing(p, g)' <=> Writing(p, g)
        BY <1>9, <1>15 DEF Writing, T
      <4>3. FileRight(p, g)
        BY <1>1 DEF InodesRight
      <4>4. InodeOf(g)' = InodeOf(g) /\ disk'[g] = disk[g]
        BY <1>26, <3>1
      <4> QED
        BY <2>1, <4>1, <4>2, <4>3, <4>4 DEF FileRight
    <3>2. CASE g = f
      <4> DEFINE i == inode'[f].data
      <4>1. /\ i \in [direct : Seq(FileSector), length : Nat] /\ i.direct = n.direct /\ i.length = len
            /\ len = Len(n.direct)
        BY <1>13 DEF len
      <4>2. InodeOf(f)' = i /\ ~Caught(p, f)'
        BY <1>12, <1>27, <2>1
      <4>3. /\ Len(i.direct) <= MaxLen /\ i.length <= Len(i.direct) /\ i.length = Len(i.direct)
            /\ IsInjective(i.direct) /\ f \notin ToSet(i.direct)
        <5> HIDE DEF i
        <5> QED
          BY <1>10, <1>12, <4>1
      <4> HIDE DEF i
      <4> QED
        BY <1>29, <3>2, <4>1, <4>2, <4>3, SMTT(30) DEF FileRight
    <3> QED
      BY <3>1, <3>2
  <2>5. OwnersRight(p)'
    <3>1. Whole(f)' = Whole(f)
      <4>1. Whole(f)' = {f} \cup ToSet(InodeOf(f)'.direct) /\ Whole(f) = {f} \cup ToSet(InodeOf(f).direct)
        BY DEF Whole
      <4> QED
        BY <1>3, <1>13, <1>27, <4>1, Zenon
    <3>2. \A g \in File : Whole(g)' = Whole(g)
      BY <1>26, <3>1 DEF Whole
    <3>3. Owns' = Owns
      <4>1. Owns = UNION {Whole(g) : g \in File}
        BY DEF Owns
      <4>2. Owns' = UNION {Whole(g)' : g \in File}
        BY <2>2 DEF Owns
      <4> QED
        BY <3>2, <4>1, <4>2
    <3>4. \A g, h \in File : g # h => Whole(g)' \cap Whole(h)' = {}
      BY <1>1, <3>2 DEF OwnersRight
    <3>5. /\ lost \subseteq FileSector /\ lost \cap Owns = {}
          /\ Made(p) \cap (Owns \cup lost) = {} /\ ToGive(p) \cap (Owns \cup lost) = {}
          /\ used = (0 .. 3) \cup lost \cup Owns \cup Made(p) \cup ToGive(p)
      BY <1>1 DEF OwnersRight
    <3> QED
      BY <1>28, <2>2, <3>3, <3>4, <3>5, SMTT(30) DEF OwnersRight
  <2>6. NewRight(p)'
    <3>1. ~AtHead(U, {"unique", "dirwrite"}) /\ ~Has(U, Making) /\ ~Has(U, {"create"})
          /\ \A t : ~HasOn(U, {"zero"}, t)
      BY <1>18, <1>19, HasOnHas
    <3> QED
      BY <1>9, <3>1 DEF NewRight
  <2>7. NamesRight(p)'
    BY <1>9, <1>18, <1>19 DEF NamesRight, Has
  <2>8. DataRight(p)'
    <3>1. \A g \in FileSector : ~Growing(p, g)'
      BY <1>9, <1>29 DEF Growing
    <3>2. ASSUME NEW i \in 1 .. Len(U), U[i].op = "put"
          PROVE  U[i].arg[1] = len /\ U[i].sector = f
      <4>1. Len(Tail(R)) = 1 /\ Tail(R)[1].op = "unlock"
        BY <1>4, <1>7, UnlockRest
      <4>2. Len(R) = 2 /\ R[2] = Tail(R)[1]
        <5>1. Len(R) = Len(Tail(R)) + 1 /\ \A j \in 2 .. Len(R) : R[j] = Tail(R)[j - 1]
          BY <1>8 DEF HeadFacts
        <5>2. Len(R) = 1 + 1
          BY <4>1, <5>1
        <5>3. 2 \in 2 .. 2 /\ 1 + 1 = 2 /\ 2 - 1 = 1
          OBVIOUS
        <5> QED
          BY <5>1, <5>2, <5>3
      <4>3. i # 1
        BY <1>4, <1>6, <3>2 DEF HeadFacts
      <4>4. i \in 2 .. Len(U)
        BY <4>3
      <4>5. U[i] = R[i - 1] /\ i - 1 \in 1 .. Len(R)
        BY <1>6, <4>4 DEF HeadFacts
      <4>6. i - 1 = 1 \/ i - 1 = 2
        BY <4>2, <4>5
      <4>7. CASE i - 1 = 1
        BY <1>4, <1>10, <4>5, <4>7
      <4>8. CASE i - 1 = 2
        BY <3>2, <4>1, <4>2, <4>5, <4>8, SMTT(30)
      <4> QED
        BY <4>6, <4>7, <4>8
    <3>3. inode'[f].data.length = len
      BY <1>13
    <3>4. \A i \in 1 .. Len(U) : U[i].op = "put" => U[i].arg[1] <= inode'[U[i].sector].data.length
      <4> SUFFICES ASSUME NEW i \in 1 .. Len(U), U[i].op = "put"
                   PROVE  U[i].arg[1] <= inode'[U[i].sector].data.length
        OBVIOUS
      <4>1. U[i].arg[1] = len /\ U[i].sector = f
        BY <3>2
      <4>2. inode'[U[i].sector].data.length = len
        BY <3>3, <4>1
      <4>3. len <= len
        BY <1>10
      <4> QED
        BY <4>1, <4>2, <4>3
    <3>5. ~AtHead(U, {"readat"})
      BY <1>18
    <3> QED
      BY <1>9, <3>1, <3>4, <3>5 DEF DataRight
  <2> QED
    BY <2>3, <2>4, <2>5, <2>6, <2>7, <2>8
<1>31. SameStore(p) => /\ HandleTypes' /\ SystemInodes(p)' /\ Counted(p)' /\ Unnamed' /\ LoadedRight(p)'
                       /\ InodesRight(p)' /\ OwnersRight(p)' /\ NewRight(p)' /\ NamesRight(p)'
                       /\ DataRight(p)'
  BY <1>22, <1>23, <1>24, <1>25, <1>30
<1>32. /\ Has(U, {"unlock"}) <=> Has(T, {"unlock"})
       /\ \A g : HasOn(U, DataOps, g) /\ Has(U, {"unlock"}) => HasOn(T, DataOps, g)
       /\ RootOpen(T) => RootOpen(U) \/ AtHeadOn(U, "flush", RootData)
       /\ ~AtHead(U, {"off"}) /\ used' \subseteq Sector /\ used' = used
       /\ reg' \in [Proc -> Seq(FileSector)]
       /\ T[1].op \in {"open", "load", "close", "grow", "setlength", "newfd", "deny", "loaded"}
  BY <1>1, <1>15, <1>16, <1>17, <1>18 DEF Plans, AtHead, a, DiskRight
<1>33. \A r \in Proc : fd[r] # None => fd'[r] # None /\ fd'[r].sector = fd[r].sector
  OBVIOUS
<1> QED
  BY <1>1, <1>9, <1>31, <1>32, <1>33, InodeStep DEF T

LEMMA SetLengthStep ==
  ASSUME NEW p \in Proc, Focus(p), SetLength(p), lost' = lost
  PROVE  Focus(p)'
<1>1. Is(p, "setlength")
  BY DEF SetLength
<1>2. /\ todo[p] # <<>> /\ todo[p][1].op = "setlength" /\ mode = "up" /\ S(p) = todo[p][1].sector
      /\ Arg(p) = todo[p][1].arg
  BY <1>1, Begin, SMTT(30)
<1>3. LengthSet(todo[p][1].sector, todo[p][1].arg) /\ Then(p, <<Task("writeinode", todo[p][1].sector, 0)>>)
  BY <1>2 DEF SetLength, LengthSet
<1>4. UNCHANGED <<disk, cache, used, fd, exec, leaked, fsLock, reg, miss, lost>> /\ mode' = mode
  BY DEF SetLength
<1> QED
  BY <1>2, <1>3, <1>4, SetLengthMove

-----------------------------------------------------------------------------
\* Handles change hands: newfd, deny and loaded.
LEMMA Cards ==
  ASSUME HandleTypes, NEW f \in FileSector
  PROVE  /\ IsFiniteSet(Executing(f)) /\ IsFiniteSet(Opened(f))
         /\ Cardinality(Executing(f)) \in Nat /\ Cardinality(Opened(f)) \in Nat /\ leaked[f] \in Nat
<1>1. IsFiniteSet(Executing(f)) /\ IsFiniteSet(Opened(f))
  BY FilesAssumption, FS_Subset DEF Executing, Opened
<1> QED
  BY <1>1, FS_CardinalityType DEF HandleTypes

HandleOps == Making \cup {"create", "zero", "erase", "setlength", "put", "writeinode", "release", "unlock"}

LEMMA HandlePlan ==
  ASSUME NEW T, Fit(T), T # <<>>, T[1].op \in {"newfd", "deny", "loaded"}
  PROVE  /\ ~Has(T, HandleOps) /\ ~Has(Tail(T), {"newfd", "deny"})
         /\ \A f \in FileSector : ~HasOn(T, {"close"}, f)
<1>1. HeadFacts(T[1], Tail(T), T) /\ \A j \in 1 .. Len(Tail(T)) : MayPrecede(T[1], Tail(T)[j])
  BY HeadNow, FitRest
<1>2. ~Has(Tail(T), HandleOps \cup {"newfd", "deny"})
  <2>1. \A d \in Tasks : d.op \in HandleOps \cup {"newfd", "deny"} => ~MayPrecede(T[1], d)
    BY DEF MayPrecede, HandleOps, Making, CloseRoot
  <2> QED
    BY <2>1, NotLater
<1>3. ~Has(Tail(T), HandleOps) /\ ~Has(Tail(T), {"newfd", "deny"})
  BY <1>2 DEF Has
<1>4. ~Has(T, HandleOps)
  <2>1. T[1].op \notin HandleOps
    BY DEF HandleOps, Making
  <2> QED
    BY <1>1, <1>3, <2>1 DEF HeadFacts
<1>5. \A f \in FileSector : ~HasOn(T, {"close"}, f)
  <2> SUFFICES ASSUME NEW f \in FileSector, HasOn(T, {"close"}, f) PROVE FALSE
    OBVIOUS
  <2>1. HasOn(Tail(T), {"close"}, f)
    BY <1>1 DEF HeadFacts
  <2>2. PICK j \in 1 .. Len(Tail(T)) : Tail(T)[j].op = "close" /\ Tail(T)[j].sector = f
    BY <2>1 DEF HasOn
  <2>3. MayPrecede(T[1], Tail(T)[j])
    BY <1>1
  <2> QED
    BY <2>2, <2>3 DEF MayPrecede
<1> QED
  BY <1>3, <1>4, <1>5

LEMMA HandleMove ==
  ASSUME NEW p \in Proc, Focus(p), mode = "up", mode' = mode, todo[p] # <<>>,
         todo[p][1].op \in {"newfd", "deny", "loaded"}, NEW U, Moves(p, U),
         UNCHANGED <<disk, cache, used, leaked, fsLock, miss, lost>>,
         inode' \in [Sector -> Inodes],
         \A t \in Sector : /\ inode'[t].cnt = inode[t].cnt /\ inode'[t].removed = inode[t].removed
                           /\ inode'[t].loaded = inode[t].loaded /\ inode'[t].data = inode[t].data
                           /\ t \notin FileSector => inode'[t] = inode[t]
                           /\ inode[t].cnt = 0 => inode'[t] = inode[t],
         fd' \in [Proc -> {None} \cup [sector : FileSector, pos : Nat]],
         exec' \in [Proc -> {None} \cup FileSector], reg' \in [Proc -> Seq(FileSector)],
         \A q \in Proc : fd[q] # None => fd'[q] # None /\ fd'[q].sector = fd[q].sector,
         ~Has(U, HandleOps) /\ ~Has(U, {"newfd", "deny"}),
         RootOpen(U) <=> RootOpen(todo[p]),
         ~AtHead(U, {"readat", "load", "off"}), AtHead(U, {"open"}) => U[1].sector = ROOT_DIR_SECTOR,
         Counted(p)'
  PROVE  Focus(p)'
<1> DEFINE T == todo[p]
<1>1. /\ T # <<>> /\ Fit(T) /\ ~Quiet(p)
      /\ Plans /\ Turn(p) /\ CacheRight(p) /\ DiskRight /\ HandleTypes
      /\ SystemData(p) /\ OwnersRight(p) /\ NewRight(p) /\ NamesRight(p) /\ DataRight(p)
      /\ SystemInodes(p) /\ Counted(p) /\ LoadedRight(p) /\ InodesRight(p) /\ Unnamed
  <2>1. Plans /\ T = todo[p]
    BY DEF Focus
  <2>2. Fit(T) /\ ~Quiet(p)
    BY <2>1 DEF Plans, Quiet
  <2> HIDE DEF T
  <2> QED
    BY <2>1, <2>2 DEF Focus, T
<1>2. todo'[p] = U /\ U \in Seq(Tasks)
  <2>1. todo' = [todo EXCEPT ![p] = U] /\ Fit(U) /\ todo \in [Proc -> Seq(Tasks)]
    BY <1>1 DEF Moves, Plans
  <2> QED
    BY <2>1 DEF Fit
<1>3. ~Has(T, HandleOps)
  BY <1>1, HandlePlan
<1>4. \A ops : ops \subseteq HandleOps =>
        /\ ~Has(T, ops) /\ ~Has(U, ops) /\ \A f : ~HasOn(T, ops, f) /\ ~HasOn(U, ops, f)
  BY <1>3 DEF Has, HasOn
<1>5. /\ Making \subseteq HandleOps /\ {"create"} \subseteq HandleOps /\ {"zero"} \subseteq HandleOps
      /\ {"release"} \subseteq HandleOps /\ {"setlength"} \subseteq HandleOps
      /\ {"setlength", "writeinode"} \subseteq HandleOps /\ {"unlock"} \subseteq HandleOps
      /\ Making \cup {"create", "zero"} \subseteq HandleOps
      /\ {"erase", "setlength", "put"} \subseteq HandleOps
  BY DEF HandleOps
<1>6. \A f \in FileSector : f \in Sector
  BY Sectors
<1>7. HandleTypes'
  <2>1. \A t \in Sector : inode'[t].cnt = 0 => inode'[t] = Closed
    BY <1>1 DEF HandleTypes
  <2> QED
    BY <1>1, <2>1 DEF HandleTypes
<1>8. SystemInodes(p)'
  <2>1. ~AtHead(T, {"off"}) /\ ~AtHeadOn(T, "flush", MapData)
    BY DEF AtHead, AtHeadOn
  <2>2. inode[FREE_MAP_SECTOR] = FreeMapInode
    BY <1>1, <2>1 DEF SystemInodes
  <2>3. \A t \in {FREE_MAP_SECTOR, MapData, RootData, ROOT_DIR_SECTOR} : inode'[t] = inode[t]
    BY Sectors
  <2> QED
    BY <1>1, <1>2, <2>2, <2>3 DEF SystemInodes
<1>9. LoadedRight(p)'
  <2>1. \A t \in {ROOT_DIR_SECTOR} \cup FileSector : inode[t].cnt > 0 => inode[t].loaded
    BY <1>1 DEF LoadedRight, AtHeadOn
  <2>2. \A t \in {ROOT_DIR_SECTOR} \cup FileSector : inode'[t].cnt > 0 => inode'[t].loaded
    <3> TAKE t \in {ROOT_DIR_SECTOR} \cup FileSector
    <3>1. t \in Sector
      BY Sectors
    <3> QED
      BY <2>1, <3>1
  <2>3. ~AtHead(U, {"load"})
    BY DEF AtHead
  <2> QED
    BY <1>2, <2>2, <2>3 DEF LoadedRight
<1>10. \A f \in FileSector : InodeOf(f)' = InodeOf(f)
  BY <1>6 DEF InodeOf
<1>11. File \subseteq FileSector
  BY <1>1, FileFacts
<1>12. Made(p)' = {} /\ Made(p) = {} /\ ToGive(p)' = {} /\ ToGive(p) = {}
  <2>1. /\ ~Has(T, Making) /\ ~Has(U, Making)
        /\ \A f : ~HasOn(T, {"release"}, f) /\ ~HasOn(U, {"release"}, f)
    BY <1>4, <1>5
  <2> QED
    BY <1>2, <2>1 DEF Made, ToGive
<1>13. ASSUME SameStore(p)
       PROVE Unnamed' /\ InodesRight(p)' /\ OwnersRight(p)' /\ NewRight(p)' /\ NamesRight(p)' /\ DataRight(p)'
  <2>1. InDir' = InDir /\ Named' = Named /\ \A t : Caught(p, t)' <=> Caught(p, t)
    BY <1>13 DEF SameStore
  <2>2. File' = File
    <3>1. \A f \in FileSector : inode'[f].cnt = inode[f].cnt
      BY <1>6
    <3> QED
      BY <2>1, <3>1 DEF File
  <2>3. Unnamed'
    <3>1. \A f \in FileSector : inode'[f].cnt = inode[f].cnt /\ inode'[f].removed = inode[f].removed
      BY <1>6
    <3> QED
      BY <1>1, <2>1, <3>1 DEF Unnamed
  <2>4. InodesRight(p)'
    <3>1. \A f : ~Growing(p, f) /\ ~Writing(p, f)
      BY <1>4, <1>5 DEF Growing, Writing
    <3>2. \A f \in File : InodeOf(f)' = InodeOf(f) /\ disk'[f] = disk[f]
      BY <1>10, <1>11
    <3> QED
      BY <1>1, <2>1, <2>2, <3>1, <3>2, KeepInodes
  <2>5. OwnersRight(p)'
    BY <1>1, <1>10, <1>11, <1>12, <2>2, KeepOwners
  <2>6. NewRight(p)'
    BY <1>2, <1>4, <1>5, CalmNew
  <2>7. NamesRight(p)' /\ DataRight(p)'
    <3>1. ~Has(U, {"erase", "deny", "newfd", "setlength", "put"})
      BY <1>4, <1>5 DEF Has
    <3>2. ~AtHead(U, {"readat"})
      BY DEF AtHead
    <3> QED
      BY <1>2, <3>1, <3>2, CalmNames
  <2> QED
    BY <2>3, <2>4, <2>5, <2>6, <2>7
<1>14. SameStore(p) => /\ HandleTypes' /\ SystemInodes(p)' /\ Counted(p)' /\ Unnamed' /\ LoadedRight(p)'
                       /\ InodesRight(p)' /\ OwnersRight(p)' /\ NewRight(p)' /\ NamesRight(p)'
                       /\ DataRight(p)'
  BY <1>7, <1>8, <1>9, <1>13
<1>15. /\ Has(U, {"unlock"}) <=> Has(T, {"unlock"})
       /\ \A f : HasOn(U, DataOps, f) /\ Has(U, {"unlock"}) => HasOn(T, DataOps, f)
       /\ RootOpen(T) => RootOpen(U) \/ AtHeadOn(U, "flush", RootData)
       /\ ~AtHead(U, {"off"}) /\ used' \subseteq Sector /\ used' = used
       /\ T[1].op \in {"open", "load", "close", "grow", "setlength", "newfd", "deny", "loaded"}
  BY <1>1, <1>4, <1>5 DEF AtHead, DiskRight
<1> QED
  BY <1>1, <1>14, <1>15, InodeStep

-----------------------------------------------------------------------------
LEMMA FdIsNotNone ==
  ASSUME NEW f \in FileSector
  PROVE  [sector |-> f, pos |-> 0] # None /\ [sector |-> f, pos |-> 0] \in [sector : FileSector, pos : Nat]
<1>1. [sector |-> f, pos |-> 0] \in [sector : FileSector, pos : Nat]
  OBVIOUS
<1>2. [sector |-> f, pos |-> 0] \in [sector : Sector, pos : Nat]
  BY Sectors
<1> QED
  BY <1>1, <1>2, NoneAssumption

\* A file that has been found is opened by the process.
LEMMA NewFdStep ==
  ASSUME NEW p \in Proc, Focus(p), NewFd(p), lost' = lost
  PROVE  Focus(p)'
<1> DEFINE T == todo[p]
<1>1. Is(p, "newfd")
  BY DEF NewFd
<1>2. /\ T # <<>> /\ T[1].op = "newfd" /\ mode = "up" /\ Fit(T) /\ ~Quiet(p)
      /\ Plans /\ HandleTypes /\ NamesRight(p) /\ Counted(p)
  BY <1>1, Begin
<1>3. UNCHANGED <<disk, cache, used, inode, exec, leaked, fsLock, miss, got, mode>>
  BY DEF NewFd
<1>4. Tail(T) = <<>>
  BY <1>2, LastTask
<1>5. HeadFacts(T[1], <<>>, T)
  BY <1>2, <1>4, HeadNow
<1>6. Moves(p, <<>>) /\ todo'[p] = <<>>
  <2>1. Then(p, <<>>)
    BY DEF NewFd
  <2>2. <<>> = <<>> \o Tail(todo[p])
    BY <1>4
  <2>3. Fit(<<>>)
    BY <1>2, <1>4, FitRest
  <2> QED
    BY <1>2, <2>1, <2>2, <2>3, ThenMoves
<1>7. reg' = [reg EXCEPT ![p] = <<>>] /\ reg \in [Proc -> Seq(FileSector)]
  BY <1>2 DEF NewFd, Forget, Plans
<1>8. reg' \in [Proc -> Seq(FileSector)] /\ reg'[p] = <<>>
  BY <1>7
<1>9. /\ \A ops : ~Has(<<>>, ops)
      /\ ~RegHeld(<<>>) /\ ~RootOpen(<<>>)
      /\ \A ops : ~AtHead(<<>>, ops)
      /\ \A ops, f : ~HasOn(<<>>, ops, f)
  BY NothingIn
<1>10. ~RootOpen(T) /\ RegHeld(T) /\ \A f : ~HasOn(T, {"close"}, f)
  <2>1. ~OpenRoot(T[1]) /\ ~CloseRoot(T[1]) /\ T[1].op \in Naming /\ T[1].op # "lookup"
    BY <1>2 DEF OpenRoot, CloseRoot, Naming
  <2>2. /\ \A ops, f : HasOn(T, ops, f) <=> ((T[1].op \in ops /\ T[1].sector = f) \/ HasOn(<<>>, ops, f))
        /\ RegHeld(T) <=> (T[1].op # "lookup" /\ (T[1].op \in Naming \/ RegHeld(<<>>)))
        /\ RootOpen(T) <=> (~OpenRoot(T[1]) /\ (CloseRoot(T[1]) \/ RootOpen(<<>>)))
    BY <1>5, Zenon DEF HeadFacts
  <2> QED
    BY <1>2, <1>9, <2>1, <2>2
<1>11. \A f : /\ ~Held(p, f)'
              /\ Held(p, f) <=> (reg[p] # <<>> /\ reg[p][1] = f)
  BY <1>2, <1>6, <1>9, <1>10 DEF Held, AtHeadOn, T
<1>12. fd[p] = None
  <2>1. Has(T, {"newfd"})
    BY <1>2, <1>5 DEF HeadFacts
  <2> QED
    BY <1>2, <2>1 DEF NamesRight, T
<1>13. fd \in [Proc -> {None} \cup [sector : FileSector, pos : Nat]] /\ exec \in [Proc -> {None} \cup FileSector]
       /\ inode \in [Sector -> Inodes]
  BY <1>2 DEF HandleTypes
<1>14. reg[p] \in Seq(FileSector)
  BY <1>7
<1>15. /\ fd' \in [Proc -> {None} \cup [sector : FileSector, pos : Nat]]
       /\ \A q \in Proc : fd[q] # None => fd'[q] # None /\ fd'[q].sector = fd[q].sector
       /\ \A f \in FileSector : Opened(f)' = IF reg[p] # <<>> /\ reg[p][1] = f THEN Opened(f) \cup {p} ELSE Opened(f)
  <2>1. CASE reg[p] = <<>>
    <3>1. fd' = fd
      BY <2>1 DEF NewFd
    <3>2. \A f \in FileSector : Opened(f)' = Opened(f)
      BY <3>1 DEF Opened
    <3> QED
      BY <1>13, <2>1, <3>1, <3>2
  <2>2. CASE reg[p] # <<>>
    <3> DEFINE e == reg[p][1]
    <3> DEFINE d == [sector |-> e, pos |-> 0]
    <3>1. e \in FileSector
      BY <1>14, <2>2
    <3>2. d # None /\ d \in [sector : FileSector, pos : Nat] /\ d.sector = e
      BY <3>1, FdIsNotNone
    <3>3. fd' = [fd EXCEPT ![p] = d]
      BY <2>2 DEF NewFd
    <3> HIDE DEF d, e
    <3>4. /\ fd' \in [Proc -> {None} \cup [sector : FileSector, pos : Nat]]
          /\ fd'[p] = d /\ \A q \in Proc \ {p} : fd'[q] = fd[q]
      BY <1>13, <3>2, <3>3
    <3>5. \A f \in FileSector : Opened(f)' = IF e = f THEN Opened(f) \cup {p} ELSE Opened(f)
      <4> TAKE f \in FileSector
      <4>1. Opened(f) = {q \in Proc : fd[q] # None /\ fd[q].sector = f}
            /\ Opened(f)' = {q \in Proc : fd'[q] # None /\ fd'[q].sector = f}
        BY DEF Opened
      <4> QED
        BY <1>12, <3>2, <3>4, <4>1
    <3> QED
      BY <1>12, <2>2, <3>4, <3>5 DEF e
  <2> QED
    BY <2>1, <2>2
<1>16. Counted(p)'
  <2> SUFFICES ASSUME NEW f \in FileSector
               PROVE  /\ inode'[f].cnt = leaked'[f] + Cardinality(Executing(f)') + Cardinality(Opened(f)')
                                         + (IF Held(p, f)' THEN 1 ELSE 0)
                      /\ inode'[f].deny = Cardinality(Executing(f)')
    BY DEF Counted
  <2> DEFINE E == Cardinality(Executing(f))
  <2> DEFINE O == Cardinality(Opened(f))
  <2>1. Executing(f)' = Executing(f)
    BY <1>3 DEF Executing
  <2>2. /\ inode[f].cnt = leaked[f] + E + O + (IF Held(p, f) THEN 1 ELSE 0)
        /\ inode[f].deny = E
    BY <1>2 DEF Counted
  <2>3. IsFiniteSet(Opened(f)) /\ E \in Nat /\ O \in Nat /\ leaked[f] \in Nat
    BY <1>2, Cards
  <2>4. p \notin Opened(f)
    BY <1>12 DEF Opened
  <2>5. CASE Held(p, f)
    <3>1. Opened(f)' = Opened(f) \cup {p}
      BY <1>11, <1>15, <2>5
    <3>2. Cardinality(Opened(f)') = O + 1
      BY <2>3, <2>4, <3>1, FS_AddElement
    <3>3. inode[f].cnt = leaked[f] + E + O + 1
      BY <2>2, <2>5
    <3>4. leaked[f] + E + O + 1 = leaked[f] + E + (O + 1) + 0
      <4> HIDE DEF E, O
      <4> QED
        BY <2>3
    <3> QED
      BY <1>3, <1>11, <2>1, <2>2, <3>2, <3>3, <3>4
  <2>6. CASE ~Held(p, f)
    <3>1. Opened(f)' = Opened(f)
      BY <1>11, <1>15, <2>6
    <3> QED
      BY <1>3, <1>11, <2>1, <2>2, <2>6, <3>1
  <2> QED
    BY <2>5, <2>6
<1> HIDE DEF T
<1> QED
  BY <1>2, <1>3, <1>6, <1>8, <1>9, <1>10, <1>13, <1>15, <1>16, HandleMove DEF T

-----------------------------------------------------------------------------
\* A new process denies writes to its executable.
LEMMA DenyPlan ==
  ASSUME NEW T, Fit(T), T # <<>>, T[1].op = "deny", NEW R, R = Tail(T)
  PROVE  /\ R # <<>> /\ OpenRoot(R[1]) /\ ~RegHeld(R) /\ RegHeld(T) /\ ~RootOpen(R) /\ ~RootOpen(T)
         /\ ~Has(R, HandleOps) /\ ~Has(R, {"newfd", "deny"}) /\ Has(T, {"deny"})
         /\ \A f \in FileSector : ~HasOn(T, {"close"}, f) /\ ~HasOn(R, {"close"}, f)
<1>1. /\ R # <<>> => MayFollow(T[1], R[1])
      /\ R = <<>> => MayEnd(T[1])
      /\ Fit(R) /\ R \in Seq(Tasks)
  BY FitRest DEF Fit
<1>2. R # <<>> /\ OpenRoot(R[1])
  BY <1>1 DEF MayEnd, MayFollow
<1>3. /\ ~Has(T, HandleOps) /\ ~Has(R, {"newfd", "deny"})
      /\ \A f \in FileSector : ~HasOn(T, {"close"}, f)
  BY HandlePlan
<1>4. HeadFacts(T[1], R, T) /\ HeadFacts(R[1], Tail(R), R)
  BY <1>1, <1>2, HeadNow
<1>5. /\ ~Has(R, HandleOps) /\ Has(T, {"deny"}) /\ RegHeld(T)
      /\ \A f \in FileSector : ~HasOn(R, {"close"}, f)
      /\ ~RootOpen(R)
  BY <1>2, <1>3, <1>4 DEF HeadFacts, Naming, OpenRoot
<1>6. ~RootOpen(T)
  BY <1>4, <1>5 DEF HeadFacts, CloseRoot
<1> DEFINE Q == Tail(R)
<1>7. /\ Q # <<>> => MayFollow(R[1], Q[1])
      /\ Q = <<>> => MayEnd(R[1])
      /\ Fit(Q)
  BY <1>1, <1>2, FitRest
<1> HIDE DEF Q
<1>8. Q # <<>> /\ Q[1].op \in {"create", "find", "lookup"}
  BY <1>2, <1>7 DEF MayEnd, MayFollow, OpenRoot
<1>9. ~RegHeld(Q)
  <2>1. CASE Q[1].op = "lookup"
    BY <1>7, <1>8, <2>1, HeadNow DEF HeadFacts
  <2>2. CASE Q[1].op = "create"
    <3>1. Has(Q, {"create"})
      BY <1>7, <1>8, <2>2, HeadNow DEF HeadFacts
    <3>2. Has(R, {"create"})
      BY <1>4, <3>1 DEF HeadFacts, Q
    <3>3. {"create"} \subseteq HandleOps
      BY DEF HandleOps
    <3> QED
      BY <1>5, <3>2, <3>3 DEF Has
  <2>3. CASE Q[1].op = "find"
    <3>1. Fit(Tail(Q)) /\ CreateRest(Tail(Q))
      BY <1>7, <1>8, <2>3, FindRest
    <3>2. ~RegHeld(Tail(Q))
      BY <3>1, CloseOnly
    <3> QED
      BY <1>7, <1>8, <2>3, <3>2, HeadNow DEF HeadFacts, Naming
  <2> QED
    BY <1>8, <2>1, <2>2, <2>3
<1>10. ~RegHeld(R)
  BY <1>2, <1>4, <1>9 DEF HeadFacts, Naming, OpenRoot, Q
<1> QED
  BY <1>2, <1>3, <1>5, <1>6, <1>10

LEMMA DenyWriteStep ==
  ASSUME NEW p \in Proc, Focus(p), DenyWrite(p), lost' = lost
  PROVE  Focus(p)'
<1> DEFINE T == todo[p]
<1> DEFINE R == Tail(T)
<1>1. Is(p, "deny")
  BY DEF DenyWrite
<1>2. /\ T # <<>> /\ T[1].op = "deny" /\ mode = "up" /\ Fit(T) /\ ~Quiet(p) /\ Fit(R)
      /\ Plans /\ HandleTypes /\ NamesRight(p) /\ Counted(p)
  BY <1>1, Begin
<1>3. UNCHANGED <<disk, cache, used, fd, leaked, fsLock, reg, miss, got, mode>>
  BY DEF DenyWrite
<1>4. /\ R # <<>> /\ OpenRoot(R[1]) /\ ~RegHeld(R) /\ RegHeld(T) /\ ~RootOpen(R) /\ ~RootOpen(T)
      /\ ~Has(R, HandleOps) /\ ~Has(R, {"newfd", "deny"}) /\ Has(T, {"deny"})
      /\ \A f \in FileSector : ~HasOn(T, {"close"}, f) /\ ~HasOn(R, {"close"}, f)
  BY <1>2, DenyPlan
<1>5. Moves(p, R) /\ todo'[p] = R
  <2>1. Then(p, <<>>)
    BY DEF DenyWrite
  <2>2. R = <<>> \o Tail(todo[p])
    BY <1>2 DEF Fit
  <2>3. R[1].op # "lock"
    BY <1>4 DEF OpenRoot
  <2> HIDE DEF R
  <2> QED
    BY <1>2, <2>1, <2>2, <2>3, ThenMoves
<1>6. exec[p] = None
  BY <1>2, <1>4 DEF NamesRight
<1>7. /\ fd \in [Proc -> {None} \cup [sector : FileSector, pos : Nat]]
      /\ exec \in [Proc -> {None} \cup FileSector] /\ inode \in [Sector -> Inodes]
      /\ reg \in [Proc -> Seq(FileSector)]
  BY <1>2 DEF HandleTypes, Plans
<1>8. /\ R[1].op = "open" /\ R[1].sector = ROOT_DIR_SECTOR
      /\ ~AtHead(R, {"readat", "load", "off"})
  BY <1>4 DEF OpenRoot, AtHead
<1>9. \A f \in FileSector : /\ ~Held(p, f)'
                            /\ Held(p, f) <=> (reg[p] # <<>> /\ reg[p][1] = f)
  BY <1>2, <1>4, <1>5 DEF Held, AtHeadOn
<1>10. /\ inode' \in [Sector -> Inodes] /\ exec' \in [Proc -> {None} \cup FileSector]
       /\ \A t \in Sector : /\ inode'[t].cnt = inode[t].cnt /\ inode'[t].removed = inode[t].removed
                            /\ inode'[t].loaded = inode[t].loaded /\ inode'[t].data = inode[t].data
                            /\ t \notin FileSector => inode'[t] = inode[t]
                            /\ inode[t].cnt = 0 => inode'[t] = inode[t]
       /\ \A f \in FileSector : IF reg[p] # <<>> /\ reg[p][1] = f
            THEN Executing(f)' = Executing(f) \cup {p} /\ inode'[f].deny = inode[f].deny + 1
            ELSE Executing(f)' = Executing(f) /\ inode'[f].deny = inode[f].deny
  <2>1. CASE reg[p] = <<>>
    <3>1. inode' = inode /\ exec' = exec
      BY <2>1 DEF DenyWrite
    <3>2. \A f \in FileSector : Executing(f)' = Executing(f)
      BY <3>1 DEF Executing
    <3> QED
      BY <1>7, <2>1, <3>1, <3>2
  <2>2. CASE reg[p] # <<>>
    <3> DEFINE e == reg[p][1]
    <3> DEFINE n == [inode[e] EXCEPT !.deny = inode[e].deny + 1]
    <3>1. e \in FileSector /\ e \in Sector
      BY <1>7, <2>2, Sectors
    <3>2. inode' = [inode EXCEPT ![e] = n] /\ exec' = [exec EXCEPT ![p] = e]
      BY <1>7, <2>2, <3>1 DEF DenyWrite
    <3>3. inode[e].cnt > 0
      <4>1. Held(p, e)
        BY <1>9, <2>2, <3>1
      <4>2. inode[e].cnt = leaked[e] + Cardinality(Executing(e)) + Cardinality(Opened(e)) + 1
        BY <1>2, <3>1, <4>1 DEF Counted
      <4>3. leaked[e] \in Nat /\ Cardinality(Executing(e)) \in Nat /\ Cardinality(Opened(e)) \in Nat
        BY <1>2, <3>1, Cards
      <4> QED
        BY <4>2, <4>3
    <3> HIDE DEF e
    <3>4. /\ n \in Inodes /\ n.cnt = inode[e].cnt /\ n.removed = inode[e].removed
          /\ n.loaded = inode[e].loaded /\ n.data = inode[e].data /\ n.deny = inode[e].deny + 1
      <4>1. inode[e] \in Inodes
        BY <1>7, <3>1
      <4> QED
        BY <4>1 DEF Inodes
    <3> HIDE DEF n
    <3>5. /\ inode' \in [Sector -> Inodes] /\ inode'[e] = n /\ \A t \in Sector : t # e => inode'[t] = inode[t]
      BY <1>7, <3>1, <3>2, <3>4
    <3>6. /\ exec' \in [Proc -> {None} \cup FileSector] /\ exec'[p] = e
          /\ \A q \in Proc \ {p} : exec'[q] = exec[q]
      BY <1>7, <3>1, <3>2
    <3>7. None \notin FileSector
      BY Sectors
    <3>8. \A f \in FileSector : Executing(f)' = IF e = f THEN Executing(f) \cup {p} ELSE Executing(f)
      <4> TAKE f \in FileSector
      <4>1. Executing(f) = {q \in Proc : exec[q] = f} /\ Executing(f)' = {q \in Proc : exec'[q] = f}
        BY DEF Executing
      <4> QED
        BY <1>6, <3>6, <3>7, <4>1
    <3>9. inode[e].cnt # 0
      BY <1>7, <3>1, <3>3 DEF Inodes
    <3>10. \A t \in Sector : /\ inode'[t].cnt = inode[t].cnt /\ inode'[t].removed = inode[t].removed
                             /\ inode'[t].loaded = inode[t].loaded /\ inode'[t].data = inode[t].data
                             /\ t \notin FileSector => inode'[t] = inode[t]
                             /\ inode[t].cnt = 0 => inode'[t] = inode[t]
      BY <3>1, <3>4, <3>5, <3>9
    <3>11. \A f \in FileSector : inode'[f].deny = IF e = f THEN inode[f].deny + 1 ELSE inode[f].deny
      BY <3>4, <3>5, Sectors
    <3> QED
      BY <2>2, <3>5, <3>6, <3>8, <3>10, <3>11 DEF e
  <2> QED
    BY <2>1, <2>2
<1>11. Counted(p)'
  <2> SUFFICES ASSUME NEW f \in FileSector
               PROVE  /\ inode'[f].cnt = leaked'[f] + Cardinality(Executing(f)') + Cardinality(Opened(f)')
                                         + (IF Held(p, f)' THEN 1 ELSE 0)
                      /\ inode'[f].deny = Cardinality(Executing(f)')
    BY DEF Counted
  <2> DEFINE E == Cardinality(Executing(f))
  <2> DEFINE O == Cardinality(Opened(f))
  <2>1. Opened(f)' = Opened(f) /\ leaked' = leaked
    BY <1>3 DEF Opened
  <2>2. /\ inode[f].cnt = leaked[f] + E + O + (IF Held(p, f) THEN 1 ELSE 0)
        /\ inode[f].deny = E
    BY <1>2 DEF Counted
  <2>3. IsFiniteSet(Executing(f)) /\ E \in Nat /\ O \in Nat /\ leaked[f] \in Nat
    BY <1>2, Cards
  <2>4. p \notin Executing(f)
    BY <1>6, Sectors DEF Executing
  <2>5. inode'[f].cnt = inode[f].cnt /\ ~Held(p, f)'
    BY <1>9, <1>10, Sectors
  <2>6. CASE Held(p, f)
    <3>1. Executing(f)' = Executing(f) \cup {p} /\ inode'[f].deny = inode[f].deny + 1
      BY <1>9, <1>10, <2>6
    <3>2. Cardinality(Executing(f)') = E + 1
      BY <2>3, <2>4, <3>1, FS_AddElement
    <3>3. inode[f].cnt = leaked[f] + E + O + 1
      BY <2>2, <2>6
    <3>4. leaked[f] + E + O + 1 = leaked[f] + (E + 1) + O + 0
      <4> HIDE DEF E, O
      <4> QED
        BY <2>3
    <3> QED
      BY <2>1, <2>2, <2>5, <3>1, <3>2, <3>3, <3>4
  <2>7. CASE ~Held(p, f)
    <3>1. Executing(f)' = Executing(f) /\ inode'[f].deny = inode[f].deny
      BY <1>9, <1>10, <2>7
    <3> QED
      BY <2>1, <2>2, <2>5, <2>7, <3>1
  <2> QED
    BY <2>6, <2>7
<1>12. \A q \in Proc : fd[q] # None => fd'[q] # None /\ fd'[q].sector = fd[q].sector
  BY <1>3
<1> HIDE DEF R, T
<1> QED
  BY <1>2, <1>3, <1>4, <1>5, <1>7, <1>8, <1>10, <1>11, <1>12, HandleMove DEF T

-----------------------------------------------------------------------------
\* A process gives up its executable: the inode denies one writer less.
AllowFacts(p, e) ==
  /\ e \in FileSector /\ inode' \in [Sector -> Inodes] /\ inode[e].cnt > 0
  /\ \A t \in Sector : /\ inode'[t].cnt = inode[t].cnt /\ inode'[t].removed = inode[t].removed
                       /\ inode'[t].loaded = inode[t].loaded /\ inode'[t].data = inode[t].data
                       /\ t \notin FileSector => inode'[t] = inode[t]
                       /\ inode[t].cnt = 0 => inode'[t] = inode[t]
  /\ exec' \in [Proc -> {None} \cup FileSector] /\ exec'[p] = None
  /\ \A q \in Proc \ {p} : exec'[q] = exec[q]
  /\ \A f \in FileSector : /\ f # e => Executing(f)' = Executing(f) /\ inode'[f].deny = inode[f].deny
                           /\ inode'[f].deny = Cardinality(Executing(f)')
                           /\ Cardinality(Executing(f)') \in Nat
  /\ Cardinality(Executing(e)) = Cardinality(Executing(e)') + 1

LEMMA Allow ==
  ASSUME NEW p \in Proc, NEW q \in Proc, HandleTypes, Counted(q), NEW e, e = exec[p], e # None,
         AllowWrite(p)
  PROVE  AllowFacts(p, e)
<1>1. /\ exec \in [Proc -> {None} \cup FileSector] /\ inode \in [Sector -> Inodes]
      /\ \A s \in Sector : inode[s].cnt = 0 => inode[s] = Closed
  BY DEF HandleTypes
<1>2. e \in FileSector /\ e \in Sector
  BY <1>1, Sectors
<1>3. inode[e] \in Inodes
  BY <1>1, <1>2
<1> DEFINE c == Cardinality(Executing(e))
<1>4. /\ IsFiniteSet(Executing(e)) /\ c \in Nat
      /\ \A f \in FileSector : Cardinality(Executing(f)) \in Nat /\ Cardinality(Opened(f)) \in Nat /\ leaked[f] \in Nat
  BY <1>2, Cards
<1>5. p \in Executing(e)
  BY DEF Executing
<1>6. c # 0
  BY <1>4, <1>5, FS_EmptySet
<1>7. /\ inode[e].deny = c
      /\ inode[e].cnt = leaked[e] + c + Cardinality(Opened(e)) + (IF Held(q, e) THEN 1 ELSE 0)
      /\ \A f \in FileSector : inode[f].deny = Cardinality(Executing(f))
  BY <1>2 DEF Counted
<1>8. inode[e].cnt > 0 /\ inode[e].cnt # 0
  <2>1. inode[e].cnt \in Nat /\ leaked[e] \in Nat /\ Cardinality(Opened(e)) \in Nat
    BY <1>2, <1>3, <1>4 DEF Inodes
  <2> HIDE DEF c
  <2> QED
    BY <1>4, <1>6, <1>7, <2>1
<1> DEFINE n == [inode[e] EXCEPT !.deny = inode[e].deny - 1]
<1>9. inode' = [inode EXCEPT ![e] = n] /\ exec' = [exec EXCEPT ![p] = None]
  BY DEF AllowWrite
<1>10. c - 1 \in Nat /\ inode[e].deny - 1 = c - 1
  <2> HIDE DEF c
  <2> QED
    BY <1>4, <1>6, <1>7
<1>11. /\ n \in Inodes /\ n.cnt = inode[e].cnt /\ n.removed = inode[e].removed
       /\ n.loaded = inode[e].loaded /\ n.data = inode[e].data /\ n.deny = c - 1
  <2> HIDE DEF c
  <2> QED
    BY <1>3, <1>10 DEF Inodes
<1> HIDE DEF n
<1>12. inode' \in [Sector -> Inodes] /\ inode'[e] = n /\ \A t \in Sector : t # e => inode'[t] = inode[t]
  BY <1>1, <1>2, <1>9, <1>11
<1>13. /\ exec' \in [Proc -> {None} \cup FileSector] /\ exec'[p] = None
       /\ \A r \in Proc \ {p} : exec'[r] = exec[r]
  BY <1>1, <1>9
<1>14. \A t \in Sector : /\ inode'[t].cnt = inode[t].cnt /\ inode'[t].removed = inode[t].removed
                         /\ inode'[t].loaded = inode[t].loaded /\ inode'[t].data = inode[t].data
                         /\ t \notin FileSector => inode'[t] = inode[t]
                         /\ inode[t].cnt = 0 => inode'[t] = inode[t]
  BY <1>2, <1>8, <1>11, <1>12
<1>15. \A f \in FileSector : Executing(f)' = Executing(f) \ (IF f = e THEN {p} ELSE {})
  <2> TAKE f \in FileSector
  <2>1. Executing(f) = {r \in Proc : exec[r] = f} /\ Executing(f)' = {r \in Proc : exec'[r] = f}
    BY DEF Executing
  <2>2. None \notin FileSector
    BY Sectors
  <2> QED
    BY <1>13, <2>1, <2>2
<1>16. Executing(e)' = Executing(e) \ {p}
  BY <1>2, <1>15
<1>17. Cardinality(Executing(e)') = c - 1
  BY <1>4, <1>5, <1>16, FS_RemoveElement, ZenonT(60)
<1>18. \A f \in FileSector : /\ f # e => Executing(f)' = Executing(f) /\ inode'[f].deny = inode[f].deny
                             /\ inode'[f].deny = Cardinality(Executing(f)')
                             /\ Cardinality(Executing(f)') \in Nat
  <2> TAKE f \in FileSector
  <2>1. CASE f = e
    BY <1>10, <1>11, <1>12, <1>17, <2>1
  <2>2. CASE f # e
    <3>1. Executing(f)' = Executing(f) \ {}
      BY <1>15, <2>2
    <3>2. Executing(f)' = Executing(f) /\ f \in Sector
      BY <3>1, Sectors
    <3>3. inode'[f].deny = inode[f].deny
      BY <1>12, <2>2, <3>2
    <3> QED
      BY <1>4, <1>7, <2>2, <3>2, <3>3
  <2> QED
    BY <2>1, <2>2
<1>19. c = Cardinality(Executing(e)') + 1
  <2> HIDE DEF c
  <2> QED
    BY <1>4, <1>17
<1> QED
  BY <1>2, <1>8, <1>12, <1>13, <1>14, <1>18, <1>19 DEF AllowFacts

CloseShape(e, U) == U = <<Task("close", e, 0)>>

LEMMA ClosePlan ==
  ASSUME NEW e \in FileSector, NEW U, CloseShape(e, U)
  PROVE  /\ Fit(U) /\ U # <<>> /\ U \in Seq(Tasks) /\ U[1].op = "close" /\ U[1].sector = e
         /\ \A ops : Has(U, ops) <=> "close" \in ops
         /\ \A ops, f : HasOn(U, ops, f) <=> ("close" \in ops /\ f = e)
         /\ ~RegHeld(U) /\ ~RootOpen(U)
<1> DEFINE b == Task("close", e, 0)
<1>1. b \in Tasks /\ b.op = "close" /\ b.sector = e
  BY Sectors DEF Tasks, Task, Op, Arguments
<1>2. Fit(<<>>) /\ <<>> \in Seq(Tasks)
  BY DEF Fit, Chained, Ordered, Paired
<1>3. U = <<b>> \o <<>>
  BY DEF CloseShape
<1>4. Meant(b) /\ MayEnd(b)
  <2> HIDE DEF b
  <2> QED
    BY <1>1, Sectors DEF Meant, MayEnd
<1> HIDE DEF b
<1>5. /\ (<<>> # <<>> => MayFollow(b, <<>>[1])) /\ (<<>> = <<>> => MayEnd(b))
      /\ \A j \in 1 .. Len(<<>>) : MayPrecede(b, <<>>[j])
  BY <1>4
<1>6. Fit(<<b>> \o <<>>)
  BY <1>1, <1>2, <1>4, <1>5, FitCons
<1>7. Fit(U)
  BY <1>3, <1>6
<1>8. /\ U \in Seq(Tasks) /\ U # <<>> /\ U[1] = b
      /\ \A ops : Has(U, ops) <=> (b.op \in ops \/ Has(<<>>, ops))
      /\ \A ops, f : HasOn(U, ops, f) <=> ((b.op \in ops /\ b.sector = f) \/ HasOn(<<>>, ops, f))
      /\ RegHeld(U) <=> (b.op # "lookup" /\ (b.op \in Naming \/ RegHeld(<<>>)))
      /\ RootOpen(U) <=> (~OpenRoot(b) /\ (CloseRoot(b) \/ RootOpen(<<>>)))
  BY <1>1, <1>2, <1>3, NewHead, ZenonT(60)
<1>9. ~(b.op \in Naming) /\ ~CloseRoot(b)
  BY <1>1, Sectors DEF Naming, CloseRoot
<1> QED
  BY <1>1, <1>7, <1>8, <1>9, NothingIn

\* The load ends, and with it the file that could not be loaded.
LEMMA LoadedStep ==
  ASSUME NEW p \in Proc, Focus(p), Loaded(p), lost' = lost
  PROVE  Focus(p)'
<1> DEFINE T == todo[p]
<1>1. Is(p, "loaded")
  BY DEF Loaded
<1>2. /\ T # <<>> /\ T[1].op = "loaded" /\ mode = "up" /\ Fit(T) /\ ~Quiet(p)
      /\ Plans /\ HandleTypes /\ Counted(p)
  BY <1>1, Begin
<1>3. UNCHANGED <<disk, cache, used, fd, leaked, fsLock, miss, got, mode>>
  BY DEF Loaded
<1>4. Tail(T) = <<>>
  BY <1>2, LastTask
<1>5. HeadFacts(T[1], <<>>, T)
  BY <1>2, <1>4, HeadNow
<1>6. reg' = [reg EXCEPT ![p] = <<>>] /\ reg \in [Proc -> Seq(FileSector)]
  BY <1>2 DEF Loaded, Forget, Plans
<1>7. reg' \in [Proc -> Seq(FileSector)] /\ reg'[p] = <<>>
  BY <1>6
<1>8. /\ \A ops : ~Has(<<>>, ops)
      /\ ~RegHeld(<<>>) /\ ~RootOpen(<<>>)
      /\ \A ops : ~AtHead(<<>>, ops)
      /\ \A ops, f : ~HasOn(<<>>, ops, f)
  BY NothingIn
<1>9. ~RootOpen(T) /\ ~RegHeld(T) /\ \A f : ~HasOn(T, {"close"}, f)
  <2>1. ~CloseRoot(T[1]) /\ T[1].op \notin Naming
    BY <1>2 DEF CloseRoot, Naming
  <2>2. /\ \A ops, f : HasOn(T, ops, f) <=> ((T[1].op \in ops /\ T[1].sector = f) \/ HasOn(<<>>, ops, f))
        /\ RegHeld(T) <=> (T[1].op # "lookup" /\ (T[1].op \in Naming \/ RegHeld(<<>>)))
        /\ RootOpen(T) <=> (~OpenRoot(T[1]) /\ (CloseRoot(T[1]) \/ RootOpen(<<>>)))
    BY <1>5, Zenon DEF HeadFacts
  <2> QED
    BY <1>2, <1>8, <2>1, <2>2
<1>10. \A f : ~Held(p, f)
  BY <1>9 DEF Held, T
<1>11. fd \in [Proc -> {None} \cup [sector : FileSector, pos : Nat]]
       /\ exec \in [Proc -> {None} \cup FileSector] /\ inode \in [Sector -> Inodes]
  BY <1>2 DEF HandleTypes
<1>12. CASE inode' = inode /\ exec' = exec /\ Then(p, <<>>)
  <2>1. Fit(<<>>)
    BY <1>2, <1>4, FitRest
  <2>2. <<>> = <<>> \o Tail(todo[p])
    BY <1>4
  <2>3. Moves(p, <<>>) /\ todo'[p] = <<>>
    BY <1>2, <1>12, <2>1, <2>2, ThenMoves
  <2>4. \A f \in FileSector : Held(p, f)' <=> Held(p, f)
    BY <1>8, <1>10, <2>3 DEF Held
  <2>5. SameFds
    BY <1>2, <1>3, SameFdsNow
  <2>6. Counted(p)'
    BY <1>2, <1>3, <1>12, <2>4, <2>5, KeepCounts
  <2> HIDE DEF T
  <2> QED
    BY <1>2, <1>3, <1>7, <1>8, <1>9, <1>11, <1>12, <2>3, <2>6, HandleMove DEF T
<1>13. CASE exec[p] # None /\ Then(p, <<Task("close", exec[p], 0)>>) /\ AllowWrite(p)
  <2>2. PICK e \in FileSector : e = exec[p]
    BY <1>11, <1>13
  <2>1. AllowFacts(p, e)
    <3>1. e # None
      BY <1>13, <2>2
    <3> QED
      BY <1>2, <1>13, <2>2, <3>1, Allow
  <2> DEFINE U == <<Task("close", e, 0)>>
  <2>3. /\ Fit(U) /\ U # <<>> /\ U \in Seq(Tasks) /\ U[1].op = "close" /\ U[1].sector = e
        /\ \A ops : Has(U, ops) <=> "close" \in ops
        /\ \A ops, f : HasOn(U, ops, f) <=> ("close" \in ops /\ f = e)
        /\ ~RegHeld(U) /\ ~RootOpen(U)
    BY <2>2, ClosePlan DEF CloseShape
  <2>4. Moves(p, U) /\ todo'[p] = U
    <3>1. Then(p, U)
      BY <1>13, <2>2
    <3> HIDE DEF U
    <3>2. U = U \o <<>>
      BY <2>3
    <3>3. U = U \o Tail(todo[p])
      BY <1>4, <3>2 DEF T
    <3> QED
      BY <1>2, <2>3, <3>1, <3>3, ThenMoves
  <2> HIDE DEF U
  <2>5. \A f \in FileSector : Held(p, f)' <=> f = e
    BY <2>3, <2>4 DEF Held, AtHeadOn
  <2>6. \A f \in FileSector : Opened(f)' = Opened(f)
    BY <1>3 DEF Opened
  <2>7. Counted(p)'
    <3> SUFFICES ASSUME NEW f \in FileSector
                 PROVE  /\ inode'[f].cnt = leaked'[f] + Cardinality(Executing(f)') + Cardinality(Opened(f)')
                                           + (IF Held(p, f)' THEN 1 ELSE 0)
                        /\ inode'[f].deny = Cardinality(Executing(f)')
      BY DEF Counted
    <3> DEFINE E == Cardinality(Executing(f))
    <3> DEFINE F == Cardinality(Executing(f)')
    <3> DEFINE O == Cardinality(Opened(f))
    <3>1. inode[f].cnt = leaked[f] + E + O + 0
      BY <1>2, <1>10 DEF Counted
    <3>2. E \in Nat /\ O \in Nat /\ leaked[f] \in Nat
      BY <1>2, Cards
    <3>3. /\ inode'[f].cnt = inode[f].cnt /\ inode'[f].deny = F /\ F \in Nat
          /\ f = e => E = F + 1
          /\ f # e => F = E
      <4>1. f \in Sector
        BY Sectors
      <4> QED
        BY <2>1, <4>1 DEF AllowFacts
    <3>4. inode[f].cnt = leaked[f] + F + O + (IF f = e THEN 1 ELSE 0)
      <4> HIDE DEF E, F, O
      <4> QED
        BY <3>1, <3>2, <3>3
    <3> HIDE DEF E, F
    <3>5. leaked'[f] = leaked[f] /\ Cardinality(Opened(f)') = O
      BY <1>3, <2>6
    <3> QED
      BY <2>5, <3>3, <3>4, <3>5 DEF F
  <2>8. /\ ~Has(U, HandleOps) /\ ~Has(U, {"newfd", "deny"})
        /\ RootOpen(U) <=> RootOpen(todo[p])
        /\ ~AtHead(U, {"readat", "load", "off"}) /\ ~AtHead(U, {"open"})
    BY <1>9, <2>3 DEF HandleOps, Making, AtHead
  <2>9. /\ inode' \in [Sector -> Inodes] /\ exec' \in [Proc -> {None} \cup FileSector]
        /\ \A t \in Sector : /\ inode'[t].cnt = inode[t].cnt /\ inode'[t].removed = inode[t].removed
                             /\ inode'[t].loaded = inode[t].loaded /\ inode'[t].data = inode[t].data
                             /\ t \notin FileSector => inode'[t] = inode[t]
                             /\ inode[t].cnt = 0 => inode'[t] = inode[t]
    BY <2>1 DEF AllowFacts
  <2>10. todo[p] # <<>> /\ todo[p][1].op \in {"newfd", "deny", "loaded"}
    BY <1>2
  <2>11. /\ fd' \in [Proc -> {None} \cup [sector : FileSector, pos : Nat]]
         /\ \A q \in Proc : fd[q] # None => fd'[q] # None /\ fd'[q].sector = fd[q].sector
    BY <1>3, <1>11
  <2> HIDE DEF T
  <2> QED
    BY <1>2, <1>3, <1>7, <2>4, <2>7, <2>8, <2>9, <2>10, <2>11, HandleMove
<1> QED
  BY <1>12, <1>13 DEF Loaded

-----------------------------------------------------------------------------
\* The inode of a file that has grown goes to the disk: what reads it there
\* finds what is in memory again.
WriteInodeFacts(p, f, T, R) ==
  /\ f \in FileSector /\ f \in File /\ inode[f].cnt > 0 /\ inode[f].loaded
  /\ ~HasOn(T, {"setlength"}, f) /\ inode[f].data \in Contents
  /\ FileRight(p, f) /\ InodeOf(f) = inode[f].data

LEMMA WriteInodeRest ==
  ASSUME NEW p \in Proc, Plans, HandleTypes, Counted(p), LoadedRight(p), InodesRight(p),
         NEW T, T = todo[p], T # <<>>, T[1].op = "writeinode", NEW R, R = Tail(T),
         NEW f, f = T[1].sector
  PROVE  WriteInodeFacts(p, f, T, R)
<1>1. Fit(T)
  BY DEF Plans
<1>2. f \in FileSector /\ inode[f].cnt > 0 /\ inode[f].loaded
  <2>1. todo[p][1].op \in DataOps
    BY DEF DataOps
  <2> QED
    BY <2>1, FileOpen
<1>3. f \in File
  BY <1>2 DEF File
<1>4. FileRight(p, f) /\ InodeOf(f) = inode[f].data
  BY <1>2, <1>3 DEF InodesRight, InodeOf
<1>5. ~HasOn(T, {"setlength"}, f)
  <2>1. HeadFacts(T[1], R, T)
    BY <1>1, HeadNow
  <2>2. ~Has(R, {"setlength"}) /\ \A g : ~HasOn(R, {"setlength"}, g)
    <3>1. \A d \in Tasks : d.op \in {"setlength"} => ~MayPrecede(T[1], d)
      BY DEF MayPrecede
    <3> QED
      BY <1>1, <3>1, NotLater
  <2> QED
    BY <2>1, <2>2 DEF HeadFacts
<1>6. inode[f].data \in Contents
  <2> DEFINE d == inode[f].data
  <2>1. /\ d \in [direct : Seq(FileSector), length : Nat] /\ Len(d.direct) <= MaxLen
        /\ d.length = Len(d.direct)
    BY <1>4, <1>5, Zenon DEF FileRight, Growing
  <2> HIDE DEF d
  <2> DEFINE q == d.direct
  <2>2. q \in Seq(FileSector) /\ Len(q) \in Nat /\ Len(q) <= MaxLen /\ MaxLen \in Nat
        /\ d = OnDisk(q, Len(q))
    BY <2>1, FilesAssumption DEF OnDisk
  <2> HIDE DEF q
  <2>3. q \in BoundedSeq(FileSector \cup {MapData, RootData}, MaxLen)
    BY <2>2, BoundedOf
  <2>4. Len(q) \in 0 .. MaxLen
    BY <2>2
  <2>5. d \in Contents
    BY <2>2, <2>3, <2>4 DEF Contents
  <2> QED
    BY <2>5, SMTT(30) DEF d
<1> QED
  BY <1>2, <1>3, <1>4, <1>5, <1>6 DEF WriteInodeFacts

LEMMA WriteInodeStep ==
  ASSUME NEW p \in Proc, Focus(p), WriteInode(p), lost' = lost
  PROVE  Focus(p)'
<1> DEFINE T == todo[p]
<1> DEFINE R == Tail(T)
<1> DEFINE a == T[1]
<1>1. Is(p, "writeinode")
  BY DEF WriteInode
<1>2. /\ T # <<>> /\ a.op = "writeinode" /\ mode = "up" /\ Fit(T) /\ ~Quiet(p) /\ Fit(R)
      /\ Plans /\ Turn(p) /\ CacheRight(p) /\ DiskRight /\ HandleTypes
      /\ SystemData(p) /\ OwnersRight(p) /\ NewRight(p) /\ NamesRight(p) /\ DataRight(p)
      /\ SystemInodes(p) /\ Counted(p) /\ LoadedRight(p) /\ InodesRight(p) /\ Unnamed
      /\ S(p) = a.sector /\ OffRight(p) /\ Meant(a)
  BY <1>1, Begin
<1>3. /\ Then(p, <<>>)
      /\ UNCHANGED <<cache, used, inode, fd, exec, leaked, fsLock, reg, miss, got, mode>>
  BY DEF WriteInode
<1>4. PICK f \in FileSector : f = a.sector
  BY <1>2 DEF Meant
<1>5. WriteInodeFacts(p, f, T, R)
  <2> HIDE DEF T, R, a
  <2> QED
    BY <1>2, <1>4, WriteInodeRest DEF T, R, a
<1> DEFINE d == inode[f].data
<1>6. disk' = [disk EXCEPT ![f] = d]
  BY <1>2, <1>4 DEF WriteInode
<1>7. f \in Sector \ {FREE_MAP_SECTOR, ROOT_DIR_SECTOR} /\ d \in Contents
  BY <1>4, <1>5, Sectors DEF WriteInodeFacts
<1> HIDE DEF d
<1>8. DiskRight' /\ disk'[f] = d /\ \A t \in Sector : t # f => disk'[t] = disk[t]
  BY <1>2, <1>3, <1>6, <1>7, KeepDisk
<1>9. HeadFacts(a, R, T)
  BY <1>2, HeadNow
<1>10. /\ \A ops : Has(T, ops) <=> (a.op \in ops \/ Has(R, ops))
       /\ \A ops, g : HasOn(T, ops, g) <=> ((a.op \in ops /\ a.sector = g) \/ HasOn(R, ops, g))
       /\ RegHeld(T) <=> RegHeld(R)
       /\ RootOpen(T) <=> RootOpen(R)
  BY <1>2, <1>9 DEF HeadFacts, Naming, OpenRoot, CloseRoot
<1>11. /\ ~AtHead(R, {"load", "off", "lock"}) /\ \A g \in FileSector : ~AtHeadOn(R, "open", g)
  <2>1. /\ ~AtHead(R, {"lock", "load", "mapwrite", "readat", "dirwrite"})
        /\ AtHead(R, {"off"}) => (a.op = "close" /\ a.sector = FREE_MAP_SECTOR)
                                        \/ (a.op = "flush" /\ a.sector = MapData)
        /\ \A g \in FileSector : ~AtHeadOn(R, "open", g)
    BY <1>2, AfterHead
  <2> QED
    BY <1>2, <2>1 DEF AtHead
<1>12. Moves(p, R) /\ todo'[p] = R
  <2>1. R = <<>> \o Tail(todo[p])
    BY <1>2 DEF Fit
  <2>2. R # <<>> => R[1].op # "lock"
    BY <1>11 DEF AtHead
  <2> HIDE DEF R
  <2> QED
    BY <1>2, <1>3, <2>1, <2>2, ThenMoves
<1>13. /\ miss' \in [Proc -> Misses] /\ \A q \in Proc \ {p} : miss'[q] = miss[q]
       /\ CacheRight(p)'
       /\ \A s : Caught(p, s)' <=> Caught(p, s)
       /\ \A s : disk'[s] = disk[s] \/ InCache(s) => Logical(s)' = Logical(s)
  <2>1. Wants(p) = None
    <3>1. todo[p][1].op \notin {"mapwrite", "lookup", "find", "unique", "dirwrite", "erase", "readat", "put"}
      BY <1>2
    <3> QED
      BY <1>2, <3>1, WantsOf
  <2> QED
    BY <1>2, <1>3, <2>1, NoAccess, SMTT(30)
<1>14. /\ \A s \in {MapData, RootData} : Logical(s)' = Logical(s) /\ disk'[s] = disk[s]
       /\ Logical(RootData)' = Logical(RootData)
  BY <1>4, <1>8, <1>13, Sectors
<1>15. Plans' /\ Turn(p)'
  <2>1. /\ Has(R, {"unlock"}) <=> Has(T, {"unlock"})
        /\ \A g : HasOn(R, DataOps, g) => HasOn(T, DataOps, g)
    BY <1>2, <1>10
  <2>2. reg' \in [Proc -> Seq(FileSector)]
        /\ \A q \in Proc : fd[q] # None => fd'[q] # None /\ fd'[q].sector = fd[q].sector
    BY <1>2, <1>3 DEF Plans
  <2> HIDE DEF R
  <2> QED
    BY <1>2, <1>3, <1>12, <1>13, <2>1, <2>2, KeepPlans DEF T
<1>16. SystemData(p)'
  <2>1. ~AtHead(todo[p], {"mapwrite"}) /\ ~AtHeadOn(todo[p], "flush", RootData)
        /\ (RootOpen(todo[p]) => RootOpen(todo'[p])) /\ ~AtHead(todo'[p], {"off"})
    <3>1. ~AtHead(T, {"mapwrite"}) /\ ~AtHeadOn(T, "flush", RootData) /\ ~AtHead(R, {"off"})
      BY <1>2, <1>11 DEF AtHead, AtHeadOn
    <3> QED
      BY <1>10, <1>12, <3>1
  <2> QED
    BY <1>2, <1>3, <1>14, <2>1, KeepSystemData
<1>17. InDir' = InDir /\ Named' = Named /\ File' = File
  BY <1>3, <1>14, KeepFiles
<1>18. SystemInodes(p)'
  <2>1. ~AtHead(T, {"off"}) /\ ~AtHeadOn(T, "flush", MapData)
    BY <1>2 DEF AtHead, AtHeadOn
  <2>2. inode[FREE_MAP_SECTOR] = FreeMapInode
    BY <1>2, <2>1 DEF SystemInodes
  <2> QED
    BY <1>2, <1>3, <1>10, <1>12, <2>2 DEF SystemInodes
<1>19. \A g \in FileSector : Held(p, g)' <=> Held(p, g)
  <2>1. \A g : ~AtHeadOn(T, "open", g) /\ (HasOn(T, {"close"}, g) <=> HasOn(R, {"close"}, g))
    BY <1>2, <1>10 DEF AtHeadOn
  <2> HIDE DEF R, T
  <2> QED
    BY <1>3, <1>10, <1>11, <1>12, <2>1 DEF Held, T
<1>20. Counted(p)' /\ HandleTypes' /\ Unnamed'
  <2>1. SameFds
    BY <1>2, <1>3, SameFdsNow
  <2>2. Counted(p)'
    BY <1>2, <1>3, <1>19, <2>1, KeepCounts
  <2> QED
    BY <1>2, <1>3, <1>17, <2>2 DEF HandleTypes, Unnamed
<1>21. LoadedRight(p)'
  <2>1. \A t : ~AtHeadOn(T, "load", t)
    BY <1>2 DEF AtHeadOn
  <2>2. ~AtHead(R, {"load"})
    BY <1>11 DEF AtHead
  <2> QED
    BY <1>2, <1>3, <1>12, <2>1, <2>2 DEF LoadedRight
<1>22. File \subseteq FileSector
  BY <1>2, FileFacts
<1>23. \A g \in File : InodeOf(g)' = InodeOf(g)
  <2> TAKE g \in File
  <2>1. g \in FileSector /\ g \in Sector
    BY <1>22, Sectors
  <2>2. CASE g = f
    BY <1>3, <1>5, <2>2 DEF InodeOf, WriteInodeFacts
  <2>3. CASE g # f
    BY <1>3, <1>8, <2>1, <2>3 DEF InodeOf
  <2> QED
    BY <2>2, <2>3
<1>24. /\ \A g : Growing(p, g)' <=> Growing(p, g)
       /\ \A g : g # f => (Writing(p, g)' <=> Writing(p, g))
  BY <1>2, <1>4, <1>10, <1>12 DEF Growing, Writing
<1>25. InodesRight(p)'
  <2> SUFFICES ASSUME NEW g \in File PROVE FileRight(p, g)'
    BY <1>17 DEF InodesRight
  <2>1. FileRight(p, g) /\ InodeOf(g)' = InodeOf(g) /\ (Caught(p, g)' <=> Caught(p, g))
        /\ (Growing(p, g)' <=> Growing(p, g)) /\ g \in Sector
    BY <1>2, <1>13, <1>22, <1>23, <1>24, Sectors DEF InodesRight
  <2>2. ~Writing(p, g)' => InodeOf(g)' = disk'[g]
    <3>1. CASE g = f
      BY <1>5, <1>8, <1>23, <3>1 DEF WriteInodeFacts, d
    <3>2. CASE g # f
      BY <1>8, <1>24, <2>1, <3>2 DEF FileRight
    <3> QED
      BY <3>1, <3>2
  <2> QED
    BY <2>1, <2>2 DEF FileRight
<1>26. OwnersRight(p)'
  <2>1. Made(p)' = Made(p) /\ ToGive(p)' = ToGive(p)
    <3>1. /\ Has(T, Making) <=> Has(R, Making)
          /\ \A g : HasOn(T, {"release"}, g) <=> HasOn(R, {"release"}, g)
      BY <1>2, <1>10 DEF Making
    <3> HIDE DEF T, R
    <3> QED
      BY <1>3, <1>12, <3>1 DEF Made, ToGive, T
  <2> QED
    BY <1>2, <1>3, <1>17, <1>23, <2>1, KeepOwners
<1>27. NewRight(p)' /\ NamesRight(p)' /\ DataRight(p)'
  <2>1. \A g \in FileSector : HasOn(Tail(todo[p]), DataOps, g) => inode'[g].data = inode[g].data
    BY <1>3
  <2>2. /\ Has(todo[p], Making) => (Caught(p, reg[p][1])' => Caught(p, reg[p][1]))
        /\ Has(todo[p], {"create"}) => \A s \in Free : Caught(p, s)' => Caught(p, s)
    BY <1>3, <1>13, SameCaught
  <2>3. todo[p][1].op \notin {"newinode", "grow", "setlength"} /\ todo'[p] = Tail(todo[p])
    BY <1>2, <1>12
  <2> HIDE DEF R
  <2> QED
    BY <1>2, <1>3, <1>17, <2>1, <2>2, <2>3, PopRest
<1>28. OffRight(p)'
  BY <1>2, <1>3 DEF OffRight
<1> QED
  BY <1>8, <1>13, <1>15, <1>16, <1>18, <1>20, <1>21, <1>25, <1>26, <1>27, <1>28 DEF Focus

-----------------------------------------------------------------------------
\* The directory gets other entries, in the cache.
LEMMA DirStep ==
  ASSUME NEW p \in Proc, Focus(p), mode = "up", mode' = mode, todo[p] # <<>>,
         todo[p][1].op \in {"erase", "dirwrite"},
         UNCHANGED <<disk, used, fd, exec, leaked, fsLock, lost>>,
         NEW E \in SUBSET (Name \X FileSector), DirKind(Dir(E)),
         NEW c \in Accessed(p), Stored(p, c, Dir(E)),
         NEW R, Moves(p, R), todo'[p] = R, R # <<>>, R[1].op = "close",
         reg' \in [Proc -> Seq(FileSector)], RootOpen(R), RootOpen(todo[p]),
         ~Has(R, DataOps \cup {"unlock"}), ~Has(todo[p], {"unlock"}),
         ~Has(R, Making \cup {"create", "zero", "erase", "deny", "newfd", "setlength", "put"}),
         \A t \in Sector : /\ t \notin FileSector => inode'[t] = inode[t]
                           /\ inode'[t].cnt = inode[t].cnt /\ inode'[t].loaded = inode[t].loaded,
         InDir' = E /\ (\A s \in FileSector : Caught(p, s)' => Caught(p, s)) =>
           HandleTypes' /\ Counted(p)' /\ Unnamed' /\ InodesRight(p)' /\ OwnersRight(p)'
  PROVE  Focus(p)'
<1> DEFINE T == todo[p]
<1> DEFINE a == T[1]
<1>1. /\ T # <<>> /\ a.op \in {"erase", "dirwrite"} /\ ~Quiet(p) /\ Fit(T)
      /\ Plans /\ Turn(p) /\ CacheRight(p) /\ DiskRight /\ HandleTypes /\ SystemData(p)
      /\ SystemInodes(p) /\ LoadedRight(p) /\ OffRight(p)
  <2>1. Plans /\ T = todo[p]
    BY DEF Focus
  <2>2. Fit(T) /\ ~Quiet(p)
    BY <2>1, SMTT(30) DEF Plans, Quiet
  <2> HIDE DEF T
  <2> QED
    BY <2>1, <2>2 DEF Focus, a, T
<1>2. Wants(p) = RootData /\ Wants(p) \in Cachable
  BY <1>1, WantsOf DEF Cachable
<1>3. Dir(E) \in Contents
  BY DEF Contents
<1>4. /\ miss' \in [Proc -> Misses] /\ \A q \in Proc \ {p} : miss'[q] = miss[q]
      /\ CacheRight(p)'
      /\ \A s : s # RootData => Logical(s)' = Logical(s)
      /\ LogicalOf(cache', miss', disk', RootData) = Dir(E)
      /\ \A s : Caught(p, s)' => Caught(p, s) \/ s = RootData
  BY <1>1, <1>2, <1>3, OnStore
<1>5. Logical(RootData)' = Dir(E) /\ Logical(MapData)' = Logical(MapData)
  BY <1>4, LogicalDef, Sectors
<1>6. InDir' = E /\ \A s \in FileSector : Caught(p, s)' => Caught(p, s)
  BY <1>4, <1>5, Sectors DEF InDir, Dir
<1>7. HandleTypes' /\ Counted(p)' /\ Unnamed' /\ InodesRight(p)' /\ OwnersRight(p)'
  BY <1>6
<1>8. Plans' /\ Turn(p)'
  <2>1. (Has(R, {"unlock"}) <=> Has(T, {"unlock"}))
        /\ \A f : HasOn(R, DataOps, f) /\ Has(R, {"unlock"}) => HasOn(T, DataOps, f)
    BY DEF Has
  <2> QED
    BY <1>1, <1>4, <2>1, KeepPlans DEF T
<1>9. DiskRight'
  BY <1>1 DEF DiskRight
<1>10. R \in Seq(Tasks)
  BY DEF Moves, Fit
<1>11. ~AtHead(R, {"off"}) /\ ~AtHead(R, {"load"}) /\ ~AtHead(R, {"readat"}) /\ ~AtHead(R, {"open"})
  BY DEF AtHead
<1>12. ~AtHead(T, {"mapwrite"}) /\ ~AtHead(T, {"off"}) /\ ~AtHeadOn(T, "flush", MapData)
       /\ \A s : ~AtHeadOn(T, "load", s)
  BY <1>1 DEF AtHead, AtHeadOn
<1>13. SystemData(p)'
  <2>1. (Logical(MapData) = Map(used))'
    BY <1>1, <1>5, <1>12 DEF SystemData, Map
  <2>2. DirKind(Logical(RootData))'
    BY <1>5 DEF DirKind
  <2> QED
    BY <1>11, <2>1, <2>2 DEF SystemData
<1>14. SystemInodes(p)'
  <2>1. \A t \in {FREE_MAP_SECTOR, ROOT_DIR_SECTOR, MapData, RootData} : inode'[t] = inode[t]
    BY Sectors
  <2>2. inode[FREE_MAP_SECTOR] = FreeMapInode
    BY <1>1, <1>12 DEF SystemInodes
  <2> QED
    BY <1>1, <2>1, <2>2 DEF SystemInodes
<1>15. LoadedRight(p)'
  <2>1. \A t \in {ROOT_DIR_SECTOR} \cup FileSector : t \in Sector
    BY Sectors
  <2>2. \A t \in {ROOT_DIR_SECTOR} \cup FileSector : inode[t].cnt > 0 => inode[t].loaded
    BY <1>1, <1>12 DEF LoadedRight
  <2>3. \A t \in {ROOT_DIR_SECTOR} \cup FileSector : inode'[t].cnt > 0 => inode'[t].loaded
    BY <2>1, <2>2
  <2> QED
    BY <1>11, <2>3 DEF LoadedRight
<1>16. NewRight(p)' /\ NamesRight(p)' /\ DataRight(p)'
  BY <1>10, <1>11, Calm
<1>17. OffRight(p)'
  BY <1>1 DEF OffRight
<1> QED
  BY <1>4, <1>7, <1>8, <1>9, <1>13, <1>14, <1>15, <1>16, <1>17 DEF Focus

\* What is left of a removal once the entry is to be erased.
EraseFacts(f, T, R) ==
  /\ R # <<>> /\ R[1].op = "close" /\ R[1].sector = f /\ R[1].op # "lock"
  /\ HasOn(R, {"close"}, f) /\ HasOn(T, {"close"}, f)
  /\ RootOpen(R) /\ RootOpen(T) /\ (RegHeld(T) <=> RegHeld(R))
  /\ ~Has(R, DataOps \cup {"unlock"}) /\ ~Has(T, {"unlock"})
  /\ ~Has(R, Making \cup {"create", "zero", "erase", "deny", "newfd", "setlength", "put"})
  /\ ~Has(T, Making)
  /\ \A g : HasOn(T, {"close"}, g) <=> HasOn(R, {"close"}, g)
  /\ \A g : ~HasOn(T, {"setlength"}, g) /\ ~HasOn(T, {"setlength", "writeinode"}, g)
  /\ \A g : ~HasOn(T, {"release"}, g) /\ ~HasOn(R, {"release"}, g)

LEMMA EraseRest ==
  ASSUME NEW T, Fit(T), T # <<>>, T[1].op = "erase", NEW f, f = T[1].sector, NEW R, R = Tail(T)
  PROVE  EraseFacts(f, T, R)
<1>1. /\ HeadFacts(T[1], R, T) /\ Fit(R) /\ R \in Seq(Tasks) /\ T \in Seq(Tasks)
      /\ R # <<>> => MayFollow(T[1], R[1])
      /\ R = <<>> => MayEnd(T[1])
      /\ Meant(T[1])
  BY HeadNow, FitRest DEF Fit
<1>2. f \in FileSector /\ f # ROOT_DIR_SECTOR
  BY <1>1, Sectors DEF Meant
<1>3. R # <<>> /\ R[1].op = "close" /\ R[1].sector = f
  BY <1>1 DEF MayEnd, MayFollow
<1> DEFINE Q == Tail(R)
<1>4. /\ HeadFacts(R[1], Q, R) /\ Fit(Q)
      /\ Q # <<>> => MayFollow(R[1], Q[1])
      /\ Meant(R[1])
  BY <1>1, <1>3, HeadNow, FitRest
<1> HIDE DEF Q
<1>5. Len(T) \in Nat /\ Len(T) >= 3 /\ CloseRoot(T[3])
  <2>1. \A i \in 1 .. Len(T) : T[i].op = "erase" => i + 2 <= Len(T) /\ CloseRoot(T[i + 2])
    BY DEF Fit, Paired
  <2>2. 1 \in 1 .. Len(T) /\ Len(T) \in Nat
    BY <1>1 DEF HeadFacts
  <2>3. 1 + 2 <= Len(T) /\ CloseRoot(T[1 + 2])
    BY <2>1, <2>2
  <2> QED
    BY <2>2, <2>3
<1>6. Q # <<>> /\ CloseRoot(Q[1])
  <2>1. Len(T) = Len(R) + 1 /\ Len(R) = Len(Q) + 1 /\ Len(R) \in Nat /\ Len(Q) \in Nat
    BY <1>1, <1>4, Zenon DEF HeadFacts
  <2>2. 3 \in 2 .. Len(T) /\ 2 \in 2 .. Len(R)
    BY <1>5, <2>1
  <2>3. T[3] = R[3 - 1]
    BY <1>1, <2>2 DEF HeadFacts
  <2>4. R[2] = Q[2 - 1]
    BY <1>4, <2>2 DEF HeadFacts
  <2>7. T[3] = R[2] /\ R[2] = Q[1]
    <3>1. 3 - 1 = 2 /\ 2 - 1 = 1
      OBVIOUS
    <3> QED
      BY <2>3, <2>4, <3>1, Zenon
  <2>5. T[3] = Q[1]
    BY <2>7
  <2>6. Q # <<>>
    <3>1. Len(Q) # 0
      BY <1>5, <2>1
    <3> QED
      BY <3>1, EmptyLen
  <2> QED
    BY <1>5, <2>5, <2>6, SMTT(30)
<1>7. RootOpen(R)
  <2>1. HeadFacts(Q[1], Tail(Q), Q)
    BY <1>4, <1>6, HeadNow
  <2>2. RootOpen(Q)
    BY <1>6, <2>1 DEF HeadFacts, CloseRoot, OpenRoot
  <2> QED
    BY <1>3, <1>4, <2>2 DEF HeadFacts, OpenRoot
<1>8. RootOpen(T) /\ (RegHeld(T) <=> RegHeld(R))
      /\ \A g : HasOn(T, {"close"}, g) <=> HasOn(R, {"close"}, g)
  BY <1>1, <1>7 DEF HeadFacts, OpenRoot, Naming
<1>9. HasOn(R, {"close"}, f)
  BY <1>3, <1>4 DEF HeadFacts
<1> DEFINE Late == Making \cup {"create", "zero", "erase", "deny", "newfd", "setlength", "put",
                                "grow", "writeinode", "release", "unlock"}
<1>10. ~Has(R, Late) /\ \A g : ~HasOn(R, Late, g)
  <2>1. \A d \in Tasks : d.op \in Late => ~MayPrecede(T[1], d)
    BY DEF MayPrecede, Making, CloseRoot
  <2> HIDE DEF Late
  <2> QED
    BY <2>1, NotLater
<1>11. ~Has(Q, DataOps)
  <2>1. \A i \in 1 .. Len(Q) : Q[i].op \notin {"read", "readat", "write"}
    <3>1. CASE Tail(Q) = <<>>
      <4>1. Len(Q) = 1
        <5>1. HeadFacts(Q[1], Tail(Q), Q)
          BY <1>4, <1>6, HeadNow
        <5>2. Len(Q) = Len(Tail(Q)) + 1
          BY <5>1 DEF HeadFacts
        <5>3. Len(Tail(Q)) = 0
          BY <3>1, EmptyLen
        <5> QED
          BY <5>2, <5>3
      <4>2. Q[1].op = "close"
        BY <1>6 DEF CloseRoot
      <4>3. \A i \in 1 .. Len(Q) : i = 1
        BY <4>1
      <4> QED
        BY <4>2, <4>3
    <3>2. CASE Tail(Q) # <<>>
      <4>1. MayFollow(Q[1], Tail(Q)[1])
        BY <1>4, <1>6, <3>2, FitRest
      <4>2. Tail(Q)[1].op \in {"newfd", "deny", "header"}
        BY <1>6, <4>1, Sectors DEF MayFollow, CloseRoot
      <4>3. HeadFacts(Q[1], Tail(Q), Q)
        BY <1>4, <1>6, HeadNow
      <4>4. FALSE
        <5>1. HeadFacts(Tail(Q)[1], Tail(Tail(Q)), Tail(Q))
          BY <1>4, <1>6, <3>2, FitRest, HeadNow
        <5>2. Has(Tail(Q), Naming)
          BY <4>2, <5>1 DEF HeadFacts, Naming
        <5>3. Has(R, Naming)
          BY <1>4, <4>3, <5>2 DEF HeadFacts
        <5>4. ~Has(R, Naming)
          <6>1. \A d \in Tasks : d.op \in Naming => ~MayPrecede(T[1], d)
            BY DEF MayPrecede, Naming, CloseRoot
          <6> QED
            BY <6>1, NotLater
        <5> QED
          BY <5>3, <5>4
      <4> QED
        BY <4>4
    <3> QED
      BY <3>1, <3>2
  <2>2. ~Has(Q, {"read", "readat", "write"})
    BY <2>1 DEF Has
  <2>3. ~Has(Q, Late)
    BY <1>4, <1>10 DEF HeadFacts
  <2> QED
    BY <2>2, <2>3 DEF Has, DataOps
<1>12. ~Has(R, DataOps)
  BY <1>3, <1>4, <1>11 DEF HeadFacts, DataOps
<1>13. /\ ~Has(R, DataOps \cup {"unlock"})
       /\ ~Has(R, Making \cup {"create", "zero", "erase", "deny", "newfd", "setlength", "put"})
       /\ ~Has(R, Making) /\ ~Has(R, {"unlock"})
       /\ \A g : ~HasOn(R, {"setlength"}, g) /\ ~HasOn(R, {"setlength", "writeinode"}, g)
       /\ \A g : ~HasOn(R, {"release"}, g)
  BY <1>10, <1>12 DEF Has, HasOn
<1>14. /\ ~Has(T, {"unlock"}) /\ ~Has(T, Making)
       /\ \A g : ~HasOn(T, {"setlength"}, g) /\ ~HasOn(T, {"setlength", "writeinode"}, g)
       /\ \A g : ~HasOn(T, {"release"}, g)
  <2>1. T[1].op \notin Making
    BY DEF Making
  <2> QED
    BY <1>1, <1>13, <2>1 DEF HeadFacts
<1> QED
  BY <1>3, <1>7, <1>8, <1>9, <1>13, <1>14 DEF EraseFacts

-----------------------------------------------------------------------------
\* The entry of a file goes; the file is marked and lives while it is open.
LEMMA EraseStep ==
  ASSUME NEW p \in Proc, Focus(p), Erase(p), lost' = lost
  PROVE  Focus(p)'
<1> DEFINE T == todo[p]
<1> DEFINE R == Tail(T)
<1> DEFINE a == T[1]
<1>1. Is(p, "erase")
  BY DEF Erase
<1>2. /\ T # <<>> /\ a.op = "erase" /\ mode = "up" /\ Fit(T) /\ ~Quiet(p) /\ Fit(R)
      /\ Plans /\ Turn(p) /\ CacheRight(p) /\ DiskRight /\ HandleTypes
      /\ SystemData(p) /\ OwnersRight(p) /\ NewRight(p) /\ NamesRight(p) /\ DataRight(p)
      /\ SystemInodes(p) /\ Counted(p) /\ LoadedRight(p) /\ InodesRight(p) /\ Unnamed
      /\ S(p) = a.sector /\ Arg(p) = a.arg /\ Meant(a)
  BY <1>1, Begin
<1>3. /\ Then(p, <<>>)
      /\ UNCHANGED <<disk, used, fd, exec, leaked, fsLock, reg, got, mode>>
  BY DEF Erase
<1>4. PICK f \in FileSector, n \in Name : f = a.sector /\ n = a.arg
  BY <1>2 DEF Meant
<1>5. EraseFacts(f, T, R)
  <2> HIDE DEF T, R
  <2> QED
    BY <1>2, <1>4, EraseRest DEF R
<1>6. HeadFacts(a, R, T) /\ 1 \in 1 .. Len(T)
  BY <1>2, HeadNow DEF HeadFacts
<1>7. <<n, f>> \in InDir
  <2>1. \A i \in 1 .. Len(todo[p]) :
          todo[p][i].op = "erase" => <<todo[p][i].arg, todo[p][i].sector>> \in InDir
    BY <1>2 DEF NamesRight
  <2> QED
    BY <1>2, <1>4, <1>6, <2>1
<1>8. /\ DirKind(Logical(RootData)) /\ InDir \in SUBSET (Name \X FileSector)
      /\ \A e, g \in InDir : e[2] = g[2] => e = g
  <2>1. DirKind(Logical(RootData))
    BY <1>2 DEF SystemData
  <2>2. PICK E0 \in SUBSET (Name \X FileSector) : Logical(RootData) = Dir(E0)
    BY <2>1 DEF DirKind
  <2>3. InDir = E0
    BY <2>2 DEF InDir, Dir
  <2>4. \A e, g \in InDir : e[2] = g[2] => e = g
    BY <2>1 DEF DirKind, InDir
  <2> QED
    BY <2>1, <2>3, <2>4
<1> DEFINE E == InDir \ {<<n, f>>}
<1>9. E \in SUBSET (Name \X FileSector) /\ DirKind(Dir(E))
  <2>1. E \in SUBSET (Name \X FileSector) /\ \A e, g \in E : e[2] = g[2] => e = g
    BY <1>8
  <2> HIDE DEF E
  <2> QED
    BY <2>1 DEF DirKind, Dir
<1>10. PICK c \in Accessed(p) : Stored(p, c, Dir(E))
  <2>1. PICK c \in Accessed(p) : Stored(p, c, Dir(Old(c).entries \ {<<Arg(p), S(p)>>}))
    BY DEF Erase
  <2>2. Old(c) = Logical(RootData)
    <3>1. Wants(p) = RootData /\ Wants(p) \in Cachable
      BY <1>2, WantsOf DEF Cachable
    <3> QED
      BY <1>2, <3>1, OnAccess
  <2>3. Old(c).entries \ {<<Arg(p), S(p)>>} = E
    BY <1>2, <1>4, <2>2 DEF InDir
  <2> QED
    BY <2>1, <2>3
<1>11. Moves(p, R) /\ todo'[p] = R
  <2>1. R = <<>> \o Tail(todo[p])
    BY <1>2 DEF Fit
  <2>2. R # <<>> => R[1].op # "lock"
    BY <1>5 DEF EraseFacts
  <2> HIDE DEF R
  <2> QED
    BY <1>2, <1>3, <2>1, <2>2, ThenMoves
<1>12. inode[f].cnt > 0 /\ inode[f].cnt # 0
  <2>1. Held(p, f)
    BY <1>2, <1>5 DEF Held, EraseFacts, AtHeadOn, T
  <2>2. inode[f].cnt = leaked[f] + Cardinality(Executing(f)) + Cardinality(Opened(f)) + 1
    BY <1>2, <2>1 DEF Counted
  <2>3. leaked[f] \in Nat /\ Cardinality(Executing(f)) \in Nat /\ Cardinality(Opened(f)) \in Nat
    BY <1>2, Cards
  <2> QED
    BY <2>2, <2>3
<1>13. f \in Sector /\ inode \in [Sector -> Inodes]
  BY <1>2, Sectors DEF HandleTypes
<1> DEFINE m == [inode[f] EXCEPT !.removed = TRUE]
<1>14. inode' = [inode EXCEPT ![f] = m]
  BY <1>2, <1>4 DEF Erase
<1>15. /\ m \in Inodes /\ m.removed = TRUE /\ m.cnt = inode[f].cnt /\ m.deny = inode[f].deny
       /\ m.loaded = inode[f].loaded /\ m.data = inode[f].data
  <2>1. inode[f] \in Inodes
    BY <1>13
  <2> QED
    BY <2>1 DEF Inodes
<1> HIDE DEF m
<1>16. inode' \in [Sector -> Inodes] /\ inode'[f] = m /\ \A t \in Sector : t # f => inode'[t] = inode[t]
  BY <1>13, <1>14, <1>15
<1>17. /\ \A t \in Sector : /\ t \notin FileSector => inode'[t] = inode[t]
                            /\ inode'[t].cnt = inode[t].cnt /\ inode'[t].loaded = inode[t].loaded
                            /\ inode'[t].data = inode[t].data /\ inode'[t].deny = inode[t].deny
                            /\ inode[t].cnt = 0 => inode'[t] = inode[t]
  BY <1>4, <1>12, <1>15, <1>16
<1>18. HandleTypes'
  <2>1. \A t \in Sector : inode'[t].cnt = 0 => inode'[t] = Closed
    BY <1>2, <1>17 DEF HandleTypes
  <2> QED
    BY <1>2, <1>3, <1>16, <2>1 DEF HandleTypes
<1>19. \A g \in FileSector : g \in Sector
  BY Sectors
<1>20. Counted(p)'
  <2>1. SameFds
    BY <1>2, <1>3, SameFdsNow
  <2>2. \A g \in FileSector : Held(p, g)' <=> Held(p, g)
    <3>1. /\ \A g : ~AtHeadOn(T, "open", g) /\ ~AtHeadOn(R, "open", g)
          /\ \A g : HasOn(T, {"close"}, g) <=> HasOn(R, {"close"}, g)
          /\ RegHeld(T) <=> RegHeld(R)
      BY <1>2, <1>5 DEF AtHeadOn, EraseFacts
    <3> HIDE DEF T, R
    <3> QED
      BY <1>3, <1>11, <3>1 DEF Held, T
  <2> QED
    BY <1>2, <1>3, <1>17, <1>19, <2>1, <2>2, KeepCounts
<1>21. \A g \in FileSector : InodeOf(g)' = InodeOf(g)
  BY <1>3, <1>17, <1>19 DEF InodeOf
<1>22. ASSUME InDir' = E, \A s \in FileSector : Caught(p, s)' => Caught(p, s)
       PROVE  Unnamed' /\ InodesRight(p)' /\ OwnersRight(p)'
  <2>1. Named' = Named \ {f}
    <3>1. Named = {e[2] : e \in InDir} /\ Named' = {e[2] : e \in E}
      BY <1>22 DEF Named
    <3>2. \A e \in InDir : e[2] = f => e = <<n, f>>
      BY <1>7, <1>8
    <3>3. \A e \in InDir : e \in E <=> e[2] # f
      BY <1>7, <1>8, <3>2
    <3>4. E \subseteq InDir
      OBVIOUS
    <3> HIDE DEF E
    <3> QED
      BY <3>1, <3>3, <3>4
  <2>2. f \in Named
    BY <1>7, <1>8 DEF Named
  <2>3. Unnamed'
    <3> SUFFICES ASSUME NEW g \in FileSector, inode'[g].cnt > 0
                 PROVE  inode'[g].removed = (g \notin Named')
      BY DEF Unnamed
    <3>1. CASE g = f
      BY <1>15, <1>16, <2>1, <3>1
    <3>2. CASE g # f
      <4>1. inode'[g] = inode[g]
        BY <1>16, <1>19, <3>2
      <4>2. inode[g].removed = (g \notin Named)
        BY <1>2, <4>1 DEF Unnamed
      <4>3. g \in Named' <=> g \in Named
        BY <2>1, <3>2
      <4> QED
        BY <4>1, <4>2, <4>3
    <3> QED
      BY <3>1, <3>2
  <2>4. File' = File
    <3>1. File = Named \cup {s \in FileSector : inode[s].cnt > 0}
          /\ File' = Named' \cup {s \in FileSector : inode'[s].cnt > 0}
      BY DEF File, Named
    <3>2. {s \in FileSector : inode'[s].cnt > 0} = {s \in FileSector : inode[s].cnt > 0}
      BY <1>17, <1>19
    <3>3. f \in {s \in FileSector : inode[s].cnt > 0}
      BY <1>12
    <3> QED
      BY <2>1, <3>1, <3>2, <3>3
  <2>5. File \subseteq FileSector
    BY <1>2, FileFacts
  <2>6. InodesRight(p)'
    <3>1. \A g : ~Growing(p, g) /\ ~Writing(p, g)
      BY <1>5 DEF EraseFacts, Growing, Writing, T
    <3> QED
      BY <1>2, <1>3, <1>21, <1>22, <2>4, <2>5, <3>1, KeepInodes
  <2>7. Made(p)' = Made(p) /\ ToGive(p)' = ToGive(p)
    <3>1. /\ ~Has(T, Making) /\ ~Has(R, Making)
          /\ \A g : ~HasOn(T, {"release"}, g) /\ ~HasOn(R, {"release"}, g)
      BY <1>5, <1>6 DEF EraseFacts, HeadFacts
    <3> HIDE DEF T, R
    <3> QED
      BY <1>11, <3>1 DEF Made, ToGive, T
  <2>8. OwnersRight(p)'
    BY <1>2, <1>3, <1>21, <2>4, <2>5, <2>7, KeepOwners
  <2> QED
    BY <2>3, <2>6, <2>8
<1>23. /\ R # <<>> /\ R[1].op = "close" /\ RootOpen(R) /\ RootOpen(todo[p])
       /\ ~Has(R, DataOps \cup {"unlock"}) /\ ~Has(todo[p], {"unlock"})
       /\ ~Has(R, Making \cup {"create", "zero", "erase", "deny", "newfd", "setlength", "put"})
  BY <1>5 DEF EraseFacts
<1>24. reg' \in [Proc -> Seq(FileSector)] /\ todo[p][1].op \in {"erase", "dirwrite"} /\ todo[p] # <<>>
  BY <1>2, <1>3 DEF Plans
<1>25. InDir' = E /\ (\A s \in FileSector : Caught(p, s)' => Caught(p, s)) =>
         HandleTypes' /\ Counted(p)' /\ Unnamed' /\ InodesRight(p)' /\ OwnersRight(p)'
  BY <1>18, <1>20, <1>22
<1> HIDE DEF T, R, a, E
<1> QED
  BY <1>2, <1>3, <1>9, <1>10, <1>11, <1>17, <1>23, <1>24, <1>25, DirStep

-----------------------------------------------------------------------------
\* A file gets its name: what was being made is a file of its own.
LEMMA DirWriteStep ==
  ASSUME NEW p \in Proc, Focus(p), DirWrite(p), lost' = lost
  PROVE  Focus(p)'
<1> DEFINE T == todo[p]
<1> DEFINE R == Tail(T)
<1> DEFINE a == T[1]
<1>1. Is(p, "dirwrite")
  BY DEF DirWrite
<1>2. /\ T # <<>> /\ a.op = "dirwrite" /\ mode = "up" /\ Fit(T) /\ ~Quiet(p) /\ Fit(R)
      /\ Plans /\ Turn(p) /\ CacheRight(p) /\ DiskRight /\ HandleTypes
      /\ SystemData(p) /\ OwnersRight(p) /\ NewRight(p) /\ NamesRight(p) /\ DataRight(p)
      /\ SystemInodes(p) /\ Counted(p) /\ LoadedRight(p) /\ InodesRight(p) /\ Unnamed
      /\ Arg(p) = a.arg /\ Meant(a)
  BY <1>1, Begin
<1>3. /\ Then(p, <<>>) /\ Forget(p)
      /\ UNCHANGED <<disk, used, inode, fd, exec, leaked, fsLock, got, mode>>
  BY DEF DirWrite
<1>4. PICK n \in Name : n = a.arg
  BY <1>2 DEF Meant
<1>5. HeadFacts(a, R, T)
  BY <1>2, HeadNow
<1>6. Has(T, Making) /\ AtHead(T, {"unique", "dirwrite"})
  BY <1>2, <1>5 DEF HeadFacts, Making, AtHead
<1>7. PICK q \in Seq(FileSector) : q = reg[p]
  BY <1>2 DEF Plans
<1>8. /\ q # <<>> /\ IsInjective(q) /\ ~Caught(p, q[1])
      /\ disk[q[1]] = OnDisk(Tail(q), Len(q) - 1) /\ Len(q) - 1 <= MaxLen
  BY <1>2, <1>6, <1>7 DEF NewRight
<1>9. /\ ToSet(q) = {q[1]} \cup ToSet(Tail(q)) /\ q[1] \notin ToSet(Tail(q)) /\ q[1] \in FileSector
      /\ Tail(q) \in Seq(FileSector) /\ ToSet(Tail(q)) \subseteq FileSector
      /\ IsInjective(Tail(q)) /\ Len(Tail(q)) = Len(q) - 1 /\ Len(q) \in Nat \ {0}
  BY <1>8, HeadSet
<1>10. PICK r \in FileSector : r = q[1]
  BY <1>9
<1>11. Made(p) = ToSet(q)
  BY <1>6, <1>7 DEF Made, T
<1>12. /\ R # <<>> /\ CloseRoot(R[1]) /\ Tail(R) = <<>>
       /\ \A ops : Has(R, ops) <=> "close" \in ops
       /\ \A ops, f : HasOn(R, ops, f) <=> ("close" \in ops /\ f = ROOT_DIR_SECTOR)
       /\ RootOpen(T) /\ RootOpen(R) /\ ~RegHeld(T) /\ ~RegHeld(R)
  BY <1>2, CreateEnd
<1>13. /\ InDir \in SUBSET (Name \X FileSector)
       /\ \A e, g \in InDir : e[2] = g[2] => e = g
  <2>1. DirKind(Logical(RootData))
    BY <1>2 DEF SystemData
  <2>2. PICK E0 \in SUBSET (Name \X FileSector) : Logical(RootData) = Dir(E0)
    BY <2>1 DEF DirKind
  <2>3. InDir = E0
    BY <2>2 DEF InDir, Dir
  <2>4. \A e, g \in InDir : e[2] = g[2] => e = g
    BY <2>1 DEF DirKind, InDir
  <2> QED
    BY <2>1, <2>3, <2>4
<1>14. File \subseteq FileSector /\ File \subseteq Owns /\ Named \subseteq File
  BY <1>2, FileFacts
<1>15. Made(p) \cap Owns = {} /\ r \in Made(p) /\ r \notin File /\ r \notin Named
  <2>1. Made(p) \cap (Owns \cup lost) = {}
    BY <1>2 DEF OwnersRight
  <2> QED
    BY <1>9, <1>10, <1>11, <1>14, <2>1
<1> DEFINE E == InDir \cup {<<n, r>>}
<1>16. E \in SUBSET (Name \X FileSector) /\ DirKind(Dir(E))
  <2>1. \A e \in InDir : e[2] # r
    BY <1>15 DEF Named
  <2>2. <<n, r>>[2] = r
    OBVIOUS
  <2>3. E \in SUBSET (Name \X FileSector) /\ \A e, g \in E : e[2] = g[2] => e = g
    BY <1>13, <2>1, <2>2
  <2> HIDE DEF E
  <2> QED
    BY <2>3 DEF DirKind, Dir
<1>17. PICK c \in Accessed(p) : Stored(p, c, Dir(E))
  <2>1. PICK c \in Accessed(p) : Stored(p, c, Dir(Old(c).entries \cup {<<Arg(p), reg[p][1]>>}))
    BY DEF DirWrite
  <2>2. Old(c) = Logical(RootData)
    <3>1. Wants(p) = RootData /\ Wants(p) \in Cachable
      BY <1>2, WantsOf DEF Cachable
    <3> QED
      BY <1>2, <3>1, OnAccess
  <2>3. Old(c).entries \cup {<<Arg(p), reg[p][1]>>} = E
    BY <1>2, <1>4, <1>7, <1>10, <2>2 DEF InDir
  <2> QED
    BY <2>1, <2>3
<1>18. Moves(p, R) /\ todo'[p] = R
  <2>1. R = <<>> \o Tail(todo[p])
    BY <1>2 DEF Fit
  <2>2. R # <<>> => R[1].op # "lock"
    BY <1>12 DEF CloseRoot
  <2> HIDE DEF R
  <2> QED
    BY <1>2, <1>3, <2>1, <2>2, ThenMoves
<1>19. reg' \in [Proc -> Seq(FileSector)] /\ reg'[p] = <<>>
  BY <1>2, <1>3 DEF Forget, Plans
<1>20. HandleTypes' /\ Counted(p)'
  <2>1. SameFds
    BY <1>2, <1>3, SameFdsNow
  <2>2. \A g \in FileSector : Held(p, g)' <=> Held(p, g)
    <3>1. \A g \in FileSector : ~HasOn(T, {"close"}, g) /\ ~HasOn(R, {"close"}, g)
      BY <1>2, <1>5, <1>12, Sectors DEF HeadFacts
    <3>2. ~RegHeld(T) /\ ~RegHeld(R)
      BY <1>12
    <3> HIDE DEF T, R
    <3> QED
      BY <1>18, <3>1, <3>2 DEF Held, T
  <2> QED
    BY <1>2, <1>3, <2>1, <2>2, KeepCounts DEF HandleTypes
<1>21. ASSUME InDir' = E, \A s \in FileSector : Caught(p, s)' => Caught(p, s)
       PROVE  Unnamed' /\ InodesRight(p)' /\ OwnersRight(p)'
  <2>1. Named' = Named \cup {r}
    <3>1. Named = {e[2] : e \in InDir} /\ Named' = {e[2] : e \in E}
      BY <1>21 DEF Named
    <3>2. <<n, r>>[2] = r
      OBVIOUS
    <3> QED
      BY <3>1, <3>2
  <2>2. File' = File \cup {r}
    <3>1. File = Named \cup {s \in FileSector : inode[s].cnt > 0}
          /\ File' = Named' \cup {s \in FileSector : inode'[s].cnt > 0}
      BY DEF File, Named
    <3> QED
      BY <1>3, <2>1, <3>1
  <2>3. Unnamed'
    <3> SUFFICES ASSUME NEW g \in FileSector, inode[g].cnt > 0
                 PROVE  inode[g].removed = (g \notin Named')
      BY <1>3 DEF Unnamed
    <3>1. g \in File
      BY DEF File
    <3>2. g # r
      BY <1>15, <3>1
    <3> QED
      BY <1>2, <2>1, <3>2 DEF Unnamed
  <2>4. \A g : InodeOf(g)' = InodeOf(g)
    BY <1>3 DEF InodeOf
  <2>5. InodeOf(r) = OnDisk(Tail(q), Len(q) - 1)
    <3>1. inode[r].cnt = 0
      <4>1. ~(inode[r].cnt > 0)
        BY <1>15 DEF File
      <4>2. inode[r].cnt \in Nat
        <5>1. inode[r] \in Inodes
          BY <1>2, Sectors DEF HandleTypes
        <5> QED
          BY <5>1 DEF Inodes
      <4> QED
        BY <4>1, <4>2
    <3>2. inode[r] = Closed
      BY <1>2, <3>1, Sectors DEF HandleTypes
    <3> QED
      BY <1>8, <1>10, <3>2 DEF InodeOf, Closed
  <2>6. /\ \A g : ~HasOn(R, {"setlength"}, g) /\ ~HasOn(R, {"setlength", "writeinode"}, g)
        /\ \A g : ~HasOn(T, {"setlength"}, g) /\ ~HasOn(T, {"setlength", "writeinode"}, g)
        /\ \A g : ~HasOn(T, {"release"}, g) /\ ~HasOn(R, {"release"}, g)
        /\ ~Has(R, Making)
    BY <1>2, <1>5, <1>12 DEF HeadFacts, Making
  <2>7. Whole(r) = ToSet(q)
    BY <1>9, <1>10, <2>5 DEF Whole, OnDisk
  <2>8. InodesRight(p)'
    <3> SUFFICES ASSUME NEW g \in File \cup {r} PROVE FileRight(p, g)'
      BY <2>2 DEF InodesRight
    <3>1. \A h : ~Growing(p, h) /\ ~Growing(p, h)' /\ ~Writing(p, h) /\ ~Writing(p, h)'
      <4> HIDE DEF T, R
      <4> QED
        BY <1>18, <2>6 DEF Growing, Writing, T
    <3>2. CASE g \in File
      <4>1. FileRight(p, g) /\ g \in FileSector
        BY <1>2, <1>14, <3>2 DEF InodesRight
      <4> QED
        BY <1>3, <1>21, <2>4, <3>1, <4>1 DEF FileRight
    <3>3. CASE g = r
      <4> DEFINE d == OnDisk(Tail(q), Len(q) - 1)
      <4>1. d.direct = Tail(q) /\ d.length = Len(q) - 1 /\ d = [direct |-> Tail(q), length |-> Len(q) - 1]
        BY DEF OnDisk
      <4>2. Len(q) - 1 \in Nat
        BY <1>9
      <4>3. d \in [direct : Seq(FileSector), length : Nat]
        BY <1>9, <4>1, <4>2
      <4>4. InodeOf(r)' = d /\ disk'[r] = d /\ ~Caught(p, r)'
        BY <1>3, <1>8, <1>10, <1>21, <2>4, <2>5
      <4> HIDE DEF d
      <4>5. Len(d.direct) <= MaxLen /\ d.length = Len(d.direct) /\ d.length <= Len(d.direct)
        BY <1>8, <1>9, <4>1, <4>2
      <4>6. IsInjective(d.direct) /\ r \notin ToSet(d.direct)
        BY <1>9, <1>10, <4>1
      <4> QED
        BY <3>3, <4>3, <4>4, <4>5, <4>6 DEF FileRight
    <3> QED
      BY <3>2, <3>3
  <2>9. Made(p)' = {} /\ ToGive(p)' = {} /\ ToGive(p) = {}
    <3> HIDE DEF T, R
    <3> QED
      BY <1>18, <2>6 DEF Made, ToGive, T
  <2>10. OwnersRight(p)'
    <3>1. \A g : Whole(g)' = Whole(g)
      BY <2>4 DEF Whole
    <3>2. Owns' = Owns \cup Made(p)
      <4>1. Owns = UNION {Whole(g) : g \in File} /\ Owns' = UNION {Whole(g) : g \in File \cup {r}}
        BY <2>2, <3>1 DEF Owns
      <4> QED
        BY <1>11, <2>7, <4>1
    <3>3. \A g \in File : Whole(g) \subseteq Owns
      BY DEF Owns
    <3>4. /\ \A f, g \in File : f # g => Whole(f) \cap Whole(g) = {}
          /\ lost \subseteq FileSector /\ lost \cap Owns = {}
          /\ Made(p) \cap (Owns \cup lost) = {} /\ ToGive(p) \cap (Owns \cup lost) = {}
          /\ used = (0 .. 3) \cup lost \cup Owns \cup Made(p) \cup ToGive(p)
      BY <1>2 DEF OwnersRight
    <3>5. \A f, g \in File \cup {r} : f # g => Whole(f) \cap Whole(g) = {}
      BY <1>11, <2>7, <3>3, <3>4
    <3>6. \A f, g \in File' : f # g => Whole(f)' \cap Whole(g)' = {}
      BY <2>2, <3>1, <3>5
    <3> QED
      BY <1>3, <2>9, <3>2, <3>4, <3>6 DEF OwnersRight
  <2> QED
    BY <2>3, <2>8, <2>10
<1>22. /\ R[1].op = "close"
       /\ ~Has(R, DataOps \cup {"unlock"}) /\ ~Has(T, {"unlock"})
       /\ ~Has(R, Making \cup {"create", "zero", "erase", "deny", "newfd", "setlength", "put"})
  BY <1>2, <1>5, <1>12 DEF CloseRoot, DataOps, Making, HeadFacts
<1>23. todo[p][1].op \in {"erase", "dirwrite"} /\ todo[p] # <<>> /\ ~Has(todo[p], {"unlock"})
       /\ RootOpen(todo[p])
  BY <1>2, <1>12, <1>22
<1>24. InDir' = E /\ (\A s \in FileSector : Caught(p, s)' => Caught(p, s)) =>
         HandleTypes' /\ Counted(p)' /\ Unnamed' /\ InodesRight(p)' /\ OwnersRight(p)'
  BY <1>20, <1>21
<1> HIDE DEF T, R, a, E
<1> QED
  BY <1>2, <1>3, <1>12, <1>16, <1>17, <1>18, <1>19, <1>22, <1>23, <1>24, DirStep

-----------------------------------------------------------------------------
\* What is left of a call once it closes a file: little.
Never == Making \cup Naming \cup {"create", "zero", "erase", "setlength", "put", "writeinode",
                                  "release", "unlock"}
RowRest(R) ==
  /\ R # <<>> => CloseRoot(R[1]) \/ R[1].op = "loaded"
  /\ \A b \in Tasks : b.op \in {"release", "flush"} => \A j \in 1 .. Len(R) : MayPrecede(b, R[j])
CloseFacts(s, T, R) ==
  /\ Fit(T) /\ Fit(R) /\ R \in Seq(Tasks) /\ RowRest(R) /\ s \in FileSector
  /\ ~RegHeld(T) /\ ~RegHeld(R) /\ (RootOpen(R) <=> RootOpen(T))
  /\ ~Has(T, Never) /\ ~Has(R, Never)
  /\ \A g \in FileSector : (HasOn(T, {"close"}, g) <=> g = s) /\ ~HasOn(R, {"close"}, g)

LEMMA CloseRest ==
  ASSUME NEW T, Fit(T), T # <<>>, T[1].op = "close", NEW s \in FileSector, s = T[1].sector,
         NEW R, R = Tail(T)
  PROVE  CloseFacts(s, T, R)
<1> DEFINE a == T[1]
<1>1. /\ HeadFacts(a, R, T) /\ Fit(R) /\ R \in Seq(Tasks)
      /\ R # <<>> => MayFollow(a, R[1])
      /\ \A j \in 1 .. Len(R) : MayPrecede(a, R[j])
      /\ a.op = "close" /\ a.sector = s
  BY HeadNow, FitRest DEF Fit
<1> HIDE DEF a
<1>2. ~CloseRoot(a) /\ s # FREE_MAP_SECTOR /\ s # ROOT_DIR_SECTOR
  BY <1>1, Sectors DEF CloseRoot
<1>3. R # <<>> => CloseRoot(R[1]) \/ R[1].op = "loaded"
  BY <1>1, <1>2 DEF MayFollow
<1>4. ~Has(R, Never)
  <2>1. \A d \in Tasks : d.op \in Never => ~MayPrecede(T[1], d)
    <3> SUFFICES ASSUME NEW d \in Tasks, d.op \in Never, MayPrecede(a, d) PROVE FALSE
      BY DEF a
    <3>1. d.op \in Naming => FALSE
      BY <1>1, <1>2 DEF MayPrecede, Naming
    <3>2. d.op \in Making \cup {"create", "zero", "erase", "setlength", "put", "writeinode",
                                "release", "unlock"} => FALSE
      BY <1>1, <1>2 DEF MayPrecede, Making
    <3> QED
      BY <3>1, <3>2 DEF Never
  <2> QED
    BY <2>1, NotLater
<1>5. ~Has(T, Never)
  <2>1. "close" \notin Never
    BY DEF Never, Making, Naming
  <2> QED
    BY <1>1, <1>4, <2>1 DEF HeadFacts
<1>6. ~RegHeld(R)
  <2>1. \A j \in 1 .. Len(R) : R[j].op \notin Naming
    BY <1>4 DEF Has, Never
  <2> QED
    BY <2>1 DEF RegHeld
<1>7. ~RegHeld(T) /\ (RootOpen(R) <=> RootOpen(T))
  BY <1>1, <1>2, <1>6 DEF HeadFacts, Naming, OpenRoot
<1>8. \A g \in FileSector : ~HasOn(R, {"close"}, g)
  <2> SUFFICES ASSUME NEW g \in FileSector, HasOn(R, {"close"}, g) PROVE FALSE
    OBVIOUS
  <2>1. PICK j \in 1 .. Len(R) : R[j].op = "close" /\ R[j].sector = g
    BY DEF HasOn
  <2>2. MayPrecede(a, R[j])
    BY <1>1
  <2> QED
    BY <1>1, <2>1, <2>2 DEF MayPrecede
<1>9. \A g \in FileSector : HasOn(T, {"close"}, g) <=> g = s
  BY <1>1, <1>8 DEF HeadFacts
<1>10. \A b \in Tasks : b.op \in {"release", "flush"} => \A j \in 1 .. Len(R) : MayPrecede(b, R[j])
  <2> SUFFICES ASSUME NEW b \in Tasks, b.op \in {"release", "flush"}, NEW j \in 1 .. Len(R)
               PROVE  MayPrecede(b, R[j])
    OBVIOUS
  <2> DEFINE d == R[j]
  <2>1. MayPrecede(a, d) /\ d.op \notin Never /\ d \in Tasks
    BY <1>1, <1>4 DEF Has
  <2>2. d.op = "close" => d.sector \notin FileSector
    BY <1>1, <2>1 DEF MayPrecede
  <2>3. d.op \notin {"newfd", "deny", "header", "create", "newinode", "unique", "dirwrite", "zero", "erase",
                     "setlength", "put", "writeinode", "release", "unlock"}
    BY <2>1 DEF Never, Making, Naming
  <2> HIDE DEF d
  <2>4. MayPrecede(b, d)
    BY <1>1, <1>2, <2>1, <2>2, <2>3 DEF MayPrecede
  <2> QED
    BY <2>4 DEF d
<1> QED
  BY <1>1, <1>3, <1>4, <1>5, <1>6, <1>7, <1>8, <1>9, <1>10 DEF CloseFacts, RowRest

\* The same task for each sector of a file, before that.
RowOf(N, o, q) ==
  /\ N \in Seq(Tasks) /\ Len(N) = Len(q)
  /\ \A i \in 1 .. Len(N) : N[i].op = o /\ N[i].sector = q[i]
RowFacts(o, q, R, U) ==
  /\ Fit(U) /\ U \in Seq(Tasks) /\ (U # <<>> => U[1].op # "lock")
  /\ \A ops : Has(U, ops) => o \in ops \/ Has(R, ops)
  /\ \A ops, f : HasOn(U, ops, f) <=> (o \in ops /\ f \in ToSet(q)) \/ HasOn(R, ops, f)
  /\ (RegHeld(U) <=> RegHeld(R)) /\ (RootOpen(U) <=> RootOpen(R))
  /\ \A ops : AtHead(U, ops) => o \in ops \/ AtHead(R, ops)
RowShape(N, R, U) == U = N \o R

LEMMA RowPlan ==
  ASSUME NEW R, Fit(R), RowRest(R), NEW o \in {"release", "flush"}, NEW q \in Seq(FileSector),
         o = "release" => IsInjective(q) /\ ~Has(R, {"release"}),
         NEW N, RowOf(N, o, q), NEW U, RowShape(N, R, U)
  PROVE  RowFacts(o, q, R, U)
<1>1. R \in Seq(Tasks) /\ N \in Seq(Tasks)
  BY DEF Fit, RowOf
<1>2. \A i \in 1 .. Len(N) : N[i] \in Tasks /\ N[i].op = o /\ N[i].sector \in FileSector /\ N[i].sector = q[i]
                             /\ i \in 1 .. Len(q)
  BY <1>1 DEF RowOf
<1>3. \A i \in 1 .. Len(N) : Meant(N[i]) /\ N[i].op = o
  <2> TAKE i \in 1 .. Len(N)
  <2> DEFINE b == N[i]
  <2>1. b.op = o /\ b.sector \in FileSector
    BY <1>2
  <2> HIDE DEF b
  <2>2. Meant(b)
    BY <2>1 DEF Meant
  <2> QED
    BY <1>2, <2>2 DEF b
<1>4. \A i \in 1 .. Len(N), j \in 1 .. Len(N) : MayFollow(N[i], N[j]) /\ MayPrecede(N[i], N[j])
  <2> TAKE i \in 1 .. Len(N), j \in 1 .. Len(N)
  <2> DEFINE b == N[i]
  <2> DEFINE d == N[j]
  <2>1. b.op = o /\ b.sector \in FileSector /\ d.op = o /\ d.sector \in FileSector
    BY <1>2
  <2> HIDE DEF b, d
  <2>2. MayFollow(b, d) /\ MayPrecede(b, d)
    BY <2>1, Sectors DEF MayFollow, MayPrecede
  <2> QED
    BY <2>2 DEF b, d
<1>5. R # <<>> => \A i \in 1 .. Len(N) : MayFollow(N[i], R[1])
  <2> SUFFICES ASSUME R # <<>>, NEW i \in 1 .. Len(N) PROVE MayFollow(N[i], R[1])
    OBVIOUS
  <2> DEFINE b == N[i]
  <2> DEFINE d == R[1]
  <2>1. b.op = o /\ b.sector \in FileSector /\ (CloseRoot(d) \/ d.op = "loaded")
    BY <1>2 DEF RowRest
  <2> HIDE DEF b, d
  <2>2. MayFollow(b, d)
    BY <2>1, Sectors DEF MayFollow
  <2> QED
    BY <2>2 DEF b, d
<1>6. R = <<>> => \A i \in 1 .. Len(N) : MayEnd(N[i])
  <2> SUFFICES ASSUME NEW i \in 1 .. Len(N) PROVE MayEnd(N[i])
    OBVIOUS
  <2> DEFINE b == N[i]
  <2>1. b.op = o /\ b.sector \in FileSector
    BY <1>2
  <2> HIDE DEF b
  <2>2. MayEnd(b)
    BY <2>1, Sectors DEF MayEnd
  <2> QED
    BY <2>2 DEF b
<1>7. R # <<>> => R[1].op # "lock"
  BY DEF RowRest, CloseRoot
<1>8. \A i \in 1 .. Len(N), j \in 1 .. Len(R) : MayPrecede(N[i], R[j])
  BY <1>2 DEF RowRest
<1>9. o = "release" => \A i \in 1 .. Len(N), j \in 1 .. Len(N) : N[i].sector = N[j].sector => i = j
  BY <1>2 DEF IsInjective
<1>10. Fit(U)
  <2>1. Fit(N \o R)
    BY <1>1, <1>3, <1>4, <1>5, <1>6, <1>7, <1>8, <1>9, FitRow
  <2> QED
    BY <2>1 DEF RowShape
<1>11. /\ \A ops : Has(U, ops) <=> (Has(N, ops) \/ Has(R, ops))
       /\ \A ops, f : HasOn(U, ops, f) <=> (HasOn(N, ops, f) \/ HasOn(R, ops, f))
       /\ RegHeld(U) <=> RegHeld(R)
       /\ RootOpen(U) <=> RootOpen(R)
  <2>1. \A i \in 1 .. Len(N) : N[i].op = o
    BY <1>2
  <2>2. /\ \A ops : Has(N \o R, ops) <=> (Has(N, ops) \/ Has(R, ops))
        /\ \A ops, f : HasOn(N \o R, ops, f) <=> (HasOn(N, ops, f) \/ HasOn(R, ops, f))
        /\ RegHeld(N \o R) <=> RegHeld(R)
        /\ RootOpen(N \o R) <=> RootOpen(R)
    BY <1>1, <2>1, OnRow
  <2> QED
    BY <2>2 DEF RowShape
<1>12. \A ops : Has(N, ops) => o \in ops
  BY <1>2 DEF Has
<1>13. \A ops, f : HasOn(N, ops, f) <=> (o \in ops /\ f \in ToSet(q))
  <2> TAKE ops, f
  <2>1. ASSUME HasOn(N, ops, f) PROVE o \in ops /\ f \in ToSet(q)
    <3>1. PICK i \in 1 .. Len(N) : N[i].op \in ops /\ N[i].sector = f
      BY <2>1 DEF HasOn
    <3>2. f = q[i] /\ i \in DOMAIN q /\ o \in ops
      BY <1>2, <3>1
    <3> QED
      BY <3>2 DEF ToSet
  <2>2. ASSUME o \in ops, f \in ToSet(q) PROVE HasOn(N, ops, f)
    <3>1. PICK i \in 1 .. Len(q) : f = q[i]
      BY <2>2 DEF ToSet
    <3>2. i \in 1 .. Len(N)
      BY <3>1 DEF RowOf
    <3>3. N[i].op = o /\ N[i].sector = f
      BY <1>2, <3>1, <3>2
    <3> QED
      BY <2>2, <3>2, <3>3 DEF HasOn
  <2> QED
    BY <2>1, <2>2
<1>14. U # <<>> => U[1] = (IF N = <<>> THEN R[1] ELSE N[1]) /\ (N = <<>> => R # <<>>)
  <2>1. CASE N = <<>>
    <3>1. U = R
      BY <1>1, <2>1 DEF RowShape
    <3> QED
      BY <2>1, <3>1
  <2>2. CASE N # <<>>
    <3>1. U[1] = N[1]
      BY <1>1, <2>2 DEF RowShape
    <3> QED
      BY <2>2, <3>1
  <2> QED
    BY <2>1, <2>2
<1>15. N # <<>> => N[1].op = o
  <2> SUFFICES ASSUME N # <<>> PROVE N[1].op = o
    OBVIOUS
  <2>1. 1 \in 1 .. Len(N)
    BY <1>1
  <2> QED
    BY <1>2, <2>1
<1>16. U # <<>> => U[1].op # "lock"
  BY <1>7, <1>14, <1>15
<1>17. \A ops : AtHead(U, ops) => o \in ops \/ AtHead(R, ops)
  BY <1>14, <1>15 DEF AtHead
<1>18. U \in Seq(Tasks)
  BY <1>10 DEF Fit
<1>19. \A ops : Has(U, ops) => o \in ops \/ Has(R, ops)
  BY <1>11, <1>12
<1>20. \A ops, f : HasOn(U, ops, f) <=> (o \in ops /\ f \in ToSet(q)) \/ HasOn(R, ops, f)
  BY <1>11, <1>13
<1> QED
  BY <1>10, <1>11, <1>16, <1>17, <1>18, <1>19, <1>20 DEF RowFacts

-----------------------------------------------------------------------------
\* A handle on a file is closed: whatever else this does, the inode counts one
\* handle less and the call has none on it any more.
CloseEnd(s, T, U) ==
  /\ ~Has(U, Never \ {"release"}) /\ ~RegHeld(U) /\ (RootOpen(U) <=> RootOpen(T))
  /\ \A g \in FileSector : ~HasOn(U, {"close"}, g)
  /\ ~AtHead(U, {"off"}) /\ ~AtHead(U, {"load"}) /\ ~AtHead(U, {"open"}) /\ ~AtHead(U, {"readat"})
OneLess(s) ==
  /\ inode' \in [Sector -> Inodes] /\ \A t \in Sector : t # s => inode'[t] = inode[t]
  /\ inode'[s].cnt = inode[s].cnt - 1 /\ inode'[s].deny = inode[s].deny
  /\ inode'[s].cnt = 0 => inode'[s] = Closed
  /\ inode'[s].cnt # 0 => inode'[s].loaded = inode[s].loaded

LEMMA CloseMove ==
  ASSUME NEW p \in Proc, Focus(p), mode = "up", mode' = mode, todo[p] # <<>>,
         todo[p][1].op = "close", NEW s \in FileSector, s = todo[p][1].sector,
         NEW U, Moves(p, U), todo'[p] = U, CloseEnd(s, todo[p], U), OneLess(s),
         UNCHANGED <<disk, cache, used, fd, exec, leaked, fsLock, reg, miss, lost>>,
         SameStore(p) => Unnamed' /\ InodesRight(p)' /\ OwnersRight(p)'
  PROVE  Focus(p)'
<1> DEFINE T == todo[p]
<1> DEFINE R == Tail(T)
<1>1. /\ T # <<>> /\ Fit(T) /\ ~Quiet(p)
      /\ Plans /\ Turn(p) /\ CacheRight(p) /\ DiskRight /\ HandleTypes
      /\ SystemData(p) /\ SystemInodes(p) /\ Counted(p) /\ LoadedRight(p)
  <2>1. Plans /\ T = todo[p]
    BY DEF Focus
  <2>2. Fit(T) /\ ~Quiet(p)
    BY <2>1 DEF Plans, Quiet
  <2> HIDE DEF T
  <2> QED
    BY <2>1, <2>2 DEF Focus, T
<1>2. CloseFacts(s, T, R)
  <2> HIDE DEF T, R
  <2> QED
    BY <1>1, CloseRest DEF T, R
<1>3. /\ U \in Seq(Tasks) /\ s \in Sector
      /\ ~Has(U, Making \cup {"create", "zero", "erase", "deny", "newfd", "setlength", "put"})
      /\ ~Has(U, {"unlock"}) /\ ~Has(T, {"unlock"})
  <2>1. Making \cup {"create", "zero", "erase", "deny", "newfd", "setlength", "put"} \subseteq Never \ {"release"}
        /\ "unlock" \in Never \ {"release"}
    BY DEF Never, Naming, Making
  <2>2. ~Has(U, Never \ {"release"}) /\ ~Has(T, Never)
    BY <1>2 DEF CloseEnd, CloseFacts
  <2>3. U \in Seq(Tasks) /\ s \in Sector
    BY Sectors DEF Moves, Fit
  <2> HIDE DEF T
  <2> QED
    BY <2>1, <2>2, <2>3 DEF Has
<1>4. HandleTypes'
  <2>1. \A t \in Sector : inode'[t].cnt = 0 => inode'[t] = Closed
    BY <1>1 DEF OneLess, HandleTypes
  <2> QED
    BY <1>1, <2>1 DEF HandleTypes, OneLess
<1>5. SystemInodes(p)'
  <2>1. ~AtHead(T, {"off"}) /\ ~AtHeadOn(T, "flush", MapData)
    BY DEF AtHead, AtHeadOn
  <2>2. inode[FREE_MAP_SECTOR] = FreeMapInode
    BY <1>1, <2>1 DEF SystemInodes
  <2>3. \A t \in {FREE_MAP_SECTOR, MapData, RootData, ROOT_DIR_SECTOR} : inode'[t] = inode[t]
    BY Sectors DEF OneLess
  <2>4. RootOpen(U) <=> RootOpen(todo[p])
    BY DEF CloseEnd
  <2> QED
    BY <1>1, <2>2, <2>3, <2>4 DEF SystemInodes
<1>6. \A f \in FileSector : ~Held(p, f)' /\ (Held(p, f) <=> f = s)
  <2>1. \A f : ~AtHeadOn(T, "open", f)
    BY DEF AtHeadOn
  <2>2. ~RegHeld(T) /\ \A g \in FileSector : HasOn(T, {"close"}, g) <=> g = s
    BY <1>2 DEF CloseFacts
  <2>3. ~RegHeld(U) /\ \A g \in FileSector : ~HasOn(U, {"close"}, g)
    BY DEF CloseEnd
  <2> HIDE DEF T
  <2> QED
    BY <2>1, <2>2, <2>3 DEF Held, T
<1>7. Counted(p)'
  <2> SUFFICES ASSUME NEW f \in FileSector
               PROVE  /\ inode'[f].cnt = leaked[f] + Cardinality(Executing(f)) + Cardinality(Opened(f)) + 0
                      /\ inode'[f].deny = Cardinality(Executing(f))
    <3>1. \A f : Executing(f)' = Executing(f) /\ Opened(f)' = Opened(f)
      BY KeepExec
    <3> QED
      BY <1>6, <3>1 DEF Counted
  <2> DEFINE E == Cardinality(Executing(f))
  <2> DEFINE O == Cardinality(Opened(f))
  <2>1. /\ inode[f].cnt = leaked[f] + E + O + (IF f = s THEN 1 ELSE 0)
        /\ inode[f].deny = E
    BY <1>1, <1>6 DEF Counted
  <2>2. E \in Nat /\ O \in Nat /\ leaked[f] \in Nat
    BY <1>1, Cards
  <2>3. f \in Sector
    BY Sectors
  <2> HIDE DEF E, O
  <2>4. CASE f = s
    <3>1. inode'[f].cnt = inode[f].cnt - 1 /\ inode'[f].deny = inode[f].deny
      BY <2>4 DEF OneLess
    <3>2. inode[f].cnt = leaked[f] + E + O + 1 /\ inode[f].deny = E
      BY <2>1, <2>4
    <3>3. inode[f].cnt - 1 = leaked[f] + E + O + 0
      BY <2>2, <3>2
    <3> QED
      BY <3>1, <3>2, <3>3 DEF E, O
  <2>5. CASE f # s
    <3>1. inode'[f] = inode[f]
      BY <2>3, <2>5 DEF OneLess
    <3>2. inode[f].cnt = leaked[f] + E + O + 0 /\ inode[f].deny = E
      BY <2>1, <2>5
    <3> QED
      BY <3>1, <3>2 DEF E, O
  <2> QED
    BY <2>4, <2>5 DEF E, O
<1>8. LoadedRight(p)'
  <2>1. \A t \in {ROOT_DIR_SECTOR} \cup FileSector : inode[t].cnt > 0 => inode[t].loaded
    BY <1>1 DEF LoadedRight, AtHeadOn
  <2>2. \A t \in {ROOT_DIR_SECTOR} \cup FileSector : inode'[t].cnt > 0 => inode'[t].loaded
    <3> TAKE t \in {ROOT_DIR_SECTOR} \cup FileSector
    <3>1. t \in Sector
      BY Sectors
    <3>2. CASE t = s
      <4>1. inode'[s] \in Inodes
        BY <1>3 DEF OneLess
      <4>2. inode'[s].cnt \in Nat
        BY <4>1 DEF Inodes
      <4>3. inode[s].cnt > 0
        <5>1. inode[s].cnt # 0 /\ inode[s].cnt \in Nat
          <6>1. Cardinality(Executing(s)) \in Nat /\ Cardinality(Opened(s)) \in Nat /\ leaked[s] \in Nat
            BY <1>1, Cards
          <6>2. inode[s].cnt = leaked[s] + Cardinality(Executing(s)) + Cardinality(Opened(s)) + 1
            BY <1>1, <1>6 DEF Counted
          <6> QED
            BY <6>1, <6>2
        <5> QED
          BY <5>1
      <4>4. inode[s].loaded
        BY <2>1, <4>3
      <4>5. inode'[s].cnt > 0 => inode'[s].cnt # 0
        BY <4>2
      <4> QED
        BY <3>2, <4>4, <4>5 DEF OneLess
    <3>3. CASE t # s
      BY <2>1, <3>1, <3>3 DEF OneLess
    <3> QED
      BY <3>2, <3>3
  <2> QED
    BY <2>2 DEF LoadedRight, CloseEnd
<1>9. NewRight(p)' /\ NamesRight(p)' /\ DataRight(p)'
  <2>1. ~AtHead(U, {"readat"}) /\ ~AtHead(U, {"open"})
    BY DEF CloseEnd
  <2> QED
    BY <1>3, <2>1, Calm
<1>10. /\ used' \subseteq Sector /\ used' = used /\ reg' \in [Proc -> Seq(FileSector)]
       /\ \A q \in Proc : fd[q] # None => fd'[q] # None /\ fd'[q].sector = fd[q].sector
       /\ Has(U, {"unlock"}) <=> Has(T, {"unlock"})
       /\ RootOpen(T) => RootOpen(U)
       /\ ~AtHead(U, {"off"})
  BY <1>1, <1>3 DEF Plans, DiskRight, CloseEnd
<1>11. ~Has(U, {"unlock"})
  BY <1>3
<1> HIDE DEF T
<1> QED
  BY <1>1, <1>4, <1>5, <1>7, <1>8, <1>9, <1>10, <1>11, InodeStep DEF T

-----------------------------------------------------------------------------
\* What is known when a file is to be closed.
CloseStart(p, s) ==
  /\ s \in FileSector /\ s \in Sector /\ s \in File /\ inode[s] \in Inodes /\ inode[s].cnt > 0 /\ inode[s].loaded
  /\ FileRight(p, s) /\ InodeOf(s) = inode[s].data
  /\ \A g : ~Growing(p, g) /\ ~Writing(p, g)
  /\ Made(p) = {} /\ ToGive(p) = {} /\ File \subseteq FileSector
  /\ inode[s].cnt = 1 => inode[s].deny = 0

LEMMA CloseNow ==
  ASSUME NEW p \in Proc, Focus(p), todo[p] # <<>>, todo[p][1].op = "close",
         NEW s \in FileSector, s = todo[p][1].sector
  PROVE  CloseStart(p, s) /\ CloseFacts(s, todo[p], Tail(todo[p])) /\ ~Quiet(p)
<1> DEFINE T == todo[p]
<1> DEFINE R == Tail(T)
<1>1. /\ T # <<>> /\ Fit(T) /\ ~Quiet(p)
      /\ Plans /\ HandleTypes /\ Counted(p) /\ LoadedRight(p) /\ InodesRight(p)
      /\ OwnersRight(p) /\ DiskRight /\ SystemData(p)
  <2>1. Plans /\ T = todo[p]
    BY DEF Focus
  <2>2. Fit(T) /\ ~Quiet(p)
    BY <2>1 DEF Plans, Quiet
  <2> HIDE DEF T
  <2> QED
    BY <2>1, <2>2 DEF Focus, T
<1>2. CloseFacts(s, T, R)
  <2> HIDE DEF T, R
  <2> QED
    BY <1>1, CloseRest DEF T, R
<1>3. Held(p, s)
  BY <1>2 DEF Held, CloseFacts, AtHeadOn
<1>4. /\ inode[s].cnt = leaked[s] + Cardinality(Executing(s)) + Cardinality(Opened(s)) + 1
      /\ inode[s].deny = Cardinality(Executing(s))
  BY <1>1, <1>3 DEF Counted
<1>5. leaked[s] \in Nat /\ Cardinality(Executing(s)) \in Nat /\ Cardinality(Opened(s)) \in Nat
  BY <1>1, Cards
<1>6. inode[s].cnt > 0 /\ (inode[s].cnt = 1 => inode[s].deny = 0)
  BY <1>4, <1>5
<1>7. s \in Sector /\ inode[s] \in Inodes
  BY <1>1, Sectors DEF HandleTypes
<1>8. inode[s].loaded
  BY <1>1, <1>6 DEF LoadedRight, AtHeadOn
<1>9. s \in File
  BY <1>6 DEF File
<1>10. FileRight(p, s) /\ InodeOf(s) = inode[s].data
  BY <1>1, <1>8, <1>9 DEF InodesRight, InodeOf
<1>11. \A ops : ops \subseteq Never => ~Has(T, ops) /\ \A g : ~HasOn(T, ops, g)
  <2>1. ~Has(T, Never)
    BY <1>2 DEF CloseFacts
  <2> HIDE DEF T
  <2> QED
    BY <2>1 DEF Has, HasOn
<1>12. {"setlength"} \subseteq Never /\ {"setlength", "writeinode"} \subseteq Never
       /\ Making \subseteq Never /\ {"release"} \subseteq Never
  BY DEF Never
<1>13. (\A g : ~Growing(p, g) /\ ~Writing(p, g)) /\ Made(p) = {} /\ ToGive(p) = {}
  BY <1>11, <1>12 DEF Growing, Writing, Made, ToGive, T
<1>14. File \subseteq FileSector
  BY <1>1, FileFacts
<1> QED
  BY <1>1, <1>2, <1>6, <1>7, <1>8, <1>9, <1>10, <1>13, <1>14 DEF CloseStart, T, R

LEMMA CloseEndOf ==
  ASSUME NEW T, NEW R, NEW s, CloseFacts(s, T, R), NEW o \in {"release", "flush"},
         NEW q \in Seq(FileSector), NEW U, U = R \/ RowFacts(o, q, R, U)
  PROVE  /\ CloseEnd(s, T, U)
         /\ \A ops : ops \cap {"release", "flush"} = {} /\ ops \subseteq Never => ~Has(U, ops)
<1>1. \A ops : Has(U, ops) => o \in ops \/ Has(R, ops)
  BY Zenon DEF RowFacts
<1>2. ~Has(R, Never)
  BY DEF CloseFacts
<1>3. ~Has(U, Never \ {"release"})
  <2>1. ~Has(R, Never \ {"release"})
    BY <1>2 DEF Has
  <2>2. o \notin Never \ {"release"}
    BY DEF Never, Making, Naming
  <2> QED
    BY <1>1, <2>1, <2>2
<1>4. \A g \in FileSector : ~HasOn(U, {"close"}, g)
  <2>1. \A g \in FileSector : ~HasOn(R, {"close"}, g)
    BY DEF CloseFacts
  <2>2. \A g : HasOn(U, {"close"}, g) => "close" = o \/ HasOn(R, {"close"}, g)
    BY DEF RowFacts
  <2> QED
    BY <2>1, <2>2
<1>5. ~RegHeld(U) /\ (RootOpen(U) <=> RootOpen(T))
  BY DEF RowFacts, CloseFacts
<1>6. \A ops : AtHead(U, ops) => o \in ops \/ AtHead(R, ops)
  BY Zenon DEF RowFacts
<1>7. ~AtHead(R, {"off"}) /\ ~AtHead(R, {"load"}) /\ ~AtHead(R, {"open"}) /\ ~AtHead(R, {"readat"})
  BY DEF CloseFacts, RowRest, AtHead, CloseRoot
<1>8. ~AtHead(U, {"off"}) /\ ~AtHead(U, {"load"}) /\ ~AtHead(U, {"open"}) /\ ~AtHead(U, {"readat"})
  BY <1>6, <1>7
<1>9. \A ops : ops \cap {"release", "flush"} = {} /\ ops \subseteq Never => ~Has(U, ops)
  <2>1. \A ops : ops \subseteq Never => ~Has(R, ops)
    BY <1>2 DEF Has
  <2> QED
    BY <1>1, <2>1
<1> QED
  BY <1>3, <1>4, <1>5, <1>8, <1>9 DEF CloseEnd

\* Another handle stays.
Shared(s) == inode' = [inode EXCEPT ![s].cnt = @ - 1]

LEMMA CloseShared ==
  ASSUME NEW p \in Proc, Focus(p), mode = "up", mode' = mode, todo[p] # <<>>,
         todo[p][1].op = "close", NEW s \in FileSector, s = todo[p][1].sector,
         inode[s].cnt > 1, Shared(s), Then(p, <<>>),
         UNCHANGED <<disk, cache, used, fd, exec, leaked, fsLock, reg, miss, lost>>
  PROVE  Focus(p)'
<1> DEFINE T == todo[p]
<1> DEFINE R == Tail(T)
<1>1. CloseStart(p, s) /\ CloseFacts(s, T, R) /\ ~Quiet(p)
  BY CloseNow
<1>2. Plans /\ HandleTypes /\ OwnersRight(p) /\ InodesRight(p) /\ Unnamed
  BY DEF Focus
<1>3. CloseEnd(s, T, R) /\ \A ops : ops \cap {"release", "flush"} = {} /\ ops \subseteq Never => ~Has(R, ops)
  <2>1. <<>> \in Seq(FileSector)
    OBVIOUS
  <2> HIDE DEF T, R
  <2> QED
    BY <1>1, <2>1, CloseEndOf
<1>4. Moves(p, R) /\ todo'[p] = R
  <2>1. Fit(R) /\ R \in Seq(Tasks) /\ (R # <<>> => CloseRoot(R[1]) \/ R[1].op = "loaded")
    BY <1>1 DEF CloseFacts, RowRest
  <2>2. R = <<>> \o Tail(todo[p])
    BY <2>1
  <2>3. R # <<>> => R[1].op # "lock"
    BY <2>1 DEF CloseRoot
  <2> HIDE DEF R
  <2> QED
    BY <1>2, <2>1, <2>2, <2>3, ThenMoves
<1> HIDE DEF T, R
<1>5. inode \in [Sector -> Inodes] /\ s \in Sector /\ inode[s] \in Inodes
  BY <1>1, <1>2 DEF HandleTypes, CloseStart
<1> DEFINE n == [inode[s] EXCEPT !.cnt = inode[s].cnt - 1]
<1>6. inode' = [inode EXCEPT ![s] = n]
  BY SMTT(30) DEF Shared
<1>7. /\ n \in Inodes /\ n.cnt = inode[s].cnt - 1 /\ n.cnt > 0 /\ n.deny = inode[s].deny
      /\ n.removed = inode[s].removed /\ n.loaded = inode[s].loaded /\ n.data = inode[s].data
  BY <1>5, SMTT(30) DEF Inodes
<1> HIDE DEF n
<1>8. inode' \in [Sector -> Inodes] /\ inode'[s] = n /\ \A t \in Sector : t # s => inode'[t] = inode[t]
  BY <1>5, <1>6, <1>7
<1>9. inode[s].cnt > 0 /\ n.cnt # 0
  BY <1>1, <1>7, SMTT(30) DEF CloseStart, Inodes
<1>10. OneLess(s)
  BY <1>7, <1>8, <1>9 DEF OneLess
<1>11. \A t \in FileSector : /\ inode'[t].cnt > 0 <=> inode[t].cnt > 0
                             /\ inode'[t].removed = inode[t].removed
                             /\ InodeOf(t)' = InodeOf(t)
  <2> TAKE t \in FileSector
  <2>1. t \in Sector
    BY Sectors
  <2> QED
    BY <1>7, <1>8, <1>9, <2>1 DEF InodeOf
<1>12. ASSUME SameStore(p) PROVE Unnamed' /\ InodesRight(p)' /\ OwnersRight(p)'
  <2>1. Named' = Named /\ \A t : Caught(p, t)' <=> Caught(p, t)
    BY <1>12 DEF SameStore
  <2>2. File' = File /\ File \subseteq FileSector
    <3>1. File = Named \cup {t \in FileSector : inode[t].cnt > 0}
          /\ File' = Named' \cup {t \in FileSector : inode'[t].cnt > 0}
      BY DEF File, Named
    <3> QED
      BY <1>1, <1>11, <2>1, <3>1 DEF CloseStart
  <2>3. Unnamed'
    BY <1>2, <1>11, <2>1 DEF Unnamed
  <2>4. \A g : ~Growing(p, g) /\ ~Writing(p, g)
    BY <1>1 DEF CloseStart
  <2>5. InodesRight(p)'
    BY <1>2, <1>11, <2>1, <2>2, <2>4, KeepInodes
  <2>6. Made(p)' = Made(p) /\ ToGive(p)' = ToGive(p)
    <3>1. ~Has(R, Making) /\ ~Has(R, {"release"})
      <4>1. Making \cap {"release", "flush"} = {} /\ Making \subseteq Never
        BY DEF Making, Never
      <4>2. ~Has(R, Never) /\ "release" \in Never
        BY <1>1 DEF CloseFacts, Never
      <4> QED
        BY <1>3, <4>1, <4>2 DEF Has
    <3>2. Made(p)' = {}
      BY <1>4, <3>1 DEF Made
    <3>3. ToGive(p)' = {}
      BY <1>4, <3>1, HasOnHas DEF ToGive
    <3> QED
      BY <1>1, <3>2, <3>3 DEF CloseStart
  <2>7. OwnersRight(p)'
    BY <1>2, <1>11, <2>2, <2>6, KeepOwners
  <2> QED
    BY <2>3, <2>5, <2>7
<1> QED
  BY <1>3, <1>4, <1>10, <1>12, CloseMove DEF T

-----------------------------------------------------------------------------
\* The tasks for the sectors of a file, and of the inode before them.
LEMMA RowMade ==
  ASSUME NEW o \in {"release", "flush"}, NEW q \in Seq(FileSector),
         NEW N, N = [i \in 1 .. Len(q) |-> Task(o, q[i], 0)]
  PROVE  RowOf(N, o, q)
<1>1. o \in Op /\ FileSector \subseteq Sector /\ 0 \in Arguments
  BY Sectors DEF Op, Arguments
<1>2. \A f \in FileSector : /\ Task(o, f, 0) \in Tasks
                            /\ Task(o, f, 0).op = o /\ Task(o, f, 0).sector = f
  BY <1>1 DEF Task, Tasks
<1>3. Len(q) \in Nat /\ \A i \in 1 .. Len(q) : q[i] \in FileSector
  OBVIOUS
<1>4. N \in [1 .. Len(q) -> Tasks]
  BY <1>2, <1>3
<1>5. N \in Seq(Tasks) /\ Len(N) = Len(q)
  BY <1>3, <1>4
<1>6. \A i \in 1 .. Len(N) : N[i] = Task(o, q[i], 0)
  BY <1>5
<1> QED
  BY <1>2, <1>3, <1>5, <1>6 DEF RowOf

WithShape(o, s, q, N, x, M) == x = <<s>> \o q /\ M = <<Task(o, s, 0)>> \o N

LEMMA RowWith ==
  ASSUME NEW o \in {"release", "flush"}, NEW q \in Seq(FileSector), NEW N, RowOf(N, o, q),
         NEW s \in FileSector, IsInjective(q), s \notin ToSet(q),
         NEW x, NEW M, WithShape(o, s, q, N, x, M)
  PROVE  RowOf(M, o, x) /\ x \in Seq(FileSector) /\ IsInjective(x) /\ ToSet(x) = {s} \cup ToSet(q)
<1> DEFINE b == Task(o, s, 0)
<1>1. b \in Tasks /\ b.op = o /\ b.sector = s
  BY Sectors DEF Task, Tasks, Op, Arguments
<1>2. N \in Seq(Tasks) /\ Len(N) = Len(q) /\ \A i \in 1 .. Len(N) : N[i].op = o /\ N[i].sector = q[i]
  BY DEF RowOf
<1> HIDE DEF b
<1>3. /\ M \in Seq(Tasks) /\ Len(M) = Len(N) + 1 /\ Len(N) \in Nat /\ M[1] = b
      /\ \A i \in 2 .. Len(N) + 1 : M[i] = N[i - 1]
  <2>1. M = <<b>> \o N
    BY DEF b, WithShape
  <2> QED
    BY <1>1, <1>2, <2>1, ConsOf
<1>4. /\ x \in Seq(FileSector) /\ Len(x) = Len(q) + 1 /\ x[1] = s
      /\ \A i \in 2 .. Len(q) + 1 : x[i] = q[i - 1]
  BY ConsOf DEF WithShape
<1>5. \A i \in 1 .. Len(M) : M[i].op = o /\ M[i].sector = x[i]
  <2> TAKE i \in 1 .. Len(M)
  <2>1. CASE i = 1
    BY <2>1, <1>1, <1>3, <1>4
  <2>2. CASE i # 1
    <3>1. i \in 2 .. Len(N) + 1 /\ i - 1 \in 1 .. Len(N)
      BY <2>2, <1>3
    <3> QED
      BY <3>1, <1>2, <1>3, <1>4
  <2> QED
    BY <2>1, <2>2
<1>6. IsInjective(x)
  <2> SUFFICES ASSUME NEW i \in 1 .. Len(x), NEW j \in 1 .. Len(x), x[i] = x[j] PROVE i = j
    BY <1>4 DEF IsInjective
  <2>1. \A k \in 1 .. Len(x) : k # 1 => k - 1 \in 1 .. Len(q) /\ x[k] = q[k - 1]
    BY <1>4
  <2>2. \A k \in 1 .. Len(q) : q[k] # s
    BY DEF ToSet
  <2>3. \A k \in 1 .. Len(q), l \in 1 .. Len(q) : q[k] = q[l] => k = l
    BY DEF IsInjective
  <2>4. CASE i = 1
    BY <2>4, <1>4, <2>1, <2>2
  <2>5. CASE j = 1
    BY <2>5, <1>4, <2>1, <2>2
  <2>6. CASE i # 1 /\ j # 1
    <3>1. q[i - 1] = q[j - 1] /\ i - 1 \in 1 .. Len(q) /\ j - 1 \in 1 .. Len(q)
      BY <2>1, <2>6
    <3>2. i - 1 = j - 1
      BY <2>3, <3>1
    <3>3. i \in Int /\ j \in Int
      BY <1>4
    <3> QED
      BY <3>2, <3>3
  <2> QED
    BY <2>4, <2>5, <2>6
<1>7. ToSet(x) = {s} \cup ToSet(q)
  <2>1. ASSUME NEW y \in ToSet(x) PROVE y \in {s} \cup ToSet(q)
    <3>1. PICK i \in 1 .. Len(x) : x[i] = y
      BY <1>4, <2>1 DEF ToSet
    <3>2. i = 1 \/ (i - 1 \in 1 .. Len(q) /\ x[i] = q[i - 1])
      BY <1>4
    <3> QED
      BY <3>1, <3>2, <1>4 DEF ToSet
  <2>2. s \in ToSet(x)
    <3>1. 1 \in 1 .. Len(x)
      BY <1>4
    <3> QED
      BY <3>1, <1>4 DEF ToSet
  <2>3. ASSUME NEW y \in ToSet(q) PROVE y \in ToSet(x)
    <3>0. y \in {q[i] : i \in DOMAIN q} /\ DOMAIN q = 1 .. Len(q)
      BY <2>3 DEF ToSet
    <3>1. PICK i \in 1 .. Len(q) : q[i] = y
      BY <3>0
    <3>2. i + 1 \in 1 .. Len(x) /\ x[i + 1] = q[i + 1 - 1] /\ i + 1 - 1 = i
      BY <1>4
    <3>3. x[i + 1] = y /\ i + 1 \in DOMAIN x
      BY <3>1, <3>2, <1>4
    <3> QED
      BY <3>3 DEF ToSet
  <2> QED
    BY <2>1, <2>2, <2>3
<1> QED
  BY <1>2, <1>3, <1>4, <1>5, <1>6, <1>7 DEF RowOf

\* What is known once the last handle is gone.
Shut(s) == inode' = [inode EXCEPT ![s] = Closed]
ShutFacts(p, s, U) ==
  /\ Moves(p, U) /\ todo'[p] = U /\ CloseEnd(s, todo[p], U) /\ OneLess(s)
  /\ inode'[s] = Closed /\ \A t \in Sector : t # s => inode'[t] = inode[t]
  /\ Made(p)' = {}

LEMMA ShutMove ==
  ASSUME NEW p \in Proc, Focus(p), mode = "up", mode' = mode, todo[p] # <<>>,
         todo[p][1].op = "close", NEW s \in FileSector, s = todo[p][1].sector,
         inode[s].cnt = 1, Shut(s),
         NEW o \in {"release", "flush"}, NEW q \in Seq(FileSector), NEW N, RowOf(N, o, q),
         o = "release" => IsInjective(q), Then(p, N)
  PROVE  \E U : /\ ShutFacts(p, s, U)
                /\ ToGive(p)' = IF o = "release" THEN ToSet(q) ELSE {}
<1> DEFINE T == todo[p]
<1> DEFINE R == Tail(T)
<1> DEFINE U == N \o R
<1>1. CloseStart(p, s) /\ CloseFacts(s, T, R) /\ ~Quiet(p)
  BY CloseNow
<1>2. Plans /\ HandleTypes
  BY DEF Focus
<1>3. RowFacts(o, q, R, U)
  <2>1. Fit(R) /\ RowRest(R) /\ ~Has(R, {"release"})
    <3>1. ~Has(R, Never) /\ "release" \in Never
      BY <1>1 DEF CloseFacts, Never
    <3> QED
      BY <1>1, <3>1 DEF CloseFacts, Has
  <2>2. RowShape(N, R, U)
    BY DEF RowShape
  <2> HIDE DEF R, U
  <2> QED
    BY <2>1, <2>2, RowPlan
<1>4. CloseEnd(s, T, U) /\ \A ops : ops \cap {"release", "flush"} = {} /\ ops \subseteq Never => ~Has(U, ops)
  <2> HIDE DEF T, R, U
  <2> QED
    BY <1>1, <1>3, CloseEndOf
<1>5. Moves(p, U) /\ todo'[p] = U
  <2>1. Fit(U) /\ (U # <<>> => U[1].op # "lock")
    BY <1>3 DEF RowFacts
  <2>2. U = N \o Tail(todo[p])
    OBVIOUS
  <2> HIDE DEF U
  <2> QED
    BY <1>2, <2>1, <2>2, ThenMoves
<1>6. ~Has(R, Never) /\ \A ops : ops \subseteq Never => ~Has(R, ops) /\ \A f : ~HasOn(R, ops, f)
  <2>1. ~Has(R, Never)
    BY <1>1 DEF CloseFacts
  <2> HIDE DEF R
  <2> QED
    BY <2>1 DEF Has, HasOn
<1> HIDE DEF T, R, U
<1>7. inode \in [Sector -> Inodes] /\ s \in Sector /\ inode[s] \in Inodes
  BY <1>1, <1>2 DEF HandleTypes, CloseStart
<1>8. Closed \in Inodes /\ Closed.cnt = 0 /\ Closed.deny = 0
  BY DEF Closed, Inodes, OnDisks, OnDisk
<1>9. inode' \in [Sector -> Inodes] /\ inode'[s] = Closed /\ \A t \in Sector : t # s => inode'[t] = inode[t]
  BY <1>7, <1>8 DEF Shut
<1>10. OneLess(s)
  <2>1. inode[s].deny = 0
    BY <1>1 DEF CloseStart
  <2>2. inode'[s].cnt = inode[s].cnt - 1
    BY <1>8, <1>9
  <2> QED
    BY <1>8, <1>9, <2>1, <2>2 DEF OneLess
<1>11. Made(p)' = {}
  <2>1. Making \cap {"release", "flush"} = {} /\ Making \subseteq Never
    BY DEF Making, Never
  <2>2. ~Has(U, Making)
    BY <1>4, <2>1
  <2> QED
    BY <1>5, <2>2 DEF Made
<1>12. ToGive(p)' = IF o = "release" THEN ToSet(q) ELSE {}
  <2>1. {"release"} \subseteq Never
    BY DEF Never
  <2>2. \A f : ~HasOn(R, {"release"}, f)
    BY <1>6, <2>1
  <2>3. \A f : HasOn(U, {"release"}, f) <=> (o = "release" /\ f \in ToSet(q))
    BY <1>3, <2>2 DEF RowFacts
  <2>4. ToSet(q) \subseteq FileSector
    BY DEF ToSet
  <2>5. ToGive(p)' = {f \in FileSector : HasOn(U, {"release"}, f)}
    BY <1>5 DEF ToGive
  <2> QED
    BY <2>3, <2>4, <2>5
<1>13. ShutFacts(p, s, U)
  BY <1>4, <1>5, <1>9, <1>10, <1>11 DEF ShutFacts, T
<1> QED
  BY <1>12, <1>13

-----------------------------------------------------------------------------
\* The last handle on a file is closed.
LEMMA CloseLast ==
  ASSUME NEW p \in Proc, Focus(p), mode = "up", mode' = mode, todo[p] # <<>>,
         todo[p][1].op = "close", NEW s \in FileSector, s = todo[p][1].sector,
         inode[s].cnt = 1, Shut(s),
         NEW o \in {"release", "flush"}, NEW q \in Seq(FileSector), NEW N, RowOf(N, o, q),
         o = "release" => IsInjective(q) /\ ToSet(q) = Whole(s), Then(p, N),
         (o = "release") = inode[s].removed,
         UNCHANGED <<disk, cache, used, fd, exec, leaked, fsLock, reg, miss, lost>>
  PROVE  Focus(p)'
<1>1. PICK U : /\ ShutFacts(p, s, U)
               /\ ToGive(p)' = IF o = "release" THEN ToSet(q) ELSE {}
  BY ShutMove
<1>2. CloseStart(p, s)
  BY CloseNow
<1>3. OwnersRight(p) /\ InodesRight(p) /\ Unnamed
  BY DEF Focus
<1>4. inode'[s] = Closed /\ Closed.cnt = 0 /\ Closed.loaded = FALSE
      /\ \A t \in FileSector : t # s => inode'[t] = inode[t]
  BY <1>1, Sectors DEF ShutFacts, Closed
<1>5. s \in Named <=> o = "flush"
  <2>1. inode[s].removed = (s \notin Named)
    BY <1>2, <1>3, SMTT(30) DEF CloseStart, Unnamed
  <2> QED
    BY <2>1
<1>6. InodeOf(s) = disk[s] /\ Made(p) = {} /\ ToGive(p) = {} /\ (\A g : ~Growing(p, g) /\ ~Writing(p, g))
      /\ File \subseteq FileSector /\ s \in File
  BY <1>2 DEF CloseStart, FileRight
<1>7. ASSUME SameStore(p) PROVE Unnamed' /\ InodesRight(p)' /\ OwnersRight(p)'
  <2>1. Named' = Named /\ \A t : Caught(p, t)' <=> Caught(p, t)
    BY <1>7 DEF SameStore
  <2>2. File = Named \cup {t \in FileSector : inode[t].cnt > 0}
        /\ File' = Named \cup {t \in FileSector : inode'[t].cnt > 0}
    BY <2>1 DEF File, Named
  <2>3. \A t \in FileSector : inode'[t].cnt > 0 <=> (t # s /\ inode[t].cnt > 0)
    BY <1>4
  <2>4. File' = IF o = "flush" THEN File ELSE File \ {s}
    <3>1. CASE o = "flush"
      BY <3>1, <1>5, <1>6, <2>2, <2>3
    <3>2. CASE o # "flush"
      BY <3>2, <1>5, <1>6, <2>2, <2>3
    <3> QED
      BY <3>1, <3>2
  <2>5. \A t \in File : InodeOf(t)' = InodeOf(t)
    <3> TAKE t \in File
    <3>1. CASE t = s
      BY <3>1, <1>4, <1>6 DEF InodeOf
    <3>2. CASE t # s
      BY <3>2, <1>4, <1>6 DEF InodeOf
    <3> QED
      BY <3>1, <3>2
  <2>6. Unnamed'
    <3>1. \A t \in FileSector : inode'[t].cnt > 0 => inode'[t].removed = (t \notin Named)
      BY <1>3, <1>4, <2>3 DEF Unnamed
    <3> QED
      BY <2>1, <3>1 DEF Unnamed
  <2>7. InodesRight(p)'
    <3>1. File' \subseteq File
      BY <2>4
    <3> QED
      BY <1>3, <1>6, <2>1, <2>5, <3>1, KeepInodes
  <2>8. OwnersRight(p)'
    <3>1. Made(p)' = {} /\ ToGive(p)' = IF o = "release" THEN ToSet(q) ELSE {}
      BY <1>1 DEF ShutFacts
    <3>2. CASE o = "flush"
      <4>1. File' = File /\ Made(p)' = Made(p) /\ ToGive(p)' = ToGive(p)
        BY <1>6, <2>4, <3>1, <3>2
      <4> QED
        BY <1>3, <2>5, <4>1, KeepOwners
    <3>3. CASE o = "release"
      <4>1. File' = File \ {s} /\ ToGive(p)' = Whole(s)
        BY <2>4, <3>1, <3>3
      <4>2. \A t \in File : Whole(t)' = Whole(t)
        BY <2>5 DEF Whole
      <4>3. \A f, g \in File : f # g => Whole(f) \cap Whole(g) = {}
        BY <1>3 DEF OwnersRight
      <4>4. Owns = UNION {Whole(f) : f \in File} /\ Owns' = UNION {Whole(f) : f \in File \ {s}}
        BY <4>1, <4>2 DEF Owns
      <4>5. Owns = Owns' \cup Whole(s) /\ Whole(s) \cap Owns' = {}
        BY <1>6, <4>3, <4>4
      <4>6. /\ lost \subseteq FileSector /\ lost \cap Owns = {}
            /\ used = (0 .. 3) \cup lost \cup Owns \cup {} \cup {}
        BY <1>3, <1>6 DEF OwnersRight
      <4>7. \A f, g \in File' : f # g => Whole(f)' \cap Whole(g)' = {}
        BY <4>1, <4>2, <4>3
      <4> QED
        BY <3>1, <4>1, <4>5, <4>6, <4>7 DEF OwnersRight
    <3> QED
      BY <3>2, <3>3
  <2> QED
    BY <2>6, <2>7, <2>8
<1>8. Moves(p, U) /\ todo'[p] = U /\ CloseEnd(s, todo[p], U) /\ OneLess(s)
  BY <1>1 DEF ShutFacts
<1> QED
  BY <1>7, <1>8, CloseMove

LEMMA CloseFile ==
  ASSUME NEW p \in Proc, Focus(p), InodeClose(p), lost' = lost, S(p) \in FileSector
  PROVE  Focus(p)'
<1>1. /\ todo[p] # <<>> /\ todo[p][1].op = "close" /\ mode = "up" /\ S(p) = todo[p][1].sector
  BY Begin DEF InodeClose
<1>2. PICK s \in FileSector : s = todo[p][1].sector
  BY <1>1
<1>3. CloseStart(p, s)
  BY <1>1, <1>2, CloseNow
<1>4. inode[s] \in Inodes /\ inode[s].cnt \in Nat /\ inode[s].cnt > 0
      /\ inode[s].removed \in BOOLEAN
  BY <1>3 DEF CloseStart, Inodes
<1>5. mode' = mode /\ UNCHANGED <<disk, cache, used, fd, exec, leaked, fsLock, reg, miss, lost>>
  BY DEF InodeClose
<1>6. CASE inode[s].cnt > 1
  <2>1. Shared(s) /\ Then(p, <<>>)
    BY <1>1, <1>2, <1>6 DEF InodeClose, Shared
  <2> QED
    BY <1>1, <1>2, <1>5, <1>6, <2>1, CloseShared
<1>7. CASE ~(inode[s].cnt > 1)
  <2>1. inode[s].cnt = 1
    BY <1>4, <1>7
  <2> DEFINE q == inode[s].data.direct
  <2> DEFINE len == inode[s].data.length
  <2>2. /\ q \in Seq(FileSector) /\ IsInjective(q) /\ s \notin ToSet(q)
        /\ Whole(s) = {s} \cup ToSet(q) /\ len = Len(q)
    BY <1>3 DEF CloseStart, FileRight, Whole
  <2>3. /\ Shut(s)
        /\ Then(p, IF inode[s].removed
                   THEN <<Task("release", s, 0)>> \o [i \in 1 .. len |-> Task("release", q[i], 0)]
                   ELSE [i \in 1 .. len |-> Task("flush", q[i], 0)])
    BY <1>1, <1>2, <1>7, Zenon DEF InodeClose, Shut, ForEach
  <2> HIDE DEF q, len
  <2>4. CASE inode[s].removed = TRUE
    <3> DEFINE N == [i \in 1 .. Len(q) |-> Task("release", q[i], 0)]
    <3> DEFINE x == <<s>> \o q
    <3> DEFINE M == <<Task("release", s, 0)>> \o N
    <3>1. RowOf(N, "release", q)
      BY <2>2, RowMade
    <3>2. Then(p, M)
      BY <2>2, <2>3, <2>4
    <3> HIDE DEF N
    <3>4. WithShape("release", s, q, N, x, M)
      BY DEF WithShape
    <3> HIDE DEF M, x
    <3>3. RowOf(M, "release", x) /\ x \in Seq(FileSector) /\ IsInjective(x) /\ ToSet(x) = {s} \cup ToSet(q)
      BY <2>2, <3>1, <3>4, RowWith, SMTT(30)
    <3> QED
      BY <1>1, <1>2, <1>5, <2>1, <2>2, <2>3, <2>4, <3>2, <3>3, CloseLast
  <2>5. CASE inode[s].removed = FALSE
    <3> DEFINE N == [i \in 1 .. Len(q) |-> Task("flush", q[i], 0)]
    <3>1. RowOf(N, "flush", q)
      BY <2>2, RowMade
    <3>2. Then(p, N)
      BY <2>2, <2>3, <2>5
    <3> HIDE DEF N
    <3> QED
      BY <1>1, <1>2, <1>5, <2>1, <2>2, <2>3, <2>5, <3>1, <3>2, CloseLast
  <2> QED
    BY <1>4, <2>4, <2>5
<1> QED
  BY <1>6, <1>7

-----------------------------------------------------------------------------
\* The map and the directory are closed: their block goes to the disk.
DataSector(s) == IF s = FREE_MAP_SECTOR THEN MapData ELSE RootData
FlushShape(s, R, U) == U = <<Task("flush", DataSector(s), 0)>> \o R
SystemOps == Making \cup {"create", "zero", "erase", "setlength", "put", "writeinode", "release"}
SystemFacts(s, T, R, U) ==
  /\ HeadFacts(T[1], R, T) /\ HeadFacts(Task("flush", DataSector(s), 0), R, U)
  /\ Fit(U) /\ Fit(R) /\ ~Has(U, SystemOps) /\ ~Has(T, SystemOps)
  /\ s = FREE_MAP_SECTOR => ~RootOpen(T)
  /\ s = ROOT_DIR_SECTOR => RootOpen(T)
  /\ ~RootOpen(U)

LEMMA NoRootAfter ==
  ASSUME NEW R, Fit(R), R # <<>>, R[1].op \in {"off", "newfd", "deny", "header"}
  PROVE  ~RootOpen(R)
<1> DEFINE b == R[1]
<1> DEFINE Q == Tail(R)
<1>1. HeadFacts(b, Q, R) /\ Fit(Q) /\ (Q # <<>> => MayFollow(b, Q[1])) /\ b.op \in {"off", "newfd", "deny", "header"}
  BY HeadNow, FitRest
<1>2. ~CloseRoot(b)
  BY <1>1 DEF CloseRoot
<1>3. CASE b.op \in {"off", "newfd"}
  <2>1. Q = <<>>
    BY <1>3, LastTask
  <2>2. ~RootOpen(Q)
    BY <2>1, NothingIn
  <2> QED
    BY <1>1, <1>2, <2>2 DEF HeadFacts
<1>4. CASE b.op = "deny"
  BY <1>4, DenyPlan
<1>5. CASE b.op = "header"
  <2>1. Q # <<>> => Q[1].op = "loaded"
    BY <1>1, <1>5 DEF MayFollow
  <2> HIDE DEF Q
  <2>2. ~RootOpen(Q)
    <3>1. CASE Q = <<>>
      BY <3>1, NothingIn
    <3>2. CASE Q # <<>>
      <4>1. Tail(Q) = <<>> /\ HeadFacts(Q[1], Tail(Q), Q)
        BY <1>1, <2>1, <3>2, LastTask, HeadNow
      <4>2. ~RootOpen(Tail(Q))
        BY <4>1, NothingIn
      <4>3. ~CloseRoot(Q[1])
        BY <2>1, <3>2 DEF CloseRoot
      <4> QED
        BY <4>1, <4>2, <4>3 DEF HeadFacts
    <3> QED
      BY <3>1, <3>2
  <2> QED
    BY <1>1, <1>2, <2>2 DEF HeadFacts
<1> QED
  BY <1>1, <1>3, <1>4, <1>5

LEMMA SystemPlan ==
  ASSUME NEW T, Fit(T), T # <<>>, T[1].op = "close", NEW s \in {FREE_MAP_SECTOR, ROOT_DIR_SECTOR},
         s = T[1].sector, NEW R, R = Tail(T), NEW U, FlushShape(s, R, U)
  PROVE  SystemFacts(s, T, R, U)
<1> DEFINE a == T[1]
<1> DEFINE d == Task("flush", DataSector(s), 0)
<1>1. /\ HeadFacts(a, R, T) /\ Fit(R) /\ R \in Seq(Tasks)
      /\ R # <<>> => MayFollow(a, R[1])
      /\ R = <<>> => MayEnd(a)
      /\ \A j \in 1 .. Len(R) : MayPrecede(a, R[j])
      /\ a.op = "close" /\ a.sector = s
  BY HeadNow, FitRest DEF Fit
<1>2. d \in Tasks /\ d.op = "flush" /\ d.sector = DataSector(s)
      /\ DataSector(s) \in {MapData, RootData}
      /\ (s = FREE_MAP_SECTOR => DataSector(s) = MapData) /\ (s = ROOT_DIR_SECTOR => DataSector(s) = RootData)
  BY Sectors DEF Task, Tasks, Op, Arguments, DataSector
<1>3. U = <<d>> \o R
  BY DEF FlushShape
<1> HIDE DEF a, d
<1>4. ~Has(R, SystemOps)
  <2>1. \A e \in Tasks : e.op \in SystemOps => ~MayPrecede(T[1], e)
    <3> SUFFICES ASSUME NEW e \in Tasks, e.op \in SystemOps, MayPrecede(a, e) PROVE FALSE
      BY DEF a
    <3> QED
      BY <1>1 DEF MayPrecede, SystemOps, Making
  <2> QED
    BY <2>1, NotLater
<1>5. HeadFacts(d, R, U)
  BY <1>1, <1>2, <1>3, OneAhead
<1>6. ~Has(U, SystemOps) /\ ~Has(T, SystemOps)
  <2>1. "close" \notin SystemOps /\ "flush" \notin SystemOps
    BY DEF SystemOps, Making
  <2> QED
    BY <1>1, <1>2, <1>4, <1>5, <2>1 DEF HeadFacts
<1>7. /\ s = FREE_MAP_SECTOR => R # <<>> /\ R[1].op = "off"
      /\ s = ROOT_DIR_SECTOR /\ R # <<>> => R[1].op \in {"newfd", "deny", "header"}
  <2>1. s = FREE_MAP_SECTOR => ~MayEnd(a)
    BY <1>1 DEF MayEnd
  <2>2. R # <<>> => CASE s = FREE_MAP_SECTOR -> R[1].op = "off"
                      [] s = ROOT_DIR_SECTOR -> R[1].op \in {"newfd", "deny", "header"}
                      [] OTHER -> TRUE
    <3>1. R # <<>> => MayFollow(a, R[1])
      BY <1>1
    <3> QED
      BY <1>1, <3>1, Sectors DEF MayFollow
  <2> QED
    BY <1>1, <2>1, <2>2, Sectors
<1>8. ~RootOpen(R)
  <2>1. CASE R = <<>>
    BY <2>1, NothingIn
  <2>2. CASE R # <<>>
    BY <1>1, <1>7, <2>2, NoRootAfter
  <2> QED
    BY <2>1, <2>2
<1>9. ~RootOpen(U) /\ (s = FREE_MAP_SECTOR => ~RootOpen(T)) /\ (s = ROOT_DIR_SECTOR => RootOpen(T))
  <2>1. ~OpenRoot(a) /\ ~CloseRoot(d) /\ (CloseRoot(a) <=> s = ROOT_DIR_SECTOR)
    BY <1>1, <1>2 DEF OpenRoot, CloseRoot
  <2> QED
    BY <1>1, <1>5, <1>8, <2>1, Sectors DEF HeadFacts
<1>10. Fit(U)
  <2>1. R # <<>> => MayFollow(d, R[1])
    <3> SUFFICES ASSUME R # <<>> PROVE MayFollow(d, R[1])
      OBVIOUS
    <3> DEFINE e == R[1]
    <3>1. (s = FREE_MAP_SECTOR => e.op = "off") /\ (s = ROOT_DIR_SECTOR => e.op \in {"newfd", "deny", "header"})
      BY <1>7
    <3> HIDE DEF e
    <3>2. MayFollow(d, e)
      BY <1>2, <3>1, Sectors DEF MayFollow
    <3> QED
      BY <3>2 DEF e
  <2>2. R = <<>> => MayEnd(d)
    BY <1>2, <1>7, Sectors DEF MayEnd
  <2>3. \A j \in 1 .. Len(R) : MayPrecede(d, R[j])
    <3> TAKE j \in 1 .. Len(R)
    <3> DEFINE e == R[j]
    <3>1. MayPrecede(a, e) /\ e.op \notin SystemOps /\ e \in Tasks
      BY <1>1, <1>4 DEF Has
    <3> HIDE DEF e
    <3>2. MayPrecede(d, e)
      BY <1>1, <1>2, <3>1, Sectors DEF MayPrecede, SystemOps, Making
    <3> QED
      BY <3>2 DEF e
  <2>4. Meant(d)
    BY <1>2, Sectors DEF Meant
  <2>5. d.op \notin {"lock", "erase", "lookup", "grow", "allocate", "release"}
    BY <1>2
  <2>6. Fit(<<d>> \o R)
    BY <1>1, <1>2, <2>1, <2>2, <2>3, <2>4, <2>5, FitCons
  <2> QED
    BY <1>3, <2>6
<1> QED
  BY <1>1, <1>5, <1>6, <1>9, <1>10 DEF SystemFacts, a, d

-----------------------------------------------------------------------------
LEMMA SystemCloseMove ==
  ASSUME NEW p \in Proc, Focus(p), mode = "up", mode' = mode, todo[p] # <<>>,
         todo[p][1].op = "close", NEW s \in {FREE_MAP_SECTOR, ROOT_DIR_SECTOR},
         s = todo[p][1].sector, Shut(s),
         NEW U, Moves(p, U), todo'[p] = U, SystemFacts(s, todo[p], Tail(todo[p]), U),
         FlushShape(s, Tail(todo[p]), U),
         UNCHANGED <<disk, cache, used, fd, exec, leaked, fsLock, reg, miss, lost>>
  PROVE  Focus(p)'
<1> DEFINE T == todo[p]
<1> DEFINE R == Tail(T)
<1> DEFINE a == T[1]
<1> DEFINE d == Task("flush", DataSector(s), 0)
<1>1. /\ T # <<>> /\ Fit(T) /\ ~Quiet(p)
      /\ Plans /\ Turn(p) /\ CacheRight(p) /\ DiskRight /\ HandleTypes
      /\ SystemData(p) /\ SystemInodes(p) /\ Counted(p) /\ LoadedRight(p)
      /\ InodesRight(p) /\ OwnersRight(p) /\ Unnamed /\ NamesRight(p)
  <2>1. Plans /\ T = todo[p]
    BY DEF Focus
  <2>2. Fit(T) /\ ~Quiet(p)
    BY <2>1 DEF Plans, Quiet
  <2> HIDE DEF T
  <2> QED
    BY <2>1, <2>2 DEF Focus, T
<1>2. /\ HeadFacts(a, R, T) /\ HeadFacts(d, R, U) /\ Fit(U) /\ ~Has(U, SystemOps) /\ ~Has(T, SystemOps)
      /\ (s = FREE_MAP_SECTOR => ~RootOpen(T)) /\ (s = ROOT_DIR_SECTOR => RootOpen(T)) /\ ~RootOpen(U)
      /\ a.op = "close" /\ a.sector = s
  BY DEF SystemFacts
<1>3. d \in Tasks /\ d.op = "flush" /\ d.sector = DataSector(s)
      /\ (s = FREE_MAP_SECTOR => DataSector(s) = MapData) /\ (s = ROOT_DIR_SECTOR => DataSector(s) = RootData)
  BY Sectors DEF Task, Tasks, Op, Arguments, DataSector
<1>4. U = <<d>> \o Tail(T)
  BY DEF FlushShape
<1>5. U[1] = d /\ U # <<>> /\ U \in Seq(Tasks)
  BY <1>2 DEF HeadFacts
<1> HIDE DEF a, d, R, T
<1>6. \A ops : ops \cap {"close", "flush"} = {} =>
        (Has(U, ops) <=> Has(T, ops)) /\ \A f : HasOn(U, ops, f) <=> HasOn(T, ops, f)
  BY <1>2, <1>3 DEF HeadFacts
<1>7. \A f \in FileSector : HasOn(U, {"close"}, f) <=> HasOn(T, {"close"}, f)
  BY <1>2, <1>3, Sectors DEF HeadFacts
<1>8. RegHeld(U) <=> RegHeld(T)
  BY <1>2, <1>3 DEF HeadFacts, Naming
<1>9. \A f \in FileSector : Held(p, f)' <=> Held(p, f)
  <2>1. \A f : ~AtHeadOn(U, "open", f) /\ ~AtHeadOn(T, "open", f)
    BY <1>2, <1>3, <1>5 DEF AtHeadOn, a
  <2> QED
    BY <1>7, <1>8, <2>1 DEF Held, T
<1>10. inode \in [Sector -> Inodes] /\ s \in Sector /\ s \notin FileSector
  BY <1>1, Sectors DEF HandleTypes
<1>11. Closed \in Inodes /\ Closed.cnt = 0 /\ Closed.deny = 0 /\ Closed.removed = FALSE /\ Closed.loaded = FALSE
  BY DEF Closed, Inodes, OnDisks, OnDisk
<1>12. inode' \in [Sector -> Inodes] /\ inode'[s] = Closed /\ \A t \in Sector : t # s => inode'[t] = inode[t]
  BY <1>10, <1>11 DEF Shut
<1>13. \A t \in FileSector : inode'[t] = inode[t] /\ t \in Sector
  BY <1>10, <1>12, Sectors
<1>14. HandleTypes'
  BY <1>1, <1>12 DEF HandleTypes
<1>15. ~AtHead(T, {"off"}) /\ ~AtHeadOn(T, "flush", MapData) /\ ~AtHead(T, {"load"})
       /\ \A f : ~AtHeadOn(T, "load", f)
  BY <1>2 DEF AtHead, AtHeadOn, a
<1>16. SystemInodes(p)'
  <2>1. inode[FREE_MAP_SECTOR] = FreeMapInode
    BY <1>1, <1>15 DEF SystemInodes, T
  <2>2. inode'[MapData] = Closed /\ inode'[RootData] = Closed
    BY <1>1, <1>12, Sectors DEF SystemInodes
  <2>3. CASE s = FREE_MAP_SECTOR
    <3>1. inode'[ROOT_DIR_SECTOR] = inode[ROOT_DIR_SECTOR]
      BY <2>3, <1>12, Sectors
    <3>2. AtHeadOn(U, "flush", MapData)
      BY <1>3, <1>5, <2>3 DEF AtHeadOn
    <3>3. ~RootOpen(T) /\ ~RootOpen(U)
      BY <1>2, <2>3
    <3>4. inode'[FREE_MAP_SECTOR] = Closed
      BY <1>12, <2>3
    <3> QED
      BY <1>1, <2>2, <3>1, <3>2, <3>3, <3>4 DEF SystemInodes, T
  <2>4. CASE s = ROOT_DIR_SECTOR
    <3>1. inode'[FREE_MAP_SECTOR] = FreeMapInode /\ inode'[ROOT_DIR_SECTOR] = Closed
      BY <2>1, <2>4, <1>12, Sectors
    <3> QED
      BY <1>2, <1>11, <2>2, <3>1 DEF SystemInodes
  <2> QED
    BY <2>3, <2>4
<1>17. SameFds
  BY <1>1, SameFdsNow
<1>18. Counted(p)'
  BY <1>1, <1>9, <1>13, <1>17, KeepCounts
<1>19. LoadedRight(p)'
  <2>1. ~AtHead(U, {"load"})
    BY <1>3, <1>5 DEF AtHead
  <2>2. \A t \in {ROOT_DIR_SECTOR} \cup FileSector : inode[t].cnt > 0 => inode[t].loaded
    BY <1>1, <1>15 DEF LoadedRight, T
  <2>3. \A t \in {ROOT_DIR_SECTOR} \cup FileSector : inode'[t].cnt > 0 => inode'[t].loaded
    <3> TAKE t \in {ROOT_DIR_SECTOR} \cup FileSector
    <3>1. CASE t = s
      BY <3>1, <1>11, <1>12
    <3>2. CASE t # s
      BY <3>2, <1>12, <2>2, Sectors
    <3> QED
      BY <3>1, <3>2
  <2> QED
    BY <2>1, <2>3 DEF LoadedRight
<1>20. NewRight(p)' /\ DataRight(p)'
  <2>1. Making \cup {"create", "zero"} \subseteq SystemOps /\ {"setlength", "put"} \subseteq SystemOps
    BY DEF SystemOps
  <2>2. ~Has(U, Making \cup {"create", "zero"}) /\ ~Has(U, {"setlength", "put"})
    BY <1>2, <2>1 DEF Has
  <2>3. ~AtHead(U, {"readat"})
    BY <1>3, <1>5 DEF AtHead
  <2> QED
    BY <1>5, <2>2, <2>3, CalmNew, CalmData
<1>21. ASSUME SameStore(p)
       PROVE  Unnamed' /\ InodesRight(p)' /\ OwnersRight(p)' /\ NamesRight(p)'
  <2>1. InDir' = InDir /\ Named' = Named /\ \A t : Caught(p, t)' <=> Caught(p, t)
    BY <1>21 DEF SameStore
  <2>2. File' = File /\ File \subseteq FileSector
    <3>1. File = Named \cup {t \in FileSector : inode[t].cnt > 0}
          /\ File' = Named' \cup {t \in FileSector : inode'[t].cnt > 0}
      BY DEF File, Named
    <3> QED
      BY <1>1, <1>13, <2>1, <3>1, FileFacts
  <2>3. Unnamed'
    BY <1>1, <1>13, <2>1 DEF Unnamed
  <2>4. \A t \in File : InodeOf(t)' = InodeOf(t)
    BY <1>13, <2>2 DEF InodeOf
  <2>5. InodesRight(p)'
    <3>1. \A f : Growing(p, f)' <=> Growing(p, f)
      BY <1>6 DEF Growing, T
    <3>2. \A f : Writing(p, f)' <=> Writing(p, f)
      BY <1>6 DEF Writing, T
    <3> QED
      BY <1>1, <2>1, <2>2, <2>4, <3>1, <3>2, KeepInodes
  <2>6. OwnersRight(p)'
    <3>1. Made(p)' = Made(p) /\ ToGive(p)' = ToGive(p)
      <4>1. "close" \notin Making /\ "flush" \notin Making
        BY DEF Making
      <4>2. Has(U, Making) <=> Has(T, Making)
        BY <1>6, <4>1
      <4>3. \A f : HasOn(U, {"release"}, f) <=> HasOn(T, {"release"}, f)
        BY <1>6
      <4> QED
        BY <4>2, <4>3 DEF Made, ToGive, T
    <3> QED
      BY <1>1, <2>2, <2>4, <3>1, KeepOwners
  <2>7. NamesRight(p)'
    <3>2. \A i \in 1 .. Len(U) : U[i].op \in {"erase", "deny", "newfd"} => \E j \in 1 .. Len(T) : T[j] = U[i]
      <4> SUFFICES ASSUME NEW i \in 1 .. Len(U), U[i].op \in {"erase", "deny", "newfd"}
                   PROVE  \E j \in 1 .. Len(T) : T[j] = U[i]
        OBVIOUS
      <4>1. U[1] = d /\ \A k \in 2 .. Len(U) : U[k] = R[k - 1] /\ k - 1 \in 1 .. Len(R)
        BY <1>2 DEF HeadFacts
      <4>2. i # 1
        BY <1>3, <4>1
      <4>3. i \in 2 .. Len(U)
        BY <1>5, <4>2
      <4>4. U[i] = R[i - 1] /\ i - 1 \in 1 .. Len(R)
        BY <4>1, <4>3
      <4>5. \A k \in 1 .. Len(R) : \E j \in 1 .. Len(T) : T[j] = R[k]
        BY <1>1, InRest DEF R
      <4> QED
        BY <4>4, <4>5
    <3>3. AtHead(U, {"open"}) => U[1].sector = ROOT_DIR_SECTOR
      BY <1>3, <1>5 DEF AtHead
    <3> QED
      BY <1>1, <2>1, <3>2, <3>3, KeepNames DEF T
  <2> QED
    BY <2>3, <2>5, <2>6, <2>7
<1>22. /\ used' \subseteq Sector /\ used' = used /\ reg' \in [Proc -> Seq(FileSector)]
       /\ \A q \in Proc : fd[q] # None => fd'[q] # None /\ fd'[q].sector = fd[q].sector
  BY <1>1 DEF Plans, DiskRight
<1>23. /\ Has(U, {"unlock"}) <=> Has(T, {"unlock"})
       /\ \A f : HasOn(U, DataOps, f) /\ Has(U, {"unlock"}) => HasOn(T, DataOps, f)
  <2>1. "close" \notin DataOps /\ "flush" \notin DataOps
    BY DEF DataOps
  <2> QED
    BY <1>6, <2>1
<1>24. RootOpen(T) => RootOpen(U) \/ AtHeadOn(U, "flush", RootData)
  <2>1. s = ROOT_DIR_SECTOR => AtHeadOn(U, "flush", RootData)
    BY <1>3, <1>5 DEF AtHeadOn
  <2> QED
    BY <1>2, <2>1
<1>25. ~AtHead(U, {"off"})
  BY <1>3, <1>5 DEF AtHead
<1> QED
  BY <1>1, <1>14, <1>16, <1>18, <1>19, <1>20, <1>21, <1>22, <1>23, <1>24, <1>25, InodeStep DEF T

LEMMA FlushOne ==
  ASSUME NEW s, NEW n, n.data = OnDisk(<<DataSector(s)>>, 1)
  PROVE  ForEach("flush", n) = <<Task("flush", DataSector(s), 0)>>
<1>1. n.data.length = 1 /\ n.data.direct = <<DataSector(s)>>
  BY DEF OnDisk
<1>2. ForEach("flush", n) = [i \in 1 .. 1 |-> Task("flush", <<DataSector(s)>>[i], 0)]
  BY <1>1 DEF ForEach
<1>3. <<Task("flush", DataSector(s), 0)>> = [i \in 1 .. 1 |-> Task("flush", <<DataSector(s)>>[i], 0)]
  <2> DEFINE b == Task("flush", DataSector(s), 0)
  <2>1. \A i \in 1 .. 1 : <<DataSector(s)>>[i] = DataSector(s)
    OBVIOUS
  <2>2. [i \in 1 .. 1 |-> Task("flush", <<DataSector(s)>>[i], 0)] = [i \in 1 .. 1 |-> b]
    BY <2>1
  <2> HIDE DEF b
  <2>3. [i \in 1 .. 1 |-> b] = <<b>>
    OBVIOUS
  <2> QED
    BY <2>2, <2>3 DEF b
<1> QED
  BY <1>2, <1>3

\* What the inode of the map, or of the directory, is when it is closed.
LEMMA SystemInode ==
  ASSUME NEW p \in Proc, Focus(p), todo[p] # <<>>, todo[p][1].op = "close",
         NEW s \in {FREE_MAP_SECTOR, ROOT_DIR_SECTOR}, s = todo[p][1].sector
  PROVE  /\ inode[s].cnt = 1 /\ inode[s].removed = FALSE
         /\ inode[s].data = OnDisk(<<DataSector(s)>>, 1)
<1>1. SystemInodes(p) /\ LoadedRight(p) /\ Plans
  BY DEF Focus
<1>2. CASE s = FREE_MAP_SECTOR
  <2>1. inode[FREE_MAP_SECTOR] = FreeMapInode
    BY <1>1 DEF SystemInodes, AtHead, AtHeadOn
  <2> QED
    BY <1>2, <2>1 DEF FreeMapInode, Closed, DataSector
<1>3. CASE s = ROOT_DIR_SECTOR
  <2>1. RootOpen(todo[p])
    <3>1. Fit(todo[p])
      BY <1>1 DEF Plans
    <3> DEFINE a == todo[p][1]
    <3>2. CloseRoot(a) /\ ~OpenRoot(a)
      BY <1>3 DEF CloseRoot, OpenRoot
    <3>3. RootOpen(todo[p]) <=> (~OpenRoot(a) /\ (CloseRoot(a) \/ RootOpen(Tail(todo[p]))))
      BY <3>1, HeadOf
    <3> QED
      BY <3>2, <3>3
  <2>2. inode[ROOT_DIR_SECTOR].cnt = 1 /\ inode[ROOT_DIR_SECTOR].removed = FALSE
    BY <1>1, <2>1 DEF SystemInodes
  <2>3. inode[ROOT_DIR_SECTOR].loaded
    BY <1>1, <2>2 DEF LoadedRight, AtHeadOn
  <2> QED
    BY <1>1, <1>3, <2>2, <2>3, Sectors DEF SystemInodes, DataSector
<1> QED
  BY <1>2, <1>3

LEMMA CloseSystem ==
  ASSUME NEW p \in Proc, Focus(p), InodeClose(p), lost' = lost,
         NEW s \in {FREE_MAP_SECTOR, ROOT_DIR_SECTOR}, s = S(p)
  PROVE  Focus(p)'
<1>1. /\ todo[p] # <<>> /\ todo[p][1].op = "close" /\ mode = "up" /\ s = todo[p][1].sector
      /\ Fit(todo[p]) /\ Plans
  BY Begin DEF InodeClose
<1>2. inode[s].cnt = 1 /\ inode[s].removed = FALSE /\ inode[s].data = OnDisk(<<DataSector(s)>>, 1)
  BY <1>1, SystemInode
<1>3. ForEach("flush", inode[s]) = <<Task("flush", DataSector(s), 0)>>
  BY <1>2, FlushOne
<1>4. Shut(s) /\ Then(p, <<Task("flush", DataSector(s), 0)>>)
  <2>1. ~(inode[s].cnt > 1)
    BY <1>2
  <2> QED
    BY <1>1, <1>2, <1>3, <2>1 DEF InodeClose, Shut
<1>5. mode' = mode /\ UNCHANGED <<disk, cache, used, fd, exec, leaked, fsLock, reg, miss, lost>>
  BY DEF InodeClose
<1> DEFINE U == <<Task("flush", DataSector(s), 0)>> \o Tail(todo[p])
<1>6. FlushShape(s, Tail(todo[p]), U)
  BY DEF FlushShape
<1> HIDE DEF U
<1>7. SystemFacts(s, todo[p], Tail(todo[p]), U)
  BY <1>1, <1>6, SystemPlan
<1>8. Moves(p, U) /\ todo'[p] = U
  <2> DEFINE d == Task("flush", DataSector(s), 0)
  <2>1. Fit(U) /\ U # <<>> /\ U[1] = d /\ d.op = "flush"
    BY <1>7 DEF SystemFacts, HeadFacts, Task
  <2>2. U = <<d>> \o Tail(todo[p])
    BY DEF U
  <2>3. Then(p, <<d>>)
    BY <1>4
  <2> HIDE DEF d
  <2>4. U # <<>> => U[1].op # "lock"
    BY <2>1
  <2> QED
    BY <1>1, <2>1, <2>2, <2>3, <2>4, ThenMoves
<1> QED
  BY <1>1, <1>4, <1>5, <1>6, <1>7, <1>8, SystemCloseMove

LEMMA InodeCloseStep ==
  ASSUME NEW p \in Proc, Focus(p), InodeClose(p), lost' = lost
  PROVE  Focus(p)'
<1>1. Meant(todo[p][1]) /\ todo[p][1].op = "close" /\ S(p) = todo[p][1].sector
  BY Begin DEF InodeClose
<1> DEFINE a == todo[p][1]
<1>2. a.sector \in FileSector \cup {FREE_MAP_SECTOR, ROOT_DIR_SECTOR}
  <2>1. Meant(a) /\ a.op = "close"
    BY <1>1
  <2> HIDE DEF a
  <2> QED
    BY <2>1 DEF Meant
<1>3. CASE a.sector \in FileSector
  BY <1>1, <1>3, CloseFile
<1>4. CASE a.sector \in {FREE_MAP_SECTOR, ROOT_DIR_SECTOR}
  BY <1>1, <1>4, CloseSystem
<1> QED
  BY <1>2, <1>3, <1>4

-----------------------------------------------------------------------------
\* Plans that hold nothing but a place in a file: before and after the reading
\* and the writing of a block.
Plain(T) ==
  /\ \A ops : ops \cap {"lock", "read", "write", "unlock"} = {} =>
       ~Has(T, ops) /\ ~AtHead(T, ops) /\ \A f : ~HasOn(T, ops, f)
  /\ \A op, f : op \notin {"lock", "read", "write", "unlock"} => ~AtHeadOn(T, op, f)
  /\ ~RegHeld(T) /\ ~RootOpen(T)

LEMMA PlainQuiet ==
  ASSUME NEW T, Fit(T), T = <<>> \/ T[1].op = "lock"
  PROVE  Plain(T)
<1>1. /\ \A ops : ops \cap {"lock", "read", "write", "unlock"} = {} =>
              ~Has(T, ops) /\ ~AtHead(T, ops) /\ \A f : ~HasOn(T, ops, f)
      /\ \A op, f : op \notin {"lock", "read", "write", "unlock"} => ~AtHeadOn(T, op, f)
      /\ ~RegHeld(T) /\ ~RootOpen(T)
  BY QuietPlan
<1> QED
  BY <1>1 DEF Plain

LEMMA HeadHas ==
  ASSUME NEW T, Fit(T)
  PROVE  /\ \A ops : AtHead(T, ops) => Has(T, ops)
         /\ \A op, f : AtHeadOn(T, op, f) => Has(T, {op})
<1>1. T # <<>> => 1 \in 1 .. Len(T)
  BY TailOf DEF Fit
<1> QED
  BY <1>1 DEF AtHead, AtHeadOn, Has

LEMMA PlainTail ==
  ASSUME NEW T, Fit(T), T # <<>>, Plain(T)
  PROVE  Plain(Tail(T)) /\ Fit(Tail(T)) /\ Tail(T) \in Seq(Tasks)
<1> DEFINE R == Tail(T)
<1>1. /\ R \in Seq(Tasks) /\ Fit(R)
      /\ \A ops : Has(T, ops) <=> (T[1].op \in ops \/ Has(R, ops))
      /\ \A ops, f : HasOn(T, ops, f) <=> ((T[1].op \in ops /\ T[1].sector = f) \/ HasOn(R, ops, f))
      /\ RegHeld(T) <=> (T[1].op # "lookup" /\ (T[1].op \in Naming \/ RegHeld(R)))
      /\ RootOpen(T) <=> (~OpenRoot(T[1]) /\ (CloseRoot(T[1]) \/ RootOpen(R)))
  BY HeadOf
<1>2. \A op, f : op \notin {"lock", "read", "write", "unlock"} => ~AtHeadOn(T, op, f)
  BY DEF Plain
<1>3. T[1].op # "lookup" /\ ~OpenRoot(T[1])
  <2>1. ~AtHeadOn(T, "lookup", T[1].sector) /\ ~AtHeadOn(T, "open", T[1].sector)
    BY <1>2
  <2> QED
    BY <2>1 DEF AtHeadOn, OpenRoot
<1> HIDE DEF R
<1>4. ~RegHeld(R) /\ ~RootOpen(R)
  BY <1>1, <1>3 DEF Plain
<1>5. \A ops : ops \cap {"lock", "read", "write", "unlock"} = {} => ~Has(R, ops) /\ \A f : ~HasOn(R, ops, f)
  BY <1>1 DEF Plain
<1>6. (\A ops : AtHead(R, ops) => Has(R, ops)) /\ (\A op, f : AtHeadOn(R, op, f) => Has(R, {op}))
  BY <1>1, HeadHas
<1>7. \A op, f : op \notin {"lock", "read", "write", "unlock"} => ~AtHeadOn(R, op, f)
  <2> SUFFICES ASSUME NEW op, NEW f, op \notin {"lock", "read", "write", "unlock"}, AtHeadOn(R, op, f)
               PROVE  FALSE
    OBVIOUS
  <2>1. {op} \cap {"lock", "read", "write", "unlock"} = {}
    OBVIOUS
  <2> QED
    BY <1>5, <1>6, <2>1
<1> QED
  BY <1>1, <1>4, <1>5, <1>6, <1>7 DEF Plain, R

LEMMA PlainUnlock ==
  ASSUME NEW T, Fit(T), T # <<>>, T[1].op = "unlock"
  PROVE  Plain(T) /\ Tail(T) = <<>> /\ Plain(<<>>) /\ Fit(<<>>)
<1>1. Tail(T) = <<>> /\ Fit(Tail(T))
  BY LastTask, FitRest
<1>2. Plain(<<>>) /\ Fit(<<>>)
  BY <1>1, PlainQuiet
<1>3. HeadFacts(T[1], <<>>, T)
  BY <1>1, HeadNow
<1>4. \A ops : Has(T, ops) <=> "unlock" \in ops
  BY <1>3, NothingIn DEF HeadFacts
<1>5. ~RegHeld(T) /\ ~RootOpen(T)
  BY <1>3, NothingIn DEF HeadFacts, Naming, CloseRoot
<1>6. (\A ops : AtHead(T, ops) => Has(T, ops)) /\ (\A op, f : AtHeadOn(T, op, f) => op = "unlock")
  BY HeadHas DEF AtHeadOn
<1>7. \A ops, f : HasOn(T, ops, f) => Has(T, ops)
  BY HasOnHas
<1>8. \A ops : ops \cap {"lock", "read", "write", "unlock"} = {} =>
         ~Has(T, ops) /\ ~AtHead(T, ops) /\ \A f : ~HasOn(T, ops, f)
  BY <1>4, <1>6, <1>7
<1>9. \A op, f : op \notin {"lock", "read", "write", "unlock"} => ~AtHeadOn(T, op, f)
  BY <1>6
<1> QED
  BY <1>1, <1>2, <1>5, <1>8, <1>9 DEF Plain

LEMMA PlainFacts ==
  ASSUME NEW p, NEW T, Plain(T), T = todo[p]
  PROVE  /\ \A f : ~Held(p, f) /\ ~Growing(p, f) /\ ~Writing(p, f)
         /\ Made(p) = {} /\ ToGive(p) = {} /\ ~RootOpen(todo[p])
         /\ ~AtHead(todo[p], {"off"}) /\ ~AtHead(todo[p], {"mapwrite"})
         /\ \A s : ~AtHeadOn(todo[p], "load", s) /\ ~AtHeadOn(todo[p], "flush", s)
<1>1. \A ops : ops \cap {"lock", "read", "write", "unlock"} = {} =>
         ~Has(T, ops) /\ ~AtHead(T, ops) /\ \A f : ~HasOn(T, ops, f)
  BY DEF Plain
<1>2. Making \cap {"lock", "read", "write", "unlock"} = {}
  BY DEF Making
<1>3. \A f : ~Held(p, f)
  <2>1. ~RegHeld(T) /\ \A f : ~HasOn(T, {"close"}, f)
    BY <1>1 DEF Plain
  <2> QED
    BY <2>1 DEF Held
<1>4. \A f : ~Growing(p, f) /\ ~Writing(p, f)
  BY <1>1 DEF Growing, Writing
<1>5. Made(p) = {}
  BY <1>1, <1>2 DEF Made
<1>6. ToGive(p) = {}
  BY <1>1 DEF ToGive
<1>7. /\ ~AtHead(T, {"off"}) /\ ~AtHead(T, {"mapwrite"})
      /\ \A s : ~AtHeadOn(T, "load", s) /\ ~AtHeadOn(T, "flush", s)
  BY <1>1 DEF Plain
<1> QED
  BY <1>3, <1>4, <1>5, <1>6, <1>7 DEF Plain

-----------------------------------------------------------------------------
LEMMA PlainStep ==
  ASSUME NEW p \in Proc, Focus(p), mode = "up", mode' = mode, Plain(todo[p]),
         NEW U \in Seq(Tasks), Plain(U), todo'[p] = U, miss[p] = NoMiss,
         UNCHANGED <<disk, cache, used, inode, exec, leaked, reg, miss, lost>>,
         SameFds, fd' \in [Proc -> {None} \cup [sector : FileSector, pos : Nat]],
         Plans', Turn(p)'
  PROVE  Focus(p)'
<1>1. /\ CacheRight(p) /\ DiskRight /\ SystemData(p) /\ OwnersRight(p)
  BY DEF Focus
<1>2. \A s : Logical(s)' = Logical(s)
  <2> TAKE s
  <2>1. Logical(s) = LogicalOf(cache, miss, disk, s) /\ Logical(s)' = LogicalOf(cache', miss', disk', s)
    BY LogicalDef
  <2> QED
    BY <2>1
<1>3. \A s : Caught(p, s)' <=> Caught(p, s)
  <2>1. \A s : InCache(s)' <=> InCache(s)
    BY LogicalDef
  <2> QED
    BY <2>1 DEF Caught
<1>4. CacheRight(p)'
  <2>1. ~miss[p].yes /\ miss[p].victim = None
    BY DEF NoMiss
  <2>2. /\ cache' \in Seq(CachedBlocks) /\ Len(cache') <= CacheSize
        /\ \A i, j \in 1 .. Len(cache') : cache'[i].sector = cache'[j].sector => i = j
    BY <1>1 DEF CacheRight
  <2> QED
    BY <2>1, <2>2 DEF CacheRight
<1>5. DiskRight'
  BY <1>1 DEF DiskRight
<1>6. /\ \A f : ~Held(p, f) /\ ~Growing(p, f) /\ ~Writing(p, f)
      /\ Made(p) = {} /\ ToGive(p) = {} /\ ~RootOpen(todo[p])
      /\ ~AtHead(todo[p], {"off"}) /\ ~AtHead(todo[p], {"mapwrite"})
      /\ \A s : ~AtHeadOn(todo[p], "load", s) /\ ~AtHeadOn(todo[p], "flush", s)
  BY PlainFacts
<1>7. /\ \A ops : ops \cap {"lock", "read", "write", "unlock"} = {} =>
         ~Has(U, ops) /\ ~AtHead(U, ops) /\ \A f : ~HasOn(U, ops, f)
      /\ \A op, f : op \notin {"lock", "read", "write", "unlock"} => ~AtHeadOn(U, op, f)
      /\ ~RegHeld(U) /\ ~RootOpen(U)
  BY DEF Plain
<1>8. \A f : ~Held(p, f)'
  <2>1. \A f : ~HasOn(U, {"close"}, f)
    BY <1>7
  <2> QED
    BY <1>7, <2>1 DEF Held
<1>9. Made(p)' = {} /\ ToGive(p)' = {}
  <2>1. Making \cap {"lock", "read", "write", "unlock"} = {}
    BY DEF Making
  <2>2. ~Has(U, Making) /\ \A f : ~HasOn(U, {"release"}, f)
    BY <1>7, <2>1
  <2> QED
    BY <2>2 DEF Made, ToGive
<1>10. SystemData(p)'
  <2>1. ~AtHead(U, {"off"})
    BY <1>7
  <2> QED
    BY <1>1, <1>2, <1>6, <2>1, KeepSystemData
<1>11. /\ HandleTypes' /\ SystemInodes(p)' /\ Counted(p)' /\ Unnamed' /\ LoadedRight(p)'
       /\ InodesRight(p)' /\ OwnersRight(p)'
  <2>1. ~AtHead(todo'[p], {"load"}) /\ (RootOpen(todo'[p]) <=> RootOpen(todo[p]))
    BY <1>6, <1>7
  <2>2. Logical(RootData)' = Logical(RootData) /\ \A f \in File : disk'[f] = disk[f]
    BY <1>2
  <2>3. Made(p)' = Made(p) /\ ToGive(p)' = ToGive(p)
    BY <1>6, <1>9
  <2>4. \A f \in FileSector : Held(p, f)' <=> Held(p, f)
    BY <1>6, <1>8
  <2>5. \A f \in File : Caught(p, f)' => Caught(p, f)
    BY <1>3
  <2> QED
    BY <1>6, <2>1, <2>2, <2>3, <2>4, <2>5, Steady
<1>12. NewRight(p)' /\ NamesRight(p)' /\ DataRight(p)'
  <2>1. (Making \cup {"create", "zero", "erase", "deny", "newfd", "setlength", "put"})
          \cap {"lock", "read", "write", "unlock"} = {}
    BY DEF Making
  <2>2. ~Has(U, Making \cup {"create", "zero", "erase", "deny", "newfd", "setlength", "put"})
    BY <1>7, <2>1
  <2>3. ~AtHead(U, {"readat"}) /\ ~AtHead(U, {"open"})
    BY <1>7
  <2> QED
    BY <2>2, <2>3, Calm
<1>13. OffRight(p)'
  BY DEF OffRight
<1> QED
  BY <1>4, <1>5, <1>10, <1>11, <1>12, <1>13 DEF Focus

-----------------------------------------------------------------------------
\* filesys_lock.
LEMMA LockPlan ==
  ASSUME NEW T, Fit(T), T # <<>>, T[1].op = "lock"
  PROVE  /\ Plain(T) /\ Plain(Tail(T)) /\ Fit(Tail(T)) /\ Tail(T) \in Seq(Tasks)
         /\ Tail(T) # <<>> /\ Tail(T)[1].op # "lock" /\ Has(Tail(T), {"unlock"}) /\ Has(T, {"unlock"})
         /\ \A i \in 1 .. Len(Tail(T)) : \E j \in 1 .. Len(T) : T[j] = Tail(T)[i]
<1> DEFINE R == Tail(T)
<1>1. Plain(T)
  BY PlainQuiet
<1>2. Plain(R) /\ Fit(R) /\ R \in Seq(Tasks)
  BY <1>1, PlainTail
<1>3. Len(T) = 3 /\ T[3].op = "unlock"
  BY DEF Fit, Paired
<1>4. T \in Seq(Tasks)
  BY DEF Fit
<1>5. /\ Len(R) = Len(T) - 1 /\ \A i \in 2 .. Len(T) : T[i] = R[i - 1]
  BY <1>4, TailOf
<1>6. Len(R) = 2 /\ R[2].op = "unlock"
  <2>1. 3 - 1 = 2 /\ 3 \in 2 .. Len(T)
    BY <1>3
  <2>2. T[3] = R[3 - 1]
    BY <1>5, <2>1
  <2>3. T[3] = R[2]
    BY <2>1, <2>2, Zenon
  <2> QED
    BY <1>3, <1>5, <2>1, <2>3
<1>7. \A i \in 1 .. Len(R) : \E j \in 1 .. Len(T) : T[j] = R[i]
  BY InRest
<1> HIDE DEF R
<1>8. R # <<>>
  BY <1>6, EmptyLen, SMTT(30)
<1>9. Has(R, {"unlock"})
  <2>1. 2 \in 1 .. Len(R)
    BY <1>6
  <2> QED
    BY <1>6, <2>1 DEF Has
<1>10. Has(T, {"unlock"})
  <2>1. 3 \in 1 .. Len(T)
    BY <1>3
  <2> QED
    BY <1>3, <2>1 DEF Has
<1>11. R[1].op # "lock"
  <2>1. ~Has(R, {"lock", "load", "mapwrite"})
    BY AfterHead DEF R
  <2>2. 1 \in 1 .. Len(R)
    BY <1>6
  <2> QED
    BY <2>1, <2>2 DEF Has
<1> QED
  BY <1>1, <1>2, <1>7, <1>8, <1>9, <1>10, <1>11 DEF R

LEMMA LockFocus ==
  ASSUME NEW p \in Proc, NEW q \in Proc, Focus(p), Quiet(q), fsLock = None, ~Idle(q)
  PROVE  Focus(q)
<1>1. Turn(p) /\ p # None
  BY NoneAssumption DEF Focus
<1>2. CASE Quiet(p)
  BY <1>2, Refocus
<1>3. CASE ~Quiet(p)
  <2>1. ~Has(todo[p], {"unlock"})
    BY <1>1, <1>3 DEF Turn
  <2>2. \A r \in Proc \ {p} : Idle(r)
    BY <1>1, <1>3, <2>1 DEF Turn
  <2>3. q = p
    BY <2>2
  <2> QED
    BY <1>3, <2>3
<1> QED
  BY <1>2, <1>3

LEMMA LockStep ==
  ASSUME NEW p \in Proc, Focus(p), Lock(p), lost' = lost
  PROVE  Focus(p)'
<1>1. /\ todo[p] # <<>> /\ todo[p][1].op = "lock" /\ mode = "up" /\ Fit(todo[p])
      /\ Plans /\ Turn(p) /\ HandleTypes /\ CacheRight(p)
  BY Begin DEF Lock
<1> DEFINE T == todo[p]
<1> DEFINE R == Tail(T)
<1>2. /\ Plain(T) /\ Plain(R) /\ Fit(R) /\ R \in Seq(Tasks) /\ R # <<>> /\ R[1].op # "lock"
      /\ Has(R, {"unlock"}) /\ Has(T, {"unlock"}) /\ \A i \in 1 .. Len(R) : \E j \in 1 .. Len(T) : T[j] = R[i]
  BY <1>1, LockPlan
<1>3. /\ mode' = mode /\ UNCHANGED <<disk, cache, used, inode, fd, exec, leaked, reg, miss, lost>>
      /\ fsLock' = p /\ Then(p, <<>>)
  BY DEF Lock
<1>4. todo' = [todo EXCEPT ![p] = R]
  <2>1. R = <<>> \o Tail(todo[p])
    BY <1>2
  <2>2. todo' = [todo EXCEPT ![p] = <<>> \o Tail(todo[p])]
    BY <1>3 DEF Then
  <2> QED
    BY <2>1, <2>2
<1>5. todo \in [Proc -> Seq(Tasks)] /\ T = todo[p]
  BY <1>1 DEF Plans
<1> HIDE DEF T, R
<1>6. todo' \in [Proc -> Seq(Tasks)] /\ todo'[p] = R /\ \A q \in Proc \ {p} : todo'[q] = todo[q]
  BY <1>2, <1>4, <1>5
<1>7. miss[p] = NoMiss
  BY <1>1, QuietFacts DEF Quiet
<1>8. Plans'
  <2>1. \A q \in Proc : Fit(todo'[q])
    BY <1>1, <1>2, <1>6 DEF Plans
  <2>2. ASSUME NEW q \in Proc, Has(todo'[q], {"unlock"}), NEW i \in 1 .. Len(todo'[q]),
               todo'[q][i].op \in DataOps
        PROVE  fd[q] # None /\ todo'[q][i].sector = fd[q].sector
    <3>1. CASE q # p
      BY <1>1, <1>6, <2>2, <3>1 DEF Plans
    <3>2. CASE q = p
      <4>1. PICK j \in 1 .. Len(T) : T[j] = R[i]
        BY <1>2, <1>6, <2>2, <3>2
      <4>2. T[j].op \in DataOps => fd[p] # None /\ T[j].sector = fd[p].sector
        BY <1>1, <1>2, <1>5 DEF Plans
      <4> QED
        BY <1>6, <2>2, <3>2, <4>1, <4>2
    <3> QED
      BY <3>1, <3>2
  <2> QED
    BY <1>1, <1>3, <1>6, <2>1, <2>2 DEF Plans
<1>9. Turn(p)'
  <2>1. \A q \in Proc \ {p} : (Quiet(q) /\ miss[q] = NoMiss)'
    BY <1>1, <1>3, <1>6 DEF Turn, Quiet
  <2>2. ~Quiet(p)' /\ Has(todo'[p], {"unlock"})
    BY <1>2, <1>6 DEF Quiet
  <2> QED
    BY <1>3, <2>1, <2>2 DEF Turn
<1>10. SameFds /\ fd' \in [Proc -> {None} \cup [sector : FileSector, pos : Nat]]
  BY <1>1, <1>3, SameFdsNow
<1> QED
  BY <1>1, <1>2, <1>3, <1>5, <1>6, <1>7, <1>8, <1>9, <1>10, PlainStep

LEMMA UnlockStep ==
  ASSUME NEW p \in Proc, Focus(p), Unlock(p), lost' = lost
  PROVE  Focus(p)'
<1>1. /\ todo[p] # <<>> /\ todo[p][1].op = "unlock" /\ mode = "up" /\ Fit(todo[p])
      /\ Plans /\ Turn(p) /\ HandleTypes /\ CacheRight(p)
  BY Begin DEF Unlock
<1>2. Plain(todo[p]) /\ Tail(todo[p]) = <<>> /\ Plain(<<>>) /\ Fit(<<>>)
  BY <1>1, PlainUnlock
<1>3. /\ mode' = mode /\ UNCHANGED <<disk, cache, used, inode, fd, exec, leaked, reg, miss, lost>>
      /\ fsLock' = None /\ Then(p, <<>>)
  BY DEF Unlock
<1>4. todo' = [todo EXCEPT ![p] = <<>>]
  <2>1. todo' = [todo EXCEPT ![p] = <<>> \o Tail(todo[p])]
    BY <1>3 DEF Then
  <2>2. <<>> \o Tail(todo[p]) = <<>>
    <3>1. <<>> \o <<>> = <<>>
      OBVIOUS
    <3> QED
      BY <1>2, <3>1
  <2> QED
    BY <2>1, <2>2
<1>5. todo \in [Proc -> Seq(Tasks)] /\ <<>> \in Seq(Tasks)
  BY <1>1 DEF Plans
<1>6. todo' \in [Proc -> Seq(Tasks)] /\ todo'[p] = <<>> /\ \A q \in Proc \ {p} : todo'[q] = todo[q]
  BY <1>4, <1>5
<1>7. miss[p] = NoMiss
  <2>1. Wants(p) = None
    BY <1>1, WantsOf
  <2> QED
    BY <1>1, <1>3, <2>1, NoAccess, SMTT(30)
<1>8. Plans'
  <2>1. \A q \in Proc : Fit(todo'[q])
    BY <1>1, <1>2, <1>6 DEF Plans
  <2>2. ASSUME NEW q \in Proc, Has(todo'[q], {"unlock"}), NEW i \in 1 .. Len(todo'[q]),
               todo'[q][i].op \in DataOps
        PROVE  fd[q] # None /\ todo'[q][i].sector = fd[q].sector
    <3>1. q # p
      BY <1>6, <2>2, NothingIn
    <3> QED
      BY <1>1, <1>6, <2>2, <3>1 DEF Plans
  <2> QED
    BY <1>1, <1>3, <1>6, <2>1, <2>2 DEF Plans
<1>9. Turn(p)'
  <2>1. \A q \in Proc \ {p} : (Quiet(q) /\ miss[q] = NoMiss)'
    BY <1>1, <1>3, <1>6 DEF Turn, Quiet
  <2>2. Quiet(p)'
    BY <1>6 DEF Quiet
  <2> QED
    BY <1>3, <2>1, <2>2 DEF Turn
<1>10. SameFds /\ fd' \in [Proc -> {None} \cup [sector : FileSector, pos : Nat]]
  BY <1>1, <1>3, SameFdsNow
<1> QED
  BY <1>1, <1>2, <1>3, <1>5, <1>6, <1>7, <1>8, <1>9, <1>10, PlainStep

-----------------------------------------------------------------------------
\* A process that goes on with its call is the one the invariant is about.
LEMMA Chosen ==
  ASSUME NEW p \in Proc, NEW q \in Proc, Focus(q), ~Quiet(p) \/ miss[p] # NoMiss
  PROVE  Focus(p)
<1>1. Turn(q)
  BY DEF Focus
<1>2. p = q
  BY <1>1 DEF Turn
<1> QED
  BY <1>2

LEMMA AtWork ==
  ASSUME NEW p \in Proc, NEW q \in Proc, Focus(q), NEW op, Is(p, op), op # "lock"
  PROVE  Focus(p)
<1>1. todo[p] # <<>> /\ Head(todo[p]).op = op /\ todo[p] \in Seq(Tasks)
  BY DEF Is, Focus, Plans
<1>2. todo[p][1].op = op
  BY <1>1, TailOf
<1>3. ~Quiet(p)
  BY <1>1, <1>2 DEF Quiet
<1> QED
  BY <1>3, Chosen

LEMMA StepKeeps ==
  ASSUME "alone" \in Assume, NEW p \in Proc, NEW q \in Proc, Focus(q), Step(p)
  PROVE  Focus(p)'
<1>1. CASE Unique(p)
  <2>1. Focus(p)
    BY <1>1, AtWork DEF Unique
  <2> QED
    BY <1>1, <2>1, UniqueStep
<1>2. CASE lost' = lost /\ Miss(p)
  <2>1. todo[p] # <<>> /\ Wants(p) # None /\ Plans
    BY <1>2, SMTT(30) DEF Miss, Focus
  <2>2. todo[p][1].op # "lock"
    BY <2>1, WantsOf
  <2>3. ~Quiet(p)
    BY <2>1, <2>2 DEF Quiet
  <2> QED
    BY <1>2, <2>3, Chosen, MissStep
<1>3. CASE lost' = lost /\ Evict(p)
  <2>1. miss[p] # NoMiss
    BY <1>3 DEF Evict, NoMiss
  <2> QED
    BY <1>3, <2>1, Chosen, EvictStep
<1>4. CASE lost' = lost /\ MapWrite(p)
  <2>1. Focus(p)
    BY <1>4, AtWork DEF MapWrite
  <2> QED
    BY <1>4, <2>1, MapWriteStep
<1>5. CASE lost' = lost /\ FreeMapRelease(p)
  <2>1. Focus(p)
    BY <1>5, AtWork DEF FreeMapRelease
  <2> QED
    BY <1>5, <2>1, FreeMapReleaseStep
<1>6. CASE lost' = lost /\ InodeOpen(p)
  <2>1. Focus(p)
    BY <1>6, AtWork DEF InodeOpen
  <2> QED
    BY <1>6, <2>1, InodeOpenStep
<1>7. CASE lost' = lost /\ InodeLoad(p)
  <2>1. Focus(p)
    BY <1>7, AtWork DEF InodeLoad
  <2> QED
    BY <1>7, <2>1, InodeLoadStep
<1>8. CASE lost' = lost /\ InodeClose(p)
  <2>1. Focus(p)
    BY <1>8, AtWork DEF InodeClose
  <2> QED
    BY <1>8, <2>1, InodeCloseStep
<1>9. CASE lost' = lost /\ Flush(p)
  <2>1. Focus(p)
    BY <1>9, AtWork DEF Flush
  <2> QED
    BY <1>9, <2>1, FlushStep
<1>10. CASE lost' = lost /\ FilesysCreate(p)
  <2>1. Focus(p)
    BY <1>10, AtWork DEF FilesysCreate
  <2> QED
    BY <1>10, <2>1, FilesysCreateStep
<1>11. CASE lost' = lost /\ SectorAllocate(p)
  <2>1. Focus(p)
    BY <1>11, AtWork DEF SectorAllocate
  <2> QED
    BY <1>11, <2>1, SectorAllocateStep
<1>12. CASE lost' = lost /\ ZeroSector(p)
  <2>1. Focus(p)
    BY <1>12, AtWork DEF ZeroSector
  <2> QED
    BY <1>12, <2>1, ZeroSectorStep
<1>13. CASE lost' = lost /\ InodeCreate(p)
  <2>1. Focus(p)
    BY <1>13, AtWork DEF InodeCreate
  <2> QED
    BY <1>13, <2>1, InodeCreateStep
<1>14. CASE lost' = lost /\ ReadAt(p)
  <2>1. Focus(p)
    BY <1>14, AtWork DEF ReadAt
  <2> QED
    BY <1>14, <2>1, ReadAtStep
<1>15. CASE lost' = lost /\ ReadBlock(p)
  <2>1. Focus(p)
    BY <1>15, AtWork DEF ReadBlock
  <2> QED
    BY <1>15, <2>1, ReadBlockStep
<1>16. CASE lost' = lost /\ WriteAt(p)
  <2>1. Focus(p)
    BY <1>16, AtWork DEF WriteAt
  <2> QED
    BY <1>16, <2>1, WriteAtStep
<1>17. CASE lost' = lost /\ PutBlock(p)
  <2>1. Focus(p)
    BY <1>17, AtWork DEF PutBlock
  <2> QED
    BY <1>17, <2>1, PutBlockStep
<1>18. CASE lost' = lost /\ DirectAllocate(p)
  <2>1. Focus(p)
    BY <1>18, AtWork DEF DirectAllocate
  <2> QED
    BY <1>18, <2>1, DirectAllocateStep
<1>19. CASE lost' = lost /\ SetLength(p)
  <2>1. Focus(p)
    BY <1>19, AtWork DEF SetLength
  <2> QED
    BY <1>19, <2>1, SetLengthStep
<1>20. CASE lost' = lost /\ WriteInode(p)
  <2>1. Focus(p)
    BY <1>20, AtWork DEF WriteInode
  <2> QED
    BY <1>20, <2>1, WriteInodeStep
<1>21. CASE lost' = lost /\ Lookup(p)
  <2>1. Focus(p)
    BY <1>21, AtWork DEF Lookup
  <2> QED
    BY <1>21, <2>1, LookupStep
<1>22. CASE lost' = lost /\ Find(p)
  <2>1. Focus(p)
    BY <1>22, AtWork DEF Find
  <2> QED
    BY <1>22, <2>1, FindStep
<1>23. CASE lost' = lost /\ Erase(p)
  <2>1. Focus(p)
    BY <1>23, AtWork DEF Erase
  <2> QED
    BY <1>23, <2>1, EraseStep
<1>24. CASE lost' = lost /\ DirWrite(p)
  <2>1. Focus(p)
    BY <1>24, AtWork DEF DirWrite
  <2> QED
    BY <1>24, <2>1, DirWriteStep
<1>25. CASE lost' = lost /\ NewFd(p)
  <2>1. Focus(p)
    BY <1>25, AtWork DEF NewFd
  <2> QED
    BY <1>25, <2>1, NewFdStep
<1>26. CASE lost' = lost /\ Lock(p)
  <2>1. Focus(p)
    <3>1. fsLock = None /\ todo[p] # <<>> /\ Head(todo[p]).op = "lock" /\ todo[p] \in Seq(Tasks)
      BY <1>26 DEF Lock, Is, Focus, Plans
    <3>2. todo[p][1].op = "lock"
      BY <3>1, TailOf
    <3> QED
      BY <3>1, <3>2, LockFocus DEF Quiet, Idle
  <2> QED
    BY <1>26, <2>1, LockStep
<1>27. CASE lost' = lost /\ Unlock(p)
  <2>1. Focus(p)
    BY <1>27, AtWork DEF Unlock
  <2> QED
    BY <1>27, <2>1, UnlockStep
<1>28. CASE lost' = lost /\ DenyWrite(p)
  <2>1. Focus(p)
    BY <1>28, AtWork DEF DenyWrite
  <2> QED
    BY <1>28, <2>1, DenyWriteStep
<1>29. CASE lost' = lost /\ Header(p)
  <2>1. Focus(p)
    BY <1>29, AtWork DEF Header
  <2> QED
    BY <1>29, <2>1, HeaderStep
<1>30. CASE lost' = lost /\ Loaded(p)
  <2>1. Focus(p)
    BY <1>30, AtWork DEF Loaded
  <2> QED
    BY <1>30, <2>1, LoadedStep
<1>31. CASE lost' = lost /\ PowerOff(p)
  <2>1. Focus(p)
    BY <1>31, AtWork DEF PowerOff
  <2> QED
    BY <1>31, <2>1, PowerOffStep
<1> QED
  BY <1>1, <1>2, <1>3, <1>4, <1>5, <1>6, <1>7, <1>8, <1>9, <1>10, <1>11, <1>12, <1>13, <1>14, <1>15,
     <1>16, <1>17, <1>18, <1>19, <1>20, <1>21, <1>22, <1>23, <1>24, <1>25, <1>26, <1>27, <1>28, <1>29,
     <1>30, <1>31 DEF Step

-----------------------------------------------------------------------------
\* The plans calls start with.
OpenTask  == Task("open", ROOT_DIR_SECTOR, 0)
CloseTask == Task("close", ROOT_DIR_SECTOR, 0)
LEMMA RootTasks ==
  /\ OpenTask \in Tasks /\ OpenTask.op = "open" /\ OpenTask.sector = ROOT_DIR_SECTOR /\ Meant(OpenTask)
  /\ CloseTask \in Tasks /\ CloseTask.op = "close" /\ CloseTask.sector = ROOT_DIR_SECTOR /\ Meant(CloseTask)
<1>1. /\ OpenTask \in Tasks /\ OpenTask.op = "open" /\ OpenTask.sector = ROOT_DIR_SECTOR
      /\ CloseTask \in Tasks /\ CloseTask.op = "close" /\ CloseTask.sector = ROOT_DIR_SECTOR
  BY Sectors DEF OpenTask, CloseTask, Task, Tasks, Op, Arguments
<1>2. Meant(OpenTask)
  BY <1>1 DEF Meant
<1>3. Meant(CloseTask)
  BY <1>1 DEF Meant
<1> QED
  BY <1>1, <1>2, <1>3

\* After the directory has been searched: what the file is for.
AfterOpen(R) ==
  \A j \in 1 .. Len(R) : /\ R[j].op \in {"newfd", "deny", "header", "loaded", "open", "lookup", "close"}
                         /\ R[j].op \in {"open", "close"} => R[j].sector = ROOT_DIR_SECTOR
RootShape(o, t, c, R, U) == U = ((<<o>> \o <<t>>) \o <<c>>) \o R
RootFacts(t, R, U) ==
  /\ Fit(U) /\ U \in Seq(Tasks) /\ U # <<>> /\ U[1] = OpenTask
  /\ \A ops : Has(U, ops) <=> ("open" \in ops \/ t.op \in ops \/ "close" \in ops \/ Has(R, ops))
  /\ \A ops, f : f \in FileSector => (HasOn(U, ops, f) => HasOn(R, ops, f))
  /\ ~RootOpen(U) /\ (t.op = "lookup" \/ ~RegHeld(R) => ~RegHeld(U))
  /\ AfterOpen(R) /\ t.op = "lookup" => AfterOpen(U)

LEMMA RootPlan ==
  ASSUME NEW t \in Tasks, Meant(t), t.op \in {"lookup", "create", "find"}, t.sector = 0,
         NEW R, Fit(R), AfterOpen(R),
         t.op = "lookup" => R # <<>> /\ R[1].op \in Naming, t.op # "lookup" => R = <<>>,
         NEW U, RootShape(OpenTask, t, CloseTask, R, U)
  PROVE  RootFacts(t, R, U)
<1> DEFINE o == OpenTask
<1> DEFINE c == CloseTask
<1> DEFINE W == <<c>> \o R
<1> DEFINE V == <<t>> \o W
<1>1. /\ o \in Tasks /\ o.op = "open" /\ o.sector = ROOT_DIR_SECTOR /\ Meant(o)
      /\ c \in Tasks /\ c.op = "close" /\ c.sector = ROOT_DIR_SECTOR /\ Meant(c)
  BY RootTasks
<1> HIDE DEF o, c
<1>2. CloseRoot(c) /\ OpenRoot(o)
  BY <1>1 DEF CloseRoot, OpenRoot
<1>3. R \in Seq(Tasks)
  BY DEF Fit
<1>4. U = <<o>> \o V
  <2>1. <<o>> \in Seq(Tasks) /\ <<t>> \in Seq(Tasks) /\ <<c>> \in Seq(Tasks)
    BY <1>1
  <2> DEFINE A == <<o>>
  <2> DEFINE B == <<t>>
  <2> DEFINE C == <<c>>
  <2>2. U = ((A \o B) \o C) \o R /\ W = C \o R /\ V = B \o W
    BY DEF RootShape, o, c
  <2>3. A \in Seq(Tasks) /\ B \in Seq(Tasks) /\ C \in Seq(Tasks)
    BY <2>1
  <2> HIDE DEF A, B, C
  <2> HIDE DEF V, W
  <2>4. A \o B \in Seq(Tasks) /\ W \in Seq(Tasks) /\ C \o R \in Seq(Tasks)
    BY <1>3, <2>2, <2>3, JoinOf
  <2>5. U = (A \o B) \o (C \o R)
    <3> DEFINE D == A \o B
    <3>1. D \in Seq(Tasks) /\ U = (D \o C) \o R
      BY <2>2, <2>4
    <3> HIDE DEF D
    <3>2. (D \o C) \o R = D \o (C \o R)
      BY <1>3, <2>3, <3>1, JoinAssoc
    <3> QED
      BY <3>1, <3>2 DEF D
  <2>6. U = A \o (B \o W)
    <3>1. (A \o B) \o W = A \o (B \o W)
      BY <2>3, <2>4, JoinAssoc, ZenonT(60)
    <3> QED
      BY <2>2, <2>5, <3>1
  <2> QED
    BY <2>2, <2>6 DEF A
<1>41. W = <<c>> \o R /\ V = <<t>> \o W
  OBVIOUS
<1> HIDE DEF V, W
<1>42. HeadFacts(c, R, W)
  BY <1>1, <1>3, <1>41, OneAhead
<1>5. HeadFacts(c, R, W) /\ W \in Seq(Tasks) /\ Len(W) \in Nat
  BY <1>42 DEF HeadFacts
<1>51. HeadFacts(t, W, V)
  BY <1>5, <1>41, OneAhead
<1>6. HeadFacts(t, W, V) /\ V \in Seq(Tasks) /\ Len(V) \in Nat
  BY <1>51 DEF HeadFacts
<1>7. HeadFacts(o, V, U)
  BY <1>1, <1>4, <1>6, OneAhead
\* The directory is closed.
<1>8. Fit(W)
  <2>1. R # <<>> => MayFollow(c, R[1])
    <3> SUFFICES ASSUME R # <<>> PROVE MayFollow(c, R[1])
      OBVIOUS
    <3> DEFINE e == R[1]
    <3>1. e.op \in {"newfd", "deny", "header"}
      BY DEF Naming
    <3> HIDE DEF e
    <3>2. MayFollow(c, e)
      BY <1>1, <3>1, Sectors DEF MayFollow
    <3> QED
      BY <3>2 DEF e
  <2>2. R = <<>> => MayEnd(c)
    BY <1>1, Sectors DEF MayEnd
  <2>3. \A j \in 1 .. Len(R) : MayPrecede(c, R[j])
    <3> TAKE j \in 1 .. Len(R)
    <3> DEFINE e == R[j]
    <3>1. /\ e.op \in {"newfd", "deny", "header", "loaded", "open", "lookup", "close"}
          /\ e.op \in {"open", "close"} => e.sector = ROOT_DIR_SECTOR
      BY DEF AfterOpen
    <3> HIDE DEF e
    <3>2. MayPrecede(c, e)
      BY <1>2, <3>1, Sectors DEF MayPrecede
    <3> QED
      BY <3>2 DEF e
  <2>4. Fit(<<c>> \o R)
    BY <1>1, <2>1, <2>2, <2>3, FitCons
  <2> QED
    BY <2>4 DEF W
\* The directory is searched.
<1>9. W # <<>> /\ W[1] = c /\ \A i \in 2 .. Len(W) : W[i] = R[i - 1] /\ i - 1 \in 1 .. Len(R)
  BY <1>5 DEF HeadFacts
<1>10. Fit(V)
  <2>1. MayFollow(t, c)
    BY <1>2 DEF MayFollow
  <2>2. \A j \in 1 .. Len(W) : MayPrecede(t, W[j])
    <3> TAKE j \in 1 .. Len(W)
    <3>1. CASE j = 1
      <4>1. MayPrecede(t, c)
        BY <1>1, Sectors DEF MayPrecede
      <4> QED
        BY <1>9, <3>1, <4>1
    <3>2. CASE j # 1
      <4>1. j \in 2 .. Len(W)
        BY <3>2, <1>5
      <4>2. W[j] = R[j - 1] /\ j - 1 \in 1 .. Len(R)
        BY <1>9, <4>1
      <4>3. R # <<>>
        BY <4>2, EmptyLen
      <4>4. t.op = "lookup"
        BY <4>3
      <4> DEFINE e == R[j - 1]
      <4>5. /\ e.op \in {"newfd", "deny", "header", "loaded", "open", "lookup", "close"}
            /\ e.op \in {"open", "close"} => e.sector = ROOT_DIR_SECTOR
        BY <4>2 DEF AfterOpen
      <4> HIDE DEF e
      <4>6. MayPrecede(t, e)
        BY <4>4, <4>5, Sectors DEF MayPrecede
      <4> QED
        BY <4>2, <4>6 DEF e
    <3> QED
      BY <3>1, <3>2
  <2>3. t.op = "lookup" => Len(W) >= 2 /\ W[2].op \in Naming
    <3> SUFFICES ASSUME t.op = "lookup" PROVE Len(W) >= 2 /\ W[2].op \in Naming
      OBVIOUS
    <3>1. Len(W) = Len(R) + 1 /\ Len(R) \in Nat
      BY <1>5 DEF HeadFacts
    <3>2. Len(R) # 0
      BY <1>3
    <3>3. Len(W) >= 2 /\ 2 \in 2 .. Len(W) /\ 2 - 1 = 1
      BY <3>1, <3>2
    <3>4. W[2] = R[2 - 1]
      BY <1>9, <3>3
    <3> QED
      BY <3>3, <3>4
  <2>4. (W # <<>> => MayFollow(t, W[1])) /\ (W = <<>> => MayEnd(t))
    BY <1>9, <2>1
  <2>5. Fit(<<t>> \o W)
    BY <1>8, <2>2, <2>3, <2>4, FitCons
  <2> QED
    BY <2>5 DEF V
<1>11. V # <<>> /\ V[1] = t /\ \A i \in 2 .. Len(V) : V[i] = W[i - 1] /\ i - 1 \in 1 .. Len(W)
  BY <1>6 DEF HeadFacts
<1>12. Fit(U)
  <2>1. MayFollow(o, t)
    BY <1>1 DEF MayFollow
  <2>2. \A j \in 1 .. Len(W) : MayPrecede(o, W[j])
    <3> TAKE j \in 1 .. Len(W)
    <3>1. CASE j = 1
      <4>1. MayPrecede(o, c)
        BY <1>1, Sectors DEF MayPrecede
      <4> QED
        BY <1>9, <3>1, <4>1
    <3>2. CASE j # 1
      <4>1. j \in 2 .. Len(W)
        BY <3>2, <1>5
      <4>2. W[j] = R[j - 1] /\ j - 1 \in 1 .. Len(R)
        BY <1>9, <4>1
      <4> DEFINE e == R[j - 1]
      <4>5. /\ e.op \in {"newfd", "deny", "header", "loaded", "open", "lookup", "close"}
            /\ e.op \in {"open", "close"} => e.sector = ROOT_DIR_SECTOR
        BY <4>2 DEF AfterOpen
      <4> HIDE DEF e
      <4>6. MayPrecede(o, e)
        BY <1>1, <4>5, Sectors DEF MayPrecede
      <4> QED
        BY <4>2, <4>6 DEF e
    <3> QED
      BY <3>1, <3>2
  <2>3. \A j \in 1 .. Len(V) : MayPrecede(o, V[j])
    <3> TAKE j \in 1 .. Len(V)
    <3>1. CASE j = 1
      <4>1. MayPrecede(o, t)
        BY <1>1, Sectors DEF MayPrecede
      <4> QED
        BY <1>11, <3>1, <4>1
    <3>2. CASE j # 1
      <4>1. j \in 2 .. Len(V)
        BY <3>2, <1>6
      <4> QED
        BY <1>11, <2>2, <4>1
    <3> QED
      BY <3>1, <3>2
  <2>4. (V # <<>> => MayFollow(o, V[1])) /\ (V = <<>> => MayEnd(o))
    BY <1>11, <2>1
  <2>5. Fit(<<o>> \o V)
    BY <1>1, <1>10, <2>3, <2>4, FitCons
  <2> QED
    BY <1>4, <2>5
<1>13. \A ops : Has(U, ops) <=> ("open" \in ops \/ t.op \in ops \/ "close" \in ops \/ Has(R, ops))
  BY <1>1, <1>5, <1>6, <1>7 DEF HeadFacts
<1>14. \A ops, f : f \in FileSector => (HasOn(U, ops, f) => HasOn(R, ops, f))
  <2>1. 0 \notin FileSector /\ ROOT_DIR_SECTOR \notin FileSector
    BY Sectors DEF FREE_MAP_SECTOR
  <2> QED
    BY <1>1, <1>5, <1>6, <1>7, <2>1, SMTT(30) DEF HeadFacts
<1>15. ~RootOpen(U)
  BY <1>2, <1>7 DEF HeadFacts
<1>16. t.op = "lookup" \/ ~RegHeld(R) => ~RegHeld(U)
  <2>1. o.op \notin Naming /\ c.op \notin Naming /\ t.op \notin Naming /\ o.op # "lookup" /\ c.op # "lookup"
    BY <1>1 DEF Naming
  <2> QED
    BY <1>5, <1>6, <1>7, <2>1 DEF HeadFacts
<1>17. ASSUME t.op = "lookup" PROVE AfterOpen(U)
  <2>1. \A j \in 1 .. Len(W) : /\ W[j].op \in {"newfd", "deny", "header", "loaded", "open", "lookup", "close"}
                               /\ W[j].op \in {"open", "close"} => W[j].sector = ROOT_DIR_SECTOR
    <3> TAKE j \in 1 .. Len(W)
    <3>1. CASE j = 1
      BY <3>1, <1>1, <1>9
    <3>2. CASE j # 1
      <4>1. j \in 2 .. Len(W)
        BY <3>2, <1>5
      <4> QED
        BY <1>9, <4>1 DEF AfterOpen
    <3> QED
      BY <3>1, <3>2
  <2>2. \A j \in 1 .. Len(V) : /\ V[j].op \in {"newfd", "deny", "header", "loaded", "open", "lookup", "close"}
                               /\ V[j].op \in {"open", "close"} => V[j].sector = ROOT_DIR_SECTOR
    <3> TAKE j \in 1 .. Len(V)
    <3>1. CASE j = 1
      BY <3>1, <1>11, <1>17
    <3>2. CASE j # 1
      <4>1. j \in 2 .. Len(V)
        BY <3>2, <1>6
      <4> QED
        BY <1>11, <2>1, <4>1
    <3> QED
      BY <3>1, <3>2
  <2>3. U[1] = o /\ \A i \in 2 .. Len(U) : U[i] = V[i - 1] /\ i - 1 \in 1 .. Len(V)
    BY <1>7 DEF HeadFacts
  <2> SUFFICES ASSUME NEW j \in 1 .. Len(U)
               PROVE  /\ U[j].op \in {"newfd", "deny", "header", "loaded", "open", "lookup", "close"}
                      /\ U[j].op \in {"open", "close"} => U[j].sector = ROOT_DIR_SECTOR
    BY DEF AfterOpen
  <2>4. CASE j = 1
    BY <2>3, <2>4, <1>1
  <2>5. CASE j # 1
    <3>1. j \in 2 .. Len(U)
      BY <2>5, <1>7 DEF HeadFacts
    <3> QED
      BY <2>2, <2>3, <3>1
  <2> QED
    BY <2>4, <2>5
<1>18. U \in Seq(Tasks) /\ U # <<>> /\ U[1] = OpenTask
  BY <1>7 DEF HeadFacts, o
<1> QED
  BY <1>12, <1>13, <1>14, <1>15, <1>16, <1>17, <1>18 DEF RootFacts

-----------------------------------------------------------------------------
StartOps == Making \cup {"zero", "erase", "setlength", "put", "writeinode", "release", "unlock"}
StartFacts(U) ==
  /\ Fit(U) /\ U \in Seq(Tasks) /\ U # <<>> /\ U[1].op \notin {"lock", "off", "mapwrite", "readat", "load", "flush"}
  /\ ~Has(U, StartOps) /\ ~RegHeld(U) /\ ~RootOpen(U)
  /\ U[1].op = "open" => U[1].sector = ROOT_DIR_SECTOR
  /\ \A f \in FileSector : ~HasOn(U, {"close"}, f)

LEMMA NoTasks == Fit(<<>>) /\ AfterOpen(<<>>) /\ <<>> \in Seq(Tasks)
<1>1. Fit(<<>>)
  BY DEF Fit, Chained, Ordered, Paired
<1> QED
  BY <1>1 DEF AfterOpen

LEMMA OnlyTask ==
  ASSUME NEW b \in Tasks, Meant(b), MayEnd(b),
         b.op \notin {"lock", "erase", "lookup", "grow", "allocate", "release"}, NEW U, U = <<b>>
  PROVE  /\ Fit(U) /\ U \in Seq(Tasks) /\ U # <<>> /\ U[1] = b /\ Len(U) = 1
         /\ \A ops : Has(U, ops) <=> b.op \in ops
         /\ \A ops, f : HasOn(U, ops, f) <=> (b.op \in ops /\ b.sector = f)
         /\ RootOpen(U) <=> (~OpenRoot(b) /\ CloseRoot(b))
         /\ RegHeld(U) <=> (b.op # "lookup" /\ b.op \in Naming)
<1> DEFINE R == <<>>
<1>1. R = <<>> /\ Fit(R) /\ R \in Seq(Tasks) /\ Len(R) = 0
  BY NoTasks
<1>2. U = <<b>> \o R
  OBVIOUS
<1> HIDE DEF R
<1>3. Fit(<<b>> \o R)
  <2>1. (R # <<>> => MayFollow(b, R[1])) /\ (R = <<>> => MayEnd(b)) /\ \A j \in 1 .. Len(R) : MayPrecede(b, R[j])
    BY <1>1
  <2> QED
    BY <1>1, <2>1, FitCons
<1>4. HeadFacts(b, R, U)
  BY <1>1, <1>2, OneAhead
<1>5. (\A ops : ~Has(R, ops)) /\ (\A ops, f : ~HasOn(R, ops, f)) /\ ~RegHeld(R) /\ ~RootOpen(R)
  BY <1>1, NothingIn
<1>6. Fit(U)
  BY <1>2, <1>3
<1>7. U \in Seq(Tasks) /\ U # <<>> /\ U[1] = b /\ Len(U) = Len(R) + 1
  BY <1>4 DEF HeadFacts
<1>8. \A ops : Has(U, ops) <=> b.op \in ops
  BY <1>4, <1>5 DEF HeadFacts
<1>9. \A ops, f : HasOn(U, ops, f) <=> (b.op \in ops /\ b.sector = f)
  BY <1>4, <1>5 DEF HeadFacts
<1>10. (RootOpen(U) <=> (~OpenRoot(b) /\ CloseRoot(b))) /\ (RegHeld(U) <=> (b.op # "lookup" /\ b.op \in Naming))
  BY <1>4, <1>5 DEF HeadFacts
<1>11. Len(U) = 1
  BY <1>1, <1>7
<1> QED
  BY <1>6, <1>7, <1>8, <1>9, <1>10, <1>11

LEMMA StartOf ==
  ASSUME NEW t \in Tasks, t.op \in {"lookup", "create", "find"}, NEW R, NEW U, RootFacts(t, R, U),
         AfterOpen(R), t.op = "lookup" \/ ~RegHeld(R)
  PROVE  /\ StartFacts(U)
         /\ \A ops : Has(U, ops) <=> ("open" \in ops \/ t.op \in ops \/ "close" \in ops \/ Has(R, ops))
<1>1. OpenTask.op = "open" /\ OpenTask.sector = ROOT_DIR_SECTOR
  BY RootTasks
<1>2. ~Has(R, StartOps)
  <2>1. StartOps \cap {"newfd", "deny", "header", "loaded", "open", "lookup", "close"} = {}
    BY DEF StartOps, Making
  <2>2. \A j \in 1 .. Len(R) : R[j].op \in {"newfd", "deny", "header", "loaded", "open", "lookup", "close"}
    BY DEF AfterOpen
  <2> QED
    BY <2>1, <2>2 DEF Has
<1>3. "open" \notin StartOps /\ t.op \notin StartOps /\ "close" \notin StartOps
  BY DEF StartOps, Making
<1>4. \A ops : Has(U, ops) <=> ("open" \in ops \/ t.op \in ops \/ "close" \in ops \/ Has(R, ops))
  BY DEF RootFacts
<1>5. ~Has(U, StartOps)
  BY <1>2, <1>3, <1>4
<1>6. \A f \in FileSector : ~HasOn(U, {"close"}, f)
  <2>1. \A f \in FileSector : ~HasOn(R, {"close"}, f)
    BY Sectors DEF AfterOpen, HasOn
  <2>2. \A ops, f : f \in FileSector => (HasOn(U, ops, f) => HasOn(R, ops, f))
    BY DEF RootFacts
  <2> QED
    BY <2>1, <2>2
<1>7. Fit(U) /\ U \in Seq(Tasks) /\ U # <<>> /\ U[1] = OpenTask /\ ~RootOpen(U) /\ ~RegHeld(U)
  BY DEF RootFacts
<1>8. U[1].op = "open" /\ U[1].sector = ROOT_DIR_SECTOR
  BY <1>1, <1>7
<1> QED
  BY <1>4, <1>5, <1>6, <1>7, <1>8 DEF StartFacts

\* filesys_create() and filesys_remove().
LEMMA SearchStart ==
  ASSUME NEW t \in Tasks, Meant(t), t.op \in {"create", "find"}, t.sector = 0,
         NEW U, U = Root(<<t>>)
  PROVE  StartFacts(U) /\ \A ops : Has(U, ops) <=> ("open" \in ops \/ t.op \in ops \/ "close" \in ops)
<1> DEFINE R == <<>>
<1>1. Fit(R) /\ AfterOpen(R) /\ R = <<>> /\ ~RegHeld(R) /\ \A ops : ~Has(R, ops)
  BY NoTasks, NothingIn
<1>2. RootShape(OpenTask, t, CloseTask, R, U)
  <2> DEFINE A == (<<OpenTask>> \o <<t>>) \o <<CloseTask>>
  <2>1. U = A
    BY DEF Root, OpenTask, CloseTask
  <2>2. A \in Seq(Tasks)
    <3>1. <<OpenTask>> \in Seq(Tasks) /\ <<t>> \in Seq(Tasks) /\ <<CloseTask>> \in Seq(Tasks)
      BY RootTasks
    <3> QED
      BY <3>1, JoinOf
  <2>3. A \o R = A
    <3> HIDE DEF A
    <3> QED
      BY <2>2
  <2> QED
    BY <2>1, <2>3 DEF RootShape
<1> HIDE DEF R
<1>3. RootFacts(t, R, U)
  BY <1>1, <1>2, RootPlan
<1>4. StartFacts(U) /\ \A ops : Has(U, ops) <=> ("open" \in ops \/ t.op \in ops \/ "close" \in ops \/ Has(R, ops))
  BY <1>1, <1>3, StartOf
<1> QED
  BY <1>1, <1>4

\* filesys_open(), before what is done with the file.
LEMMA LookupTask ==
  ASSUME NEW n \in Name, NEW t, t = Task("lookup", 0, n)
  PROVE  t \in Tasks /\ Meant(t) /\ t.op = "lookup" /\ t.sector = 0
<1>1. t \in Tasks /\ t.op = "lookup" /\ t.sector = 0 /\ t.arg = n
  BY Sectors DEF Task, Tasks, Op, Arguments, FREE_MAP_SECTOR
<1>2. Meant(t)
  BY <1>1 DEF Meant
<1> QED
  BY <1>1, <1>2

OpenShape(n, R, U) == U = FilesysOpen(n) \o R
LEMMA OpenFirst ==
  ASSUME NEW n \in Name, NEW R, Fit(R), AfterOpen(R), R # <<>>, R[1].op \in Naming,
         NEW U, OpenShape(n, R, U)
  PROVE  /\ StartFacts(U) /\ Fit(U) /\ AfterOpen(U) /\ U # <<>> /\ U[1] = OpenTask
         /\ \A ops : Has(U, ops) <=> (ops \cap {"open", "lookup", "close"} # {} \/ Has(R, ops))
<1> DEFINE t == Task("lookup", 0, n)
<1>1. t \in Tasks /\ Meant(t) /\ t.op = "lookup" /\ t.sector = 0
  BY LookupTask
<1>2. RootShape(OpenTask, t, CloseTask, R, U)
  BY DEF OpenShape, FilesysOpen, Root, RootShape, OpenTask, CloseTask
<1> HIDE DEF t
<1>3. RootFacts(t, R, U)
  BY <1>1, <1>2, RootPlan
<1>4. StartFacts(U) /\ \A ops : Has(U, ops) <=> ("open" \in ops \/ t.op \in ops \/ "close" \in ops \/ Has(R, ops))
  BY <1>1, <1>3, StartOf
<1>5. Fit(U) /\ AfterOpen(U) /\ U # <<>> /\ U[1] = OpenTask
  BY <1>1, <1>3 DEF RootFacts
<1> QED
  BY <1>1, <1>4, <1>5

-----------------------------------------------------------------------------
LEMMA PairOf ==
  ASSUME NEW b \in Tasks, NEW c \in Tasks
  PROVE  <<b, c>> = <<b>> \o <<c>>
<1> DEFINE Q == <<c>>
<1> DEFINE s == <<b, c>>
<1>1. Q \in Seq(Tasks) /\ Len(Q) = 1 /\ Q[1] = c
  OBVIOUS
<1>2. s \in Seq(Tasks) /\ Len(s) = 2 /\ s[1] = b /\ s[2] = c
  OBVIOUS
<1> HIDE DEF Q, s
<1> DEFINE t == <<b>> \o Q
<1>20. t = <<b>> \o Q
  OBVIOUS
<1> HIDE DEF t
<1>21. HeadFacts(b, Q, t)
  BY <1>1, <1>20, OneAhead
<1>3. /\ t \in Seq(Tasks) /\ Len(t) = Len(Q) + 1 /\ t[1] = b
      /\ \A i \in 2 .. Len(t) : t[i] = Q[i - 1]
  BY <1>21 DEF HeadFacts
<1>4. t[2] = c /\ Len(t) = 2
  <2>1. Len(t) = 2 /\ 2 \in 2 .. Len(t) /\ 2 - 1 = 1
    BY <1>1, <1>3
  <2>2. t[2] = Q[2 - 1]
    BY <1>3, <2>1
  <2> QED
    BY <1>1, <2>1, <2>2
<1>5. \A i \in 1 .. Len(s) : s[i] = t[i]
  <2>1. t[2] = c
    BY <1>4
  <2>2. \A i \in 1 .. Len(s) : i = 1 \/ i = 2
    BY <1>2
  <2> QED
    BY <1>2, <1>3, <2>1, <2>2
<1>6. s = t
  BY <1>2, <1>3, <1>4, <1>5, SeqSame
<1> QED
  BY <1>6 DEF s, t, Q

LEMMA DoTask ==
  ASSUME NEW op \in {"newfd", "loaded", "off", "deny", "header"}, NEW t, t = Do(op)
  PROVE  t \in Tasks /\ t.op = op /\ Meant(t)
<1>1. t \in Tasks /\ t.op = op
  BY Sectors DEF Do, Task, Tasks, Op, Arguments, FREE_MAP_SECTOR
<1>2. Meant(t)
  BY <1>1 DEF Meant
<1> QED
  BY <1>1, <1>2

\* filesys_open() for a process.
LEMMA OpenStart ==
  ASSUME NEW n \in Name, NEW U, U = FilesysOpen(n) \o <<Do("newfd")>>
  PROVE  StartFacts(U) /\ ~Has(U, {"deny", "create"})
<1> DEFINE b == Do("newfd")
<1> DEFINE R == <<b>>
<1>1. b \in Tasks /\ b.op = "newfd" /\ Meant(b)
  BY DoTask
<1>2. OpenShape(n, R, U)
  BY DEF OpenShape
<1> HIDE DEF b
<1>21. R = <<b>>
  OBVIOUS
<1> HIDE DEF R
<1>3. MayEnd(b)
  BY <1>1 DEF MayEnd
<1>4. Fit(R) /\ R # <<>> /\ R[1] = b /\ Len(R) = 1 /\ \A ops : Has(R, ops) <=> b.op \in ops
  BY <1>1, <1>21, <1>3, OnlyTask
<1>5. AfterOpen(R)
  <2>1. \A j \in 1 .. Len(R) : j = 1
    BY <1>4
  <2> QED
    BY <1>1, <1>4, <2>1 DEF AfterOpen
<1>6. R[1].op \in Naming
  BY <1>1, <1>4 DEF Naming
<1>7. StartFacts(U) /\ \A ops : Has(U, ops) <=> (ops \cap {"open", "lookup", "close"} # {} \/ Has(R, ops))
  BY <1>2, <1>4, <1>5, <1>6, OpenFirst
<1>8. ~Has(R, {"deny", "create"})
  BY <1>1, <1>4
<1>9. {"deny", "create"} \cap {"open", "lookup", "close"} = {}
  OBVIOUS
<1>10. ~Has(U, {"deny", "create"})
  BY <1>7, <1>8, <1>9
<1> QED
  BY <1>7, <1>10

\* The two opens of a new process.
LEMMA LoadPlan ==
  ASSUME NEW R, R = <<Do("header"), Do("loaded")>>
  PROVE  Fit(R) /\ AfterOpen(R) /\ R # <<>> /\ R[1].op = "header"
         /\ ~Has(R, {"newfd", "create", "deny"}) /\ R \in Seq(Tasks)
<1> DEFINE b == Do("header")
<1> DEFINE c == Do("loaded")
<1> DEFINE Q == <<c>>
<1>1. b \in Tasks /\ b.op = "header" /\ Meant(b) /\ c \in Tasks /\ c.op = "loaded" /\ Meant(c)
  BY DoTask
<1>2. R = <<b, c>>
  OBVIOUS
<1> HIDE DEF b, c
<1>3. R = <<b>> \o Q
  <2>1. <<b, c>> = <<b>> \o <<c>>
    BY <1>1, PairOf
  <2> QED
    BY <1>2, <2>1
<1>4. Q = <<c>>
  OBVIOUS
<1> HIDE DEF Q
<1>5. MayEnd(c)
  BY <1>1 DEF MayEnd
<1>6. Fit(Q) /\ Q \in Seq(Tasks) /\ Q # <<>> /\ Q[1] = c /\ Len(Q) = 1 /\ \A ops : Has(Q, ops) <=> c.op \in ops
  BY <1>1, <1>4, <1>5, OnlyTask
<1>7. MayFollow(b, c) /\ MayPrecede(b, c)
  BY <1>1 DEF MayFollow, MayPrecede
<1>8. Fit(R)
  <2>1. \A j \in 1 .. Len(Q) : MayPrecede(b, Q[j])
    <3>1. \A j \in 1 .. Len(Q) : j = 1
      BY <1>6
    <3> QED
      BY <1>6, <1>7, <3>1
  <2>2. (Q # <<>> => MayFollow(b, Q[1])) /\ (Q = <<>> => MayEnd(b))
    BY <1>6, <1>7
  <2>3. Fit(<<b>> \o Q)
    BY <1>1, <1>6, <2>1, <2>2, FitCons
  <2> QED
    BY <1>3, <2>3
<1>9. HeadFacts(b, Q, R)
  BY <1>1, <1>3, <1>6, OneAhead
<1>10. /\ R \in Seq(Tasks) /\ R # <<>> /\ R[1] = b /\ Len(R) = Len(Q) + 1
       /\ \A i \in 2 .. Len(R) : R[i] = Q[i - 1] /\ i - 1 \in 1 .. Len(Q)
  BY <1>9 DEF HeadFacts
<1>11. \A ops : Has(R, ops) <=> (b.op \in ops \/ Has(Q, ops))
  BY <1>9 DEF HeadFacts
<1>12. AfterOpen(R)
  <2> SUFFICES ASSUME NEW j \in 1 .. Len(R)
               PROVE  R[j].op \in {"header", "loaded"}
    BY DEF AfterOpen
  <2>1. CASE j = 1
    BY <1>1, <1>10, <2>1
  <2>2. CASE j # 1
    <3>1. j \in 2 .. Len(R)
      BY <1>6, <1>10, <2>2
    <3>2. R[j] = Q[j - 1] /\ j - 1 \in 1 .. Len(Q)
      BY <1>10, <3>1
    <3>3. j - 1 = 1
      BY <1>6, <3>2
    <3> QED
      BY <1>1, <1>6, <3>2, <3>3
  <2> QED
    BY <2>1, <2>2
<1>13. ~Has(R, {"newfd", "create", "deny"})
  BY <1>1, <1>6, <1>11
<1> QED
  BY <1>1, <1>8, <1>10, <1>12, <1>13

DenyShape(b, R, U) == U = <<b>> \o R
LEMMA DenyFirst ==
  ASSUME NEW R, Fit(R), AfterOpen(R), R # <<>>, R[1] = OpenTask, ~Has(R, {"newfd", "create", "deny"}),
         NEW b \in Tasks, b.op = "deny", Meant(b), NEW U, DenyShape(b, R, U)
  PROVE  Fit(U) /\ AfterOpen(U) /\ U # <<>> /\ U[1].op \in Naming /\ ~Has(U, {"newfd", "create"})
<1>0. R \in Seq(Tasks)
  BY DEF Fit
<1>1. HeadFacts(b, R, U)
  BY <1>0, OneAhead DEF DenyShape
<1>2. Fit(U)
  <2>1. MayFollow(b, R[1])
    BY RootTasks DEF MayFollow, OpenRoot
  <2>2. \A j \in 1 .. Len(R) : MayPrecede(b, R[j])
    <3> TAKE j \in 1 .. Len(R)
    <3> DEFINE e == R[j]
    <3>1. /\ e.op \in {"newfd", "deny", "header", "loaded", "open", "lookup", "close"}
          /\ e.op \in {"open", "close"} => e.sector = ROOT_DIR_SECTOR
      BY DEF AfterOpen
    <3>2. e.op \notin {"newfd", "create", "deny"}
      BY DEF Has
    <3> HIDE DEF e
    <3>3. MayPrecede(b, e)
      BY <3>1, <3>2, Sectors DEF MayPrecede
    <3> QED
      BY <3>3 DEF e
  <2>3. (R # <<>> => MayFollow(b, R[1])) /\ (R = <<>> => MayEnd(b))
    BY <2>1
  <2>4. Fit(<<b>> \o R)
    BY <2>2, <2>3, FitCons
  <2> QED
    BY <2>4 DEF DenyShape
<1>3. /\ U # <<>> /\ U[1] = b /\ Len(U) = Len(R) + 1 /\ Len(R) \in Nat
      /\ \A i \in 2 .. Len(U) : U[i] = R[i - 1] /\ i - 1 \in 1 .. Len(R)
  BY <1>1 DEF HeadFacts
<1>4. \A ops : Has(U, ops) <=> (b.op \in ops \/ Has(R, ops))
  BY <1>1 DEF HeadFacts
<1>5. AfterOpen(U)
  <2> SUFFICES ASSUME NEW j \in 1 .. Len(U)
               PROVE  /\ U[j].op \in {"newfd", "deny", "header", "loaded", "open", "lookup", "close"}
                      /\ U[j].op \in {"open", "close"} => U[j].sector = ROOT_DIR_SECTOR
    BY DEF AfterOpen
  <2>1. CASE j = 1
    BY <1>3, <2>1
  <2>2. CASE j # 1
    <3>1. j \in 2 .. Len(U)
      BY <1>3, <2>2
    <3> QED
      BY <1>3, <3>1 DEF AfterOpen
  <2> QED
    BY <2>1, <2>2
<1>6. ~Has(R, {"newfd", "create"})
  BY DEF Has
<1>7. ~Has(U, {"newfd", "create"})
  BY <1>4, <1>6
<1>8. U # <<>> /\ U[1].op \in Naming
  BY <1>3 DEF Naming
<1> QED
  BY <1>2, <1>5, <1>7, <1>8

\* process_execute().
LEMMA ExecStart ==
  ASSUME NEW n \in Name,
         NEW U, U = FilesysOpen(n) \o <<Do("deny")>> \o FilesysOpen(n) \o <<Do("header"), Do("loaded")>>
  PROVE  StartFacts(U) /\ ~Has(U, {"newfd", "create"})
<1> DEFINE F == FilesysOpen(n)
<1> DEFINE b == Do("deny")
<1> DEFINE B == <<b>>
<1> DEFINE R == <<Do("header"), Do("loaded")>>
<1> DEFINE V == F \o R
<1> DEFINE W == B \o V
<1>1. Fit(R) /\ AfterOpen(R) /\ R # <<>> /\ R[1].op = "header"
      /\ ~Has(R, {"newfd", "create", "deny"}) /\ R \in Seq(Tasks)
  BY LoadPlan
<1>2. b \in Tasks /\ b.op = "deny" /\ Meant(b)
  BY DoTask
<1>3. F \in Seq(Tasks)
  <2> DEFINE A == <<OpenTask>>
  <2> DEFINE C == <<Task("lookup", 0, n)>>
  <2> DEFINE D == <<CloseTask>>
  <2>1. A \in Seq(Tasks) /\ C \in Seq(Tasks) /\ D \in Seq(Tasks)
    BY RootTasks, LookupTask
  <2>2. F = (A \o C) \o D
    BY DEF FilesysOpen, Root, OpenTask, CloseTask
  <2> HIDE DEF A, C, D, F
  <2>3. A \o C \in Seq(Tasks)
    BY <2>1, JoinOf
  <2>4. (A \o C) \o D \in Seq(Tasks)
    BY <2>1, <2>3, JoinOf
  <2> QED
    BY <2>2, <2>4
<1>4. U = ((F \o B) \o F) \o R
  OBVIOUS
<1>5. B \in Seq(Tasks)
  BY <1>2
<1>6. B = <<b>> /\ OpenShape(n, R, V)
  BY DEF OpenShape
<1>61. W = <<b>> \o V /\ V = F \o R /\ W = B \o V
  OBVIOUS
<1> HIDE DEF b, R
<1> HIDE DEF B, V, W
<1>7. R[1].op \in Naming
  BY <1>1 DEF Naming
<1>8. Fit(V) /\ AfterOpen(V) /\ V # <<>> /\ V[1] = OpenTask
      /\ \A ops : Has(V, ops) <=> (ops \cap {"open", "lookup", "close"} # {} \/ Has(R, ops))
  BY <1>1, <1>6, <1>7, OpenFirst
<1>9. ~Has(V, {"newfd", "create", "deny"})
  <2>1. {"newfd", "create", "deny"} \cap {"open", "lookup", "close"} = {}
    OBVIOUS
  <2> QED
    BY <1>1, <1>8, <2>1
<1>10. Fit(W) /\ AfterOpen(W) /\ W # <<>> /\ W[1].op \in Naming /\ ~Has(W, {"newfd", "create"})
  <2>1. DenyShape(b, V, W)
    BY <1>61 DEF DenyShape
  <2> QED
    BY <1>2, <1>8, <1>9, <2>1, DenyFirst
<1>11. OpenShape(n, W, U)
  <2>1. U = F \o W
    <3> HIDE DEF F
    <3>1. F \o B \in Seq(Tasks) /\ V \in Seq(Tasks)
      BY <1>1, <1>3, <1>5, <1>61, JoinOf
    <3>2. ((F \o B) \o F) \o R = (F \o B) \o V
      <4> DEFINE G == F \o B
      <4>1. G \in Seq(Tasks)
        BY <3>1
      <4> HIDE DEF G
      <4>2. (G \o F) \o R = G \o (F \o R)
        BY <1>1, <1>3, <4>1, JoinAssoc
      <4> QED
        BY <1>61, <4>2 DEF G
    <3>3. (F \o B) \o V = F \o (B \o V)
      BY <1>3, <1>5, <3>1, JoinAssoc
    <3> QED
      BY <1>4, <1>61, <3>2, <3>3
  <2> QED
    BY <2>1 DEF OpenShape
<1> HIDE DEF F
<1>12. StartFacts(U) /\ \A ops : Has(U, ops) <=> (ops \cap {"open", "lookup", "close"} # {} \/ Has(W, ops))
  BY <1>10, <1>11, OpenFirst, SMTT(30)
<1>13. {"newfd", "create"} \cap {"open", "lookup", "close"} = {}
  OBVIOUS
<1>14. ~Has(U, {"newfd", "create"})
  BY <1>10, <1>12, <1>13
<1> QED
  BY <1>12, <1>14

\* sys_halt().
LEMMA HaltStart ==
  ASSUME NEW U, U = <<Task("close", FREE_MAP_SECTOR, 0), Do("off")>>
  PROVE  StartFacts(U) /\ ~Has(U, {"newfd", "create", "deny"})
<1> DEFINE b == Task("close", FREE_MAP_SECTOR, 0)
<1> DEFINE c == Do("off")
<1> DEFINE Q == <<c>>
<1>1. b \in Tasks /\ b.op = "close" /\ b.sector = FREE_MAP_SECTOR /\ c \in Tasks /\ c.op = "off" /\ Meant(c)
  BY Sectors, DoTask DEF Task, Tasks, Op, Arguments
<1>2. Meant(b)
  BY <1>1 DEF Meant
<1>3. U = <<b, c>>
  OBVIOUS
<1> HIDE DEF b, c
<1>4. U = <<b>> \o Q
  <2>1. <<b, c>> = <<b>> \o <<c>>
    BY <1>1, PairOf
  <2> QED
    BY <1>3, <2>1
<1>5. Q = <<c>>
  OBVIOUS
<1> HIDE DEF Q
<1>6. MayEnd(c)
  BY <1>1 DEF MayEnd
<1>7. /\ Fit(Q) /\ Q \in Seq(Tasks) /\ Q # <<>> /\ Q[1] = c /\ Len(Q) = 1 /\ \A ops : Has(Q, ops) <=> c.op \in ops
      /\ \A ops, f : HasOn(Q, ops, f) <=> (c.op \in ops /\ c.sector = f)
      /\ RootOpen(Q) <=> (~OpenRoot(c) /\ CloseRoot(c))
      /\ RegHeld(Q) <=> (c.op # "lookup" /\ c.op \in Naming)
  BY <1>1, <1>5, <1>6, OnlyTask
<1>8. MayFollow(b, c) /\ MayPrecede(b, c)
  BY <1>1, Sectors DEF MayFollow, MayPrecede
<1>9. Fit(U)
  <2>1. \A j \in 1 .. Len(Q) : MayPrecede(b, Q[j])
    <3>1. \A j \in 1 .. Len(Q) : j = 1
      BY <1>7
    <3> QED
      BY <1>7, <1>8, <3>1
  <2>2. (Q # <<>> => MayFollow(b, Q[1])) /\ (Q = <<>> => MayEnd(b))
    BY <1>7, <1>8
  <2>3. Fit(<<b>> \o Q)
    BY <1>1, <1>2, <1>7, <2>1, <2>2, FitCons
  <2> QED
    BY <1>4, <2>3
<1>10. HeadFacts(b, Q, U)
  BY <1>1, <1>4, <1>7, OneAhead
<1>11. U \in Seq(Tasks) /\ U # <<>> /\ U[1] = b
  BY <1>10 DEF HeadFacts
<1>12. /\ \A ops : Has(U, ops) <=> (b.op \in ops \/ c.op \in ops)
       /\ \A ops, f : HasOn(U, ops, f) <=> ((b.op \in ops /\ b.sector = f) \/ (c.op \in ops /\ c.sector = f))
       /\ ~RegHeld(U) /\ ~RootOpen(U)
  <2>1. \A ops : Has(U, ops) <=> (b.op \in ops \/ c.op \in ops)
    BY <1>7, <1>10 DEF HeadFacts
  <2>2. \A ops, f : HasOn(U, ops, f) <=> ((b.op \in ops /\ b.sector = f) \/ (c.op \in ops /\ c.sector = f))
    BY <1>7, <1>10 DEF HeadFacts
  <2>3. ~RegHeld(U)
    BY <1>1, <1>7, <1>10 DEF HeadFacts, Naming
  <2>4. ~CloseRoot(b) /\ ~CloseRoot(c)
    BY <1>1, Sectors DEF CloseRoot
  <2>5. ~RootOpen(U)
    BY <1>7, <1>10, <2>4 DEF HeadFacts
  <2> QED
    BY <2>1, <2>2, <2>3, <2>5
<1>13. ~Has(U, StartOps) /\ ~Has(U, {"newfd", "create", "deny"})
  <2>1. "close" \notin StartOps /\ "off" \notin StartOps
    BY DEF StartOps, Making
  <2> QED
    BY <1>1, <1>12, <2>1
<1>14. \A f \in FileSector : ~HasOn(U, {"close"}, f)
  BY <1>1, <1>12, Sectors
<1>15. U[1].op = "close"
  BY <1>1, <1>11
<1> QED
  BY <1>9, <1>11, <1>12, <1>13, <1>14, <1>15 DEF StartFacts

-----------------------------------------------------------------------------
\* A call begins when no other is on its way.
Given(p, U) == todo' = [todo EXCEPT ![p] = U]
BeginFacts(U) ==
  /\ Fit(U) /\ U \in Seq(Tasks)
  /\ ~AtHead(U, {"lock", "off", "mapwrite", "readat", "load", "flush", "unique", "dirwrite"})
  /\ ~Has(U, StartOps) /\ ~RegHeld(U) /\ ~RootOpen(U)
  /\ AtHead(U, {"open"}) => U[1].sector = ROOT_DIR_SECTOR
SameFiles ==
  \A t \in Sector : /\ inode'[t].cnt = inode[t].cnt /\ inode'[t].removed = inode[t].removed
                    /\ inode'[t].loaded = inode[t].loaded /\ inode'[t].data = inode[t].data
                    /\ t \notin FileSector => inode'[t] = inode[t]
                    /\ inode[t].cnt = 0 => inode'[t] = inode[t]

LEMMA BeginPlans ==
  ASSUME NEW p \in Proc, Plans, Turn(p), Idle(p), \A q \in Proc : Idle(q),
         NEW U, BeginFacts(U), Given(p, U), UNCHANGED <<fsLock, reg, miss>>
  PROVE  /\ Plans' /\ Turn(p)' /\ todo'[p] = U
<1>1. Fit(U) /\ U \in Seq(Tasks) /\ ~AtHead(U, {"lock"}) /\ ~Has(U, {"unlock"})
  <2>1. ~AtHead(U, {"lock"})
    BY DEF BeginFacts, AtHead
  <2>2. ~Has(U, {"unlock"})
    BY DEF BeginFacts, StartOps, Has
  <2> QED
    BY <2>1, <2>2 DEF BeginFacts
<1>2. todo \in [Proc -> Seq(Tasks)]
  BY DEF Plans
<1>3. todo' \in [Proc -> Seq(Tasks)] /\ todo'[p] = U /\ \A q \in Proc \ {p} : todo'[q] = todo[q]
  BY <1>1, <1>2 DEF Given
<1>4. \A q \in Proc \ {p} : todo'[q] = <<>>
  BY <1>3 DEF Idle
<1>5. Plans'
  <2>1. \A q \in Proc : Fit(todo'[q])
    BY <1>1, <1>3 DEF Plans
  <2>2. \A q \in Proc : ~Has(todo'[q], {"unlock"})
    BY <1>1, <1>3, <1>4, NothingIn
  <2> QED
    BY <1>3, <2>1, <2>2 DEF Plans
<1>6. Turn(p)'
  <2>1. \A q \in Proc \ {p} : (Quiet(q) /\ miss[q] = NoMiss)'
    BY <1>4 DEF Turn, Quiet
  <2>2. fsLock = None
    BY DEF Turn, Quiet, Idle
  <2>3. \A q \in Proc \ {p} : Idle(q)'
    BY <1>4 DEF Idle
  <2> QED
    BY <1>1, <1>3, <2>1, <2>2, <2>3 DEF Turn
<1> QED
  BY <1>3, <1>5, <1>6

LEMMA BeginMove ==
  ASSUME NEW p \in Proc, Focus(p), \A q \in Proc : Idle(q), mode = "up", mode' = mode,
         NEW U, BeginFacts(U), Given(p, U),
         UNCHANGED <<disk, cache, used, fsLock, reg, miss, lost>>,
         inode' \in [Sector -> Inodes], SameFiles,
         fd' \in [Proc -> {None} \cup [sector : FileSector, pos : Nat]],
         exec' \in [Proc -> {None} \cup FileSector], leaked' \in [FileSector -> Nat],
         Counted(p)', NewRight(p)' /\ NamesRight(p)' /\ DataRight(p)'
  PROVE  Focus(p)'
<1>1. /\ Plans /\ Turn(p) /\ CacheRight(p) /\ DiskRight /\ HandleTypes
      /\ SystemData(p) /\ OwnersRight(p)
      /\ SystemInodes(p) /\ LoadedRight(p) /\ InodesRight(p) /\ Unnamed
  BY DEF Focus
<1>2. Plans' /\ Turn(p)' /\ todo'[p] = U
  BY <1>1, BeginPlans
<1>3. Fit(todo[p]) /\ todo[p] = <<>> /\ Quiet(p)
  BY <1>1 DEF Plans, Idle, Quiet
<1>4. Plain(todo[p]) /\ miss[p] = NoMiss
  BY <1>1, <1>3, PlainQuiet, QuietFacts
<1>5. /\ \A f : ~Held(p, f) /\ ~Growing(p, f) /\ ~Writing(p, f)
      /\ Made(p) = {} /\ ToGive(p) = {} /\ ~RootOpen(todo[p])
      /\ ~AtHead(todo[p], {"off"}) /\ ~AtHead(todo[p], {"mapwrite"})
      /\ \A s : ~AtHeadOn(todo[p], "load", s) /\ ~AtHeadOn(todo[p], "flush", s)
  BY <1>4, PlainFacts
<1>6. /\ ~AtHead(U, {"off"}) /\ ~AtHead(U, {"load"}) /\ ~RootOpen(U) /\ ~RegHeld(U)
      /\ ~Has(U, Making) /\ \A f : ~HasOn(U, {"release"}, f)
  <2>1. ~AtHead(U, {"off"}) /\ ~AtHead(U, {"load"})
    BY DEF BeginFacts, AtHead
  <2>2. ~Has(U, Making) /\ ~Has(U, {"release"})
    BY DEF BeginFacts, StartOps, Has
  <2> QED
    BY <2>1, <2>2, HasOnHas DEF BeginFacts
<1>7. \A s : Logical(s)' = Logical(s)
  <2> TAKE s
  <2>1. Logical(s) = LogicalOf(cache, miss, disk, s) /\ Logical(s)' = LogicalOf(cache', miss', disk', s)
    BY LogicalDef
  <2> QED
    BY <2>1
<1>8. \A s : Caught(p, s)' <=> Caught(p, s)
  <2>1. \A s : InCache(s)' <=> InCache(s)
    BY LogicalDef
  <2> QED
    BY <2>1 DEF Caught
<1>9. CacheRight(p)'
  <2>1. ~miss[p].yes /\ miss[p].victim = None
    BY <1>4 DEF NoMiss
  <2>2. /\ cache' \in Seq(CachedBlocks) /\ Len(cache') <= CacheSize
        /\ \A i, j \in 1 .. Len(cache') : cache'[i].sector = cache'[j].sector => i = j
    BY <1>1 DEF CacheRight
  <2> QED
    BY <2>1, <2>2 DEF CacheRight
<1>10. DiskRight'
  BY <1>1 DEF DiskRight
<1>11. SystemData(p)'
  BY <1>1, <1>2, <1>5, <1>6, <1>7, KeepSystemData
<1>12. \A f \in FileSector : f \in Sector
  BY Sectors
<1>13. HandleTypes'
  <2>1. \A t \in Sector : inode'[t].cnt = 0 => inode'[t] = Closed
    BY <1>1 DEF HandleTypes, SameFiles
  <2> QED
    BY <1>1, <2>1 DEF HandleTypes
<1>14. SystemInodes(p)'
  <2>2. inode[FREE_MAP_SECTOR] = FreeMapInode
    BY <1>1, <1>5 DEF SystemInodes
  <2>3. \A t \in {FREE_MAP_SECTOR, MapData, RootData, ROOT_DIR_SECTOR} : inode'[t] = inode[t]
    BY Sectors DEF SameFiles
  <2> QED
    BY <1>1, <1>2, <1>5, <1>6, <2>2, <2>3 DEF SystemInodes
<1>15. LoadedRight(p)'
  <2>1. \A t \in {ROOT_DIR_SECTOR} \cup FileSector : inode[t].cnt > 0 => inode[t].loaded
    BY <1>1, <1>5 DEF LoadedRight
  <2>2. \A t \in {ROOT_DIR_SECTOR} \cup FileSector : inode'[t].cnt > 0 => inode'[t].loaded
    <3> TAKE t \in {ROOT_DIR_SECTOR} \cup FileSector
    <3>1. t \in Sector
      BY Sectors
    <3> QED
      BY <2>1, <3>1 DEF SameFiles
  <2> QED
    BY <1>2, <1>6, <2>2 DEF LoadedRight
<1>16. \A f \in FileSector : InodeOf(f)' = InodeOf(f)
  BY <1>12 DEF InodeOf, SameFiles
<1>17. File \subseteq FileSector
  BY <1>1, FileFacts
<1>18. Made(p)' = {} /\ ToGive(p)' = {}
  BY <1>2, <1>6 DEF Made, ToGive
<1>19. InDir' = InDir /\ Named' = Named /\ File' = File
  <2>1. \A f \in FileSector : inode'[f].cnt = inode[f].cnt
    BY <1>12 DEF SameFiles
  <2> QED
    BY <1>7, <2>1, KeepFiles
<1>20. Unnamed'
  <2>1. \A f \in FileSector : inode'[f].cnt = inode[f].cnt /\ inode'[f].removed = inode[f].removed
    BY <1>12 DEF SameFiles
  <2> QED
    BY <1>1, <1>19, <2>1 DEF Unnamed
<1>21. InodesRight(p)'
  <2>1. \A f \in File : InodeOf(f)' = InodeOf(f) /\ disk'[f] = disk[f]
    BY <1>16, <1>17
  <2> QED
    BY <1>1, <1>5, <1>8, <1>19, <2>1, KeepInodes
<1>22. OwnersRight(p)'
  BY <1>1, <1>5, <1>16, <1>17, <1>18, <1>19, KeepOwners
<1>23. OffRight(p)'
  BY DEF OffRight
<1> QED
  BY <1>2, <1>9, <1>10, <1>11, <1>13, <1>14, <1>15, <1>20, <1>21, <1>22, <1>23 DEF Focus

-----------------------------------------------------------------------------
LEMMA StartBegins ==
  ASSUME NEW U, StartFacts(U)
  PROVE  BeginFacts(U)
<1>1. ~AtHead(U, {"lock", "off", "mapwrite", "readat", "load", "flush"})
  BY DEF StartFacts, AtHead
<1>2. ~AtHead(U, {"unique", "dirwrite"})
  <2>1. ~Has(U, {"unique", "dirwrite"})
    BY DEF StartFacts, StartOps, Making, Has
  <2> QED
    BY <2>1, HeadHas DEF StartFacts
<1>3. AtHead(U, {"open"}) => U[1].sector = ROOT_DIR_SECTOR
  BY DEF StartFacts, AtHead
<1>4. ~AtHead(U, {"lock", "off", "mapwrite", "readat", "load", "flush", "unique", "dirwrite"})
  BY <1>1, <1>2 DEF AtHead
<1> QED
  BY <1>3, <1>4 DEF StartFacts, BeginFacts

LEMMA StartNew ==
  ASSUME NEW p \in Proc, NEW U, BeginFacts(U), todo'[p] = U, reg' = reg,
         Has(U, {"create"}) => \A s \in Free : ~Caught(p, s),
         used' = used, \A s : Caught(p, s)' <=> Caught(p, s)
  PROVE  NewRight(p)'
<1>1. ~Has(U, Making) /\ ~Has(U, {"zero"}) /\ ~AtHead(U, {"unique", "dirwrite"})
  BY DEF BeginFacts, StartOps, Has, AtHead
<1>2. \A s : ~HasOn(U, {"zero"}, s)
  BY <1>1, HasOnHas
<1>3. Free' = Free
  BY DEF Free
<1>4. (Has(todo[p], {"create"}) => \A s \in Free : ~Caught(p, s))'
  BY <1>3
<1> QED
  BY <1>1, <1>2, <1>4 DEF NewRight

LEMMA StartNames ==
  ASSUME NEW p \in Proc, NEW U, BeginFacts(U), todo'[p] = U,
         Has(U, {"deny"}) => exec'[p] = None, Has(U, {"newfd"}) => fd'[p] = None
  PROVE  NamesRight(p)' /\ DataRight(p)'
<1>1. ~Has(U, {"erase"}) /\ ~Has(U, {"put"}) /\ ~Has(U, {"setlength"}) /\ ~AtHead(U, {"readat"})
  BY DEF BeginFacts, StartOps, Has, AtHead
<1>2. \A s : ~HasOn(U, {"setlength"}, s)
  BY <1>1, HasOnHas
<1>3. NamesRight(p)'
  BY <1>1 DEF NamesRight, Has, BeginFacts
<1>4. DataRight(p)'
  BY <1>1, <1>2 DEF DataRight, Has, Growing
<1> QED
  BY <1>3, <1>4

\* The calls that search the directory, and sys_halt().
LEMMA StartMove ==
  ASSUME NEW p \in Proc, Focus(p), \A q \in Proc : Idle(q), mode = "up", mode' = mode,
         NEW U, StartFacts(U), Given(p, U),
         UNCHANGED <<disk, cache, used, inode, fd, exec, leaked, fsLock, reg, miss, lost>>,
         Has(U, {"create"}) => \A s \in Free : ~InCache(s),
         Has(U, {"deny"}) => exec[p] = None, Has(U, {"newfd"}) => fd[p] = None
  PROVE  Focus(p)'
<1>1. Plans /\ Turn(p) /\ CacheRight(p) /\ HandleTypes /\ Counted(p)
  BY DEF Focus
<1>2. BeginFacts(U)
  BY StartBegins
<1>3. todo'[p] = U
  BY <1>1, <1>2, BeginPlans
<1>4. Quiet(p)
  BY DEF Idle, Quiet
<1>5. (\A f : ~Held(p, f)) /\ \A s : Caught(p, s) <=> InCache(s)
  BY <1>1, <1>4, QuietFacts
<1>6. \A s : Caught(p, s)' <=> Caught(p, s)
  <2>1. \A s : InCache(s)' <=> InCache(s)
    BY LogicalDef
  <2> QED
    BY <2>1 DEF Caught
<1>7. NewRight(p)'
  <2>1. Has(U, {"create"}) => \A s \in Free : ~Caught(p, s)
    BY <1>5
  <2> QED
    BY <1>2, <1>3, <1>6, <2>1, StartNew
<1>8. NamesRight(p)' /\ DataRight(p)'
  BY <1>2, <1>3, StartNames
<1>9. Counted(p)'
  <2>1. \A f \in FileSector : ~Held(p, f)'
    <3>1. ~RegHeld(U) /\ \A f \in FileSector : ~HasOn(U, {"close"}, f)
      BY DEF StartFacts
    <3> QED
      BY <1>3, <3>1 DEF Held
  <2>2. SameFds
    BY <1>1, SameFdsNow
  <2> QED
    BY <1>1, <1>5, <2>1, <2>2, KeepCounts
<1>10. SameFiles
  BY DEF SameFiles
<1> QED
  BY <1>1, <1>2, <1>7, <1>8, <1>9, <1>10, BeginMove DEF HandleTypes

-----------------------------------------------------------------------------
\* When all are idle the invariant may be about any of them.
LEMMA AllIdle ==
  ASSUME "alone" \in Assume, NEW p \in Proc, Idle(p), Alone(p)
  PROVE  \A q \in Proc : Idle(q)
BY DEF Alone

LEMMA AnyIdle ==
  ASSUME NEW p \in Proc, NEW q \in Proc, Focus(q), \A r \in Proc : Idle(r)
  PROVE  Focus(p)
<1>1. Quiet(p) /\ Quiet(q)
  BY DEF Idle, Quiet
<1> QED
  BY <1>1, Refocus

LEMMA CallCreateStep ==
  ASSUME {"alone", "noreuse"} \subseteq Assume, NEW p \in Proc, NEW q \in Proc, Focus(q),
         NEW n \in Name, NEW len \in 0 .. MaxLen, CallCreate(p, n, len), lost' = lost
  PROVE  Focus(p)'
<1> DEFINE t == Task("create", 0, <<n, len>>)
<1> DEFINE U == Root(<<t>>)
<1>1. /\ mode = "up" /\ mode' = mode /\ Idle(p) /\ Alone(p) /\ NoReuse /\ todo' = [todo EXCEPT ![p] = U]
      /\ UNCHANGED <<disk, cache, used, inode, fd, exec, leaked, fsLock, reg, miss>>
  BY DEF CallCreate, Enter
<1>2. (\A r \in Proc : Idle(r)) /\ Focus(p)
  BY <1>1, AllIdle, AnyIdle
<1>3. t \in Tasks /\ t.op = "create" /\ t.sector = 0 /\ t.arg = <<n, len>>
  BY Sectors, FilesAssumption DEF Task, Tasks, Op, Arguments, FREE_MAP_SECTOR
<1>4. Meant(t)
  BY <1>3 DEF Meant
<1>5. Given(p, U)
  BY <1>1 DEF Given
<1> HIDE DEF t
<1>6. U = Root(<<t>>)
  OBVIOUS
<1> HIDE DEF U
<1>7. StartFacts(U) /\ \A ops : Has(U, ops) <=> ("open" \in ops \/ t.op \in ops \/ "close" \in ops)
  BY <1>3, <1>4, <1>6, SearchStart
<1>8. ~Has(U, {"deny"}) /\ ~Has(U, {"newfd"})
  BY <1>3, <1>7
<1>9. \A s \in Free : ~InCache(s)
  BY <1>1 DEF NoReuse
<1> QED
  BY <1>1, <1>2, <1>5, <1>7, <1>8, <1>9, StartMove

LEMMA CallRemoveStep ==
  ASSUME "alone" \in Assume, NEW p \in Proc, NEW q \in Proc, Focus(q),
         NEW n \in Name, CallRemove(p, n), lost' = lost
  PROVE  Focus(p)'
<1> DEFINE t == Task("find", 0, n)
<1> DEFINE U == Root(<<t>>)
<1>1. /\ mode = "up" /\ mode' = mode /\ Idle(p) /\ Alone(p) /\ todo' = [todo EXCEPT ![p] = U]
      /\ UNCHANGED <<disk, cache, used, inode, fd, exec, leaked, fsLock, reg, miss>>
  BY DEF CallRemove, Enter
<1>2. (\A r \in Proc : Idle(r)) /\ Focus(p)
  BY <1>1, AllIdle, AnyIdle
<1>3. t \in Tasks /\ t.op = "find" /\ t.sector = 0 /\ t.arg = n
  BY Sectors DEF Task, Tasks, Op, Arguments, FREE_MAP_SECTOR
<1>4. Meant(t)
  BY <1>3 DEF Meant
<1>5. Given(p, U)
  BY <1>1 DEF Given
<1> HIDE DEF t
<1>6. U = Root(<<t>>)
  OBVIOUS
<1> HIDE DEF U
<1>7. StartFacts(U) /\ \A ops : Has(U, ops) <=> ("open" \in ops \/ t.op \in ops \/ "close" \in ops)
  BY <1>3, <1>4, <1>6, SearchStart
<1>8. ~Has(U, {"deny"}) /\ ~Has(U, {"newfd"}) /\ ~Has(U, {"create"})
  BY <1>3, <1>7
<1> QED
  BY <1>1, <1>2, <1>5, <1>7, <1>8, StartMove

LEMMA CallOpenStep ==
  ASSUME "alone" \in Assume, NEW p \in Proc, NEW q \in Proc, Focus(q),
         NEW n \in Name, CallOpen(p, n), lost' = lost
  PROVE  Focus(p)'
<1> DEFINE U == FilesysOpen(n) \o <<Do("newfd")>>
<1>1. /\ mode = "up" /\ mode' = mode /\ Idle(p) /\ Alone(p) /\ fd[p] = None /\ todo' = [todo EXCEPT ![p] = U]
      /\ UNCHANGED <<disk, cache, used, inode, fd, exec, leaked, fsLock, reg, miss>>
  BY DEF CallOpen, Enter
<1>2. (\A r \in Proc : Idle(r)) /\ Focus(p)
  BY <1>1, AllIdle, AnyIdle
<1>3. StartFacts(U) /\ ~Has(U, {"deny", "create"})
  BY OpenStart
<1>4. Given(p, U)
  BY <1>1 DEF Given
<1> HIDE DEF U
<1>5. ~Has(U, {"deny"}) /\ ~Has(U, {"create"})
  BY <1>3 DEF Has
<1> QED
  BY <1>1, <1>2, <1>3, <1>4, <1>5, StartMove

LEMMA CallExecStep ==
  ASSUME "alone" \in Assume, NEW p \in Proc, NEW q \in Proc, Focus(q),
         NEW n \in Name, CallExec(p, n), lost' = lost
  PROVE  Focus(p)'
<1> DEFINE U == FilesysOpen(n) \o <<Do("deny")>> \o FilesysOpen(n) \o <<Do("header"), Do("loaded")>>
<1>1. /\ mode = "up" /\ mode' = mode /\ Idle(p) /\ Alone(p) /\ exec[p] = None /\ todo' = [todo EXCEPT ![p] = U]
      /\ UNCHANGED <<disk, cache, used, inode, fd, exec, leaked, fsLock, reg, miss>>
  BY DEF CallExec, Enter
<1>2. (\A r \in Proc : Idle(r)) /\ Focus(p)
  BY <1>1, AllIdle, AnyIdle
<1>3. StartFacts(U) /\ ~Has(U, {"newfd", "create"})
  BY ExecStart
<1>4. Given(p, U)
  BY <1>1 DEF Given
<1> HIDE DEF U
<1>5. ~Has(U, {"newfd"}) /\ ~Has(U, {"create"})
  BY <1>3 DEF Has
<1> QED
  BY <1>1, <1>2, <1>3, <1>4, <1>5, StartMove

LEMMA CallHaltStep ==
  ASSUME "quiet" \in Assume, NEW p \in Proc, NEW q \in Proc, Focus(q), CallHalt(p), lost' = lost
  PROVE  Focus(p)'
<1> DEFINE U == <<Task("close", FREE_MAP_SECTOR, 0), Do("off")>>
<1>1. /\ mode = "up" /\ mode' = mode /\ (\A r \in Proc : Idle(r)) /\ todo' = [todo EXCEPT ![p] = U]
      /\ UNCHANGED <<disk, cache, used, inode, fd, exec, leaked, fsLock, reg, miss>>
  BY DEF CallHalt, Enter
<1>2. Focus(p)
  BY <1>1, AnyIdle
<1>3. StartFacts(U) /\ ~Has(U, {"newfd", "create", "deny"})
  BY HaltStart
<1>4. Given(p, U)
  BY <1>1 DEF Given
<1> HIDE DEF U
<1>5. ~Has(U, {"newfd"}) /\ ~Has(U, {"create"}) /\ ~Has(U, {"deny"})
  BY <1>3 DEF Has
<1> QED
  BY <1>1, <1>2, <1>3, <1>4, <1>5, StartMove

-----------------------------------------------------------------------------
\* A file is closed, by the process or by its end.
LEMMA CloseBegins ==
  ASSUME NEW e \in FileSector, NEW U, CloseShape(e, U)
  PROVE  /\ BeginFacts(U) /\ ~Has(U, {"create"}) /\ ~Has(U, {"deny"}) /\ ~Has(U, {"newfd"})
         /\ ~RegHeld(U) /\ ~AtHeadOn(U, "open", e)
         /\ \A f : HasOn(U, {"close"}, f) <=> f = e
         /\ \A f : ~AtHeadOn(U, "open", f)
<1>1. /\ Fit(U) /\ U # <<>> /\ U \in Seq(Tasks) /\ U[1].op = "close" /\ U[1].sector = e
      /\ \A ops : Has(U, ops) <=> "close" \in ops
      /\ \A ops, f : HasOn(U, ops, f) <=> ("close" \in ops /\ f = e)
      /\ ~RegHeld(U) /\ ~RootOpen(U)
  BY ClosePlan
<1>2. ~Has(U, StartOps) /\ ~Has(U, {"create"}) /\ ~Has(U, {"deny"}) /\ ~Has(U, {"newfd"})
  BY <1>1 DEF StartOps, Making
<1>3. \A ops : AtHead(U, ops) => "close" \in ops
  BY <1>1 DEF AtHead
<1>4. \A f : ~AtHeadOn(U, "open", f)
  BY <1>1 DEF AtHeadOn
<1>5. BeginFacts(U)
  BY <1>1, <1>2, <1>3 DEF BeginFacts
<1>6. \A f : HasOn(U, {"close"}, f) <=> f = e
  BY <1>1
<1> QED
  BY <1>1, <1>2, <1>4, <1>5, <1>6

LEMMA LessOpened ==
  ASSUME NEW p \in Proc, HandleTypes, fd[p] # None, fd' = [fd EXCEPT ![p] = None]
  PROVE  /\ fd[p].sector \in FileSector
         /\ fd' \in [Proc -> {None} \cup [sector : FileSector, pos : Nat]]
         /\ \A f \in FileSector : Cardinality(Opened(f)') \in Nat
         /\ \A f \in FileSector : f # fd[p].sector => Opened(f)' = Opened(f)
         /\ \A f \in FileSector : f = fd[p].sector =>
              Cardinality(Opened(f)) = Cardinality(Opened(f)') + 1
<1>1. fd \in [Proc -> {None} \cup [sector : FileSector, pos : Nat]]
  BY DEF HandleTypes
<1>2. fd[p].sector \in FileSector
  BY <1>1
<1>3. /\ fd' \in [Proc -> {None} \cup [sector : FileSector, pos : Nat]]
      /\ fd'[p] = None /\ \A q \in Proc \ {p} : fd'[q] = fd[q]
  BY <1>1
<1>4. \A f \in FileSector : Opened(f)' = IF f = fd[p].sector THEN Opened(f) \ {p} ELSE Opened(f)
  <2> TAKE f \in FileSector
  <2>1. Opened(f) = {q \in Proc : fd[q] # None /\ fd[q].sector = f}
        /\ Opened(f)' = {q \in Proc : fd'[q] # None /\ fd'[q].sector = f}
    BY DEF Opened
  <2> QED
    BY <1>3, <2>1
<1>5. \A f \in FileSector : f = fd[p].sector => Cardinality(Opened(f)) = Cardinality(Opened(f)') + 1
                                               /\ Cardinality(Opened(f)') \in Nat
  <2> SUFFICES ASSUME NEW f \in FileSector, f = fd[p].sector
               PROVE  Cardinality(Opened(f)) = Cardinality(Opened(f)') + 1
                      /\ Cardinality(Opened(f)') \in Nat
    OBVIOUS
  <2>1. IsFiniteSet(Opened(f)) /\ Cardinality(Opened(f)) \in Nat
    BY Cards
  <2>2. p \in Opened(f)
    BY DEF Opened
  <2>3. Opened(f)' = Opened(f) \ {p}
    BY <1>4
  <2>4. Cardinality(Opened(f) \ {p}) = Cardinality(Opened(f)) - 1 /\ IsFiniteSet(Opened(f) \ {p})
    BY <2>1, <2>2, FS_RemoveElement
  <2>5. Cardinality(Opened(f) \ {p}) \in Nat
    BY <2>4, FS_CardinalityType
  <2> QED
    BY <2>1, <2>3, <2>4, <2>5
<1>6. \A f \in FileSector : f # fd[p].sector => Opened(f)' = Opened(f)
  BY <1>4
<1>7. \A f \in FileSector : Cardinality(Opened(f)') \in Nat
  <2> TAKE f \in FileSector
  <2>1. Cardinality(Opened(f)) \in Nat
    BY Cards
  <2> QED
    BY <1>5, <1>6, <2>1
<1> QED
  BY <1>2, <1>3, <1>5, <1>6, <1>7

LEMMA CallCloseStep ==
  ASSUME "alone" \in Assume, NEW p \in Proc, NEW q \in Proc, Focus(q), CallClose(p), lost' = lost
  PROVE  Focus(p)'
<1> DEFINE e == fd[p].sector
<1> DEFINE U == <<Task("close", e, 0)>>
<1>1. /\ mode = "up" /\ mode' = mode /\ Idle(p) /\ Alone(p) /\ todo' = [todo EXCEPT ![p] = U]
      /\ fd[p] # None /\ fd' = [fd EXCEPT ![p] = None]
      /\ UNCHANGED <<disk, cache, used, inode, exec, leaked, fsLock, reg, miss>>
  BY DEF CallClose, Enter
<1>2. (\A r \in Proc : Idle(r)) /\ Focus(p)
  BY <1>1, AllIdle, AnyIdle
<1>3. Plans /\ Turn(p) /\ CacheRight(p) /\ HandleTypes /\ Counted(p)
  BY <1>2 DEF Focus
<1>4. /\ e \in FileSector
      /\ fd' \in [Proc -> {None} \cup [sector : FileSector, pos : Nat]]
      /\ \A f \in FileSector : Cardinality(Opened(f)') \in Nat
      /\ \A f \in FileSector : f # e => Opened(f)' = Opened(f)
      /\ \A f \in FileSector : f = e => Cardinality(Opened(f)) = Cardinality(Opened(f)') + 1
  BY <1>1, <1>3, LessOpened
<1>5. CloseShape(e, U) /\ Given(p, U)
  BY <1>1 DEF CloseShape, Given
<1> HIDE DEF U, e
<1>6. /\ BeginFacts(U) /\ ~Has(U, {"create"}) /\ ~Has(U, {"deny"}) /\ ~Has(U, {"newfd"})
      /\ ~RegHeld(U)
      /\ \A f : HasOn(U, {"close"}, f) <=> f = e
      /\ \A f : ~AtHeadOn(U, "open", f)
  BY <1>4, <1>5, CloseBegins
<1>7. todo'[p] = U
  BY <1>1, <1>2, <1>3, <1>5, <1>6, BeginPlans
<1>8. Quiet(p)
  BY <1>1 DEF Idle, Quiet
<1>9. \A f : ~Held(p, f)
  BY <1>3, <1>8, QuietFacts
<1>10. \A f : Held(p, f)' <=> f = e
  BY <1>6, <1>7 DEF Held
<1>11. Counted(p)'
  <2> SUFFICES ASSUME NEW f \in FileSector
               PROVE  /\ inode'[f].cnt = leaked'[f] + Cardinality(Executing(f)') + Cardinality(Opened(f)')
                                         + (IF Held(p, f)' THEN 1 ELSE 0)
                      /\ inode'[f].deny = Cardinality(Executing(f)')
    BY DEF Counted
  <2> DEFINE E == Cardinality(Executing(f))
  <2> DEFINE O == Cardinality(Opened(f)')
  <2>1. Executing(f)' = Executing(f)
    BY <1>1 DEF Executing
  <2>2. /\ inode[f].cnt = leaked[f] + E + Cardinality(Opened(f)) + (IF Held(p, f) THEN 1 ELSE 0)
        /\ inode[f].deny = E
    BY <1>3 DEF Counted
  <2>3. E \in Nat /\ O \in Nat /\ leaked[f] \in Nat
    BY <1>3, <1>4, Cards
  <2>4. inode' = inode /\ leaked' = leaked
    BY <1>1
  <2>5. CASE f = e
    <3>1. Cardinality(Opened(f)) = O + 1 /\ Held(p, f)' /\ ~Held(p, f)
      BY <1>4, <1>9, <1>10, <2>5
    <3>2. inode[f].cnt = leaked[f] + E + (O + 1) + 0
      BY <2>2, <3>1
    <3>3. leaked[f] + E + (O + 1) + 0 = leaked[f] + E + O + 1
      <4> HIDE DEF E, O
      <4> QED
        BY <2>3
    <3> QED
      BY <2>1, <2>2, <2>4, <3>1, <3>2, <3>3
  <2>6. CASE f # e
    <3>1. Opened(f)' = Opened(f) /\ ~Held(p, f)' /\ ~Held(p, f)
      BY <1>4, <1>9, <1>10, <2>6
    <3> QED
      BY <2>1, <2>2, <2>4, <3>1
  <2> QED
    BY <2>5, <2>6
<1>12. \A s : Caught(p, s)' <=> Caught(p, s)
  <2>1. cache' = cache /\ miss' = miss
    BY <1>1
  <2>2. \A s : InCache(s)' <=> InCache(s)
    BY <2>1, LogicalDef
  <2> QED
    BY <2>1, <2>2 DEF Caught
<1>13. NewRight(p)'
  BY <1>1, <1>6, <1>7, <1>12, StartNew
<1>14. NamesRight(p)' /\ DataRight(p)'
  BY <1>6, <1>7, StartNames
<1>15. SameFiles
  BY <1>1 DEF SameFiles
<1>16. inode' \in [Sector -> Inodes] /\ exec' \in [Proc -> {None} \cup FileSector] /\ leaked' \in [FileSector -> Nat]
  BY <1>1, <1>3 DEF HandleTypes
<1> QED
  BY <1>1, <1>2, <1>4, <1>5, <1>6, <1>11, <1>13, <1>14, <1>15, <1>16, BeginMove

-----------------------------------------------------------------------------
\* process_exit() leaks the handle of an open file.
Leaks(p) == /\ fd' = [fd EXCEPT ![p] = None]
            /\ fd[p] = None => leaked' = leaked
            /\ fd[p] # None => leaked' = [leaked EXCEPT ![fd[p].sector] = @ + 1]
LEMMA LeaksCount ==
  ASSUME NEW p \in Proc, HandleTypes, Leaks(p)
  PROVE  /\ fd' \in [Proc -> {None} \cup [sector : FileSector, pos : Nat]]
         /\ leaked' \in [FileSector -> Nat]
         /\ \A f \in FileSector : /\ Cardinality(Opened(f)') \in Nat
                                  /\ leaked'[f] + Cardinality(Opened(f)') = leaked[f] + Cardinality(Opened(f))
<1>1. /\ fd \in [Proc -> {None} \cup [sector : FileSector, pos : Nat]]
      /\ leaked \in [FileSector -> Nat]
  BY DEF HandleTypes
<1>2. CASE fd[p] = None
  <2>1. fd' = fd /\ leaked' = leaked
    BY <1>1, <1>2 DEF Leaks
  <2>2. \A f \in FileSector : Opened(f)' = Opened(f)
    BY <2>1 DEF Opened
  <2>3. \A f \in FileSector : Cardinality(Opened(f)) \in Nat
    BY Cards
  <2> QED
    BY <1>1, <2>1, <2>2, <2>3
<1>3. CASE fd[p] # None
  <2> DEFINE e == fd[p].sector
  <2>1. fd' = [fd EXCEPT ![p] = None] /\ leaked' = [leaked EXCEPT ![e] = leaked[e] + 1]
    BY <1>3 DEF Leaks
  <2>2. /\ e \in FileSector
        /\ fd' \in [Proc -> {None} \cup [sector : FileSector, pos : Nat]]
        /\ \A f \in FileSector : Cardinality(Opened(f)') \in Nat
        /\ \A f \in FileSector : f # e => Opened(f)' = Opened(f)
        /\ \A f \in FileSector : f = e => Cardinality(Opened(f)) = Cardinality(Opened(f)') + 1
    BY <1>3, <2>1, LessOpened
  <2> HIDE DEF e
  <2>3. leaked[e] \in Nat
    BY <1>1, <2>2
  <2>4. leaked' \in [FileSector -> Nat] /\ leaked'[e] = leaked[e] + 1
        /\ \A f \in FileSector : f # e => leaked'[f] = leaked[f]
    BY <1>1, <2>1, <2>2, <2>3
  <2>5. ASSUME NEW f \in FileSector
        PROVE  leaked'[f] + Cardinality(Opened(f)') = leaked[f] + Cardinality(Opened(f))
    <3> DEFINE O == Cardinality(Opened(f)')
    <3> DEFINE Q == Cardinality(Opened(f))
    <3>1. CASE f = e
      <4>1. Q = O + 1 /\ O \in Nat /\ leaked'[f] = leaked[f] + 1 /\ leaked[f] \in Nat
        BY <1>1, <2>2, <2>4, <3>1
      <4> HIDE DEF O, Q
      <4>2. leaked'[f] + O = leaked[f] + Q
        BY <4>1
      <4> QED
        BY <4>2 DEF O, Q
    <3>2. CASE f # e
      <4>1. Opened(f)' = Opened(f) /\ leaked'[f] = leaked[f]
        BY <2>2, <2>4, <3>2
      <4> QED
        BY <4>1
    <3> QED
      BY <3>1, <3>2
  <2> QED
    BY <2>2, <2>4, <2>5
<1> QED
  BY <1>2, <1>3

\* A process without an executable ends.
LEMMA ExitPlain ==
  ASSUME NEW p \in Proc, Focus(p), \A r \in Proc : Idle(r), mode = "up", mode' = mode, Leaks(p),
         UNCHANGED <<disk, cache, used, inode, exec, todo, fsLock, reg, miss, lost>>
  PROVE  Focus(p)'
<1> DEFINE U == <<>>
<1>1. Plans /\ Turn(p) /\ CacheRight(p) /\ HandleTypes /\ Counted(p)
  BY DEF Focus
<1>2. Fit(U) /\ U \in Seq(Tasks)
  BY NoTasks
<1>3. BeginFacts(U)
  BY <1>2, NothingIn DEF BeginFacts
<1>4. Given(p, U)
  <2>1. todo \in [Proc -> Seq(Tasks)] /\ todo[p] = U
    BY <1>1 DEF Plans, Idle
  <2> QED
    BY <2>1 DEF Given
<1>5. todo'[p] = U
  BY DEF Idle
<1>6. /\ fd' \in [Proc -> {None} \cup [sector : FileSector, pos : Nat]]
      /\ leaked' \in [FileSector -> Nat]
      /\ \A f \in FileSector : /\ Cardinality(Opened(f)') \in Nat
                               /\ leaked'[f] + Cardinality(Opened(f)') = leaked[f] + Cardinality(Opened(f))
  BY <1>1, LeaksCount
<1>7. Quiet(p)
  BY DEF Idle, Quiet
<1>8. \A f : ~Held(p, f)
  BY <1>1, <1>7, QuietFacts
<1>9. ~Has(U, {"create"}) /\ ~Has(U, {"deny"}) /\ ~Has(U, {"newfd"}) /\ ~RegHeld(U)
      /\ \A f : ~HasOn(U, {"close"}, f)
  BY NothingIn
<1>10. \A f : ~Held(p, f)'
  BY <1>5, <1>9 DEF Held
<1>11. Counted(p)'
  <2> SUFFICES ASSUME NEW f \in FileSector
               PROVE  /\ inode'[f].cnt = leaked'[f] + Cardinality(Executing(f)') + Cardinality(Opened(f)')
                                         + (IF Held(p, f)' THEN 1 ELSE 0)
                      /\ inode'[f].deny = Cardinality(Executing(f)')
    BY DEF Counted
  <2> DEFINE E == Cardinality(Executing(f))
  <2> DEFINE O == Cardinality(Opened(f)')
  <2> DEFINE Q == Cardinality(Opened(f))
  <2>1. Executing(f)' = Executing(f)
    BY DEF Executing
  <2>2. inode[f].cnt = leaked[f] + E + Q + 0 /\ inode[f].deny = E
    BY <1>1, <1>8 DEF Counted
  <2>3. E \in Nat /\ O \in Nat /\ Q \in Nat /\ leaked[f] \in Nat /\ leaked'[f] \in Nat
    BY <1>1, <1>6, Cards
  <2>4. leaked'[f] + O = leaked[f] + Q
    BY <1>6
  <2>5. leaked[f] + E + Q + 0 = leaked'[f] + E + O + 0
    <3> HIDE DEF E, O, Q
    <3> QED
      BY <2>3, <2>4
  <2> QED
    BY <1>10, <2>1, <2>2, <2>5
<1>12. \A s : Caught(p, s)' <=> Caught(p, s)
  <2>1. \A s : InCache(s)' <=> InCache(s)
    BY LogicalDef
  <2> QED
    BY <2>1 DEF Caught
<1> HIDE DEF U
<1>13. NewRight(p)'
  BY <1>3, <1>5, <1>9, <1>12, StartNew
<1>14. NamesRight(p)' /\ DataRight(p)'
  BY <1>3, <1>5, <1>9, StartNames
<1>15. SameFiles
  BY DEF SameFiles
<1>16. inode' \in [Sector -> Inodes] /\ exec' \in [Proc -> {None} \cup FileSector]
  BY <1>1 DEF HandleTypes
<1> QED
  BY <1>3, <1>4, <1>6, <1>11, <1>13, <1>14, <1>15, <1>16, BeginMove

\* A process with an executable ends: writes to it are allowed again, and it is closed.
LEMMA ExitClose ==
  ASSUME NEW p \in Proc, Focus(p), \A r \in Proc : Idle(r), mode = "up", mode' = mode, Leaks(p),
         NEW e, e = exec[p], e # None, AllowWrite(p), NEW U, CloseShape(e, U), Given(p, U),
         UNCHANGED <<disk, cache, used, fsLock, reg, miss, lost>>
  PROVE  Focus(p)'
<1>1. Plans /\ Turn(p) /\ CacheRight(p) /\ HandleTypes /\ Counted(p)
  BY DEF Focus
<1>2. AllowFacts(p, e)
  BY <1>1, Allow
<1>3. /\ e \in FileSector /\ inode' \in [Sector -> Inodes]
      /\ exec' \in [Proc -> {None} \cup FileSector] /\ exec'[p] = None
      /\ \A f \in FileSector : /\ f # e => Executing(f)' = Executing(f)
                               /\ inode'[f].deny = Cardinality(Executing(f)')
                               /\ Cardinality(Executing(f)') \in Nat
      /\ Cardinality(Executing(e)) = Cardinality(Executing(e)') + 1
  BY <1>2 DEF AllowFacts
<1>4. SameFiles
  BY <1>2 DEF AllowFacts, SameFiles
<1>5. /\ BeginFacts(U) /\ ~Has(U, {"create"}) /\ ~Has(U, {"deny"}) /\ ~Has(U, {"newfd"})
      /\ ~RegHeld(U)
      /\ \A f : HasOn(U, {"close"}, f) <=> f = e
      /\ \A f : ~AtHeadOn(U, "open", f)
  BY <1>3, CloseBegins
<1>6. todo'[p] = U
  BY <1>1, <1>5, BeginPlans
<1>7. /\ fd' \in [Proc -> {None} \cup [sector : FileSector, pos : Nat]]
      /\ leaked' \in [FileSector -> Nat]
      /\ \A f \in FileSector : /\ Cardinality(Opened(f)') \in Nat
                               /\ leaked'[f] + Cardinality(Opened(f)') = leaked[f] + Cardinality(Opened(f))
  BY <1>1, LeaksCount
<1>8. Quiet(p)
  BY DEF Idle, Quiet
<1>9. \A f : ~Held(p, f)
  BY <1>1, <1>8, QuietFacts
<1>10. \A f : Held(p, f)' <=> f = e
  BY <1>5, <1>6 DEF Held
<1>11. Counted(p)'
  <2> SUFFICES ASSUME NEW f \in FileSector
               PROVE  /\ inode'[f].cnt = leaked'[f] + Cardinality(Executing(f)') + Cardinality(Opened(f)')
                                         + (IF Held(p, f)' THEN 1 ELSE 0)
                      /\ inode'[f].deny = Cardinality(Executing(f)')
    BY DEF Counted
  <2> DEFINE E == Cardinality(Executing(f))
  <2> DEFINE D == Cardinality(Executing(f)')
  <2> DEFINE O == Cardinality(Opened(f)')
  <2> DEFINE Q == Cardinality(Opened(f))
  <2>1. f \in Sector
    BY Sectors
  <2>2. inode'[f].cnt = leaked[f] + E + Q + 0
    <3>1. inode'[f].cnt = inode[f].cnt
      BY <1>4, <2>1 DEF SameFiles
    <3> QED
      BY <1>1, <1>9, <3>1 DEF Counted
  <2>3. E \in Nat /\ D \in Nat /\ O \in Nat /\ Q \in Nat /\ leaked[f] \in Nat /\ leaked'[f] \in Nat
    BY <1>1, <1>3, <1>7, Cards
  <2>4. leaked'[f] + O = leaked[f] + Q
    BY <1>7
  <2>5. E = D + (IF f = e THEN 1 ELSE 0)
    <3>1. CASE f = e
      BY <1>3, <3>1
    <3>2. CASE f # e
      <4>1. Executing(f)' = Executing(f)
        BY <1>3, <3>2
      <4>2. E = D
        BY <4>1
      <4> QED
        BY <2>3, <3>2, <4>2
    <3> QED
      BY <3>1, <3>2
  <2>6. leaked[f] + E + Q + 0 = leaked'[f] + D + O + (IF f = e THEN 1 ELSE 0)
    <3> HIDE DEF E, D, O, Q
    <3> QED
      BY <2>3, <2>4, <2>5
  <2>7. inode'[f].deny = D
    BY <1>3
  <2> QED
    BY <1>10, <2>2, <2>6, <2>7
<1>12. \A s : Caught(p, s)' <=> Caught(p, s)
  <2>1. \A s : InCache(s)' <=> InCache(s)
    BY LogicalDef
  <2> QED
    BY <2>1 DEF Caught
<1>13. NewRight(p)'
  BY <1>5, <1>6, <1>12, StartNew
<1>14. NamesRight(p)' /\ DataRight(p)'
  BY <1>5, <1>6, StartNames
<1> QED
  BY <1>3, <1>4, <1>5, <1>7, <1>11, <1>13, <1>14, BeginMove

LEMMA CallExitStep ==
  ASSUME "alone" \in Assume, NEW p \in Proc, NEW q \in Proc, Focus(q), CallExit(p), lost' = lost
  PROVE  Focus(p)'
<1>1. /\ mode = "up" /\ mode' = mode /\ Idle(p) /\ Alone(p)
      /\ UNCHANGED <<disk, cache, used, fsLock, reg, miss>>
  BY DEF CallExit
<1>2. (\A r \in Proc : Idle(r)) /\ Focus(p)
  BY <1>1, AllIdle, AnyIdle
<1>3. Leaks(p)
  BY DEF CallExit, Leaks
<1>4. CASE exec[p] = None
  <2>1. UNCHANGED <<inode, exec, todo>>
    BY <1>4 DEF CallExit
  <2> QED
    BY <1>1, <1>2, <1>3, <2>1, ExitPlain
<1>5. CASE exec[p] # None
  <2>1. AllowWrite(p) /\ todo' = [todo EXCEPT ![p] = <<Task("close", exec[p], 0)>>]
    BY <1>5 DEF CallExit
  <2>2. PICK e : e = exec[p]
    OBVIOUS
  <2> DEFINE U == <<Task("close", e, 0)>>
  <2>3. CloseShape(e, U) /\ Given(p, U)
    BY <2>1, <2>2 DEF CloseShape, Given
  <2> HIDE DEF U
  <2> QED
    BY <1>1, <1>2, <1>3, <1>5, <2>1, <2>2, <2>3, ExitClose
<1> QED
  BY <1>4, <1>5

-----------------------------------------------------------------------------
\* Another process begins to wait for filesys_lock, or moves its position.
LEMMA OtherMove ==
  ASSUME NEW p \in Proc, Focus(p), mode' = mode, Plans', Turn(p)', todo'[p] = todo[p],
         UNCHANGED <<disk, cache, used, inode, exec, leaked, reg, miss, lost>>,
         SameFds, fd' \in [Proc -> {None} \cup [sector : FileSector, pos : Nat]]
  PROVE  Focus(p)'
<1>1. /\ CacheRight(p) /\ DiskRight /\ SystemData(p) /\ HandleTypes /\ SystemInodes(p) /\ Counted(p)
      /\ Unnamed /\ LoadedRight(p) /\ InodesRight(p) /\ OwnersRight(p)
      /\ NewRight(p) /\ NamesRight(p) /\ DataRight(p) /\ OffRight(p)
  BY DEF Focus
<1>2. (\A s : InCache(s)' <=> InCache(s)) /\ \A s : Logical(s)' = Logical(s)
  <2>1. \A s : InCache(s)' <=> InCache(s)
    BY LogicalDef
  <2>2. ASSUME NEW s PROVE Logical(s)' = Logical(s)
    <3>1. Logical(s) = LogicalOf(cache, miss, disk, s) /\ Logical(s)' = LogicalOf(cache', miss', disk', s)
      BY LogicalDef
    <3> QED
      BY <3>1
  <2> QED
    BY <2>1, <2>2
<1>3. \A s : Caught(p, s)' <=> Caught(p, s)
  BY <1>2 DEF Caught
<1>4. CacheRight(p)'
  <2>1. Wants(p)' = Wants(p)
    BY DEF Wants, S, Arg
  <2>2. Quiet(p)' <=> Quiet(p)
    BY DEF Quiet
  <2>3. miss[p].yes => /\ ~Quiet(p)' /\ Wants(p)' # None /\ ~InCache(Wants(p))'
                       /\ Len(cache') < CacheSize
    <3>1. InCache(Wants(p))' <=> InCache(Wants(p))
      BY <2>1, LogicalDef
    <3> QED
      BY <1>1, <2>1, <2>2, <3>1 DEF CacheRight
  <2>4. miss[p].victim # None => /\ miss[p].yes /\ ~InCache(miss[p].victim.sector)'
                                 /\ miss[p].victim.sector # Wants(p)'
    <3>1. InCache(miss[p].victim.sector)' <=> InCache(miss[p].victim.sector)
      BY LogicalDef
    <3> QED
      BY <1>1, <2>1, <3>1 DEF CacheRight
  <2>5. /\ cache' \in Seq(CachedBlocks) /\ Len(cache') <= CacheSize
        /\ \A i, j \in 1 .. Len(cache') : cache'[i].sector = cache'[j].sector => i = j
    BY <1>1 DEF CacheRight
  <2> QED
    BY <2>3, <2>4, <2>5 DEF CacheRight
<1>5. DiskRight'
  BY <1>1 DEF DiskRight
<1>6. SystemData(p)'
  <2>1. Logical(MapData)' = Logical(MapData) /\ Logical(RootData)' = Logical(RootData)
    BY <1>2
  <2> QED
    BY <1>1, <2>1 DEF SystemData, DirKind
<1>7. InDir' = InDir /\ Named' = Named /\ File' = File
  BY <1>2, KeepFiles
<1>8. /\ \A f : Held(p, f)' <=> Held(p, f)
      /\ \A f : Growing(p, f)' <=> Growing(p, f)
      /\ \A f : Writing(p, f)' <=> Writing(p, f)
      /\ Made(p)' = Made(p) /\ ToGive(p)' = ToGive(p)
      /\ \A f : InodeOf(f)' = InodeOf(f)
  <2>1. \A f : Held(p, f)' <=> Held(p, f)
    BY DEF Held
  <2>2. (\A f : Growing(p, f)' <=> Growing(p, f)) /\ (\A f : Writing(p, f)' <=> Writing(p, f))
    BY DEF Growing, Writing
  <2>3. Made(p)' = Made(p) /\ ToGive(p)' = ToGive(p)
    BY DEF Made, ToGive
  <2>4. \A f : InodeOf(f)' = InodeOf(f)
    BY DEF InodeOf
  <2> QED
    BY <2>1, <2>2, <2>3, <2>4
<1>9. HandleTypes' /\ SystemInodes(p)' /\ Unnamed' /\ LoadedRight(p)'
  <2>1. HandleTypes'
    BY <1>1 DEF HandleTypes
  <2>2. SystemInodes(p)'
    BY <1>1 DEF SystemInodes
  <2>3. Unnamed'
    BY <1>1, <1>7 DEF Unnamed
  <2>4. LoadedRight(p)'
    BY <1>1 DEF LoadedRight
  <2> QED
    BY <2>1, <2>2, <2>3, <2>4
<1>10. Counted(p)'
  BY <1>1, <1>8, KeepCounts
<1>11. InodesRight(p)'
  BY <1>1, <1>3, <1>7, <1>8, KeepInodes
<1>12. OwnersRight(p)'
  BY <1>1, <1>7, <1>8, KeepOwners
<1>13. NewRight(p)'
  <2>1. Free' = Free
    BY DEF Free
  <2>2. Caught(p, reg[p][1])' <=> Caught(p, reg[p][1])
    BY SameCaught
  <2>3. (Has(todo[p], Making) => /\ reg[p] # <<>> /\ IsInjective(reg[p]) /\ ~Caught(p, reg[p][1])
                                 /\ Allots(todo[p], Len(reg[p]) - 1))'
    BY <1>1, <2>2 DEF NewRight
  <2>4. (AtHead(todo[p], {"unique", "dirwrite"}) =>
           /\ disk[reg[p][1]] = OnDisk(Tail(reg[p]), Len(reg[p]) - 1)
           /\ Len(reg[p]) - 1 <= MaxLen)'
    BY <1>1 DEF NewRight
  <2>5. (Has(todo[p], {"create"}) => \A s \in Free : ~Caught(p, s))'
    BY <1>1, <1>3, <2>1 DEF NewRight
  <2>6. (\A s \in FileSector : HasOn(todo[p], {"zero"}, s) => s \notin File)'
    BY <1>1, <1>7 DEF NewRight
  <2> QED
    BY <2>3, <2>4, <2>5, <2>6 DEF NewRight
<1>14. NamesRight(p)'
  BY <1>1, <1>7 DEF NamesRight, SameFds
<1>15. DataRight(p)'
  BY <1>1, <1>8 DEF DataRight
<1>16. OffRight(p)'
  BY <1>1 DEF OffRight
<1> QED
  BY <1>4, <1>5, <1>6, <1>9, <1>10, <1>11, <1>12, <1>13, <1>14, <1>15, <1>16 DEF Focus

-----------------------------------------------------------------------------
\* sys_read(), sys_write() and sys_seek() begin.
LEMMA DataMove ==
  ASSUME NEW p \in Proc, NEW q \in Proc, Focus(p), mode = "up", mode' = mode, Idle(q),
         NEW U, Fit(U), U = <<>> \/ U[1].op = "lock", Given(q, U),
         \A i \in 1 .. Len(U) : U[i].op \in DataOps => fd[q] # None /\ U[i].sector = fd[q].sector,
         UNCHANGED <<disk, cache, used, inode, exec, leaked, fsLock, reg, miss, lost>>,
         SameFds, fd' \in [Proc -> {None} \cup [sector : FileSector, pos : Nat]],
         U # <<>> /\ ~Quiet(p) => Has(todo[p], {"unlock"})
  PROVE  \E r \in Proc : Focus(r)'
<1>1. Plans /\ Turn(p) /\ CacheRight(p)
  BY DEF Focus
<1>2. Quiet(q) /\ U \in Seq(Tasks)
  BY DEF Quiet, Idle, Fit
<1>3. todo \in [Proc -> Seq(Tasks)]
  BY <1>1 DEF Plans
<1>4. todo' \in [Proc -> Seq(Tasks)] /\ todo'[q] = U /\ \A r \in Proc \ {q} : todo'[r] = todo[r]
  BY <1>2, <1>3 DEF Given
<1>5. Plans'
  <2>1. \A r \in Proc : Fit(todo'[r])
    BY <1>1, <1>4 DEF Plans
  <2>2. ASSUME NEW r \in Proc, Has(todo'[r], {"unlock"}), NEW i \in 1 .. Len(todo'[r]),
               todo'[r][i].op \in DataOps
        PROVE  fd'[r] # None /\ todo'[r][i].sector = fd'[r].sector
    <3>1. CASE r # q
      <4>1. fd[r] # None /\ todo'[r][i].sector = fd[r].sector
        BY <1>1, <1>4, <2>2, <3>1 DEF Plans
      <4> QED
        BY <4>1 DEF SameFds
    <3>2. CASE r = q
      <4>1. fd[r] # None /\ todo'[r][i].sector = fd[r].sector
        BY <1>4, <2>2, <3>2
      <4> QED
        BY <4>1 DEF SameFds
    <3> QED
      BY <3>1, <3>2
  <2> QED
    BY <1>1, <1>4, <2>1, <2>2 DEF Plans
<1>6. Quiet(q)'
  BY <1>4 DEF Quiet
<1>7. CASE Quiet(p)
  <2>1. Focus(q)
    BY <1>2, <1>7, Refocus
  <2>2. /\ Turn(q) /\ CacheRight(q)
    BY <2>1 DEF Focus
  <2>3. miss[q] = NoMiss
    BY <1>1, <1>2, <2>2, QuietFacts
  <2>4. Plain(todo[q]) /\ Plain(U)
    <3>1. Fit(todo[q]) /\ todo[q] = <<>>
      BY <1>1 DEF Plans, Idle
    <3> QED
      BY <3>1, PlainQuiet
  <2>5. Turn(q)'
    <3>1. \A r \in Proc \ {q} : (Quiet(r) /\ miss[r] = NoMiss)'
      BY <1>4, <2>2 DEF Turn, Quiet
    <3>2. fsLock = None
      BY <1>2, <2>2 DEF Turn
    <3> QED
      BY <1>6, <3>1, <3>2 DEF Turn
  <2>6. Focus(q)'
    BY <1>2, <1>4, <1>5, <2>1, <2>3, <2>4, <2>5, PlainStep
  <2> QED
    BY <2>6
<1>8. CASE ~Quiet(p)
  <2>1. p # q /\ todo'[p] = todo[p]
    BY <1>2, <1>4, <1>8
  <2>2. Turn(p)'
    <3>1. \A r \in Proc \ {p} : (Quiet(r) /\ miss[r] = NoMiss)'
      <4> TAKE r \in Proc \ {p}
      <4>1. Quiet(r) /\ miss[r] = NoMiss
        BY <1>1 DEF Turn
      <4>2. CASE r = q
        BY <1>6, <4>1, <4>2
      <4>3. CASE r # q
        BY <1>4, <4>1, <4>3 DEF Quiet
      <4> QED
        BY <4>2, <4>3
    <3>2. ~Has(todo[p], {"unlock"}) => \A r \in Proc \ {p} : Idle(r)'
      <4> SUFFICES ASSUME ~Has(todo[p], {"unlock"}), NEW r \in Proc \ {p} PROVE Idle(r)'
        OBVIOUS
      <4>1. U = <<>>
        BY <1>8
      <4>2. Idle(r)
        BY <1>1, <1>8 DEF Turn
      <4> QED
        BY <1>4, <4>1, <4>2 DEF Idle
    <3>3. fsLock' = IF ~Quiet(p) /\ Has(todo[p], {"unlock"}) THEN p ELSE None
      BY <1>1 DEF Turn
    <3>4. Quiet(p)' <=> Quiet(p)
      BY <2>1 DEF Quiet
    <3> QED
      BY <2>1, <3>1, <3>2, <3>3, <3>4 DEF Turn
  <2>3. Focus(p)'
    BY <1>5, <2>1, <2>2, OtherMove
  <2> QED
    BY <2>3
<1> QED
  BY <1>7, <1>8

-----------------------------------------------------------------------------
\* The tasks of a read or a write.
DataShape(a, b, c, U) == U = <<a, b, c>>
LEMMA DataFit ==
  ASSUME NEW a \in Tasks, NEW b \in Tasks, NEW c \in Tasks, NEW U, DataShape(a, b, c, U),
         a.op = "lock", b.op \in {"read", "write"}, c.op = "unlock", Meant(b)
  PROVE  Fit(U) /\ U[1].op = "lock" /\ \A i \in 1 .. Len(U) : U[i] = b \/ U[i].op \notin DataOps
<1>1. U \in Seq(Tasks) /\ Len(U) = 3 /\ U[1] = a /\ U[2] = b /\ U[3] = c
  BY DEF DataShape
<1>2. 1 .. Len(U) = {1, 2, 3}
  BY <1>1
<1>3. Meant(a) /\ Meant(c)
  BY DEF Meant
<1>4. MayFollow(a, b) /\ MayFollow(b, c) /\ MayEnd(c)
  BY DEF MayFollow, MayEnd
<1>5. MayPrecede(a, b) /\ MayPrecede(a, c) /\ MayPrecede(b, c)
  BY DEF MayPrecede
<1>6. \A i \in 1 .. Len(U) : Meant(U[i])
  <2>1. \A i \in {1, 2, 3} : U[i] = a \/ U[i] = b \/ U[i] = c
    BY <1>1
  <2> QED
    BY <1>2, <1>3, <2>1 DEF DataShape
<1>7. Chained(U)
  <2>1. ASSUME NEW i \in 1 .. Len(U), i < Len(U) PROVE MayFollow(U[i], U[i + 1])
    <3>1. i = 1 \/ i = 2
      BY <1>1, <2>1
    <3>2. CASE i = 1
      <4>1. U[i] = a /\ U[i + 1] = b
        BY <1>1, <3>2
      <4> QED
        BY <1>4, <4>1
    <3>3. CASE i = 2
      <4>1. U[i] = b /\ U[i + 1] = c
        BY <1>1, <3>3
      <4> QED
        BY <1>4, <4>1
    <3> QED
      BY <3>1, <3>2, <3>3
  <2>2. U[Len(U)] = c
    BY <1>1
  <2>3. MayEnd(U[Len(U)])
    BY <1>4, <2>2
  <2> QED
    BY <2>1, <2>3 DEF Chained
<1>8. Ordered(U)
  <2> SUFFICES ASSUME NEW i \in 1 .. Len(U), NEW j \in 1 .. Len(U), i < j
               PROVE  MayPrecede(U[i], U[j])
    BY DEF Ordered
  <2>1. (i = 1 /\ j = 2) \/ (i = 1 /\ j = 3) \/ (i = 2 /\ j = 3)
    BY <1>2
  <2>2. (U[i] = a /\ U[j] = b) \/ (U[i] = a /\ U[j] = c) \/ (U[i] = b /\ U[j] = c)
    BY <1>1, <2>1
  <2> QED
    BY <1>5, <2>2
<1>9. \A i \in 1 .. Len(U) : U[i].op \in {"lock", "read", "write", "unlock"}
  <2>1. \A i \in {1, 2, 3} : U[i] = a \/ U[i] = b \/ U[i] = c
    BY <1>1
  <2> QED
    BY <1>2, <2>1
<1>10. Paired(U)
  BY <1>1, <1>9 DEF Paired
<1>11. \A i \in 1 .. Len(U) : U[i] = b \/ U[i].op \notin DataOps
  <2>1. \A i \in {1, 2, 3} : U[i] = a \/ U[i] = b \/ U[i] = c
    BY <1>1
  <2>2. a.op \notin DataOps /\ c.op \notin DataOps
    BY DEF DataOps
  <2> QED
    BY <1>2, <2>1, <2>2
<1> QED
  BY <1>1, <1>6, <1>7, <1>8, <1>10, <1>11 DEF Fit

\* A process beside which the call of another may begin is in a read or a write.
LEMMA BesideData ==
  ASSUME "alone" \in Assume, NEW p \in Proc, NEW q \in Proc, Focus(p), Idle(q), Beside(q), ~Quiet(p)
  PROVE  Has(todo[p], {"unlock"})
<1>1. p # q /\ ~Idle(p)
  BY DEF Quiet, Idle
<1>2. InData(p)
  BY <1>1 DEF Beside
<1>3. todo[p] \in Seq(Tasks) /\ todo[p] # <<>>
  BY <1>1 DEF Focus, Plans, Idle
<1>4. Len(todo[p]) \in 1 .. Len(todo[p]) /\ Last(todo[p]) = todo[p][Len(todo[p])]
  BY <1>3 DEF Last
<1> QED
  BY <1>2, <1>4 DEF InData, Has

LEMMA ReadStarts ==
  ASSUME "alone" \in Assume, NEW p \in Proc, NEW q \in Proc, Focus(p), mode = "up", mode' = mode,
         Idle(q), Beside(q), NEW o \in {"read", "write"}, NEW x, fd[q] # None,
         o = "read" => x \in (1 .. MaxLen) \X BOOLEAN, o = "write" => x \in (1 .. MaxLen) \X Val,
         NEW U, DataShape(Do("lock"), Task(o, fd[q].sector, x), Do("unlock"), U), Given(q, U),
         UNCHANGED <<disk, cache, used, inode, fd, exec, leaked, fsLock, reg, miss, lost>>
  PROVE  \E r \in Proc : Focus(r)'
<1>1. Plans /\ HandleTypes
  BY DEF Focus
<1>2. fd \in [Proc -> {None} \cup [sector : FileSector, pos : Nat]]
  BY <1>1 DEF HandleTypes
<1>3. fd[q].sector \in FileSector
  BY <1>2
<1> DEFINE e == fd[q].sector
<1> HIDE DEF e
<1>4. e \in FileSector /\ e \in Sector
  BY <1>3 DEF e, Sector
<1> DEFINE a == Do("lock")
<1> DEFINE b == Task(o, e, x)
<1> DEFINE c == Do("unlock")
<1>5. a \in Tasks /\ a.op = "lock" /\ c \in Tasks /\ c.op = "unlock"
  BY Sectors DEF Do, Task, Tasks, Op, Arguments, FREE_MAP_SECTOR
<1>6. x \in Arguments
  <2>1. 1 .. MaxLen \subseteq Nat
    BY FilesAssumption
  <2> QED
    BY <2>1 DEF Arguments
<1>7. b \in Tasks /\ b.op = o /\ b.sector = e /\ b.arg = x
  BY <1>4, <1>6 DEF Task, Tasks, Op
<1>8. DataShape(a, b, c, U)
  BY DEF e
<1> HIDE DEF a, b, c
<1>9. Meant(b)
  <2>1. o = "read" \/ o = "write"
    OBVIOUS
  <2> QED
    BY <1>4, <1>7, <2>1 DEF Meant
<1>10. Fit(U) /\ U[1].op = "lock" /\ \A i \in 1 .. Len(U) : U[i] = b \/ U[i].op \notin DataOps
  <2>1. b.op \in {"read", "write"}
    BY <1>7
  <2> QED
    BY <1>5, <1>7, <1>8, <1>9, <2>1, DataFit
<1>11. \A i \in 1 .. Len(U) : U[i].op \in DataOps => fd[q] # None /\ U[i].sector = fd[q].sector
  BY <1>7, <1>10 DEF e
<1>12. SameFds /\ fd' \in [Proc -> {None} \cup [sector : FileSector, pos : Nat]]
  <2>1. fd' = fd
    OBVIOUS
  <2> QED
    BY <1>2, <2>1 DEF SameFds
<1>13. U # <<>> /\ ~Quiet(p) => Has(todo[p], {"unlock"})
  BY BesideData
<1> QED
  BY <1>10, <1>11, <1>12, <1>13, DataMove

-----------------------------------------------------------------------------
LEMMA CallReadStep ==
  ASSUME "alone" \in Assume, NEW p \in Proc, NEW q \in Proc, Focus(q), CallRead(p), lost' = lost
  PROVE  \E r \in Proc : Focus(r)'
<1> DEFINE x == <<fd[p].pos + 1, TRUE>>
<1> DEFINE U == <<Do("lock"), Task("read", fd[p].sector, x), Do("unlock")>>
<1>0. SUFFICES ASSUME ~CallExit(p) PROVE \E r \in Proc : Focus(r)'
  BY CallExitStep
<1>1. /\ mode = "up" /\ mode' = mode /\ Idle(p) /\ Beside(p) /\ todo' = [todo EXCEPT ![p] = U]
      /\ fd[p] # None /\ fd[p].pos < MaxLen
      /\ UNCHANGED <<disk, cache, used, inode, fd, exec, leaked, fsLock, reg, miss>>
  BY <1>0 DEF CallRead, Enter
<1>2. fd \in [Proc -> {None} \cup [sector : FileSector, pos : Nat]]
  BY DEF Focus, HandleTypes
<1>3. fd[p].pos \in Nat
  BY <1>1, <1>2
<1>4. x \in (1 .. MaxLen) \X BOOLEAN
  <2> DEFINE n == fd[p].pos + 1
  <2>1. n \in 1 .. MaxLen
    BY <1>1, <1>3, FilesAssumption
  <2>2. x = <<n, TRUE>>
    OBVIOUS
  <2> HIDE DEF n, x
  <2>3. TRUE \in BOOLEAN
    OBVIOUS
  <2> QED
    BY <2>1, <2>2, <2>3, Zenon
<1>5. DataShape(Do("lock"), Task("read", fd[p].sector, x), Do("unlock"), U) /\ Given(p, U)
  BY <1>1 DEF DataShape, Given
<1> HIDE DEF x, U
<1> QED
  BY <1>1, <1>4, <1>5, ReadStarts

LEMMA CallWriteStep ==
  ASSUME "alone" \in Assume, NEW p \in Proc, NEW q \in Proc, Focus(q), NEW v \in Val,
         CallWrite(p, v), lost' = lost
  PROVE  \E r \in Proc : Focus(r)'
<1> DEFINE x == <<fd[p].pos + 1, v>>
<1> DEFINE U == <<Do("lock"), Task("write", fd[p].sector, x), Do("unlock")>>
<1>0. SUFFICES ASSUME ~CallExit(p) PROVE \E r \in Proc : Focus(r)'
  BY CallExitStep
<1>1. /\ mode = "up" /\ mode' = mode /\ Idle(p) /\ Beside(p) /\ todo' = [todo EXCEPT ![p] = U]
      /\ fd[p] # None /\ fd[p].pos < MaxLen
      /\ UNCHANGED <<disk, cache, used, inode, fd, exec, leaked, fsLock, reg, miss>>
  BY <1>0 DEF CallWrite, Enter
<1>2. fd \in [Proc -> {None} \cup [sector : FileSector, pos : Nat]]
  BY DEF Focus, HandleTypes
<1>3. fd[p].pos \in Nat
  BY <1>1, <1>2
<1>4. x \in (1 .. MaxLen) \X Val
  BY <1>1, <1>3, FilesAssumption
<1>5. DataShape(Do("lock"), Task("write", fd[p].sector, x), Do("unlock"), U) /\ Given(p, U)
  BY <1>1 DEF DataShape, Given
<1> HIDE DEF x, U
<1> QED
  BY <1>1, <1>4, <1>5, ReadStarts

LEMMA CallSeekStep ==
  ASSUME "alone" \in Assume, NEW p \in Proc, NEW q \in Proc, Focus(q), NEW k \in 0 .. MaxLen,
         CallSeek(p, k), lost' = lost
  PROVE  \E r \in Proc : Focus(r)'
<1>0. SUFFICES ASSUME ~CallExit(p), ~Panic(p) PROVE \E r \in Proc : Focus(r)'
  <2>1. CASE Panic(p)
    <3>1. Panic(q)
      BY <2>1 DEF Panic
    <3> QED
      BY <3>1, PanicStep
  <2> QED
    BY <2>1, CallExitStep
<1>1. /\ mode = "up" /\ mode' = mode /\ Idle(p) /\ todo' = [todo EXCEPT ![p] = <<>>]
      /\ fd[p] # None /\ fd' = [fd EXCEPT ![p].pos = k]
      /\ UNCHANGED <<disk, cache, used, inode, exec, leaked, fsLock, reg, miss>>
  BY <1>0 DEF CallSeek, Enter
<1>2. fd \in [Proc -> {None} \cup [sector : FileSector, pos : Nat]]
  BY DEF Focus, HandleTypes
<1>3. k \in Nat
  BY FilesAssumption
<1>4. fd[p] \in [sector : FileSector, pos : Nat]
  BY <1>1, <1>2
<1> DEFINE e == [fd[p] EXCEPT !.pos = k]
<1>5. e \in [sector : FileSector, pos : Nat] /\ e.sector = fd[p].sector
  BY <1>3, <1>4
<1>6. fd' = [fd EXCEPT ![p] = e]
  BY <1>1
<1>7. FileSector \subseteq Sector
  BY DEF Sector
<1> HIDE DEF e
<1>8. e # None
  BY <1>5, <1>7, NoneAssumption
<1>9. fd' \in [Proc -> {None} \cup [sector : FileSector, pos : Nat]]
  BY <1>2, <1>5, <1>6
<1>10. SameFds
  BY <1>1, <1>2, <1>5, <1>6, <1>8 DEF SameFds
<1>11. Fit(<<>>) /\ Given(p, <<>>)
  BY <1>1, NoTasks DEF Given
<1>12. \A i \in 1 .. Len(<<>>) : <<>>[i].op \in DataOps => fd[p] # None /\ <<>>[i].sector = fd[p].sector
  OBVIOUS
<1> QED
  BY <1>1, <1>9, <1>10, <1>11, <1>12, DataMove

-----------------------------------------------------------------------------
\* Whatever call begins, the invariant holds for one of the processes.
Careful == Assume = {"alone", "noreuse", "quiet"}

LEMMA CallKeeps ==
  ASSUME Careful, NEW p \in Proc, NEW q \in Proc, Focus(q), Call(p)
  PROVE  \E r \in Proc : Focus(r)'
<1>1. "alone" \in Assume /\ "quiet" \in Assume /\ {"alone", "noreuse"} \subseteq Assume
  BY DEF Careful
<1>2. lost' = lost
  BY DEF Call
<1>3. CASE \E n \in Name : CallRemove(p, n)
  BY <1>1, <1>2, <1>3, CallRemoveStep
<1>4. CASE \E n \in Name : CallOpen(p, n)
  BY <1>1, <1>2, <1>4, CallOpenStep
<1>5. CASE \E n \in Name : CallExec(p, n)
  BY <1>1, <1>2, <1>5, CallExecStep
<1>6. CASE \E n \in Name : \E len \in 0 .. MaxLen : CallCreate(p, n, len)
  BY <1>1, <1>2, <1>6, CallCreateStep
<1>7. CASE CallRead(p)
  BY <1>1, <1>2, <1>7, CallReadStep
<1>8. CASE CallClose(p)
  BY <1>1, <1>2, <1>8, CallCloseStep
<1>9. CASE CallExit(p)
  BY <1>1, <1>2, <1>9, CallExitStep
<1>10. CASE CallHalt(p)
  BY <1>1, <1>2, <1>10, CallHaltStep
<1>11. CASE \E v \in Val \ {Zero} : CallWrite(p, v)
  BY <1>1, <1>2, <1>11, CallWriteStep
<1>12. CASE \E k \in 0 .. MaxLen : CallSeek(p, k)
  BY <1>1, <1>2, <1>12, CallSeekStep
<1> QED
  BY <1>3, <1>4, <1>5, <1>6, <1>7, <1>8, <1>9, <1>10, <1>11, <1>12 DEF Call

-----------------------------------------------------------------------------
\* A machine that has just been started, on the disk it finds.
Started ==
  /\ cache = BootCache /\ inode = BootInode /\ mode = "up"
  /\ fd = Each(None) /\ exec = Each(None) /\ leaked = NoLeak /\ fsLock = None
  /\ todo = Each(<<>>) /\ reg = Each(<<>>) /\ miss = Each(NoMiss)

Listed   == {e[2] : e \in disk[RootData].entries}
Parts(f) == {f} \cup ToSet(disk[f].direct)
Stands   == UNION {Parts(f) : f \in Listed}

StoredRight ==
  /\ disk \in [Sector -> Contents] /\ used \subseteq Sector
  /\ disk[FREE_MAP_SECTOR] = OnDisk(<<MapData>>, 1)
  /\ disk[ROOT_DIR_SECTOR] = OnDisk(<<RootData>>, 1)
  /\ disk[MapData] = Map(used) /\ DirKind(disk[RootData])
  /\ \A f \in Listed : /\ disk[f] \in [direct : Seq(FileSector), length : Nat]
                       /\ Len(disk[f].direct) <= MaxLen
                       /\ disk[f].length = Len(disk[f].direct)
                       /\ IsInjective(disk[f].direct) /\ f \notin ToSet(disk[f].direct)
  /\ \A f, g \in Listed : f # g => Parts(f) \cap Parts(g) = {}
  /\ lost \subseteq FileSector /\ lost \cap Stands = {}
  /\ used = (0 .. 3) \cup lost \cup Stands

LEMMA StartedData ==
  ASSUME Started, StoredRight, NEW p \in Proc
  PROVE  /\ \A s : InCache(s) <=> s = MapData
         /\ \A s : Logical(s) = disk[s]
         /\ \A s : Caught(p, s) <=> s = MapData
         /\ CacheRight(p)
<1>1. miss[p] = NoMiss /\ todo[p] = <<>> /\ \A q \in Proc : miss[q] = NoMiss
  BY DEF Started, Each
<1>2. Len(cache) = 1 /\ cache[1].sector = MapData /\ cache[1].data = disk[MapData]
  BY DEF Started, BootCache, Entry
<1>3. disk[MapData] \in Contents
  BY Sectors DEF StoredRight
<1>4. cache \in Seq(CachedBlocks)
  <2> DEFINE b == Entry(MapData, disk[MapData])
  <2>1. b \in CachedBlocks
    BY <1>3 DEF CachedBlocks, Entry
  <2>2. cache = <<b>>
    BY DEF Started, BootCache
  <2> HIDE DEF b
  <2> QED
    BY <2>1, <2>2
<1>5. \A s : HitIn(cache, s) = IF s = MapData THEN 1 ELSE 0
  <2>1. \A i \in 1 .. Len(cache) : i = 1
    BY <1>2
  <2>2. cache \in Lists
    BY <1>4, <2>1 DEF Lists
  <2> TAKE s
  <2>3. /\ HitIn(cache, s) \in 0 .. 1
        /\ HitIn(cache, s) > 0 => cache[HitIn(cache, s)].sector = s
        /\ cache[1].sector = s => HitIn(cache, s) = 1
    BY <1>2, <2>2, HitOf
  <2> QED
    BY <1>2, <2>3
<1>6. \A s : InCache(s) <=> s = MapData
  BY <1>5, LogicalDef
<1>7. NoMiss.victim = None /\ NoMiss.yes = FALSE
  BY DEF NoMiss
<1>8. \A s : Logical(s) = disk[s]
  <2> TAKE s
  <2>1. Logical(s) = LogicalOf(cache, miss, disk, s)
    BY LogicalDef
  <2>2. {q \in Proc : miss[q].victim # None /\ miss[q].victim.sector = s} = {}
    BY <1>1, <1>7
  <2>3. CASE s = MapData
    BY <1>2, <1>5, <2>1, <2>3 DEF LogicalOf
  <2>4. CASE s # MapData
    BY <1>5, <2>1, <2>2, <2>4 DEF LogicalOf
  <2> QED
    BY <2>3, <2>4
<1>9. \A s : Caught(p, s) <=> s = MapData
  BY <1>1, <1>6, <1>7 DEF Caught
<1>10. CacheRight(p)
  BY <1>1, <1>2, <1>4, <1>7, FilesAssumption DEF CacheRight
<1> QED
  BY <1>6, <1>8, <1>9, <1>10

-----------------------------------------------------------------------------
LEMMA StartedInodes ==
  ASSUME Started, StoredRight
  PROVE  /\ inode \in [Sector -> Inodes]
         /\ inode[FREE_MAP_SECTOR] = FreeMapInode
         /\ \A s \in Sector : s # FREE_MAP_SECTOR => inode[s] = Closed
         /\ inode[FREE_MAP_SECTOR].cnt = 1
         /\ Closed.cnt = 0 /\ Closed.deny = 0 /\ Closed.removed = FALSE /\ Closed.loaded = FALSE
<1>1. Closed \in Inodes /\ Closed.cnt = 0 /\ Closed.deny = 0 /\ Closed.removed = FALSE /\ Closed.loaded = FALSE
  <2>1. <<>> \in Seq(FileSector \cup {MapData, RootData})
    OBVIOUS
  <2>2. OnDisk(<<>>, 0) \in OnDisks
    BY <2>1 DEF OnDisk, OnDisks
  <2> QED
    BY <2>2 DEF Closed, Inodes
<1>2. OnDisk(<<MapData>>, 1) \in OnDisks
  <2>1. <<MapData>> \in Seq(FileSector \cup {MapData, RootData})
    OBVIOUS
  <2> QED
    BY <2>1 DEF OnDisk, OnDisks
<1>3. FreeMapInode \in Inodes /\ FreeMapInode.cnt = 1
  <2> DEFINE d == OnDisk(<<MapData>>, 1)
  <2>1. d \in OnDisks /\ FreeMapInode = [Closed EXCEPT !.cnt = 1, !.loaded = TRUE, !.data = d]
    BY <1>2 DEF FreeMapInode
  <2> HIDE DEF d
  <2> QED
    BY <1>1, <2>1 DEF Inodes
<1>4. \A s \in Sector : inode[s] = IF s = FREE_MAP_SECTOR THEN FreeMapInode ELSE Closed
  BY DEF Started, StoredRight, BootInode, FreeMapInode
<1>5. inode = [s \in Sector |-> inode[s]]
  BY DEF Started, BootInode
<1>6. \A s \in Sector : inode[s] \in Inodes
  BY <1>1, <1>3, <1>4
<1>7. inode \in [Sector -> Inodes]
  BY <1>5, <1>6
<1> QED
  BY <1>1, <1>3, <1>4, <1>7, Sectors

LEMMA StartedFiles ==
  ASSUME Started, StoredRight
  PROVE  /\ Listed \subseteq FileSector
         /\ File = Listed /\ Named = Listed
         /\ \A f \in FileSector : inode[f] = Closed /\ InodeOf(f) = disk[f]
         /\ \A f \in File : Whole(f) = Parts(f)
         /\ Owns = Stands
<1> PICK p \in Proc : TRUE
  BY FilesAssumption
<1>1. \A s : Logical(s) = disk[s]
  BY StartedData
<1>2. Listed \subseteq FileSector
  <2>1. PICK E \in SUBSET (Name \X FileSector) : disk[RootData] = Dir(E)
    BY DEF StoredRight, DirKind
  <2>2. disk[RootData].entries = E
    BY <2>1 DEF Dir
  <2>3. \A e \in E : e[2] \in FileSector
    OBVIOUS
  <2> QED
    BY <2>2, <2>3 DEF Listed
<1>3. \A f \in FileSector : inode[f] = Closed
  BY StartedInodes, Sectors
<1>4. Closed.cnt = 0 /\ Closed.loaded = FALSE
  BY StartedInodes
<1>5. \A f \in FileSector : InodeOf(f) = disk[f] /\ inode[f].cnt = 0
  BY <1>3, <1>4 DEF InodeOf
<1>6. InDir = disk[RootData].entries
  BY <1>1 DEF InDir
<1>7. Named = Listed
  BY <1>6 DEF Named, Listed
<1>8. File = Listed
  <2>1. {s \in FileSector : inode[s].cnt > 0} = {}
    BY <1>5
  <2> QED
    BY <1>6, <2>1 DEF File, Listed
<1>9. \A f \in File : Whole(f) = Parts(f)
  BY <1>2, <1>5, <1>8 DEF Whole, Parts
<1>10. Owns = Stands
  BY <1>8, <1>9 DEF Owns, Stands
<1> QED
  BY <1>2, <1>3, <1>5, <1>7, <1>8, <1>9, <1>10

LEMMA StartedFocus ==
  ASSUME Started, StoredRight, NEW p \in Proc
  PROVE  Focus(p)
<1>1. /\ \A q \in Proc : todo[q] = <<>> /\ reg[q] = <<>> /\ miss[q] = NoMiss /\ fd[q] = None /\ exec[q] = None
      /\ \A f \in FileSector : leaked[f] = 0
      /\ fsLock = None /\ mode = "up"
  BY DEF Started, Each, NoLeak
<1>2. /\ \A s : Logical(s) = disk[s]
      /\ \A s : Caught(p, s) <=> s = MapData
      /\ CacheRight(p)
  BY StartedData
<1>3. /\ inode \in [Sector -> Inodes] /\ inode[FREE_MAP_SECTOR] = FreeMapInode
      /\ \A s \in Sector : s # FREE_MAP_SECTOR => inode[s] = Closed
      /\ inode[FREE_MAP_SECTOR].cnt = 1
      /\ Closed.cnt = 0 /\ Closed.deny = 0 /\ Closed.removed = FALSE /\ Closed.loaded = FALSE
  BY StartedInodes
<1>4. /\ Listed \subseteq FileSector /\ File = Listed /\ Named = Listed
      /\ \A f \in FileSector : inode[f] = Closed /\ InodeOf(f) = disk[f]
      /\ \A f \in File : Whole(f) = Parts(f)
      /\ Owns = Stands
  BY StartedFiles
<1>5. Plans
  <2>1. todo \in [Proc -> Seq(Tasks)] /\ reg \in [Proc -> Seq(FileSector)]
    <3>1. <<>> \in Seq(Tasks) /\ <<>> \in Seq(FileSector)
      OBVIOUS
    <3> QED
      BY <3>1 DEF Started, Each
  <2>2. miss \in [Proc -> Misses]
    <3>1. NoMiss \in Misses
      BY DEF NoMiss, Misses
    <3> QED
      BY <3>1 DEF Started, Each
  <2>3. \A q \in Proc : Fit(todo[q])
    BY <1>1, NoTasks
  <2>4. \A q \in Proc : ~Has(todo[q], {"unlock"})
    BY <1>1, NothingIn
  <2> QED
    BY <2>1, <2>2, <2>3, <2>4 DEF Plans
<1>6. Turn(p)
  BY <1>1 DEF Turn, Quiet
<1>7. DiskRight
  BY DEF DiskRight, StoredRight
<1>8. SystemData(p)
  BY <1>1, <1>2, NothingIn DEF SystemData, StoredRight
<1>9. HandleTypes
  <2>1. leaked \in [FileSector -> Nat] /\ fd \in [Proc -> {None}] /\ exec \in [Proc -> {None}]
    BY DEF Started, Each, NoLeak
  <2>2. \A s \in Sector : inode[s].cnt = 0 => inode[s] = Closed
    BY <1>3
  <2> QED
    BY <1>3, <2>1, <2>2 DEF HandleTypes
<1>10. SystemInodes(p)
  <2>1. inode[MapData] = Closed /\ inode[RootData] = Closed /\ inode[ROOT_DIR_SECTOR] = Closed
    BY <1>3, Sectors
  <2>2. ~RootOpen(todo[p])
    BY <1>1, NothingIn
  <2> QED
    BY <1>3, <2>1, <2>2 DEF SystemInodes
<1>11. ~RegHeld(todo[p]) /\ (\A ops : ~Has(todo[p], ops)) /\ (\A ops, f : ~HasOn(todo[p], ops, f))
       /\ (\A ops : ~AtHead(todo[p], ops)) /\ (\A op, f : ~AtHeadOn(todo[p], op, f))
  BY <1>1, NothingIn
<1>12. Counted(p)
  <2> SUFFICES ASSUME NEW f \in FileSector
               PROVE  /\ inode[f].cnt = leaked[f] + Cardinality(Executing(f)) + Cardinality(Opened(f))
                                        + (IF Held(p, f) THEN 1 ELSE 0)
                      /\ inode[f].deny = Cardinality(Executing(f))
    BY DEF Counted
  <2>1. Executing(f) = {} /\ Opened(f) = {}
    <3>1. f # None
      BY Sectors
    <3> QED
      BY <1>1, <3>1 DEF Executing, Opened
  <2>2. Cardinality(Executing(f)) = 0 /\ Cardinality(Opened(f)) = 0
    BY <2>1, FS_EmptySet
  <2>3. ~Held(p, f)
    BY <1>11 DEF Held
  <2> QED
    BY <1>1, <1>3, <1>4, <2>2, <2>3
<1>13. Unnamed
  BY <1>3, <1>4 DEF Unnamed
<1>14. LoadedRight(p)
  <2>1. \A s \in {ROOT_DIR_SECTOR} \cup FileSector : inode[s].cnt = 0
    BY <1>3, <1>4, Sectors
  <2> QED
    BY <1>11, <2>1 DEF LoadedRight
<1>15. InodesRight(p)
  <2> SUFFICES ASSUME NEW f \in File PROVE FileRight(p, f)
    BY DEF InodesRight
  <2>1. f \in Listed /\ f \in FileSector /\ InodeOf(f) = disk[f] /\ f # MapData
    BY <1>4, Sectors
  <2>2. /\ disk[f] \in [direct : Seq(FileSector), length : Nat]
        /\ Len(disk[f].direct) <= MaxLen /\ disk[f].length = Len(disk[f].direct)
        /\ IsInjective(disk[f].direct) /\ f \notin ToSet(disk[f].direct)
    BY <2>1 DEF StoredRight
  <2>3. disk[f].length <= Len(disk[f].direct)
    BY <2>2
  <2>4. ~Caught(p, f)
    BY <1>2, <2>1
  <2> QED
    BY <2>1, <2>2, <2>3, <2>4 DEF FileRight
<1>16. OwnersRight(p)
  <2>1. Made(p) = {} /\ ToGive(p) = {}
    BY <1>11 DEF Made, ToGive
  <2>2. \A f, g \in File : f # g => Whole(f) \cap Whole(g) = {}
    <3> SUFFICES ASSUME NEW f \in File, NEW g \in File, f # g PROVE Whole(f) \cap Whole(g) = {}
      OBVIOUS
    <3>1. Whole(f) = Parts(f) /\ Whole(g) = Parts(g) /\ f \in Listed /\ g \in Listed
      BY <1>4
    <3>2. Parts(f) \cap Parts(g) = {}
      BY <3>1 DEF StoredRight
    <3> QED
      BY <3>1, <3>2
  <2>3. /\ lost \subseteq FileSector /\ lost \cap Stands = {} /\ used = (0 .. 3) \cup lost \cup Stands
    BY DEF StoredRight
  <2> QED
    BY <1>4, <2>1, <2>2, <2>3 DEF OwnersRight
<1>17. NewRight(p)
  BY <1>11, SMTT(30) DEF NewRight
<1>18. NamesRight(p) /\ DataRight(p)
  <2>1. 1 .. Len(todo[p]) = {}
    BY <1>1
  <2>2. \A f : ~Growing(p, f)
    BY <1>11 DEF Growing
  <2> QED
    BY <1>11, <2>1, <2>2 DEF NamesRight, DataRight
<1>19. OffRight(p)
  BY <1>1 DEF OffRight
<1> QED
  BY <1>2, <1>5, <1>6, <1>7, <1>8, <1>9, <1>10, <1>12, <1>13, <1>14, <1>15, <1>16, <1>17, <1>18, <1>19 DEF Focus

LEMMA StartedInv == Started /\ StoredRight => FilesInv
<1> SUFFICES ASSUME Started, StoredRight PROVE FilesInv
  OBVIOUS
<1> PICK p \in Proc : TRUE
  BY FilesAssumption
<1> QED
  BY StartedFocus DEF FilesInv

LEMMA StartedNext == Started' /\ StoredRight' => FilesInv'
BY StartedInv, PTL

-----------------------------------------------------------------------------
\* A call that switches the machine off has nothing else to do.
LEMMA OffPlan ==
  ASSUME NEW T, Fit(T), AtHead(T, {"off"})
  PROVE  /\ T # <<>> /\ ~RootOpen(T) /\ ~AtHeadOn(T, "flush", RootData)
         /\ \A ops : Has(T, ops) <=> "off" \in ops
         /\ \A ops, f : HasOn(T, ops, f) => "off" \in ops
<1>1. T # <<>> /\ T[1].op = "off" /\ T \in Seq(Tasks)
  BY DEF AtHead, Fit
<1> DEFINE R == Tail(T)
<1> DEFINE b == T[1]
<1>2. T = <<b>> \o R /\ b \in Tasks /\ R \in Seq(Tasks)
  BY <1>1, Split
<1>3. b.op = "off"
  BY <1>1
<1>4. R = <<>>
  <2>1. R # <<>> => MayFollow(b, R[1])
    BY <1>1, FitRest
  <2> HIDE DEF b, R
  <2> QED
    BY <1>3, <2>1 DEF MayFollow
<1>5. ~AtHeadOn(T, "flush", RootData)
  BY <1>1 DEF AtHeadOn
<1> HIDE DEF b, R
<1>6. /\ \A ops : Has(<<b>> \o R, ops) <=> (b.op \in ops \/ Has(R, ops))
      /\ \A ops, f : HasOn(<<b>> \o R, ops, f) <=> ((b.op \in ops /\ b.sector = f) \/ HasOn(R, ops, f))
      /\ RootOpen(<<b>> \o R) <=> (~OpenRoot(b) /\ (CloseRoot(b) \/ RootOpen(R)))
  BY <1>2, OnCons
<1>7. ~RootOpen(R) /\ (\A ops : ~Has(R, ops)) /\ \A ops, f : ~HasOn(R, ops, f)
  BY <1>4, NothingIn
<1>8. ~CloseRoot(b)
  BY <1>3 DEF CloseRoot
<1> QED
  BY <1>1, <1>2, <1>3, <1>5, <1>6, <1>7, <1>8

\* What a machine that is switched off leaves on its disk.
LEMMA OffStored ==
  ASSUME NEW q \in Proc, Focus(q), mode = "off"
  PROVE  /\ disk[MapData] = Map(used) /\ DirKind(disk[RootData])
         /\ Listed = Named /\ Named \subseteq File
         /\ \A f \in File : ~Growing(q, f) /\ ~Writing(q, f)
         /\ \A f \in File : InodeOf(f) = disk[f] /\ Whole(f) = Parts(f)
<1> DEFINE T == todo[q]
<1>1. Plans /\ SystemData(q) /\ InodesRight(q) /\ OffRight(q)
  BY DEF Focus
<1>2. AtHead(T, {"off"}) /\ Fit(T)
  BY <1>1 DEF Plans, OffRight
<1> HIDE DEF T
<1>3. /\ T # <<>> /\ ~RootOpen(T) /\ ~AtHeadOn(T, "flush", RootData)
      /\ \A ops, f : HasOn(T, ops, f) => "off" \in ops
  BY <1>2, OffPlan
<1>4. disk[MapData] = Map(used) /\ disk[RootData] = Logical(RootData) /\ DirKind(Logical(RootData))
  BY <1>1, <1>2, <1>3 DEF SystemData, T
<1>5. \A f : ~Growing(q, f) /\ ~Writing(q, f)
  BY <1>3 DEF Growing, Writing, T
<1>6. Listed = Named /\ Named \subseteq File
  BY <1>4 DEF Listed, Named, InDir, File
<1>7. \A f \in File : InodeOf(f) = disk[f] /\ Whole(f) = Parts(f)
  <2> TAKE f \in File
  <2>1. InodeOf(f) = disk[f]
    BY <1>1, <1>5 DEF InodesRight, FileRight
  <2> QED
    BY <2>1 DEF Whole, Parts
<1> QED
  BY <1>4, <1>5, <1>6, <1>7

LEMMA BootKeeps ==
  ASSUME NEW q \in Proc, Focus(q), Boot
  PROVE  FilesInv'
<1>1. mode = "off" /\ disk' = disk
  BY DEF Boot
<1>2. /\ disk[MapData] = Map(used) /\ DirKind(disk[RootData])
      /\ Listed = Named /\ Named \subseteq File
      /\ \A f \in File : ~Growing(q, f) /\ ~Writing(q, f)
      /\ \A f \in File : InodeOf(f) = disk[f] /\ Whole(f) = Parts(f)
  BY <1>1, OffStored
<1>3. DiskRight /\ InodesRight(q) /\ OwnersRight(q)
  BY DEF Focus
<1>4. Started'
  <2>1. BootCache' = BootCache /\ BootInode' = BootInode /\ NoLeak' = NoLeak
    BY <1>1 DEF BootCache, BootInode, NoLeak
  <2>2. Each(None)' = Each(None) /\ Each(<<>>)' = Each(<<>>) /\ Each(NoMiss)' = Each(NoMiss)
    BY DEF Each, NoMiss
  <2> QED
    BY <2>1, <2>2 DEF Started, Boot
<1>5. used' = used
  <2>1. disk[MapData].used = used
    BY <1>2 DEF Map
  <2> QED
    BY <2>1 DEF Boot
<1>6. Listed' = Listed /\ Stands' = Stands /\ \A f : Parts(f)' = Parts(f)
  BY <1>1 DEF Listed, Stands, Parts
<1>7. lost' = used \ ((0 .. 3) \cup Stands)
  <2>1. disk[MapData].used = used
    BY <1>2 DEF Map
  <2> QED
    BY <2>1 DEF Boot, Stands, Parts, Listed
<1>8. Stands \subseteq Owns
  BY <1>2 DEF Stands, Owns
<1>9. Stands \subseteq used /\ 0 .. 3 \subseteq used
  BY <1>3, <1>8 DEF OwnersRight
<1>10. lost' \subseteq FileSector /\ lost' \cap Stands = {} /\ used = (0 .. 3) \cup lost' \cup Stands
  <2>1. used \subseteq Sector
    BY <1>3 DEF DiskRight
  <2>2. lost' \subseteq FileSector
    BY <1>7, <2>1 DEF Sector
  <2> QED
    BY <1>7, <1>9, <2>2
<1>11. \A f \in Listed : /\ disk[f] \in [direct : Seq(FileSector), length : Nat]
                         /\ Len(disk[f].direct) <= MaxLen
                         /\ disk[f].length = Len(disk[f].direct)
                         /\ IsInjective(disk[f].direct) /\ f \notin ToSet(disk[f].direct)
  <2> TAKE f \in Listed
  <2>1. f \in File
    BY <1>2
  <2>2. FileRight(q, f) /\ InodeOf(f) = disk[f] /\ ~Growing(q, f)
    BY <1>2, <1>3, <2>1 DEF InodesRight
  <2> QED
    BY <2>2 DEF FileRight
<1>12. \A f, g \in Listed : f # g => Parts(f) \cap Parts(g) = {}
  <2> SUFFICES ASSUME NEW f \in Listed, NEW g \in Listed, f # g PROVE Parts(f) \cap Parts(g) = {}
    OBVIOUS
  <2>1. f \in File /\ g \in File
    BY <1>2
  <2>2. Whole(f) \cap Whole(g) = {} /\ Whole(f) = Parts(f) /\ Whole(g) = Parts(g)
    BY <1>2, <1>3, <2>1 DEF OwnersRight
  <2> QED
    BY <2>2
<1>13. StoredRight'
  <2>1. /\ disk' \in [Sector -> Contents] /\ used' \subseteq Sector
        /\ disk'[FREE_MAP_SECTOR] = OnDisk(<<MapData>>, 1)
        /\ disk'[ROOT_DIR_SECTOR] = OnDisk(<<RootData>>, 1)
        /\ disk'[MapData] = Map(used') /\ DirKind(disk'[RootData])
    BY <1>1, <1>2, <1>3, <1>5 DEF DiskRight
  <2>2. \A f \in Listed' : /\ disk'[f] \in [direct : Seq(FileSector), length : Nat]
                           /\ Len(disk'[f].direct) <= MaxLen
                           /\ disk'[f].length = Len(disk'[f].direct)
                           /\ IsInjective(disk'[f].direct) /\ f \notin ToSet(disk'[f].direct)
    BY <1>1, <1>6, <1>11
  <2>3. \A f, g \in Listed' : f # g => Parts(f)' \cap Parts(g)' = {}
    BY <1>6, <1>12
  <2>4. lost' \subseteq FileSector /\ lost' \cap Stands' = {} /\ used' = (0 .. 3) \cup lost' \cup Stands'
    BY <1>5, <1>6, <1>10
  <2> QED
    BY <2>1, <2>2, <2>3, <2>4 DEF StoredRight
<1> QED
  BY <1>4, <1>13, StartedNext

-----------------------------------------------------------------------------
LEMMA FilesBegin ==
  Init => FilesInv
<1> SUFFICES ASSUME Init PROVE Started /\ StoredRight
  BY StartedInv
<1>1. disk = Formatted /\ lost = {} /\ used = disk[MapData].used
  BY DEF Init
<1>2. Started
  BY DEF Init, Started
<1>3. /\ disk[FREE_MAP_SECTOR] = OnDisk(<<MapData>>, 1)
      /\ disk[ROOT_DIR_SECTOR] = OnDisk(<<RootData>>, 1)
      /\ disk[MapData] = Map(0 .. 3) /\ disk[RootData] = Dir({})
      /\ \A s \in FileSector : disk[s] = Data(CHOOSE v \in Val : v # Zero)
  BY <1>1, Sectors DEF Formatted
<1>4. used = 0 .. 3
  BY <1>1, <1>3 DEF Map
<1>5. Listed = {} /\ Stands = {}
  <2>1. disk[RootData].entries = {}
    BY <1>3 DEF Dir
  <2> QED
    BY <2>1 DEF Listed, Stands
<1>6. DirKind(disk[RootData])
  <2>1. Dir({}).entries = {}
    BY DEF Dir
  <2> QED
    BY <1>3, <2>1 DEF DirKind
<1>7. disk \in [Sector -> Contents]
  <2>1. \A s \in {MapData, RootData} : OnDisk(<<s>>, 1) \in Contents
    <3> TAKE s \in {MapData, RootData}
    <3>1. <<s>> \in BoundedSeq(FileSector \cup {MapData, RootData}, MaxLen)
      <4>1. <<s>> \in Seq({MapData, RootData}) /\ Len(<<s>>) <= MaxLen /\ MaxLen \in Nat
            /\ {MapData, RootData} \subseteq FileSector \cup {MapData, RootData}
        BY FilesAssumption
      <4> QED
        BY <4>1, BoundedOf
    <3>2. 1 \in 0 .. MaxLen
      BY FilesAssumption
    <3> QED
      BY <3>1, <3>2 DEF Contents
  <2>2. \A v \in Val : Data(v) \in Contents
    BY DEF Contents
  <2>3. Map(0 .. 3) \in Contents
    BY DEF Contents, Sector
  <2>4. Dir({}) \in Contents
    BY DEF Contents
  <2>5. (CHOOSE v \in Val : v # Zero) \in Val
    BY FilesAssumption
  <2>6. \A s \in Sector : Formatted[s] \in Contents
    BY <2>1, <2>2, <2>3, <2>4, <2>5 DEF Formatted
  <2>7. Formatted = [s \in Sector |-> Formatted[s]]
    BY DEF Formatted
  <2> QED
    BY <1>1, <2>6, <2>7
<1>8. StoredRight
  BY <1>1, <1>3, <1>4, <1>5, <1>6, <1>7 DEF StoredRight, Sector
<1> QED
  BY <1>2, <1>8

-----------------------------------------------------------------------------
\* The sectors of a file, as a row and as a set.
OwnShape(f, d, n, o) == o = <<f>> \o SubSeq(d, 1, n)
LEMMA RowOfFile ==
  ASSUME NEW d \in Seq(FileSector), NEW n \in Nat, n <= Len(d), IsInjective(d),
         NEW f \in FileSector, f \notin ToSet(d), NEW o, OwnShape(f, d, n, o)
  PROVE  /\ IsInjective(o) /\ ToSet(o) \subseteq {f} \cup ToSet(d)
         /\ n = Len(d) => ToSet(o) = {f} \cup ToSet(d)
<1> DEFINE R == SubSeq(d, 1, n)
<1>1. R \in Seq(FileSector) /\ Len(R) = n /\ \A i \in 1 .. n : R[i] = d[i]
  OBVIOUS
<1>2. o = <<f>> \o R
  BY DEF OwnShape
<1> HIDE DEF R
<1>3. /\ o \in Seq(FileSector) /\ Len(o) = n + 1 /\ o[1] = f
      /\ \A i \in 2 .. n + 1 : o[i] = R[i - 1]
  BY <1>1, <1>2, ConsOf
<1>4. \A i \in 2 .. n + 1 : i - 1 \in 1 .. n /\ i - 1 \in 1 .. Len(d) /\ o[i] = d[i - 1]
  BY <1>1, <1>3
<1>5. DOMAIN o = 1 .. n + 1 /\ DOMAIN d = 1 .. Len(d)
  BY <1>3
<1>6. ToSet(d) = {d[i] : i \in 1 .. Len(d)} /\ ToSet(o) = {o[i] : i \in 1 .. n + 1}
  BY <1>5 DEF ToSet
<1>7. \A i \in 2 .. n + 1 : o[i] \in ToSet(d)
  BY <1>4, <1>6
<1>8. \A i \in 1 .. n + 1 : i = 1 \/ i \in 2 .. n + 1
  OBVIOUS
<1>9. ToSet(o) \subseteq {f} \cup ToSet(d)
  BY <1>3, <1>6, <1>7, <1>8, ZenonT(60)
<1>10. IsInjective(o)
  <2> SUFFICES ASSUME NEW i \in 1 .. n + 1, NEW j \in 1 .. n + 1, o[i] = o[j] PROVE i = j
    BY <1>5 DEF IsInjective
  <2>1. CASE i = 1 /\ j = 1
    BY <2>1
  <2>2. CASE i = 1 /\ j \in 2 .. n + 1
    BY <1>3, <1>7, <2>2
  <2>3. CASE i \in 2 .. n + 1 /\ j = 1
    BY <1>3, <1>7, <2>3
  <2>4. CASE i \in 2 .. n + 1 /\ j \in 2 .. n + 1
    <3>1. d[i - 1] = d[j - 1] /\ i - 1 \in DOMAIN d /\ j - 1 \in DOMAIN d
      BY <1>4, <1>5, <2>4
    <3>2. i - 1 = j - 1
      BY <3>1 DEF IsInjective
    <3> QED
      BY <3>2
  <2> QED
    BY <1>8, <2>1, <2>2, <2>3, <2>4
<1>11. n = Len(d) => {f} \cup ToSet(d) \subseteq ToSet(o)
  <2> SUFFICES ASSUME n = Len(d) PROVE f \in ToSet(o) /\ \A x \in ToSet(d) : x \in ToSet(o)
    OBVIOUS
  <2>1. f \in ToSet(o)
    <3>1. 1 \in 1 .. n + 1
      OBVIOUS
    <3> QED
      BY <1>3, <1>6, <3>1
  <2>2. ASSUME NEW x \in ToSet(d) PROVE x \in ToSet(o)
    <3>1. PICK i \in 1 .. Len(d) : x = d[i]
      BY <1>6
    <3>2. i + 1 \in 2 .. n + 1 /\ i + 1 \in 1 .. n + 1 /\ (i + 1) - 1 = i
      OBVIOUS
    <3>3. o[i + 1] = d[i]
      BY <1>4, <3>2
    <3> QED
      BY <1>6, <3>1, <3>2, <3>3
  <2> QED
    BY <2>1, <2>2
<1> QED
  BY <1>9, <1>10, <1>11

LEMMA OwnedIs ==
  ASSUME NEW p \in Proc, Focus(p), NEW f \in File
  PROVE  /\ f \in FileSector /\ Whole(f) \subseteq FileSector
         /\ IsInjective(Owned(f)) /\ ToSet(Owned(f)) \subseteq Whole(f)
         /\ ~Growing(p, f) => ToSet(Owned(f)) = Whole(f)
<1>1. InodesRight(p) /\ SystemData(p) /\ OwnersRight(p) /\ DiskRight
  BY DEF Focus
<1>2. f \in FileSector
  BY <1>1, FileFacts
<1> DEFINE d == InodeOf(f).direct
<1> DEFINE n == InodeOf(f).length
<1> DEFINE o == Owned(f)
<1>3. /\ InodeOf(f) \in [direct : Seq(FileSector), length : Nat] /\ n <= Len(d)
      /\ (~Growing(p, f) => n = Len(d)) /\ IsInjective(d) /\ f \notin ToSet(d)
  BY <1>1 DEF InodesRight, FileRight
<1>4. d \in Seq(FileSector) /\ n \in Nat
  BY <1>3
<1>5. o = <<f>> \o SubSeq(d, 1, n) /\ Whole(f) = {f} \cup ToSet(d)
  BY DEF Owned, Whole
<1> HIDE DEF d, n, o
<1>6. /\ IsInjective(o) /\ ToSet(o) \subseteq {f} \cup ToSet(d)
      /\ n = Len(d) => ToSet(o) = {f} \cup ToSet(d)
  <2>1. n <= Len(d) /\ IsInjective(d) /\ f \notin ToSet(d)
    BY <1>3
  <2>2. OwnShape(f, d, n, o)
    BY <1>5 DEF OwnShape
  <2> QED
    BY <1>2, <1>4, <2>1, <2>2, RowOfFile
<1>7. ToSet(d) \subseteq FileSector
  <2>1. DOMAIN d = 1 .. Len(d) /\ \A i \in 1 .. Len(d) : d[i] \in FileSector
    BY <1>4
  <2> QED
    BY <2>1 DEF ToSet
<1> QED
  BY <1>2, <1>3, <1>5, <1>6, <1>7 DEF o

-----------------------------------------------------------------------------
LEMMA FilesOwned ==
  ASSUME FilesInv
  PROVE  SectorsOwned
<1>1. PICK p \in Proc : Focus(p)
  BY DEF FilesInv
<1>2. Plans /\ CacheRight(p) /\ OwnersRight(p)
  BY <1>1 DEF Focus
<1>3. \A f \in File : /\ f \in FileSector /\ Whole(f) \subseteq FileSector
                      /\ IsInjective(Owned(f)) /\ ToSet(Owned(f)) \subseteq Whole(f)
                      /\ ~Growing(p, f) => ToSet(Owned(f)) = Whole(f)
  BY <1>1, OwnedIs
<1>4. /\ \A f, g \in File : f # g => Whole(f) \cap Whole(g) = {}
      /\ lost \cap Owns = {} /\ used = (0 .. 3) \cup lost \cup Owns \cup Made(p) \cup ToGive(p)
  BY <1>2 DEF OwnersRight
<1>5. \A f \in File : Whole(f) \subseteq Owns
  BY DEF Owns
<1>6. FileSector \cap (0 .. 3) = {}
  BY FilesAssumption
<1>7. \A f \in File : ToSet(Owned(f)) \subseteq used \ (lost \cup 0 .. 3)
  <2> TAKE f \in File
  <2>1. ToSet(Owned(f)) \subseteq Owns /\ ToSet(Owned(f)) \subseteq FileSector
    BY <1>3, <1>5
  <2> QED
    BY <1>4, <1>6, <2>1
<1>8. \A f, g \in File : f # g => ToSet(Owned(f)) \cap ToSet(Owned(g)) = {}
  <2> SUFFICES ASSUME NEW f \in File, NEW g \in File, f # g
               PROVE  ToSet(Owned(f)) \cap ToSet(Owned(g)) = {}
    OBVIOUS
  <2>1. ToSet(Owned(f)) \subseteq Whole(f) /\ ToSet(Owned(g)) \subseteq Whole(g)
    BY <1>3
  <2>2. Whole(f) \cap Whole(g) = {}
    BY <1>4
  <2> QED
    BY <2>1, <2>2
<1>9. ASSUME \A q \in Proc : Idle(q)
      PROVE  used = (0 .. 3) \cup lost \cup UNION {ToSet(Owned(f)) : f \in File}
  <2>1. Quiet(p)
    BY <1>9 DEF Idle, Quiet
  <2>2. (\A f : ~Growing(p, f)) /\ Made(p) = {} /\ ToGive(p) = {}
    BY <1>2, <2>1, QuietFacts
  <2>3. \A f \in File : ToSet(Owned(f)) = Whole(f)
    BY <1>3, <2>2
  <2>4. UNION {ToSet(Owned(f)) : f \in File} = Owns
    BY <2>3 DEF Owns
  <2> QED
    BY <1>4, <2>2, <2>4
<1>10. \A f \in File : ToSet(Owned(f)) \subseteq used \ (lost \cup 0 .. 3) /\ IsInjective(Owned(f))
  BY <1>3, <1>7
<1> QED
  BY <1>8, <1>9, <1>10 DEF SectorsOwned

LEMMA FilesCounts ==
  ASSUME FilesInv
  PROVE  CountsExact
<1>1. PICK p \in Proc : Focus(p)
  BY DEF FilesInv
<1>2. Plans /\ CacheRight(p) /\ Counted(p) /\ HandleTypes /\ SystemInodes(p)
  BY <1>1 DEF Focus
<1> SUFFICES ASSUME \A q \in Proc : Idle(q)
             PROVE  /\ inode[ROOT_DIR_SECTOR] = Closed
                    /\ \A f \in FileSector :
                         /\ inode[f].cnt = leaked[f] + Cardinality({q \in Proc : exec[q] = f})
                              + Cardinality({q \in Proc : fd[q] # None /\ fd[q].sector = f})
                         /\ inode[f].deny = Cardinality({q \in Proc : exec[q] = f})
  BY DEF CountsExact
<1>3. Quiet(p)
  BY DEF Idle, Quiet
<1>4. ~RootOpen(todo[p]) /\ \A f : ~Held(p, f)
  BY <1>2, <1>3, QuietFacts
<1>5. inode[ROOT_DIR_SECTOR].cnt = 0
  BY <1>2, <1>4 DEF SystemInodes
<1>6. inode[ROOT_DIR_SECTOR] = Closed
  BY <1>2, <1>5, Sectors DEF HandleTypes
<1>7. ASSUME NEW f \in FileSector
      PROVE  /\ inode[f].cnt = leaked[f] + Cardinality({q \in Proc : exec[q] = f})
                   + Cardinality({q \in Proc : fd[q] # None /\ fd[q].sector = f})
             /\ inode[f].deny = Cardinality({q \in Proc : exec[q] = f})
  <2>1. /\ inode[f].cnt = leaked[f] + Cardinality(Executing(f)) + Cardinality(Opened(f))
                          + (IF Held(p, f) THEN 1 ELSE 0)
        /\ inode[f].deny = Cardinality(Executing(f))
    BY <1>2 DEF Counted
  <2> DEFINE E == Cardinality(Executing(f))
  <2> DEFINE O == Cardinality(Opened(f))
  <2>2. E \in Nat /\ O \in Nat /\ leaked[f] \in Nat
    BY <1>2, Cards
  <2>3. inode[f].cnt = leaked[f] + E + O + 0
    BY <1>4, <2>1
  <2>4. leaked[f] + E + O + 0 = leaked[f] + E + O
    <3> HIDE DEF E, O
    <3> QED
      BY <2>2
  <2>5. Executing(f) = {q \in Proc : exec[q] = f} /\ Opened(f) = {q \in Proc : fd[q] # None /\ fd[q].sector = f}
    BY DEF Executing, Opened
  <2> QED
    BY <2>1, <2>3, <2>4, <2>5
<1> QED
  BY <1>6, <1>7

LEMMA FilesTypes ==
  ASSUME FilesInv
  PROVE  TypeOK
<1>1. PICK p \in Proc : Focus(p)
  BY DEF FilesInv
<1>2. Turn(p) /\ CacheRight(p) /\ DiskRight /\ Counted(p) /\ HandleTypes /\ SystemInodes(p) /\ OffRight(p)
  BY <1>1 DEF Focus
<1>3. (\A s \in Sector : disk[s] \in Contents) /\ used \subseteq Sector
  BY <1>2 DEF DiskRight
<1>4. \A i \in DOMAIN cache : cache[i].sector \in Sector /\ cache[i].data \in Contents
  <2>1. cache \in Seq(CachedBlocks)
    BY <1>2 DEF CacheRight
  <2>2. \A i \in DOMAIN cache : cache[i] \in CachedBlocks
    BY <2>1
  <2> QED
    BY <2>2, Sectors DEF CachedBlocks
<1>5. Len(cache) <= CacheSize + Cardinality(Proc)
  <2> DEFINE len == Len(cache)
  <2> DEFINE n == Cardinality(Proc)
  <2>1. len \in Nat /\ len <= CacheSize
    BY <1>2 DEF CacheRight
  <2>2. n \in Nat
    BY FilesAssumption, FS_CardinalityType
  <2>3. CacheSize \in Nat
    BY FilesAssumption
  <2> HIDE DEF len, n
  <2>4. len <= CacheSize + n
    BY <2>1, <2>2, <2>3
  <2> QED
    BY <2>4 DEF len, n
<1>6. \A s \in Sector : inode[s].cnt \in Nat /\ inode[s].deny \in 0 .. inode[s].cnt
  <2> TAKE s \in Sector
  <2>1. inode[s] \in Inodes
    BY <1>2 DEF HandleTypes
  <2>2. inode[s].cnt \in Nat /\ inode[s].deny \in Nat
    BY <2>1 DEF Inodes
  <2>3. inode[s].deny <= inode[s].cnt
    <3>1. CASE s \in FileSector
      <4> DEFINE E == Cardinality(Executing(s))
      <4> DEFINE O == Cardinality(Opened(s))
      <4> DEFINE h == IF Held(p, s) THEN 1 ELSE 0
      <4>1. inode[s].cnt = leaked[s] + E + O + h /\ inode[s].deny = E
        BY <1>2, <3>1 DEF Counted
      <4>2. E \in Nat /\ O \in Nat /\ leaked[s] \in Nat /\ h \in Nat
        BY <1>2, <3>1, Cards
      <4> HIDE DEF E, O, h
      <4> QED
        BY <4>1, <4>2
    <3>2. CASE s \in {MapData, RootData}
      <4>1. inode[s].deny = 0
        BY <1>2, <3>2 DEF SystemInodes, Closed
      <4> QED
        BY <2>2, <4>1
    <3>3. CASE s = FREE_MAP_SECTOR
      <4>1. Closed.deny = 0
        BY DEF Closed
      <4>2. FreeMapInode.deny = 0
        BY <4>1 DEF FreeMapInode, Closed
      <4>3. inode[s].deny = 0
        BY <1>2, <3>3, <4>1, <4>2 DEF SystemInodes
      <4> QED
        BY <2>2, <4>3
    <3>4. CASE s = ROOT_DIR_SECTOR
      <4>1. inode[s].deny = 0
        BY <1>2, <3>4 DEF SystemInodes
      <4> QED
        BY <2>2, <4>1
    <3> QED
      BY <3>1, <3>2, <3>3, <3>4 DEF Sector, FREE_MAP_SECTOR, ROOT_DIR_SECTOR, MapData, RootData
  <2> QED
    BY <2>2, <2>3
<1>7. fsLock \in Proc \cup {None}
  BY <1>2 DEF Turn
<1>8. mode \in {"up", "off", "panic"}
  BY <1>2 DEF OffRight
<1> QED
  BY <1>3, <1>4, <1>5, <1>6, <1>7, <1>8 DEF TypeOK

-----------------------------------------------------------------------------
LEMMA FilesStutter == FilesInv /\ UNCHANGED vars => FilesInv'
<1>1. ASSUME UNCHANGED vars, NEW p \in Proc, Focus(p) PROVE Focus(p)'
  <2>1. Plans /\ Turn(p) /\ HandleTypes
    BY <1>1 DEF Focus
  <2>2. /\ mode' = mode /\ todo' = todo /\ fsLock' = fsLock /\ fd' = fd
        /\ UNCHANGED <<disk, cache, used, inode, exec, leaked, reg, miss, lost>>
    BY <1>1 DEF vars
  <2>3. Plans'
    BY <2>1, <2>2 DEF Plans
  <2>4. Turn(p)'
    BY <2>1, <2>2 DEF Turn, Quiet, Idle
  <2>5. SameFds /\ fd' \in [Proc -> {None} \cup [sector : FileSector, pos : Nat]]
    BY <2>1, <2>2, SameFdsNow
  <2> QED
    BY <1>1, <2>2, <2>3, <2>4, <2>5, OtherMove
<1> QED
  BY <1>1 DEF FilesInv

LEMMA FilesKeeps ==
  ASSUME Careful, FilesInv, [Next]_vars
  PROVE  FilesInv'
<1>1. PICK q \in Proc : Focus(q)
  BY DEF FilesInv
<1>2. ASSUME NEW p \in Proc, Call(p) PROVE FilesInv'
  BY <1>1, <1>2, CallKeeps DEF FilesInv
<1>3. ASSUME NEW p \in Proc, Step(p) PROVE FilesInv'
  <2>1. "alone" \in Assume
    BY DEF Careful
  <2>2. Focus(p)'
    BY <1>1, <1>3, <2>1, StepKeeps
  <2> QED
    BY <2>2 DEF FilesInv
<1>4. CASE Boot
  BY <1>1, <1>4, BootKeeps
<1>5. CASE Rest
  BY <1>5, FilesStutter DEF Rest
<1>6. CASE UNCHANGED vars
  BY <1>6, FilesStutter
<1> QED
  BY <1>2, <1>3, <1>4, <1>5, <1>6 DEF Next

\* Whatever calls any number of processes make, one after the other but for reads and
\* writes, and however often the machine is reset between calls: inodes, free map,
\* directory, cache, handles and plans fit together at every step.
THEOREM FilesSafe ==
  Careful => (Spec => []FilesInv)
<1> SUFFICES ASSUME Careful PROVE Spec => []FilesInv
  OBVIOUS
<1>1. FilesInv /\ [Next]_vars => FilesInv'
  BY FilesKeeps
<1> QED
  BY <1>1, FilesBegin, PTL DEF Spec

\* All that the file system keeps, in memory and on the disk, is of its type.
THEOREM FilesTypeCorrect ==
  Careful => (Spec => []TypeOK)
<1>1. FilesInv => TypeOK
  BY FilesTypes
<1> QED
  BY <1>1, FilesSafe, PTL

\* inode_create(), growth and the last inode_close() of a removed file keep sectors
\* apart: none belongs to two files, or to one file twice, or to a file while the map has
\* it free; and between calls one that is taken is a file's, or was lost by a create that
\* failed or to a reset while its removed file was open.
THEOREM FilesSectorsOwned ==
  Careful => (Spec => []SectorsOwned)
<1>1. FilesInv => SectorsOwned
  BY FilesOwned
<1> QED
  BY <1>1, FilesSafe, PTL

\* Between calls open_cnt and deny_write_cnt of an inode say how many handles it has,
\* those that exits have leaked included, and how many processes execute it, so that the
\* inode_close() that finds 0 is the last one; and the root directory is closed.
THEOREM FilesCountsExact ==
  Careful => (Spec => []CountsExact)
<1>1. FilesInv => CountsExact
  BY FilesCounts
<1> QED
  BY <1>1, FilesSafe, PTL
=============================================================================
