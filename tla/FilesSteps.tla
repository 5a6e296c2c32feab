-------------------------------- MODULE FilesSteps --------------------------------
(***************************************************************************)
(* The invariant of module Files, and the first of its steps.  Two         *)
(* theorems of FilesProofs rest on it: a sector has one owner, and the     *)
(* counts of an inode are those of its handles.                            *)
(*                                                                         *)
(* What a call has still to do is its plan, todo[p].  Fit says how plans   *)
(* are made: which task may follow which (MayFollow), which may stand      *)
(* before which at all (MayPrecede), and which come in pairs.  A plan      *)
(* says what the call is in the middle of, so that what is true of the     *)
(* inodes, the map, the directory and the cache meanwhile can be read      *)
(* off it: the map on the disk is right but for a "mapwrite" at the head,  *)
(* a file is as long as it has sectors but for a "setlength" ahead, and    *)
(* so on.  Focus(p) collects this.                                         *)
(*                                                                         *)
(* With "alone" only one process at a time is in the middle of a call;     *)
(* all others want nothing or wait for filesys_lock.  p is that process,   *)
(* and FilesInv says that there is one, or that nobody is and p is any.    *)
(*                                                                         *)
(* The plan comes first, then the cache, seen as a row of blocks: a step   *)
(* that misses moves blocks between cache and disk, and Logical, what a    *)
(* reader finds, stays.  Then come the steps one by one, with what each    *)
(* leaves alone.                                                           *)
(***************************************************************************)
EXTENDS Files, FiniteSetTheorems, TLAPS

-----------------------------------------------------------------------------
\* The plan of a call: the tasks it has still to do, and how they may be lined up.
CloseRoot(a) == a.op = "close" /\ a.sector = ROOT_DIR_SECTOR
OpenRoot(a)  == a.op = "open" /\ a.sector = ROOT_DIR_SECTOR

Op == {"open", "load", "close", "flush", "create", "mapwrite", "zero", "allocate",
       "newinode", "unique", "dirwrite", "release", "find", "erase", "lookup",
       "newfd", "deny", "header", "loaded", "read", "readat", "write", "grow",
       "setlength", "writeinode", "put", "lock", "unlock", "off"}
Arguments == Nat \cup Name \cup (Name \X Nat) \cup (Nat \X (Val \cup BOOLEAN))
Tasks == [op : Op, sector : Sector, arg : Arguments]

\* The argument of a task is what its operation takes.
Meant(a) ==
  /\ a.op \in {"erase", "release", "zero", "read", "readat", "write", "grow", "setlength",
               "writeinode", "put"} => a.sector \in FileSector
  /\ a.op \in {"open", "load"} => a.sector \in FileSector \cup {ROOT_DIR_SECTOR}
  /\ a.op = "close" => a.sector \in FileSector \cup {FREE_MAP_SECTOR, ROOT_DIR_SECTOR}
  /\ a.op = "flush" => a.sector \in FileSector \cup {MapData, RootData}
  /\ a.op = "create" => a.arg \in Name \X (0 .. MaxLen)
  /\ a.op \in {"unique", "dirwrite", "find", "erase", "lookup"} => a.arg \in Name
  /\ a.op \in {"read", "readat"} => a.arg \in (1 .. MaxLen) \X BOOLEAN
  /\ a.op \in {"write", "put"} => a.arg \in (1 .. MaxLen) \X Val
  /\ a.op = "setlength" => a.arg \in 1 .. MaxLen

\* What may come right after a task.
MayFollow(a, b) ==
  /\ a.op \in {"open", "load"} =>
       IF a.sector = ROOT_DIR_SECTOR THEN b.op \in {"create", "find", "lookup"}
       ELSE CloseRoot(b) \/ (b.op = "erase" /\ b.sector = a.sector)
  /\ a.op = "mapwrite" =>
       CloseRoot(b) \/ b.op \in {"allocate", "newinode", "zero", "release", "loaded"}
  /\ a.op = "zero" => b.op \in {"allocate", "newinode", "grow", "setlength"}
  /\ a.op = "allocate" => b.op \in {"allocate", "newinode"}
  /\ a.op = "newinode" => b.op = "unique"
  /\ a.op \in {"create", "find", "lookup", "unique", "dirwrite"} => CloseRoot(b)
  /\ a.op = "release" => CloseRoot(b) \/ b.op \in {"release", "loaded"}
  /\ a.op = "erase" => b.op = "close" /\ b.sector = a.sector
  /\ a.op = "close" =>
       CASE a.sector = FREE_MAP_SECTOR -> b.op = "off"
         [] a.sector = ROOT_DIR_SECTOR -> b.op \in {"newfd", "deny", "header"}
         [] OTHER -> CloseRoot(b) \/ b.op = "loaded"
  /\ a.op = "flush" =>
       CASE a.sector = MapData -> b.op = "off"
         [] a.sector = RootData -> b.op \in {"newfd", "deny", "header"}
         [] OTHER -> \/ CloseRoot(b) \/ b.op = "loaded"
                     \/ b.op = "flush" /\ b.sector \in FileSector
  /\ a.op = "deny" => OpenRoot(b)
  /\ a.op = "header" => b.op = "loaded"
  /\ a.op \in {"read", "readat"} =>
       b.op = "unlock" \/ (b.op = "close" /\ b.sector = a.sector)
  /\ a.op = "grow" => b.op \in {"grow", "setlength"} /\ b.sector = a.sector
  /\ a.op = "setlength" => b.op = "put" /\ b.sector = a.sector /\ b.arg[1] = a.arg
  /\ a.op = "writeinode" => b.op = "put" /\ b.sector = a.sector
  /\ a.op \in {"put", "write"} => b.op = "unlock"
  /\ a.op = "lock" => b.op \in {"read", "write"}
  /\ a.op \notin {"newfd", "loaded", "unlock", "off"}

MayEnd(a) ==
  \/ a.op \in {"newfd", "loaded", "unlock", "off", "mapwrite", "release"}
  \/ a.op = "close" /\ a.sector # FREE_MAP_SECTOR
  \/ a.op = "flush" /\ a.sector # MapData

\* What may stand anywhere before a task.
MayPrecede(a, b) ==
  /\ b.op \in {"newfd", "deny", "header"} =>
       \/ CloseRoot(a) \/ a.op \in {"open", "load", "lookup", "flush"}
       \/ a.op = "deny" /\ b.op = "header"
  /\ b.op \in {"create", "allocate", "newinode", "unique", "dirwrite"} =>
       \/ a.op \in {"mapwrite", "zero", "allocate", "newinode"}
       \/ a.op \in {"open", "load"} /\ a.sector = ROOT_DIR_SECTOR
  /\ b.op = "release" => a.op \in {"mapwrite", "release"}
  /\ b.op \in {"grow", "setlength", "writeinode"} => a.op \in {"mapwrite", "zero", "grow"}
  /\ b.op = "zero" => a.op = "mapwrite"
  /\ b.op = "erase" => a.op \in {"open", "load"} /\ a.sector = b.sector
  /\ b.op = "put" => a.op \in {"mapwrite", "zero", "grow", "setlength", "writeinode"}
  /\ b.op = "close" /\ b.sector \in FileSector =>
       a.op \in {"open", "load", "erase", "read", "readat"} /\ a.sector = b.sector
  /\ b.op = "unlock" => a.op \in {"lock", "read", "readat", "write", "grow", "setlength",
                                  "writeinode", "put", "mapwrite", "zero"}
  /\ b.op = "open" => b.sector = ROOT_DIR_SECTOR
  /\ b.op \notin {"lock", "load", "mapwrite"}

Naming == {"newfd", "deny", "header"}
Has(T, ops)       == \E i \in 1 .. Len(T) : T[i].op \in ops
HasOn(T, ops, f)  == \E i \in 1 .. Len(T) : T[i].op \in ops /\ T[i].sector = f
AtHead(T, ops)    == T # <<>> /\ T[1].op \in ops
AtHeadOn(T, op, f) == T # <<>> /\ T[1].op = op /\ T[1].sector = f

\* Pairs of tasks: one erases, grows or allocates for another to come.
Chained(T) ==
  /\ \A i \in 1 .. Len(T) : i < Len(T) => MayFollow(T[i], T[i + 1])
  /\ T # <<>> => MayEnd(T[Len(T)])
Ordered(T) == \A i, j \in 1 .. Len(T) : i < j => MayPrecede(T[i], T[j])
Paired(T) ==
  /\ \A i \in 1 .. Len(T) : T[i].op = "erase" => i + 2 <= Len(T) /\ CloseRoot(T[i + 2])
  /\ \A i \in 1 .. Len(T) : T[i].op = "lookup" => i + 2 <= Len(T) /\ T[i + 2].op \in Naming
  /\ T # <<>> /\ T[1].op = "lock" => Len(T) = 3 /\ T[3].op = "unlock"
  /\ \A i \in 1 .. Len(T) : T[i].op = "grow" =>
        \E j \in 1 .. Len(T) : i < j /\ T[j].op = "setlength" /\ T[j].sector = T[i].sector
  /\ \A i \in 1 .. Len(T) : T[i].op = "allocate" =>
        \E j \in 1 .. Len(T) : i < j /\ T[j].op = "newinode"
  /\ \A i, j \in 1 .. Len(T) : T[i].op = "release" /\ T[j].op = "release"
                               /\ T[i].sector = T[j].sector => i = j

Fit(T) ==
  /\ T \in Seq(Tasks)
  /\ \A i \in 1 .. Len(T) : Meant(T[i])
  /\ Chained(T) /\ Ordered(T) /\ Paired(T)

-----------------------------------------------------------------------------
\* Sequences of tasks.
LEMMA TailOf ==
  ASSUME NEW X, NEW T \in Seq(X), T # <<>>
  PROVE  /\ Tail(T) \in Seq(X) /\ Len(Tail(T)) = Len(T) - 1 /\ Len(T) \in Nat \ {0}
         /\ Head(T) = T[1] /\ T[1] \in X
         /\ \A i \in 1 .. Len(T) - 1 : Tail(T)[i] = T[i + 1]
         /\ \A i \in 2 .. Len(T) : T[i] = Tail(T)[i - 1]
OBVIOUS

LEMMA ConsOf ==
  ASSUME NEW X, NEW a \in X, NEW R \in Seq(X)
  PROVE  /\ <<a>> \o R \in Seq(X) /\ <<a>> \o R # <<>>
         /\ Len(<<a>> \o R) = Len(R) + 1 /\ Len(R) \in Nat
         /\ (<<a>> \o R)[1] = a
         /\ \A i \in 1 .. Len(R) : (<<a>> \o R)[i + 1] = R[i]
         /\ \A i \in 2 .. Len(R) + 1 : (<<a>> \o R)[i] = R[i - 1]
         /\ Head(<<a>> \o R) = a /\ Tail(<<a>> \o R) = R
OBVIOUS

LEMMA JoinOf ==
  ASSUME NEW X, NEW N \in Seq(X), NEW R \in Seq(X)
  PROVE  /\ N \o R \in Seq(X) /\ Len(N \o R) = Len(N) + Len(R)
         /\ Len(N) \in Nat /\ Len(R) \in Nat
         /\ \A i \in 1 .. Len(N) : (N \o R)[i] = N[i]
         /\ \A i \in 1 .. Len(R) : (N \o R)[i + Len(N)] = R[i]
         /\ \A i \in Len(N) + 1 .. Len(N) + Len(R) : (N \o R)[i] = R[i - Len(N)]
OBVIOUS

LEMMA SeqSame ==
  ASSUME NEW X, NEW s \in Seq(X), NEW t \in Seq(X), Len(s) = Len(t),
         \A i \in 1 .. Len(s) : s[i] = t[i]
  PROVE  s = t
OBVIOUS

LEMMA Cons2 ==
  ASSUME NEW X, NEW a \in X, NEW b \in X, NEW R \in Seq(X)
  PROVE  <<a, b>> \o R = <<a>> \o (<<b>> \o R)
<1> DEFINE u == <<b>> \o R
<1> DEFINE s == <<a, b>> \o R
<1> DEFINE t == <<a>> \o u
<1>1. u \in Seq(X) /\ Len(u) = Len(R) + 1 /\ u[1] = b /\ Len(R) \in Nat
      /\ \A i \in 2 .. Len(R) + 1 : u[i] = R[i - 1]
  BY ConsOf
<1>2. s \in Seq(X) /\ Len(s) = Len(R) + 2 /\ s[1] = a /\ s[2] = b
      /\ \A i \in 3 .. Len(R) + 2 : s[i] = R[i - 2]
  OBVIOUS
<1> HIDE DEF u
<1>3. t \in Seq(X) /\ Len(t) = Len(u) + 1 /\ t[1] = a
      /\ \A i \in 2 .. Len(u) + 1 : t[i] = u[i - 1]
  BY <1>1, ConsOf
<1> HIDE DEF s, t
<1>4. ASSUME NEW i \in 1 .. Len(s) PROVE s[i] = t[i]
  <2>1. CASE i = 1
    BY <2>1, <1>2, <1>3
  <2>2. CASE i = 2
    BY <2>2, <1>1, <1>2, <1>3
  <2>3. CASE i > 2
    <3>1. s[i] = R[i - 2] /\ t[i] = u[i - 1] /\ u[i - 1] = R[(i - 1) - 1] /\ (i - 1) - 1 = i - 2
      BY <2>3, <1>1, <1>2, <1>3
    <3> QED
      BY <3>1
  <2> QED
    BY <2>1, <2>2, <2>3, <1>2
<1>5. s = t
  BY <1>1, <1>2, <1>3, <1>4, SeqSame
<1> QED
  BY <1>5 DEF s, t, u

LEMMA Cons3 ==
  ASSUME NEW X, NEW a \in X, NEW b \in X, NEW c \in X, NEW R \in Seq(X)
  PROVE  <<a, b, c>> \o R = <<a>> \o (<<b>> \o (<<c>> \o R))
<1> DEFINE u == <<b, c>> \o R
<1> DEFINE s == <<a, b, c>> \o R
<1> DEFINE t == <<a>> \o u
<1>1. u \in Seq(X) /\ Len(u) = Len(R) + 2 /\ u[1] = b /\ u[2] = c /\ Len(R) \in Nat
      /\ \A i \in 3 .. Len(R) + 2 : u[i] = R[i - 2]
  OBVIOUS
<1>2. s \in Seq(X) /\ Len(s) = Len(R) + 3 /\ s[1] = a /\ s[2] = b /\ s[3] = c
      /\ \A i \in 4 .. Len(R) + 3 : s[i] = R[i - 3]
  OBVIOUS
<1>0. u = <<b>> \o (<<c>> \o R)
  BY Cons2
<1> HIDE DEF u
<1>3. t \in Seq(X) /\ Len(t) = Len(u) + 1 /\ t[1] = a
      /\ \A i \in 2 .. Len(u) + 1 : t[i] = u[i - 1]
  BY <1>1, ConsOf
<1> HIDE DEF s, t
<1>4. ASSUME NEW i \in 1 .. Len(s) PROVE s[i] = t[i]
  <2>1. CASE i = 1
    BY <2>1, <1>2, <1>3
  <2>2. CASE i = 2
    BY <2>2, <1>1, <1>2, <1>3
  <2>3. CASE i = 3
    BY <2>3, <1>1, <1>2, <1>3
  <2>4. CASE i > 3
    <3>1. s[i] = R[i - 3] /\ t[i] = u[i - 1] /\ u[i - 1] = R[(i - 1) - 2] /\ (i - 1) - 2 = i - 3
      BY <2>4, <1>1, <1>2, <1>3
    <3> QED
      BY <3>1
  <2> QED
    BY <2>1, <2>2, <2>3, <2>4, <1>2
<1>5. s = t
  BY <1>1, <1>2, <1>3, <1>4, SeqSame
<1> QED
  BY <1>5, <1>0 DEF s, t

-----------------------------------------------------------------------------
\* The rest of a fitting plan fits, and what may be put before it.
LEMMA FitRest ==
  ASSUME NEW T, Fit(T), T # <<>>
  PROVE  /\ Fit(Tail(T))
         /\ \A j \in 1 .. Len(Tail(T)) : MayPrecede(T[1], Tail(T)[j])
         /\ Tail(T) # <<>> => MayFollow(T[1], Tail(T)[1])
         /\ Tail(T) = <<>> => MayEnd(T[1])
         /\ Meant(T[1]) /\ T[1] \in Tasks /\ Head(T) = T[1]
<1> DEFINE R == Tail(T)
<1>1. /\ T \in Seq(Tasks) /\ Chained(T) /\ Ordered(T) /\ Paired(T)
      /\ \A i \in 1 .. Len(T) : Meant(T[i])
  BY DEF Fit
<1>2. /\ R \in Seq(Tasks) /\ Len(R) = Len(T) - 1 /\ Len(T) \in Nat \ {0}
      /\ Head(T) = T[1] /\ T[1] \in Tasks
      /\ \A i \in 1 .. Len(R) : R[i] = T[i + 1] /\ i + 1 \in 1 .. Len(T)
      /\ \A i \in 2 .. Len(T) : T[i] = R[i - 1] /\ i - 1 \in 1 .. Len(R)
  BY <1>1, TailOf
<1> HIDE DEF R
<1>3. \A i \in 1 .. Len(R) : Meant(R[i])
  BY <1>1, <1>2
<1>4. Chained(R)
  <2>1. \A i \in 1 .. Len(R) : i < Len(R) => MayFollow(R[i], R[i + 1])
    <3> SUFFICES ASSUME NEW i \in 1 .. Len(R), i < Len(R)
                 PROVE  MayFollow(R[i], R[i + 1])
      OBVIOUS
    <3>1. i + 1 \in 1 .. Len(T) /\ i + 1 < Len(T) /\ i + 1 \in 1 .. Len(R)
      BY <1>2
    <3>2. MayFollow(T[i + 1], T[(i + 1) + 1])
      BY <3>1, <1>1 DEF Chained
    <3> QED
      BY <3>1, <3>2, <1>2
  <2>2. R # <<>> => MayEnd(R[Len(R)])
    BY <1>1, <1>2 DEF Chained
  <2> QED
    BY <2>1, <2>2 DEF Chained
<1>5. Ordered(R)
  BY <1>1, <1>2 DEF Ordered
<1>6. \A j \in 1 .. Len(R) : MayPrecede(T[1], R[j])
  BY <1>1, <1>2 DEF Ordered
<1>7. Paired(R)
  <2>1. \A i \in 1 .. Len(R) : R[i].op = "erase" => i + 2 <= Len(R) /\ CloseRoot(R[i + 2])
    <3> SUFFICES ASSUME NEW i \in 1 .. Len(R), R[i].op = "erase"
                 PROVE  i + 2 <= Len(R) /\ CloseRoot(R[i + 2])
      OBVIOUS
    <3>1. (i + 1) + 2 <= Len(T) /\ CloseRoot(T[(i + 1) + 2])
      BY <1>1, <1>2 DEF Paired
    <3>2. i + 2 \in 1 .. Len(R) /\ (i + 2) + 1 = (i + 1) + 2
      BY <3>1, <1>2, SMTT(30)
    <3> QED
      BY <3>1, <3>2, <1>2
  <2>6. \A i \in 1 .. Len(R) : R[i].op = "lookup" => i + 2 <= Len(R) /\ R[i + 2].op \in Naming
    <3> SUFFICES ASSUME NEW i \in 1 .. Len(R), R[i].op = "lookup"
                 PROVE  i + 2 <= Len(R) /\ R[i + 2].op \in Naming
      OBVIOUS
    <3>1. (i + 1) + 2 <= Len(T) /\ T[(i + 1) + 2].op \in Naming
      BY <1>1, <1>2 DEF Paired
    <3>2. i + 2 \in 1 .. Len(R) /\ (i + 2) + 1 = (i + 1) + 2
      BY <3>1, <1>2, SMTT(30)
    <3> QED
      BY <3>1, <3>2, <1>2
  <2>2. R # <<>> => R[1].op # "lock"
    BY <1>6, <1>2 DEF MayPrecede
  <2>3. \A i \in 1 .. Len(R) : R[i].op = "grow" =>
          \E j \in 1 .. Len(R) : i < j /\ R[j].op = "setlength" /\ R[j].sector = R[i].sector
    <3> SUFFICES ASSUME NEW i \in 1 .. Len(R), R[i].op = "grow"
                 PROVE  \E j \in 1 .. Len(R) : i < j /\ R[j].op = "setlength" /\ R[j].sector = R[i].sector
      OBVIOUS
    <3>1. PICK j \in 1 .. Len(T) : i + 1 < j /\ T[j].op = "setlength" /\ T[j].sector = T[i + 1].sector
      BY <1>1, <1>2 DEF Paired
    <3>2. /\ j \in Int /\ i \in Int /\ Len(T) \in Int /\ Len(R) = Len(T) - 1
          /\ j <= Len(T) /\ 1 <= i /\ i + 1 < j
      BY <3>1, <1>2
    <3>3. j - 1 \in 1 .. Len(R) /\ i < j - 1 /\ (j - 1) + 1 = j
      BY <3>2
    <3>4. T[j] = R[j - 1] /\ T[i + 1] = R[i]
      BY <3>3, <1>2
    <3> QED
      BY <3>1, <3>3, <3>4
  <2>4. \A i \in 1 .. Len(R) : R[i].op = "allocate" =>
          \E j \in 1 .. Len(R) : i < j /\ R[j].op = "newinode"
    <3> SUFFICES ASSUME NEW i \in 1 .. Len(R), R[i].op = "allocate"
                 PROVE  \E j \in 1 .. Len(R) : i < j /\ R[j].op = "newinode"
      OBVIOUS
    <3>1. PICK j \in 1 .. Len(T) : i + 1 < j /\ T[j].op = "newinode"
      BY <1>1, <1>2 DEF Paired
    <3>2. /\ j \in Int /\ i \in Int /\ Len(T) \in Int /\ Len(R) = Len(T) - 1
          /\ j <= Len(T) /\ 1 <= i /\ i + 1 < j
      BY <3>1, <1>2
    <3>3. j - 1 \in 1 .. Len(R) /\ i < j - 1 /\ (j - 1) + 1 = j
      BY <3>2
    <3>4. T[j] = R[j - 1] /\ T[i + 1] = R[i]
      BY <3>3, <1>2
    <3> QED
      BY <3>1, <3>3, <3>4
  <2>5. \A i, j \in 1 .. Len(R) : R[i].op = "release" /\ R[j].op = "release"
                               /\ R[i].sector = R[j].sector => i = j
    <3> SUFFICES ASSUME NEW i \in 1 .. Len(R), NEW j \in 1 .. Len(R),
                        R[i].op = "release", R[j].op = "release", R[i].sector = R[j].sector
                 PROVE  i = j
      OBVIOUS
    <3>1. i + 1 = j + 1
      BY <1>1, <1>2 DEF Paired
    <3> QED
      BY <3>1
  <2> QED
    BY <2>1, <2>2, <2>3, <2>4, <2>5, <2>6 DEF Paired
<1>8. R # <<>> => MayFollow(T[1], R[1])
  BY <1>1, <1>2 DEF Chained
<1>9. R = <<>> => MayEnd(T[1])
  <2> SUFFICES ASSUME R = <<>> PROVE MayEnd(T[1])
    OBVIOUS
  <2>1. Len(R) = 0
    OBVIOUS
  <2>2. Len(T) = 1
    BY <2>1, <1>2
  <2> QED
    BY <2>2, <1>1 DEF Chained
<1>10. Fit(R)
  BY <1>2, <1>3, <1>4, <1>5, <1>7 DEF Fit
<1>11. Meant(T[1])
  BY <1>1, <1>2
<1> QED
  BY <1>2, <1>6, <1>8, <1>9, <1>10, <1>11 DEF R

LEMMA FitCons ==
  ASSUME NEW a \in Tasks, NEW R, Fit(R), Meant(a), a.op # "lock",
         R # <<>> => MayFollow(a, R[1]), R = <<>> => MayEnd(a),
         \A j \in 1 .. Len(R) : MayPrecede(a, R[j]),
         a.op = "erase" => Len(R) >= 2 /\ CloseRoot(R[2]),
         a.op = "lookup" => Len(R) >= 2 /\ R[2].op \in Naming,
         a.op = "grow" => HasOn(R, {"setlength"}, a.sector),
         a.op = "allocate" => Has(R, {"newinode"}),
         a.op = "release" => ~HasOn(R, {"release"}, a.sector)
  PROVE  Fit(<<a>> \o R)
<1> DEFINE T == <<a>> \o R
<1>1. /\ R \in Seq(Tasks) /\ Chained(R) /\ Ordered(R) /\ Paired(R)
      /\ \A i \in 1 .. Len(R) : Meant(R[i])
  BY DEF Fit
<1>2. /\ T \in Seq(Tasks) /\ Len(T) = Len(R) + 1 /\ Len(R) \in Nat /\ T[1] = a
      /\ \A i \in 1 .. Len(R) : T[i + 1] = R[i] /\ i + 1 \in 1 .. Len(T)
      /\ \A i \in 2 .. Len(T) : T[i] = R[i - 1] /\ i - 1 \in 1 .. Len(R)
  BY <1>1, ConsOf
<1>20. R = <<>> <=> Len(R) = 0
  BY <1>1
<1> HIDE DEF T
<1>3. \A i \in 1 .. Len(T) : Meant(T[i])
  <2> SUFFICES ASSUME NEW i \in 1 .. Len(T) PROVE Meant(T[i])
    OBVIOUS
  <2>1. CASE i = 1
    BY <2>1, <1>2
  <2>2. CASE i # 1
    BY <2>2, <1>1, <1>2
  <2> QED
    BY <2>1, <2>2
<1>4. Chained(T)
  <2>1. ASSUME NEW i \in 1 .. Len(T), i < Len(T) PROVE MayFollow(T[i], T[i + 1])
    <3>1. CASE i = 1
      <4>1. R # <<>> /\ T[i + 1] = R[1]
        BY <3>1, <2>1, <1>2, <1>20
      <4> QED
        BY <4>1, <3>1, <1>2
    <3>2. CASE i # 1
      <4>0. i \in Nat /\ i > 1 /\ i < Len(T) /\ Len(T) = Len(R) + 1 /\ Len(R) \in Nat
        BY <3>2, <2>1, <1>2
      <4>1. i \in 2 .. Len(T) /\ i - 1 \in 1 .. Len(R) /\ i - 1 < Len(R) /\ (i - 1) + 1 = i
            /\ i + 1 \in 2 .. Len(T) /\ (i + 1) - 1 = i
        BY <4>0
      <4>2. MayFollow(R[i - 1], R[(i - 1) + 1])
        BY <4>1, <1>1 DEF Chained
      <4> QED
        BY <4>1, <4>2, <1>2
    <3> QED
      BY <3>1, <3>2
  <2>2. MayEnd(T[Len(T)])
    <3>1. CASE R = <<>>
      BY <3>1, <1>2, <1>20
    <3>2. CASE R # <<>>
      <4>1. Len(T) \in 2 .. Len(T) /\ Len(T) - 1 = Len(R)
        BY <3>2, <1>2, <1>20
      <4> QED
        BY <4>1, <3>2, <1>1, <1>2 DEF Chained
    <3> QED
      BY <3>1, <3>2
  <2> QED
    BY <2>1, <2>2 DEF Chained
<1>5. Ordered(T)
  <2> SUFFICES ASSUME NEW i \in 1 .. Len(T), NEW j \in 1 .. Len(T), i < j
               PROVE  MayPrecede(T[i], T[j])
    BY DEF Ordered
  <2>1. j \in 2 .. Len(T) /\ T[j] = R[j - 1] /\ j - 1 \in 1 .. Len(R)
    BY <1>2
  <2>2. CASE i = 1
    BY <2>1, <2>2, <1>2
  <2>3. CASE i # 1
    <3>1. i \in 2 .. Len(T) /\ i - 1 < j - 1
      BY <2>3
    <3> QED
      BY <3>1, <2>1, <1>1, <1>2 DEF Ordered
  <2> QED
    BY <2>2, <2>3
<1>6. Paired(T)
  <2>1. ASSUME NEW i \in 1 .. Len(T), T[i].op = "erase"
        PROVE  i + 2 <= Len(T) /\ CloseRoot(T[i + 2])
    <3>1. CASE i = 1
      <4>1. Len(R) >= 2 /\ CloseRoot(R[2])
        BY <3>1, <2>1, <1>2
      <4>2. T[3] = R[2]
        BY <4>1, <1>2
      <4> QED
        BY <4>1, <4>2, <3>1, <1>2
    <3>2. CASE i # 1
      <4>1. i \in 2 .. Len(T) /\ T[i] = R[i - 1] /\ i - 1 \in 1 .. Len(R)
        BY <3>2, <1>2
      <4>2. (i - 1) + 2 <= Len(R) /\ CloseRoot(R[(i - 1) + 2])
        BY <4>1, <2>1, <1>1 DEF Paired
      <4>3. i + 2 \in 2 .. Len(T) /\ (i + 2) - 1 = (i - 1) + 2
        BY <4>1, <4>2, <1>2, SMTT(30)
      <4> QED
        BY <4>2, <4>3, <1>2
    <3> QED
      BY <3>1, <3>2
  <2>6. ASSUME NEW i \in 1 .. Len(T), T[i].op = "lookup"
        PROVE  i + 2 <= Len(T) /\ T[i + 2].op \in Naming
    <3>1. CASE i = 1
      <4>1. Len(R) >= 2 /\ R[2].op \in Naming
        BY <3>1, <2>6, <1>2
      <4>2. T[3] = R[2]
        BY <4>1, <1>2
      <4> QED
        BY <4>1, <4>2, <3>1, <1>2
    <3>2. CASE i # 1
      <4>1. i \in 2 .. Len(T) /\ T[i] = R[i - 1] /\ i - 1 \in 1 .. Len(R)
        BY <3>2, <1>2
      <4>2. (i - 1) + 2 <= Len(R) /\ R[(i - 1) + 2].op \in Naming
        BY <4>1, <2>6, <1>1 DEF Paired
      <4>3. i + 2 \in 2 .. Len(T) /\ (i + 2) - 1 = (i - 1) + 2
        BY <4>1, <4>2, <1>2
      <4> QED
        BY <4>2, <4>3, <1>2
    <3> QED
      BY <3>1, <3>2
  <2>2. T[1].op # "lock"
    BY <1>2
  <2>3. ASSUME NEW i \in 1 .. Len(T), T[i].op = "grow"
        PROVE  \E j \in 1 .. Len(T) : i < j /\ T[j].op = "setlength" /\ T[j].sector = T[i].sector
    <3>1. CASE i = 1
      <4>1. PICK k \in 1 .. Len(R) : R[k].op \in {"setlength"} /\ R[k].sector = a.sector
        BY <3>1, <2>3, <1>2 DEF HasOn
      <4>2. k + 1 \in 1 .. Len(T) /\ T[k + 1] = R[k] /\ i < k + 1
        BY <4>1, <3>1, <1>2
      <4> QED
        BY <4>1, <4>2, <3>1, <1>2, ZenonT(60)
    <3>2. CASE i # 1
      <4>1. i \in 2 .. Len(T) /\ T[i] = R[i - 1] /\ i - 1 \in 1 .. Len(R)
        BY <3>2, <1>2
      <4>2. PICK k \in 1 .. Len(R) : i - 1 < k /\ R[k].op = "setlength" /\ R[k].sector = R[i - 1].sector
        BY <4>1, <2>3, <1>1 DEF Paired
      <4>3. k + 1 \in 1 .. Len(T) /\ T[k + 1] = R[k] /\ i < k + 1
        BY <4>1, <4>2, <1>2, SMTT(30)
      <4> QED
        BY <4>1, <4>2, <4>3
    <3> QED
      BY <3>1, <3>2
  <2>4. ASSUME NEW i \in 1 .. Len(T), T[i].op = "allocate"
        PROVE  \E j \in 1 .. Len(T) : i < j /\ T[j].op = "newinode"
    <3>1. CASE i = 1
      <4>1. PICK k \in 1 .. Len(R) : R[k].op \in {"newinode"}
        BY <3>1, <2>4, <1>2 DEF Has
      <4>2. k + 1 \in 1 .. Len(T) /\ T[k + 1] = R[k] /\ i < k + 1
        BY <4>1, <3>1, <1>2
      <4> QED
        BY <4>1, <4>2, <3>1, <1>2
    <3>2. CASE i # 1
      <4>1. i \in 2 .. Len(T) /\ T[i] = R[i - 1] /\ i - 1 \in 1 .. Len(R)
        BY <3>2, <1>2
      <4>2. PICK k \in 1 .. Len(R) : i - 1 < k /\ R[k].op = "newinode"
        BY <4>1, <2>4, <1>1 DEF Paired
      <4>3. k + 1 \in 1 .. Len(T) /\ T[k + 1] = R[k] /\ i < k + 1
        BY <4>1, <4>2, <1>2, SMTT(30)
      <4> QED
        BY <4>1, <4>2, <4>3
    <3> QED
      BY <3>1, <3>2
  <2>5. ASSUME NEW i \in 1 .. Len(T), NEW j \in 1 .. Len(T),
               T[i].op = "release", T[j].op = "release", T[i].sector = T[j].sector
        PROVE  i = j
    <3>1. ASSUME NEW k \in 2 .. Len(T), T[k].op = "release", a.op = "release" PROVE T[k].sector # a.sector
      BY <3>1, <1>2 DEF HasOn
    <3>2. CASE i = 1 \/ j = 1
      BY <3>1, <3>2, <2>5, <1>2
    <3>3. CASE i # 1 /\ j # 1
      <4>1. i \in 2 .. Len(T) /\ j \in 2 .. Len(T)
        BY <3>3
      <4>3. /\ i - 1 \in 1 .. Len(R) /\ R[i - 1] = T[i]
            /\ j - 1 \in 1 .. Len(R) /\ R[j - 1] = T[j]
        BY <4>1, <1>2, SMTT(30)
      <4>4. /\ R[i - 1].op = "release" /\ R[j - 1].op = "release"
            /\ R[i - 1].sector = R[j - 1].sector
        BY <4>3, <2>5, Zenon
      <4>2. i - 1 = j - 1
        BY <4>3, <4>4, <1>1, Zenon DEF Paired
      <4> QED
        BY <4>1, <4>2
    <3> QED
      BY <3>2, <3>3
  <2> QED
    BY <2>1, <2>2, <2>3, <2>4, <2>5, <2>6 DEF Paired
<1>7. Fit(T)
  BY <1>2, <1>3, <1>4, <1>5, <1>6 DEF Fit
<1> QED
  BY <1>7 DEF T

\* A row of tasks of one kind before the rest of a plan.
LEMMA FitRow ==
  ASSUME NEW N \in Seq(Tasks), NEW R, Fit(R),
         NEW o \in {"release", "flush", "grow", "allocate"},
         \A i \in 1 .. Len(N) : N[i].op = o /\ Meant(N[i]),
         \A i \in 1 .. Len(N), j \in 1 .. Len(N) : MayFollow(N[i], N[j]) /\ MayPrecede(N[i], N[j]),
         R # <<>> => \A i \in 1 .. Len(N) : MayFollow(N[i], R[1]),
         R = <<>> => \A i \in 1 .. Len(N) : MayEnd(N[i]),
         R # <<>> => R[1].op # "lock",
         \A i \in 1 .. Len(N), j \in 1 .. Len(R) : MayPrecede(N[i], R[j]),
         o = "grow" => \A i \in 1 .. Len(N) : HasOn(R, {"setlength"}, N[i].sector),
         o = "allocate" => Has(R, {"newinode"}),
         o = "release" => ~Has(R, {"release"}),
         o = "release" => \A i \in 1 .. Len(N), j \in 1 .. Len(N) : N[i].sector = N[j].sector => i = j
  PROVE  Fit(N \o R)
<1> DEFINE T == N \o R
<1>1. /\ R \in Seq(Tasks) /\ Chained(R) /\ Ordered(R) /\ Paired(R)
      /\ \A i \in 1 .. Len(R) : Meant(R[i])
  BY DEF Fit
<1>2. /\ T \in Seq(Tasks) /\ Len(T) = Len(N) + Len(R) /\ Len(N) \in Nat /\ Len(R) \in Nat
      /\ \A i \in 1 .. Len(N) : T[i] = N[i]
      /\ \A i \in 1 .. Len(R) : T[i + Len(N)] = R[i] /\ i + Len(N) \in 1 .. Len(T)
      /\ \A i \in Len(N) + 1 .. Len(T) : T[i] = R[i - Len(N)] /\ i - Len(N) \in 1 .. Len(R)
  BY <1>1, JoinOf
<1>20. (R = <<>> <=> Len(R) = 0) /\ (T = <<>> <=> Len(T) = 0)
  BY <1>1, <1>2
<1> HIDE DEF T
<1>3. \A i \in 1 .. Len(T) : Meant(T[i])
  <2> SUFFICES ASSUME NEW i \in 1 .. Len(T) PROVE Meant(T[i])
    OBVIOUS
  <2>1. CASE i <= Len(N)
    BY <2>1, <1>2
  <2>2. CASE i > Len(N)
    BY <2>2, <1>1, <1>2, SMTT(30)
  <2> QED
    BY <2>1, <2>2, <1>2
<1>4. Chained(T)
  <2>1. ASSUME NEW i \in 1 .. Len(T), i < Len(T) PROVE MayFollow(T[i], T[i + 1])
    <3>1. CASE i < Len(N)
      <4>1. i \in 1 .. Len(N) /\ i + 1 \in 1 .. Len(N)
        BY <3>1, <1>2
      <4> QED
        BY <4>1, <1>2
    <3>2. CASE i = Len(N)
      <4>1. R # <<>> /\ T[i + 1] = R[1] /\ i \in 1 .. Len(N)
        BY <3>2, <2>1, <1>2, <1>20
      <4> QED
        BY <4>1, <1>2
    <3>3. CASE i > Len(N)
      <4>1. i \in Len(N) + 1 .. Len(T) /\ i + 1 \in Len(N) + 1 .. Len(T)
            /\ i - Len(N) \in 1 .. Len(R) /\ i - Len(N) < Len(R) /\ (i + 1) - Len(N) = (i - Len(N)) + 1
        BY <3>3, <2>1, <1>2
      <4>2. MayFollow(R[i - Len(N)], R[(i - Len(N)) + 1])
        BY <4>1, <1>1 DEF Chained
      <4>3. T[i] = R[i - Len(N)] /\ T[i + 1] = R[(i - Len(N)) + 1]
        BY <4>1, <1>2
      <4> QED
        BY <4>2, <4>3
    <3> QED
      BY <3>1, <3>2, <3>3, <1>2
  <2>2. ASSUME T # <<>> PROVE MayEnd(T[Len(T)])
    <3>1. CASE R = <<>>
      <4>1. Len(T) \in 1 .. Len(N)
        BY <3>1, <2>2, <1>2, <1>20
      <4> QED
        BY <4>1, <3>1, <1>2
    <3>2. CASE R # <<>>
      <4>1. Len(T) \in Len(N) + 1 .. Len(T) /\ Len(T) - Len(N) = Len(R)
        BY <3>2, <1>2, <1>20
      <4>2. T[Len(T)] = R[Len(R)]
        BY <4>1, <1>2
      <4> QED
        BY <4>2, <3>2, <1>1 DEF Chained
    <3> QED
      BY <3>1, <3>2
  <2> QED
    BY <2>1, <2>2 DEF Chained
<1>5. Ordered(T)
  <2> SUFFICES ASSUME NEW i \in 1 .. Len(T), NEW j \in 1 .. Len(T), i < j
               PROVE  MayPrecede(T[i], T[j])
    BY DEF Ordered
  <2>1. CASE j <= Len(N)
    <3>1. i \in 1 .. Len(N) /\ j \in 1 .. Len(N)
      BY <2>1, <1>2
    <3> QED
      BY <3>1, <1>2
  <2>2. CASE i <= Len(N) /\ j > Len(N)
    <3>1. i \in 1 .. Len(N) /\ j \in Len(N) + 1 .. Len(T)
      BY <2>2, <1>2
    <3> QED
      BY <3>1, <1>2
  <2>3. CASE i > Len(N)
    <3>1. i \in Len(N) + 1 .. Len(T) /\ j \in Len(N) + 1 .. Len(T) /\ i - Len(N) < j - Len(N)
      BY <2>3, <1>2
    <3> QED
      BY <3>1, <1>1, <1>2 DEF Ordered
  <2> QED
    BY <2>1, <2>2, <2>3, <1>2
<1>6. Paired(T)
  <2>0. ASSUME NEW i \in 1 .. Len(T), T[i].op # o
        PROVE  i \in Len(N) + 1 .. Len(T) /\ T[i] = R[i - Len(N)] /\ i - Len(N) \in 1 .. Len(R)
    <3>1. i \notin 1 .. Len(N)
      BY <2>0, <1>2
    <3> QED
      BY <3>1, <1>2
  <2>1. ASSUME NEW i \in 1 .. Len(T), T[i].op = "erase"
        PROVE  i + 2 <= Len(T) /\ CloseRoot(T[i + 2])
    <3>1. T[i].op # o
      BY <2>1
    <3>2. i \in Len(N) + 1 .. Len(T) /\ T[i] = R[i - Len(N)] /\ i - Len(N) \in 1 .. Len(R)
      BY <3>1, <2>0
    <3>3. (i - Len(N)) + 2 <= Len(R) /\ CloseRoot(R[(i - Len(N)) + 2])
      BY <3>2, <2>1, <1>1 DEF Paired
    <3>6. Len(T) = Len(N) + Len(R) /\ Len(N) \in Nat /\ Len(R) \in Nat
      BY <1>2, SMTT(30)
    <3>7. i \in Nat /\ i > Len(N)
      BY <3>2, <3>6
    <3>5. i \in Nat /\ i > Len(N) /\ Len(T) = Len(N) + Len(R) /\ Len(N) \in Nat /\ Len(R) \in Nat
          /\ (i - Len(N)) + 2 <= Len(R)
      BY <3>3, <3>6, <3>7, Zenon
    <3>4. i + 2 \in Len(N) + 1 .. Len(T) /\ (i + 2) - Len(N) = (i - Len(N)) + 2
      BY <3>5
    <3> QED
      BY <3>3, <3>4, <1>2
  <2>6. ASSUME NEW i \in 1 .. Len(T), T[i].op = "lookup"
        PROVE  i + 2 <= Len(T) /\ T[i + 2].op \in Naming
    <3>1. T[i].op # o
      BY <2>6
    <3>2. i \in Len(N) + 1 .. Len(T) /\ T[i] = R[i - Len(N)] /\ i - Len(N) \in 1 .. Len(R)
      BY <3>1, <2>0
    <3>3. (i - Len(N)) + 2 <= Len(R) /\ R[(i - Len(N)) + 2].op \in Naming
      BY <3>2, <2>6, <1>1 DEF Paired
    <3>6. Len(T) = Len(N) + Len(R) /\ Len(N) \in Nat /\ Len(R) \in Nat
      BY <1>2, SMTT(30)
    <3>7. i \in Nat /\ i > Len(N)
      BY <3>2, <3>6
    <3>5. i \in Nat /\ i > Len(N) /\ Len(T) = Len(N) + Len(R) /\ Len(N) \in Nat /\ Len(R) \in Nat
          /\ (i - Len(N)) + 2 <= Len(R)
      BY <3>3, <3>6, <3>7, Zenon
    <3>4. i + 2 \in Len(N) + 1 .. Len(T) /\ (i + 2) - Len(N) = (i - Len(N)) + 2
      BY <3>5
    <3> QED
      BY <3>3, <3>4, <1>2
  <2>2. T # <<>> => T[1].op # "lock"
    <3>1. CASE N = <<>>
      BY <3>1, <1>2, <1>20
    <3>2. CASE N # <<>>
      <4>1. 1 \in 1 .. Len(N)
        BY <3>2, <1>2
      <4> QED
        BY <4>1, <1>2
    <3> QED
      BY <3>1, <3>2
  <2>3. ASSUME NEW i \in 1 .. Len(T), T[i].op = "grow"
        PROVE  \E j \in 1 .. Len(T) : i < j /\ T[j].op = "setlength" /\ T[j].sector = T[i].sector
    <3>1. CASE i <= Len(N)
      <4>0. i \in 1 .. Len(N) /\ N[i] = T[i] /\ o = "grow"
        BY <3>1, <2>3, <1>2
      <4>1. PICK k \in 1 .. Len(R) : R[k].op \in {"setlength"} /\ R[k].sector = N[i].sector
        BY <4>0 DEF HasOn
      <4>2. k + Len(N) \in 1 .. Len(T) /\ T[k + Len(N)] = R[k] /\ i < k + Len(N)
        BY <4>1, <3>1, <1>2
      <4> QED
        BY <4>0, <4>1, <4>2
    <3>2. CASE i > Len(N)
      <4>1. i \in Len(N) + 1 .. Len(T) /\ T[i] = R[i - Len(N)] /\ i - Len(N) \in 1 .. Len(R)
        BY <3>2, <1>2
      <4>2. PICK k \in 1 .. Len(R) : i - Len(N) < k /\ R[k].op = "setlength" /\ R[k].sector = R[i - Len(N)].sector
        BY <4>1, <2>3, <1>1, SMTT(30) DEF Paired
      <4>3. k + Len(N) \in 1 .. Len(T) /\ T[k + Len(N)] = R[k] /\ i < k + Len(N)
        BY <4>1, <4>2, <1>2, SMTT(30)
      <4> QED
        BY <4>1, <4>2, <4>3
    <3> QED
      BY <3>1, <3>2, <1>2
  <2>4. ASSUME NEW i \in 1 .. Len(T), T[i].op = "allocate"
        PROVE  \E j \in 1 .. Len(T) : i < j /\ T[j].op = "newinode"
    <3>1. CASE i <= Len(N)
      <4>0. i \in 1 .. Len(N) /\ N[i] = T[i] /\ o = "allocate"
        BY <3>1, <2>4, <1>2
      <4>1. PICK k \in 1 .. Len(R) : R[k].op \in {"newinode"}
        BY <4>0 DEF Has
      <4>2. k + Len(N) \in 1 .. Len(T) /\ T[k + Len(N)] = R[k] /\ i < k + Len(N)
        BY <4>1, <3>1, <1>2
      <4> QED
        BY <4>1, <4>2
    <3>2. CASE i > Len(N)
      <4>1. i \in Len(N) + 1 .. Len(T) /\ T[i] = R[i - Len(N)] /\ i - Len(N) \in 1 .. Len(R)
        BY <3>2, <1>2
      <4>2. PICK k \in 1 .. Len(R) : i - Len(N) < k /\ R[k].op = "newinode"
        BY <4>1, <2>4, <1>1 DEF Paired
      <4>3. k + Len(N) \in 1 .. Len(T) /\ T[k + Len(N)] = R[k] /\ i < k + Len(N)
        BY <4>1, <4>2, <1>2, SMTT(30)
      <4> QED
        BY <4>1, <4>2, <4>3
    <3> QED
      BY <3>1, <3>2, <1>2
  <2>5. ASSUME NEW i \in 1 .. Len(T), NEW j \in 1 .. Len(T),
               T[i].op = "release", T[j].op = "release", T[i].sector = T[j].sector
        PROVE  i = j
    <3>1. CASE o # "release"
      <4>1. /\ i \in Len(N) + 1 .. Len(T) /\ T[i] = R[i - Len(N)] /\ i - Len(N) \in 1 .. Len(R)
            /\ j \in Len(N) + 1 .. Len(T) /\ T[j] = R[j - Len(N)] /\ j - Len(N) \in 1 .. Len(R)
        BY <3>1, <2>5, <2>0
      <4>2. i - Len(N) = j - Len(N)
        BY <4>1, <2>5, <1>1, ZenonT(60) DEF Paired
      <4> QED
        BY <4>1, <4>2, <1>2
    <3>2. CASE o = "release"
      <4>1. ASSUME NEW k \in 1 .. Len(T), T[k].op = "release" PROVE k \in 1 .. Len(N)
        <5> SUFFICES ASSUME k > Len(N) PROVE FALSE
          BY <1>2
        <5>1. k - Len(N) \in 1 .. Len(R) /\ R[k - Len(N)].op = "release"
          BY <4>1, <1>2
        <5> QED
          BY <5>1, <3>2 DEF Has
      <4>2. i \in 1 .. Len(N) /\ j \in 1 .. Len(N)
        BY <4>1, <2>5
      <4> QED
        BY <4>2, <3>2, <2>5, <1>2
    <3> QED
      BY <3>1, <3>2
  <2> QED
    BY <2>1, <2>2, <2>3, <2>4, <2>5, <2>6 DEF Paired
<1>7. Fit(T)
  BY <1>2, <1>3, <1>4, <1>5, <1>6 DEF Fit
<1> QED
  BY <1>7 DEF T

-----------------------------------------------------------------------------
\* What is read off the plan of a call, task by task.
Making == {"newinode", "unique", "dirwrite"}
DataOps == {"read", "readat", "write", "grow", "setlength", "writeinode", "put"}

\* The sector in reg is a handle of the call; the root directory is open.
RegHeld(T)  == \E j \in 1 .. Len(T) : /\ T[j].op \in Naming
                                      /\ \A i \in 1 .. j : T[i].op # "lookup"
RootOpen(T) == \E j \in 1 .. Len(T) : /\ CloseRoot(T[j])
                                      /\ \A i \in 1 .. j : ~OpenRoot(T[i])

LEMMA Split ==
  ASSUME NEW T \in Seq(Tasks), T # <<>>
  PROVE  T = <<T[1]>> \o Tail(T) /\ T[1] \in Tasks /\ Tail(T) \in Seq(Tasks)
<1>1. T[1] \in Tasks /\ Tail(T) \in Seq(Tasks)
  BY TailOf
<1>2. <<T[1]>> \o Tail(T) \in Seq(Tasks) /\ Len(<<T[1]>> \o Tail(T)) = Len(T)
      /\ \A i \in 1 .. Len(T) : (<<T[1]>> \o Tail(T))[i] = T[i]
  OBVIOUS
<1> QED
  BY <1>1, <1>2, SeqSame

LEMMA OnCons ==
  ASSUME NEW a \in Tasks, NEW R \in Seq(Tasks)
  PROVE  /\ \A ops : Has(<<a>> \o R, ops) <=> (a.op \in ops \/ Has(R, ops))
         /\ \A ops, f : HasOn(<<a>> \o R, ops, f) <=>
                          ((a.op \in ops /\ a.sector = f) \/ HasOn(R, ops, f))
         /\ RegHeld(<<a>> \o R) <=> (a.op # "lookup" /\ (a.op \in Naming \/ RegHeld(R)))
         /\ RootOpen(<<a>> \o R) <=> (~OpenRoot(a) /\ (CloseRoot(a) \/ RootOpen(R)))
<1> DEFINE T == <<a>> \o R
<1>1. /\ Len(T) = Len(R) + 1 /\ Len(R) \in Nat /\ T[1] = a
      /\ \A i \in 1 .. Len(R) : T[i + 1] = R[i] /\ i + 1 \in 1 .. Len(T)
      /\ \A i \in 2 .. Len(T) : T[i] = R[i - 1] /\ i - 1 \in 1 .. Len(R)
      /\ 1 \in 1 .. Len(T)
  BY ConsOf
<1> HIDE DEF T
<1>2. ASSUME NEW ops PROVE Has(T, ops) <=> (a.op \in ops \/ Has(R, ops))
  <2>1. ASSUME Has(T, ops), a.op \notin ops PROVE Has(R, ops)
    <3>1. PICK i \in 1 .. Len(T) : T[i].op \in ops
      BY <2>1 DEF Has
    <3>2. i \in 2 .. Len(T)
      BY <3>1, <2>1, <1>1
    <3> QED
      BY <3>1, <3>2, <1>1 DEF Has
  <2>2. ASSUME Has(R, ops) PROVE Has(T, ops)
    BY <2>2, <1>1 DEF Has
  <2>3. ASSUME a.op \in ops PROVE Has(T, ops)
    BY <2>3, <1>1 DEF Has
  <2> QED
    BY <2>1, <2>2, <2>3
<1>3. ASSUME NEW ops, NEW f
      PROVE HasOn(T, ops, f) <=> ((a.op \in ops /\ a.sector = f) \/ HasOn(R, ops, f))
  <2>1. ASSUME HasOn(T, ops, f), ~(a.op \in ops /\ a.sector = f) PROVE HasOn(R, ops, f)
    <3>1. PICK i \in 1 .. Len(T) : T[i].op \in ops /\ T[i].sector = f
      BY <2>1 DEF HasOn
    <3>2. i \in 2 .. Len(T)
      BY <3>1, <2>1, <1>1
    <3> QED
      BY <3>1, <3>2, <1>1 DEF HasOn
  <2>2. ASSUME HasOn(R, ops, f) PROVE HasOn(T, ops, f)
    BY <2>2, <1>1 DEF HasOn
  <2>3. ASSUME a.op \in ops, a.sector = f PROVE HasOn(T, ops, f)
    BY <2>3, <1>1 DEF HasOn
  <2> QED
    BY <2>1, <2>2, <2>3
<1>4. RegHeld(T) <=> (a.op # "lookup" /\ (a.op \in Naming \/ RegHeld(R)))
  <2>1. ASSUME RegHeld(T) PROVE a.op # "lookup" /\ (a.op \in Naming \/ RegHeld(R))
    <3>1. PICK j \in 1 .. Len(T) : T[j].op \in Naming /\ \A i \in 1 .. j : T[i].op # "lookup"
      BY <2>1 DEF RegHeld
    <3>2. 1 \in 1 .. j /\ a.op # "lookup"
      BY <3>1, <1>1
    <3>3. CASE j = 1
      BY <3>1, <3>2, <3>3, <1>1
    <3>4. CASE j # 1
      <4>1. j \in 2 .. Len(T) /\ R[j - 1].op \in Naming /\ j - 1 \in 1 .. Len(R)
        BY <3>1, <3>4, <1>1
      <4>2. \A i \in 1 .. j - 1 : i + 1 \in 1 .. j /\ i \in 1 .. Len(R) /\ R[i] = T[i + 1]
        BY <4>1, <1>1
      <4> QED
        BY <3>1, <3>2, <4>1, <4>2 DEF RegHeld
    <3> QED
      BY <3>3, <3>4
  <2>2. ASSUME a.op # "lookup", a.op \in Naming PROVE RegHeld(T)
    <3>1. \A i \in 1 .. 1 : T[i].op # "lookup"
      BY <2>2, <1>1
    <3> QED
      BY <3>1, <2>2, <1>1 DEF RegHeld
  <2>3. ASSUME a.op # "lookup", RegHeld(R) PROVE RegHeld(T)
    <3>1. PICK j \in 1 .. Len(R) : R[j].op \in Naming /\ \A i \in 1 .. j : R[i].op # "lookup"
      BY <2>3 DEF RegHeld
    <3>2. j + 1 \in 1 .. Len(T) /\ T[j + 1].op \in Naming
      BY <3>1, <1>1
    <3>3. ASSUME NEW i \in 1 .. j + 1 PROVE T[i].op # "lookup"
      <4>1. CASE i = 1
        BY <4>1, <2>3, <1>1
      <4>2. CASE i # 1
        <5>1. i - 1 \in 1 .. j /\ i \in 2 .. Len(T)
          BY <4>2, <3>2
        <5> QED
          BY <5>1, <3>1, <1>1
      <4> QED
        BY <4>1, <4>2
    <3> QED
      BY <3>2, <3>3 DEF RegHeld
  <2> QED
    BY <2>1, <2>2, <2>3
<1>5. RootOpen(T) <=> (~OpenRoot(a) /\ (CloseRoot(a) \/ RootOpen(R)))
  <2>1. ASSUME RootOpen(T) PROVE ~OpenRoot(a) /\ (CloseRoot(a) \/ RootOpen(R))
    <3>1. PICK j \in 1 .. Len(T) : CloseRoot(T[j]) /\ \A i \in 1 .. j : ~OpenRoot(T[i])
      BY <2>1 DEF RootOpen
    <3>2. 1 \in 1 .. j /\ ~OpenRoot(a)
      BY <3>1, <1>1
    <3>3. CASE j = 1
      BY <3>1, <3>2, <3>3, <1>1
    <3>4. CASE j # 1
      <4>1. j \in 2 .. Len(T) /\ CloseRoot(R[j - 1]) /\ j - 1 \in 1 .. Len(R)
        BY <3>1, <3>4, <1>1
      <4>2. \A i \in 1 .. j - 1 : i + 1 \in 1 .. j /\ i \in 1 .. Len(R) /\ R[i] = T[i + 1]
        BY <4>1, <1>1
      <4> QED
        BY <3>1, <3>2, <4>1, <4>2 DEF RootOpen
    <3> QED
      BY <3>3, <3>4
  <2>2. ASSUME ~OpenRoot(a), CloseRoot(a) PROVE RootOpen(T)
    <3>1. \A i \in 1 .. 1 : ~OpenRoot(T[i])
      BY <2>2, <1>1
    <3> QED
      BY <3>1, <2>2, <1>1 DEF RootOpen
  <2>3. ASSUME ~OpenRoot(a), RootOpen(R) PROVE RootOpen(T)
    <3>1. PICK j \in 1 .. Len(R) : CloseRoot(R[j]) /\ \A i \in 1 .. j : ~OpenRoot(R[i])
      BY <2>3 DEF RootOpen
    <3>2. j + 1 \in 1 .. Len(T) /\ CloseRoot(T[j + 1])
      BY <3>1, <1>1
    <3>3. ASSUME NEW i \in 1 .. j + 1 PROVE ~OpenRoot(T[i])
      <4>1. CASE i = 1
        BY <4>1, <2>3, <1>1
      <4>2. CASE i # 1
        <5>1. i - 1 \in 1 .. j /\ i \in 2 .. Len(T)
          BY <4>2, <3>2
        <5> QED
          BY <5>1, <3>1, <1>1
      <4> QED
        BY <4>1, <4>2
    <3> QED
      BY <3>2, <3>3 DEF RootOpen
  <2> QED
    BY <2>1, <2>2, <2>3
<1> QED
  BY <1>2, <1>3, <1>4, <1>5 DEF T

LEMMA OnRow ==
  ASSUME NEW N \in Seq(Tasks), NEW R \in Seq(Tasks),
         NEW o \in {"release", "flush", "grow", "allocate"},
         \A i \in 1 .. Len(N) : N[i].op = o
  PROVE  /\ \A ops : Has(N \o R, ops) <=> (Has(N, ops) \/ Has(R, ops))
         /\ \A ops, f : HasOn(N \o R, ops, f) <=> (HasOn(N, ops, f) \/ HasOn(R, ops, f))
         /\ RegHeld(N \o R) <=> RegHeld(R)
         /\ RootOpen(N \o R) <=> RootOpen(R)
<1> DEFINE T == N \o R
<1>1. /\ Len(T) = Len(N) + Len(R) /\ Len(R) \in Nat /\ Len(N) \in Nat
      /\ \A i \in 1 .. Len(N) : T[i] = N[i] /\ i \in 1 .. Len(T)
      /\ \A i \in 1 .. Len(R) : T[i + Len(N)] = R[i] /\ i + Len(N) \in 1 .. Len(T)
      /\ \A i \in 1 .. Len(T) : i > Len(N) => T[i] = R[i - Len(N)] /\ i - Len(N) \in 1 .. Len(R)
  <2>1. /\ Len(T) = Len(N) + Len(R) /\ Len(R) \in Nat /\ Len(N) \in Nat
        /\ \A i \in 1 .. Len(N) : T[i] = N[i]
        /\ \A i \in 1 .. Len(R) : T[i + Len(N)] = R[i]
        /\ \A i \in Len(N) + 1 .. Len(N) + Len(R) : T[i] = R[i - Len(N)]
    BY JoinOf
  <2> HIDE DEF T
  <2>2. \A i \in 1 .. Len(N) : i \in 1 .. Len(T)
    BY <2>1
  <2>3. \A i \in 1 .. Len(R) : i + Len(N) \in 1 .. Len(T)
    BY <2>1
  <2>4. \A i \in 1 .. Len(T) : i > Len(N) => i \in Len(N) + 1 .. Len(N) + Len(R) /\ i - Len(N) \in 1 .. Len(R)
    BY <2>1
  <2> QED
    BY <2>1, <2>2, <2>3, <2>4
<1> HIDE DEF T
<1>2. ASSUME NEW ops PROVE Has(T, ops) <=> (Has(N, ops) \/ Has(R, ops))
  <2>1. ASSUME Has(T, ops) PROVE Has(N, ops) \/ Has(R, ops)
    <3>1. PICK i \in 1 .. Len(T) : T[i].op \in ops
      BY <2>1 DEF Has
    <3>2. CASE i <= Len(N)
      <4>1. i \in 1 .. Len(N)
        BY <3>2, <1>1
      <4>2. T[i] = N[i]
        BY <4>1, <1>1, Zenon
      <4> QED
        BY <3>1, <4>1, <4>2, Zenon DEF Has
    <3>3. CASE i > Len(N)
      <4>1. T[i] = R[i - Len(N)] /\ i - Len(N) \in 1 .. Len(R)
        BY <3>3, <1>1, Zenon
      <4> QED
        BY <3>1, <4>1, Zenon DEF Has
    <3> QED
      BY <3>2, <3>3, <1>1
  <2>2. ASSUME Has(R, ops) PROVE Has(T, ops)
    BY <2>2, <1>1 DEF Has
  <2>3. ASSUME Has(N, ops) PROVE Has(T, ops)
    BY <2>3, <1>1 DEF Has
  <2> QED
    BY <2>1, <2>2, <2>3
<1>3. ASSUME NEW ops, NEW f PROVE HasOn(T, ops, f) <=> (HasOn(N, ops, f) \/ HasOn(R, ops, f))
  <2>1. ASSUME HasOn(T, ops, f) PROVE HasOn(N, ops, f) \/ HasOn(R, ops, f)
    <3>1. PICK i \in 1 .. Len(T) : T[i].op \in ops /\ T[i].sector = f
      BY <2>1 DEF HasOn
    <3>2. CASE i <= Len(N)
      <4>1. i \in 1 .. Len(N)
        BY <3>2, <1>1
      <4>2. T[i] = N[i]
        BY <4>1, <1>1, Zenon
      <4> QED
        BY <3>1, <4>1, <4>2, Zenon DEF HasOn
    <3>3. CASE i > Len(N)
      <4>1. T[i] = R[i - Len(N)] /\ i - Len(N) \in 1 .. Len(R)
        BY <3>3, <1>1, Zenon
      <4> QED
        BY <3>1, <4>1, Zenon DEF HasOn
    <3> QED
      BY <3>2, <3>3, <1>1
  <2>2. ASSUME HasOn(R, ops, f) PROVE HasOn(T, ops, f)
    BY <2>2, <1>1 DEF HasOn
  <2>3. ASSUME HasOn(N, ops, f) PROVE HasOn(T, ops, f)
    BY <2>3, <1>1 DEF HasOn
  <2> QED
    BY <2>1, <2>2, <2>3
<1>4. RegHeld(T) <=> RegHeld(R)
  <2>1. ASSUME RegHeld(T) PROVE RegHeld(R)
    <3>1. PICK j \in 1 .. Len(T) : T[j].op \in Naming /\ \A i \in 1 .. j : T[i].op # "lookup"
      BY <2>1 DEF RegHeld
    <3>2. j > Len(N)
      BY <3>1, <1>1 DEF Naming
    <3>3. j - Len(N) \in 1 .. Len(R) /\ R[j - Len(N)].op \in Naming
      BY <3>1, <3>2, <1>1
    <3>4. \A i \in 1 .. j - Len(N) : i + Len(N) \in 1 .. j /\ i \in 1 .. Len(R)
      BY <3>2, <3>3, <1>1
    <3>5. \A i \in 1 .. j - Len(N) : R[i].op # "lookup"
      BY <3>1, <3>4, <1>1
    <3> QED
      BY <3>3, <3>5 DEF RegHeld
  <2>2. ASSUME RegHeld(R) PROVE RegHeld(T)
    <3>1. PICK j \in 1 .. Len(R) : R[j].op \in Naming /\ \A i \in 1 .. j : R[i].op # "lookup"
      BY <2>2 DEF RegHeld
    <3>2. j + Len(N) \in 1 .. Len(T) /\ T[j + Len(N)].op \in Naming
      BY <3>1, <1>1
    <3>3. ASSUME NEW i \in 1 .. j + Len(N) PROVE T[i].op # "lookup"
      <4>1. CASE i <= Len(N)
        BY <4>1, <1>1
      <4>2. CASE i > Len(N)
        <5>1. i - Len(N) \in 1 .. j /\ i \in 1 .. Len(T)
          BY <4>2, <3>2, <1>1
        <5> QED
          BY <5>1, <4>2, <3>1, <1>1
      <4> QED
        BY <4>1, <4>2, <1>1
    <3> QED
      BY <3>2, <3>3 DEF RegHeld
  <2> QED
    BY <2>1, <2>2
<1>5. RootOpen(T) <=> RootOpen(R)
  <2>1. ASSUME RootOpen(T) PROVE RootOpen(R)
    <3>1. PICK j \in 1 .. Len(T) : CloseRoot(T[j]) /\ \A i \in 1 .. j : ~OpenRoot(T[i])
      BY <2>1 DEF RootOpen
    <3>2. j > Len(N)
      BY <3>1, <1>1 DEF CloseRoot
    <3>3. j - Len(N) \in 1 .. Len(R) /\ CloseRoot(R[j - Len(N)])
      BY <3>1, <3>2, <1>1
    <3>4. \A i \in 1 .. j - Len(N) : i + Len(N) \in 1 .. j /\ i \in 1 .. Len(R)
      BY <3>2, <3>3, <1>1
    <3> QED
      BY <3>1, <3>3, <3>4, <1>1 DEF RootOpen
  <2>2. ASSUME RootOpen(R) PROVE RootOpen(T)
    <3>1. PICK j \in 1 .. Len(R) : CloseRoot(R[j]) /\ \A i \in 1 .. j : ~OpenRoot(R[i])
      BY <2>2 DEF RootOpen
    <3>2. j + Len(N) \in 1 .. Len(T) /\ CloseRoot(T[j + Len(N)])
      BY <3>1, <1>1
    <3>3. ASSUME NEW i \in 1 .. j + Len(N) PROVE ~OpenRoot(T[i])
      <4>1. CASE i <= Len(N)
        BY <4>1, <1>1 DEF OpenRoot
      <4>2. CASE i > Len(N)
        <5>1. i - Len(N) \in 1 .. j /\ i \in 1 .. Len(T)
          BY <4>2, <3>2, <1>1
        <5> QED
          BY <5>1, <4>2, <3>1, <1>1
      <4> QED
        BY <4>1, <4>2, <1>1
    <3> QED
      BY <3>2, <3>3 DEF RootOpen
  <2> QED
    BY <2>1, <2>2
<1> QED
  BY <1>2, <1>3, <1>4, <1>5 DEF T

-----------------------------------------------------------------------------
\* The invariant.  One process at most is on the way through a call: the others
\* want nothing or wait for filesys_lock.  p is that process, or any.
Quiet(q) == todo[q] = <<>> \/ todo[q][1].op = "lock"

CachedBlocks == [sector : {MapData, RootData} \cup FileSector, data : Contents]
Misses == [yes : BOOLEAN, victim : {None} \cup CachedBlocks]

Plans ==
  /\ todo \in [Proc -> Seq(Tasks)] /\ reg \in [Proc -> Seq(FileSector)]
  /\ miss \in [Proc -> Misses]
  /\ \A q \in Proc : Fit(todo[q])
  /\ \A q \in Proc : Has(todo[q], {"unlock"}) => \A i \in 1 .. Len(todo[q]) :
       todo[q][i].op \in DataOps => fd[q] # None /\ todo[q][i].sector = fd[q].sector

Turn(p) ==
  /\ \A q \in Proc \ {p} : Quiet(q) /\ miss[q] = NoMiss
  /\ ~Quiet(p) /\ ~Has(todo[p], {"unlock"}) => \A q \in Proc \ {p} : Idle(q)
  /\ fsLock = IF ~Quiet(p) /\ Has(todo[p], {"unlock"}) THEN p ELSE None

\* The cache holds a block once; what is on its way in or out is not in it.
CacheRight(p) ==
  /\ cache \in Seq(CachedBlocks) /\ Len(cache) <= CacheSize
  /\ \A i, j \in 1 .. Len(cache) : cache[i].sector = cache[j].sector => i = j
  /\ miss[p].yes => /\ ~Quiet(p) /\ Wants(p) # None /\ ~InCache(Wants(p))
                    /\ Len(cache) < CacheSize
  /\ miss[p].victim # None => /\ miss[p].yes /\ ~InCache(miss[p].victim.sector)
                              /\ miss[p].victim.sector # Wants(p)

\* The sector's block is in the cache, or on its way from there to the disk.
Caught(p, s) == InCache(s) \/ (miss[p].victim # None /\ miss[p].victim.sector = s)

DirKind(d) == /\ \E E \in SUBSET (Name \X FileSector) : d = Dir(E)
              /\ \A e, f \in d.entries : e[2] = f[2] => e = f

DiskRight ==
  /\ disk \in [Sector -> Contents] /\ used \subseteq Sector
  /\ disk[FREE_MAP_SECTOR] = OnDisk(<<MapData>>, 1)
  /\ disk[ROOT_DIR_SECTOR] = OnDisk(<<RootData>>, 1)

\* The map and the directory, as the next access reads them.
SystemData(p) ==
  /\ Logical(MapData) = Map(used) \/ AtHead(todo[p], {"mapwrite"})
  /\ DirKind(Logical(RootData))
  /\ \/ disk[RootData] = Logical(RootData) \/ RootOpen(todo[p])
     \/ AtHeadOn(todo[p], "flush", RootData)
  /\ AtHead(todo[p], {"off"}) => disk[MapData] = Map(used)

OnDisks == [direct : Seq(FileSector \cup {MapData, RootData}), length : Nat]
Inodes == [cnt : Nat, deny : Nat, removed : BOOLEAN, loaded : BOOLEAN, data : OnDisks]
FreeMapInode == [Closed EXCEPT !.cnt = 1, !.loaded = TRUE, !.data = OnDisk(<<MapData>>, 1)]

HandleTypes ==
  /\ inode \in [Sector -> Inodes]
  /\ leaked \in [FileSector -> Nat]
  /\ fd \in [Proc -> {None} \cup [sector : FileSector, pos : Nat]]
  /\ exec \in [Proc -> {None} \cup FileSector]
  /\ \A s \in Sector : inode[s].cnt = 0 => inode[s] = Closed

SystemInodes(p) ==
  /\ \/ inode[FREE_MAP_SECTOR] = FreeMapInode
     \/ /\ inode[FREE_MAP_SECTOR] = Closed
        /\ AtHead(todo[p], {"off"}) \/ AtHeadOn(todo[p], "flush", MapData)
  /\ inode[MapData] = Closed /\ inode[RootData] = Closed
  /\ inode[ROOT_DIR_SECTOR].cnt = IF RootOpen(todo[p]) THEN 1 ELSE 0
  /\ inode[ROOT_DIR_SECTOR].deny = 0 /\ inode[ROOT_DIR_SECTOR].removed = FALSE
  /\ inode[ROOT_DIR_SECTOR].loaded => inode[ROOT_DIR_SECTOR].data = OnDisk(<<RootData>>, 1)

\* The call of p has a handle on f.
Held(p, f) ==
  /\ ~AtHeadOn(todo[p], "open", f)
  /\ \/ HasOn(todo[p], {"close"}, f)
     \/ RegHeld(todo[p]) /\ reg[p] # <<>> /\ reg[p][1] = f
Executing(f) == {q \in Proc : exec[q] = f}
Opened(f)    == {q \in Proc : fd[q] # None /\ fd[q].sector = f}

Counted(p) ==
  \A f \in FileSector :
    /\ inode[f].cnt = leaked[f] + Cardinality(Executing(f)) + Cardinality(Opened(f))
                      + (IF Held(p, f) THEN 1 ELSE 0)
    /\ inode[f].deny = Cardinality(Executing(f))

Named == {e[2] : e \in InDir}
Unnamed == \A f \in FileSector : inode[f].cnt > 0 => (inode[f].removed = (f \notin Named))
LoadedRight(p) ==
  /\ \A s \in {ROOT_DIR_SECTOR} \cup FileSector :
       inode[s].cnt > 0 /\ ~inode[s].loaded => AtHeadOn(todo[p], "load", s)
  /\ AtHead(todo[p], {"load"}) => inode[todo[p][1].sector].cnt > 0

Growing(p, f) == HasOn(todo[p], {"setlength"}, f)
Writing(p, f) == HasOn(todo[p], {"setlength", "writeinode"}, f)
Whole(f) == {f} \cup ToSet(InodeOf(f).direct)

\* What is known of the inode of a file.
FileRight(p, f) ==
  /\ InodeOf(f) \in [direct : Seq(FileSector), length : Nat]
  /\ Len(InodeOf(f).direct) <= MaxLen
  /\ InodeOf(f).length <= Len(InodeOf(f).direct)
  /\ ~Growing(p, f) => InodeOf(f).length = Len(InodeOf(f).direct)
  /\ ~Writing(p, f) => InodeOf(f) = disk[f]
  /\ IsInjective(InodeOf(f).direct) /\ f \notin ToSet(InodeOf(f).direct)
  /\ ~Caught(p, f)
InodesRight(p) == \A f \in File : FileRight(p, f)

\* The sectors of a file that is being made, and those being given back.
Made(p)   == IF Has(todo[p], Making) THEN ToSet(reg[p]) ELSE {}
ToGive(p) == {s \in FileSector : HasOn(todo[p], {"release"}, s)}
Owns == UNION {Whole(f) : f \in File}

OwnersRight(p) ==
  /\ \A f, g \in File : f # g => Whole(f) \cap Whole(g) = {}
  /\ lost \subseteq FileSector /\ lost \cap Owns = {}
  /\ Made(p) \cap (Owns \cup lost) = {} /\ ToGive(p) \cap (Owns \cup lost) = {}
  /\ used = (0 .. 3) \cup lost \cup Owns \cup Made(p) \cup ToGive(p)

\* How many of the next tasks belong to the block that was just allocated.
Early(T) ==
  IF AtHead(T, {"mapwrite"}) THEN IF Len(T) > 1 /\ T[2].op = "zero" THEN 2 ELSE 1
  ELSE IF AtHead(T, {"zero"}) THEN 1 ELSE 0
\* n blocks and those still to come are what the call is to make.
Allots(T, n) == \A i \in 1 .. Len(T) : T[i].op = "newinode" => n + (i - 1 - Early(T)) <= MaxLen
Grows(T, n)  == \A i \in 1 .. Len(T) : T[i].op = "setlength" => T[i].arg = n + (i - 1 - Early(T))

NewRight(p) ==
  /\ Has(todo[p], Making) => /\ reg[p] # <<>> /\ IsInjective(reg[p]) /\ ~Caught(p, reg[p][1])
                             /\ Allots(todo[p], Len(reg[p]) - 1)
  /\ AtHead(todo[p], {"unique", "dirwrite"}) =>
       /\ disk[reg[p][1]] = OnDisk(Tail(reg[p]), Len(reg[p]) - 1)
       /\ Len(reg[p]) - 1 <= MaxLen
  /\ Has(todo[p], {"create"}) => \A s \in Free : ~Caught(p, s)
  /\ \A s \in FileSector : HasOn(todo[p], {"zero"}, s) => s \notin File

NamesRight(p) ==
  /\ AtHead(todo[p], {"open"}) /\ todo[p][1].sector # ROOT_DIR_SECTOR =>
       /\ todo[p][1].sector \in Named
       /\ \/ RegHeld(todo[p]) /\ reg[p] = <<todo[p][1].sector>>
          \/ ~RegHeld(todo[p]) /\ HasOn(todo[p], {"close"}, todo[p][1].sector)
  /\ \A i \in 1 .. Len(todo[p]) :
       todo[p][i].op = "erase" => <<todo[p][i].arg, todo[p][i].sector>> \in InDir
  /\ Has(todo[p], {"deny"}) => exec[p] = None
  /\ Has(todo[p], {"newfd"}) => fd[p] = None

DataRight(p) ==
  /\ \A f \in FileSector : Growing(p, f) => Grows(todo[p], Len(inode[f].data.direct))
  /\ \A i \in 1 .. Len(todo[p]) : todo[p][i].op = "put" /\ ~Has(todo[p], {"setlength"}) =>
       todo[p][i].arg[1] <= inode[todo[p][i].sector].data.length
  /\ AtHead(todo[p], {"readat"}) =>
       todo[p][1].arg[1] <= inode[todo[p][1].sector].data.length

OffRight(p) == mode \in {"up", "off", "panic"} /\ (mode = "off" => AtHead(todo[p], {"off"}))

Focus(p) ==
  /\ Plans /\ Turn(p) /\ CacheRight(p) /\ DiskRight /\ SystemData(p)
  /\ HandleTypes /\ SystemInodes(p) /\ Counted(p) /\ Unnamed /\ LoadedRight(p)
  /\ InodesRight(p) /\ OwnersRight(p) /\ NewRight(p) /\ NamesRight(p) /\ DataRight(p)
  /\ OffRight(p)

FilesInv == \E p \in Proc : Focus(p)

-----------------------------------------------------------------------------
\* The cache as a row of blocks.
Lists == {C \in Seq(CachedBlocks) :
            \A i, j \in 1 .. Len(C) : C[i].sector = C[j].sector => i = j}
In(C, s)     == \E i \in 1 .. Len(C) : C[i].sector = s
HitIn(C, s)  == SelectInSeq(C, LAMBDA e : e.sector = s)
\* What sector s reads as, with v on its way from the cache to the disk.
View(C, v, D, s) == IF HitIn(C, s) > 0 THEN C[HitIn(C, s)].data
                    ELSE IF v # None /\ v.sector = s THEN v.data ELSE D[s]

LEMMA HitOf ==
  ASSUME NEW C \in Lists, NEW s
  PROVE  /\ HitIn(C, s) > 0 <=> In(C, s)
         /\ HitIn(C, s) \in 0 .. Len(C)
         /\ HitIn(C, s) > 0 => HitIn(C, s) \in 1 .. Len(C) /\ C[HitIn(C, s)].sector = s
         /\ \A i \in 1 .. Len(C) : C[i].sector = s => HitIn(C, s) = i
<1> DEFINE I == {i \in 1 .. Len(C) : C[i].sector = s}
<1>0. HitIn(C, s) = IF I # {} THEN Min(I) ELSE 0
  BY DEF HitIn, SelectInSeq
<1>1. C \in Seq(CachedBlocks) /\ Len(C) \in Nat
      /\ \A i, j \in 1 .. Len(C) : C[i].sector = C[j].sector => i = j
  BY DEF Lists
<1>2. \A i \in I : Min(I) = i
  <2> TAKE i \in I
  <2>1. i \in Nat /\ \A j \in I : j = i
    BY <1>1
  <2>2. \E x \in I : \A y \in I : x <= y
    BY <2>1
  <2>3. Min(I) \in I
    BY <2>2 DEF Min
  <2> QED
    BY <2>1, <2>3
<1>3. I # {} <=> In(C, s)
  BY DEF In
<1>4. CASE I = {}
  BY <1>4, <1>0, <1>1, <1>3
<1>5. CASE I # {}
  <2>1. PICK i \in I : TRUE
    BY <1>5
  <2>2. HitIn(C, s) = i /\ i \in 1 .. Len(C) /\ i \in Nat /\ i > 0 /\ C[i].sector = s
    BY <2>1, <1>0, <1>2, <1>5
  <2> HIDE DEF I
  <2> QED
    BY <2>2, <1>1, <1>3, <1>5
<1> QED
  BY <1>4, <1>5

\* A block put into the cache is not there twice.
LEMMA ViewAppend ==
  ASSUME NEW C \in Lists, NEW D, NEW w \in {MapData, RootData} \cup FileSector, ~In(C, w),
         D[w] \in Contents
  PROVE  LET L == Append(C, Entry(w, D[w])) IN
         /\ L \in Lists /\ Len(L) = Len(C) + 1 /\ L[Len(C) + 1] = Entry(w, D[w])
         /\ \A s : In(L, s) <=> (In(C, s) \/ s = w)
         /\ \A s : View(L, None, D, s) = View(C, None, D, s)
         /\ View(C, None, D, w) = D[w]
<1> DEFINE L == Append(C, Entry(w, D[w]))
<1>0. Entry(w, D[w]) \in CachedBlocks /\ Entry(w, D[w]).sector = w /\ Entry(w, D[w]).data = D[w]
  BY DEF Entry, CachedBlocks
<1>1. C \in Seq(CachedBlocks) /\ Len(C) \in Nat
      /\ \A i, j \in 1 .. Len(C) : C[i].sector = C[j].sector => i = j
  BY DEF Lists
<1>2. L \in Seq(CachedBlocks) /\ Len(L) = Len(C) + 1 /\ L[Len(C) + 1] = Entry(w, D[w])
      /\ \A i \in 1 .. Len(C) : L[i] = C[i]
  BY <1>0, <1>1
<1> HIDE DEF L
<1>3. \A i \in 1 .. Len(L) : i \in 1 .. Len(C) \/ i = Len(C) + 1
  BY <1>1, <1>2
<1>4. \A i \in 1 .. Len(C) : L[i].sector # w
  BY <1>1, <1>2 DEF In
<1>5. L \in Lists
  <2>1. ASSUME NEW i \in 1 .. Len(L), NEW j \in 1 .. Len(L), L[i].sector = L[j].sector PROVE i = j
    <3>1. CASE i \in 1 .. Len(C) /\ j \in 1 .. Len(C)
      BY <3>1, <2>1, <1>1, <1>2
    <3>2. CASE i = Len(C) + 1 \/ j = Len(C) + 1
      BY <3>2, <2>1, <1>0, <1>2, <1>3, <1>4
    <3> QED
      BY <3>1, <3>2, <1>3
  <2> QED
    BY <2>1, <1>2 DEF Lists
<1>6. ASSUME NEW s PROVE In(L, s) <=> (In(C, s) \/ s = w)
  <2>1. Len(C) + 1 \in 1 .. Len(L) /\ \A i \in 1 .. Len(C) : i \in 1 .. Len(L)
    BY <1>1, <1>2
  <2> QED
    BY <2>1, <1>0, <1>2, <1>3 DEF In
<1>7. View(C, None, D, w) = D[w]
  BY HitOf DEF View
<1>8. ASSUME NEW s PROVE View(L, None, D, s) = View(C, None, D, s)
  <2>1. CASE s = w
    <3>1. HitIn(L, w) = Len(C) + 1
      <4>1. Len(C) + 1 \in 1 .. Len(L) /\ L[Len(C) + 1].sector = w
        BY <1>0, <1>1, <1>2
      <4> QED
        BY <4>1, <1>5, HitOf
    <3>2. View(L, None, D, w) = L[Len(C) + 1].data
      BY <3>1, <1>1 DEF View
    <3> QED
      BY <2>1, <3>2, <1>7, <1>0, <1>2
  <2>2. CASE s # w /\ In(C, s)
    <3>1. PICK i \in 1 .. Len(C) : C[i].sector = s
      BY <2>2 DEF In
    <3>2. HitIn(C, s) = i /\ i \in 1 .. Len(L) /\ L[i].sector = s /\ L[i] = C[i] /\ i > 0
      BY <3>1, <1>1, <1>2, HitOf
    <3>3. HitIn(L, s) = i
      BY <3>2, <1>5, HitOf
    <3> QED
      BY <3>2, <3>3 DEF View
  <2>3. CASE s # w /\ ~In(C, s)
    BY <2>3, <1>5, <1>6, HitOf DEF View
  <2> QED
    BY <2>1, <2>2, <2>3
<1> QED
  BY <1>2, <1>5, <1>6, <1>7, <1>8 DEF L

\* A block in the cache gets new contents.
LEMMA ViewStore ==
  ASSUME NEW C \in Lists, NEW D, NEW k \in 1 .. Len(C), NEW d \in Contents,
         NEW L \in Seq(CachedBlocks), Len(L) = Len(C),
         L[k].sector = C[k].sector, L[k].data = d,
         \A i \in 1 .. Len(C) : i # k => L[i] = C[i]
  PROVE  /\ L \in Lists /\ Len(L) = Len(C)
         /\ \A s : In(L, s) <=> In(C, s)
         /\ \A s : s # C[k].sector => View(L, None, D, s) = View(C, None, D, s)
         /\ View(L, None, D, C[k].sector) = d
<1>1. /\ C \in Seq(CachedBlocks) /\ Len(C) \in Nat
      /\ \A i \in 1 .. Len(C) : C[i] \in CachedBlocks
      /\ \A i, j \in 1 .. Len(C) : C[i].sector = C[j].sector => i = j
  BY DEF Lists
<1>3. \A i \in 1 .. Len(C) : L[i].sector = C[i].sector
  OBVIOUS
<1>4. L \in Lists
  BY <1>1, <1>3 DEF Lists
<1>5. \A s : In(L, s) <=> In(C, s)
  BY <1>3 DEF In
<1>6. \A i \in 1 .. Len(C) : HitIn(C, C[i].sector) = i /\ HitIn(L, C[i].sector) = i /\ i > 0
  <2> SUFFICES ASSUME NEW i \in 1 .. Len(C)
               PROVE  HitIn(C, C[i].sector) = i /\ HitIn(L, C[i].sector) = i /\ i > 0
    OBVIOUS
  <2>1. HitIn(C, C[i].sector) = i
    BY HitOf
  <2>2. i \in 1 .. Len(L) /\ L[i].sector = C[i].sector
    BY <1>3
  <2>3. HitIn(L, L[i].sector) = i
    BY <2>2, <1>4, HitOf
  <2> QED
    BY <2>1, <2>2, <2>3, <1>1
<1>7. View(L, None, D, C[k].sector) = d
  BY <1>6 DEF View
<1>8. ASSUME NEW s, s # C[k].sector PROVE View(L, None, D, s) = View(C, None, D, s)
  <2>1. CASE In(C, s)
    <3>1. PICK i \in 1 .. Len(C) : C[i].sector = s
      BY <2>1 DEF In
    <3>2. HitIn(C, s) = i /\ HitIn(L, s) = i /\ i > 0 /\ i # k
      BY <3>1, <1>6, <1>8
    <3> QED
      BY <3>2, <1>1 DEF View
  <2>2. CASE ~In(C, s)
    BY <2>2, <1>4, <1>5, HitOf DEF View
  <2> QED
    BY <2>1, <2>2
<1> QED
  BY <1>4, <1>5, <1>7, <1>8

\* The oldest block leaves the cache, for the disk.
LEMMA ViewTake ==
  ASSUME NEW C \in Lists, NEW D, C # <<>>
  PROVE  /\ Tail(C) \in Lists /\ Len(Tail(C)) = Len(C) - 1 /\ Head(C) \in CachedBlocks
         /\ ~In(Tail(C), Head(C).sector)
         /\ \A s : In(C, s) <=> (In(Tail(C), s) \/ s = Head(C).sector)
         /\ Head(C) # None => \A s : View(Tail(C), Head(C), D, s) = View(C, None, D, s)
<1> DEFINE L == Tail(C)
<1>1. C \in Seq(CachedBlocks) /\ Len(C) \in Nat
      /\ \A i, j \in 1 .. Len(C) : C[i].sector = C[j].sector => i = j
  BY DEF Lists
<1>2. /\ L \in Seq(CachedBlocks) /\ Len(L) = Len(C) - 1
      /\ Head(C) = C[1] /\ C[1] \in CachedBlocks
      /\ 1 \in 1 .. Len(C)
      /\ \A i \in 1 .. Len(C) - 1 : L[i] = C[i + 1] /\ i + 1 \in 1 .. Len(C)
      /\ \A i \in 2 .. Len(C) : C[i] = L[i - 1] /\ i - 1 \in 1 .. Len(L)
  BY <1>1, TailOf
<1> HIDE DEF L
<1>3. L \in Lists
  <2>1. ASSUME NEW i \in 1 .. Len(L), NEW j \in 1 .. Len(L), L[i].sector = L[j].sector PROVE i = j
    <3>1. i \in 1 .. Len(C) - 1 /\ j \in 1 .. Len(C) - 1
      BY <1>2
    <3>2. i + 1 = j + 1
      BY <3>1, <2>1, <1>1, <1>2
    <3> QED
      BY <3>2
  <2> QED
    BY <2>1, <1>2 DEF Lists
<1>4. ~In(L, C[1].sector)
  <2> SUFFICES ASSUME NEW i \in 1 .. Len(L), L[i].sector = C[1].sector PROVE FALSE
    BY DEF In
  <2>1. i \in 1 .. Len(C) - 1
    BY <1>2
  <2>2. i + 1 = 1
    BY <2>1, <1>1, <1>2
  <2> QED
    BY <2>2
<1>5. ASSUME NEW s PROVE In(C, s) <=> (In(L, s) \/ s = C[1].sector)
  <2>1. ASSUME In(C, s), s # C[1].sector PROVE In(L, s)
    <3>1. PICK i \in 1 .. Len(C) : C[i].sector = s
      BY <2>1 DEF In
    <3>2. i \in 2 .. Len(C)
      BY <3>1, <2>1, <1>1
    <3> QED
      BY <3>1, <3>2, <1>2 DEF In
  <2>2. ASSUME In(L, s) PROVE In(C, s)
    <3>1. PICK i \in 1 .. Len(L) : L[i].sector = s
      BY <2>2 DEF In
    <3>2. i \in 1 .. Len(C) - 1
      BY <1>2
    <3> QED
      BY <3>1, <3>2, <1>2 DEF In
  <2> QED
    BY <2>1, <2>2, <1>2 DEF In
<1>6. ASSUME C[1] # None, NEW s PROVE View(L, C[1], D, s) = View(C, None, D, s)
  <2>1. CASE s = C[1].sector
    <3>1. HitIn(C, s) = 1 /\ ~(HitIn(L, s) > 0)
      BY <2>1, <1>2, <1>3, <1>4, HitOf
    <3> QED
      BY <3>1, <2>1, <1>6 DEF View
  <2>2. CASE s # C[1].sector /\ In(L, s)
    <3>1. PICK i \in 1 .. Len(L) : L[i].sector = s
      BY <2>2 DEF In
    <3>2. i \in 1 .. Len(C) - 1 /\ i \in Nat /\ i > 0
      BY <1>2
    <3>3. HitIn(L, s) = i /\ HitIn(C, s) = i + 1
      BY <3>1, <3>2, <1>2, <1>3, HitOf
    <3> QED
      BY <3>2, <3>3, <1>2 DEF View
  <2>3. CASE s # C[1].sector /\ ~In(L, s)
    <3>1. ~(HitIn(C, s) > 0) /\ ~(HitIn(L, s) > 0)
      BY <2>3, <1>3, <1>5, HitOf
    <3> QED
      BY <3>1, <2>3, <1>6 DEF View
  <2> QED
    BY <2>1, <2>2, <2>3
<1> QED
  BY <1>2, <1>3, <1>4, <1>5, <1>6 DEF L

\* It has reached the disk.
LEMMA ViewDone ==
  ASSUME NEW C \in Lists, NEW v, v # None, ~In(C, v.sector), NEW D, v.sector \in DOMAIN D
  PROVE  \A s : View(C, None, [D EXCEPT ![v.sector] = v.data], s) = View(C, v, D, s)
BY HitOf DEF View

-----------------------------------------------------------------------------
\* Logical(s) in terms of the one access to the cache there may be.
LogicalOf(C, M, D, s) ==
  IF HitIn(C, s) > 0 THEN C[HitIn(C, s)].data
  ELSE LET Holders == {p \in Proc : M[p].victim # None /\ M[p].victim.sector = s}
       IN  IF Holders # {} THEN M[CHOOSE p \in Holders : TRUE].victim.data ELSE D[s]

LEMMA LogicalDef ==
  /\ \A s : Logical(s) = LogicalOf(cache, miss, disk, s)
  /\ \A s : Logical(s)' = LogicalOf(cache', miss', disk', s)
  /\ \A s : InCache(s) <=> HitIn(cache, s) > 0
  /\ \A s : InCache(s)' <=> HitIn(cache', s) > 0
<1>1. \A s : Hit(s) = HitIn(cache, s)
  BY DEF Hit, HitIn
<1>2. \A s : Hit(s)' = HitIn(cache', s)
  BY DEF Hit, HitIn, SelectInSeq
<1>3. \A s : Logical(s) = LogicalOf(cache, miss, disk, s)
  BY <1>1 DEF Logical, LogicalOf, InCache
<1>4. \A s : Logical(s)' = LogicalOf(cache', miss', disk', s)
  BY <1>2 DEF Logical, LogicalOf, InCache
<1>5. \A s : InCache(s) <=> HitIn(cache, s) > 0
  BY <1>1 DEF InCache
<1>6. \A s : InCache(s)' <=> HitIn(cache', s) > 0
  BY <1>2 DEF InCache
<1> QED
  BY <1>3, <1>4, <1>5, <1>6

LEMMA OneView ==
  ASSUME NEW C, NEW M, NEW D, NEW p \in Proc, \A q \in Proc \ {p} : M[q].victim = None
  PROVE  \A s : LogicalOf(C, M, D, s) = View(C, M[p].victim, D, s)
<1> SUFFICES ASSUME NEW s PROVE LogicalOf(C, M, D, s) = View(C, M[p].victim, D, s)
  OBVIOUS
<1> DEFINE H == {q \in Proc : M[q].victim # None /\ M[q].victim.sector = s}
<1>1. CASE M[p].victim # None /\ M[p].victim.sector = s
  <2>1. H = {p}
    BY <1>1
  <2>2. (CHOOSE q \in H : TRUE) = p
    BY <2>1
  <2> QED
    BY <1>1, <2>1, <2>2 DEF LogicalOf, View
<1>2. CASE ~(M[p].victim # None /\ M[p].victim.sector = s)
  <2>1. H = {}
    BY <1>2
  <2> QED
    BY <1>2, <2>1 DEF LogicalOf, View
<1> QED
  BY <1>1, <1>2

LEMMA NoneIsNoBlock == None \notin CachedBlocks
BY NoneAssumption DEF CachedBlocks, Sector, MapData, RootData

\* What is known of the cache between steps.
LEMMA CacheNow ==
  ASSUME NEW p \in Proc, Plans, Turn(p), CacheRight(p)
  PROVE  /\ cache \in Lists /\ Len(cache) \in 0 .. CacheSize
         /\ \A s : Logical(s) = View(cache, miss[p].victim, disk, s)
         /\ \A s : InCache(s) <=> In(cache, s)
         /\ miss[p] \in Misses
         /\ ~miss[p].yes => miss[p].victim = None
<1>1. cache \in Lists /\ Len(cache) \in 0 .. CacheSize
  BY FilesAssumption DEF CacheRight, Lists
<1>2. \A q \in Proc \ {p} : miss[q].victim = None
  BY DEF Turn, NoMiss
<1>3. \A s : Logical(s) = View(cache, miss[p].victim, disk, s)
  BY <1>2, LogicalDef, OneView
<1>4. \A s : InCache(s) <=> In(cache, s)
  BY <1>1, LogicalDef, HitOf
<1>5. miss[p] \in Misses
  BY DEF Plans
<1> QED
  BY <1>1, <1>3, <1>4, <1>5 DEF CacheRight

\* What a step by p that leaves the other processes' misses alone makes of the cache.
LEMMA CacheThen ==
  ASSUME NEW p \in Proc, Plans, Turn(p), NEW m \in Misses, miss' = [miss EXCEPT ![p] = m],
         cache' \in Lists
  PROVE  /\ miss' \in [Proc -> Misses] /\ miss'[p] = m
         /\ \A q \in Proc \ {p} : miss'[q] = miss[q] /\ miss'[q].victim = None
         /\ \A s : Logical(s)' = View(cache', m.victim, disk', s)
         /\ \A s : InCache(s)' <=> In(cache', s)
<1>1. miss \in [Proc -> Misses]
  BY DEF Plans
<1>2. miss' \in [Proc -> Misses] /\ miss'[p] = m /\ \A q \in Proc \ {p} : miss'[q] = miss[q]
  BY <1>1
<1>3. \A q \in Proc \ {p} : miss'[q].victim = None
  BY <1>2 DEF Turn, NoMiss
<1>4. \A s : Logical(s)' = View(cache', m.victim, disk', s)
  <2> DEFINE C == cache'
  <2> DEFINE M == miss'
  <2> DEFINE D == disk'
  <2>1. \A q \in Proc \ {p} : M[q].victim = None
    BY <1>3
  <2>2. M[p].victim = m.victim
    BY <1>2
  <2>3. \A s : Logical(s)' = LogicalOf(C, M, D, s)
    BY LogicalDef
  <2> HIDE DEF C, M, D
  <2>4. \A s : LogicalOf(C, M, D, s) = View(C, M[p].victim, D, s)
    BY <2>1, OneView
  <2>5. \A s : Logical(s)' = View(C, m.victim, D, s)
    BY <2>2, <2>3, <2>4
  <2> QED
    BY <2>5 DEF C, D
<1>5. \A s : InCache(s)' <=> In(cache', s)
  BY LogicalDef, HitOf
<1> QED
  BY <1>2, <1>3, <1>4, <1>5

\* The sector a task gets through the cache is one that is cached.
Cachable == {MapData, RootData} \cup FileSector

LEMMA OnMiss ==
  ASSUME NEW p \in Proc, Plans, Turn(p), CacheRight(p), Miss(p), Wants(p)' = Wants(p)
  PROVE  /\ miss' \in [Proc -> Misses] /\ \A q \in Proc \ {p} : miss'[q] = miss[q]
         /\ cache' \in Lists /\ Len(cache') < CacheSize
         /\ miss'[p].victim # None => /\ miss'[p].yes /\ ~In(cache', miss'[p].victim.sector)
                                      /\ miss'[p].victim.sector # Wants(p)
         /\ miss'[p].yes => ~InCache(Wants(p))' /\ Wants(p) # None
         /\ \A s : Logical(s)' = Logical(s)
         /\ \A s : Caught(p, s)' => Caught(p, s)
<1> DEFINE full == Len(cache) >= CacheSize
<1> DEFINE v == IF full THEN Head(cache) ELSE None
<1> DEFINE m == [yes |-> TRUE, victim |-> v]
<1>1. /\ Wants(p) # None /\ ~miss[p].yes /\ ~InCache(Wants(p))
      /\ miss' = [miss EXCEPT ![p] = m] /\ disk' = disk
      /\ cache' = IF full THEN Tail(cache) ELSE cache
  BY DEF Miss
<1>2. /\ cache \in Lists /\ Len(cache) \in 0 .. CacheSize
      /\ \A s : Logical(s) = View(cache, miss[p].victim, disk, s)
      /\ \A s : InCache(s) <=> In(cache, s)
      /\ miss[p].victim = None
  BY <1>1, CacheNow
<1>3. full => cache # <<>>
  BY <1>2, FilesAssumption DEF Lists
<1>4. cache' \in Lists /\ Len(cache') < CacheSize
  BY <1>1, <1>2, <1>3, ViewTake, FilesAssumption
<1>5. m \in Misses /\ (v # None => v \in CachedBlocks /\ full)
  BY <1>2, <1>3, ViewTake DEF Misses
<1>6. /\ miss' \in [Proc -> Misses] /\ miss'[p] = m
      /\ \A q \in Proc \ {p} : miss'[q] = miss[q]
      /\ \A s : Logical(s)' = View(cache', v, disk', s)
      /\ \A s : InCache(s)' <=> In(cache', s)
  <2>1. m.victim = v
    OBVIOUS
  <2> HIDE DEF m, v
  <2> QED
    BY <1>1, <1>4, <1>5, <2>1, CacheThen, ZenonT(60)
<1>7. \A s : Logical(s)' = Logical(s)
  <2>1. CASE full
    <3>1. v = Head(cache) /\ v # None /\ cache' = Tail(cache)
      BY <2>1, <1>1, <1>2, <1>3, ViewTake, NoneIsNoBlock
    <3> QED
      BY <3>1, <1>1, <1>2, <1>3, <1>6, <2>1, ViewTake
  <2>2. CASE ~full
    BY <2>2, <1>1, <1>2, <1>6
  <2> QED
    BY <2>1, <2>2
<1>8. v # None => ~In(cache', v.sector) /\ In(cache, v.sector)
  BY <1>1, <1>2, <1>3, ViewTake
<1>9. \A s : In(cache', s) => In(cache, s)
  BY <1>1, <1>2, <1>3, ViewTake
<1>10. miss'[p].victim = v /\ miss'[p].yes = TRUE
  BY <1>6
<1> HIDE DEF m, v, full
<1>11. \A s : Caught(p, s)' => Caught(p, s)
  BY <1>2, <1>6, <1>8, <1>9, <1>10 DEF Caught
<1> QED
  BY <1>1, <1>2, <1>4, <1>6, <1>7, <1>8, <1>9, <1>10, <1>11

LEMMA OnEvict ==
  ASSUME NEW p \in Proc, Plans, Turn(p), CacheRight(p), DiskRight, Evict(p)
  PROVE  /\ miss' \in [Proc -> Misses] /\ \A q \in Proc \ {p} : miss'[q] = miss[q]
         /\ cache' = cache /\ miss'[p].victim = None /\ miss'[p].yes = miss[p].yes
         /\ \A s : Logical(s)' = Logical(s)
         /\ \A s : Caught(p, s)' => Caught(p, s)
         /\ \E e \in CachedBlocks : /\ Caught(p, e.sector) /\ e.data = Logical(e.sector)
                                    /\ disk' = [disk EXCEPT ![e.sector] = e.data]
<1> DEFINE e == miss[p].victim
<1> DEFINE m == [miss[p] EXCEPT !.victim = None]
<1>1. e # None /\ disk' = [disk EXCEPT ![e.sector] = e.data] /\ cache' = cache
      /\ miss' = [miss EXCEPT ![p].victim = None]
  BY DEF Evict
<1>2. /\ cache \in Lists
      /\ \A s : Logical(s) = View(cache, e, disk, s)
      /\ \A s : InCache(s) <=> In(cache, s)
      /\ miss[p] \in Misses
  BY CacheNow
<1>3. e \in CachedBlocks /\ m \in Misses /\ m.victim = None /\ m.yes = miss[p].yes
  BY <1>1, <1>2 DEF Misses
<1>4. miss' = [miss EXCEPT ![p] = m]
  BY <1>1 DEF Plans
<1>5. ~In(cache, e.sector)
  BY <1>1, <1>2 DEF CacheRight
<1>6. e.sector \in DOMAIN disk
  BY <1>3 DEF DiskRight, CachedBlocks, Sector, MapData, RootData
<1>7. Caught(p, e.sector)
  BY <1>1 DEF Caught
<1>11. e.data = Logical(e.sector)
  BY <1>1, <1>2, <1>5, HitOf DEF View
<1> HIDE DEF e, m
<1>8. /\ miss' \in [Proc -> Misses] /\ miss'[p] = m
      /\ \A q \in Proc \ {p} : miss'[q] = miss[q]
      /\ \A s : Logical(s)' = View(cache', None, disk', s)
      /\ \A s : InCache(s)' <=> In(cache', s)
  <2>1. cache' \in Lists /\ m \in Misses
    BY <1>1, <1>2, <1>3
  <2>2. \A s : Logical(s)' = View(cache', m.victim, disk', s)
    BY <2>1, <1>4, CacheThen
  <2> QED
    BY <2>1, <2>2, <1>3, <1>4, CacheThen
<1>9. \A s : Logical(s)' = Logical(s)
  <2>1. \A s : View(cache, None, disk', s) = View(cache, e, disk, s)
    BY <1>1, <1>2, <1>5, <1>6, ViewDone
  <2> QED
    BY <2>1, <1>1, <1>2, <1>8
<1>10. \A s : Caught(p, s)' => Caught(p, s)
  BY <1>1, <1>2, <1>3, <1>8 DEF Caught
<1> QED
  BY <1>1, <1>3, <1>7, <1>8, <1>9, <1>10, <1>11

\* The entry an access gets, and the cache with it.
LEMMA OnAccess ==
  ASSUME NEW p \in Proc, Plans, Turn(p), CacheRight(p), DiskRight, Wants(p) \in Cachable,
         NEW c \in Accessed(p)
  PROVE  /\ c.list \in Lists /\ Len(c.list) \in 0 .. CacheSize
         /\ c.at \in 1 .. Len(c.list) /\ c.list[c.at].sector = Wants(p)
         /\ \A s : View(c.list, None, disk, s) = Logical(s)
         /\ \A s : In(c.list, s) => InCache(s) \/ s = Wants(p)
         /\ Old(c) = Logical(Wants(p)) /\ miss[p].victim = None
<1> DEFINE w == Wants(p)
<1>1. /\ cache \in Lists /\ Len(cache) \in 0 .. CacheSize
      /\ \A s : Logical(s) = View(cache, miss[p].victim, disk, s)
      /\ \A s : InCache(s) <=> In(cache, s)
      /\ ~miss[p].yes => miss[p].victim = None
  BY CacheNow
<1>2. disk[w] \in Contents /\ w # None
  BY NoneAssumption DEF DiskRight, Cachable, Sector, MapData, RootData
<1>3. CASE miss[p].yes
  <2>1. miss[p].victim = None /\ c = [list |-> Append(cache, Entry(w, disk[w])), at |-> Len(cache) + 1]
    BY <1>3 DEF Accessed
  <2>2. ~In(cache, w) /\ Len(cache) < CacheSize
    BY <1>1, <1>3 DEF CacheRight
  <2> DEFINE L == Append(cache, Entry(w, disk[w]))
  <2>3. /\ L \in Lists /\ Len(L) = Len(cache) + 1 /\ L[Len(cache) + 1] = Entry(w, disk[w])
        /\ \A s : In(L, s) <=> (In(cache, s) \/ s = w)
        /\ \A s : View(L, None, disk, s) = View(cache, None, disk, s)
        /\ View(cache, None, disk, w) = disk[w]
    BY <1>1, <1>2, <2>2, ViewAppend DEF Cachable
  <2> HIDE DEF L
  <2>4. c.list = L /\ c.at = Len(cache) + 1
    BY <2>1 DEF L
  <2>5. L[Len(cache) + 1].sector = w /\ L[Len(cache) + 1].data = disk[w]
    BY <2>3 DEF Entry
  <2>6. Len(L) \in 0 .. CacheSize /\ Len(cache) + 1 \in 1 .. Len(L)
    BY <1>1, <2>2, <2>3, FilesAssumption
  <2>7. Old(c) = Logical(w)
    BY <1>1, <2>1, <2>3, <2>4, <2>5 DEF Old
  <2> QED
    BY <1>1, <2>1, <2>3, <2>4, <2>5, <2>6, <2>7
<1>4. CASE ~miss[p].yes
  <2>1. c = [list |-> cache, at |-> Hit(w)] /\ InCache(w)
    BY <1>4 DEF Accessed
  <2>2. Hit(w) \in 1 .. Len(cache) /\ cache[Hit(w)].sector = w /\ Hit(w) = HitIn(cache, w)
        /\ HitIn(cache, w) > 0
    <3>1. Hit(w) = HitIn(cache, w)
      BY DEF Hit, HitIn
    <3> QED
      BY <3>1, <2>1, <1>1, LogicalDef, HitOf
  <2>3. Old(c) = Logical(w)
    BY <2>1, <2>2, <1>1, <1>4 DEF Old, View
  <2> QED
    BY <2>1, <2>2, <2>3, <1>1, <1>4
<1> QED
  BY <1>3, <1>4

LEMMA OnFetch ==
  ASSUME NEW p \in Proc, Plans, Turn(p), CacheRight(p), DiskRight, Wants(p) \in Cachable,
         NEW c \in Accessed(p), Fetched(p, c), disk' = disk
  PROVE  /\ miss' \in [Proc -> Misses] /\ \A q \in Proc \ {p} : miss'[q] = miss[q]
         /\ CacheRight(p)' /\ miss'[p] = NoMiss
         /\ \A s : Logical(s)' = Logical(s)
         /\ \A s : Caught(p, s)' => Caught(p, s) \/ s = Wants(p)
         /\ Old(c) = Logical(Wants(p))
<1>1. /\ c.list \in Lists /\ Len(c.list) \in 0 .. CacheSize
      /\ \A s : View(c.list, None, disk, s) = Logical(s)
      /\ \A s : In(c.list, s) => InCache(s) \/ s = Wants(p)
      /\ Old(c) = Logical(Wants(p))
  BY OnAccess
<1>2. cache' = c.list /\ miss' = [miss EXCEPT ![p] = NoMiss]
  BY DEF Fetched
<1>3. NoMiss \in Misses /\ NoMiss.victim = None /\ ~NoMiss.yes
  BY DEF NoMiss, Misses
<1>4. /\ miss' \in [Proc -> Misses] /\ miss'[p] = NoMiss
      /\ \A q \in Proc \ {p} : miss'[q] = miss[q]
      /\ \A s : Logical(s)' = View(cache', None, disk', s)
      /\ \A s : InCache(s)' <=> In(cache', s)
  BY <1>1, <1>2, <1>3, CacheThen
<1>5. CacheRight(p)'
  BY <1>1, <1>2, <1>3, <1>4, FilesAssumption DEF CacheRight, Lists
<1>6. \A s : Caught(p, s)' => Caught(p, s) \/ s = Wants(p)
  BY <1>1, <1>2, <1>3, <1>4 DEF Caught
<1> QED
  BY <1>1, <1>2, <1>4, <1>5, <1>6

LEMMA OnStore ==
  ASSUME NEW p \in Proc, Plans, Turn(p), CacheRight(p), DiskRight, Wants(p) \in Cachable,
         NEW c \in Accessed(p), NEW d \in Contents, Stored(p, c, d), disk' = disk
  PROVE  /\ miss' \in [Proc -> Misses] /\ \A q \in Proc \ {p} : miss'[q] = miss[q]
         /\ CacheRight(p)' /\ miss'[p] = NoMiss
         /\ \A s : s # Wants(p) => Logical(s)' = Logical(s)
         /\ LogicalOf(cache', miss', disk', Wants(p)) = d
         /\ \A s : Caught(p, s)' => Caught(p, s) \/ s = Wants(p)
         /\ Old(c) = Logical(Wants(p))
<1>1. /\ c.list \in Lists /\ Len(c.list) \in 0 .. CacheSize
      /\ c.at \in 1 .. Len(c.list) /\ c.list[c.at].sector = Wants(p)
      /\ \A s : View(c.list, None, disk, s) = Logical(s)
      /\ \A s : In(c.list, s) => InCache(s) \/ s = Wants(p)
      /\ Old(c) = Logical(Wants(p))
  BY OnAccess
<1>2. cache' = [c.list EXCEPT ![c.at].data = d] /\ miss' = [miss EXCEPT ![p] = NoMiss]
  BY DEF Stored
<1>3. NoMiss \in Misses /\ NoMiss.victim = None /\ ~NoMiss.yes
  BY DEF NoMiss, Misses
<1>4. /\ cache' \in Lists /\ Len(cache') = Len(c.list)
      /\ \A s : In(cache', s) <=> In(c.list, s)
      /\ \A s : s # Wants(p) => View(cache', None, disk, s) = View(c.list, None, disk, s)
      /\ View(cache', None, disk, Wants(p)) = d
  <2> DEFINE C == c.list
  <2> DEFINE k == c.at
  <2> DEFINE w == Wants(p)
  <2>1. C \in Lists /\ k \in 1 .. Len(C) /\ C[k].sector = w /\ cache' = [C EXCEPT ![k].data = d]
    BY <1>1, <1>2
  <2> HIDE DEF C, k, w
  <2>2. /\ cache' \in Lists /\ Len(cache') = Len(C)
        /\ \A s : In(cache', s) <=> In(C, s)
        /\ \A s : s # C[k].sector => View(cache', None, disk, s) = View(C, None, disk, s)
        /\ View(cache', None, disk, C[k].sector) = d
    <3> DEFINE L == cache'
    <3>0. /\ C \in Seq(CachedBlocks) /\ Len(C) \in Nat /\ C[k] \in CachedBlocks
          /\ L = [C EXCEPT ![k].data = d]
      BY <2>1 DEF Lists
    <3>3. [C[k] EXCEPT !.data = d] \in CachedBlocks /\ [C[k] EXCEPT !.data = d].sector = C[k].sector
          /\ [C[k] EXCEPT !.data = d].data = d
      BY <3>0 DEF CachedBlocks
    <3>4. L \in Seq(CachedBlocks) /\ Len(L) = Len(C) /\ L[k] = [C[k] EXCEPT !.data = d]
          /\ \A i \in 1 .. Len(C) : i # k => L[i] = C[i]
      BY <3>0, <3>3, <2>1
    <3>1. L[k].sector = C[k].sector /\ L[k].data = d
      BY <3>3, <3>4
    <3> HIDE DEF L
    <3>2. /\ L \in Lists /\ Len(L) = Len(C)
          /\ \A s : In(L, s) <=> In(C, s)
          /\ \A s : s # C[k].sector => View(L, None, disk, s) = View(C, None, disk, s)
          /\ View(L, None, disk, C[k].sector) = d
      <4>1. \A i \in 1 .. Len(C) : i # k => L[i] = C[i]
        BY <3>4
      <4>2. L \in Seq(CachedBlocks) /\ Len(L) = Len(C) /\ C \in Lists /\ k \in 1 .. Len(C)
        BY <3>4, <2>1
      <4>3. /\ L \in Lists /\ Len(L) = Len(C)
            /\ \A s : In(L, s) <=> In(C, s)
        BY <3>1, <4>1, <4>2, ViewStore, SMTT(30)
      <4>4. \A s : s # C[k].sector => View(L, None, disk, s) = View(C, None, disk, s)
        BY <3>1, <4>1, <4>2, ViewStore
      <4>5. View(L, None, disk, C[k].sector) = d
        BY <3>1, <4>1, <4>2, ViewStore
      <4> QED
        BY <4>3, <4>4, <4>5
    <3> QED
      BY <3>2 DEF L
  <2> QED
    BY <2>1, <2>2 DEF C, k, w
<1>5. /\ miss' \in [Proc -> Misses] /\ miss'[p] = NoMiss
      /\ \A q \in Proc \ {p} : miss'[q] = miss[q]
      /\ \A s : Logical(s)' = View(cache', None, disk', s)
      /\ \A s : InCache(s)' <=> In(cache', s)
  BY <1>2, <1>3, <1>4, CacheThen, ZenonT(60)
<1>6. CacheRight(p)'
  BY <1>1, <1>3, <1>4, <1>5, FilesAssumption DEF CacheRight, Lists
<1>7. \A s : Caught(p, s)' => Caught(p, s) \/ s = Wants(p)
  BY <1>1, <1>3, <1>4, <1>5 DEF Caught
<1>8. LogicalOf(cache', miss', disk', Wants(p)) = d
  <2>1. \A q \in Proc \ {p} : miss'[q].victim = None
    BY <1>5 DEF Turn, NoMiss
  <2>2. LogicalOf(cache', miss', disk', Wants(p)) = View(cache', None, disk', Wants(p))
    BY <2>1, <1>3, <1>5, OneView
  <2> QED
    BY <2>2, <1>4
<1> QED
  BY <1>1, <1>4, <1>5, <1>6, <1>7, <1>8

-----------------------------------------------------------------------------
\* What follows from the place of a task in a fitting plan.
LEMMA HeadOf ==
  ASSUME NEW T, Fit(T), T # <<>>
  PROVE  /\ T[1] \in Tasks /\ T[1].op \in Op /\ T[1].sector \in Sector /\ Meant(T[1])
         /\ Tail(T) \in Seq(Tasks) /\ Fit(Tail(T)) /\ T = <<T[1]>> \o Tail(T) /\ Head(T) = T[1]
         /\ \A ops : Has(T, ops) <=> (T[1].op \in ops \/ Has(Tail(T), ops))
         /\ \A ops, f : HasOn(T, ops, f) <=>
                          ((T[1].op \in ops /\ T[1].sector = f) \/ HasOn(Tail(T), ops, f))
         /\ RegHeld(T) <=> (T[1].op # "lookup" /\ (T[1].op \in Naming \/ RegHeld(Tail(T))))
         /\ RootOpen(T) <=> (~OpenRoot(T[1]) /\ (CloseRoot(T[1]) \/ RootOpen(Tail(T))))
<1>1. T \in Seq(Tasks)
  BY DEF Fit
<1>2. T = <<T[1]>> \o Tail(T) /\ T[1] \in Tasks /\ Tail(T) \in Seq(Tasks)
  BY <1>1, Split
<1>3. Fit(Tail(T)) /\ Meant(T[1]) /\ Head(T) = T[1]
  BY FitRest
<1> DEFINE a == T[1]
<1> DEFINE R == Tail(T)
<1>4. a \in Tasks /\ R \in Seq(Tasks) /\ T = <<a>> \o R
  BY <1>2
<1>5. T[1].op \in Op /\ T[1].sector \in Sector
  BY <1>2 DEF Tasks
<1> HIDE DEF a, R
<1>6. /\ \A ops : Has(T, ops) <=> (a.op \in ops \/ Has(R, ops))
      /\ \A ops, f : HasOn(T, ops, f) <=>
                          ((a.op \in ops /\ a.sector = f) \/ HasOn(R, ops, f))
      /\ RegHeld(T) <=> (a.op # "lookup" /\ (a.op \in Naming \/ RegHeld(R)))
      /\ RootOpen(T) <=> (~OpenRoot(a) /\ (CloseRoot(a) \/ RootOpen(R)))
  BY <1>4, OnCons
<1> QED
  BY <1>2, <1>3, <1>5, <1>6 DEF a, R

\* Nothing is pending in an empty plan.
LEMMA NothingIn ==
  /\ \A ops : ~Has(<<>>, ops)
  /\ \A ops, f : ~HasOn(<<>>, ops, f)
  /\ ~RegHeld(<<>>) /\ ~RootOpen(<<>>)
  /\ \A ops : ~AtHead(<<>>, ops)
  /\ \A op, f : ~AtHeadOn(<<>>, op, f)
BY DEF Has, HasOn, RegHeld, RootOpen, AtHead, AtHeadOn

\* HasOn is a Has.
LEMMA HasOnHas ==
  ASSUME NEW T, NEW ops, NEW f, HasOn(T, ops, f)
  PROVE  Has(T, ops)
BY DEF Has, HasOn

\* What the head of a plan says of the tasks after it.
LEMMA NotLater ==
  ASSUME NEW T, Fit(T), T # <<>>, NEW ops, \A b \in Tasks : b.op \in ops => ~MayPrecede(T[1], b)
  PROVE  ~Has(Tail(T), ops) /\ \A f : ~HasOn(Tail(T), ops, f)
<1>1. \A j \in 1 .. Len(Tail(T)) : MayPrecede(T[1], Tail(T)[j]) /\ Tail(T)[j] \in Tasks
  BY FitRest DEF Fit
<1>2. ~Has(Tail(T), ops)
  BY <1>1 DEF Has
<1> QED
  BY <1>2, HasOnHas

\* A call that wants nothing or waits for filesys_lock has done nothing yet.
LEMMA QuietPlan ==
  ASSUME NEW T, Fit(T), T = <<>> \/ T[1].op = "lock"
  PROVE  /\ \A ops : ops \cap {"lock", "read", "write", "unlock"} = {} =>
              ~Has(T, ops) /\ ~AtHead(T, ops) /\ \A f : ~HasOn(T, ops, f)
         /\ \A op, f : op \notin {"lock", "read", "write", "unlock"} => ~AtHeadOn(T, op, f)
         /\ ~RegHeld(T) /\ ~RootOpen(T)
<1>1. CASE T = <<>>
  BY <1>1, NothingIn
<1>2. CASE T # <<>>
  <2>1. T \in Seq(Tasks) /\ Len(T) = 3 /\ T[1].op = "lock" /\ T[3].op = "unlock"
        /\ T[2].op \in {"read", "write"}
    <3>1. Len(T) = 3 /\ T[1].op = "lock" /\ T[3].op = "unlock" /\ T \in Seq(Tasks)
      BY <1>2 DEF Fit, Paired
    <3>2. 1 \in 1 .. Len(T) /\ 1 < Len(T)
      BY <3>1
    <3>3. MayFollow(T[1], T[1 + 1])
      BY <3>2 DEF Fit, Chained
    <3> QED
      BY <3>1, <3>3 DEF MayFollow
  <2>2. \A i \in 1 .. Len(T) : T[i].op \in {"lock", "read", "write", "unlock"}
    <3>1. \A i \in 1 .. Len(T) : i = 1 \/ i = 2 \/ i = 3
      BY <2>1
    <3> QED
      BY <3>1, <2>1
  <2>3. ~RegHeld(T) /\ ~RootOpen(T)
    BY <2>2 DEF RegHeld, RootOpen, Naming, CloseRoot
  <2>4. T[1].op = "lock"
    BY <2>1
  <2>5. ASSUME NEW ops, ops \cap {"lock", "read", "write", "unlock"} = {}
        PROVE  ~Has(T, ops) /\ ~AtHead(T, ops) /\ \A f : ~HasOn(T, ops, f)
    <3>1. ~Has(T, ops)
      BY <2>2, <2>5 DEF Has
    <3>2. \A f : ~HasOn(T, ops, f)
      BY <3>1, HasOnHas
    <3> QED
      BY <3>1, <3>2, <2>4, <2>5 DEF AtHead
  <2> QED
    BY <2>3, <2>4, <2>5 DEF AtHeadOn
<1> QED
  BY <1>1, <1>2


\* A call that writes to a file has filesys_lock; one that reads has it too, or
\* is about to close the file.
LEMMA DataPlan ==
  ASSUME NEW T, Fit(T), T # <<>>, T[1].op \in DataOps
  PROVE  /\ T[1].op \notin {"read", "readat"} => Has(T, {"unlock"})
         /\ T[1].op \in {"read", "readat"} =>
              Has(T, {"unlock"}) \/ HasOn(T, {"close"}, T[1].sector)
<1> DEFINE n == Len(T)
<1>1. /\ T \in Seq(Tasks) /\ n \in Nat \ {0}
      /\ \A i \in 1 .. n : i < n => MayFollow(T[i], T[i + 1])
      /\ MayEnd(T[n]) /\ Paired(T) /\ 1 \in 1 .. n
  <2>1. T \in Seq(Tasks) /\ Chained(T) /\ Paired(T)
    BY DEF Fit
  <2>2. n \in Nat \ {0}
    BY <2>1, TailOf
  <2> QED
    BY <2>1, <2>2 DEF Chained
<1> HIDE DEF n
<1>2. \A i \in 1 .. n : T[i].op \in {"put", "write"} => i < n /\ i + 1 \in 1 .. n /\ T[i + 1].op = "unlock"
  <2> SUFFICES ASSUME NEW i \in 1 .. n, T[i].op \in {"put", "write"}
               PROVE  i < n /\ i + 1 \in 1 .. n /\ T[i + 1].op = "unlock"
    OBVIOUS
  <2>1. i # n
    BY <1>1 DEF MayEnd
  <2>2. i < n /\ i + 1 \in 1 .. n
    BY <2>1, <1>1
  <2>3. MayFollow(T[i], T[i + 1])
    BY <2>2, <1>1
  <2> QED
    BY <2>2, <2>3 DEF MayFollow
<1>3. \A i \in 1 .. n : T[i].op \in {"setlength", "writeinode"} =>
                          i + 1 \in 1 .. n /\ T[i + 1].op = "put"
  <2> SUFFICES ASSUME NEW i \in 1 .. n, T[i].op \in {"setlength", "writeinode"}
               PROVE  i + 1 \in 1 .. n /\ T[i + 1].op = "put"
    OBVIOUS
  <2>1. i # n
    BY <1>1 DEF MayEnd
  <2>2. i < n /\ i + 1 \in 1 .. n
    BY <2>1, <1>1
  <2>3. MayFollow(T[i], T[i + 1])
    BY <2>2, <1>1
  <2> QED
    BY <2>2, <2>3 DEF MayFollow
<1>4. \A i \in 1 .. n : T[i].op \in {"put", "write", "setlength", "writeinode"} => Has(T, {"unlock"})
  BY <1>2, <1>3 DEF Has, n
<1>5. ASSUME T[1].op = "grow" PROVE Has(T, {"unlock"})
  BY <1>4, <1>5, <1>1 DEF Paired, n
<1>6. ASSUME T[1].op \in {"read", "readat"}
      PROVE  Has(T, {"unlock"}) \/ HasOn(T, {"close"}, T[1].sector)
  <2>1. 1 # n
    BY <1>1, <1>6 DEF MayEnd
  <2>2. 1 < n /\ 1 + 1 \in 1 .. n
    BY <2>1, <1>1
  <2>3. MayFollow(T[1], T[1 + 1])
    BY <2>2, <1>1
  <2>4. T[1 + 1].op = "unlock" \/ (T[1 + 1].op = "close" /\ T[1 + 1].sector = T[1].sector)
    BY <2>3, <1>6 DEF MayFollow
  <2> QED
    BY <2>2, <2>4 DEF Has, HasOn, n
<1> QED
  BY <1>1, <1>4, <1>5, <1>6 DEF DataOps

\* The file whose blocks a call is at work on is open and has been read.
LEMMA FileOpen ==
  ASSUME NEW p \in Proc, Plans, HandleTypes, Counted(p), LoadedRight(p),
         todo[p] # <<>>, todo[p][1].op \in DataOps
  PROVE  /\ todo[p][1].sector \in FileSector
         /\ inode[todo[p][1].sector].cnt > 0 /\ inode[todo[p][1].sector].loaded
<1> DEFINE T == todo[p]
<1> DEFINE f == T[1].sector
<1>1. Fit(T) /\ T # <<>> /\ Meant(T[1]) /\ T \in Seq(Tasks)
  BY FitRest DEF Plans
<1>2. f \in FileSector
  BY <1>1 DEF Meant, DataOps
<1>3. 1 \in 1 .. Len(T)
  BY <1>1, TailOf
<1>4. IsFiniteSet(Executing(f)) /\ IsFiniteSet(Opened(f))
  BY FilesAssumption, FS_Subset DEF Executing, Opened
<1>5. /\ leaked[f] \in Nat /\ Cardinality(Executing(f)) \in Nat /\ Cardinality(Opened(f)) \in Nat
      /\ inode[f].cnt = leaked[f] + Cardinality(Executing(f)) + Cardinality(Opened(f))
                      + (IF Held(p, f) THEN 1 ELSE 0)
  BY <1>2, <1>4, FS_CardinalityType DEF Counted, HandleTypes
<1>6. inode[f].cnt > 0
  <2>1. CASE Has(T, {"unlock"})
    <3>1. fd[p] # None /\ f = fd[p].sector
      BY <2>1, <1>3 DEF Plans
    <3>2. p \in Opened(f)
      BY <3>1 DEF Opened
    <3>3. Cardinality(Opened(f)) # 0
      BY <3>2, <1>4, FS_EmptySet
    <3> QED
      BY <3>3, <1>5
  <2>2. CASE HasOn(T, {"close"}, f)
    <3>1. ~AtHeadOn(T, "open", f)
      BY DEF AtHeadOn, DataOps
    <3>2. Held(p, f)
      BY <3>1, <2>2 DEF Held
    <3> QED
      BY <3>2, <1>5
  <2> QED
    BY <2>1, <2>2, <1>1, DataPlan
<1>7. inode[f].loaded
  BY <1>2, <1>6 DEF LoadedRight, AtHeadOn, DataOps
<1> QED
  BY <1>2, <1>6, <1>7

-----------------------------------------------------------------------------
\* While nothing is under way any process may be the one.
LEMMA QuietFacts ==
  ASSUME NEW p \in Proc, Plans, CacheRight(p), Quiet(p)
  PROVE  /\ \A ops : ops \cap {"lock", "read", "write", "unlock"} = {} =>
              ~Has(todo[p], ops) /\ ~AtHead(todo[p], ops) /\ \A f : ~HasOn(todo[p], ops, f)
         /\ \A op, f : op \notin {"lock", "read", "write", "unlock"} => ~AtHeadOn(todo[p], op, f)
         /\ ~RegHeld(todo[p]) /\ ~RootOpen(todo[p])
         /\ \A f : ~Held(p, f) /\ ~Growing(p, f) /\ ~Writing(p, f)
         /\ Made(p) = {} /\ ToGive(p) = {}
         /\ miss[p] = NoMiss
         /\ \A s : Caught(p, s) <=> InCache(s)
         /\ \A i \in 1 .. Len(todo[p]) : todo[p][i].op \in {"lock", "read", "write", "unlock"}
<1>1. Fit(todo[p]) /\ todo[p] \in Seq(Tasks)
  BY DEF Plans, Fit
<1>2. todo[p] = <<>> \/ todo[p][1].op = "lock"
  BY DEF Quiet
<1>3. /\ \A ops : ops \cap {"lock", "read", "write", "unlock"} = {} =>
              ~Has(todo[p], ops) /\ ~AtHead(todo[p], ops) /\ \A f : ~HasOn(todo[p], ops, f)
      /\ \A op, f : op \notin {"lock", "read", "write", "unlock"} => ~AtHeadOn(todo[p], op, f)
      /\ ~RegHeld(todo[p]) /\ ~RootOpen(todo[p])
  BY <1>1, <1>2, QuietPlan
<1>4. \A f : ~Held(p, f) /\ ~Growing(p, f) /\ ~Writing(p, f)
  BY <1>3 DEF Held, Growing, Writing
<1>5. Made(p) = {} /\ ToGive(p) = {}
  BY <1>3 DEF Made, ToGive, Making
<1>6. miss[p] = NoMiss
  <2>1. miss[p] \in Misses
    BY DEF Plans
  <2>2. miss[p].yes = FALSE /\ miss[p].victim = None
    BY <2>1 DEF CacheRight, Misses
  <2> QED
    BY <2>1, <2>2 DEF Misses, NoMiss
<1>7. \A s : Caught(p, s) <=> InCache(s)
  BY <1>6 DEF Caught, NoMiss
<1>8. \A i \in 1 .. Len(todo[p]) : todo[p][i].op \in {"lock", "read", "write", "unlock"}
  <2>1. ~Has(todo[p], Op \ {"lock", "read", "write", "unlock"})
    BY <1>3
  <2>2. \A i \in 1 .. Len(todo[p]) : todo[p][i].op \in Op
    <3>1. \A a \in Tasks : a.op \in Op
      BY DEF Tasks
    <3>2. \A i \in 1 .. Len(todo[p]) : todo[p][i] \in Tasks
      BY <1>1
    <3> QED
      BY <3>1, <3>2
  <2> QED
    BY <2>1, <2>2 DEF Has
<1> QED
  BY <1>3, <1>4, <1>5, <1>6, <1>7, <1>8

LEMMA Refocus ==
  ASSUME NEW p \in Proc, NEW q \in Proc, Focus(p), Quiet(p), Quiet(q)
  PROVE  Focus(q)
<1> SUFFICES ASSUME q # p PROVE Focus(q)
  OBVIOUS
<1>1. /\ Plans /\ Turn(p) /\ CacheRight(p) /\ DiskRight /\ SystemData(p)
      /\ HandleTypes /\ SystemInodes(p) /\ Counted(p) /\ Unnamed /\ LoadedRight(p)
      /\ InodesRight(p) /\ OwnersRight(p) /\ NewRight(p) /\ NamesRight(p) /\ DataRight(p)
      /\ OffRight(p)
  BY DEF Focus
<1>2. miss[q] = NoMiss
  BY <1>1 DEF Turn
<1>3. CacheRight(q)
  BY <1>1, <1>2 DEF CacheRight, NoMiss
<1>4. /\ \A ops : ops \cap {"lock", "read", "write", "unlock"} = {} =>
              ~Has(todo[p], ops) /\ ~AtHead(todo[p], ops) /\ \A f : ~HasOn(todo[p], ops, f)
      /\ \A op, f : op \notin {"lock", "read", "write", "unlock"} => ~AtHeadOn(todo[p], op, f)
      /\ ~RegHeld(todo[p]) /\ ~RootOpen(todo[p])
      /\ \A f : ~Held(p, f) /\ ~Growing(p, f) /\ ~Writing(p, f)
      /\ Made(p) = {} /\ ToGive(p) = {}
      /\ miss[p] = NoMiss
      /\ \A s : Caught(p, s) <=> InCache(s)
  BY <1>1, QuietFacts
<1>5. /\ \A ops : ops \cap {"lock", "read", "write", "unlock"} = {} =>
              ~Has(todo[q], ops) /\ ~AtHead(todo[q], ops) /\ \A f : ~HasOn(todo[q], ops, f)
      /\ \A op, f : op \notin {"lock", "read", "write", "unlock"} => ~AtHeadOn(todo[q], op, f)
      /\ ~RegHeld(todo[q]) /\ ~RootOpen(todo[q])
      /\ \A f : ~Held(q, f) /\ ~Growing(q, f) /\ ~Writing(q, f)
      /\ Made(q) = {} /\ ToGive(q) = {}
      /\ \A s : Caught(q, s) <=> InCache(s)
      /\ \A i \in 1 .. Len(todo[q]) : todo[q][i].op \in {"lock", "read", "write", "unlock"}
  BY <1>1, <1>3, QuietFacts
<1>6. Turn(q)
  BY <1>1, <1>4 DEF Turn
<1>7. SystemData(q)
  BY <1>1, <1>4, <1>5 DEF SystemData
<1>8. SystemInodes(q)
  BY <1>1, <1>4, <1>5 DEF SystemInodes
<1>9. Counted(q)
  BY <1>1, <1>4, <1>5 DEF Counted
<1>10. LoadedRight(q)
  <2>1. ~AtHead(todo[q], {"load"})
    BY <1>5
  <2> QED
    BY <2>1, <1>1, <1>4, <1>5 DEF LoadedRight
<1>11. InodesRight(q)
  <2>1. ASSUME NEW f \in File PROVE FileRight(q, f)
    BY <1>1, <1>4, <1>5 DEF InodesRight, FileRight
  <2> QED
    BY <2>1 DEF InodesRight
<1>12. OwnersRight(q)
  BY <1>1, <1>4, <1>5 DEF OwnersRight
<1>13. NewRight(q)
  <2>1. ~Has(todo[q], Making) /\ ~AtHead(todo[q], {"unique", "dirwrite"}) /\ ~Has(todo[q], {"create"})
        /\ \A f : ~HasOn(todo[q], {"zero"}, f)
    BY <1>5 DEF Making
  <2> QED
    BY <2>1 DEF NewRight
<1>14. NamesRight(q)
  <2>1. ~AtHead(todo[q], {"open"}) /\ ~Has(todo[q], {"deny"}) /\ ~Has(todo[q], {"newfd"})
    BY <1>5
  <2> QED
    BY <2>1, <1>5 DEF NamesRight
<1>15. DataRight(q)
  <2>1. ~AtHead(todo[q], {"readat"})
    BY <1>5
  <2> QED
    BY <2>1, <1>5 DEF DataRight
<1>16. OffRight(q)
  BY <1>1, <1>4 DEF OffRight
<1> QED
  BY <1>1, <1>3, <1>6, <1>7, <1>8, <1>9, <1>10, <1>11, <1>12, <1>13, <1>14, <1>15, <1>16 DEF Focus

-----------------------------------------------------------------------------
\* A step by p, part by part of the invariant: what it must leave alone for the
\* part to go on holding.
Moves(p, T) == /\ todo' = [todo EXCEPT ![p] = T] /\ Fit(T)
               /\ T # <<>> => T[1].op # "lock"
SameFds == \A q \in Proc : /\ fd'[q] = None <=> fd[q] = None
                           /\ fd[q] # None => fd'[q].sector = fd[q].sector

LEMMA KeepPlans ==
  ASSUME NEW p \in Proc, Plans, Turn(p), ~Quiet(p), NEW T, Moves(p, T),
         Has(T, {"unlock"}) <=> Has(todo[p], {"unlock"}),
         \A f : HasOn(T, DataOps, f) /\ Has(T, {"unlock"}) => HasOn(todo[p], DataOps, f),
         miss' \in [Proc -> Misses], \A q \in Proc \ {p} : miss'[q] = miss[q],
         reg' \in [Proc -> Seq(FileSector)], fsLock' = fsLock,
         \A q \in Proc : fd[q] # None => fd'[q] # None /\ fd'[q].sector = fd[q].sector
  PROVE  Plans' /\ Turn(p)' /\ todo'[p] = T /\ \A q \in Proc \ {p} : todo'[q] = todo[q]
<1>1. /\ todo \in [Proc -> Seq(Tasks)] /\ \A q \in Proc : Fit(todo[q])
      /\ \A q \in Proc : Has(todo[q], {"unlock"}) => \A i \in 1 .. Len(todo[q]) :
           todo[q][i].op \in DataOps => fd[q] # None /\ todo[q][i].sector = fd[q].sector
  BY DEF Plans
<1>2. T \in Seq(Tasks) /\ Fit(T) /\ todo' = [todo EXCEPT ![p] = T]
  BY DEF Moves, Fit
<1>3. todo' \in [Proc -> Seq(Tasks)] /\ todo'[p] = T /\ \A q \in Proc \ {p} : todo'[q] = todo[q]
  BY <1>1, <1>2
<1>4. \A q \in Proc : Fit(todo'[q])
  BY <1>1, <1>2, <1>3
<1>5. ASSUME NEW q \in Proc, Has(todo'[q], {"unlock"}), NEW i \in 1 .. Len(todo'[q]),
             todo'[q][i].op \in DataOps
      PROVE  fd'[q] # None /\ todo'[q][i].sector = fd'[q].sector
  <2>1. CASE q # p
    BY <2>1, <1>1, <1>3, <1>5
  <2>2. CASE q = p
    <3>1. HasOn(T, DataOps, T[i].sector) /\ Has(T, {"unlock"})
      BY <2>2, <1>3, <1>5 DEF HasOn
    <3>2. HasOn(todo[p], DataOps, T[i].sector) /\ Has(todo[p], {"unlock"})
      BY <3>1
    <3>3. PICK j \in 1 .. Len(todo[p]) : todo[p][j].op \in DataOps /\ todo[p][j].sector = T[i].sector
      BY <3>2 DEF HasOn
    <3>4. fd[p] # None /\ todo[p][j].sector = fd[p].sector
      BY <3>2, <3>3, <1>1
    <3> QED
      BY <3>3, <3>4, <2>2, <1>3
  <2> QED
    BY <2>1, <2>2
<1>6. Plans'
  BY <1>3, <1>4, <1>5 DEF Plans
<1>7. T = <<>> => ~Has(T, {"unlock"})
  BY NothingIn
<1>8. Turn(p)'
  <2>1. \A q \in Proc \ {p} : (Quiet(q) /\ miss[q] = NoMiss)'
    BY <1>3 DEF Turn, Quiet
  <2>2. Quiet(p)' <=> T = <<>>
    BY <1>3 DEF Moves, Quiet
  <2>3. (~Quiet(p) /\ ~Has(todo[p], {"unlock"}))' => \A q \in Proc \ {p} : Idle(q)'
    BY <1>3 DEF Turn, Idle
  <2>4. fsLock' = IF ~Quiet(p)' /\ Has(todo[p]', {"unlock"}) THEN p ELSE None
    BY <2>2, <1>3, <1>7 DEF Turn
  <2> QED
    BY <2>1, <2>3, <2>4 DEF Turn
<1> QED
  BY <1>3, <1>6, <1>8

\* A step that does not go through the cache.
LEMMA NoAccess ==
  ASSUME NEW p \in Proc, Plans, Turn(p), CacheRight(p), Wants(p) = None,
         UNCHANGED <<cache, miss>>
  PROVE  /\ miss' \in [Proc -> Misses] /\ \A q \in Proc \ {p} : miss'[q] = miss[q]
         /\ CacheRight(p)' /\ miss[p] = NoMiss
         /\ \A s : Caught(p, s) <=> InCache(s)
         /\ \A s : Caught(p, s)' <=> Caught(p, s)
         /\ \A s : disk'[s] = disk[s] \/ InCache(s) => Logical(s)' = Logical(s)
         /\ \A s : InCache(s) => cache[Hit(s)] \in CachedBlocks /\ Logical(s) = cache[Hit(s)].data
         /\ \A s : ~InCache(s) => Logical(s) = disk[s] /\ Logical(s)' = disk'[s]
<1>1. miss[p] = NoMiss
  <2>1. miss[p] \in Misses
    BY DEF Plans
  <2>2. miss[p].yes = FALSE /\ miss[p].victim = None
    BY <2>1 DEF CacheRight, Misses
  <2> QED
    BY <2>1, <2>2 DEF Misses, NoMiss
<1>2. CacheRight(p)'
  BY <1>1 DEF CacheRight, NoMiss
<1>3. \A s : InCache(s)' <=> InCache(s)
  BY LogicalDef
<1>4. \A q \in Proc : miss[q].victim = None
  BY <1>1 DEF Turn, NoMiss
<1>5. /\ \A s : LogicalOf(cache, miss, disk, s) = View(cache, None, disk, s)
      /\ \A s : Logical(s)' = View(cache, None, disk', s)
  <2>1. \A s : LogicalOf(cache, miss, disk, s) = View(cache, None, disk, s)
    BY <1>4, OneView
  <2> DEFINE D == disk'
  <2>2. \A s : Logical(s)' = LogicalOf(cache, miss, D, s)
    BY LogicalDef
  <2> HIDE DEF D
  <2>3. \A s : LogicalOf(cache, miss, D, s) = View(cache, None, D, s)
    BY <1>4, OneView
  <2>4. \A s : Logical(s)' = View(cache, None, D, s)
    BY <2>2, <2>3
  <2> QED
    BY <2>1, <2>4 DEF D
<1>6. cache \in Lists
  BY CacheNow
<1>7. \A s : InCache(s) => cache[Hit(s)] \in CachedBlocks /\ Logical(s) = cache[Hit(s)].data
  <2> SUFFICES ASSUME NEW s, InCache(s)
               PROVE  cache[Hit(s)] \in CachedBlocks /\ Logical(s) = cache[Hit(s)].data
    OBVIOUS
  <2>1. Hit(s) = HitIn(cache, s) /\ HitIn(cache, s) > 0
    BY DEF InCache, Hit, HitIn
  <2>2. HitIn(cache, s) \in 1 .. Len(cache) /\ cache \in Seq(CachedBlocks)
    BY <2>1, <1>6, HitOf DEF Lists
  <2> QED
    BY <2>1, <2>2, <1>5, LogicalDef DEF View
<1>8. \A s : disk'[s] = disk[s] \/ InCache(s) => Logical(s)' = Logical(s)
  BY <1>5, LogicalDef DEF View
<1>9. \A s : Caught(p, s) <=> InCache(s)
  BY <1>1 DEF Caught, NoMiss
<1>10. \A s : Caught(p, s)' <=> InCache(s)'
  BY <1>1 DEF Caught, NoMiss
<1>11. miss' \in [Proc -> Misses]
  BY DEF Plans
<1>12. \A s : ~InCache(s) => Logical(s) = disk[s] /\ Logical(s)' = disk'[s]
  BY <1>5, LogicalDef DEF View
<1> QED
  BY <1>1, <1>2, <1>3, <1>7, <1>8, <1>9, <1>10, <1>11, <1>12

\* The files that there are.
LEMMA KeepFiles ==
  ASSUME Logical(RootData)' = Logical(RootData),
         \A s \in FileSector : inode'[s].cnt > 0 <=> inode[s].cnt > 0
  PROVE  InDir' = InDir /\ Named' = Named /\ File' = File
<1>1. InDir' = InDir
  BY DEF InDir
<1> QED
  BY <1>1 DEF Named, File

LEMMA FileFacts ==
  ASSUME NEW p \in Proc, OwnersRight(p), DiskRight, SystemData(p)
  PROVE  /\ File \subseteq FileSector /\ File \subseteq Owns /\ Named \subseteq File
         /\ Free \subseteq FileSector
         /\ \A s \in Free : s \notin Owns /\ s \notin lost /\ s \notin Made(p) /\ s \notin ToGive(p)
         /\ \A e \in InDir : e \in Name \X FileSector /\ e[2] \in Named
         /\ \A f \in File : f \in Whole(f) /\ ToSet(InodeOf(f).direct) \subseteq Owns
<1>1. PICK E \in SUBSET (Name \X FileSector) : Logical(RootData) = Dir(E)
  BY DEF SystemData, DirKind
<1>2. InDir = E
  BY <1>1 DEF InDir, Dir
<1>3. Named \subseteq FileSector /\ Named \subseteq File
  BY <1>2 DEF Named, File
<1>4. \A e \in InDir : e \in Name \X FileSector /\ e[2] \in Named
  BY <1>2 DEF Named
<1>5. File \subseteq FileSector
  BY <1>3 DEF File, Named
<1>6. \A f \in File : f \in Whole(f) /\ ToSet(InodeOf(f).direct) \subseteq Owns
  BY DEF Whole, Owns
<1>7. File \subseteq Owns
  BY DEF Whole, Owns
<1>8. Free \subseteq FileSector
  BY DEF OwnersRight, Free, Sector
<1> QED
  BY <1>3, <1>4, <1>5, <1>6, <1>7, <1>8 DEF OwnersRight, Free

LEMMA KeepInodes ==
  ASSUME NEW p \in Proc, InodesRight(p), File' \subseteq File,
         \A f \in File : f \in File' => InodeOf(f)' = InodeOf(f) /\ disk'[f] = disk[f],
         \A f \in File : Growing(p, f) => Growing(p, f)',
         \A f \in File : Writing(p, f) => Writing(p, f)',
         \A f \in File : Caught(p, f)' => Caught(p, f)
  PROVE  InodesRight(p)'
<1> SUFFICES ASSUME NEW f \in File' PROVE FileRight(p, f)'
  BY DEF InodesRight
<1>1. f \in File /\ FileRight(p, f)
  BY DEF InodesRight
<1> QED
  BY <1>1 DEF FileRight

LEMMA KeepOwners ==
  ASSUME NEW p \in Proc, OwnersRight(p), File' = File,
         \A f \in File : InodeOf(f)' = InodeOf(f),
         UNCHANGED <<lost, used>>, Made(p)' = Made(p), ToGive(p)' = ToGive(p)
  PROVE  OwnersRight(p)'
<1>1. \A f \in File : Whole(f)' = Whole(f)
  BY DEF Whole
<1>2. Owns' = Owns
  BY <1>1 DEF Owns
<1> QED
  BY <1>1, <1>2 DEF OwnersRight

LEMMA KeepCounts ==
  ASSUME NEW p \in Proc, Counted(p), UNCHANGED <<leaked, exec>>, SameFds,
         \A f \in FileSector : inode'[f].cnt = inode[f].cnt /\ inode'[f].deny = inode[f].deny,
         \A f \in FileSector : Held(p, f)' <=> Held(p, f)
  PROVE  Counted(p)'
<1>1. \A f : Executing(f)' = Executing(f)
  BY DEF Executing
<1>2. \A f : Opened(f)' = Opened(f)
  BY DEF Opened, SameFds
<1> QED
  BY <1>1, <1>2 DEF Counted

\* When no inode changes and no file comes or goes.
LEMMA SteadyFiles ==
  ASSUME NEW p \in Proc, Focus(p), UNCHANGED <<inode, leaked, exec>>,
         SameFds, fd' \in [Proc -> {None} \cup [sector : FileSector, pos : Nat]],
         Logical(RootData)' = Logical(RootData),
         \A f \in File : disk'[f] = disk[f],
         \A f \in File : Caught(p, f)' => Caught(p, f),
         \A f \in FileSector : Held(p, f)' <=> Held(p, f),
         RootOpen(todo'[p]) <=> RootOpen(todo[p]),
         \A f \in File : Growing(p, f) => Growing(p, f)',
         \A f \in File : Writing(p, f) => Writing(p, f)',
         AtHead(todo[p], {"off"}) => AtHead(todo'[p], {"off"}),
         AtHeadOn(todo[p], "flush", MapData) =>
           AtHead(todo'[p], {"off"}) \/ AtHeadOn(todo'[p], "flush", MapData),
         \A s \in {ROOT_DIR_SECTOR} \cup FileSector :
           AtHeadOn(todo[p], "load", s) => AtHeadOn(todo'[p], "load", s),
         ~AtHead(todo'[p], {"load"})
  PROVE  /\ InDir' = InDir /\ Named' = Named /\ File' = File
         /\ HandleTypes' /\ SystemInodes(p)' /\ Counted(p)' /\ Unnamed' /\ LoadedRight(p)'
         /\ InodesRight(p)' /\ \A f \in File : InodeOf(f)' = InodeOf(f)
<1>1. InDir' = InDir /\ Named' = Named /\ File' = File
  BY KeepFiles
<1>2. HandleTypes'
  BY DEF Focus, HandleTypes
<1>3. SystemInodes(p)'
  BY DEF Focus, SystemInodes
<1>4. Counted(p)'
  BY KeepCounts DEF Focus
<1>5. Unnamed'
  BY <1>1 DEF Focus, Unnamed
<1>6. LoadedRight(p)'
  BY DEF Focus, LoadedRight
<1>7. \A f \in File : InodeOf(f)' = InodeOf(f)
  BY DEF InodeOf
<1>8. InodesRight(p)'
  BY <1>1, <1>7, KeepInodes DEF Focus
<1> QED
  BY <1>1, <1>2, <1>3, <1>4, <1>5, <1>6, <1>7, <1>8

LEMMA Steady ==
  ASSUME NEW p \in Proc, Focus(p), UNCHANGED <<inode, leaked, exec, lost, used>>,
         SameFds, fd' \in [Proc -> {None} \cup [sector : FileSector, pos : Nat]],
         Logical(RootData)' = Logical(RootData),
         \A f \in File : disk'[f] = disk[f],
         \A f \in File : Caught(p, f)' => Caught(p, f),
         \A f \in FileSector : Held(p, f)' <=> Held(p, f),
         RootOpen(todo'[p]) <=> RootOpen(todo[p]),
         \A f \in File : Growing(p, f) => Growing(p, f)',
         \A f \in File : Writing(p, f) => Writing(p, f)',
         Made(p)' = Made(p), ToGive(p)' = ToGive(p),
         AtHead(todo[p], {"off"}) => AtHead(todo'[p], {"off"}),
         AtHeadOn(todo[p], "flush", MapData) =>
           AtHead(todo'[p], {"off"}) \/ AtHeadOn(todo'[p], "flush", MapData),
         \A s \in {ROOT_DIR_SECTOR} \cup FileSector :
           AtHeadOn(todo[p], "load", s) => AtHeadOn(todo'[p], "load", s),
         ~AtHead(todo'[p], {"load"})
  PROVE  /\ InDir' = InDir /\ Named' = Named /\ File' = File
         /\ HandleTypes' /\ SystemInodes(p)' /\ Counted(p)' /\ Unnamed' /\ LoadedRight(p)'
         /\ InodesRight(p)' /\ OwnersRight(p)'
<1>1. /\ InDir' = InDir /\ Named' = Named /\ File' = File
      /\ HandleTypes' /\ SystemInodes(p)' /\ Counted(p)' /\ Unnamed' /\ LoadedRight(p)'
      /\ InodesRight(p)' /\ \A f \in File : InodeOf(f)' = InodeOf(f)
  BY SteadyFiles
<1>2. OwnersRight(p)'
  BY <1>1, KeepOwners DEF Focus
<1> QED
  BY <1>1, <1>2

LEMMA KeepNew ==
  ASSUME NEW p \in Proc, NewRight(p), reg'[p] = reg[p], used' = used, File' = File,
         ~AtHead(todo'[p], {"unique", "dirwrite"}),
         Has(todo'[p], Making) => Has(todo[p], Making) /\ Allots(todo'[p], Len(reg[p]) - 1),
         Has(todo'[p], {"create"}) => Has(todo[p], {"create"}),
         \A s \in FileSector : HasOn(todo'[p], {"zero"}, s) => HasOn(todo[p], {"zero"}, s),
         Has(todo[p], Making) => (Caught(p, reg[p][1])' => Caught(p, reg[p][1])),
         Has(todo[p], {"create"}) => \A s \in Free : Caught(p, s)' => Caught(p, s)
  PROVE  NewRight(p)'
<1>1. Free' = Free
  BY DEF Free
<1>2. (Has(todo[p], Making) =>
              /\ reg[p] # <<>> /\ IsInjective(reg[p]) /\ ~Caught(p, reg[p][1])
              /\ Allots(todo[p], Len(reg[p]) - 1))'
  BY DEF NewRight
<1>3. (Has(todo[p], {"create"}) => \A s \in Free : ~Caught(p, s))'
  BY <1>1 DEF NewRight
<1>4. (\A s \in FileSector : HasOn(todo[p], {"zero"}, s) => s \notin File)'
  BY DEF NewRight
<1> QED
  BY <1>2, <1>3, <1>4 DEF NewRight

LEMMA KeepNames ==
  ASSUME NEW p \in Proc, NamesRight(p), InDir' = InDir, exec'[p] = exec[p],
         fd'[p] = None <=> fd[p] = None,
         AtHead(todo'[p], {"open"}) => todo'[p][1].sector = ROOT_DIR_SECTOR,
         \A i \in 1 .. Len(todo'[p]) : todo'[p][i].op \in {"erase", "deny", "newfd"} =>
           \E j \in 1 .. Len(todo[p]) : todo[p][j] = todo'[p][i]
  PROVE  NamesRight(p)'
<1>1. ASSUME NEW i \in 1 .. Len(todo'[p]), todo'[p][i].op = "erase"
      PROVE  <<todo'[p][i].arg, todo'[p][i].sector>> \in InDir'
  BY <1>1 DEF NamesRight
<1>2. Has(todo'[p], {"deny"}) => Has(todo[p], {"deny"})
  BY DEF Has
<1>3. Has(todo'[p], {"newfd"}) => Has(todo[p], {"newfd"})
  BY DEF Has
<1> QED
  BY <1>1, <1>2, <1>3 DEF NamesRight

LEMMA KeepData ==
  ASSUME NEW p \in Proc, DataRight(p), ~AtHead(todo'[p], {"readat"}),
         \A f \in FileSector : Growing(p, f)' => Grows(todo'[p], Len(inode'[f].data.direct)),
         \A i \in 1 .. Len(todo'[p]) : todo'[p][i].op = "put" /\ ~Has(todo'[p], {"setlength"}) =>
           /\ \E j \in 1 .. Len(todo[p]) : todo[p][j] = todo'[p][i]
           /\ ~Has(todo[p], {"setlength"})
           /\ inode'[todo'[p][i].sector].data = inode[todo'[p][i].sector].data
  PROVE  DataRight(p)'
BY SMTT(30) DEF DataRight

\* A plan that holds none of the tasks the last three parts speak of.
LEMMA CalmNames ==
  ASSUME NEW p \in Proc, NEW T \in Seq(Tasks), todo'[p] = T,
         ~Has(T, {"erase", "deny", "newfd", "setlength", "put"}),
         AtHead(T, {"readat"}) => T[1].arg[1] <= inode'[T[1].sector].data.length,
         AtHead(T, {"open"}) => T[1].sector = ROOT_DIR_SECTOR
  PROVE  NamesRight(p)' /\ DataRight(p)'
<1>1. ~Has(T, {"erase"}) /\ ~Has(T, {"deny"}) /\ ~Has(T, {"newfd"}) /\ ~Has(T, {"setlength"})
      /\ ~Has(T, {"put"})
  BY DEF Has
<1>2. \A s : ~HasOn(T, {"setlength"}, s)
  BY <1>1, HasOnHas
<1>3. NamesRight(p)'
  BY <1>1 DEF NamesRight, Has
<1>4. DataRight(p)'
  BY <1>1, <1>2 DEF DataRight, Has, Growing
<1> QED
  BY <1>3, <1>4

LEMMA Calm ==
  ASSUME NEW p \in Proc, NEW T \in Seq(Tasks), todo'[p] = T,
         ~Has(T, Making \cup {"create", "zero", "erase", "deny", "newfd", "setlength", "put"}),
         AtHead(T, {"readat"}) => T[1].arg[1] <= inode'[T[1].sector].data.length,
         AtHead(T, {"open"}) => T[1].sector = ROOT_DIR_SECTOR
  PROVE  NewRight(p)' /\ NamesRight(p)' /\ DataRight(p)'
<1>1. /\ ~Has(T, Making) /\ ~Has(T, {"create"}) /\ ~Has(T, {"zero"})
      /\ ~Has(T, {"erase", "deny", "newfd", "setlength", "put"})
  BY DEF Has
<1>2. ~AtHead(T, {"unique", "dirwrite"})
  <2>1. T # <<>> => 1 \in 1 .. Len(T)
    BY TailOf
  <2> QED
    BY <1>1, <2>1 DEF AtHead, Has, Making
<1>3. \A s : ~HasOn(T, {"zero"}, s)
  BY <1>1, HasOnHas
<1>4. NewRight(p)'
  BY <1>1, <1>2, <1>3 DEF NewRight
<1> QED
  BY <1>1, <1>4, CalmNames

-----------------------------------------------------------------------------
\* What is left of a plan when its head is done.
LEMMA AfterHead ==
  ASSUME NEW T, Fit(T), T # <<>>
  PROVE  /\ ~AtHead(Tail(T), {"lock", "load", "mapwrite", "readat", "dirwrite"})
         /\ AtHead(Tail(T), {"open"}) => Tail(T)[1].sector = ROOT_DIR_SECTOR
         /\ T[1].op # "newinode" => ~AtHead(Tail(T), {"unique"})
         /\ AtHead(Tail(T), {"off"}) => (T[1].op = "close" /\ T[1].sector = FREE_MAP_SECTOR)
                                        \/ (T[1].op = "flush" /\ T[1].sector = MapData)
         /\ \A s : AtHeadOn(Tail(T), "flush", s) => T[1].op = "flush" /\ s \in FileSector
         /\ ~Has(Tail(T), {"lock", "load", "mapwrite"})
         /\ \A f \in FileSector : ~AtHeadOn(Tail(T), "open", f)
         /\ \A s : ~AtHeadOn(Tail(T), "load", s)
<1> DEFINE R == Tail(T)
<1>1. /\ Fit(R) /\ T[1] \in Tasks /\ R \in Seq(Tasks) /\ T[1].op \in Op
      /\ R # <<>> => MayFollow(T[1], R[1])
  BY FitRest, HeadOf
<1>2. R # <<>> => MayPrecede(T[1], R[1])
  BY <1>1, FitRest, TailOf
<1>3. R # <<>> => R[1].op \notin {"lock", "load", "mapwrite"} /\ (R[1].op = "open" => R[1].sector = ROOT_DIR_SECTOR)
  BY <1>2 DEF MayPrecede
<1>4. R # <<>> => R[1].op # "readat" /\ R[1].op # "dirwrite"
  BY <1>1 DEF MayFollow, Op, CloseRoot, OpenRoot
<1>5. R # <<>> /\ T[1].op # "newinode" => R[1].op # "unique"
  BY <1>1 DEF MayFollow, Op, CloseRoot, OpenRoot
<1>6. R # <<>> /\ R[1].op = "off" => (T[1].op = "close" /\ T[1].sector = FREE_MAP_SECTOR)
                                        \/ (T[1].op = "flush" /\ T[1].sector = MapData)
  BY <1>1 DEF MayFollow, Op, CloseRoot, OpenRoot
<1>7. R # <<>> /\ R[1].op = "flush" => T[1].op = "flush" /\ R[1].sector \in FileSector
  BY <1>1 DEF MayFollow, Op, CloseRoot, OpenRoot
<1>8. ~Has(R, {"lock", "load", "mapwrite"})
  BY NotLater DEF MayPrecede
<1>9. ROOT_DIR_SECTOR \notin FileSector
  BY FilesAssumption DEF ROOT_DIR_SECTOR
<1> QED
  BY <1>3, <1>4, <1>5, <1>6, <1>7, <1>8, <1>9 DEF AtHead, AtHeadOn

LEMMA EarlyRest ==
  ASSUME NEW T, Fit(T), T # <<>>
  PROVE  /\ Early(T) \in 0 .. 2 /\ Early(Tail(T)) \in 0 .. 2
         /\ Early(Tail(T)) >= Early(T) - 1
         /\ T[1].op \in {"mapwrite", "zero"} => Early(Tail(T)) = Early(T) - 1
         /\ T[1].op \notin {"mapwrite", "zero"} => Early(T) = 0
<1> DEFINE R == Tail(T)
<1>1. /\ R \in Seq(Tasks) /\ Len(R) = Len(T) - 1 /\ Len(T) \in Nat \ {0}
      /\ Len(T) > 1 => R # <<>> /\ R[1] = T[2]
      /\ R # <<>> => Len(T) > 1
  <2>1. T \in Seq(Tasks)
    BY DEF Fit
  <2>2. /\ R \in Seq(Tasks) /\ Len(R) = Len(T) - 1 /\ Len(T) \in Nat \ {0}
        /\ \A i \in 1 .. Len(T) - 1 : R[i] = T[i + 1]
    BY <2>1, TailOf
  <2>3. R # <<>> <=> Len(R) # 0
    BY <2>2
  <2> QED
    BY <2>2, <2>3
<1>2. ~AtHead(R, {"mapwrite"})
  BY AfterHead DEF AtHead
<1>3. R # <<>> /\ T[1].op = "zero" => R[1].op # "zero"
  BY FitRest DEF MayFollow
<1> HIDE DEF R
<1>4. Early(R) = IF R # <<>> /\ R[1].op = "zero" THEN 1 ELSE 0
  BY <1>2 DEF Early, AtHead
<1>5. Early(T) = IF T[1].op = "mapwrite" THEN (IF R # <<>> /\ R[1].op = "zero" THEN 2 ELSE 1)
                 ELSE IF T[1].op = "zero" THEN 1 ELSE 0
  BY <1>1 DEF Early, AtHead
<1> QED
  BY <1>3, <1>4, <1>5 DEF R

LEMMA AllotsRest ==
  ASSUME NEW T, Fit(T), T # <<>>, NEW n \in Nat, Allots(T, n)
  PROVE  Allots(Tail(T), n)
<1> DEFINE R == Tail(T)
<1>1. /\ R \in Seq(Tasks) /\ Len(R) = Len(T) - 1 /\ Len(T) \in Nat \ {0}
      /\ \A i \in 1 .. Len(T) - 1 : R[i] = T[i + 1]
  BY TailOf DEF Fit
<1>2. Early(R) >= Early(T) - 1 /\ Early(T) \in 0 .. 2 /\ Early(R) \in 0 .. 2
  BY EarlyRest
<1>3. MaxLen \in Nat
  BY FilesAssumption
<1> SUFFICES ASSUME NEW i \in 1 .. Len(R), R[i].op = "newinode"
             PROVE  n + (i - 1 - Early(R)) <= MaxLen
  BY DEF Allots
<1>4. i + 1 \in 1 .. Len(T) /\ T[i + 1].op = "newinode" /\ i \in Nat
  BY <1>1
<1>5. n + ((i + 1) - 1 - Early(T)) <= MaxLen
  BY <1>4 DEF Allots
<1> QED
  BY <1>2, <1>3, <1>4, <1>5

LEMMA GrowsRest ==
  ASSUME NEW T, Fit(T), T # <<>>, T[1].op \in {"mapwrite", "zero"}, NEW n \in Nat, Grows(T, n)
  PROVE  Grows(Tail(T), n)
<1> DEFINE R == Tail(T)
<1>1. /\ R \in Seq(Tasks) /\ Len(R) = Len(T) - 1 /\ Len(T) \in Nat \ {0}
      /\ \A i \in 1 .. Len(T) - 1 : R[i] = T[i + 1]
  BY TailOf DEF Fit
<1>2. Early(R) = Early(T) - 1 /\ Early(T) \in 0 .. 2 /\ Early(R) \in 0 .. 2
  BY EarlyRest
<1> SUFFICES ASSUME NEW i \in 1 .. Len(R), R[i].op = "setlength"
             PROVE  R[i].arg = n + (i - 1 - Early(R))
  BY DEF Grows
<1>4. i + 1 \in 1 .. Len(T) /\ R[i] = T[i + 1] /\ i \in Nat
  BY <1>1
<1>5. T[i + 1].arg = n + ((i + 1) - 1 - Early(T))
  BY <1>4 DEF Grows
<1>6. i - 1 - Early(R) = (i + 1) - 1 - Early(T)
  BY <1>2, <1>4
<1> QED
  BY <1>4, <1>5, <1>6

\* A task of the rest of a plan is one of the plan.
LEMMA InRest ==
  ASSUME NEW T, Fit(T), T # <<>>
  PROVE  \A i \in 1 .. Len(Tail(T)) : \E j \in 1 .. Len(T) : T[j] = Tail(T)[i]
<1>1. /\ Len(Tail(T)) = Len(T) - 1 /\ Len(T) \in Nat \ {0}
      /\ \A i \in 1 .. Len(T) - 1 : Tail(T)[i] = T[i + 1]
  BY TailOf DEF Fit
<1>2. ASSUME NEW i \in 1 .. Len(Tail(T)) PROVE i + 1 \in 1 .. Len(T) /\ T[i + 1] = Tail(T)[i]
  BY <1>1
<1> QED
  BY <1>2

\* The last parts of the invariant when p is done with the head of its plan.
LEMMA PopRest ==
  ASSUME NEW p \in Proc, Plans, NewRight(p), NamesRight(p), DataRight(p), HandleTypes,
         todo[p] # <<>>, todo'[p] = Tail(todo[p]),
         todo[p][1].op \notin {"newinode", "grow", "setlength"},
         reg'[p] = reg[p], used' = used, File' = File, InDir' = InDir, exec'[p] = exec[p],
         fd'[p] = None <=> fd[p] = None,
         \A f \in FileSector : HasOn(Tail(todo[p]), DataOps, f) => inode'[f].data = inode[f].data,
         Has(todo[p], Making) => (Caught(p, reg[p][1])' => Caught(p, reg[p][1])),
         Has(todo[p], {"create"}) => \A s \in Free : Caught(p, s)' => Caught(p, s)
  PROVE  NewRight(p)' /\ NamesRight(p)' /\ DataRight(p)'
<1> DEFINE T == todo[p]
<1> DEFINE R == Tail(T)
<1>1. Fit(T) /\ T # <<>> /\ R \in Seq(Tasks) /\ Fit(R)
  BY HeadOf DEF Plans
<1>2. /\ ~AtHead(R, {"readat"}) /\ ~AtHead(R, {"unique", "dirwrite"})
      /\ AtHead(R, {"open"}) => R[1].sector = ROOT_DIR_SECTOR
  BY <1>1, AfterHead DEF AtHead
<1>3. /\ \A ops : Has(T, ops) <=> (T[1].op \in ops \/ Has(R, ops))
      /\ \A ops, f : HasOn(T, ops, f) <=> ((T[1].op \in ops /\ T[1].sector = f) \/ HasOn(R, ops, f))
  BY <1>1, HeadOf
<1>4. \A i \in 1 .. Len(R) : \E j \in 1 .. Len(T) : T[j] = R[i]
  BY <1>1, InRest
<1>5. reg[p] \in Seq(FileSector) /\ (reg[p] # <<>> => Len(reg[p]) - 1 \in Nat)
  <2>1. reg[p] \in Seq(FileSector)
    BY DEF Plans
  <2> QED
    BY <2>1, TailOf
<1>6. NewRight(p)'
  <2>1. Has(R, Making) => Has(T, Making) /\ Allots(R, Len(reg[p]) - 1)
    BY <1>1, <1>3, <1>5, AllotsRest DEF NewRight
  <2> QED
    BY <2>1, <1>2, <1>3, KeepNew
<1>7. NamesRight(p)'
  BY <1>2, <1>4, KeepNames
<1>8. DataRight(p)'
  <2>1. \A b \in Tasks : b.op = "setlength" /\ MayPrecede(T[1], b) => T[1].op \in {"mapwrite", "zero", "grow"}
    BY DEF MayPrecede
  <2>2. Has(R, {"setlength"}) => T[1].op \in {"mapwrite", "zero"}
    BY <2>1, <1>1, NotLater
  <2>3. ASSUME NEW f \in FileSector, Growing(p, f)'
        PROVE  Grows(R, Len(inode'[f].data.direct))
    <3>1. HasOn(R, {"setlength"}, f)
      BY <2>3 DEF Growing
    <3>2. Growing(p, f) /\ T[1].op \in {"mapwrite", "zero"} /\ HasOn(R, DataOps, f)
      <4>1. Has(R, {"setlength"}) /\ HasOn(T, {"setlength"}, f)
        BY <3>1, <1>3, HasOnHas
      <4>3. HasOn(R, DataOps, f)
        BY <3>1 DEF HasOn, DataOps
      <4> QED
        BY <4>1, <4>3, <2>2 DEF Growing
    <3>3. Grows(T, Len(inode[f].data.direct)) /\ inode'[f].data = inode[f].data
      BY <3>2 DEF DataRight
    <3>4. Len(inode[f].data.direct) \in Nat
      <4>1. inode[f] \in Inodes
        BY DEF HandleTypes, Sector
      <4> QED
        BY <4>1 DEF Inodes, OnDisks
    <3> QED
      BY <3>2, <3>3, <3>4, <1>1, GrowsRest
  <2>4. ASSUME NEW i \in 1 .. Len(R), R[i].op = "put", ~Has(R, {"setlength"})
        PROVE  /\ \E j \in 1 .. Len(T) : T[j] = R[i]
               /\ ~Has(T, {"setlength"})
               /\ inode'[R[i].sector].data = inode[R[i].sector].data
    <3>1. HasOn(R, DataOps, R[i].sector) /\ R[i].sector \in FileSector
      BY <2>4, <1>1 DEF HasOn, DataOps, Fit, Meant
    <3> QED
      BY <3>1, <2>4, <1>3, <1>4, SMTT(30)
  <2> QED
    BY <2>3, <2>4, <1>2, KeepData, ZenonT(60)
<1> QED
  BY <1>6, <1>7, <1>8

-----------------------------------------------------------------------------
\* Steps by which p is done with one task.
Settling == {"open", "close", "lookup", "setlength", "writeinode", "unique", "dirwrite",
             "release", "newfd", "deny", "header"}

LEMMA PopSame ==
  ASSUME NEW p \in Proc, Plans, todo[p] # <<>>, todo'[p] = Tail(todo[p]), reg'[p] = reg[p],
         todo[p][1].op \notin Settling
  PROVE  /\ \A f \in FileSector : Held(p, f)' <=> Held(p, f)
         /\ RootOpen(todo'[p]) <=> RootOpen(todo[p])
         /\ \A f : Growing(p, f)' <=> Growing(p, f)
         /\ \A f : Writing(p, f)' <=> Writing(p, f)
         /\ Made(p)' = Made(p) /\ ToGive(p)' = ToGive(p)
<1> DEFINE T == todo[p]
<1> DEFINE R == Tail(T)
<1>1. Fit(T) /\ T # <<>> /\ R \in Seq(Tasks) /\ Fit(R) /\ T[1].op \in Op
  BY HeadOf DEF Plans
<1>2. /\ \A ops : Has(T, ops) <=> (T[1].op \in ops \/ Has(R, ops))
      /\ \A ops, f : HasOn(T, ops, f) <=> ((T[1].op \in ops /\ T[1].sector = f) \/ HasOn(R, ops, f))
      /\ RegHeld(T) <=> (T[1].op # "lookup" /\ (T[1].op \in Naming \/ RegHeld(R)))
      /\ RootOpen(T) <=> (~OpenRoot(T[1]) /\ (CloseRoot(T[1]) \/ RootOpen(R)))
  BY <1>1, HeadOf
<1>3. \A f \in FileSector : ~AtHeadOn(R, "open", f)
  BY <1>1, AfterHead
<1>4. \A f : ~AtHeadOn(T, "open", f)
  BY DEF AtHeadOn, Settling
<1>5. /\ RegHeld(T) <=> RegHeld(R)
      /\ RootOpen(T) <=> RootOpen(R)
      /\ \A f : HasOn(T, {"close"}, f) <=> HasOn(R, {"close"}, f)
      /\ \A f : HasOn(T, {"setlength"}, f) <=> HasOn(R, {"setlength"}, f)
      /\ \A f : HasOn(T, {"setlength", "writeinode"}, f) <=> HasOn(R, {"setlength", "writeinode"}, f)
      /\ \A f : HasOn(T, {"release"}, f) <=> HasOn(R, {"release"}, f)
  BY <1>2 DEF Settling, Naming, OpenRoot, CloseRoot
<1>6. Has(T, Making) <=> Has(R, Making)
  <2>1. CASE T[1].op # "newinode"
    BY <2>1, <1>2 DEF Settling, Making
  <2>2. CASE T[1].op = "newinode"
    <3>1. R # <<>> /\ R[1].op = "unique"
      BY <2>2, <1>1, FitRest DEF MayFollow, MayEnd
    <3>2. 1 \in 1 .. Len(R)
      BY <3>1, <1>1, TailOf
    <3>3. Has(R, Making)
      BY <3>1, <3>2 DEF Has, Making
    <3> QED
      BY <3>3, <1>2
  <2> QED
    BY <2>1, <2>2
<1>7. todo'[p] = R
  OBVIOUS
<1> HIDE DEF T, R
<1>8. \A f \in FileSector : Held(p, f)' <=> Held(p, f)
  BY <1>3, <1>4, <1>5, <1>7 DEF Held, T
<1>9. Made(p)' = Made(p)
  BY <1>6, <1>7 DEF Made, T
<1>10. ToGive(p)' = ToGive(p)
  BY <1>5, <1>7 DEF ToGive, T
<1> QED
  BY <1>5, <1>7, <1>8, <1>9, <1>10 DEF Growing, Writing, T

LEMMA PopStep ==
  ASSUME NEW p \in Proc, Focus(p), mode = "up", mode' = mode, ~Quiet(p), Then(p, <<>>),
         UNCHANGED <<inode, exec, leaked, lost, used, reg, fsLock>>,
         SameFds, fd' \in [Proc -> {None} \cup [sector : FileSector, pos : Nat]],
         miss' \in [Proc -> Misses], \A q \in Proc \ {p} : miss'[q] = miss[q],
         CacheRight(p)', DiskRight', SystemData(p)',
         Logical(RootData)' = Logical(RootData),
         \A f \in File : disk'[f] = disk[f],
         \A f \in File : Caught(p, f)' => Caught(p, f),
         Has(todo[p], Making) => (Caught(p, reg[p][1])' => Caught(p, reg[p][1])),
         Has(todo[p], {"create"}) => \A s \in Free : Caught(p, s)' => Caught(p, s),
         todo[p][1].op \notin Settling \cup {"load", "grow", "off", "unlock"},
         todo[p][1].op = "newinode" => NewRight(p)' /\ NamesRight(p)' /\ DataRight(p)'
  PROVE  Focus(p)'
<1> DEFINE T == todo[p]
<1> DEFINE R == Tail(T)
<1>0. Plans /\ Turn(p) /\ NewRight(p) /\ NamesRight(p) /\ DataRight(p) /\ HandleTypes
  BY DEF Focus
<1>1. T # <<>> /\ T[1].op # "lock"
  BY DEF Quiet
<1>2. Fit(T) /\ R \in Seq(Tasks) /\ Fit(R) /\ T[1].op \in Op /\ T \in Seq(Tasks)
  BY <1>0, <1>1, HeadOf DEF Plans, Fit
<1>3. /\ \A ops : Has(T, ops) <=> (T[1].op \in ops \/ Has(R, ops))
      /\ \A ops, f : HasOn(T, ops, f) <=> ((T[1].op \in ops /\ T[1].sector = f) \/ HasOn(R, ops, f))
  BY <1>1, <1>2, HeadOf
<1>4. <<>> \o R = R
  BY <1>2
<1>5. ~AtHead(R, {"lock"})
  BY <1>1, <1>2, AfterHead DEF AtHead
<1>6. Moves(p, R)
  BY <1>2, <1>4, <1>5 DEF Moves, Then, AtHead
<1>7. Plans' /\ Turn(p)' /\ todo'[p] = R
  <2>1. Has(R, {"unlock"}) <=> Has(T, {"unlock"})
    BY <1>3
  <2>2. \A f : HasOn(R, DataOps, f) => HasOn(T, DataOps, f)
    BY <1>3
  <2>3. reg' \in [Proc -> Seq(FileSector)]
    BY <1>0 DEF Plans
  <2>4. \A q \in Proc : fd[q] # None => fd'[q] # None /\ fd'[q].sector = fd[q].sector
    BY DEF SameFds
  <2> HIDE DEF R
  <2> QED
    BY <1>0, <1>6, <2>1, <2>2, <2>3, <2>4, KeepPlans
<1>8. /\ \A f \in FileSector : Held(p, f)' <=> Held(p, f)
      /\ RootOpen(todo'[p]) <=> RootOpen(todo[p])
      /\ \A f : Growing(p, f)' <=> Growing(p, f)
      /\ \A f : Writing(p, f)' <=> Writing(p, f)
      /\ Made(p)' = Made(p) /\ ToGive(p)' = ToGive(p)
  <2>1. T[1].op \notin Settling /\ reg'[p] = reg[p]
    OBVIOUS
  <2> QED
    BY <1>0, <1>1, <1>7, <2>1, PopSame
<1>9. /\ InDir' = InDir /\ Named' = Named /\ File' = File
      /\ HandleTypes' /\ SystemInodes(p)' /\ Counted(p)' /\ Unnamed' /\ LoadedRight(p)'
      /\ InodesRight(p)' /\ OwnersRight(p)'
  <2>1. ~AtHead(T, {"off"}) /\ \A s : ~AtHeadOn(T, "load", s)
    BY DEF AtHead, AtHeadOn
  <2>2. ASSUME AtHeadOn(T, "flush", MapData)
        PROVE  AtHead(R, {"off"})
    <3>1. R # <<>> /\ R[1].op = "off"
      <4>1. T[1].op = "flush" /\ T[1].sector = MapData
        BY <2>2 DEF AtHeadOn
      <4>2. /\ R # <<>> => MayFollow(T[1], R[1])
            /\ R = <<>> => MayEnd(T[1])
        BY <1>1, <1>2, FitRest
      <4>3. ~MayEnd(T[1])
        BY <4>1 DEF MayEnd
      <4> HIDE DEF T, R
      <4> QED
        BY <4>1, <4>2, <4>3 DEF MayFollow, MapData, RootData
    <3> QED
      BY <3>1 DEF AtHead
  <2>3. ~AtHead(R, {"load"})
    BY <1>1, <1>2, AfterHead DEF AtHead
  <2> HIDE DEF R
  <2> QED
    BY <2>1, <2>2, <2>3, <1>7, <1>8, Steady
<1>10. NewRight(p)' /\ NamesRight(p)' /\ DataRight(p)'
  <2> SUFFICES ASSUME T[1].op # "newinode" PROVE NewRight(p)' /\ NamesRight(p)' /\ DataRight(p)'
    OBVIOUS
  <2>1. T[1].op \notin {"newinode", "grow", "setlength"}
    BY DEF Settling
  <2>2. fd'[p] = None <=> fd[p] = None
    BY DEF SameFds
  <2> QED
    BY <1>0, <1>1, <1>7, <1>9, <2>1, <2>2, PopRest
<1>11. OffRight(p)'
  BY DEF OffRight
<1> QED
  BY <1>7, <1>9, <1>10, <1>11 DEF Focus

-----------------------------------------------------------------------------
\* The task p is at.
LEMMA Begin ==
  ASSUME NEW p \in Proc, Focus(p), NEW op, Is(p, op)
  PROVE  /\ todo[p] # <<>> /\ todo[p][1].op = op /\ mode = "up"
         /\ S(p) = todo[p][1].sector /\ Arg(p) = todo[p][1].arg
         /\ Fit(todo[p]) /\ todo[p] \in Seq(Tasks) /\ Meant(todo[p][1])
         /\ Fit(Tail(todo[p])) /\ Tail(todo[p]) \in Seq(Tasks)
         /\ op # "lock" => ~Quiet(p)
         /\ Plans /\ Turn(p) /\ CacheRight(p) /\ DiskRight /\ SystemData(p)
         /\ HandleTypes /\ SystemInodes(p) /\ Counted(p) /\ Unnamed /\ LoadedRight(p)
         /\ InodesRight(p) /\ OwnersRight(p) /\ NewRight(p) /\ NamesRight(p) /\ DataRight(p)
         /\ OffRight(p)
<1>1. /\ Plans /\ Turn(p) /\ CacheRight(p) /\ DiskRight /\ SystemData(p)
      /\ HandleTypes /\ SystemInodes(p) /\ Counted(p) /\ Unnamed /\ LoadedRight(p)
      /\ InodesRight(p) /\ OwnersRight(p) /\ NewRight(p) /\ NamesRight(p) /\ DataRight(p)
      /\ OffRight(p)
  BY DEF Focus
<1>2. todo[p] # <<>> /\ mode = "up" /\ Head(todo[p]).op = op
  BY DEF Is
<1>3. Fit(todo[p]) /\ todo[p] \in Seq(Tasks)
  BY <1>1 DEF Plans
<1>4. Head(todo[p]) = todo[p][1] /\ Meant(todo[p][1]) /\ Fit(Tail(todo[p])) /\ Tail(todo[p]) \in Seq(Tasks)
  BY <1>2, <1>3, HeadOf, Zenon
<1>5. op # "lock" => ~Quiet(p)
  BY <1>2, <1>4 DEF Quiet
<1> QED
  BY <1>1, <1>2, <1>3, <1>4, <1>5 DEF S, Arg

LEMMA WantsOf ==
  ASSUME NEW p \in Proc, Plans, todo[p] # <<>>
  PROVE  /\ todo[p][1].op \notin {"mapwrite", "lookup", "find", "unique", "dirwrite", "erase",
                                  "readat", "put"} => Wants(p) = None
         /\ todo[p][1].op = "mapwrite" => Wants(p) = MapData
         /\ todo[p][1].op \in {"lookup", "find", "unique", "dirwrite", "erase"} => Wants(p) = RootData
         /\ todo[p][1].op \in {"readat", "put"} =>
              Wants(p) = inode[todo[p][1].sector].data.direct[todo[p][1].arg[1]]
<1>1. Head(todo[p]) = todo[p][1]
  BY HeadOf DEF Plans
<1> QED
  BY <1>1, Zenon DEF Wants, S, Arg

\* A file's blocks are no file's inode, nor the map's or the directory's data.
LEMMA BlockSector ==
  ASSUME NEW p \in Proc, Focus(p), todo[p] # <<>>, todo[p][1].op \in {"readat", "put"}
  PROVE  Wants(p) \in FileSector /\ Wants(p) \notin File
<1> DEFINE a == todo[p][1]
<1> DEFINE f == a.sector
<1>0. /\ Plans /\ HandleTypes /\ Counted(p) /\ LoadedRight(p) /\ DataRight(p)
      /\ InodesRight(p) /\ OwnersRight(p)
  BY DEF Focus
<1>1. Fit(todo[p]) /\ Meant(a)
  BY <1>0, HeadOf DEF Plans
<1>2. f \in FileSector /\ inode[f].cnt > 0 /\ inode[f].loaded
  BY <1>0, FileOpen DEF DataOps
<1>3. a.arg[1] \in 1 .. MaxLen
  BY <1>1 DEF Meant
<1>4. a.arg[1] <= inode[f].data.length
  <2>1. CASE a.op = "readat"
    BY <2>1, <1>0 DEF DataRight, AtHead
  <2>2. CASE a.op = "put"
    <3>1. ~Has(Tail(todo[p]), {"setlength"})
      BY <2>2, <1>1, NotLater DEF MayPrecede
    <3>2. ~Has(todo[p], {"setlength"}) /\ 1 \in 1 .. Len(todo[p])
      <4>1. todo[p] \in Seq(Tasks)
        BY <1>1 DEF Fit
      <4>2. Has(todo[p], {"setlength"}) <=> (a.op \in {"setlength"} \/ Has(Tail(todo[p]), {"setlength"}))
        BY <1>1, HeadOf
      <4>3. 1 \in 1 .. Len(todo[p])
        BY <4>1, TailOf
      <4> QED
        BY <2>2, <3>1, <4>2, <4>3
    <3> QED
      BY <2>2, <3>2, <1>0 DEF DataRight
  <2> QED
    BY <2>1, <2>2
<1>5. f \in File /\ InodeOf(f) = inode[f].data
  BY <1>2 DEF File, InodeOf
<1>6. /\ inode[f].data.direct \in Seq(FileSector) /\ Len(inode[f].data.direct) \in Nat
      /\ inode[f].data.length <= Len(inode[f].data.direct)
      /\ f \notin ToSet(inode[f].data.direct) /\ inode[f].data.length \in Nat
  <2>1. FileRight(p, f)
    BY <1>0, <1>5 DEF InodesRight
  <2>2. InodeOf(f) \in [direct : Seq(FileSector), length : Nat]
    BY <2>1 DEF FileRight
  <2>3. InodeOf(f).direct \in Seq(FileSector) /\ InodeOf(f).length \in Nat
    BY <2>2
  <2>4. InodeOf(f).length <= Len(InodeOf(f).direct) /\ f \notin ToSet(InodeOf(f).direct)
    BY <2>1 DEF FileRight
  <2>5. Len(InodeOf(f).direct) \in Nat
    BY <2>3, SMTT(30)
  <2> QED
    BY <2>3, <2>4, <2>5, <1>5
<1>7. a.arg[1] \in 1 .. Len(inode[f].data.direct)
  BY <1>3, <1>4, <1>6, FilesAssumption, SMTT(30)
<1>8. Wants(p) = inode[f].data.direct[a.arg[1]]
  BY <1>0, WantsOf, SMTT(30)
<1>9. Wants(p) \in FileSector /\ Wants(p) \in ToSet(inode[f].data.direct)
  <2> DEFINE D == inode[f].data.direct
  <2>1. D \in Seq(FileSector) /\ a.arg[1] \in 1 .. Len(D) /\ Wants(p) = D[a.arg[1]]
    BY <1>6, <1>7, <1>8
  <2> HIDE DEF D
  <2>2. a.arg[1] \in DOMAIN D /\ D[a.arg[1]] \in FileSector
    BY <2>1
  <2> QED
    BY <2>1, <2>2, ZenonT(60) DEF ToSet, D
<1>10. Wants(p) \in Whole(f) /\ \A g \in File : g \in Whole(g)
  BY <1>5, <1>9 DEF Whole
<1>11. Wants(p) \notin File
  BY <1>0, <1>5, <1>6, <1>9, <1>10 DEF OwnersRight
<1> QED
  BY <1>9, <1>11

\* The map and the directory, when a step has nothing to do with them.
LEMMA KeepSystemData ==
  ASSUME NEW p \in Proc, SystemData(p), used' = used,
         \A s \in {MapData, RootData} : Logical(s)' = Logical(s) /\ disk'[s] = disk[s],
         ~AtHead(todo[p], {"mapwrite"}), ~AtHeadOn(todo[p], "flush", RootData),
         RootOpen(todo[p]) => RootOpen(todo'[p]), ~AtHead(todo'[p], {"off"})
  PROVE  SystemData(p)'
BY DEF SystemData

LEMMA KeepDisk ==
  ASSUME DiskRight, used' = used, NEW s \in Sector \ {FREE_MAP_SECTOR, ROOT_DIR_SECTOR},
         NEW d \in Contents, disk' = [disk EXCEPT ![s] = d]
  PROVE  DiskRight' /\ disk'[s] = d /\ \A t \in Sector : t # s => disk'[t] = disk[t]
BY DEF DiskRight, Sector, FREE_MAP_SECTOR, ROOT_DIR_SECTOR

LEMMA SameFdsNow ==
  ASSUME HandleTypes, fd' = fd
  PROVE  SameFds /\ fd' \in [Proc -> {None} \cup [sector : FileSector, pos : Nat]]
BY DEF HandleTypes, SameFds

LEMMA Sectors ==
  /\ FREE_MAP_SECTOR \in Sector /\ ROOT_DIR_SECTOR \in Sector /\ MapData \in Sector /\ RootData \in Sector
  /\ FileSector \subseteq Sector
  /\ FREE_MAP_SECTOR \notin FileSector /\ ROOT_DIR_SECTOR \notin FileSector
  /\ MapData \notin FileSector /\ RootData \notin FileSector
  /\ FREE_MAP_SECTOR # ROOT_DIR_SECTOR /\ FREE_MAP_SECTOR # MapData /\ FREE_MAP_SECTOR # RootData
  /\ ROOT_DIR_SECTOR # MapData /\ ROOT_DIR_SECTOR # RootData /\ MapData # RootData
  /\ None \notin Sector
BY FilesAssumption, NoneAssumption DEF FREE_MAP_SECTOR, ROOT_DIR_SECTOR, MapData, RootData, Sector

-----------------------------------------------------------------------------
\* The steps of p, action by action.
LEMMA FlushStep ==
  ASSUME NEW p \in Proc, Focus(p), Flush(p), lost' = lost
  PROVE  Focus(p)'
<1> DEFINE T == todo[p]
<1> DEFINE R == Tail(T)
<1> DEFINE s == T[1].sector
<1>1. Is(p, "flush")
  BY DEF Flush
<1>2. /\ T # <<>> /\ T[1].op = "flush" /\ mode = "up" /\ S(p) = s
      /\ Fit(T) /\ T \in Seq(Tasks) /\ Meant(T[1])
      /\ ~Quiet(p)
      /\ Plans /\ Turn(p) /\ CacheRight(p) /\ DiskRight /\ SystemData(p)
      /\ HandleTypes /\ InodesRight(p) /\ OwnersRight(p)
  BY <1>1, Begin
<1>3. s \in FileSector \cup {MapData, RootData}
  BY <1>2, SMTT(30) DEF Meant
<1>4. Wants(p) = None
  BY <1>2, WantsOf
<1>5. UNCHANGED <<cache, miss, used, inode, fd, exec, leaked, fsLock, reg, got, mode>>
      /\ Then(p, <<>>) /\ todo'[p] = R
  <2>1. UNCHANGED <<cache, miss, used, inode, fd, exec, leaked, fsLock, reg, got, mode>>
      /\ Then(p, <<>>)
    BY DEF Flush
  <2>2. todo'[p] = <<>> \o R
    BY <2>1, <1>2 DEF Then, Plans
  <2> QED
    BY <2>1, <2>2, <1>2, HeadOf
<1>6. /\ miss' \in [Proc -> Misses] /\ \A q \in Proc \ {p} : miss'[q] = miss[q]
      /\ CacheRight(p)'
      /\ \A t : Caught(p, t) <=> InCache(t)
      /\ \A t : Caught(p, t)' <=> Caught(p, t)
      /\ \A t : disk'[t] = disk[t] \/ InCache(t) => Logical(t)' = Logical(t)
      /\ \A t : InCache(t) => cache[Hit(t)] \in CachedBlocks /\ Logical(t) = cache[Hit(t)].data
      /\ \A t : ~InCache(t) => Logical(t) = disk[t] /\ Logical(t)' = disk'[t]
  BY <1>2, <1>4, <1>5, NoAccess
<1>7. disk' = IF InCache(s) THEN [disk EXCEPT ![s] = cache[Hit(s)].data] ELSE disk
  BY <1>2 DEF Flush
<1>8. DiskRight' /\ (\A t \in Sector : t # s => disk'[t] = disk[t]) /\ disk'[s] = Logical(s)
      /\ (~InCache(s) => disk'[s] = disk[s])
  <2>1. CASE InCache(s)
    <3>1. cache[Hit(s)].data \in Contents /\ Logical(s) = cache[Hit(s)].data
      BY <2>1, <1>6 DEF CachedBlocks
    <3>2. s \in Sector \ {FREE_MAP_SECTOR, ROOT_DIR_SECTOR}
      BY <1>3, Sectors
    <3> QED
      BY <2>1, <3>1, <3>2, <1>2, <1>5, <1>7, KeepDisk, ZenonT(60)
  <2>2. CASE ~InCache(s)
    BY <2>2, <1>2, <1>5, <1>6, <1>7 DEF DiskRight
  <2> QED
    BY <2>1, <2>2, SMTT(30)
<1> HIDE DEF T, R, s
<1>9. \A t \in Sector : Logical(t)' = Logical(t)
  BY <1>6, <1>8
<1>10. \A f \in File : disk'[f] = disk[f]
  <2> SUFFICES ASSUME NEW f \in File PROVE disk'[f] = disk[f]
    OBVIOUS
  <2>1. f \in Sector /\ ~InCache(f)
    BY <1>2, <1>6, FileFacts, Sectors DEF InodesRight, FileRight
  <2> QED
    BY <2>1, <1>8
<1>11. SystemData(p)'
  <2>1. ~AtHead(T, {"mapwrite"}) /\ (RootOpen(T) => RootOpen(R))
    BY <1>2, HeadOf DEF AtHead, CloseRoot, T, R
  <2>0. /\ Logical(MapData) = Map(used)
        /\ disk[RootData] = Logical(RootData) \/ RootOpen(T) \/ AtHeadOn(T, "flush", RootData)
    BY <1>2, <2>1 DEF SystemData, T
  <2>7. Logical(MapData)' = Map(used)' /\ Logical(RootData)' = Logical(RootData)
    BY <2>0, <1>5, <1>9, Sectors DEF Map
  <2>2. (Logical(MapData) = Map(used) \/ AtHead(todo[p], {"mapwrite"}))'
    BY <2>7
  <2>3. DirKind(Logical(RootData)')
    BY <1>2, <1>9, Sectors DEF SystemData
  <2>4. disk'[RootData] = Logical(RootData)' \/ RootOpen(todo'[p])
    <3>1. CASE s = RootData
      BY <3>1, <1>8, <1>9, Sectors
    <3>2. CASE s # RootData
      <4>1. disk'[RootData] = disk[RootData] /\ ~AtHeadOn(T, "flush", RootData)
        BY <3>2, <1>8, Sectors DEF AtHeadOn, s
      <4> QED
        BY <4>1, <1>5, <2>0, <2>1, <2>7
    <3> QED
      BY <3>1, <3>2
  <2>5. AtHead(todo'[p], {"off"}) => disk'[MapData] = Map(used)
    <3> SUFFICES ASSUME AtHead(R, {"off"}) PROVE disk'[MapData] = Map(used)
      BY <1>5
    <3>1. s = MapData
      BY <1>2, AfterHead DEF R, s, T
    <3> QED
      BY <3>1, <1>8, <2>0
  <2>6. DirKind(Logical(RootData))'
    BY <2>3 DEF DirKind
  <2> QED
    BY <2>2, <2>4, <2>5, <2>6, <1>5 DEF SystemData
<1> QED
  <2>1. T[1].op \notin Settling \cup {"load", "grow", "off", "unlock", "newinode"}
    BY <1>2 DEF Settling
  <2>2. Logical(RootData)' = Logical(RootData)
    BY <1>9, Sectors
  <2>3. SameFds /\ fd' \in [Proc -> {None} \cup [sector : FileSector, pos : Nat]]
    BY <1>2, <1>5, SameFdsNow
  <2> QED
    BY <1>2, <1>5, <1>6, <1>8, <1>10, <1>11, <2>1, <2>2, <2>3, PopStep DEF T

\* A step that is done with one task, past the cache, and at most writes to a
\* sector that is no file's inode.
LEMMA PlainPop ==
  ASSUME NEW p \in Proc, Focus(p), mode = "up", todo[p] # <<>>, Then(p, <<>>),
         UNCHANGED <<cache, miss, used, inode, fd, exec, leaked, fsLock, reg, mode, lost>>,
         disk' = disk \/ (\E s \in FileSector \ File, d \in Contents :
                            disk' = [disk EXCEPT ![s] = d]),
         todo[p][1].op \in {"zero", "newinode", "read", "write", "create"},
         /\ todo[p][1].op = "newinode"
         /\ todo'[p] = Tail(todo[p]) /\ DiskRight' /\ InDir' = InDir /\ File' = File
         /\ \A s : Caught(p, s)' <=> Caught(p, s)
         => NewRight(p)' /\ NamesRight(p)' /\ DataRight(p)'
  PROVE  Focus(p)'
<1> DEFINE T == todo[p]
<1> DEFINE R == Tail(T)
<1>1. /\ T # <<>> /\ Is(p, T[1].op)
  BY HeadOf DEF Is, Focus, Plans
<1>2. /\ Fit(T) /\ T \in Seq(Tasks) /\ Meant(T[1])
      /\ ~Quiet(p)
      /\ Plans /\ Turn(p) /\ CacheRight(p) /\ DiskRight /\ SystemData(p)
      /\ HandleTypes /\ InodesRight(p) /\ OwnersRight(p)
  BY <1>1, Begin, SMTT(30)
<1>3. Wants(p) = None
  BY <1>2, WantsOf
<1>4. todo'[p] = R
  <2>1. todo'[p] = <<>> \o R
    BY <1>2, HeadOf DEF Then, Plans
  <2> QED
    BY <2>1, <1>2, HeadOf
<1>5. /\ miss' \in [Proc -> Misses] /\ \A q \in Proc \ {p} : miss'[q] = miss[q]
      /\ CacheRight(p)'
      /\ \A t : Caught(p, t)' <=> Caught(p, t)
      /\ \A t : disk'[t] = disk[t] \/ InCache(t) => Logical(t)' = Logical(t)
  BY <1>2, <1>3, NoAccess
<1>6. DiskRight' /\ (\A t \in Sector \ FileSector : disk'[t] = disk[t])
      /\ (\A f \in File : disk'[f] = disk[f])
  <2>1. CASE disk' = disk
    BY <2>1, <1>2 DEF DiskRight
  <2>2. CASE disk' # disk
    <3>1. PICK s \in FileSector \ File, d \in Contents : disk' = [disk EXCEPT ![s] = d]
      BY <2>2
    <3>2. s \in Sector \ {FREE_MAP_SECTOR, ROOT_DIR_SECTOR}
      BY Sectors
    <3>3. DiskRight' /\ \A t \in Sector : t # s => disk'[t] = disk[t]
      BY <3>1, <3>2, <1>2, KeepDisk
    <3>4. \A f \in File : f \in Sector
      BY <1>2, FileFacts, Sectors
    <3> QED
      BY <3>3, <3>4
  <2> QED
    BY <2>1, <2>2
<1>7. /\ \A t \in {MapData, RootData} : Logical(t)' = Logical(t) /\ disk'[t] = disk[t]
  BY <1>5, <1>6, Sectors
<1>8. T[1].op \notin Settling \cup {"load", "grow", "off", "unlock"} /\ T[1].op \notin {"mapwrite", "flush", "close"}
  BY DEF Settling
<1>9. SystemData(p)'
  <2>1. ~AtHead(T, {"mapwrite"}) /\ ~AtHeadOn(T, "flush", RootData)
    BY <1>8 DEF AtHead, AtHeadOn
  <2>2. RootOpen(T) => RootOpen(R)
    BY <1>1, <1>2, <1>8, HeadOf DEF CloseRoot
  <2>3. ~AtHead(R, {"off"})
    BY <1>1, <1>2, <1>8, AfterHead
  <2> HIDE DEF R
  <2> QED
    BY <1>2, <1>4, <1>7, <2>1, <2>2, <2>3, KeepSystemData
<1>10. Logical(RootData)' = Logical(RootData)
  BY <1>7
<1>11. InDir' = InDir /\ File' = File
  BY <1>10, KeepFiles
<1>12. SameFds /\ fd' \in [Proc -> {None} \cup [sector : FileSector, pos : Nat]]
  BY <1>2, SameFdsNow, SMTT(30)
<1> QED
  BY <1>2, <1>4, <1>5, <1>6, <1>8, <1>9, <1>10, <1>11, <1>12, PopStep

LEMMA BoundedOf ==
  ASSUME NEW X, NEW q \in Seq(X), NEW Y, X \subseteq Y, NEW n \in Nat, Len(q) <= n
  PROVE  q \in BoundedSeq(Y, n)
<1>1. Len(q) \in 0 .. n /\ q \in [1 .. Len(q) -> Y]
  OBVIOUS
<1> QED
  BY <1>1 DEF BoundedSeq, SeqOf

\* After the root directory is closed nothing is left but what needs the inode found.
LEMMA LastClose ==
  ASSUME NEW T, Fit(T), T # <<>>, CloseRoot(T[1]), ~Has(T, Naming)
  PROVE  Tail(T) = <<>>
<1> SUFFICES ASSUME Tail(T) # <<>> PROVE FALSE
  OBVIOUS
<1>1. MayFollow(T[1], Tail(T)[1]) /\ T[1].op = "close" /\ T[1].sector = ROOT_DIR_SECTOR
  BY FitRest DEF CloseRoot
<1>2. Tail(T)[1].op \in Naming
  BY <1>1, Sectors DEF MayFollow, Naming
<1>3. Tail(T) \in Seq(Tasks)
  BY HeadOf
<1>4. Has(Tail(T), Naming)
  BY <1>2, <1>3, TailOf DEF Has
<1> QED
  BY <1>4, HeadOf

\* The end of a create: the directory entry, then the root directory is closed.
LEMMA CreateEnd ==
  ASSUME NEW T, Fit(T), T # <<>>, T[1].op \in {"create", "unique", "dirwrite"}
  PROVE  /\ Tail(T) # <<>> /\ CloseRoot(Tail(T)[1]) /\ Tail(Tail(T)) = <<>>
         /\ \A ops : Has(Tail(T), ops) <=> "close" \in ops
         /\ \A ops, f : HasOn(Tail(T), ops, f) <=> ("close" \in ops /\ f = ROOT_DIR_SECTOR)
         /\ RootOpen(T) /\ RootOpen(Tail(T)) /\ ~RegHeld(T) /\ ~RegHeld(Tail(T))
<1> DEFINE R == Tail(T)
<1>1. Fit(R) /\ R \in Seq(Tasks)
  BY HeadOf
<1>2. R # <<>> /\ CloseRoot(R[1])
  BY FitRest DEF MayFollow, MayEnd
<1>3. ~Has(R, Naming)
  BY NotLater DEF MayPrecede, Naming, CloseRoot
<1>4. Tail(R) = <<>>
  BY <1>1, <1>2, <1>3, LastClose
<1>5. /\ \A ops : Has(R, ops) <=> (R[1].op \in ops \/ Has(Tail(R), ops))
      /\ \A ops, f : HasOn(R, ops, f) <=>
                          ((R[1].op \in ops /\ R[1].sector = f) \/ HasOn(Tail(R), ops, f))
      /\ RegHeld(R) <=> (R[1].op # "lookup" /\ (R[1].op \in Naming \/ RegHeld(Tail(R))))
      /\ RootOpen(R) <=> (~OpenRoot(R[1]) /\ (CloseRoot(R[1]) \/ RootOpen(Tail(R))))
  BY <1>1, <1>2, HeadOf
<1>6. RegHeld(T) <=> (T[1].op # "lookup" /\ (T[1].op \in Naming \/ RegHeld(R)))
  BY HeadOf
<1>7. RootOpen(T) <=> (~OpenRoot(T[1]) /\ (CloseRoot(T[1]) \/ RootOpen(R)))
  BY HeadOf
<1>8. /\ \A ops : Has(R, ops) <=> "close" \in ops
      /\ \A ops, f : HasOn(R, ops, f) <=> ("close" \in ops /\ f = ROOT_DIR_SECTOR)
      /\ RootOpen(R) /\ ~RegHeld(R)
  <2>1. R[1].op = "close" /\ R[1].sector = ROOT_DIR_SECTOR
    BY <1>2 DEF CloseRoot
  <2>2. /\ \A ops : ~Has(Tail(R), ops)
        /\ \A ops, f : ~HasOn(Tail(R), ops, f)
        /\ ~RegHeld(Tail(R)) /\ ~RootOpen(Tail(R))
    BY <1>4, NothingIn
  <2> HIDE DEF R
  <2>3. \A ops : Has(R, ops) <=> "close" \in ops
    BY <1>5, <2>1, <2>2
  <2>4. \A ops, f : HasOn(R, ops, f) <=> ("close" \in ops /\ f = ROOT_DIR_SECTOR)
    BY <1>5, <2>1, <2>2
  <2>5. RootOpen(R) /\ ~RegHeld(R)
    BY <1>2, <1>5, <2>1, <2>2 DEF OpenRoot, Naming
  <2> QED
    BY <2>3, <2>4, <2>5
<1>9. RootOpen(T) /\ ~RegHeld(T)
  BY <1>6, <1>7, <1>8 DEF OpenRoot, Naming
<1> QED
  BY <1>2, <1>4, <1>8, <1>9

LEMMA ZeroSectorStep ==
  ASSUME NEW p \in Proc, Focus(p), ZeroSector(p), lost' = lost
  PROVE  Focus(p)'
<1> DEFINE s == todo[p][1].sector
<1>1. Is(p, "zero")
  BY DEF ZeroSector
<1>2. /\ todo[p] # <<>> /\ todo[p][1].op = "zero" /\ mode = "up" /\ S(p) = s
      /\ Meant(todo[p][1]) /\ NewRight(p) /\ todo[p] \in Seq(Tasks)
  BY <1>1, Begin
<1>3. /\ UNCHANGED <<cache, used, inode, fd, exec, leaked, fsLock, reg, miss, got, mode>>
      /\ Then(p, <<>>) /\ disk' = [disk EXCEPT ![s] = Data(Zero)]
  BY <1>2 DEF ZeroSector
<1>4. s \in FileSector
  BY <1>2 DEF Meant
<1>5. s \notin File
  <2>1. 1 \in 1 .. Len(todo[p])
    BY <1>2, TailOf
  <2>2. HasOn(todo[p], {"zero"}, s)
    BY <1>2, <2>1 DEF HasOn
  <2> QED
    BY <2>2, <1>2, <1>4 DEF NewRight
<1>6. Data(Zero) \in Contents
  BY FilesAssumption DEF Contents
<1>7. \E t \in FileSector \ File, d \in Contents : disk' = [disk EXCEPT ![t] = d]
  BY <1>3, <1>4, <1>5, <1>6
<1> HIDE DEF s
<1> QED
  BY <1>2, <1>3, <1>7, PlainPop

LEMMA InodeCreateStep ==
  ASSUME NEW p \in Proc, Focus(p), InodeCreate(p), lost' = lost
  PROVE  Focus(p)'
<1> DEFINE T == todo[p]
<1> DEFINE R == Tail(T)
<1> DEFINE s == reg[p][1]
<1> DEFINE n == OnDisk(Tail(reg[p]), Len(reg[p]) - 1)
<1>1. Is(p, "newinode")
  BY DEF InodeCreate
<1>2. /\ T # <<>> /\ T[1].op = "newinode" /\ mode = "up"
      /\ Fit(T) /\ T \in Seq(Tasks) /\ Plans /\ NewRight(p) /\ OwnersRight(p)
      /\ DiskRight /\ SystemData(p) /\ NamesRight(p) /\ DataRight(p)
      /\ Fit(R) /\ R \in Seq(Tasks)
  BY <1>1, Begin
<1>3. /\ UNCHANGED <<cache, used, inode, fd, exec, leaked, fsLock, reg, miss, got, mode>>
      /\ Then(p, <<>>) /\ disk' = [disk EXCEPT ![s] = n]
  BY <1>2 DEF InodeCreate
<1>4. 1 \in 1 .. Len(T) /\ Has(T, Making)
  <2>1. 1 \in 1 .. Len(T)
    BY <1>2, TailOf
  <2> QED
    BY <1>2, <2>1 DEF Has, Making
<1>5. /\ reg[p] \in Seq(FileSector) /\ reg[p] # <<>> /\ IsInjective(reg[p])
      /\ ~Caught(p, s) /\ Allots(T, Len(reg[p]) - 1)
  BY <1>2, <1>4 DEF NewRight, Plans
<1>6. /\ Tail(reg[p]) \in Seq(FileSector) /\ Len(reg[p]) \in Nat \ {0}
      /\ Len(Tail(reg[p])) = Len(reg[p]) - 1 /\ s \in FileSector
  BY <1>5, TailOf
<1>7. Len(reg[p]) - 1 \in 0 .. MaxLen
  <2>1. Early(T) = 0
    BY <1>2, EarlyRest
  <2>2. (Len(reg[p]) - 1) + (1 - 1 - Early(T)) <= MaxLen
    BY <1>2, <1>4, <1>5 DEF Allots
  <2> QED
    BY <2>1, <2>2, <1>6, FilesAssumption
<1>8. n \in Contents
  <2>2. Tail(reg[p]) \in BoundedSeq(FileSector \cup {MapData, RootData}, MaxLen)
    <3>1. /\ FileSector \subseteq FileSector \cup {MapData, RootData} /\ MaxLen \in Nat
          /\ Tail(reg[p]) \in Seq(FileSector) /\ Len(Tail(reg[p])) <= MaxLen
      BY <1>6, <1>7, FilesAssumption
    <3> QED
      BY <3>1, BoundedOf
  <2> QED
    BY <2>2, <1>7 DEF Contents
<1>9. s \notin File
  <2>1. s \in Made(p)
    <3>1. 1 \in DOMAIN reg[p]
      BY <1>5, <1>6
    <3> QED
      BY <3>1, <1>4 DEF Made, ToSet
  <2> QED
    BY <2>1, <1>2, FileFacts DEF OwnersRight
<1>10. \E t \in FileSector \ File, d \in Contents : disk' = [disk EXCEPT ![t] = d]
  BY <1>3, <1>6, <1>8, <1>9
<1>11. ASSUME todo'[p] = R, DiskRight', InDir' = InDir, File' = File,
              \A t : Caught(p, t)' <=> Caught(p, t)
       PROVE  NewRight(p)' /\ NamesRight(p)' /\ DataRight(p)'
  <2>1. disk'[s] = n
    BY <1>2, <1>3, <1>6, Sectors DEF DiskRight
  <2>2. reg'[p] = reg[p] /\ reg'[p][1] = s
    BY <1>3
  <2>3. R # <<>> /\ R[1].op = "unique"
    BY <1>2, FitRest DEF MayFollow, MayEnd
  <2>4. /\ \A ops : Has(R, ops) <=> ("unique" \in ops \/ "close" \in ops)
        /\ \A ops, f : HasOn(R, ops, f) => ("unique" \in ops \/ "close" \in ops)
    <3>1. /\ \A ops : Has(R, ops) <=> (R[1].op \in ops \/ Has(Tail(R), ops))
      BY <1>2, <2>3, HeadOf
    <3>2. \A ops : Has(Tail(R), ops) <=> "close" \in ops
      BY <1>2, <2>3, CreateEnd
    <3> QED
      BY <2>3, <3>1, <3>2, HasOnHas
  <2>5. NewRight(p)'
    <3>1. \A m : Allots(R, m)
      <4>1. ~Has(R, {"newinode"})
        BY <2>4
      <4> QED
        BY <4>1 DEF Allots, Has
    <3>2. ~Has(R, {"create"}) /\ \A t : ~HasOn(R, {"zero"}, t)
      BY <2>4
    <3>3. (Has(todo[p], Making) => /\ reg[p] # <<>> /\ IsInjective(reg[p]) /\ ~Caught(p, reg[p][1])
                                   /\ Allots(todo[p], Len(reg[p]) - 1))'
      BY <1>5, <1>11, <2>2, <3>1
    <3>4. (AtHead(todo[p], {"unique", "dirwrite"}) =>
             /\ disk[reg[p][1]] = OnDisk(Tail(reg[p]), Len(reg[p]) - 1)
             /\ Len(reg[p]) - 1 <= MaxLen)'
      BY <1>7, <2>1, <2>2
    <3> QED
      BY <1>11, <3>2, <3>3, <3>4 DEF NewRight
  <2>6. NamesRight(p)' /\ DataRight(p)'
    <3>1. ~Has(R, {"erase"}) /\ ~Has(R, {"deny"}) /\ ~Has(R, {"newfd"}) /\ ~Has(R, {"put"})
          /\ (\A t : ~HasOn(R, {"setlength"}, t)) /\ ~AtHead(R, {"open"}) /\ ~AtHead(R, {"readat"})
      BY <2>3, <2>4 DEF AtHead
    <3>2. NamesRight(p)'
      BY <1>11, <3>1, SMTT(30) DEF NamesRight, Has
    <3>3. DataRight(p)'
      BY <1>11, <3>1 DEF DataRight, Has, Growing
    <3> QED
      BY <3>2, <3>3
  <2> QED
    BY <2>5, <2>6
<1>12. todo'[p] = R /\ mode' = mode
  <2>1. todo'[p] = <<>> \o R
    BY <1>2, <1>3, HeadOf DEF Then, Plans
  <2> QED
    BY <2>1, <1>2, <1>3
<1> HIDE DEF s, n
<1> QED
  BY <1>2, <1>3, <1>10, <1>11, <1>12, PlainPop

LEMMA PopsTail ==
  ASSUME NEW p \in Proc, Plans, todo[p] # <<>>, Then(p, <<>>)
  PROVE  todo'[p] = Tail(todo[p])
<1>1. todo'[p] = <<>> \o Tail(todo[p]) /\ Tail(todo[p]) \in Seq(Tasks)
  BY HeadOf DEF Then, Plans
<1> QED
  BY <1>1

\* A block of a file goes through the cache.
LEMMA BlockPop ==
  ASSUME NEW p \in Proc, Focus(p), mode = "up", todo[p] # <<>>, Then(p, <<>>),
         todo[p][1].op \in {"readat", "put"},
         UNCHANGED <<disk, used, inode, exec, leaked, fsLock, reg, mode, lost>>,
         SameFds, fd' \in [Proc -> {None} \cup [sector : FileSector, pos : Nat]],
         miss' \in [Proc -> Misses], \A q \in Proc \ {p} : miss'[q] = miss[q],
         CacheRight(p)',
         \A s : s # Wants(p) => Logical(s)' = Logical(s),
         \A s : Caught(p, s)' => Caught(p, s) \/ s = Wants(p)
  PROVE  Focus(p)'
<1> DEFINE T == todo[p]
<1> DEFINE R == Tail(T)
<1>1. Is(p, T[1].op)
  BY HeadOf DEF Is, Focus, Plans
<1>2. /\ T # <<>> /\ Fit(T) /\ T \in Seq(Tasks) /\ ~Quiet(p)
      /\ Plans /\ DiskRight /\ SystemData(p) /\ HandleTypes /\ OwnersRight(p)
  BY <1>1, Begin
<1>3. Wants(p) \in FileSector /\ Wants(p) \notin File
  BY BlockSector
<1>4. todo'[p] = R
  BY <1>2, PopsTail
<1>5. DiskRight'
  BY <1>2 DEF DiskRight
<1>6. T[1].op \notin Settling \cup {"load", "grow", "off", "unlock"} /\ T[1].op \notin {"mapwrite", "flush", "close", "newinode"}
  BY DEF Settling
<1>7. \A t \in {MapData, RootData} : Logical(t)' = Logical(t) /\ disk'[t] = disk[t]
  BY <1>3, Sectors
<1>8. SystemData(p)'
  <2>1. ~AtHead(T, {"mapwrite"}) /\ ~AtHeadOn(T, "flush", RootData)
    BY <1>6 DEF AtHead, AtHeadOn
  <2>2. RootOpen(T) => RootOpen(R)
    BY <1>2, <1>6, HeadOf DEF CloseRoot
  <2>3. ~AtHead(R, {"off"})
    BY <1>2, <1>6, AfterHead
  <2> HIDE DEF R
  <2> QED
    BY <1>2, <1>4, <1>7, <2>1, <2>2, <2>3, KeepSystemData
<1>9. ~Has(T, Making) /\ ~Has(T, {"create"})
  <2>1. ~Has(R, Making) /\ ~Has(R, {"create"})
    BY <1>2, NotLater DEF MayPrecede, Making
  <2>2. \A ops : Has(T, ops) <=> (T[1].op \in ops \/ Has(R, ops))
    BY <1>2, HeadOf
  <2> QED
    BY <2>1, <2>2 DEF Making
<1>10. Logical(RootData)' = Logical(RootData)
  BY <1>7
<1>11. \A f \in File : Caught(p, f)' => Caught(p, f)
  BY <1>3
<1> QED
  BY <1>2, <1>5, <1>6, <1>8, <1>9, <1>10, <1>11, PopStep

LEMMA ReadBlockStep ==
  ASSUME NEW p \in Proc, Focus(p), ReadBlock(p), lost' = lost
  PROVE  Focus(p)'
<1>1. Is(p, "readat")
  BY DEF ReadBlock
<1>2. /\ todo[p] # <<>> /\ todo[p][1].op = "readat" /\ mode = "up"
      /\ Plans /\ Turn(p) /\ CacheRight(p) /\ DiskRight /\ HandleTypes
  BY <1>1, Begin
<1>3. PICK c \in Accessed(p) :
        /\ Fetched(p, c)
        /\ IF Arg(p)[2] /\ fd[p] # None
           THEN /\ got' = [got EXCEPT ![p] = Old(c).data]
                /\ fd' = [fd EXCEPT ![p].pos = @ + 1]
           ELSE UNCHANGED <<got, fd>>
  BY DEF ReadBlock
<1>4. Then(p, <<>>) /\ UNCHANGED <<disk, used, inode, exec, leaked, fsLock, reg, mode>>
  BY DEF ReadBlock
<1>5. Wants(p) \in Cachable
  BY <1>2, BlockSector DEF Cachable
<1>6. /\ miss' \in [Proc -> Misses] /\ \A q \in Proc \ {p} : miss'[q] = miss[q]
      /\ CacheRight(p)'
      /\ \A s : Logical(s)' = Logical(s)
      /\ \A s : Caught(p, s)' => Caught(p, s) \/ s = Wants(p)
  BY <1>2, <1>3, <1>4, <1>5, OnFetch
<1>7. SameFds /\ fd' \in [Proc -> {None} \cup [sector : FileSector, pos : Nat]]
  <2>1. CASE Arg(p)[2] /\ fd[p] # None
    <3>1. fd' = [fd EXCEPT ![p].pos = @ + 1] /\ fd[p] \in [sector : FileSector, pos : Nat]
      BY <2>1, <1>2, <1>3 DEF HandleTypes
    <3> DEFINE g == [fd[p] EXCEPT !.pos = @ + 1]
    <3>2. g \in [sector : FileSector, pos : Nat] /\ g.sector = fd[p].sector
      BY <3>1
    <3>3. g # None
      BY <3>2, NoneAssumption, Sectors
    <3>4. fd' = [fd EXCEPT ![p] = g]
      BY <3>1
    <3> HIDE DEF g
    <3> QED
      BY <2>1, <3>2, <3>3, <3>4, <1>2 DEF HandleTypes, SameFds
  <2>2. CASE ~(Arg(p)[2] /\ fd[p] # None)
    <3>1. fd' = fd
      BY <2>2, <1>3
    <3> QED
      BY <3>1, <1>2, SameFdsNow
  <2> QED
    BY <2>1, <2>2
<1>8. todo[p][1].op \in {"readat", "put"}
  BY <1>2
<1> QED
  BY <1>2, <1>4, <1>6, <1>7, <1>8, BlockPop

LEMMA PutBlockStep ==
  ASSUME NEW p \in Proc, Focus(p), PutBlock(p), lost' = lost
  PROVE  Focus(p)'
<1>1. Is(p, "put")
  BY DEF PutBlock
<1>2. /\ todo[p] # <<>> /\ todo[p][1].op = "put" /\ mode = "up" /\ Arg(p) = todo[p][1].arg
      /\ Meant(todo[p][1])
      /\ Plans /\ Turn(p) /\ CacheRight(p) /\ DiskRight /\ HandleTypes
  BY <1>1, Begin
<1>3. PICK c \in Accessed(p) : Stored(p, c, Data(Arg(p)[2]))
  BY DEF PutBlock
<1>4. /\ Then(p, <<>>) /\ UNCHANGED <<disk, used, inode, exec, leaked, fsLock, reg, mode>>
      /\ fd' = IF fd[p] # None THEN [fd EXCEPT ![p].pos = @ + 1] ELSE fd
  BY DEF PutBlock
<1>5. Wants(p) \in Cachable
  BY <1>2, BlockSector DEF Cachable
<1>9. Data(Arg(p)[2]) \in Contents
  BY <1>2 DEF Meant, Contents
<1>6. /\ miss' \in [Proc -> Misses] /\ \A q \in Proc \ {p} : miss'[q] = miss[q]
      /\ CacheRight(p)'
      /\ \A s : s # Wants(p) => Logical(s)' = Logical(s)
      /\ \A s : Caught(p, s)' => Caught(p, s) \/ s = Wants(p)
  BY <1>2, <1>3, <1>4, <1>5, <1>9, OnStore
<1>7. SameFds /\ fd' \in [Proc -> {None} \cup [sector : FileSector, pos : Nat]]
  <2>1. CASE fd[p] # None
    <3>1. fd' = [fd EXCEPT ![p].pos = @ + 1] /\ fd[p] \in [sector : FileSector, pos : Nat]
      BY <2>1, <1>2, <1>4 DEF HandleTypes
    <3> DEFINE g == [fd[p] EXCEPT !.pos = @ + 1]
    <3>2. g \in [sector : FileSector, pos : Nat] /\ g.sector = fd[p].sector
      BY <3>1
    <3>3. g # None
      BY <3>2, NoneAssumption, Sectors
    <3>4. fd' = [fd EXCEPT ![p] = g]
      BY <3>1
    <3> HIDE DEF g
    <3> QED
      BY <2>1, <3>2, <3>3, <3>4, <1>2 DEF HandleTypes, SameFds
  <2>2. CASE fd[p] = None
    <3>1. fd' = fd
      BY <2>2, <1>4
    <3> QED
      BY <3>1, <1>2, SameFdsNow
  <2> QED
    BY <2>1, <2>2
<1>8. todo[p][1].op \in {"readat", "put"}
  BY <1>2
<1> QED
  BY <1>2, <1>4, <1>6, <1>7, <1>8, BlockPop

LEMMA MapWriteStep ==
  ASSUME NEW p \in Proc, Focus(p), MapWrite(p), lost' = lost
  PROVE  Focus(p)'
<1> DEFINE T == todo[p]
<1> DEFINE R == Tail(T)
<1>1. Is(p, "mapwrite")
  BY DEF MapWrite
<1>2. /\ T # <<>> /\ T[1].op = "mapwrite" /\ mode = "up" /\ Fit(T) /\ ~Quiet(p)
      /\ Plans /\ Turn(p) /\ CacheRight(p) /\ DiskRight /\ HandleTypes
      /\ SystemData(p) /\ OwnersRight(p) /\ NewRight(p)
  BY <1>1, Begin
<1>3. PICK c \in Accessed(p) : Stored(p, c, Map(used))
  BY DEF MapWrite
<1>4. Then(p, <<>>) /\ UNCHANGED <<disk, used, inode, fd, exec, leaked, fsLock, reg, got, mode>>
  BY SMTT(30) DEF MapWrite
<1>5. Wants(p) = MapData /\ Wants(p) \in Cachable
  BY <1>2, WantsOf DEF Cachable
<1>9. Map(used) \in Contents
  BY <1>2 DEF DiskRight, Contents
<1>6. /\ miss' \in [Proc -> Misses] /\ \A q \in Proc \ {p} : miss'[q] = miss[q]
      /\ CacheRight(p)'
      /\ \A s : s # MapData => Logical(s)' = Logical(s)
      /\ LogicalOf(cache', miss', disk', MapData) = Map(used)
      /\ \A s : Caught(p, s)' => Caught(p, s) \/ s = MapData
  BY <1>2, <1>3, <1>4, <1>5, <1>9, OnStore
<1>7. Logical(MapData)' = Map(used) /\ Logical(RootData)' = Logical(RootData)
  BY <1>6, LogicalDef, Sectors
<1>8. todo'[p] = R
  BY <1>2, <1>4, PopsTail
<1>10. DiskRight'
  BY <1>2, <1>4 DEF DiskRight
<1>11. SystemData(p)'
  <2>1. ~AtHead(R, {"off"})
    BY <1>2, AfterHead
  <2>2. RootOpen(T) => RootOpen(R)
    BY <1>2, HeadOf DEF CloseRoot
  <2>3. ~AtHeadOn(T, "flush", RootData)
    BY <1>2 DEF AtHeadOn
  <2>4. (Logical(MapData) = Map(used))'
    BY <1>4, <1>7 DEF Map
  <2>5. DirKind(Logical(RootData))' /\ (disk[RootData] = Logical(RootData) \/ RootOpen(todo[p]))'
    BY <1>2, <1>4, <1>7, <1>8, <2>2, <2>3 DEF SystemData, DirKind
  <2> QED
    BY <2>1, <2>4, <2>5, <1>8 DEF SystemData
<1>12. /\ \A f \in File : Caught(p, f)' => Caught(p, f)
       /\ Has(T, Making) => (Caught(p, reg[p][1])' => Caught(p, reg[p][1]))
       /\ Has(T, {"create"}) => \A s \in Free : Caught(p, s)' => Caught(p, s)
  <2>1. \A s \in FileSector : Caught(p, s)' => Caught(p, s)
    BY <1>6, Sectors
  <2>2. reg[p] \in Seq(FileSector)
    BY <1>2 DEF Plans
  <2>3. Has(T, Making) => reg[p][1] \in FileSector
    BY <1>2, <2>2, TailOf DEF NewRight
  <2>4. File \subseteq FileSector /\ Free \subseteq FileSector
    BY <1>2, FileFacts
  <2>5. \A f \in File : Caught(p, f)' => Caught(p, f)
    BY <2>1, <2>4
  <2>6. Has(T, Making) => (Caught(p, reg[p][1])' => Caught(p, reg[p][1]))
    BY <2>1, <2>3, <1>4
  <2>7. \A s \in Free : Caught(p, s)' => Caught(p, s)
    BY <2>1, <2>4
  <2> QED
    BY <2>5, <2>6, <2>7
<1>13. SameFds /\ fd' \in [Proc -> {None} \cup [sector : FileSector, pos : Nat]]
  BY <1>2, <1>4, SameFdsNow
<1>14. T[1].op \notin Settling \cup {"load", "grow", "off", "unlock", "newinode"}
  BY <1>2 DEF Settling
<1> QED
  BY <1>2, <1>4, <1>6, <1>7, <1>10, <1>11, <1>12, <1>13, <1>14, PopStep

-----------------------------------------------------------------------------
\* Steps by which p puts tasks before the rest of its plan.
LEMMA NewHead ==
  ASSUME NEW b \in Tasks, NEW R \in Seq(Tasks), NEW U, U = <<b>> \o R
  PROVE  /\ U \in Seq(Tasks) /\ U # <<>> /\ U[1] = b /\ Tail(U) = R /\ 1 \in 1 .. Len(U)
         /\ Len(U) = Len(R) + 1 /\ Len(R) \in Nat
         /\ \A i \in 2 .. Len(U) : U[i] = R[i - 1] /\ i - 1 \in 1 .. Len(R)
         /\ \A ops : Has(U, ops) <=> (b.op \in ops \/ Has(R, ops))
         /\ \A ops, f : HasOn(U, ops, f) <=> ((b.op \in ops /\ b.sector = f) \/ HasOn(R, ops, f))
         /\ RegHeld(U) <=> (b.op # "lookup" /\ (b.op \in Naming \/ RegHeld(R)))
         /\ RootOpen(U) <=> (~OpenRoot(b) /\ (CloseRoot(b) \/ RootOpen(R)))
<1>1. /\ U \in Seq(Tasks) /\ U # <<>> /\ U[1] = b /\ Tail(U) = R
      /\ Len(U) = Len(R) + 1 /\ Len(R) \in Nat
      /\ \A i \in 2 .. Len(R) + 1 : U[i] = R[i - 1]
  BY ConsOf
<1>2. \A i \in 2 .. Len(U) : U[i] = R[i - 1] /\ i - 1 \in 1 .. Len(R)
  BY <1>1
<1>3. 1 \in 1 .. Len(U)
  BY <1>1
<1> QED
  BY <1>1, <1>2, <1>3, OnCons

LEMMA MoveStep ==
  ASSUME NEW p \in Proc, Focus(p), mode = "up", mode' = mode, ~Quiet(p),
         NEW U, Moves(p, U),
         UNCHANGED <<inode, exec, leaked, lost, used, fsLock>>,
         reg' \in [Proc -> Seq(FileSector)],
         SameFds, fd' \in [Proc -> {None} \cup [sector : FileSector, pos : Nat]],
         miss' \in [Proc -> Misses], \A q \in Proc \ {p} : miss'[q] = miss[q],
         CacheRight(p)', DiskRight', SystemData(p)',
         Logical(RootData)' = Logical(RootData),
         \A f \in File : disk'[f] = disk[f],
         \A f \in File : Caught(p, f)' => Caught(p, f),
         Has(U, {"unlock"}) <=> Has(todo[p], {"unlock"}),
         \A f : HasOn(U, DataOps, f) /\ Has(U, {"unlock"}) => HasOn(todo[p], DataOps, f),
         \A f \in FileSector : Held(p, f)' <=> Held(p, f),
         RootOpen(U) <=> RootOpen(todo[p]),
         \A f \in File : Growing(p, f) => HasOn(U, {"setlength"}, f),
         \A f \in File : Writing(p, f) => HasOn(U, {"setlength", "writeinode"}, f),
         Made(p)' = Made(p), ToGive(p)' = ToGive(p),
         todo[p][1].op \notin {"off", "flush", "load"}, ~AtHead(U, {"load"}),
         File' = File /\ InDir' = InDir => NewRight(p)' /\ NamesRight(p)' /\ DataRight(p)'
  PROVE  Focus(p)'
<1>1. Plans /\ Turn(p)
  BY DEF Focus
<1>2. \A q \in Proc : fd[q] # None => fd'[q] # None /\ fd'[q].sector = fd[q].sector
  BY DEF SameFds
<1>3. Plans' /\ Turn(p)' /\ todo'[p] = U
  BY <1>1, <1>2, KeepPlans
<1>4. /\ InDir' = InDir /\ Named' = Named /\ File' = File
      /\ HandleTypes' /\ SystemInodes(p)' /\ Counted(p)' /\ Unnamed' /\ LoadedRight(p)'
      /\ InodesRight(p)' /\ OwnersRight(p)'
  <2>1. /\ ~AtHead(todo[p], {"off"}) /\ ~AtHeadOn(todo[p], "flush", MapData)
        /\ \A s : ~AtHeadOn(todo[p], "load", s)
    BY DEF AtHead, AtHeadOn
  <2>2. \A f \in File : Growing(p, f) => Growing(p, f)'
    BY <1>3 DEF Growing
  <2>3. \A f \in File : Writing(p, f) => Writing(p, f)'
    BY <1>3 DEF Writing
  <2>4. (RootOpen(todo'[p]) <=> RootOpen(todo[p])) /\ ~AtHead(todo'[p], {"load"})
    BY <1>3
  <2> QED
    BY <2>1, <2>2, <2>3, <2>4, Steady
<1>5. OffRight(p)'
  BY DEF OffRight
<1> QED
  BY <1>3, <1>4, <1>5 DEF Focus

LEMMA ReadAtStep ==
  ASSUME NEW p \in Proc, Focus(p), ReadAt(p), lost' = lost
  PROVE  Focus(p)'
<1> DEFINE T == todo[p]
<1> DEFINE R == Tail(T)
<1> DEFINE a == T[1]
<1> DEFINE f == a.sector
<1> DEFINE b == Task("readat", f, a.arg)
<1> DEFINE U == <<b>> \o R
<1>1. Is(p, "read")
  BY DEF ReadAt
<1>2. /\ T # <<>> /\ a.op = "read" /\ mode = "up" /\ Fit(T) /\ ~Quiet(p) /\ Meant(a)
      /\ S(p) = f /\ Arg(p) = a.arg /\ Fit(R) /\ R \in Seq(Tasks)
      /\ Plans /\ Turn(p) /\ CacheRight(p) /\ DiskRight /\ HandleTypes
      /\ SystemData(p) /\ OwnersRight(p) /\ NewRight(p) /\ NamesRight(p) /\ DataRight(p)
  BY <1>1, Begin, SMTT(30)
<1>3. /\ UNCHANGED <<disk, cache, used, inode, fd, exec, leaked, fsLock, reg, miss, got, mode>>
      /\ Then(p, IF a.arg[1] <= inode[f].data.length THEN <<b>> ELSE <<>>)
  BY <1>2 DEF ReadAt
<1>4. CASE ~(a.arg[1] <= inode[f].data.length)
  BY <1>2, <1>3, <1>4, PlainPop, SMTT(30)
<1>5. CASE a.arg[1] <= inode[f].data.length
  <2>1. a \in Tasks /\ b \in Tasks /\ b.op = "readat" /\ b.sector = f /\ b.arg = a.arg
    BY <1>2, HeadOf DEF Tasks, Task, Op
  <2> HIDE DEF b
  <2>2. Meant(b)
    BY <2>1, <1>2 DEF Meant
  <2>3. Fit(U)
    <3>1. R # <<>> => MayFollow(b, R[1])
      BY <1>2, <2>1, FitRest DEF MayFollow
    <3>2. R # <<>>
      BY <1>2, FitRest DEF MayEnd
    <3>3. \A j \in 1 .. Len(R) : MayPrecede(b, R[j])
      BY <1>2, <2>1, FitRest DEF MayPrecede, CloseRoot
    <3> QED
      BY <1>2, <2>1, <2>2, <3>1, <3>2, <3>3, FitCons
  <2>4. /\ U \in Seq(Tasks) /\ U # <<>> /\ U[1] = b
        /\ \A ops : Has(U, ops) <=> (b.op \in ops \/ Has(R, ops))
        /\ \A ops, g : HasOn(U, ops, g) <=> ((b.op \in ops /\ b.sector = g) \/ HasOn(R, ops, g))
        /\ RegHeld(U) <=> (b.op # "lookup" /\ (b.op \in Naming \/ RegHeld(R)))
        /\ RootOpen(U) <=> (~OpenRoot(b) /\ (CloseRoot(b) \/ RootOpen(R)))
    <3>1. U = <<b>> \o R /\ R \in Seq(Tasks)
      BY <1>2
    <3> HIDE DEF U, R
    <3> QED
      BY <2>1, <3>1, NewHead, ZenonT(60)
  <2>5. /\ \A ops : Has(T, ops) <=> (a.op \in ops \/ Has(R, ops))
        /\ \A ops, g : HasOn(T, ops, g) <=> ((a.op \in ops /\ a.sector = g) \/ HasOn(R, ops, g))
        /\ RegHeld(T) <=> (a.op # "lookup" /\ (a.op \in Naming \/ RegHeld(R)))
        /\ RootOpen(T) <=> (~OpenRoot(a) /\ (CloseRoot(a) \/ RootOpen(R)))
    BY <1>2, HeadOf
  <2> HIDE DEF U, R, a, T
  <2>6. Moves(p, U) /\ todo'[p] = U
    <3>1. todo' = [todo EXCEPT ![p] = U]
      BY <1>3, <1>5 DEF Then, U, R, T
    <3> QED
      BY <3>1, <2>1, <2>3, <2>4, <1>2 DEF Moves, Plans
  <2>7. \A o \in {{"unlock"}, {"close"}, {"setlength"}, {"setlength", "writeinode"}, {"release"},
                  Making, {"create"}, {"zero"}} :
          (Has(U, o) <=> Has(T, o)) /\ \A g : HasOn(U, o, g) <=> HasOn(T, o, g)
    BY <1>2, <2>1, <2>4, <2>5 DEF Making
  <2>8. (RegHeld(U) <=> RegHeld(T)) /\ (RootOpen(U) <=> RootOpen(T))
    BY <1>2, <2>1, <2>4, <2>5 DEF Naming, OpenRoot, CloseRoot
  <2>9. \A g : HasOn(U, DataOps, g) => HasOn(T, DataOps, g)
    BY <1>2, <2>1, <2>4, <2>5 DEF DataOps
  <2>10. (\A g : ~AtHeadOn(U, "open", g) /\ ~AtHeadOn(T, "open", g))
         /\ ~AtHead(U, {"off"}) /\ ~AtHead(U, {"load"}) /\ ~AtHead(U, {"open"}) /\ ~AtHead(U, {"unique", "dirwrite"})
         /\ ~AtHead(T, {"mapwrite"}) /\ ~AtHeadOn(T, "flush", RootData)
    BY <1>2, <2>1, <2>4 DEF AtHead, AtHeadOn, a
  <2>11. /\ \A g \in FileSector : Held(p, g)' <=> Held(p, g)
         /\ Made(p)' = Made(p) /\ ToGive(p)' = ToGive(p)
         /\ \A g : Growing(p, g)' <=> Growing(p, g)
         /\ \A g : Writing(p, g) <=> HasOn(U, {"setlength", "writeinode"}, g)
    <3>1. \A g \in FileSector : Held(p, g)' <=> Held(p, g)
      BY <1>3, <2>6, <2>7, <2>8, <2>10 DEF Held, T
    <3>2. Made(p)' = Made(p)
      BY <1>3, <2>6, <2>7 DEF Made, T
    <3>3. ToGive(p)' = ToGive(p)
      BY <1>3, <2>6, <2>7 DEF ToGive, T
    <3>4. \A g : Growing(p, g)' <=> Growing(p, g)
      BY <2>6, <2>7 DEF Growing, T
    <3>5. \A g : Writing(p, g) <=> HasOn(U, {"setlength", "writeinode"}, g)
      BY <2>6, <2>7 DEF Writing, T
    <3> QED
      BY <3>1, <3>2, <3>3, <3>4, <3>5
  <2>12. /\ miss' \in [Proc -> Misses] /\ \A q \in Proc \ {p} : miss'[q] = miss[q]
         /\ CacheRight(p)'
         /\ \A t : Caught(p, t)' <=> Caught(p, t)
         /\ \A t : disk'[t] = disk[t] \/ InCache(t) => Logical(t)' = Logical(t)
    <3>1. Wants(p) = None
      BY <1>2, WantsOf DEF T, a
    <3> QED
      BY <1>2, <1>3, <3>1, NoAccess
  <2>13. DiskRight' /\ \A t : Logical(t)' = Logical(t)
    BY <1>2, <1>3, <2>12 DEF DiskRight
  <2>14. SystemData(p)'
    <3>1. \A t \in {MapData, RootData} : Logical(t)' = Logical(t) /\ disk'[t] = disk[t]
      BY <1>3, <2>13
    <3> QED
      BY <1>2, <1>3, <2>6, <2>8, <2>10, <3>1, KeepSystemData DEF T
  <2>15. SameFds /\ fd' \in [Proc -> {None} \cup [sector : FileSector, pos : Nat]]
    BY <1>2, <1>3, SameFdsNow
  <2>16. NewRight(p)' /\ NamesRight(p)' /\ DataRight(p)'
    <3> DEFINE ops == Making \cup {"create", "zero", "erase", "deny", "newfd", "setlength", "put"}
    <3>1. \A d \in Tasks : d.op \in ops => ~MayPrecede(a, d)
      BY <1>2 DEF MayPrecede, Making, CloseRoot
    <3>2. ~Has(R, ops)
      <4> HIDE DEF ops
      <4> QED
        BY <1>2, <3>1, NotLater DEF R, a
    <3>3. ~Has(U, ops)
      BY <2>1, <2>4, <3>2 DEF Making
    <3> QED
      BY <1>3, <1>5, <2>1, <2>4, <2>6, <2>10, <3>3, Calm
  <2>17. a.op \notin {"off", "flush", "load"} /\ Logical(RootData)' = Logical(RootData)
    BY <1>2, <2>13
  <2>18. reg' \in [Proc -> Seq(FileSector)] /\ (Has(U, {"unlock"}) <=> Has(T, {"unlock"}))
         /\ (\A g \in File : Caught(p, g)' => Caught(p, g)) /\ (\A g \in File : disk'[g] = disk[g])
    BY <1>2, <1>3, <2>7, <2>12 DEF Plans
  <2>19. \A g \in File : Growing(p, g) => HasOn(U, {"setlength"}, g)
    BY <2>6, <2>11 DEF Growing
  <2> QED
    BY <1>2, <1>3, <2>6, <2>8, <2>9, <2>10, <2>11, <2>12, <2>13, <2>14, <2>15, <2>16, <2>17, <2>18, <2>19,
       MoveStep DEF T, a
<1> QED
  BY <1>4, <1>5

-----------------------------------------------------------------------------
\* The machine stops: everything else stays as it is.
LEMMA ModeStep ==
  ASSUME NEW p \in Proc, Focus(p), mode' \in {"up", "off", "panic"},
         mode' = "off" => AtHead(todo[p], {"off"}),
         UNCHANGED <<disk, cache, used, inode, fd, exec, leaked, fsLock, todo, reg, miss, lost>>
  PROVE  Focus(p)'
<1>1. (\A s : Logical(s)' = Logical(s)) /\ (\A s : InCache(s)' <=> InCache(s))
  BY LogicalDef
<1>2. Plans' /\ Turn(p)'
  BY DEF Focus, Plans, Turn, Quiet, Idle
<1>3. Wants(p)' = Wants(p)
  BY DEF Wants, S, Arg
<1>4. \A s : Caught(p, s)' <=> Caught(p, s)
  BY <1>1 DEF Caught
<1>5. CacheRight(p)'
  <2>1. Quiet(p)' <=> Quiet(p)
    BY DEF Quiet
  <2>2. InCache(Wants(p))' <=> InCache(Wants(p))
    BY <1>3 DEF InCache, Hit, SelectInSeq
  <2>3. InCache(miss[p].victim.sector)' <=> InCache(miss[p].victim.sector)
    BY DEF InCache, Hit, SelectInSeq
  <2> QED
    BY <2>1, <2>2, <2>3, <1>3 DEF Focus, CacheRight
<1>6. DiskRight' /\ HandleTypes' /\ SystemInodes(p)'
  BY DEF Focus, DiskRight, HandleTypes, SystemInodes
<1>7. SystemData(p)'
  <2>1. Logical(MapData)' = Logical(MapData) /\ Logical(RootData)' = Logical(RootData)
    BY <1>1
  <2> QED
    BY <2>1 DEF Focus, SystemData, DirKind
<1>8. InDir' = InDir /\ Named' = Named /\ File' = File
  BY <1>1, KeepFiles
<1>9. \A f : Held(p, f)' <=> Held(p, f)
  BY DEF Held
<1>10. Counted(p)'
  BY <1>9, KeepCounts DEF Focus, SameFds
<1>11. Unnamed' /\ LoadedRight(p)'
  BY <1>8 DEF Focus, Unnamed, LoadedRight
<1>12. \A f : InodeOf(f)' = InodeOf(f)
  BY DEF InodeOf
<1>13. InodesRight(p)'
  BY <1>4, <1>8, <1>12, KeepInodes DEF Focus, Growing, Writing
<1>14. OwnersRight(p)'
  <2>1. Made(p)' = Made(p) /\ ToGive(p)' = ToGive(p)
    BY DEF Made, ToGive
  <2> QED
    BY <2>1, <1>8, <1>12, KeepOwners DEF Focus
<1>15. NewRight(p)'
  BY <1>4, <1>8, SMTT(30) DEF Focus, NewRight, Free
<1>16. NamesRight(p)' /\ DataRight(p)'
  BY <1>8 DEF Focus, NamesRight, DataRight, Growing
<1>17. OffRight(p)'
  BY DEF OffRight
<1> QED
  BY <1>2, <1>5, <1>6, <1>7, <1>10, <1>11, <1>13, <1>14, <1>15, <1>16, <1>17 DEF Focus

LEMMA PowerOffStep ==
  ASSUME NEW p \in Proc, Focus(p), PowerOff(p), lost' = lost
  PROVE  Focus(p)'
<1>1. Is(p, "off")
  BY DEF PowerOff
<1>2. AtHead(todo[p], {"off"})
  BY <1>1, Begin DEF AtHead
<1> QED
  BY <1>2, ModeStep DEF PowerOff

LEMMA PanicStep ==
  ASSUME NEW p \in Proc, Focus(p), Panic(p), lost' = lost
  PROVE  Focus(p)'
BY ModeStep DEF Panic

\* A step inside an access to the cache: every sector still reads the same.
LEMMA CacheStep ==
  ASSUME NEW p \in Proc, Focus(p), mode = "up", mode' = mode, todo[p] # <<>>, Wants(p) # None,
         UNCHANGED <<used, inode, fd, exec, leaked, fsLock, todo, reg, lost>>,
         miss' \in [Proc -> Misses], \A q \in Proc \ {p} : miss'[q] = miss[q],
         CacheRight(p)', DiskRight', \A s : Logical(s)' = Logical(s),
         \A s : Caught(p, s)' => Caught(p, s),
         \A s \in FileSector : ~Caught(p, s) => disk'[s] = disk[s],
         \A s \in {MapData, RootData} : disk'[s] = disk[s] \/ disk'[s] = Logical(s)
  PROVE  Focus(p)'
<1> DEFINE T == todo[p]
<1>0. /\ Plans /\ Turn(p) /\ SystemData(p) /\ OwnersRight(p) /\ NewRight(p) /\ NamesRight(p)
      /\ DataRight(p) /\ InodesRight(p) /\ DiskRight
  BY SMTT(30) DEF Focus
<1>1. T[1].op \in {"mapwrite", "lookup", "find", "unique", "dirwrite", "erase", "readat", "put"}
  BY <1>0, WantsOf
<1>2. Plans' /\ Turn(p)'
  <2>1. Plans'
    BY <1>0 DEF Plans
  <2>2. Turn(p)'
    BY <1>0 DEF Turn, Quiet, Idle
  <2> QED
    BY <2>1, <2>2
<1>3. SystemData(p)'
  <2>1. ~AtHead(T, {"off"})
    BY <1>1 DEF AtHead
  <2>2. Logical(MapData)' = Logical(MapData) /\ Logical(RootData)' = Logical(RootData)
    OBVIOUS
  <2>3. disk'[RootData] = disk[RootData] \/ disk'[RootData] = Logical(RootData)
    OBVIOUS
  <2> QED
    BY <1>0, <2>1, <2>2, <2>3 DEF SystemData, DirKind
<1>4. /\ \A f \in File : disk'[f] = disk[f]
      /\ File \subseteq FileSector /\ Free \subseteq FileSector
  BY <1>0, FileFacts DEF InodesRight, FileRight
<1>5. /\ \A f \in FileSector : Held(p, f)' <=> Held(p, f)
      /\ RootOpen(todo'[p]) <=> RootOpen(todo[p])
      /\ \A f : Growing(p, f)' <=> Growing(p, f)
      /\ \A f : Writing(p, f)' <=> Writing(p, f)
      /\ Made(p)' = Made(p) /\ ToGive(p)' = ToGive(p)
      /\ SameFds /\ fd' \in [Proc -> {None} \cup [sector : FileSector, pos : Nat]]
  <2>1. SameFds /\ fd' \in [Proc -> {None} \cup [sector : FileSector, pos : Nat]]
    BY SameFdsNow DEF Focus
  <2>2. (\A f \in FileSector : Held(p, f)' <=> Held(p, f))
        /\ (RootOpen(todo'[p]) <=> RootOpen(todo[p]))
    BY DEF Held
  <2>3. (\A f : Growing(p, f)' <=> Growing(p, f)) /\ (\A f : Writing(p, f)' <=> Writing(p, f))
    BY DEF Growing, Writing
  <2>4. Made(p)' = Made(p) /\ ToGive(p)' = ToGive(p)
    BY DEF Made, ToGive
  <2> QED
    BY <2>1, <2>2, <2>3, <2>4
<1>6. /\ InDir' = InDir /\ Named' = Named /\ File' = File
      /\ HandleTypes' /\ SystemInodes(p)' /\ Counted(p)' /\ Unnamed' /\ LoadedRight(p)'
      /\ InodesRight(p)' /\ OwnersRight(p)'
  <2>1. ~AtHead(T, {"off"}) /\ (\A s : ~AtHeadOn(T, "flush", s)) /\ (\A s : ~AtHeadOn(T, "load", s))
        /\ ~AtHead(todo'[p], {"load"})
    BY <1>1 DEF AtHead, AtHeadOn
  <2> QED
    BY <1>4, <1>5, <2>1, Steady
<1>7. NewRight(p)'
  <2>1. reg[p] \in Seq(FileSector)
    BY <1>0 DEF Plans
  <2>2. Has(T, Making) => reg[p][1] \in FileSector /\ ~Caught(p, reg[p][1])
    BY <1>0, <2>1, TailOf DEF NewRight
  <2>3. Has(T, Making) => disk'[reg[p][1]] = disk[reg[p][1]]
    BY <2>2
  <2>4. AtHead(T, {"unique", "dirwrite"}) => Has(T, Making)
    <3>1. 1 \in 1 .. Len(T)
      BY <1>0, TailOf DEF Plans
    <3> QED
      BY <3>1 DEF AtHead, Has, Making
  <2>5. Free' = Free
    BY DEF Free
  <2>6. (Has(todo[p], Making) => /\ reg[p] # <<>> /\ IsInjective(reg[p]) /\ ~Caught(p, reg[p][1])
                                 /\ Allots(todo[p], Len(reg[p]) - 1))'
    <3>1. Has(todo[p], Making) => ~Caught(p, reg[p][1])'
      BY <2>2
    <3> QED
      BY <3>1, <1>0 DEF NewRight
  <2>7. (AtHead(todo[p], {"unique", "dirwrite"}) =>
           /\ disk[reg[p][1]] = OnDisk(Tail(reg[p]), Len(reg[p]) - 1)
           /\ Len(reg[p]) - 1 <= MaxLen)'
    BY <2>3, <2>4, <1>0 DEF NewRight
  <2>8. (Has(todo[p], {"create"}) => \A s \in Free : ~Caught(p, s))'
    BY <2>5, <1>0 DEF NewRight
  <2>9. (\A s \in FileSector : HasOn(todo[p], {"zero"}, s) => s \notin File)'
    BY <1>0, <1>6, SMTT(30) DEF NewRight
  <2> QED
    BY <2>6, <2>7, <2>8, <2>9 DEF NewRight
<1>8. NamesRight(p)' /\ DataRight(p)'
  BY <1>0, <1>6 DEF NamesRight, DataRight, Growing
<1>9. OffRight(p)'
  BY DEF OffRight
<1> QED
  BY <1>2, <1>3, <1>6, <1>7, <1>8, <1>9 DEF Focus

LEMMA MissStep ==
  ASSUME NEW p \in Proc, Focus(p), Miss(p), lost' = lost
  PROVE  Focus(p)'
<1>1. /\ mode = "up" /\ todo[p] # <<>> /\ Wants(p) # None
      /\ UNCHANGED <<disk, used, inode, fd, exec, leaked, fsLock, todo, reg, got, mode>>
  BY SMTT(30) DEF Miss
<1>2. Wants(p)' = Wants(p)
  BY <1>1 DEF Wants, S, Arg
<1>3. /\ miss' \in [Proc -> Misses] /\ \A q \in Proc \ {p} : miss'[q] = miss[q]
      /\ cache' \in Lists /\ Len(cache') < CacheSize
      /\ miss'[p].victim # None => /\ miss'[p].yes /\ ~In(cache', miss'[p].victim.sector)
                                   /\ miss'[p].victim.sector # Wants(p)
      /\ miss'[p].yes => ~InCache(Wants(p))' /\ Wants(p) # None
      /\ \A s : Logical(s)' = Logical(s)
      /\ \A s : Caught(p, s)' => Caught(p, s)
  BY <1>2, OnMiss, SMTT(30) DEF Focus
<1>4. todo[p][1].op # "lock"
  BY <1>1, WantsOf DEF Focus
<1>5. ~Quiet(p)'
  BY <1>1, <1>4 DEF Quiet
<1>6. CacheRight(p)'
  <2>1. cache' \in Seq(CachedBlocks) /\ Len(cache') <= CacheSize
        /\ \A i, j \in 1 .. Len(cache') : cache'[i].sector = cache'[j].sector => i = j
    <3>1. Len(cache') \in Nat /\ CacheSize \in Nat
      BY <1>3, FilesAssumption DEF Lists
    <3> QED
      BY <1>3, <3>1 DEF Lists
  <2>2. miss'[p].victim # None => ~InCache(miss[p].victim.sector)'
    <3> DEFINE v == miss'[p].victim.sector
    <3>1. \A s : InCache(s)' <=> HitIn(cache', s) > 0
      BY LogicalDef
    <3>2. \A s : HitIn(cache', s) > 0 <=> In(cache', s)
      BY <1>3, HitOf
    <3>3. miss'[p].victim # None => ~(HitIn(cache', v) > 0)
      BY <1>3, <3>2
    <3>4. InCache(miss[p].victim.sector)' <=> HitIn(cache', v) > 0
      BY DEF InCache, Hit, HitIn, SelectInSeq
    <3> QED
      BY <3>3, <3>4
  <2>3. miss'[p].yes => ~InCache(Wants(p))'
    BY <1>3
  <2> QED
    BY <2>1, <2>2, <2>3, <1>2, <1>3, <1>5 DEF CacheRight
<1>7. DiskRight'
  BY <1>1 DEF Focus, DiskRight
<1> QED
  BY <1>1, <1>3, <1>6, <1>7, CacheStep

LEMMA EvictStep ==
  ASSUME NEW p \in Proc, Focus(p), Evict(p), lost' = lost
  PROVE  Focus(p)'
<1> DEFINE v == miss[p].victim
<1>0. /\ Plans /\ Turn(p) /\ CacheRight(p) /\ DiskRight
  BY DEF Focus
<1>1. /\ mode = "up" /\ v # None
      /\ UNCHANGED <<cache, used, inode, fd, exec, leaked, fsLock, todo, reg, got, mode>>
  BY DEF Evict
<1>2. Wants(p)' = Wants(p)
  BY <1>1 DEF Wants, S, Arg
<1>3. miss[p].yes /\ ~Quiet(p) /\ Wants(p) # None /\ ~InCache(Wants(p)) /\ Len(cache) < CacheSize
  BY <1>0, <1>1 DEF CacheRight
<1>4. todo[p] # <<>>
  BY <1>3 DEF Quiet
<1>5. /\ miss' \in [Proc -> Misses] /\ \A q \in Proc \ {p} : miss'[q] = miss[q]
      /\ cache' = cache /\ miss'[p].victim = None /\ miss'[p].yes = miss[p].yes
      /\ \A s : Logical(s)' = Logical(s)
      /\ \A s : Caught(p, s)' => Caught(p, s)
  BY <1>0, OnEvict
<1>6. PICK e \in CachedBlocks : /\ Caught(p, e.sector) /\ e.data = Logical(e.sector)
                                /\ disk' = [disk EXCEPT ![e.sector] = e.data]
  BY <1>0, OnEvict
<1>7. CacheRight(p)'
  <2>1. InCache(Wants(p))' <=> InCache(Wants(p))
    BY <1>2, <1>5 DEF InCache, Hit, SelectInSeq
  <2>2. ~Quiet(p)'
    BY <1>1, <1>3 DEF Quiet
  <2> QED
    BY <2>1, <2>2, <1>0, <1>2, <1>3, <1>5 DEF CacheRight
<1>8. /\ e.sector \in Cachable /\ e.data \in Contents
      /\ e.sector \in Sector \ {FREE_MAP_SECTOR, ROOT_DIR_SECTOR}
  BY Sectors DEF CachedBlocks, Cachable
<1>9. DiskRight' /\ disk'[e.sector] = e.data /\ \A t \in Sector : t # e.sector => disk'[t] = disk[t]
  BY <1>0, <1>1, <1>6, <1>8, KeepDisk
<1>10. /\ \A s \in FileSector : ~Caught(p, s) => disk'[s] = disk[s]
       /\ \A s \in {MapData, RootData} : disk'[s] = disk[s] \/ disk'[s] = Logical(s)
  BY <1>6, <1>9, Sectors
<1> HIDE DEF v
<1> QED
  BY <1>1, <1>3, <1>4, <1>5, <1>7, <1>9, <1>10, CacheStep

-----------------------------------------------------------------------------
\* Steps that change the plan, reg, used and lost, and leave inodes and disk alone.
LEMMA ThenMoves ==
  ASSUME NEW p \in Proc, Plans, NEW N, Then(p, N), NEW U, U = N \o Tail(todo[p]), Fit(U),
         U # <<>> => U[1].op # "lock"
  PROVE  Moves(p, U) /\ todo'[p] = U
BY DEF Moves, Then, Plans

LEMMA ShiftStep ==
  ASSUME NEW p \in Proc, Focus(p), mode = "up", mode' = mode, ~Quiet(p),
         NEW U, Moves(p, U),
         UNCHANGED <<disk, inode, fd, exec, leaked, fsLock>>,
         reg' \in [Proc -> Seq(FileSector)],
         used' \subseteq Sector, used' = used \/ AtHead(U, {"mapwrite"}),
         miss' \in [Proc -> Misses], \A q \in Proc \ {p} : miss'[q] = miss[q],
         CacheRight(p)', \A s : Logical(s)' = Logical(s),
         \A s \in FileSector : Caught(p, s)' => Caught(p, s),
         Has(U, {"unlock"}) <=> Has(todo[p], {"unlock"}),
         \A f : HasOn(U, DataOps, f) /\ Has(U, {"unlock"}) => HasOn(todo[p], DataOps, f),
         \A f \in FileSector : Held(p, f)' <=> Held(p, f),
         RootOpen(U) <=> RootOpen(todo[p]),
         \A f \in FileSector : Growing(p, f) => HasOn(U, {"setlength"}, f),
         \A f \in FileSector : Writing(p, f) => HasOn(U, {"setlength", "writeinode"}, f),
         todo[p][1].op \notin {"off", "flush", "load", "mapwrite"}, ~AtHead(U, {"load", "off"}),
         File' = File /\ InDir' = InDir /\ Named' = Named /\ (\A f \in File : InodeOf(f)' = InodeOf(f))
           => OwnersRight(p)' /\ NewRight(p)' /\ NamesRight(p)' /\ DataRight(p)'
  PROVE  Focus(p)'
<1>1. /\ Plans /\ Turn(p) /\ SystemData(p) /\ DiskRight /\ OwnersRight(p) /\ HandleTypes
  BY DEF Focus
<1>3. Plans' /\ Turn(p)' /\ todo'[p] = U
  BY <1>1, KeepPlans
<1>4. /\ InDir' = InDir /\ Named' = Named /\ File' = File
      /\ HandleTypes' /\ SystemInodes(p)' /\ Counted(p)' /\ Unnamed' /\ LoadedRight(p)'
      /\ InodesRight(p)' /\ \A f \in File : InodeOf(f)' = InodeOf(f)
  <2>1. /\ ~AtHead(todo[p], {"off"}) /\ ~AtHeadOn(todo[p], "flush", MapData)
        /\ \A s : ~AtHeadOn(todo[p], "load", s)
    BY DEF AtHead, AtHeadOn
  <2>6. File \subseteq FileSector
    BY <1>1, FileFacts
  <2>2. \A f \in File : Growing(p, f) => Growing(p, f)'
    BY <1>3, <2>6 DEF Growing
  <2>3. \A f \in File : Writing(p, f) => Writing(p, f)'
    BY <1>3, <2>6 DEF Writing
  <2>4. (RootOpen(todo'[p]) <=> RootOpen(todo[p])) /\ ~AtHead(todo'[p], {"load"})
    BY <1>3 DEF AtHead
  <2>5. SameFds /\ fd' \in [Proc -> {None} \cup [sector : FileSector, pos : Nat]]
    BY <1>1, SameFdsNow
  <2>7. \A f \in File : Caught(p, f)' => Caught(p, f)
    BY <2>6
  <2>8. Logical(RootData)' = Logical(RootData) /\ \A f \in File : disk'[f] = disk[f]
    OBVIOUS
  <2> QED
    BY <2>1, <2>2, <2>3, <2>4, <2>5, <2>7, <2>8, SteadyFiles
<1>5. OffRight(p)'
  BY DEF OffRight
<1>6. DiskRight'
  BY <1>1 DEF DiskRight
<1>7. SystemData(p)'
  <2>1. ~AtHead(todo[p], {"mapwrite"}) /\ ~AtHeadOn(todo[p], "flush", RootData) /\ ~AtHead(U, {"off"})
    BY DEF AtHead, AtHeadOn
  <2>2. Logical(MapData)' = Logical(MapData) /\ Logical(RootData)' = Logical(RootData)
    OBVIOUS
  <2>3. (Logical(MapData) = Map(used) \/ AtHead(todo[p], {"mapwrite"}))'
    <3>1. CASE used' = used
      BY <1>1, <2>1, <2>2, <3>1 DEF SystemData, Map
    <3>2. CASE AtHead(U, {"mapwrite"})
      BY <1>3, <3>2
    <3> QED
      BY <3>1, <3>2
  <2>4. DirKind(Logical(RootData))' /\ (disk[RootData] = Logical(RootData) \/ RootOpen(todo[p]))'
    BY <1>1, <1>3, <2>1, <2>2 DEF SystemData, DirKind
  <2> QED
    BY <1>3, <2>1, <2>3, <2>4 DEF SystemData
<1> QED
  BY <1>3, <1>4, <1>5, <1>6, <1>7 DEF Focus

LEMMA MoveOwners ==
  ASSUME NEW p \in Proc, OwnersRight(p), File' = File,
         \A f \in File : InodeOf(f)' = InodeOf(f),
         lost' \subseteq FileSector, lost' \cap Owns = {},
         Made(p)' \cap (Owns \cup lost') = {}, ToGive(p)' \cap (Owns \cup lost') = {},
         used' = (0 .. 3) \cup lost' \cup Owns \cup Made(p)' \cup ToGive(p)'
  PROVE  OwnersRight(p)'
<1>1. \A f \in File : Whole(f)' = Whole(f)
  BY DEF Whole
<1>2. Owns' = Owns
  BY <1>1 DEF Owns
<1> QED
  BY <1>1, <1>2 DEF OwnersRight

LEMMA FreeMapReleaseStep ==
  ASSUME NEW p \in Proc, Focus(p), FreeMapRelease(p), lost' = lost
  PROVE  Focus(p)'
<1> DEFINE T == todo[p]
<1> DEFINE R == Tail(T)
<1> DEFINE a == T[1]
<1> DEFINE s == a.sector
<1> DEFINE b == Do("mapwrite")
<1> DEFINE U == <<b>> \o R
<1>1. Is(p, "release")
  BY DEF FreeMapRelease
<1>2. /\ T # <<>> /\ a.op = "release" /\ mode = "up" /\ Fit(T) /\ ~Quiet(p) /\ Meant(a)
      /\ S(p) = s /\ Fit(R) /\ R \in Seq(Tasks) /\ T \in Seq(Tasks)
      /\ Plans /\ Turn(p) /\ CacheRight(p) /\ DiskRight /\ HandleTypes
      /\ SystemData(p) /\ OwnersRight(p) /\ NewRight(p) /\ NamesRight(p) /\ DataRight(p)
  BY <1>1, Begin
<1>3. CASE S(p) \notin used
  BY <1>3, PanicStep DEF FreeMapRelease
<1>4. CASE S(p) \in used
  <2>0. /\ UNCHANGED <<disk, cache, inode, fd, exec, leaked, fsLock, reg, miss, got, mode>>
        /\ Then(p, <<b>>) /\ used' = used \ {s}
    BY <1>2, <1>4 DEF FreeMapRelease
  <2>1. a \in Tasks /\ b \in Tasks /\ b.op = "mapwrite" /\ s \in FileSector
    BY <1>2, HeadOf, Sectors DEF Tasks, Task, Do, Op, Meant, FREE_MAP_SECTOR, Arguments
  <2> HIDE DEF b
  <2>2. Meant(b)
    BY <2>1 DEF Meant
  <2>21. \A j \in 1 .. Len(R) : MayPrecede(a, R[j]) /\ R[j] \in Tasks
    BY <1>2, FitRest
  <2>3. Fit(U)
    <3>1. R # <<>> => MayFollow(b, R[1])
      BY <1>2, <2>1, FitRest DEF MayFollow
    <3>2. R = <<>> => MayEnd(b)
      BY <2>1 DEF MayEnd
    <3>3. \A j \in 1 .. Len(R) : MayPrecede(b, R[j])
      BY <1>2, <2>1, <2>21 DEF MayPrecede, CloseRoot
    <3> QED
      BY <1>2, <2>1, <2>2, <3>1, <3>2, <3>3, FitCons
  <2>4. /\ U \in Seq(Tasks) /\ U # <<>> /\ U[1] = b /\ 1 \in 1 .. Len(U)
        /\ \A ops : Has(U, ops) <=> (b.op \in ops \/ Has(R, ops))
        /\ \A ops, g : HasOn(U, ops, g) <=> ((b.op \in ops /\ b.sector = g) \/ HasOn(R, ops, g))
        /\ RegHeld(U) <=> (b.op # "lookup" /\ (b.op \in Naming \/ RegHeld(R)))
        /\ RootOpen(U) <=> (~OpenRoot(b) /\ (CloseRoot(b) \/ RootOpen(R)))
    <3>1. U = <<b>> \o R /\ R \in Seq(Tasks)
      BY <1>2
    <3> HIDE DEF U, R
    <3> QED
      BY <2>1, <3>1, NewHead, ZenonT(60)
  <2>5. /\ \A ops : Has(T, ops) <=> (a.op \in ops \/ Has(R, ops))
        /\ \A ops, g : HasOn(T, ops, g) <=> ((a.op \in ops /\ a.sector = g) \/ HasOn(R, ops, g))
        /\ RegHeld(T) <=> (a.op # "lookup" /\ (a.op \in Naming \/ RegHeld(R)))
        /\ RootOpen(T) <=> (~OpenRoot(a) /\ (CloseRoot(a) \/ RootOpen(R)))
    BY <1>2, HeadOf
  <2>22. 1 \in 1 .. Len(T) /\ ~HasOn(R, {"release"}, s)
    <3>1. 1 \in 1 .. Len(T)
      BY <1>2, TailOf
    <3>2. ASSUME NEW j \in 1 .. Len(R), R[j].op = "release", R[j].sector = s PROVE FALSE
      <4>1. j + 1 \in 1 .. Len(T) /\ T[j + 1] = R[j]
        BY <1>2, TailOf
      <4>2. 1 = j + 1
        BY <4>1, <3>1, <3>2, <1>2 DEF Fit, Paired
      <4> QED
        BY <4>2
    <3> QED
      BY <3>1, <3>2 DEF HasOn
  <2>23. ~Has(R, Making \cup {"create", "zero", "erase", "deny", "newfd", "setlength", "put"})
    <3> DEFINE ops == Making \cup {"create", "zero", "erase", "deny", "newfd", "setlength", "put"}
    <3>1. \A d \in Tasks : d.op \in ops => ~MayPrecede(a, d)
      BY <1>2 DEF MayPrecede, Making, CloseRoot
    <3> HIDE DEF ops
    <3>2. ~Has(R, ops)
      BY <1>2, <3>1, NotLater DEF R, a
    <3> QED
      BY <3>2 DEF ops
  <2>6. Moves(p, U) /\ todo'[p] = U
    <3>1. U # <<>> => U[1].op # "lock"
      BY <2>1, <2>4
    <3>2. U = <<b>> \o Tail(todo[p])
      OBVIOUS
    <3> HIDE DEF U
    <3> QED
      BY <1>2, <2>0, <2>3, <3>1, <3>2, ThenMoves
  <2> HIDE DEF U, R, a, T, s
  <2>7. \A o \in {{"unlock"}, {"close"}, {"setlength"}, {"setlength", "writeinode"}, Making, DataOps} :
          (Has(U, o) <=> Has(T, o)) /\ \A g : HasOn(U, o, g) <=> HasOn(T, o, g)
    BY <1>2, <2>1, <2>4, <2>5 DEF Making, DataOps
  <2>8. (RegHeld(U) <=> RegHeld(T)) /\ (RootOpen(U) <=> RootOpen(T))
    BY <1>2, <2>1, <2>4, <2>5 DEF Naming, OpenRoot, CloseRoot
  <2>10. (\A g : ~AtHeadOn(U, "open", g) /\ ~AtHeadOn(T, "open", g))
         /\ ~AtHead(U, {"load", "off"}) /\ ~AtHead(U, {"open"}) /\ ~AtHead(U, {"readat"})
         /\ AtHead(U, {"mapwrite"})
    BY <1>2, <2>1, <2>4 DEF AtHead, AtHeadOn, a
  <2>11. /\ \A g \in FileSector : Held(p, g)' <=> Held(p, g)
         /\ Made(p) = {} /\ Made(p)' = {} /\ ToGive(p)' = ToGive(p) \ {s} /\ s \in ToGive(p)
         /\ \A g : Growing(p, g) => HasOn(U, {"setlength"}, g)
         /\ \A g : Writing(p, g) => HasOn(U, {"setlength", "writeinode"}, g)
    <3>1. \A g \in FileSector : Held(p, g)' <=> Held(p, g)
      BY <2>0, <2>6, <2>7, <2>8, <2>10 DEF Held, T
    <3>2. Made(p) = {} /\ Made(p)' = {}
      <4>1. ~Has(R, Making)
        BY <2>23 DEF Has
      <4>2. ~Has(T, Making) /\ ~Has(U, Making)
        BY <4>1, <1>2, <2>1, <2>4, <2>5 DEF Making
      <4> QED
        BY <4>2, <2>6 DEF Made, T
    <3>3. ToGive(p)' = ToGive(p) \ {s} /\ s \in ToGive(p)
      <4>1. \A g : HasOn(U, {"release"}, g) <=> (HasOn(T, {"release"}, g) /\ g # s)
        BY <1>2, <2>1, <2>4, <2>5, <2>22 DEF s
      <4>2. HasOn(T, {"release"}, s)
        BY <1>2, <2>5 DEF s
      <4> QED
        BY <4>1, <4>2, <2>1, <2>6 DEF ToGive, T
    <3>4. \A g : Growing(p, g) => HasOn(U, {"setlength"}, g)
      BY <2>7 DEF Growing, T
    <3>5. \A g : Writing(p, g) => HasOn(U, {"setlength", "writeinode"}, g)
      BY <2>7 DEF Writing, T
    <3> QED
      BY <3>1, <3>2, <3>3, <3>4, <3>5
  <2>12. /\ miss' \in [Proc -> Misses] /\ \A q \in Proc \ {p} : miss'[q] = miss[q]
         /\ CacheRight(p)'
         /\ \A t : Caught(p, t)' <=> Caught(p, t)
         /\ \A t : Logical(t)' = Logical(t)
    <3>1. Wants(p) = None
      BY <1>2, WantsOf DEF T, a
    <3> QED
      BY <1>2, <2>0, <3>1, NoAccess, SMTT(30)
  <2>13. NewRight(p)' /\ NamesRight(p)' /\ DataRight(p)'
    <3>1. ~Has(U, Making \cup {"create", "zero", "erase", "deny", "newfd", "setlength", "put"})
      BY <2>1, <2>4, <2>23 DEF Making
    <3> QED
      BY <2>4, <2>6, <2>10, <3>1, Calm
  <2>14. ASSUME File' = File, \A f \in File : InodeOf(f)' = InodeOf(f) PROVE OwnersRight(p)'
    <3>1. /\ lost \subseteq FileSector /\ lost \cap Owns = {}
          /\ ToGive(p) \cap (Owns \cup lost) = {}
          /\ used = (0 .. 3) \cup lost \cup Owns \cup Made(p) \cup ToGive(p)
      BY <1>2 DEF OwnersRight
    <3>2. s \notin 0 .. 3 /\ s \notin Owns /\ s \notin lost
      BY <2>1, <2>11, <3>1, FilesAssumption
    <3>3. /\ ToGive(p)' \cap (Owns \cup lost') = {}
          /\ used' = (0 .. 3) \cup lost' \cup Owns \cup Made(p)' \cup ToGive(p)'
      BY <2>0, <2>11, <3>1, <3>2
    <3> QED
      BY <1>2, <2>11, <2>14, <3>1, <3>3, MoveOwners
  <2>15. /\ reg' \in [Proc -> Seq(FileSector)] /\ used' \subseteq Sector
         /\ a.op \notin {"off", "flush", "load", "mapwrite"} /\ mode' = mode
    BY <1>2, <2>0 DEF Plans, DiskRight
  <2> QED
    BY <1>2, <2>0, <2>6, <2>7, <2>8, <2>10, <2>11, <2>12, <2>13, <2>14, <2>15, ShiftStep DEF T, a
<1> QED
  BY <1>3, <1>4

\* The last task of the call that starts a process.
LEMMA LastTask ==
  ASSUME NEW T, Fit(T), T # <<>>, T[1].op \in {"newfd", "loaded", "unlock", "off"}
  PROVE  Tail(T) = <<>>
BY FitRest DEF MayFollow

LEMMA TailLen ==
  ASSUME NEW X, NEW R \in Seq(X), R # <<>>, NEW Q, Q = Tail(R)
  PROVE  Len(Q) = Len(R) - 1 /\ Len(R) \in Nat
OBVIOUS
LEMMA EmptyLen ==
  ASSUME NEW Q, Q = <<>>
  PROVE  Len(Q) = 0
OBVIOUS
LEMMA OneTask ==
  ASSUME NEW R \in Seq(Tasks), R # <<>>, Tail(R) = <<>>
  PROVE  Len(R) = 1
<1> DEFINE Q == Tail(R)
<1>1. Q = Tail(R) /\ Q = <<>>
  OBVIOUS
<1> HIDE DEF Q
<1>2. Len(Q) = Len(R) - 1 /\ Len(R) \in Nat
  BY <1>1, TailLen
<1>3. Len(Q) = 0
  BY <1>1, EmptyLen
<1> DEFINE n == Len(R)
<1>4. n \in Nat /\ 0 = n - 1
  BY <1>2, <1>3
<1> HIDE DEF n
<1>5. n = 1
  BY <1>4
<1> QED
  BY <1>5 DEF n

\* What is known of a plan U that is R with a task before it, or with two.
HeadFacts(b, R, U) ==
  /\ U \in Seq(Tasks) /\ U # <<>> /\ U[1] = b /\ Tail(U) = R /\ 1 \in 1 .. Len(U)
  /\ Len(U) = Len(R) + 1 /\ Len(R) \in Nat
  /\ \A i \in 2 .. Len(U) : U[i] = R[i - 1] /\ i - 1 \in 1 .. Len(R)
  /\ \A ops : Has(U, ops) <=> (b.op \in ops \/ Has(R, ops))
  /\ \A ops, f : HasOn(U, ops, f) <=> ((b.op \in ops /\ b.sector = f) \/ HasOn(R, ops, f))
  /\ RegHeld(U) <=> (b.op # "lookup" /\ (b.op \in Naming \/ RegHeld(R)))
  /\ RootOpen(U) <=> (~OpenRoot(b) /\ (CloseRoot(b) \/ RootOpen(R)))
AheadFacts(b, c, R, U) ==
  /\ U \in Seq(Tasks) /\ U # <<>> /\ U[1] = b /\ U[2] = c /\ Len(U) = Len(R) + 2
  /\ 1 \in 1 .. Len(U) /\ 2 \in 1 .. Len(U) /\ Len(R) \in Nat
  /\ \A i \in 3 .. Len(U) : U[i] = R[i - 2] /\ i - 2 \in 1 .. Len(R)
  /\ \A ops : Has(U, ops) <=> (b.op \in ops \/ c.op \in ops \/ Has(R, ops))
  /\ \A ops, f : HasOn(U, ops, f) <=>
       ((b.op \in ops /\ b.sector = f) \/ (c.op \in ops /\ c.sector = f) \/ HasOn(R, ops, f))
  /\ b.op \notin Naming /\ c.op \notin Naming => (RegHeld(U) => RegHeld(R))
  /\ b.op \notin Naming \cup {"lookup"} /\ c.op \notin Naming \cup {"lookup"} =>
       (RegHeld(U) <=> RegHeld(R))
  /\ b.op \notin {"open", "close"} /\ c.op \notin {"open", "close"} =>
       (RootOpen(U) <=> RootOpen(R))
  /\ ~CloseRoot(b) /\ ~CloseRoot(c) => (RootOpen(U) => RootOpen(R))

LEMMA OneAhead ==
  ASSUME NEW b \in Tasks, NEW R \in Seq(Tasks), NEW U, U = <<b>> \o R
  PROVE  HeadFacts(b, R, U)
<1>1. /\ U \in Seq(Tasks) /\ U # <<>> /\ U[1] = b /\ Tail(U) = R
      /\ Len(U) = Len(R) + 1 /\ Len(R) \in Nat
      /\ \A i \in 2 .. Len(R) + 1 : U[i] = R[i - 1]
  BY ConsOf
<1>2. \A i \in 2 .. Len(U) : U[i] = R[i - 1] /\ i - 1 \in 1 .. Len(R)
  BY <1>1
<1>3. 1 \in 1 .. Len(U)
  BY <1>1
<1> QED
  BY <1>1, <1>2, <1>3, OnCons DEF HeadFacts

LEMMA TwoAhead ==
  ASSUME NEW b \in Tasks, NEW c \in Tasks, NEW R \in Seq(Tasks), NEW U, U = <<b, c>> \o R
  PROVE  AheadFacts(b, c, R, U)
<1> DEFINE V == <<c>> \o R
<1>1. U = <<b>> \o V
  BY Cons2, SMTT(30)
<1>2. V \in Seq(Tasks) /\ V = <<c>> \o R
  BY ConsOf
<1> HIDE DEF V
<1>20. HeadFacts(c, R, V) /\ HeadFacts(b, V, U)
  BY <1>1, <1>2, OneAhead
<1>3. /\ V[1] = c /\ Len(V) = Len(R) + 1 /\ Len(R) \in Nat
      /\ \A i \in 2 .. Len(V) : V[i] = R[i - 1] /\ i - 1 \in 1 .. Len(R)
      /\ RegHeld(V) <=> (c.op # "lookup" /\ (c.op \in Naming \/ RegHeld(R)))
      /\ RootOpen(V) <=> (~OpenRoot(c) /\ (CloseRoot(c) \/ RootOpen(R)))
  BY <1>20, Zenon DEF HeadFacts
<1>4. /\ U \in Seq(Tasks) /\ U # <<>> /\ U[1] = b /\ 1 \in 1 .. Len(U)
      /\ Len(U) = Len(V) + 1
      /\ \A i \in 2 .. Len(U) : U[i] = V[i - 1] /\ i - 1 \in 1 .. Len(V)
      /\ RegHeld(U) <=> (b.op # "lookup" /\ (b.op \in Naming \/ RegHeld(V)))
      /\ RootOpen(U) <=> (~OpenRoot(b) /\ (CloseRoot(b) \/ RootOpen(V)))
  BY <1>20, Zenon DEF HeadFacts
<1>5. /\ U[2] = c /\ Len(U) = Len(R) + 2 /\ 1 \in 1 .. Len(U) /\ 2 \in 1 .. Len(U)
  BY <1>3, <1>4
<1>6. ASSUME NEW i \in 3 .. Len(U) PROVE U[i] = R[i - 2] /\ i - 2 \in 1 .. Len(R)
  <2>1. i \in 2 .. Len(U) /\ i - 1 \in 2 .. Len(V) /\ (i - 1) - 1 = i - 2
    BY <1>3, <1>4
  <2> QED
    BY <2>1, <1>3, <1>4
<1>7. \A ops : Has(U, ops) <=> (b.op \in ops \/ c.op \in ops \/ Has(R, ops))
  BY <1>20, Zenon DEF HeadFacts
<1>8. \A ops, f : HasOn(U, ops, f) <=>
        ((b.op \in ops /\ b.sector = f) \/ (c.op \in ops /\ c.sector = f) \/ HasOn(R, ops, f))
  BY <1>20, Zenon DEF HeadFacts
<1>11. b.op \notin Naming /\ c.op \notin Naming => (RegHeld(U) => RegHeld(R))
  BY <1>3, <1>4
<1>12. b.op \notin Naming \cup {"lookup"} /\ c.op \notin Naming \cup {"lookup"} =>
         (RegHeld(U) <=> RegHeld(R))
  BY <1>3, <1>4
<1>13. b.op \notin {"open", "close"} /\ c.op \notin {"open", "close"} =>
         (RootOpen(U) <=> RootOpen(R))
  BY <1>3, <1>4 DEF OpenRoot, CloseRoot
<1>14. ~CloseRoot(b) /\ ~CloseRoot(c) => (RootOpen(U) => RootOpen(R))
  BY <1>3, <1>4
<1> QED
  BY <1>3, <1>4, <1>5, <1>6, <1>7, <1>8, <1>11, <1>12, <1>13, <1>14, Zenon DEF AheadFacts

LEMMA FitAhead ==
  ASSUME NEW b \in Tasks, NEW c \in Tasks, NEW R, Fit(R), NEW U, U = <<b, c>> \o R,
         Meant(b), Meant(c), MayFollow(b, c), MayPrecede(b, c),
         b.op \notin {"lock", "erase", "lookup", "grow", "allocate", "release"},
         c.op \notin {"lock", "erase", "lookup", "grow", "allocate", "release"},
         R # <<>> => MayFollow(c, R[1]), R = <<>> => MayEnd(c),
         \A j \in 1 .. Len(R) : MayPrecede(b, R[j]) /\ MayPrecede(c, R[j])
  PROVE  Fit(U) /\ U[1] = b /\ U # <<>> /\ U[1].op # "lock"
<1> DEFINE V == <<c>> \o R
<1>0. R \in Seq(Tasks)
  BY DEF Fit
<1>1. U = <<b>> \o V
  BY <1>0, Cons2, SMTT(30)
<1>2. V \in Seq(Tasks) /\ V = <<c>> \o R
  BY <1>0, ConsOf
<1>3. Fit(V)
  BY FitCons
<1> HIDE DEF V
<1>4. /\ V[1] = c /\ V # <<>> /\ Len(V) = Len(R) + 1 /\ Len(R) \in Nat
      /\ \A i \in 2 .. Len(V) : V[i] = R[i - 1] /\ i - 1 \in 1 .. Len(R)
  BY <1>0, <1>2, NewHead
<1>5. \A j \in 1 .. Len(V) : MayPrecede(b, V[j])
  <2> TAKE j \in 1 .. Len(V)
  <2>1. CASE j = 1
    BY <2>1, <1>4
  <2>2. CASE j # 1
    <3>1. j \in 2 .. Len(V)
      BY <2>2, <1>4
    <3> QED
      BY <3>1, <1>4
  <2> QED
    BY <2>1, <2>2
<1>6. Fit(<<b>> \o V)
  BY <1>2, <1>3, <1>4, <1>5, FitCons
<1>7. U[1] = b /\ U # <<>>
  BY <1>1, <1>2, NewHead
<1> QED
  BY <1>1, <1>6, <1>7

LEMMA HeaderStep ==
  ASSUME NEW p \in Proc, Focus(p), Header(p), lost' = lost
  PROVE  Focus(p)'
<1> DEFINE T == todo[p]
<1> DEFINE R == Tail(T)
<1> DEFINE a == T[1]
<1> DEFINE s == reg[p][1]
<1> DEFINE b == Task("read", s, <<1, FALSE>>)
<1> DEFINE c == Task("close", s, 0)
<1>1. Is(p, "header")
  BY DEF Header
<1>2. /\ T # <<>> /\ a.op = "header" /\ mode = "up" /\ Fit(T) /\ ~Quiet(p) /\ Meant(a)
      /\ Fit(R) /\ R \in Seq(Tasks) /\ T \in Seq(Tasks)
      /\ Plans /\ Turn(p) /\ CacheRight(p) /\ DiskRight /\ HandleTypes
      /\ SystemData(p) /\ OwnersRight(p) /\ NewRight(p) /\ NamesRight(p) /\ DataRight(p)
  BY <1>1, Begin
<1>3. /\ UNCHANGED <<disk, cache, used, inode, fd, exec, leaked, fsLock, reg, miss, got, mode>>
      /\ reg[p] = <<>> => Then(p, <<>>)
      /\ reg[p] # <<>> => Then(p, <<b, c>>)
  BY DEF Header
<1>4. R # <<>> /\ R[1].op = "loaded" /\ Tail(R) = <<>>
  <2>1. R # <<>> /\ R[1].op = "loaded"
    BY <1>2, FitRest DEF MayFollow, MayEnd
  <2> QED
    BY <2>1, <1>2, LastTask
<1>5. /\ \A ops : Has(R, ops) <=> "loaded" \in ops
      /\ \A ops, g : HasOn(R, ops, g) => "loaded" \in ops
      /\ ~RegHeld(R) /\ ~RootOpen(R)
  <2>1. /\ \A ops : Has(R, ops) <=> (R[1].op \in ops \/ Has(Tail(R), ops))
        /\ \A ops, g : HasOn(R, ops, g) <=> ((R[1].op \in ops /\ R[1].sector = g) \/ HasOn(Tail(R), ops, g))
        /\ RegHeld(R) <=> (R[1].op # "lookup" /\ (R[1].op \in Naming \/ RegHeld(Tail(R))))
        /\ RootOpen(R) <=> (~OpenRoot(R[1]) /\ (CloseRoot(R[1]) \/ RootOpen(Tail(R))))
    BY <1>2, <1>4, HeadOf
  <2>2. /\ \A ops : ~Has(Tail(R), ops)
        /\ \A ops, f : ~HasOn(Tail(R), ops, f)
        /\ ~RegHeld(Tail(R)) /\ ~RootOpen(Tail(R))
    BY <1>4, NothingIn
  <2> HIDE DEF R
  <2>3. ~RegHeld(R) /\ ~RootOpen(R)
    BY <2>1, <2>2, <1>4 DEF Naming, CloseRoot
  <2>4. \A ops : Has(R, ops) <=> "loaded" \in ops
    BY <2>1, <2>2, <1>4
  <2>5. \A ops, g : HasOn(R, ops, g) => "loaded" \in ops
    BY <2>1, <2>2, <1>4
  <2> QED
    BY <2>3, <2>4, <2>5
<1>6. /\ \A ops : Has(T, ops) <=> (a.op \in ops \/ Has(R, ops))
      /\ \A ops, g : HasOn(T, ops, g) <=> ((a.op \in ops /\ a.sector = g) \/ HasOn(R, ops, g))
      /\ RegHeld(T) /\ ~RootOpen(T)
  <2>1. /\ \A ops : Has(T, ops) <=> (a.op \in ops \/ Has(R, ops))
        /\ \A ops, g : HasOn(T, ops, g) <=> ((a.op \in ops /\ a.sector = g) \/ HasOn(R, ops, g))
        /\ RegHeld(T) <=> (a.op # "lookup" /\ (a.op \in Naming \/ RegHeld(R)))
        /\ RootOpen(T) <=> (~OpenRoot(a) /\ (CloseRoot(a) \/ RootOpen(R)))
    BY <1>2, HeadOf
  <2> HIDE DEF R, a, T
  <2> QED
    BY <1>2, <1>5, <2>1 DEF Naming, CloseRoot
<1>7. /\ miss' \in [Proc -> Misses] /\ \A q \in Proc \ {p} : miss'[q] = miss[q]
      /\ CacheRight(p)'
      /\ \A t : Caught(p, t)' <=> Caught(p, t)
      /\ \A t : Logical(t)' = Logical(t)
  <2>1. Wants(p) = None
    BY <1>2, WantsOf
  <2> QED
    BY <1>2, <1>3, <2>1, NoAccess
\* Either way the plan is U, which has none of the tasks that matter.
<1>8. ASSUME NEW U \in Seq(Tasks), Fit(U), Moves(p, U), todo'[p] = U,
             \A ops : Has(U, ops) => ops \cap {"read", "close", "loaded"} # {},
             \A ops, g : HasOn(U, ops, g) => ops \cap {"read", "close", "loaded"} # {},
             \A g : HasOn(U, {"close"}, g) <=> (reg[p] # <<>> /\ reg[p][1] = g),
             ~RegHeld(U), ~RootOpen(U)
      PROVE  Focus(p)'
  <2>1. /\ ~Has(U, Making \cup {"create", "zero", "erase", "deny", "newfd", "setlength", "put"})
        /\ ~Has(U, Making) /\ ~Has(U, {"unlock"}) /\ (\A g : ~HasOn(U, {"release"}, g))
    BY <1>8 DEF Making
  <2>2. ~AtHead(U, {"load", "off", "mapwrite", "readat", "open"})
    <3>1. ~Has(U, {"load", "off", "mapwrite", "readat", "open"})
      BY <1>8
    <3>2. U # <<>> => 1 \in 1 .. Len(U)
      BY TailOf
    <3> QED
      BY <3>1, <3>2 DEF AtHead, Has
  <2>3. /\ ~Has(T, Making) /\ ~Has(T, {"unlock"}) /\ (\A g : ~HasOn(T, {"release"}, g))
        /\ (\A g : ~HasOn(T, {"setlength"}, g)) /\ (\A g : ~HasOn(T, {"setlength", "writeinode"}, g))
        /\ (\A g : ~HasOn(T, {"close"}, g)) /\ (\A g : ~AtHeadOn(T, "open", g))
    <3> HIDE DEF R, a
    <3> QED
      BY <1>2, <1>5, <1>6 DEF Making, AtHeadOn, a
  <2> HIDE DEF T
  <2>4. \A g \in FileSector : Held(p, g)' <=> Held(p, g)
    <3>1. \A g : ~AtHeadOn(U, "open", g)
      BY <2>2 DEF AtHead, AtHeadOn
    <3> QED
      BY <1>3, <1>6, <1>8, <2>3, <3>1 DEF Held, T
  <2>5. Made(p)' = Made(p) /\ ToGive(p)' = ToGive(p)
    BY <1>8, <2>1, <2>3 DEF Made, ToGive, T
  <2>6. (\A g : ~Growing(p, g)) /\ (\A g : ~Writing(p, g))
    BY <2>3 DEF Growing, Writing, T
  <2>7. NewRight(p)' /\ NamesRight(p)' /\ DataRight(p)'
    <3>1. ~AtHead(U, {"readat"}) /\ ~AtHead(U, {"open"})
      BY <2>2 DEF AtHead
    <3> QED
      BY <1>8, <2>1, <3>1, Calm
  <2>8. ASSUME File' = File, \A f \in File : InodeOf(f)' = InodeOf(f) PROVE OwnersRight(p)'
    BY <1>2, <1>3, <2>5, <2>8, KeepOwners
  <2>9. /\ reg' \in [Proc -> Seq(FileSector)] /\ used' \subseteq Sector /\ used' = used
        /\ a.op \notin {"off", "flush", "load", "mapwrite"} /\ mode' = mode
        /\ ~AtHead(U, {"load", "off"})
    BY <1>2, <1>3, <2>2 DEF Plans, DiskRight, AtHead
  <2>10. ~Has(todo[p], {"unlock"}) /\ ~RootOpen(todo[p])
    BY <1>6, <2>3 DEF T
  <2> QED
    BY <1>2, <1>3, <1>7, <1>8, <2>1, <2>4, <2>6, <2>7, <2>8, <2>9, <2>10, ShiftStep DEF T, a
<1>9. CASE reg[p] = <<>>
  <2>1. R = <<>> \o Tail(T)
    BY <1>2
  <2>2. Then(p, <<>>) /\ R[1].op # "lock"
    BY <1>3, <1>4, <1>9
  <2> HIDE DEF R
  <2>3. Moves(p, R) /\ todo'[p] = R
    BY <1>2, <2>1, <2>2, ThenMoves
  <2> QED
    BY <1>2, <1>5, <1>8, <1>9, <2>3
<1>10. CASE reg[p] # <<>>
  <2>1. s \in FileSector
    BY <1>2, <1>10, TailOf DEF Plans
  <2>2. /\ b \in Tasks /\ b.op = "read" /\ b.sector = s /\ b.arg = <<1, FALSE>>
        /\ c \in Tasks /\ c.op = "close" /\ c.sector = s
    BY <2>1, Sectors DEF Tasks, Task, Op, Arguments
  <2>3. Then(p, <<b, c>>)
    BY <1>3, <1>10
  <2> DEFINE U == <<b, c>> \o R
  <2>4. Len(R) = 1 /\ \A j \in 1 .. Len(R) : R[j].op = "loaded"
    <3> HIDE DEF R
    <3>3. Len(R) = 1
      BY <1>2, <1>4, OneTask
    <3> QED
      BY <1>4, <3>3
  <2>5. /\ Meant(b) /\ Meant(c) /\ MayFollow(b, c) /\ MayPrecede(b, c) /\ MayFollow(c, R[1])
        /\ \A j \in 1 .. Len(R) : MayPrecede(b, R[j]) /\ MayPrecede(c, R[j])
    <3> HIDE DEF b, c, s, R, a, T
    <3>1. 1 \in 1 .. MaxLen /\ FALSE \in BOOLEAN
      BY FilesAssumption
    <3>2. <<1, FALSE>> \in (1 .. MaxLen) \X BOOLEAN
      BY <3>1
    <3>3. Meant(b)
      BY <2>1, <2>2, <3>2 DEF Meant
    <3>4. Meant(c) /\ MayFollow(b, c) /\ MayPrecede(b, c)
      BY <2>1, <2>2 DEF Meant, MayFollow, MayPrecede
    <3>5. MayFollow(c, R[1])
      BY <1>4, <2>1, <2>2, Sectors DEF MayFollow
    <3>6. \A j \in 1 .. Len(R) : MayPrecede(b, R[j]) /\ MayPrecede(c, R[j])
      BY <2>2, <2>4 DEF MayPrecede
    <3> QED
      BY <3>3, <3>4, <3>5, <3>6
  <2>6. Fit(U) /\ U # <<>> /\ U[1].op # "lock"
    <3>1. U = <<b, c>> \o R /\ Fit(R) /\ R \in Seq(Tasks)
      BY <1>2
    <3> HIDE DEF U, b, c, s, R, a, T
    <3>2. /\ b.op \notin {"lock", "erase", "lookup", "grow", "allocate", "release"}
          /\ c.op \notin {"lock", "erase", "lookup", "grow", "allocate", "release"}
      BY <2>2
    <3>4. R # <<>> /\ b \in Tasks /\ c \in Tasks
      BY <1>4, <2>2
    <3>6. /\ Meant(b) /\ Meant(c) /\ MayFollow(b, c) /\ MayPrecede(b, c)
          /\ R # <<>> => MayFollow(c, R[1])
          /\ R = <<>> => MayEnd(c)
          /\ \A j \in 1 .. Len(R) : MayPrecede(b, R[j]) /\ MayPrecede(c, R[j])
      BY <2>5, <3>4
    <3>7. Fit(U)
      BY <3>1, <3>2, <3>4, <3>6, FitAhead
    <3>8. U[1] = b /\ U # <<>>
      BY <3>1, <3>2, <3>4, <3>6, FitAhead
    <3>5. Fit(U) /\ U[1] = b /\ U # <<>> /\ U[1].op # "lock"
      BY <3>7, <3>8, <2>2
    <3> QED
      BY <3>5
  <2>7. AheadFacts(b, c, R, U)
    <3>1. U = <<b, c>> \o R /\ R \in Seq(Tasks) /\ b \in Tasks /\ c \in Tasks
      BY <1>2, <2>2
    <3> HIDE DEF U, b, c, s, R, a, T
    <3> QED
      BY <3>1, TwoAhead
  <2>8. Moves(p, U) /\ todo'[p] = U
    <3>1. U = <<b, c>> \o Tail(todo[p])
      OBVIOUS
    <3> HIDE DEF U, b, c, s
    <3> QED
      BY <1>2, <2>3, <2>6, <3>1, ThenMoves
  <2> HIDE DEF U, R, b, c, s
  <2>10. \A ops : Has(U, ops) => ops \cap {"read", "close", "loaded"} # {}
    BY <1>5, <2>2, <2>7 DEF AheadFacts
  <2>11. \A ops, g : HasOn(U, ops, g) => ops \cap {"read", "close", "loaded"} # {}
    BY <1>5, <2>2, <2>7 DEF AheadFacts
  <2>12. \A g : HasOn(U, {"close"}, g) <=> (reg[p] # <<>> /\ reg[p][1] = g)
    BY <1>5, <1>10, <2>2, <2>7 DEF s, AheadFacts
  <2>13. ~RegHeld(U) /\ ~RootOpen(U)
    BY <1>5, <2>1, <2>2, <2>7, Sectors DEF Naming, CloseRoot, AheadFacts
  <2> QED
    BY <1>8, <2>6, <2>7, <2>8, <2>10, <2>11, <2>12, <2>13 DEF AheadFacts
<1> QED
  BY <1>9, <1>10

-----------------------------------------------------------------------------
\* The plan of a process as its first task and the rest.
LEMMA HeadNow ==
  ASSUME NEW T, Fit(T), T # <<>>
  PROVE  HeadFacts(T[1], Tail(T), T)
<1> DEFINE R == Tail(T)
<1> DEFINE a == T[1]
<1>1. T = <<a>> \o R /\ a \in Tasks /\ R \in Seq(Tasks)
  BY HeadOf
<1> HIDE DEF R, a
<1>2. HeadFacts(a, R, T)
  BY <1>1, OneAhead
<1> QED
  BY <1>2 DEF R, a

LEMMA CalmNew ==
  ASSUME NEW p \in Proc, NEW T \in Seq(Tasks), todo'[p] = T,
         ~Has(T, Making \cup {"create", "zero"})
  PROVE  NewRight(p)'
<1>1. ~Has(T, Making) /\ ~Has(T, {"create"}) /\ ~Has(T, {"zero"})
  BY DEF Has, Making
<1>2. ~AtHead(T, {"unique", "dirwrite"})
  <2>1. T # <<>> => 1 \in 1 .. Len(T)
    BY TailOf
  <2> QED
    BY <1>1, <2>1 DEF Has, AtHead, Making
<1>3. \A s : ~HasOn(T, {"zero"}, s)
  BY <1>1, HasOnHas
<1> QED
  BY <1>1, <1>2, <1>3 DEF NewRight

LEMMA CalmData ==
  ASSUME NEW p \in Proc, NEW T \in Seq(Tasks), todo'[p] = T,
         ~Has(T, {"setlength", "put"}), ~AtHead(T, {"readat"})
  PROVE  DataRight(p)'
<1>1. ~Has(T, {"setlength"}) /\ ~Has(T, {"put"})
  BY DEF Has
<1>2. \A f : ~HasOn(T, {"setlength"}, f)
  BY <1>1, HasOnHas
<1>3. \A i \in 1 .. Len(T) : T[i].op # "put"
  BY <1>1 DEF Has
<1> QED
  BY <1>2, <1>3 DEF DataRight, Growing

\* A sector the free map gives out.
LEMMA NewSector ==
  ASSUME NEW p \in Proc, OwnersRight(p), DiskRight, SystemData(p), NEW s \in Free, FreeMapAllocate(s)
  PROVE  /\ s \in FileSector /\ s \in Sector /\ used' = used \cup {s} /\ used' \subseteq Sector
         /\ s \notin Owns /\ s \notin lost /\ s \notin Made(p) /\ s \notin ToGive(p)
         /\ s \notin File /\ s \notin used
<1>1. /\ used' = used \cup {s}
  BY DEF FreeMapAllocate
<1>2. s \in FileSector /\ s \notin Owns /\ s \notin lost /\ s \notin Made(p) /\ s \notin ToGive(p) /\ File \subseteq Owns
  BY FileFacts
<1>3. used \subseteq Sector /\ s \in Sector /\ s \notin used
  BY DEF DiskRight, Free
<1> QED
  BY <1>1, <1>2, <1>3

LEMMA AppendSet ==
  ASSUME NEW q \in Seq(FileSector), IsInjective(q), q # <<>>, NEW s \in FileSector, s \notin ToSet(q)
  PROVE  /\ Append(q, s) \in Seq(FileSector) /\ IsInjective(Append(q, s)) /\ Append(q, s) # <<>>
         /\ ToSet(Append(q, s)) = ToSet(q) \cup {s}
         /\ Len(Append(q, s)) = Len(q) + 1 /\ Append(q, s)[1] = q[1] /\ Len(q) \in Nat \ {0}
<1> DEFINE r == Append(q, s)
<1>1. r \in Seq(FileSector) /\ Len(r) = Len(q) + 1 /\ Len(q) \in Nat \ {0}
      /\ (\A i \in 1 .. Len(q) : r[i] = q[i]) /\ r[Len(q) + 1] = s
  OBVIOUS
<1>2. /\ \A i, j \in 1 .. Len(q) : q[i] = q[j] => i = j
      /\ \A i \in 1 .. Len(q) : q[i] # s
  <2>1. DOMAIN q = 1 .. Len(q)
    OBVIOUS
  <2> QED
    BY <2>1 DEF IsInjective, ToSet
<1> HIDE DEF r
<1>3. DOMAIN r = 1 .. Len(r)
  BY <1>1
<1>4. \A i, j \in 1 .. Len(r) : r[i] = r[j] => i = j
  BY <1>1, <1>2
<1>5. ToSet(r) = {r[i] : i \in 1 .. Len(r)} /\ ToSet(q) = {q[i] : i \in 1 .. Len(q)}
  BY <1>1, <1>3 DEF ToSet
<1>6. ToSet(r) = ToSet(q) \cup {s}
  <2>1. \A i \in 1 .. Len(r) : r[i] \in ToSet(q) \cup {s}
    BY <1>1, <1>5
  <2>2. \A i \in 1 .. Len(q) : q[i] \in ToSet(r)
    BY <1>1, <1>5
  <2>3. s \in ToSet(r)
    BY <1>1, <1>5
  <2> QED
    BY <1>5, <2>1, <2>2, <2>3
<1>7. r # <<>>
  BY <1>1
<1>8. IsInjective(r)
  BY <1>3, <1>4 DEF IsInjective
<1> QED
  BY <1>1, <1>6, <1>7, <1>8 DEF r

-----------------------------------------------------------------------------
\* One block more for a file that is being made.
LEMMA SectorAllocateStep ==
  ASSUME NEW p \in Proc, Focus(p), SectorAllocate(p), lost' = lost
  PROVE  Focus(p)'
<1> DEFINE T == todo[p]
<1> DEFINE R == Tail(T)
<1> DEFINE a == T[1]
<1> DEFINE b == Do("mapwrite")
<1>1. Is(p, "allocate")
  BY DEF SectorAllocate
<1>2. /\ T # <<>> /\ a.op = "allocate" /\ mode = "up" /\ Fit(T) /\ ~Quiet(p) /\ Meant(a)
      /\ Fit(R) /\ R \in Seq(Tasks) /\ T \in Seq(Tasks) /\ a \in Tasks
      /\ Plans /\ Turn(p) /\ CacheRight(p) /\ DiskRight /\ HandleTypes
      /\ SystemData(p) /\ OwnersRight(p) /\ NewRight(p) /\ NamesRight(p) /\ DataRight(p)
  BY <1>1, Begin, HeadOf
<1>3. CASE Free = {} /\ Panic(p)
  BY <1>3, PanicStep
<1>4. ASSUME NEW s \in Free, FreeMapAllocate(s), reg' = [reg EXCEPT ![p] = Append(@, s)],
             Then(p, <<b, Task("zero", s, 0)>>),
             UNCHANGED <<disk, cache, inode, fd, exec, leaked, fsLock, miss, got, mode>>
      PROVE  Focus(p)'
  <2> DEFINE c == Task("zero", s, 0)
  <2> DEFINE U == <<b, c>> \o R
  <2>1. /\ s \in FileSector /\ s \in Sector /\ used' = used \cup {s} /\ used' \subseteq Sector
        /\ s \notin Owns /\ s \notin lost /\ s \notin Made(p) /\ s \notin ToGive(p) /\ s \notin File
    BY <1>2, <1>4, NewSector
  <2>2. /\ b \in Tasks /\ b.op = "mapwrite" /\ b.sector = 0
        /\ c \in Tasks /\ c.op = "zero" /\ c.sector = s
    BY <2>1, Sectors DEF Tasks, Task, Op, Arguments, Do, FREE_MAP_SECTOR
  <2>3. /\ R # <<>> /\ R[1].op \in {"allocate", "newinode"}
        /\ \A j \in 1 .. Len(R) : MayPrecede(a, R[j]) /\ R[j] \in Tasks
    <3>1. R # <<>> => MayFollow(a, R[1])
      BY <1>2, FitRest
    <3>2. R = <<>> => MayEnd(a)
      BY <1>2, FitRest
    <3>3. \A j \in 1 .. Len(R) : MayPrecede(a, R[j]) /\ R[j] \in Tasks
      BY <1>2, FitRest
    <3> HIDE DEF R, a, T
    <3>4. R # <<>>
      BY <1>2, <3>2 DEF MayEnd
    <3>5. R[1].op \in {"allocate", "newinode"}
      BY <1>2, <3>1, <3>4 DEF MayFollow
    <3> QED
      BY <3>3, <3>4, <3>5
  <2>4. ~Has(R, {"erase", "deny", "newfd", "setlength", "put"}) /\ ~Has(R, Naming)
    <3> DEFINE ops == {"erase", "deny", "newfd", "setlength", "put"} \cup Naming
    <3>1. \A d \in Tasks : d.op \in ops => ~MayPrecede(a, d)
      BY <1>2 DEF MayPrecede, CloseRoot, Naming
    <3> HIDE DEF ops
    <3>2. ~Has(R, ops)
      BY <1>2, <3>1, NotLater DEF R, a
    <3> QED
      BY <3>2 DEF ops, Has, Naming
  <2>5. Fit(U) /\ U # <<>> /\ U[1].op # "lock"
    <3>1. U = <<b, c>> \o R
      OBVIOUS
    <3> HIDE DEF U, b, c, R, a, T
    <3>2. Meant(b) /\ Meant(c) /\ MayFollow(b, c) /\ MayPrecede(b, c)
      BY <2>1, <2>2 DEF Meant, MayFollow, MayPrecede
    <3>3. MayFollow(c, R[1])
      BY <2>2, <2>3 DEF MayFollow
    <3>4. \A j \in 1 .. Len(R) : MayPrecede(b, R[j]) /\ MayPrecede(c, R[j])
      BY <1>2, <2>2, <2>3 DEF MayPrecede, CloseRoot
    <3>6. /\ b.op \notin {"lock", "erase", "lookup", "grow", "allocate", "release"}
          /\ c.op \notin {"lock", "erase", "lookup", "grow", "allocate", "release"}
      BY <2>2
    <3>7. (R # <<>> => MayFollow(c, R[1])) /\ (R = <<>> => MayEnd(c))
      BY <2>3, <3>3
    <3>5. Fit(U) /\ U[1] = b /\ U # <<>>
      <4>1. Fit(R) /\ b \in Tasks /\ c \in Tasks
        BY <1>2, <2>2
      <4> QED
        BY <3>1, <3>2, <3>4, <3>6, <3>7, <4>1, FitAhead
    <3> QED
      BY <3>5, <2>2
  <2>6. AheadFacts(b, c, R, U)
    <3>1. U = <<b, c>> \o R /\ R \in Seq(Tasks) /\ b \in Tasks /\ c \in Tasks
      BY <1>2, <2>2
    <3> HIDE DEF U, b, c, R, a, T
    <3> QED
      BY <3>1, TwoAhead
  <2>7. HeadFacts(a, R, T)
    BY <1>2, HeadNow
  <2>8. Moves(p, U) /\ todo'[p] = U
    <3>1. U = <<b, c>> \o Tail(todo[p])
      OBVIOUS
    <3> HIDE DEF U, b, c
    <3> QED
      BY <1>2, <1>4, <2>5, <3>1, ThenMoves DEF c
  <2> HIDE DEF U, R, a, T, b, c
  <2>9. \A o \in {{"unlock"}, {"close"}, {"setlength"}, {"setlength", "writeinode"}, Making, DataOps,
                  {"release"}, {"create"}} :
          (Has(U, o) <=> Has(T, o)) /\ \A g : HasOn(U, o, g) <=> HasOn(T, o, g)
    BY <1>2, <2>2, <2>6, <2>7, ZenonT(60) DEF AheadFacts, HeadFacts, Making, DataOps
  <2>10. (RootOpen(U) <=> RootOpen(T)) /\ ~RegHeld(U) /\ ~RegHeld(T)
    <3>1. ~RegHeld(R)
      BY <2>4 DEF RegHeld, Has
    <3> QED
      BY <1>2, <2>2, <2>6, <2>7, <3>1 DEF AheadFacts, HeadFacts, Naming, OpenRoot, CloseRoot
  <2>11. ~AtHead(U, {"load", "off"}) /\ ~AtHead(U, {"open"}) /\ ~AtHead(U, {"readat"})
         /\ ~AtHead(U, {"unique", "dirwrite"}) /\ AtHead(U, {"mapwrite"})
         /\ (\A g : ~AtHeadOn(U, "open", g) /\ ~AtHeadOn(T, "open", g)) /\ ~AtHead(T, {"open"})
    BY <1>2, <2>2, <2>6, <2>7 DEF AtHead, AtHeadOn, a, AheadFacts
  <2>12. \A g \in FileSector : Held(p, g)' <=> Held(p, g)
    BY <2>8, <2>9, <2>10, <2>11 DEF Held, T
  <2>13. Has(T, Making)
    <3>1. \E j \in 1 .. Len(T) : T[j].op = "newinode"
      BY <1>2, <2>7 DEF Fit, Paired, HeadFacts, a
    <3> QED
      BY <3>1 DEF Has, Making
  <2>14. /\ reg[p] # <<>> /\ IsInjective(reg[p]) /\ ~Caught(p, reg[p][1])
         /\ Allots(T, Len(reg[p]) - 1) /\ reg[p] \in Seq(FileSector) /\ Made(p) = ToSet(reg[p])
    BY <1>2, <2>13 DEF NewRight, T, Plans, Made
  <2>15. /\ reg'[p] = Append(reg[p], s) /\ reg'[p] \in Seq(FileSector)
         /\ reg' \in [Proc -> Seq(FileSector)]
         /\ IsInjective(reg'[p]) /\ reg'[p] # <<>> /\ ToSet(reg'[p]) = Made(p) \cup {s}
         /\ Len(reg'[p]) = Len(reg[p]) + 1 /\ reg'[p][1] = reg[p][1] /\ Len(reg[p]) \in Nat \ {0}
    <3>1. reg \in [Proc -> Seq(FileSector)]
      BY <1>2 DEF Plans
    <3>2. reg'[p] = Append(reg[p], s)
      BY <1>4, <3>1
    <3>3. Append(reg[p], s) \in Seq(FileSector)
      BY <2>1, <2>14
    <3>4. reg' \in [Proc -> Seq(FileSector)]
      BY <1>4, <3>1, <3>3
    <3> QED
      BY <2>1, <2>14, <3>2, <3>4, AppendSet
  <2>16. Made(p)' = Made(p) \cup {s} /\ ToGive(p)' = ToGive(p)
    <3>1. Has(U, Making) /\ \A g : HasOn(U, {"release"}, g) <=> HasOn(T, {"release"}, g)
      BY <2>9, <2>13
    <3> QED
      BY <2>8, <2>15, <3>1 DEF Made, ToGive, T
  <2>17. /\ miss' \in [Proc -> Misses] /\ \A q \in Proc \ {p} : miss'[q] = miss[q]
         /\ CacheRight(p)'
         /\ \A t : Caught(p, t)' <=> Caught(p, t)
         /\ \A t : Logical(t)' = Logical(t)
    <3>1. Wants(p) = None
      BY <1>2, WantsOf DEF T, a
    <3> QED
      BY <1>2, <1>4, <3>1, NoAccess, SMTT(30)
  <2>18. Allots(U, Len(reg'[p]) - 1)
    <3> SUFFICES ASSUME NEW i \in 1 .. Len(U), U[i].op = "newinode"
                 PROVE  (Len(reg'[p]) - 1) + (i - 1 - Early(U)) <= MaxLen
      BY DEF Allots
    <3>1. Early(U) = 2
      BY <2>2, <2>6, <2>11 DEF Early, AheadFacts
    <3>2. Early(T) = 0
      BY <1>2 DEF Early, AtHead, a
    <3>3. i \in 3 .. Len(U)
      BY <2>2, <2>6 DEF AheadFacts
    <3>4. U[i] = R[i - 2] /\ i - 2 \in 1 .. Len(R)
      BY <2>6, <3>3 DEF AheadFacts
    <3>7. /\ Len(T) = Len(R) + 1 /\ Len(R) \in Nat
          /\ \A k \in 2 .. Len(T) : T[k] = R[k - 1]
      BY <2>7 DEF HeadFacts
    <3>8. i - 1 \in 2 .. Len(T) /\ (i - 1) - 1 = i - 2
      BY <3>3, <3>4, <3>7
    <3>5. i - 1 \in 1 .. Len(T) /\ T[i - 1] = R[i - 2]
      BY <3>7, <3>8
    <3>6. (Len(reg[p]) - 1) + ((i - 1) - 1 - Early(T)) <= MaxLen
      BY <2>14, <3>4, <3>5 DEF Allots
    <3> QED
      BY <2>15, <3>1, <3>2, <3>6
  <2>19. NamesRight(p)' /\ DataRight(p)'
    <3>1. ~Has(U, {"erase", "deny", "newfd", "setlength", "put"})
      BY <2>2, <2>4, <2>6 DEF AheadFacts, Has
    <3> QED
      BY <2>6, <2>8, <2>11, <3>1, CalmNames DEF AheadFacts, AtHead
  <2>20. ASSUME File' = File PROVE NewRight(p)'
    <3>1. \A t \in FileSector : HasOn(U, {"zero"}, t) => t \notin File
      <4>1. \A t \in FileSector : HasOn(T, {"zero"}, t) => t \notin File
        BY <1>2 DEF NewRight, T
      <4>2. \A t : HasOn(U, {"zero"}, t) => t = s \/ HasOn(T, {"zero"}, t)
        BY <1>2, <2>2, <2>6, <2>7 DEF AheadFacts, HeadFacts
      <4> QED
        BY <2>1, <4>1, <4>2
    <3>2. Has(U, {"create"}) => \A t \in Free' : ~Caught(p, t)
      <4>1. Free' \subseteq Free
        BY <2>1 DEF Free
      <4> QED
        BY <1>2, <2>9, <4>1 DEF NewRight, T
    <3>3. ~Caught(p, reg[p][1])'
      <4>1. ~InCache(reg[p][1]) /\ ~(miss[p].victim # None /\ miss[p].victim.sector = reg[p][1])
        BY <2>14 DEF Caught
      <4>2. ~InCache(reg[p][1])'
        BY <1>4, <2>15, <4>1 DEF InCache, Hit, SelectInSeq
      <4> QED
        BY <1>4, <2>15, <4>1, <4>2 DEF Caught
    <3> QED
      BY <2>8, <2>11, <2>15, <2>17, <2>18, <2>20, <3>1, <3>2, <3>3 DEF NewRight
  <2>21. ASSUME File' = File, \A f \in File : InodeOf(f)' = InodeOf(f) PROVE OwnersRight(p)'
    <3>1. /\ lost \subseteq FileSector /\ lost \cap Owns = {}
          /\ Made(p) \cap (Owns \cup lost) = {} /\ ToGive(p) \cap (Owns \cup lost) = {}
          /\ used = (0 .. 3) \cup lost \cup Owns \cup Made(p) \cup ToGive(p)
      BY <1>2 DEF OwnersRight
    <3>2. /\ Made(p)' \cap (Owns \cup lost') = {} /\ ToGive(p)' \cap (Owns \cup lost') = {}
          /\ used' = (0 .. 3) \cup lost' \cup Owns \cup Made(p)' \cup ToGive(p)'
          /\ lost' \subseteq FileSector /\ lost' \cap Owns = {}
      BY <2>1, <2>16, <3>1
    <3> QED
      BY <1>2, <2>21, <3>2, MoveOwners
  <2>22. /\ a.op \notin {"off", "flush", "load", "mapwrite"} /\ mode' = mode
         /\ Has(U, {"unlock"}) <=> Has(T, {"unlock"})
         /\ \A g : HasOn(U, DataOps, g) /\ Has(U, {"unlock"}) => HasOn(T, DataOps, g)
         /\ \A g \in FileSector : Growing(p, g) => HasOn(U, {"setlength"}, g)
         /\ \A g \in FileSector : Writing(p, g) => HasOn(U, {"setlength", "writeinode"}, g)
    BY <1>2, <1>4, <2>9 DEF Growing, Writing, T
  <2> QED
    BY <1>2, <1>4, <2>1, <2>8, <2>10, <2>11, <2>12, <2>15, <2>17, <2>19, <2>20, <2>21, <2>22,
       ShiftStep DEF T, a
<1> QED
  BY <1>3, <1>4 DEF SectorAllocate

JoinFacts(N, R, T) ==
  /\ T \in Seq(Tasks) /\ Len(T) = Len(N) + Len(R) /\ Len(N) \in Nat /\ Len(R) \in Nat
  /\ \A i \in 1 .. Len(N) : T[i] = N[i]
  /\ \A i \in Len(N) + 1 .. Len(N) + Len(R) : T[i] = R[i - Len(N)]

LEMMA Joined ==
  ASSUME NEW N \in Seq(Tasks), NEW R \in Seq(Tasks), NEW T, T = N \o R
  PROVE  JoinFacts(N, R, T)
BY JoinOf DEF JoinFacts

LEMMA JoinAssoc ==
  ASSUME NEW A \in Seq(Tasks), NEW B \in Seq(Tasks), NEW C \in Seq(Tasks)
  PROVE  (A \o B) \o C = A \o (B \o C)
<1> DEFINE P == A \o B
<1> DEFINE Q == B \o C
<1> DEFINE s == P \o C
<1> DEFINE t == A \o Q
<1>10. P = A \o B /\ Q = B \o C
  OBVIOUS
<1>11. s = P \o C /\ t = A \o Q
  OBVIOUS
<1> HIDE DEF P, Q, s, t
<1>12. JoinFacts(A, B, P) /\ JoinFacts(B, C, Q)
  BY <1>10, Joined
<1>13. P \in Seq(Tasks) /\ Q \in Seq(Tasks)
  BY <1>12 DEF JoinFacts
<1>14. JoinFacts(P, C, s) /\ JoinFacts(A, Q, t)
  BY <1>11, <1>13, Joined
<1>1. /\ P \in Seq(Tasks) /\ Len(P) = Len(A) + Len(B) /\ Len(A) \in Nat /\ Len(B) \in Nat
      /\ \A i \in 1 .. Len(A) : P[i] = A[i]
      /\ \A i \in Len(A) + 1 .. Len(A) + Len(B) : P[i] = B[i - Len(A)]
  BY <1>12, Zenon DEF JoinFacts
<1>2. /\ Q \in Seq(Tasks) /\ Len(Q) = Len(B) + Len(C) /\ Len(B) \in Nat /\ Len(C) \in Nat
      /\ \A i \in 1 .. Len(B) : Q[i] = B[i]
      /\ \A i \in Len(B) + 1 .. Len(B) + Len(C) : Q[i] = C[i - Len(B)]
  BY <1>12, Zenon DEF JoinFacts
<1>3. /\ s \in Seq(Tasks) /\ Len(s) = Len(P) + Len(C)
      /\ \A i \in 1 .. Len(P) : s[i] = P[i]
      /\ \A i \in Len(P) + 1 .. Len(P) + Len(C) : s[i] = C[i - Len(P)]
  BY <1>14, Zenon DEF JoinFacts
<1>4. /\ t \in Seq(Tasks) /\ Len(t) = Len(A) + Len(Q)
      /\ \A i \in 1 .. Len(A) : t[i] = A[i]
      /\ \A i \in Len(A) + 1 .. Len(A) + Len(Q) : t[i] = Q[i - Len(A)]
  BY <1>14, Zenon DEF JoinFacts
<1>5. ASSUME NEW i \in 1 .. Len(s) PROVE s[i] = t[i]
  <2>0. i \in Nat /\ i > 0 /\ i <= Len(A) + Len(B) + Len(C)
        /\ Len(A) \in Nat /\ Len(B) \in Nat /\ Len(C) \in Nat
    BY <1>1, <1>2, <1>3
  <2>1. CASE i <= Len(A)
    BY <2>0, <2>1, <1>1, <1>3, <1>4
  <2>2. CASE i > Len(A) /\ i <= Len(A) + Len(B)
    <3>1. i \in Len(A) + 1 .. Len(A) + Len(B) /\ i \in 1 .. Len(P) /\ i \in Len(A) + 1 .. Len(A) + Len(Q)
          /\ i - Len(A) \in 1 .. Len(B)
      BY <2>0, <2>2, <1>1, <1>2
    <3>2. s[i] = B[i - Len(A)]
      BY <3>1, <1>1, <1>3
    <3>3. t[i] = B[i - Len(A)]
      BY <3>1, <1>2, <1>4
    <3> QED
      BY <3>2, <3>3
  <2>3. CASE i > Len(A) + Len(B)
    <3>1. i \in Len(P) + 1 .. Len(P) + Len(C) /\ i \in Len(A) + 1 .. Len(A) + Len(Q)
          /\ i - Len(A) \in Len(B) + 1 .. Len(B) + Len(C) /\ i - Len(P) = (i - Len(A)) - Len(B)
      BY <2>0, <2>3, <1>1, <1>2
    <3>2. s[i] = C[i - Len(P)]
      BY <3>1, <1>3
    <3>3. t[i] = Q[i - Len(A)] /\ Q[i - Len(A)] = C[(i - Len(A)) - Len(B)]
      BY <3>1, <1>2, <1>4
    <3> QED
      BY <3>1, <3>2, <3>3
  <2> QED
    BY <2>0, <2>1, <2>2, <2>3
<1>6. Len(s) = Len(t)
  BY <1>1, <1>2, <1>3, <1>4
<1>7. s = t
  BY <1>3, <1>4, <1>5, <1>6, SeqSame
<1> QED
  BY <1>7 DEF s, t, P, Q

\* The plan of filesys_create(), once it has the sector of the new inode.
CreateRest(R) == R # <<>> /\ CloseRoot(R[1]) /\ Tail(R) = <<>>
LEMMA CreatePlan ==
  ASSUME NEW R, Fit(R), CreateRest(R), NEW n \in Name, NEW k \in 0 .. MaxLen,
         NEW U, U = (<<Do("mapwrite")>> \o [i \in 1 .. k |-> Do("allocate")]
                     \o <<Do("newinode"), Task("unique", 0, n)>>) \o R
  PROVE  /\ Fit(U) /\ U \in Seq(Tasks) /\ U # <<>> /\ U[1].op = "mapwrite"
         /\ Has(U, Making)
         /\ \A ops : Has(U, ops) => ops \cap {"mapwrite", "allocate", "newinode", "unique", "close"} # {}
         /\ \A f : HasOn(U, {"close"}, f) => f = ROOT_DIR_SECTOR
         /\ ~RegHeld(U) /\ RootOpen(U) /\ Allots(U, 0)
<1> DEFINE b == Do("mapwrite")
<1> DEFINE c == Do("newinode")
<1> DEFINE d == Task("unique", 0, n)
<1> DEFINE A == [i \in 1 .. k |-> Do("allocate")]
<1> DEFINE V == <<c, d>> \o R
<1> DEFINE W == A \o V
<1>0. k \in Nat /\ k <= MaxLen /\ MaxLen \in Nat
  BY FilesAssumption
<1>1. /\ b \in Tasks /\ b.op = "mapwrite" /\ c \in Tasks /\ c.op = "newinode"
      /\ d \in Tasks /\ d.op = "unique" /\ d.arg = n
      /\ Do("allocate") \in Tasks /\ Do("allocate").op = "allocate"
  BY Sectors DEF Tasks, Task, Op, Arguments, Do, FREE_MAP_SECTOR
<1>2. A \in Seq(Tasks) /\ Len(A) = k /\ \A i \in 1 .. Len(A) : A[i] = Do("allocate")
  BY <1>0, <1>1
<1>3. R \in Seq(Tasks)
  BY DEF Fit
<1>4. /\ Len(R) = 1 /\ Meant(R[1]) /\ R[1] \in Tasks
  <2>1. Len(R) = 1
    BY <1>3, OneTask DEF CreateRest
  <2> QED
    BY <2>1, HeadOf DEF CreateRest
<1> HIDE DEF b, c, d
<1>5. U = <<b>> \o W
  <2>1. U = ((<<b>> \o A) \o <<c, d>>) \o R
    BY DEF b, c, d
  <2>2. <<b>> \in Seq(Tasks) /\ <<c, d>> \in Seq(Tasks)
    BY <1>1
  <2> HIDE DEF A
  <2> DEFINE P == <<b>> \o A
  <2>3. P \in Seq(Tasks)
    BY <1>2, <2>2
  <2>4. (P \o <<c, d>>) \o R = P \o V
    <3> HIDE DEF P
    <3> QED
      BY <1>3, <2>2, <2>3, JoinAssoc
  <2>5. V \in Seq(Tasks)
    BY <1>3, <2>2
  <2>6. P \o V = <<b>> \o W
    <3> HIDE DEF V
    <3> QED
      BY <1>2, <2>2, <2>5, JoinAssoc
  <2> QED
    BY <2>1, <2>4, <2>6
<1> HIDE DEF A
<1>6. AheadFacts(c, d, R, V) /\ Fit(V)
  <2>1. V = <<c, d>> \o R
    OBVIOUS
  <2> HIDE DEF V
  <2>2. AheadFacts(c, d, R, V)
    BY <1>1, <1>3, <2>1, TwoAhead
  <2>3. Meant(c) /\ Meant(d) /\ MayFollow(c, d) /\ MayPrecede(c, d)
    BY <1>1 DEF Meant, MayFollow, MayPrecede
  <2>4. (R # <<>> => MayFollow(d, R[1])) /\ (R = <<>> => MayEnd(d))
    BY <1>1 DEF MayFollow, CreateRest
  <2>5. \A j \in 1 .. Len(R) : MayPrecede(c, R[j]) /\ MayPrecede(d, R[j])
    <3>1. \A j \in 1 .. Len(R) : CloseRoot(R[j])
      BY <1>4 DEF CreateRest
    <3> QED
      BY <3>1, Sectors DEF MayPrecede, CloseRoot
  <2>6. /\ c.op \notin {"lock", "erase", "lookup", "grow", "allocate", "release"}
        /\ d.op \notin {"lock", "erase", "lookup", "grow", "allocate", "release"}
    BY <1>1
  <2>7. c \in Tasks /\ d \in Tasks
    BY <1>1
  <2>8. Fit(V)
    BY <2>1, <2>3, <2>4, <2>5, <2>6, <2>7, FitAhead, ZenonT(60)
  <2> QED
    BY <2>2, <2>8
<1> HIDE DEF V
<1>7. /\ V \in Seq(Tasks) /\ V # <<>> /\ V[1] = c /\ V[2] = d /\ Len(V) = 3
      /\ \A i \in 3 .. Len(V) : V[i] = R[i - 2] /\ i - 2 \in 1 .. Len(R)
  BY <1>4, <1>6 DEF AheadFacts
<1>70. V[3] = R[1]
  <2>1. V[3] = R[3 - 2]
    BY <1>7
  <2> QED
    BY <2>1
<1>8. \A i \in 1 .. Len(V) : V[i] = c \/ V[i] = d \/ V[i] = R[1]
  <2> TAKE i \in 1 .. Len(V)
  <2>1. i = 1 \/ i = 2 \/ i = 3
    BY <1>7
  <2> QED
    BY <2>1, <1>7, <1>70
<1>9. Fit(W) /\ W \in Seq(Tasks)
  <2>1. \A i \in 1 .. Len(A) : A[i].op = "allocate" /\ Meant(A[i])
    BY <1>1, <1>2 DEF Meant
  <2>2. \A i \in 1 .. Len(A), j \in 1 .. Len(A) : MayFollow(A[i], A[j]) /\ MayPrecede(A[i], A[j])
    BY <2>1 DEF MayFollow, MayPrecede, CloseRoot
  <2>3. /\ V # <<>> => \A i \in 1 .. Len(A) : MayFollow(A[i], V[1])
        /\ V = <<>> => \A i \in 1 .. Len(A) : MayEnd(A[i])
        /\ V # <<>> => V[1].op # "lock"
    BY <1>1, <1>7, <2>1 DEF MayFollow
  <2>4. \A i \in 1 .. Len(A), j \in 1 .. Len(V) : MayPrecede(A[i], V[j])
    <3> TAKE i \in 1 .. Len(A), j \in 1 .. Len(V)
    <3>1. A[i].op = "allocate"
      BY <2>1
    <3>2. V[j].op = "newinode" \/ V[j].op = "unique" \/ CloseRoot(V[j])
      BY <1>1, <1>8 DEF CreateRest
    <3> QED
      BY <3>1, <3>2, Sectors DEF MayPrecede, CloseRoot
  <2>5. Has(V, {"newinode"})
    BY <1>1, <1>6 DEF AheadFacts
  <2>6. Fit(A \o V)
    BY <1>2, <1>6, <2>1, <2>2, <2>3, <2>4, <2>5, FitRow
  <2> QED
    BY <2>6 DEF Fit
<1>10. /\ \A ops : Has(W, ops) <=> (Has(A, ops) \/ Has(V, ops))
       /\ \A ops, f : HasOn(W, ops, f) <=> (HasOn(A, ops, f) \/ HasOn(V, ops, f))
       /\ RegHeld(W) <=> RegHeld(V)
       /\ RootOpen(W) <=> RootOpen(V)
  <2>1. \A i \in 1 .. Len(A) : A[i].op = "allocate"
    BY <1>1, <1>2
  <2> QED
    BY <1>2, <1>7, <2>1, OnRow
<1>30. JoinFacts(A, V, W)
  <2>1. W = A \o V
    OBVIOUS
  <2> HIDE DEF W
  <2> QED
    BY <1>2, <1>7, <2>1, Joined
<1>11. /\ Len(W) = k + 3
       /\ \A i \in 1 .. k : W[i] = Do("allocate")
       /\ W[k + 1] = c
       /\ \A i \in 1 .. Len(W) : W[i] = c => i = k + 1
  <2>1. /\ Len(W) = Len(A) + Len(V)
        /\ \A i \in 1 .. Len(A) : W[i] = A[i]
        /\ \A i \in Len(A) + 1 .. Len(A) + Len(V) : W[i] = V[i - Len(A)]
    BY <1>30, Zenon DEF JoinFacts
  <2> HIDE DEF W
  <2>2. Len(W) = k + 3 /\ \A i \in 1 .. k : W[i] = Do("allocate")
    BY <1>2, <1>7, <2>1
  <2>3. ASSUME NEW i \in 1 .. 3 PROVE W[i + k] = V[i]
    <3>1. i + k \in Len(A) + 1 .. Len(A) + Len(V) /\ (i + k) - Len(A) = i
      BY <1>0, <1>2, <1>7
    <3> QED
      BY <3>1, <2>1
  <2>4. W[1 + k] = c
    BY <2>3, <1>7
  <2>40. W[k + 1] = c
    BY <2>4, <1>0
  <2>5. ASSUME NEW i \in 1 .. Len(W), W[i] = c PROVE i = k + 1
    <3>1. ~(i <= k)
      BY <2>5, <2>2, <1>0, <1>1
    <3>2. i - k \in 1 .. 3 /\ (i - k) + k = i
      BY <3>1, <2>2, <1>0
    <3>3. V[i - k] = c
      BY <3>2, <2>3, <2>5
    <3>4. V[2] # c /\ V[3] # c
      BY <1>1, <1>7, <1>70 DEF CreateRest, CloseRoot
    <3> QED
      BY <3>2, <3>3, <3>4, <1>0
  <2> QED
    BY <2>2, <2>40, <2>5
<1>12. \A i \in 1 .. Len(W) : W[i].op = "newinode" => i = k + 1
  <2> SUFFICES ASSUME NEW i \in 1 .. Len(W), W[i].op = "newinode", i # k + 1 PROVE FALSE
    OBVIOUS
  <2>1. /\ Len(W) = Len(A) + Len(V)
        /\ \A j \in 1 .. Len(A) : W[j] = A[j]
        /\ \A j \in Len(A) + 1 .. Len(A) + Len(V) : W[j] = V[j - Len(A)]
    BY <1>30, Zenon DEF JoinFacts
  <2>2. W[i] # c
    BY <1>11
  <2> HIDE DEF W
  <2>3. ~(i <= k)
    <3> SUFFICES ASSUME i <= k PROVE FALSE
      OBVIOUS
    <3>1. i \in 1 .. k
      BY <1>0
    <3>2. W[i] = Do("allocate")
      BY <1>11, <3>1
    <3> QED
      BY <1>1, <3>2
  <2>4. W[i] = V[i - k] /\ i - k \in 1 .. Len(V)
    BY <2>1, <2>3, <1>0, <1>2, <1>7
  <2>5. W[i] = d \/ W[i] = R[1]
    BY <1>8, <2>2, <2>4
  <2> QED
    BY <2>5, <1>1 DEF CreateRest, CloseRoot
<1> HIDE DEF W
<1>13. HeadFacts(b, W, U)
  BY <1>1, <1>5, <1>9, OneAhead
<1>14. Fit(U)
  <2>1. Meant(b)
    BY <1>1 DEF Meant
  <2>2. W # <<>> /\ (W[1] = c \/ W[1].op = "allocate")
    <3>1. W # <<>>
      BY <1>0, <1>9, <1>11
    <3>2. CASE k = 0
      BY <3>1, <3>2, <1>11
    <3>3. CASE k # 0
      <4>1. 1 \in 1 .. k
        BY <3>3, <1>0
      <4> QED
        BY <3>1, <4>1, <1>1, <1>11
    <3> QED
      BY <3>2, <3>3
  <2>3. MayFollow(b, W[1])
    BY <1>1, <2>2 DEF MayFollow
  <2>4. ASSUME NEW j \in 1 .. Len(W) PROVE MayPrecede(b, W[j])
    <3>1. W[j].op \in {"allocate", "newinode", "unique"} \/ CloseRoot(W[j])
      <4>1. /\ Len(W) = Len(A) + Len(V)
            /\ \A i \in 1 .. Len(A) : W[i] = A[i]
            /\ \A i \in Len(A) + 1 .. Len(A) + Len(V) : W[i] = V[i - Len(A)]
        BY <1>30, Zenon DEF JoinFacts
      <4>2. CASE j <= k
        BY <4>2, <1>0, <1>1, <1>11, SMTT(30)
      <4>3. CASE ~(j <= k)
        <5>1. W[j] = V[j - k] /\ j - k \in 1 .. Len(V)
          BY <4>1, <4>3, <1>0, <1>2, <1>7
        <5> QED
          BY <5>1, <1>8, <1>1 DEF CreateRest
      <4> QED
        BY <4>2, <4>3
    <3> QED
      BY <3>1, <1>1, Sectors DEF MayPrecede, CloseRoot
  <2>5. /\ W # <<>> => MayFollow(b, W[1])
        /\ W = <<>> => MayEnd(b)
        /\ \A j \in 1 .. Len(W) : MayPrecede(b, W[j])
        /\ b \in Tasks /\ Fit(W) /\ b.op = "mapwrite"
    BY <1>1, <1>9, <2>2, <2>3, <2>4
  <2> QED
    BY <1>5, <2>1, <2>5, FitCons
<1>15. /\ \A ops : Has(R, ops) => "close" \in ops
       /\ \A f : HasOn(R, {"close"}, f) => f = ROOT_DIR_SECTOR
       /\ ~RegHeld(R) /\ RootOpen(R)
  <2>1. HeadFacts(R[1], Tail(R), R)
    BY HeadNow DEF CreateRest
  <2>2. (\A ops : ~Has(Tail(R), ops)) /\ (\A ops, f : ~HasOn(Tail(R), ops, f)) /\ ~RegHeld(Tail(R))
    BY NothingIn DEF CreateRest
  <2> QED
    BY <2>1, <2>2 DEF HeadFacts, CreateRest, CloseRoot, OpenRoot, Naming
<1>16. \A ops : Has(A, ops) => "allocate" \in ops
  BY <1>1, <1>2 DEF Has
<1>17. \A ops : Has(U, ops) => ops \cap {"mapwrite", "allocate", "newinode", "unique", "close"} # {}
  <2> TAKE ops
  <2>1. Has(U, ops) => \/ "mapwrite" \in ops \/ "allocate" \in ops \/ "newinode" \in ops
                       \/ "unique" \in ops \/ "close" \in ops
    BY <1>1, <1>6, <1>10, <1>13, <1>15, <1>16, ZenonT(60) DEF HeadFacts, AheadFacts
  <2> QED
    BY <2>1
<1>18. \A f : HasOn(U, {"close"}, f) => f = ROOT_DIR_SECTOR
  <2>1. ~Has(A, {"close"})
    BY <1>16
  <2>2. \A f : ~HasOn(A, {"close"}, f)
    BY <2>1, HasOnHas
  <2> QED
    BY <1>1, <1>6, <1>10, <1>13, <1>15, <2>2 DEF HeadFacts, AheadFacts
<1>19. ~RegHeld(U)
  BY <1>1, <1>6, <1>10, <1>13, <1>15 DEF HeadFacts, AheadFacts, Naming
<1>20. RootOpen(U)
  BY <1>1, <1>6, <1>10, <1>13, <1>15 DEF HeadFacts, AheadFacts, OpenRoot, CloseRoot
<1>21. Has(U, Making)
  <2>1. c.op \in Making
    BY <1>1 DEF Making
  <2>2. Has(V, Making)
    BY <1>6, <2>1, Zenon DEF AheadFacts
  <2> QED
    BY <1>10, <1>13, <2>2, Zenon DEF HeadFacts
<1>22. Allots(U, 0)
  <2> SUFFICES ASSUME NEW i \in 1 .. Len(U), U[i].op = "newinode"
               PROVE  0 + (i - 1 - Early(U)) <= MaxLen
    BY DEF Allots
  <2>1. /\ U[1] = b /\ U # <<>> /\ Len(U) = Len(W) + 1
        /\ \A j \in 2 .. Len(U) : U[j] = W[j - 1] /\ j - 1 \in 1 .. Len(W)
    BY <1>13 DEF HeadFacts
  <2>2. i # 1
    BY <2>1, <1>1
  <2>3. i - 1 = k + 1
    <3>1. i \in 2 .. Len(U)
      BY <2>2
    <3> QED
      BY <3>1, <2>1, <1>12
  <2>4. Early(U) >= 1 /\ Early(U) \in Nat
    BY <2>1, <1>1 DEF Early, AtHead
  <2> QED
    BY <2>3, <2>4, <1>0
<1> QED
  BY <1>1, <1>13, <1>14, <1>17, <1>18, <1>19, <1>20, <1>21, <1>22 DEF HeadFacts

LEMMA OneSet ==
  ASSUME NEW s \in FileSector
  PROVE  /\ <<s>> \in Seq(FileSector) /\ <<s>> # <<>> /\ <<s>>[1] = s /\ Len(<<s>>) = 1
         /\ ToSet(<<s>>) = {s} /\ IsInjective(<<s>>) /\ Tail(<<s>>) = <<>>
<1> DEFINE q == <<s>>
<1>1. q \in Seq(FileSector) /\ Len(q) = 1 /\ q[1] = s /\ DOMAIN q = {1} /\ q # <<>> /\ Tail(q) = <<>>
  OBVIOUS
<1> HIDE DEF q
<1>2. ToSet(q) = {s}
  BY <1>1 DEF ToSet
<1>3. IsInjective(q)
  BY <1>1 DEF IsInjective
<1> QED
  BY <1>1, <1>2, <1>3 DEF q

\* filesys_create() has a sector for the inode, or none.
LEMMA FilesysCreateStep ==
  ASSUME NEW p \in Proc, Focus(p), FilesysCreate(p), lost' = lost
  PROVE  Focus(p)'
<1> DEFINE T == todo[p]
<1> DEFINE R == Tail(T)
<1> DEFINE a == T[1]
<1> DEFINE n == a.arg[1]
<1> DEFINE k == a.arg[2]
<1> DEFINE N == <<Do("mapwrite")>> \o [i \in 1 .. k |-> Do("allocate")]
                \o <<Do("newinode"), Task("unique", 0, n)>>
<1>1. Is(p, "create")
  BY DEF FilesysCreate
<1>2. /\ T # <<>> /\ a.op = "create" /\ mode = "up" /\ Fit(T) /\ ~Quiet(p) /\ Meant(a)
      /\ Fit(R) /\ R \in Seq(Tasks) /\ T \in Seq(Tasks) /\ a \in Tasks /\ Arg(p) = a.arg
      /\ Plans /\ Turn(p) /\ CacheRight(p) /\ DiskRight /\ HandleTypes
      /\ SystemData(p) /\ OwnersRight(p) /\ NewRight(p) /\ NamesRight(p) /\ DataRight(p)
  BY <1>1, Begin, HeadOf
<1>3. UNCHANGED <<disk, cache, inode, fd, exec, leaked, fsLock, miss, got, mode>>
  BY DEF FilesysCreate
<1>4. CASE Free = {} /\ Then(p, <<>>) /\ UNCHANGED <<used, reg>>
  <2>1. disk' = disk /\ UNCHANGED <<cache, miss, used, inode, fd, exec, leaked, fsLock, reg, mode, lost>>
    BY <1>3, <1>4
  <2>2. todo[p][1].op \in {"zero", "newinode", "read", "write", "create"} /\ todo[p][1].op # "newinode"
    BY <1>2
  <2>3. mode = "up" /\ todo[p] # <<>> /\ Then(p, <<>>)
    BY <1>2, <1>4
  <2> QED
    BY <2>1, <2>2, <2>3, PlainPop
<1>5. ASSUME NEW s \in Free, FreeMapAllocate(s), reg' = [reg EXCEPT ![p] = <<s>>], Then(p, N)
      PROVE  Focus(p)'
  <2> DEFINE U == N \o R
  <2>1. /\ s \in FileSector /\ s \in Sector /\ used' = used \cup {s} /\ used' \subseteq Sector
        /\ s \notin Owns /\ s \notin lost /\ s \notin Made(p) /\ s \notin ToGive(p) /\ s \notin File
    BY <1>2, <1>5, NewSector
  <2>2. CreateRest(R)
    BY <1>2, CreateEnd DEF CreateRest
  <2>3. n \in Name /\ k \in 0 .. MaxLen
    BY <1>2 DEF Meant
  <2>4. /\ Fit(U) /\ U \in Seq(Tasks) /\ U # <<>> /\ U[1].op = "mapwrite"
        /\ Has(U, Making)
        /\ \A ops : Has(U, ops) => ops \cap {"mapwrite", "allocate", "newinode", "unique", "close"} # {}
        /\ \A f : HasOn(U, {"close"}, f) => f = ROOT_DIR_SECTOR
        /\ ~RegHeld(U) /\ RootOpen(U) /\ Allots(U, 0)
    <3>1. U = N \o R
      OBVIOUS
    <3> HIDE DEF U, R, n, k
    <3> QED
      BY <1>2, <2>2, <2>3, <3>1, CreatePlan, ZenonT(60)
  <2>5. /\ \A ops : Has(R, ops) <=> "close" \in ops
        /\ \A ops, f : HasOn(R, ops, f) <=> ("close" \in ops /\ f = ROOT_DIR_SECTOR)
        /\ RootOpen(T) /\ ~RegHeld(T)
    BY <1>2, CreateEnd
  <2>6. HeadFacts(a, R, T)
    BY <1>2, HeadNow
  <2>7. Moves(p, U) /\ todo'[p] = U
    <3>1. U = N \o Tail(todo[p])
      OBVIOUS
    <3> HIDE DEF U, N
    <3> QED
      BY <1>2, <1>5, <2>4, <3>1, ThenMoves
  <2> HIDE DEF U, N, R, a, T, n, k
  <2>8. /\ ~Has(T, {"unlock"}) /\ ~Has(T, Making) /\ (\A g : ~HasOn(T, {"release"}, g))
        /\ (\A g : ~HasOn(T, {"setlength"}, g)) /\ (\A g : ~HasOn(T, {"setlength", "writeinode"}, g))
        /\ (\A g \in FileSector : ~HasOn(T, {"close"}, g)) /\ Has(T, {"create"})
    <3>1. \A ops : Has(T, ops) <=> ("create" \in ops \/ "close" \in ops)
      BY <1>2, <2>5, <2>6 DEF HeadFacts
    <3>2. ~Has(T, {"unlock"}) /\ ~Has(T, Making) /\ ~Has(T, {"release"}) /\ ~Has(T, {"setlength"})
          /\ ~Has(T, {"setlength", "writeinode"}) /\ Has(T, {"create"})
      BY <3>1 DEF Making
    <3>3. \A g \in FileSector : ~HasOn(T, {"close"}, g)
      BY <1>2, <2>5, <2>6, Sectors DEF HeadFacts
    <3> QED
      BY <3>2, <3>3, HasOnHas
  <2>9. /\ ~Has(U, {"unlock"}) /\ ~Has(U, {"create"}) /\ ~Has(U, {"zero"}) /\ ~Has(U, {"release"})
        /\ ~Has(U, {"erase", "deny", "newfd", "setlength", "put"})
        /\ (\A g \in FileSector : ~HasOn(U, {"close"}, g))
        /\ (\A g : ~HasOn(U, {"zero"}, g)) /\ (\A g : ~HasOn(U, {"release"}, g))
    <3>1. ~Has(U, {"unlock"}) /\ ~Has(U, {"create"}) /\ ~Has(U, {"zero"}) /\ ~Has(U, {"release"})
        /\ ~Has(U, {"erase", "deny", "newfd", "setlength", "put"})
      BY <2>4
    <3>2. \A g \in FileSector : ~HasOn(U, {"close"}, g)
      BY <2>4, Sectors
    <3> QED
      BY <3>1, <3>2, HasOnHas
  <2>11. ~AtHead(U, {"load", "off"}) /\ ~AtHead(U, {"open"}) /\ ~AtHead(U, {"readat"})
         /\ ~AtHead(U, {"unique", "dirwrite"}) /\ AtHead(U, {"mapwrite"})
         /\ (\A g : ~AtHeadOn(U, "open", g) /\ ~AtHeadOn(T, "open", g)) /\ ~AtHead(T, {"open"})
    BY <1>2, <2>4 DEF AtHead, AtHeadOn, a
  <2>12. \A g \in FileSector : Held(p, g)' <=> Held(p, g)
    BY <2>4, <2>5, <2>7, <2>8, <2>9 DEF Held, T
  <2>15. /\ reg'[p] = <<s>> /\ reg' \in [Proc -> Seq(FileSector)]
         /\ IsInjective(reg'[p]) /\ reg'[p] # <<>> /\ ToSet(reg'[p]) = {s}
         /\ Len(reg'[p]) = 1 /\ reg'[p][1] = s
    <3>1. reg \in [Proc -> Seq(FileSector)]
      BY <1>2 DEF Plans
    <3>2. reg'[p] = <<s>>
      BY <1>5, <3>1
    <3>3. <<s>> \in Seq(FileSector)
      BY <2>1
    <3>4. reg' \in [Proc -> Seq(FileSector)]
      BY <1>5, <3>1, <3>3
    <3> QED
      BY <2>1, <3>2, <3>4, OneSet
  <2>16. Made(p)' = {s} /\ Made(p) = {} /\ ToGive(p)' = {} /\ ToGive(p) = {}
    BY <2>4, <2>7, <2>8, <2>9, <2>15 DEF Made, ToGive, T
  <2>17. /\ miss' \in [Proc -> Misses] /\ \A q \in Proc \ {p} : miss'[q] = miss[q]
         /\ CacheRight(p)'
         /\ \A t : Caught(p, t)' <=> Caught(p, t)
         /\ \A t : Logical(t)' = Logical(t)
    <3>1. Wants(p) = None
      BY <1>2, WantsOf DEF T, a
    <3> QED
      BY <1>2, <1>3, <3>1, NoAccess, SMTT(30)
  <2>19. NamesRight(p)' /\ DataRight(p)'
    BY <2>4, <2>7, <2>9, <2>11, CalmNames DEF AtHead
  <2>20. NewRight(p)'
    <3>3. ~Caught(p, reg[p][1])'
      <4>0. ~Caught(p, s)
        BY <1>2, <2>8 DEF NewRight, T
      <4>1. ~InCache(s) /\ ~(miss[p].victim # None /\ miss[p].victim.sector = s)
        BY <4>0 DEF Caught
      <4>2. ~InCache(reg[p][1])'
        BY <1>3, <2>15, <4>1 DEF InCache, Hit, SelectInSeq
      <4> QED
        BY <1>3, <2>15, <4>1, <4>2 DEF Caught
    <3>4. Allots(U, Len(reg'[p]) - 1)
      <4>1. Len(reg'[p]) - 1 = 0
        BY <2>15
      <4> QED
        BY <2>4, <4>1
    <3> QED
      BY <2>7, <2>9, <2>11, <2>15, <3>3, <3>4 DEF NewRight
  <2>21. ASSUME File' = File, \A f \in File : InodeOf(f)' = InodeOf(f) PROVE OwnersRight(p)'
    <3>1. /\ lost \subseteq FileSector /\ lost \cap Owns = {}
          /\ used = (0 .. 3) \cup lost \cup Owns \cup Made(p) \cup ToGive(p)
      BY <1>2 DEF OwnersRight
    <3>2. /\ Made(p)' \cap (Owns \cup lost') = {} /\ ToGive(p)' \cap (Owns \cup lost') = {}
          /\ used' = (0 .. 3) \cup lost' \cup Owns \cup Made(p)' \cup ToGive(p)'
          /\ lost' \subseteq FileSector /\ lost' \cap Owns = {}
      BY <2>1, <2>16, <3>1
    <3> QED
      BY <1>2, <2>21, <3>2, MoveOwners
  <2>22. /\ a.op \notin {"off", "flush", "load", "mapwrite"} /\ mode' = mode
         /\ Has(U, {"unlock"}) <=> Has(T, {"unlock"})
         /\ \A g : HasOn(U, DataOps, g) /\ Has(U, {"unlock"}) => HasOn(T, DataOps, g)
         /\ \A g \in FileSector : Growing(p, g) => HasOn(U, {"setlength"}, g)
         /\ \A g \in FileSector : Writing(p, g) => HasOn(U, {"setlength", "writeinode"}, g)
    BY <1>2, <1>3, <2>8, <2>9 DEF Growing, Writing, T
  <2> QED
    BY <1>2, <1>3, <2>1, <2>4, <2>5, <2>7, <2>11, <2>12, <2>15, <2>17, <2>19, <2>20, <2>21, <2>22,
       ShiftStep DEF T, a
<1>6. \/ Free = {} /\ Then(p, <<>>) /\ UNCHANGED <<used, reg>>
      \/ \E s \in Free : FreeMapAllocate(s) /\ reg' = [reg EXCEPT ![p] = <<s>>] /\ Then(p, N)
  BY <1>2 DEF FilesysCreate
<1> QED
  BY <1>4, <1>5, <1>6

-----------------------------------------------------------------------------
\* The plan of inode_write_at(): the file grows if it must, then the block is
\* put.  m is the length the file has, x what is written where.
WriteRest(R) == R # <<>> /\ R[1].op = "unlock" /\ Tail(R) = <<>>
WriteFacts(f, m, U) ==
  /\ Fit(U) /\ U \in Seq(Tasks) /\ U # <<>> /\ U[1].op \in {"grow", "setlength", "put"}
  /\ Has(U, {"unlock"})
  /\ \A ops : Has(U, ops) => ops \cap {"grow", "setlength", "put", "unlock"} # {}
  /\ \A g : HasOn(U, DataOps, g) => g = f
  /\ ~RegHeld(U) /\ ~RootOpen(U) /\ Grows(U, m)
  /\ \A i \in 1 .. Len(U) : U[i].op = "put" =>
       U[i].sector = f /\ (~Has(U, {"setlength"}) => U[i].arg[1] <= m)

LEMMA UnlockRest ==
  ASSUME NEW R, Fit(R), WriteRest(R)
  PROVE  /\ Len(R) = 1 /\ R \in Seq(Tasks) /\ R[1] \in Tasks
         /\ \A ops : Has(R, ops) <=> "unlock" \in ops
         /\ \A ops, f : HasOn(R, ops, f) => "unlock" \in ops
         /\ ~RegHeld(R) /\ ~RootOpen(R)
<1>1. R \in Seq(Tasks)
  BY DEF Fit
<1>2. Len(R) = 1
  BY <1>1, OneTask DEF WriteRest
<1>3. HeadFacts(R[1], Tail(R), R)
  BY HeadNow DEF WriteRest
<1>4. /\ \A ops : ~Has(Tail(R), ops)
      /\ \A ops, f : ~HasOn(Tail(R), ops, f)
      /\ ~RegHeld(Tail(R)) /\ ~RootOpen(Tail(R))
  BY NothingIn DEF WriteRest
<1>5. R[1] \in Tasks
  BY HeadOf DEF WriteRest
<1> QED
  BY <1>1, <1>2, <1>3, <1>4, <1>5 DEF HeadFacts, WriteRest, CloseRoot, Naming

PutShape(b, R, U) == U = <<b>> \o R
LEMMA PutPlan ==
  ASSUME NEW R, Fit(R), WriteRest(R), NEW f \in FileSector, NEW m \in Nat,
         NEW b \in Tasks, b.op = "put", b.sector = f, Meant(b), b.arg[1] <= m,
         NEW U, PutShape(b, R, U)
  PROVE  WriteFacts(f, m, U)
<1>1. /\ b \in Tasks /\ b.op = "put" /\ b.sector = f
  OBVIOUS
<1>2. U = <<b>> \o R
  BY DEF PutShape
<1>3. HeadFacts(b, R, U)
  BY <1>1, <1>2, UnlockRest, OneAhead
<1>4. Fit(U)
  <2>1. Meant(b)
    OBVIOUS
  <2>2. (R # <<>> => MayFollow(b, R[1])) /\ (R = <<>> => MayEnd(b))
    BY <1>1 DEF MayFollow, WriteRest
  <2>3. \A j \in 1 .. Len(R) : MayPrecede(b, R[j])
    <3>1. \A j \in 1 .. Len(R) : R[j].op = "unlock"
      BY UnlockRest DEF WriteRest
    <3> QED
      BY <1>1, <3>1 DEF MayPrecede
  <2>4. Fit(R) /\ b \in Tasks /\ b.op \notin {"lock", "erase", "lookup", "grow", "allocate", "release"}
    BY <1>1
  <2> QED
    BY <1>2, <2>1, <2>2, <2>3, <2>4, FitCons
<1>5. /\ \A ops : Has(R, ops) <=> "unlock" \in ops
      /\ \A ops, g : HasOn(R, ops, g) => "unlock" \in ops
      /\ ~RegHeld(R) /\ ~RootOpen(R)
  BY UnlockRest
<1>6. ASSUME NEW i \in 1 .. Len(U) PROVE U[i] = b \/ U[i].op = "unlock"
  <2>1. /\ U[1] = b /\ Len(U) = Len(R) + 1 /\ Len(R) = 1
        /\ \A j \in 2 .. Len(U) : U[j] = R[j - 1]
    BY <1>3, UnlockRest DEF HeadFacts
  <2>2. i = 1 \/ i = 2
    BY <2>1
  <2>3. U[2] = R[1]
    <3>1. 2 \in 2 .. Len(U) /\ 2 - 1 = 1
      BY <2>1
    <3> QED
      BY <2>1, <3>1
  <2> QED
    BY <2>1, <2>2, <2>3 DEF WriteRest
<1>7. \A ops : Has(U, ops) => ops \cap {"grow", "setlength", "put", "unlock"} # {}
  <2> TAKE ops
  <2>1. Has(U, ops) => "put" \in ops \/ "unlock" \in ops
    BY <1>1, <1>3, <1>5 DEF HeadFacts
  <2> QED
    BY <2>1
<1>8. Grows(U, m)
  BY <1>1, <1>6 DEF Grows
<1> QED
  BY <1>1, <1>3, <1>4, <1>5, <1>6, <1>7, <1>8 DEF WriteFacts, HeadFacts, DataOps, Naming, OpenRoot, CloseRoot

GrowShape(A, c, d, R, U) == U = ((A \o <<c>>) \o <<d>>) \o R
Row(A, k, g) == A = [i \in 1 .. k |-> g]
LEMMA GrowPlan ==
  ASSUME NEW R, Fit(R), WriteRest(R), NEW f \in FileSector, NEW m \in Nat, NEW k \in Nat \ {0},
         NEW g \in Tasks, NEW c \in Tasks, NEW d \in Tasks,
         g.op = "grow", c.op = "setlength", d.op = "put",
         g.sector = f, c.sector = f, d.sector = f, Meant(g), Meant(c), Meant(d),
         c.arg = m + k, d.arg[1] = c.arg,
         NEW A, Row(A, k, g), NEW U, GrowShape(A, c, d, R, U)
  PROVE  WriteFacts(f, m, U)
<1> DEFINE V == <<c, d>> \o R
<1>0. k \in Nat \ {0}
  OBVIOUS
<1>1. /\ g \in Tasks /\ g.op = "grow" /\ g.sector = f
      /\ c \in Tasks /\ c.op = "setlength" /\ c.sector = f
      /\ d \in Tasks /\ d.op = "put" /\ d.sector = f
  OBVIOUS
<1>2. R \in Seq(Tasks) /\ Len(R) = 1 /\ R[1].op = "unlock"
      /\ (\A ops : Has(R, ops) <=> "unlock" \in ops)
      /\ (\A ops, h : HasOn(R, ops, h) => "unlock" \in ops)
      /\ ~RegHeld(R) /\ ~RootOpen(R)
  BY UnlockRest DEF WriteRest
<1>3. A \in Seq(Tasks) /\ Len(A) = k /\ \A i \in 1 .. Len(A) : A[i] = g
  BY <1>0, <1>1 DEF Row
<1>4. U = A \o V
  <2>1. <<c>> \in Seq(Tasks) /\ <<d>> \in Seq(Tasks)
    BY <1>1
  <2> DEFINE P == A \o <<c>>
  <2> DEFINE Q == <<d>> \o R
  <2>2. P \in Seq(Tasks) /\ Q \in Seq(Tasks)
    BY <1>2, <1>3, <2>1
  <2>3. P \o Q = A \o (<<c>> \o Q)
    <3> HIDE DEF Q
    <3> QED
      BY <1>3, <2>1, <2>2, JoinAssoc, SMTT(30)
  <2>4. V = <<c>> \o Q
    BY <1>1, <1>2, Cons2, SMTT(30)
  <2>5. U = (P \o <<d>>) \o R
    BY DEF GrowShape
  <2> HIDE DEF P
  <2>6. (P \o <<d>>) \o R = P \o Q
    BY <1>2, <2>1, <2>2, JoinAssoc
  <2> QED
    BY <2>3, <2>4, <2>5, <2>6
<1>5. AheadFacts(c, d, R, V) /\ Fit(V)
  <2>1. V = <<c, d>> \o R
    OBVIOUS
  <2> HIDE DEF V
  <2>2. AheadFacts(c, d, R, V)
    BY <1>1, <1>2, <2>1, TwoAhead
  <2>3. Meant(c) /\ Meant(d) /\ MayFollow(c, d) /\ MayPrecede(c, d)
    BY <1>0, <1>1 DEF Meant, MayFollow, MayPrecede
  <2>4. (R # <<>> => MayFollow(d, R[1])) /\ (R = <<>> => MayEnd(d))
    BY <1>1, <1>2 DEF MayFollow, WriteRest
  <2>5. \A j \in 1 .. Len(R) : MayPrecede(c, R[j]) /\ MayPrecede(d, R[j])
    <3>1. \A j \in 1 .. Len(R) : R[j].op = "unlock"
      BY <1>2
    <3> QED
      BY <1>1, <3>1 DEF MayPrecede
  <2>6. /\ c.op \notin {"lock", "erase", "lookup", "grow", "allocate", "release"}
        /\ d.op \notin {"lock", "erase", "lookup", "grow", "allocate", "release"}
    BY <1>1
  <2>7. c \in Tasks /\ d \in Tasks
    BY <1>1
  <2>8. Fit(V)
    BY <2>1, <2>3, <2>4, <2>5, <2>6, <2>7, FitAhead
  <2> QED
    BY <2>2, <2>8
<1>6. U = A \o V
  BY <1>4
<1> HIDE DEF V
<1>7. /\ V \in Seq(Tasks) /\ V # <<>> /\ V[1] = c /\ V[2] = d /\ Len(V) = 3
      /\ \A i \in 3 .. Len(V) : V[i] = R[i - 2]
  BY <1>2, <1>5 DEF AheadFacts
<1>8. V[3] = R[1]
  <2>1. V[3] = R[3 - 2]
    BY <1>7
  <2> QED
    BY <2>1
<1>9. \A i \in 1 .. Len(V) :
        (i = 1 /\ V[i] = c) \/ (i = 2 /\ V[i] = d) \/ (i = 3 /\ V[i] = R[1])
  <2> TAKE i \in 1 .. Len(V)
  <2>1. i = 1 \/ i = 2 \/ i = 3
    BY <1>7
  <2> QED
    BY <2>1, <1>7, <1>8
<1>10. Fit(U) /\ U \in Seq(Tasks)
  <2>1. \A i \in 1 .. Len(A) : A[i].op = "grow" /\ Meant(A[i]) /\ A[i].sector = f
    BY <1>1, <1>3
  <2>2. \A i \in 1 .. Len(A), j \in 1 .. Len(A) : MayFollow(A[i], A[j]) /\ MayPrecede(A[i], A[j])
    BY <2>1 DEF MayFollow, MayPrecede, CloseRoot
  <2>3. /\ V # <<>> => \A i \in 1 .. Len(A) : MayFollow(A[i], V[1])
        /\ V = <<>> => \A i \in 1 .. Len(A) : MayEnd(A[i])
        /\ V # <<>> => V[1].op # "lock"
    BY <1>1, <1>7, <2>1 DEF MayFollow
  <2>4. \A i \in 1 .. Len(A), j \in 1 .. Len(V) : MayPrecede(A[i], V[j])
    <3> TAKE i \in 1 .. Len(A), j \in 1 .. Len(V)
    <3>1. A[i].op = "grow"
      BY <2>1
    <3>2. V[j].op = "setlength" \/ V[j].op = "put" \/ V[j].op = "unlock"
      BY <1>1, <1>2, <1>9
    <3> QED
      BY <3>1, <3>2, Sectors DEF MayPrecede, CloseRoot
  <2>5. HasOn(V, {"setlength"}, f)
    BY <1>1, <1>5 DEF AheadFacts
  <2>6. \A i \in 1 .. Len(A) : HasOn(V, {"setlength"}, A[i].sector)
    BY <2>1, <2>5
  <2>7. Fit(A \o V)
    BY <1>3, <1>5, <2>1, <2>2, <2>3, <2>4, <2>6, FitRow
  <2> QED
    BY <1>6, <2>7 DEF Fit
<1>11. /\ \A ops : Has(U, ops) <=> (Has(A, ops) \/ Has(V, ops))
       /\ \A ops, h : HasOn(U, ops, h) <=> (HasOn(A, ops, h) \/ HasOn(V, ops, h))
       /\ RegHeld(U) <=> RegHeld(V)
       /\ RootOpen(U) <=> RootOpen(V)
  <2>1. \A i \in 1 .. Len(A) : A[i].op = "grow"
    BY <1>1, <1>3
  <2> QED
    BY <1>3, <1>6, <1>7, <2>1, OnRow
<1>12. JoinFacts(A, V, U)
  BY <1>3, <1>6, <1>7, Joined
<1>13. /\ Len(U) = k + 3
       /\ \A i \in 1 .. k : U[i] = g
       /\ \A i \in k + 1 .. k + 3 : U[i] = V[i - k] /\ i - k \in 1 .. Len(V)
  <2>1. /\ Len(U) = Len(A) + Len(V)
        /\ \A i \in 1 .. Len(A) : U[i] = A[i]
        /\ \A i \in Len(A) + 1 .. Len(A) + Len(V) : U[i] = V[i - Len(A)]
    BY <1>12, Zenon DEF JoinFacts
  <2> QED
    BY <2>1, <1>0, <1>3, <1>7, SMTT(30)
<1>14. ASSUME NEW i \in 1 .. Len(U)
       PROVE  U[i] = g \/ (i = k + 1 /\ U[i] = c) \/ U[i] = d \/ U[i].op = "unlock"
  <2>1. CASE i <= k
    BY <1>0, <1>13, <2>1
  <2>2. CASE ~(i <= k)
    <3>1. i \in k + 1 .. k + 3
      BY <1>0, <1>13, <2>2
    <3>2. U[i] = V[i - k] /\ i - k \in 1 .. Len(V)
      BY <1>13, <3>1
    <3> QED
      BY <1>0, <1>2, <1>9, <3>1, <3>2
  <2> QED
    BY <2>1, <2>2
<1>15. U[1] = g /\ U # <<>>
  <2>1. 1 \in 1 .. k
    BY <1>0
  <2> QED
    BY <1>0, <1>10, <1>13, <2>1
<1>16. Grows(U, m)
  <2> SUFFICES ASSUME NEW i \in 1 .. Len(U), U[i].op = "setlength"
               PROVE  U[i].arg = m + (i - 1 - Early(U))
    BY DEF Grows
  <2>1. i = k + 1 /\ U[i] = c
    BY <1>1, <1>14
  <2>2. Early(U) = 0
    BY <1>1, <1>15 DEF Early, AtHead
  <2>3. c.arg = m + k
    OBVIOUS
  <2>4. (k + 1) - 1 - 0 = k
    BY <1>0
  <2> QED
    BY <2>1, <2>2, <2>3, <2>4
<1>17. Has(A, {"grow"}) /\ (\A ops : Has(A, ops) => "grow" \in ops)
       /\ \A ops, h : HasOn(A, ops, h) => h = f
  <2>1. 1 \in 1 .. Len(A)
    BY <1>0, <1>3
  <2> QED
    BY <2>1, <1>1, <1>3 DEF Has, HasOn
<1>18. \A ops : Has(U, ops) => ops \cap {"grow", "setlength", "put", "unlock"} # {}
  <2> TAKE ops
  <2>1. Has(U, ops) => "grow" \in ops \/ "setlength" \in ops \/ "put" \in ops \/ "unlock" \in ops
    BY <1>1, <1>2, <1>5, <1>11, <1>17 DEF AheadFacts
  <2> QED
    BY <2>1
<1>19. Has(U, {"unlock"}) /\ Has(U, {"setlength"})
  BY <1>1, <1>2, <1>5, <1>11 DEF AheadFacts
<1>20. \A h : HasOn(U, DataOps, h) => h = f
  <2>1. "unlock" \notin DataOps
    BY DEF DataOps
  <2> QED
    BY <1>1, <1>2, <1>5, <1>11, <1>17, <2>1 DEF AheadFacts
<1>21. ~RegHeld(U) /\ ~RootOpen(U)
  BY <1>1, <1>2, <1>5, <1>11 DEF AheadFacts, Naming, CloseRoot
<1>22. \A i \in 1 .. Len(U) : U[i].op = "put" => U[i].sector = f
  BY <1>1, <1>14
<1> QED
  BY <1>1, <1>10, <1>15, <1>16, <1>18, <1>19, <1>20, <1>21, <1>22 DEF WriteFacts

-----------------------------------------------------------------------------
LEMMA WritePlan ==
  ASSUME NEW R, Fit(R), WriteRest(R), NEW f \in FileSector, NEW m \in Nat,
         NEW x \in (1 .. MaxLen) \X Val, NEW U,
         U = ([i \in 1 .. x[1] - m |-> Task("grow", f, 0)] \o
                  (IF x[1] > m THEN <<Task("setlength", f, x[1])>> ELSE <<>>)
                  \o <<Task("put", f, x)>>) \o R
  PROVE  WriteFacts(f, m, U)
<1> DEFINE g == Task("grow", f, 0)
<1> DEFINE c == Task("setlength", f, x[1])
<1> DEFINE d == Task("put", f, x)
<1> DEFINE A == [i \in 1 .. x[1] - m |-> g]
<1>0. x[1] \in Nat /\ x[1] \in 1 .. MaxLen /\ MaxLen \in Nat
  BY FilesAssumption
<1>1. /\ g \in Tasks /\ g.op = "grow" /\ g.sector = f
      /\ c \in Tasks /\ c.op = "setlength" /\ c.sector = f /\ c.arg = x[1]
      /\ d \in Tasks /\ d.op = "put" /\ d.sector = f /\ d.arg = x /\ d.arg[1] = x[1]
  BY <1>0, Sectors, FilesAssumption DEF Tasks, Task, Op, Arguments
<1>2. Meant(g) /\ Meant(c) /\ Meant(d)
  BY <1>0, <1>1 DEF Meant
<1>3. CASE x[1] <= m
  <2>1. U = (<<>> \o <<>> \o <<d>>) \o R
    <3>1. A = <<>>
      <4>1. 1 .. x[1] - m = {}
        BY <1>0, <1>3
      <4> QED
        BY <4>1, SMTT(30)
    <3> DEFINE L == IF x[1] > m THEN <<Task("setlength", f, x[1])>> ELSE <<>>
    <3>2. L = <<>>
      BY <1>0, <1>3
    <3>3. U = (A \o L \o <<d>>) \o R
      OBVIOUS
    <3> HIDE DEF A, L, d
    <3> QED
      BY <3>1, <3>2, <3>3, Zenon
  <2>2. <<>> \o <<>> \o <<d>> = <<d>>
    OBVIOUS
  <2>3. PutShape(d, R, U)
    BY <2>1, <2>2 DEF PutShape
  <2>4. d.arg[1] <= m
    BY <1>1, <1>3
  <2> HIDE DEF g, c, d, A
  <2> QED
    BY <1>1, <1>2, <2>3, <2>4, PutPlan
<1>4. CASE x[1] > m
  <2> DEFINE k == x[1] - m
  <2>1. k \in Nat \ {0} /\ c.arg = m + k
    BY <1>0, <1>1, <1>4, SMTT(30)
  <2>2. Row(A, k, g)
    BY DEF Row
  <2>3. GrowShape(A, c, d, R, U)
    BY <1>4 DEF GrowShape
  <2> HIDE DEF g, c, d, A, k
  <2>4. d.arg[1] = c.arg
    BY <1>1
  <2> QED
    BY <1>1, <1>2, <2>1, <2>2, <2>3, <2>4, GrowPlan
<1> QED
  BY <1>0, <1>3, <1>4

LEMMA WriteAtStep ==
  ASSUME NEW p \in Proc, Focus(p), WriteAt(p), lost' = lost
  PROVE  Focus(p)'
<1> DEFINE T == todo[p]
<1> DEFINE R == Tail(T)
<1> DEFINE a == T[1]
<1> DEFINE f == S(p)
<1> DEFINE m == inode[f].data.length
<1> DEFINE N == [i \in 1 .. Arg(p)[1] - m |-> Task("grow", f, 0)] \o
                  (IF Arg(p)[1] > m THEN <<Task("setlength", f, Arg(p)[1])>> ELSE <<>>)
                  \o <<Task("put", f, Arg(p))>>
<1>1. Is(p, "write")
  BY DEF WriteAt
<1>2. /\ T # <<>> /\ a.op = "write" /\ mode = "up" /\ Fit(T) /\ ~Quiet(p) /\ Meant(a)
      /\ Fit(R) /\ R \in Seq(Tasks) /\ T \in Seq(Tasks) /\ a \in Tasks /\ f = a.sector /\ Arg(p) = a.arg
      /\ Plans /\ Turn(p) /\ CacheRight(p) /\ DiskRight /\ HandleTypes
      /\ SystemData(p) /\ OwnersRight(p) /\ NewRight(p) /\ NamesRight(p) /\ DataRight(p)
      /\ Counted(p) /\ LoadedRight(p) /\ InodesRight(p)
  BY <1>1, Begin, HeadOf
<1>3. CASE inode[f].deny > 0
  <2>1. Then(p, <<>>)
    BY <1>3 DEF WriteAt
  <2>2. UNCHANGED <<cache, miss, used, inode, fd, exec, leaked, fsLock, reg, mode, disk>>
    BY DEF WriteAt
  <2>3. a.op \in {"zero", "newinode", "read", "write", "create"}
    BY <1>2
  <2> QED
    BY <1>2, <2>1, <2>2, <2>3, PlainPop
<1>4. CASE ~(inode[f].deny > 0)
  <2>1. /\ Then(p, N)
        /\ UNCHANGED <<disk, cache, used, inode, fd, exec, leaked, fsLock, reg, miss, got, mode>>
    BY <1>4 DEF WriteAt
  <2>2. /\ f \in FileSector /\ inode[f].cnt > 0 /\ inode[f].loaded
        /\ Arg(p) \in (1 .. MaxLen) \X Val
    <3>1. a.op \in DataOps
      BY <1>2 DEF DataOps
    <3>2. Arg(p) \in (1 .. MaxLen) \X Val
      BY <1>2 DEF Meant
    <3> QED
      BY <1>2, <3>1, <3>2, FileOpen
  <2>3. WriteRest(R)
    <3>1. R # <<>> => MayFollow(a, R[1])
      BY <1>2, FitRest
    <3>2. R = <<>> => MayEnd(a)
      BY <1>2, FitRest
    <3> HIDE DEF R, a, T
    <3>3. R # <<>>
      BY <1>2, <3>2 DEF MayEnd
    <3>4. R[1].op = "unlock"
      BY <1>2, <3>1, <3>3 DEF MayFollow
    <3>5. Tail(R) = <<>>
      <4>1. R[1].op \in {"newfd", "loaded", "unlock", "off"}
        BY <3>4
      <4> QED
        BY <1>2, <3>3, <4>1, LastTask
    <3> QED
      BY <3>3, <3>4, <3>5 DEF WriteRest
  <2>4. HeadFacts(a, R, T)
    BY <1>2, HeadNow
  <2>5. /\ \A ops : Has(R, ops) <=> "unlock" \in ops
        /\ \A ops, g : HasOn(R, ops, g) => "unlock" \in ops
        /\ ~RegHeld(R) /\ ~RootOpen(R)
    BY <1>2, <2>3, UnlockRest
  <2>6. ~Growing(p, f) /\ f \in File /\ m = Len(inode[f].data.direct) /\ m \in Nat
    <3>1. ~Growing(p, f)
      BY <1>2, <2>4, <2>5 DEF Growing, HeadFacts
    <3>2. f \in File /\ InodeOf(f) = inode[f].data
      BY <2>2 DEF File, InodeOf
    <3>3. FileRight(p, f)
      BY <1>2, <3>2 DEF InodesRight
    <3>4. inode[f].data.length = Len(inode[f].data.direct) /\ inode[f].data.length \in Nat
      BY <3>1, <3>2, <3>3 DEF FileRight
    <3> QED
      BY <3>1, <3>2, <3>4
  <2> DEFINE U == N \o R
  <2>7. WriteFacts(f, m, U)
    <3> DEFINE x == Arg(p)
    <3>1. U = ([i \in 1 .. x[1] - m |-> Task("grow", f, 0)] \o
                  (IF x[1] > m THEN <<Task("setlength", f, x[1])>> ELSE <<>>)
                  \o <<Task("put", f, x)>>) \o R
      OBVIOUS
    <3>2. Fit(R) /\ x \in (1 .. MaxLen) \X Val /\ f \in FileSector /\ m \in Nat
      BY <1>2, <2>2, <2>6
    <3> HIDE DEF U, R, x, f, m
    <3> QED
      BY <2>3, <3>1, <3>2, WritePlan
  <2>8. Moves(p, U) /\ todo'[p] = U
    <3>1. U = N \o Tail(todo[p])
      OBVIOUS
    <3>2. Fit(U) /\ U # <<>> /\ U[1].op # "lock"
      BY <2>7, Zenon DEF WriteFacts
    <3> HIDE DEF U, N
    <3> QED
      BY <1>2, <2>1, <3>1, <3>2, ThenMoves
  <2>9. /\ Fit(U) /\ U \in Seq(Tasks) /\ U # <<>> /\ U[1].op \in {"grow", "setlength", "put"}
        /\ Has(U, {"unlock"})
        /\ \A ops : Has(U, ops) => ops \cap {"grow", "setlength", "put", "unlock"} # {}
        /\ \A g : HasOn(U, DataOps, g) => g = f
        /\ ~RegHeld(U) /\ ~RootOpen(U) /\ Grows(U, m)
        /\ \A i \in 1 .. Len(U) : U[i].op = "put" =>
             U[i].sector = f /\ (~Has(U, {"setlength"}) => U[i].arg[1] <= m)
    BY <2>7, Zenon DEF WriteFacts
  <2> HIDE DEF U, N, R, a, T
  <2>10. /\ ~Has(U, {"close"}) /\ ~Has(U, Making) /\ ~Has(U, {"release"}) /\ ~Has(U, Making \cup {"create", "zero"})
         /\ ~Has(U, {"erase", "deny", "newfd"})
    BY <2>9 DEF Making
  <2>11. /\ ~Has(T, {"close"}) /\ ~Has(T, Making) /\ ~Has(T, {"release"})
         /\ Has(T, {"unlock"}) /\ HasOn(T, DataOps, f)
         /\ ~RegHeld(T) /\ ~RootOpen(T)
         /\ ~Has(T, {"setlength"}) /\ ~Has(T, {"setlength", "writeinode"})
    BY <1>2, <2>4, <2>5 DEF HeadFacts, Making, DataOps, Naming, CloseRoot
  <2>12. \A g : /\ ~HasOn(U, {"close"}, g) /\ ~HasOn(T, {"close"}, g)
                /\ ~HasOn(U, {"release"}, g) /\ ~HasOn(T, {"release"}, g)
                /\ ~HasOn(T, {"setlength"}, g) /\ ~HasOn(T, {"setlength", "writeinode"}, g)
    BY <2>10, <2>11, HasOnHas
  <2>13. \A g \in FileSector : Held(p, g)' <=> Held(p, g)
    BY <2>8, <2>9, <2>11, <2>12 DEF Held, T
  <2>14. Made(p)' = Made(p) /\ ToGive(p)' = ToGive(p)
    BY <2>8, <2>10, <2>11, <2>12 DEF Made, ToGive, T
  <2>15. /\ miss' \in [Proc -> Misses] /\ \A q \in Proc \ {p} : miss'[q] = miss[q]
         /\ CacheRight(p)'
         /\ \A t : Caught(p, t)' <=> Caught(p, t)
         /\ \A t : Logical(t)' = Logical(t)
    <3>1. Wants(p) = None
      BY <1>2, WantsOf DEF T, a
    <3> QED
      BY <1>2, <2>1, <3>1, NoAccess, SMTT(30)
  <2>16. /\ ~AtHead(U, {"load", "off"}) /\ ~AtHead(U, {"open"}) /\ ~AtHead(U, {"readat"})
    BY <2>9 DEF AtHead
  <2>17. NewRight(p)'
    BY <2>8, <2>9, <2>10, CalmNew
  <2>18. ASSUME InDir' = InDir PROVE NamesRight(p)'
    <3>1. \A i \in 1 .. Len(U) : U[i].op \notin {"erase", "deny", "newfd"}
      BY <2>10 DEF Has
    <3>2. exec'[p] = exec[p] /\ (fd'[p] = None <=> fd[p] = None)
      BY <2>1
    <3> QED
      BY <1>2, <2>8, <2>16, <2>18, <3>1, <3>2, KeepNames
  <2>19. DataRight(p)'
    <3>1. \A g \in FileSector : Growing(p, g)' => Grows(U, Len(inode'[g].data.direct))
      <4> SUFFICES ASSUME NEW g \in FileSector, HasOn(U, {"setlength"}, g)
                   PROVE  Grows(U, Len(inode'[g].data.direct))
        BY <2>8 DEF Growing
      <4>1. HasOn(U, DataOps, g)
        BY DEF HasOn, DataOps
      <4>2. g = f
        BY <2>9, <4>1
      <4> QED
        BY <2>1, <2>6, <2>9, <4>2
    <3>2. \A i \in 1 .. Len(U) : U[i].op = "put" /\ ~Has(U, {"setlength"}) =>
            U[i].arg[1] <= inode'[U[i].sector].data.length
      BY <2>1, <2>9
    <3> QED
      BY <2>8, <2>16, <3>1, <3>2 DEF DataRight
  <2>20. ASSUME File' = File, \A g \in File : InodeOf(g)' = InodeOf(g) PROVE OwnersRight(p)'
    BY <1>2, <2>1, <2>14, <2>20, KeepOwners
  <2>21. /\ a.op \notin {"off", "flush", "load", "mapwrite"} /\ mode' = mode
         /\ Has(U, {"unlock"}) <=> Has(T, {"unlock"})
         /\ \A g : HasOn(U, DataOps, g) /\ Has(U, {"unlock"}) => HasOn(T, DataOps, g)
         /\ \A g \in FileSector : Growing(p, g) => HasOn(U, {"setlength"}, g)
         /\ \A g \in FileSector : Writing(p, g) => HasOn(U, {"setlength", "writeinode"}, g)
    BY <1>2, <2>1, <2>9, <2>11, <2>12 DEF Growing, Writing, T
  <2>22. /\ UNCHANGED <<disk, inode, fd, exec, leaked, fsLock>>
         /\ reg' \in [Proc -> Seq(FileSector)] /\ used' \subseteq Sector /\ used' = used
         /\ (RootOpen(U) <=> RootOpen(T))
    BY <1>2, <2>1, <2>9, <2>11 DEF Plans, DiskRight
  <2> QED
    BY <1>2, <2>8, <2>13, <2>15, <2>16, <2>17, <2>18, <2>19, <2>20, <2>21, <2>22,
       ShiftStep DEF T, a
<1> QED
  BY <1>3, <1>4

-----------------------------------------------------------------------------
\* After the directory has been looked through for a file to open.
LEMMA LookupRest ==
  ASSUME NEW T, Fit(T), T # <<>>, T[1].op = "lookup", NEW R, R = Tail(T)
  PROVE  /\ Len(R) >= 2 /\ CloseRoot(R[1]) /\ R[2].op \in Naming /\ R # <<>> /\ R \in Seq(Tasks)
         /\ RegHeld(R) /\ ~RegHeld(T) /\ (RootOpen(R) <=> RootOpen(T))
         /\ \A ops : Has(R, ops) => Has(T, ops)
         /\ \A ops : ops \cap {"lookup"} = {} => (Has(R, ops) <=> Has(T, ops))
         /\ ~Has(T, Making \cup {"create", "zero", "erase", "setlength", "put", "writeinode",
                                 "release", "unlock"})
         /\ \A f \in FileSector : ~HasOn(T, {"close"}, f)
<1>1. HeadFacts(T[1], R, T)
  BY HeadNow
<1>2. /\ R # <<>> => MayFollow(T[1], R[1])
      /\ R = <<>> => MayEnd(T[1])
      /\ Fit(R) /\ R \in Seq(Tasks) /\ \A j \in 1 .. Len(R) : MayPrecede(T[1], R[j])
  BY FitRest DEF Fit
<1>3. R # <<>> /\ CloseRoot(R[1])
  <2>1. R # <<>>
    BY <1>2 DEF MayEnd
  <2> QED
    BY <2>1, <1>2 DEF MayFollow
<1>4. 1 + 2 <= Len(T) /\ T[1 + 2].op \in Naming
  <2>1. 1 \in 1 .. Len(T)
    BY <1>1 DEF HeadFacts
  <2> QED
    BY <2>1 DEF Fit, Paired
<1>5. Len(R) >= 2 /\ R[2].op \in Naming
  <2>1. /\ Len(T) = Len(R) + 1 /\ Len(R) \in Nat
        /\ \A i \in 2 .. Len(T) : T[i] = R[i - 1]
    BY <1>1 DEF HeadFacts
  <2>2. 1 + 2 = 3 /\ 3 \in 2 .. Len(T) /\ 3 - 1 = 2 /\ Len(R) >= 2
    BY <2>1, <1>4
  <2>3. T[3] = R[2]
    BY <2>1, <2>2
  <2>4. T[3].op \in Naming
    BY <1>4, <2>2
  <2> QED
    BY <2>2, <2>3, <2>4
<1>6. RegHeld(R)
  <2>1. 2 \in 1 .. Len(R)
    BY <1>2, <1>5
  <2>2. R[2].op # "lookup" /\ R[1].op # "lookup"
    BY <1>3, <1>5 DEF Naming, CloseRoot
  <2>3. \A i \in 1 .. 2 : i = 1 \/ i = 2
    OBVIOUS
  <2>4. \A i \in 1 .. 2 : R[i].op # "lookup"
    BY <2>2, <2>3
  <2> QED
    BY <1>5, <2>1, <2>4 DEF RegHeld
<1>7. ~Has(R, Making \cup {"create", "zero", "erase", "setlength", "put", "writeinode", "release", "unlock"})
  <2> DEFINE ops == Making \cup {"create", "zero", "erase", "setlength", "put", "writeinode",
                                 "release", "unlock"}
  <2>1. \A d \in Tasks : d.op \in ops => ~MayPrecede(T[1], d)
    BY DEF MayPrecede, CloseRoot, Making
  <2> HIDE DEF ops
  <2>2. ~Has(R, ops)
    BY <2>1, NotLater
  <2> QED
    BY <2>2 DEF ops
<1>8. \A f \in FileSector : ~HasOn(R, {"close"}, f)
  <2> SUFFICES ASSUME NEW f \in FileSector, NEW i \in 1 .. Len(R), R[i].op = "close", R[i].sector = f
               PROVE  FALSE
    BY DEF HasOn
  <2>1. MayPrecede(T[1], R[i])
    BY <1>2
  <2> QED
    BY <2>1 DEF MayPrecede
<1>9. T[1].op \notin Making \cup {"create", "zero", "erase", "setlength", "put", "writeinode", "release",
                                  "unlock", "close"} /\ T[1].op \notin Naming
      /\ ~OpenRoot(T[1]) /\ ~CloseRoot(T[1])
  BY DEF Making, Naming, OpenRoot, CloseRoot
<1> QED
  BY <1>1, <1>2, <1>3, <1>5, <1>6, <1>7, <1>8, <1>9 DEF HeadFacts

LEMMA LookupMove ==
  ASSUME NEW p \in Proc, Focus(p), mode = "up", mode' = mode, todo[p] # <<>>,
         todo[p][1].op = "lookup",
         UNCHANGED <<disk, used, inode, fd, exec, leaked, fsLock, lost>>,
         NEW c \in Accessed(p), Fetched(p, c),
         NEW U, Moves(p, U), todo'[p] = U, reg' \in [Proc -> Seq(FileSector)],
         \/ U = Tail(todo[p]) /\ reg'[p] = <<>>
         \/ \E s \in Named : reg'[p] = <<s>> /\ HeadFacts(Task("open", s, 0), Tail(todo[p]), U)
  PROVE  Focus(p)'
<1> DEFINE T == todo[p]
<1> DEFINE R == Tail(T)
<1> DEFINE a == T[1]
<1>1. /\ Plans /\ Turn(p) /\ CacheRight(p) /\ DiskRight /\ HandleTypes
      /\ SystemData(p) /\ OwnersRight(p) /\ NewRight(p) /\ NamesRight(p) /\ DataRight(p)
      /\ Fit(T) /\ T # <<>> /\ a.op = "lookup" /\ ~Quiet(p)
  BY DEF Focus, Plans, Quiet
<1>2. /\ CloseRoot(R[1]) /\ R # <<>> /\ R \in Seq(Tasks)
      /\ RegHeld(R) /\ ~RegHeld(T) /\ (RootOpen(R) <=> RootOpen(T))
      /\ \A ops : Has(R, ops) => Has(T, ops)
      /\ \A ops : ops \cap {"lookup"} = {} => (Has(R, ops) <=> Has(T, ops))
      /\ ~Has(T, Making \cup {"create", "zero", "erase", "setlength", "put", "writeinode",
                              "release", "unlock"})
      /\ \A f \in FileSector : ~HasOn(T, {"close"}, f)
  BY <1>1, LookupRest
<1>3. \A f \in FileSector : ~HasOn(R, {"close"}, f)
  <2>1. HeadFacts(a, R, T)
    BY <1>1, HeadNow
  <2> QED
    BY <1>2, <2>1 DEF HeadFacts
<1>4. File \subseteq FileSector /\ Named \subseteq File
  BY <1>1, FileFacts
<1> HIDE DEF R, a, T
<1>5. /\ miss' \in [Proc -> Misses] /\ \A q \in Proc \ {p} : miss'[q] = miss[q]
      /\ CacheRight(p)' /\ \A s : Logical(s)' = Logical(s)
      /\ \A s \in FileSector : Caught(p, s)' => Caught(p, s)
  <2>1. Wants(p) = RootData
    BY <1>1, WantsOf DEF T, a
  <2>2. RootData \in Cachable /\ RootData \notin FileSector
    BY Sectors DEF Cachable
  <2> QED
    BY <1>1, <2>1, <2>2, OnFetch, SMTT(30)
<1>6. /\ U # <<>> /\ U \in Seq(Tasks)
      /\ U[1].op \in {"open", "close"}
      /\ (RootOpen(U) <=> RootOpen(T))
      /\ ~Has(U, Making \cup {"create", "zero", "erase", "setlength", "put", "writeinode", "release", "unlock"})
      /\ \A ops : Has(U, ops) => "open" \in ops \/ Has(T, ops)
      /\ \A f \in FileSector : ~HasOn(U, {"close"}, f)
      /\ \A f \in FileSector : AtHeadOn(U, "open", f) =>
           f \in Named /\ RegHeld(U) /\ reg'[p] = <<f>>
      /\ AtHead(U, {"open"}) => U[1].sector \in FileSector
      /\ \A f \in FileSector : reg'[p] # <<>> /\ reg'[p][1] = f => AtHeadOn(U, "open", f)
  <2>1. CASE U = Tail(todo[p]) /\ reg'[p] = <<>>
    <3>1. U = R /\ U[1].op = "close"
      BY <2>1, <1>2 DEF R, T, CloseRoot
    <3> QED
      BY <2>1, <3>1, <1>2, <1>3 DEF AtHead, AtHeadOn
  <2>2. ASSUME NEW s \in Named, reg'[p] = <<s>>, HeadFacts(Task("open", s, 0), R, U)
        PROVE  <1>6!:
    <3> DEFINE b == Task("open", s, 0)
    <3>1. b.op = "open" /\ b.sector = s /\ s \in FileSector /\ s # ROOT_DIR_SECTOR
      BY <1>4, Sectors DEF Task
    <3>2. HeadFacts(b, R, U)
      BY <2>2
    <3> HIDE DEF b
    <3>3. /\ U \in Seq(Tasks) /\ U # <<>> /\ U[1] = b
          /\ \A ops : Has(U, ops) <=> (b.op \in ops \/ Has(R, ops))
          /\ \A ops, f : HasOn(U, ops, f) <=> ((b.op \in ops /\ b.sector = f) \/ HasOn(R, ops, f))
          /\ RegHeld(U) <=> (b.op # "lookup" /\ (b.op \in Naming \/ RegHeld(R)))
          /\ RootOpen(U) <=> (~OpenRoot(b) /\ (CloseRoot(b) \/ RootOpen(R)))
      BY <3>2, Zenon DEF HeadFacts
    <3>4. /\ RegHeld(U) /\ (RootOpen(U) <=> RootOpen(T))
      BY <3>1, <3>3, <1>2 DEF OpenRoot, CloseRoot
    <3>5. ~Has(U, Making \cup {"create", "zero", "erase", "setlength", "put", "writeinode", "release",
                               "unlock"})
      <4>1. b.op \notin Making \cup {"create", "zero", "erase", "setlength", "put", "writeinode", "release",
                                     "unlock"}
        BY <3>1 DEF Making
      <4> QED
        BY <4>1, <3>3, <1>2
    <3>6. \A f \in FileSector : ~HasOn(U, {"close"}, f)
      BY <3>1, <3>3, <1>3
    <3>7. \A f \in FileSector : AtHeadOn(U, "open", f) <=> f = s
      BY <3>1, <3>3 DEF AtHeadOn
    <3>8. reg'[p] # <<>> /\ reg'[p][1] = s
      BY <2>2
    <3>9. \A ops : Has(U, ops) => "open" \in ops \/ Has(T, ops)
      BY <3>1, <3>3, <1>2
    <3> QED
      BY <2>2, <3>1, <3>3, <3>4, <3>5, <3>6, <3>7, <3>8, <3>9
  <2>3. \/ U = Tail(todo[p]) /\ reg'[p] = <<>>
        \/ \E s \in Named : reg'[p] = <<s>> /\ HeadFacts(Task("open", s, 0), R, U)
    BY DEF R, T
  <2> QED
    BY <2>1, <2>2, <2>3
<1>7. /\ \A ops : ops \subseteq Making \cup {"create", "zero", "erase", "setlength", "put", "writeinode",
                                             "release", "unlock"} =>
           ~Has(U, ops) /\ ~Has(T, ops) /\ \A f : ~HasOn(U, ops, f) /\ ~HasOn(T, ops, f)
  <2>1. \A ops : ops \subseteq Making \cup {"create", "zero", "erase", "setlength", "put", "writeinode",
                                             "release", "unlock"} => ~Has(U, ops) /\ ~Has(T, ops)
    BY <1>2, <1>6 DEF Has
  <2> QED
    BY <2>1, HasOnHas
<1>8. \A f \in FileSector : Held(p, f)' <=> Held(p, f)
  <2>1. \A f \in FileSector : ~Held(p, f)
    BY <1>2 DEF Held, T
  <2>2. \A f \in FileSector : ~Held(p, f)'
    BY <1>6 DEF Held
  <2> QED
    BY <2>1, <2>2
<1>9. Made(p)' = Made(p) /\ ToGive(p)' = ToGive(p)
  <2>1. ~Has(U, Making) /\ ~Has(T, Making) /\ \A f : ~HasOn(U, {"release"}, f) /\ ~HasOn(T, {"release"}, f)
    BY <1>7
  <2> QED
    BY <2>1 DEF Made, ToGive, T
<1>10. ~AtHead(U, {"load", "off"}) /\ ~AtHead(U, {"readat"})
  BY <1>6 DEF AtHead
<1>11. NewRight(p)'
  <2>1. ~Has(U, Making \cup {"create", "zero"})
    BY <1>7
  <2> QED
    BY <1>6, <2>1, CalmNew
<1>12. DataRight(p)'
  <2>1. ~Has(U, {"setlength", "put"})
    BY <1>7
  <2> QED
    BY <1>6, <1>10, <2>1, CalmData
<1>13. ASSUME InDir' = InDir, Named' = Named PROVE NamesRight(p)'
  <2>1. AtHead(U, {"open"}) => U[1].sector \in Named /\ RegHeld(U) /\ reg'[p] = <<U[1].sector>>
    BY <1>6 DEF AtHead, AtHeadOn
  <2>2. ~Has(U, {"erase"})
    BY <1>7
  <2>3. (Has(U, {"deny"}) => exec'[p] = None) /\ (Has(U, {"newfd"}) => fd'[p] = None)
    BY <1>1, <1>6 DEF NamesRight, T
  <2> QED
    BY <1>13, <2>1, <2>2, <2>3 DEF NamesRight, Has
<1>14. ASSUME File' = File, \A g \in File : InodeOf(g)' = InodeOf(g) PROVE OwnersRight(p)'
  BY <1>1, <1>9, <1>14, KeepOwners
<1>15. /\ a.op \notin {"off", "flush", "load", "mapwrite"}
       /\ Has(U, {"unlock"}) <=> Has(T, {"unlock"})
       /\ \A g : HasOn(U, DataOps, g) /\ Has(U, {"unlock"}) => HasOn(T, DataOps, g)
       /\ \A g \in FileSector : Growing(p, g) => HasOn(U, {"setlength"}, g)
       /\ \A g \in FileSector : Writing(p, g) => HasOn(U, {"setlength", "writeinode"}, g)
       /\ used' \subseteq Sector /\ used' = used
  <2>1. ~Has(U, {"unlock"}) /\ ~Has(T, {"unlock"})
        /\ (\A g : ~HasOn(T, {"setlength"}, g) /\ ~HasOn(T, {"setlength", "writeinode"}, g))
    BY <1>7
  <2> QED
    BY <1>1, <2>1 DEF Growing, Writing, T, DiskRight
<1> QED
  BY <1>1, <1>5, <1>6, <1>8, <1>10, <1>11, <1>12, <1>13, <1>14, <1>15, ShiftStep DEF T, a

-----------------------------------------------------------------------------
LEMMA OpenAhead ==
  ASSUME NEW s \in FileSector, NEW R, Fit(R), R # <<>>, CloseRoot(R[1]),
         ~Has(R, {"erase"}), \A f \in FileSector : ~HasOn(R, {"close"}, f),
         \A j \in 1 .. Len(R) : MayPrecede(Task("lookup", 0, Zero), R[j]),
         NEW U, U = <<Task("open", s, 0)>> \o R
  PROVE  Fit(U) /\ HeadFacts(Task("open", s, 0), R, U) /\ Task("open", s, 0) \in Tasks
<1> DEFINE b == Task("open", s, 0)
<1>1. b \in Tasks /\ b.op = "open" /\ b.sector = s
  BY Sectors DEF Tasks, Task, Op, Arguments
<1>2. U = <<b>> \o R /\ R \in Seq(Tasks)
  BY DEF Fit
<1>3. Task("lookup", 0, Zero).op = "lookup"
  BY DEF Task
<1> HIDE DEF b
<1>4. HeadFacts(b, R, U)
  BY <1>1, <1>2, OneAhead
<1>5. Meant(b)
  BY <1>1 DEF Meant
<1>6. (R # <<>> => MayFollow(b, R[1])) /\ (R = <<>> => MayEnd(b))
  BY <1>1, Sectors DEF MayFollow
<1>7. ASSUME NEW j \in 1 .. Len(R) PROVE MayPrecede(b, R[j])
  <2>1. R[j].op # "erase" /\ ~(R[j].op = "close" /\ R[j].sector \in FileSector)
    BY DEF Has, HasOn
  <2>2. MayPrecede(Task("lookup", 0, Zero), R[j])
    OBVIOUS
  <2> QED
    BY <1>1, <1>3, <2>1, <2>2 DEF MayPrecede, CloseRoot
<1>8. Fit(R) /\ b \in Tasks /\ b.op \notin {"lock", "erase", "lookup", "grow", "allocate", "release"}
  BY <1>1
<1>9. Fit(U)
  <2>1. \A j \in 1 .. Len(R) : MayPrecede(b, R[j])
    BY <1>7
  <2>2. U = <<b>> \o R
    BY <1>2
  <2> QED
    BY <1>5, <1>6, <1>8, <2>1, <2>2, FitCons
<1>10. HeadFacts(Task("open", s, 0), R, U) /\ Task("open", s, 0) \in Tasks
  BY <1>1, <1>4 DEF b
<1> QED
  BY <1>9, <1>10

LEMMA LookupStep ==
  ASSUME NEW p \in Proc, Focus(p), Lookup(p), lost' = lost
  PROVE  Focus(p)'
<1> DEFINE T == todo[p]
<1> DEFINE R == Tail(T)
<1> DEFINE a == T[1]
<1>1. Is(p, "lookup")
  BY DEF Lookup
<1>2. /\ T # <<>> /\ a.op = "lookup" /\ mode = "up" /\ Fit(T) /\ ~Quiet(p) /\ Meant(a)
      /\ Fit(R) /\ R \in Seq(Tasks) /\ T \in Seq(Tasks) /\ a \in Tasks /\ Arg(p) = a.arg
      /\ Plans /\ Turn(p) /\ CacheRight(p) /\ DiskRight /\ HandleTypes
      /\ SystemData(p) /\ OwnersRight(p)
  BY <1>1, Begin, HeadOf
<1>3. /\ CloseRoot(R[1]) /\ R # <<>>
      /\ ~Has(T, Making \cup {"create", "zero", "erase", "setlength", "put", "writeinode",
                              "release", "unlock"})
      /\ \A f \in FileSector : ~HasOn(T, {"close"}, f)
  BY <1>2, LookupRest
<1>4. HeadFacts(a, R, T)
  BY <1>2, HeadNow
<1>5. /\ ~Has(R, {"erase"}) /\ \A f \in FileSector : ~HasOn(R, {"close"}, f)
  <2>1. ~Has(T, {"erase"})
    BY <1>3 DEF Has
  <2> QED
    BY <1>3, <1>4, <2>1 DEF HeadFacts
<1>6. PICK c \in Accessed(p) :
        /\ Fetched(p, c)
        /\ \/ /\ Entries(c, Arg(p)) = {}
              /\ reg' = [reg EXCEPT ![p] = <<>>] /\ Then(p, <<>>)
           \/ \E e \in Entries(c, Arg(p)) :
                /\ reg' = [reg EXCEPT ![p] = <<e[2]>>]
                /\ Then(p, <<Task("open", e[2], 0)>>)
  BY DEF Lookup
<1>7. UNCHANGED <<disk, used, inode, fd, exec, leaked, fsLock, got, mode>>
  BY DEF Lookup
<1>8. reg \in [Proc -> Seq(FileSector)]
  BY <1>2 DEF Plans
<1>9. CASE reg' = [reg EXCEPT ![p] = <<>>] /\ Then(p, <<>>)
  <2>1. reg'[p] = <<>> /\ reg' \in [Proc -> Seq(FileSector)]
    BY <1>8, <1>9
  <2>2. R[1].op # "lock"
    BY <1>3 DEF CloseRoot
  <2>3. Moves(p, R) /\ todo'[p] = R
    <3>1. R = <<>> \o Tail(todo[p])
      BY <1>2
    <3> HIDE DEF R
    <3> QED
      BY <1>2, <1>9, <2>2, <3>1, ThenMoves
  <2>4. R = Tail(todo[p])
    OBVIOUS
  <2> HIDE DEF R
  <2> QED
    BY <1>2, <1>6, <1>7, <2>1, <2>3, <2>4, LookupMove
<1>10. ASSUME NEW e \in Entries(c, Arg(p)), reg' = [reg EXCEPT ![p] = <<e[2]>>],
              Then(p, <<Task("open", e[2], 0)>>)
       PROVE  Focus(p)'
  <2>1. e[2] \in Named /\ e[2] \in FileSector
    <3>1. Wants(p) = RootData /\ RootData \in Cachable
      BY <1>2, WantsOf, Sectors DEF Cachable
    <3>2. Old(c) = Logical(RootData)
      BY <1>2, <1>6, <1>7, <3>1, OnFetch
    <3>3. e \in InDir
      BY <3>2, <1>10 DEF Entries, InDir
    <3> QED
      BY <1>2, <3>3, FileFacts, SMTT(30)
  <2> DEFINE s == e[2]
  <2> DEFINE b == Task("open", s, 0)
  <2> DEFINE U == <<b>> \o R
  <2>2. Fit(U) /\ HeadFacts(b, R, U) /\ b \in Tasks
    <3>1. \A j \in 1 .. Len(R) : MayPrecede(a, R[j])
      BY <1>2, FitRest
    <3>2. \A j \in 1 .. Len(R) : MayPrecede(Task("lookup", 0, Zero), R[j])
      <4>1. Task("lookup", 0, Zero).op = a.op
        BY <1>2 DEF Task
      <4> SUFFICES ASSUME NEW j \in 1 .. Len(R) PROVE MayPrecede(Task("lookup", 0, Zero), R[j])
        OBVIOUS
      <4>2. MayPrecede(a, R[j])
        BY <3>1
      <4> QED
        BY <1>2, <4>1, <4>2 DEF MayPrecede, CloseRoot
    <3>3. U = <<Task("open", s, 0)>> \o R /\ s \in FileSector
      BY <2>1
    <3> HIDE DEF U, R, s
    <3> QED
      BY <1>2, <1>3, <1>5, <3>2, <3>3, OpenAhead
  <2>3. reg'[p] = <<s>> /\ reg' \in [Proc -> Seq(FileSector)]
    BY <1>8, <1>10, <2>1
  <2>4. U # <<>> /\ U[1].op # "lock"
    <3>1. b.op = "open"
      BY DEF Task
    <3> HIDE DEF b, U
    <3> QED
      BY <2>2, <3>1 DEF HeadFacts
  <2>5. Moves(p, U) /\ todo'[p] = U
    <3>1. U = <<b>> \o Tail(todo[p]) /\ Then(p, <<b>>)
      BY <1>10
    <3> HIDE DEF U, b
    <3> QED
      BY <1>2, <2>2, <2>4, <3>1, ThenMoves
  <2>6. s \in Named /\ HeadFacts(Task("open", s, 0), Tail(todo[p]), U)
    BY <2>1, <2>2
  <2> HIDE DEF U, b, s, R
  <2> QED
    BY <1>2, <1>6, <1>7, <2>3, <2>5, <2>6, LookupMove
<1> QED
  BY <1>6, <1>9, <1>10

-----------------------------------------------------------------------------
\* The plan of dir_remove(), once it has found the entry.
FindFacts(n, s, U) ==
  /\ Fit(U) /\ U \in Seq(Tasks) /\ U # <<>> /\ U[1].op = "open" /\ U[1].sector = s
  /\ ~RegHeld(U) /\ RootOpen(U) /\ HasOn(U, {"close"}, s)
  /\ \A ops : Has(U, ops) => ops \cap {"open", "erase", "close"} # {}
  /\ \A f \in FileSector : HasOn(U, {"close"}, f) => f = s
  /\ \A i \in 1 .. Len(U) : U[i].op = "erase" => U[i].arg = n /\ U[i].sector = s

LEMMA CloseOnly ==
  ASSUME NEW R, Fit(R), CreateRest(R)
  PROVE  /\ R \in Seq(Tasks) /\ Len(R) = 1 /\ R[1] \in Tasks /\ R # <<>>
         /\ \A ops : Has(R, ops) <=> "close" \in ops
         /\ \A ops, f : HasOn(R, ops, f) <=> "close" \in ops /\ f = ROOT_DIR_SECTOR
         /\ ~RegHeld(R) /\ RootOpen(R)
         /\ \A j \in 1 .. Len(R) : CloseRoot(R[j])
<1>1. R \in Seq(Tasks)
  BY DEF Fit
<1>2. Len(R) = 1 /\ R # <<>>
  BY <1>1, OneTask DEF CreateRest
<1>3. HeadFacts(R[1], Tail(R), R)
  BY HeadNow DEF CreateRest
<1>4. (\A ops : ~Has(Tail(R), ops)) /\ (\A ops, f : ~HasOn(Tail(R), ops, f)) /\ ~RegHeld(Tail(R))
  BY NothingIn DEF CreateRest
<1>5. R[1] \in Tasks
  BY HeadOf DEF CreateRest
<1>6. \A j \in 1 .. Len(R) : CloseRoot(R[j])
  BY <1>2 DEF CreateRest
<1>7. R[1].op = "close" /\ R[1].sector = ROOT_DIR_SECTOR
  BY DEF CreateRest, CloseRoot
<1> QED
  BY <1>1, <1>2, <1>3, <1>4, <1>5, <1>6, <1>7 DEF HeadFacts, CloseRoot, OpenRoot, Naming

FindShape(b, c, d, R, U) == U = <<b, c, d>> \o R
LEMMA FindPlan ==
  ASSUME NEW R, Fit(R), CreateRest(R), NEW s \in FileSector, NEW n \in Name,
         NEW b \in Tasks, NEW c \in Tasks, NEW d \in Tasks,
         b.op = "open", c.op = "erase", d.op = "close", b.sector = s, c.sector = s, d.sector = s,
         c.arg = n, NEW U, FindShape(b, c, d, R, U)
  PROVE  FindFacts(n, s, U)
<1> DEFINE W == <<d>> \o R
<1> DEFINE V == <<c>> \o W
<1>1. /\ R \in Seq(Tasks) /\ Len(R) = 1 /\ R[1] \in Tasks /\ R # <<>> /\ CloseRoot(R[1])
      /\ \A ops : Has(R, ops) <=> "close" \in ops
      /\ \A ops, f : HasOn(R, ops, f) <=> "close" \in ops /\ f = ROOT_DIR_SECTOR
      /\ ~RegHeld(R) /\ RootOpen(R)
      /\ \A j \in 1 .. Len(R) : CloseRoot(R[j])
  BY CloseOnly DEF CreateRest
<1>2. U = <<b>> \o V
  <2>1. U = <<b, c, d>> \o R
    BY DEF FindShape
  <2>2. b \in Tasks /\ c \in Tasks /\ d \in Tasks /\ R \in Seq(Tasks)
    BY <1>1
  <2>3. <<b, c, d>> \o R = <<b>> \o (<<c>> \o (<<d>> \o R))
    BY <2>2, Cons3, SMTT(30)
  <2> QED
    BY <2>1, <2>3, Zenon
<1>3. s # ROOT_DIR_SECTOR /\ s # FREE_MAP_SECTOR /\ s \in Sector
  BY Sectors
<1>4. HeadFacts(d, R, W) /\ Fit(W)
  <2>1. W = <<d>> \o R
    OBVIOUS
  <2> HIDE DEF W
  <2>2. HeadFacts(d, R, W)
    BY <1>1, <2>1, OneAhead
  <2>3. Meant(d) /\ d.op # "lock"
    BY DEF Meant
  <2>4. (R # <<>> => MayFollow(d, R[1])) /\ (R = <<>> => MayEnd(d))
    BY <1>1, <1>3 DEF MayFollow
  <2>5. \A j \in 1 .. Len(R) : MayPrecede(d, R[j])
    BY <1>1, Sectors DEF MayPrecede, CloseRoot
  <2>6. Fit(R) /\ d \in Tasks /\ d.op \notin {"lock", "erase", "lookup", "grow", "allocate", "release"}
    OBVIOUS
  <2>7. Fit(W)
    BY <2>1, <2>3, <2>4, <2>5, <2>6, FitCons
  <2> QED
    BY <2>2, <2>7
<1> HIDE DEF W
<1>5. /\ W \in Seq(Tasks) /\ W # <<>> /\ W[1] = d /\ Len(W) = 2
      /\ W[2] = R[1]
      /\ \A ops : Has(W, ops) <=> "close" \in ops
      /\ \A ops, f : HasOn(W, ops, f) <=> "close" \in ops /\ (f = s \/ f = ROOT_DIR_SECTOR)
      /\ ~RegHeld(W) /\ RootOpen(W)
  <2>1. /\ W \in Seq(Tasks) /\ W # <<>> /\ W[1] = d /\ Len(W) = Len(R) + 1
        /\ \A i \in 2 .. Len(W) : W[i] = R[i - 1]
    BY <1>4 DEF HeadFacts
  <2>2. Len(W) = 2 /\ 2 - 1 = 1 /\ 2 \in 2 .. Len(W)
    BY <1>1, <2>1
  <2>3. W[2] = R[1]
    BY <2>1, <2>2
  <2> QED
    BY <1>1, <1>4, <2>1, <2>2, <2>3 DEF HeadFacts, Naming, OpenRoot
<1>6. HeadFacts(c, W, V) /\ Fit(V)
  <2>1. V = <<c>> \o W
    OBVIOUS
  <2> HIDE DEF V
  <2>2. HeadFacts(c, W, V)
    BY <1>5, <2>1, OneAhead
  <2>3. Meant(c) /\ c.op # "lock"
    BY DEF Meant
  <2>4. (W # <<>> => MayFollow(c, W[1])) /\ (W = <<>> => MayEnd(c))
    BY <1>3, <1>5 DEF MayFollow
  <2>5. \A j \in 1 .. Len(W) : MayPrecede(c, W[j])
    <3> SUFFICES ASSUME NEW j \in 1 .. Len(W) PROVE MayPrecede(c, W[j])
      OBVIOUS
    <3>1. W[j] = d \/ CloseRoot(W[j])
      <4>1. j = 1 \/ j = 2
        BY <1>5
      <4> QED
        BY <4>1, <1>1, <1>5
    <3> QED
      BY <3>1, Sectors DEF MayPrecede, CloseRoot
  <2>6. Fit(W) /\ c \in Tasks /\ c.op \notin {"lock", "lookup", "grow", "allocate", "release"}
        /\ Len(W) >= 2 /\ CloseRoot(W[2])
    BY <1>1, <1>4, <1>5
  <2>7. Fit(V)
    BY <2>1, <2>3, <2>4, <2>5, <2>6, FitCons
  <2> QED
    BY <2>2, <2>7
<1>7. U = <<b>> \o V
  BY <1>2
<1> HIDE DEF V
<1>8. /\ V \in Seq(Tasks) /\ V # <<>> /\ V[1] = c /\ Len(V) = 3
      /\ \A i \in 1 .. Len(V) : V[i] = c \/ V[i] = d \/ CloseRoot(V[i])
      /\ \A ops : Has(V, ops) <=> "erase" \in ops \/ "close" \in ops
      /\ \A f : HasOn(V, {"close"}, f) <=> f = s \/ f = ROOT_DIR_SECTOR
      /\ ~RegHeld(V) /\ RootOpen(V)
  <2>1. /\ V \in Seq(Tasks) /\ V # <<>> /\ V[1] = c /\ Len(V) = Len(W) + 1
        /\ \A i \in 2 .. Len(V) : V[i] = W[i - 1] /\ i - 1 \in 1 .. Len(W)
    BY <1>6 DEF HeadFacts
  <2>2. ASSUME NEW i \in 1 .. Len(V) PROVE V[i] = c \/ V[i] = d \/ CloseRoot(V[i])
    <3>1. CASE i = 1
      BY <3>1, <2>1
    <3>2. CASE i # 1
      <4>1. V[i] = W[i - 1] /\ i - 1 \in 1 .. 2
        BY <1>5, <2>1, <3>2
      <4>2. i - 1 = 1 \/ i - 1 = 2
        BY <4>1
      <4> QED
        BY <4>1, <4>2, <1>1, <1>5
    <3> QED
      BY <3>1, <3>2
  <2>3. Len(V) = 3
    BY <1>5, <2>1
  <2> QED
    BY <1>5, <1>6, <2>1, <2>2, <2>3 DEF HeadFacts, Naming, OpenRoot
<1>9. HeadFacts(b, V, U)
  BY <1>7, <1>8, OneAhead
<1>10. Fit(U)
  <2>1. Meant(b) /\ b.op # "lock"
    BY DEF Meant
  <2>2. (V # <<>> => MayFollow(b, V[1])) /\ (V = <<>> => MayEnd(b))
    BY <1>3, <1>8 DEF MayFollow
  <2>3. \A j \in 1 .. Len(V) : MayPrecede(b, V[j])
    <3> SUFFICES ASSUME NEW j \in 1 .. Len(V) PROVE MayPrecede(b, V[j])
      OBVIOUS
    <3>1. V[j] = c \/ V[j] = d \/ CloseRoot(V[j])
      BY <1>8
    <3> QED
      BY <3>1, Sectors DEF MayPrecede, CloseRoot
  <2>4. Fit(V) /\ b \in Tasks /\ b.op \notin {"lock", "erase", "lookup", "grow", "allocate", "release"}
    BY <1>6
  <2> QED
    BY <1>7, <2>1, <2>2, <2>3, <2>4, FitCons
<1>11. \A i \in 1 .. Len(U) : U[i].op = "erase" => U[i].arg = n /\ U[i].sector = s
  <2> SUFFICES ASSUME NEW i \in 1 .. Len(U), U[i].op = "erase" PROVE U[i] = c
    OBVIOUS
  <2>1. /\ U[1] = b /\ \A j \in 2 .. Len(U) : U[j] = V[j - 1] /\ j - 1 \in 1 .. Len(V)
    BY <1>9 DEF HeadFacts
  <2>2. i # 1
    BY <2>1
  <2>3. U[i] = V[i - 1] /\ i - 1 \in 1 .. Len(V)
    BY <2>1, <2>2
  <2> QED
    BY <2>3, <1>8 DEF CloseRoot
<1>12. \A ops : Has(U, ops) => ops \cap {"open", "erase", "close"} # {}
  <2> TAKE ops
  <2>1. Has(U, ops) => "open" \in ops \/ "erase" \in ops \/ "close" \in ops
    BY <1>8, <1>9 DEF HeadFacts
  <2> QED
    BY <2>1
<1>13. HasOn(U, {"close"}, s) /\ \A f \in FileSector : HasOn(U, {"close"}, f) => f = s
  BY <1>8, <1>9, Sectors DEF HeadFacts
<1> QED
  BY <1>3, <1>8, <1>9, <1>10, <1>11, <1>12, <1>13 DEF FindFacts, HeadFacts, Naming, OpenRoot

-----------------------------------------------------------------------------
\* What comes after the directory was looked through, or changed, for good.
LEMMA FindRest ==
  ASSUME NEW T, Fit(T), T # <<>>, T[1].op = "find", NEW R, R = Tail(T)
  PROVE  Fit(R) /\ CreateRest(R)
<1>1. /\ R # <<>> => MayFollow(T[1], R[1])
      /\ R = <<>> => MayEnd(T[1])
      /\ Fit(R) /\ R \in Seq(Tasks)
  BY FitRest DEF Fit
<1>2. R # <<>> /\ CloseRoot(R[1])
  <2>1. R # <<>>
    BY <1>1 DEF MayEnd
  <2> QED
    BY <2>1, <1>1 DEF MayFollow
<1>3. ~Has(R, Naming)
  <2>1. \A d \in Tasks : d.op \in Naming => ~MayPrecede(T[1], d)
    BY DEF MayPrecede, CloseRoot, Naming
  <2> QED
    BY <2>1, NotLater
<1>4. Tail(R) = <<>>
  BY <1>1, <1>2, <1>3, LastClose
<1> QED
  BY <1>1, <1>2, <1>4 DEF CreateRest

LEMMA FindMove ==
  ASSUME NEW p \in Proc, Focus(p), mode = "up", mode' = mode, todo[p] # <<>>,
         todo[p][1].op = "find",
         UNCHANGED <<disk, used, inode, fd, exec, leaked, fsLock, lost, reg>>,
         NEW c \in Accessed(p), Fetched(p, c),
         NEW U, Moves(p, U), todo'[p] = U,
         \/ U = Tail(todo[p])
         \/ \E e \in InDir : FindFacts(e[1], e[2], U)
  PROVE  Focus(p)'
<1> DEFINE T == todo[p]
<1> DEFINE R == Tail(T)
<1> DEFINE a == T[1]
<1>1. /\ Plans /\ Turn(p) /\ CacheRight(p) /\ DiskRight /\ HandleTypes
      /\ SystemData(p) /\ OwnersRight(p) /\ NewRight(p) /\ NamesRight(p) /\ DataRight(p)
      /\ Fit(T) /\ T # <<>> /\ a.op = "find" /\ ~Quiet(p)
  BY DEF Focus, Plans, Quiet
<1>2. Fit(R) /\ CreateRest(R)
  BY <1>1, FindRest
<1>3. HeadFacts(a, R, T)
  BY <1>1, HeadNow
<1>4. /\ \A e \in InDir : e \in Name \X FileSector /\ e[2] \in Named /\ e[2] \in FileSector
  BY <1>1, FileFacts
<1> HIDE DEF R, a, T
<1>5. /\ R \in Seq(Tasks) /\ R # <<>> /\ R[1].op = "close"
      /\ \A ops : Has(R, ops) <=> "close" \in ops
      /\ \A ops, f : HasOn(R, ops, f) <=> "close" \in ops /\ f = ROOT_DIR_SECTOR
      /\ ~RegHeld(R) /\ RootOpen(R)
  BY <1>2, CloseOnly DEF CreateRest, CloseRoot
<1>6. /\ \A ops : Has(T, ops) <=> "close" \in ops \/ "find" \in ops
      /\ ~RegHeld(T) /\ RootOpen(T)
      /\ \A f \in FileSector : ~HasOn(T, {"close"}, f)
  BY <1>1, <1>3, <1>5, Sectors DEF HeadFacts, OpenRoot, Naming
<1>7. /\ miss' \in [Proc -> Misses] /\ \A q \in Proc \ {p} : miss'[q] = miss[q]
      /\ CacheRight(p)' /\ \A s : Logical(s)' = Logical(s)
      /\ \A s \in FileSector : Caught(p, s)' => Caught(p, s)
  <2>1. Wants(p) = RootData
    BY <1>1, WantsOf DEF T, a
  <2>2. RootData \in Cachable /\ RootData \notin FileSector
    BY Sectors DEF Cachable
  <2> QED
    BY <1>1, <2>1, <2>2, OnFetch, SMTT(30)
<1>8. /\ U # <<>> /\ U \in Seq(Tasks)
      /\ U[1].op \in {"open", "close"} /\ RootOpen(U) /\ ~RegHeld(U)
      /\ \A ops : Has(U, ops) => ops \cap {"open", "erase", "close"} # {}
      /\ \A f \in FileSector : HasOn(U, {"close"}, f) => AtHeadOn(U, "open", f)
      /\ AtHead(U, {"open"}) => U[1].sector \in Named /\ HasOn(U, {"close"}, U[1].sector)
      /\ \A i \in 1 .. Len(U) : U[i].op = "erase" => <<U[i].arg, U[i].sector>> \in InDir
  <2>1. CASE U = Tail(todo[p])
    <3>1. U = R
      BY <2>1 DEF R, T
    <3>2. \A ops : Has(U, ops) => ops \cap {"open", "erase", "close"} # {}
      BY <3>1, <1>5
    <3>3. ~Has(U, {"erase"})
      BY <3>1, <1>5
    <3> QED
      BY <3>1, <3>2, <3>3, <1>5, Sectors DEF AtHead, Has
  <2>2. ASSUME NEW e \in InDir, FindFacts(e[1], e[2], U)
        PROVE  <1>8!:
    <3>1. e = <<e[1], e[2]>> /\ e[2] \in Named
      BY <1>4
    <3> DEFINE n == e[1]
    <3> DEFINE s == e[2]
    <3>2. <<n, s>> \in InDir /\ s \in Named
      BY <3>1, <2>2
    <3>3. FindFacts(n, s, U)
      BY <2>2
    <3> HIDE DEF n, s
    <3>4. /\ U \in Seq(Tasks) /\ U # <<>> /\ U[1].op = "open" /\ U[1].sector = s
          /\ ~RegHeld(U) /\ RootOpen(U) /\ HasOn(U, {"close"}, s)
          /\ \A ops : Has(U, ops) => ops \cap {"open", "erase", "close"} # {}
          /\ \A f \in FileSector : HasOn(U, {"close"}, f) => f = s
          /\ \A i \in 1 .. Len(U) : U[i].op = "erase" => U[i].arg = n /\ U[i].sector = s
      BY <3>3, Zenon DEF FindFacts
    <3>5. \A f \in FileSector : HasOn(U, {"close"}, f) => AtHeadOn(U, "open", f)
      BY <3>4 DEF AtHeadOn
    <3> QED
      BY <3>2, <3>4, <3>5
  <2> QED
    BY <2>1, <2>2
<1>9. /\ ~Has(U, Making) /\ ~Has(U, {"release"}) /\ ~Has(U, {"setlength"}) /\ ~Has(U, {"unlock"})
      /\ ~Has(U, Making \cup {"create", "zero"}) /\ ~Has(U, {"setlength", "put"})
      /\ ~Has(U, {"deny"}) /\ ~Has(U, {"newfd"})
  BY <1>8 DEF Making
<1>10. /\ ~Has(T, Making) /\ ~Has(T, {"release"}) /\ ~Has(T, {"setlength"}) /\ ~Has(T, {"unlock"})
       /\ ~Has(T, {"setlength", "writeinode"})
  BY <1>6 DEF Making
<1>11. \A f \in FileSector : Held(p, f)' <=> Held(p, f)
  <2>1. \A f \in FileSector : ~Held(p, f)
    BY <1>6 DEF Held, T
  <2>2. \A f \in FileSector : ~Held(p, f)'
    BY <1>8 DEF Held
  <2> QED
    BY <2>1, <2>2
<1>12. Made(p)' = Made(p) /\ ToGive(p)' = ToGive(p)
  <2>1. \A f : ~HasOn(U, {"release"}, f) /\ ~HasOn(T, {"release"}, f)
    BY <1>9, <1>10, HasOnHas
  <2> QED
    BY <1>9, <1>10, <2>1 DEF Made, ToGive, T
<1>13. ~AtHead(U, {"load", "off"}) /\ ~AtHead(U, {"readat"})
  BY <1>8 DEF AtHead
<1>14. NewRight(p)' /\ DataRight(p)'
  BY <1>8, <1>9, <1>13, CalmNew, CalmData
<1>15. ASSUME InDir' = InDir, Named' = Named PROVE NamesRight(p)'
  BY <1>8, <1>9, <1>15 DEF NamesRight, AtHead
<1>16. ASSUME File' = File, \A g \in File : InodeOf(g)' = InodeOf(g) PROVE OwnersRight(p)'
  BY <1>1, <1>12, <1>16, KeepOwners
<1>17. /\ a.op \notin {"off", "flush", "load", "mapwrite"}
       /\ Has(U, {"unlock"}) <=> Has(T, {"unlock"})
       /\ \A g : HasOn(U, DataOps, g) /\ Has(U, {"unlock"}) => HasOn(T, DataOps, g)
       /\ \A g \in FileSector : Growing(p, g) => HasOn(U, {"setlength"}, g)
       /\ \A g \in FileSector : Writing(p, g) => HasOn(U, {"setlength", "writeinode"}, g)
       /\ used' \subseteq Sector /\ used' = used
       /\ reg' \in [Proc -> Seq(FileSector)]
       /\ RootOpen(U) <=> RootOpen(T)
  <2>1. \A g : ~HasOn(T, {"setlength"}, g) /\ ~HasOn(T, {"setlength", "writeinode"}, g)
    BY <1>10, HasOnHas
  <2> QED
    BY <1>1, <1>6, <1>8, <1>9, <1>10, <2>1 DEF Growing, Writing, T, DiskRight, Plans
<1> QED
  BY <1>1, <1>7, <1>8, <1>11, <1>13, <1>14, <1>15, <1>16, <1>17, ShiftStep DEF T, a

LEMMA FindStep ==
  ASSUME NEW p \in Proc, Focus(p), Find(p), lost' = lost
  PROVE  Focus(p)'
<1> DEFINE T == todo[p]
<1> DEFINE R == Tail(T)
<1> DEFINE a == T[1]
<1>1. Is(p, "find")
  BY DEF Find
<1>2. /\ T # <<>> /\ a.op = "find" /\ mode = "up" /\ Fit(T) /\ ~Quiet(p) /\ Meant(a)
      /\ Fit(R) /\ R \in Seq(Tasks) /\ T \in Seq(Tasks) /\ a \in Tasks /\ Arg(p) = a.arg
      /\ Plans /\ Turn(p) /\ CacheRight(p) /\ DiskRight /\ HandleTypes
      /\ SystemData(p) /\ OwnersRight(p)
  BY <1>1, Begin, HeadOf
<1>3. CreateRest(R)
  BY <1>2, FindRest
<1>4. PICK c \in Accessed(p) :
        /\ Fetched(p, c)
        /\ \/ Entries(c, Arg(p)) = {} /\ Then(p, <<>>)
           \/ \E e \in Entries(c, Arg(p)) :
                Then(p, <<Task("open", e[2], 0), Task("erase", e[2], Arg(p)),
                          Task("close", e[2], 0)>>)
  BY DEF Find
<1>5. UNCHANGED <<disk, used, inode, fd, exec, leaked, fsLock, reg, got, mode>>
  BY DEF Find
<1>6. CASE Then(p, <<>>)
  <2>1. R[1].op # "lock"
    BY <1>3 DEF CreateRest, CloseRoot
  <2>2. Moves(p, R) /\ todo'[p] = R
    <3>1. R = <<>> \o Tail(todo[p])
      BY <1>2
    <3> HIDE DEF R
    <3> QED
      BY <1>2, <1>6, <2>1, <3>1, ThenMoves
  <2>3. R = Tail(todo[p])
    OBVIOUS
  <2> HIDE DEF R
  <2> QED
    BY <1>2, <1>4, <1>5, <2>2, <2>3, FindMove
<1>7. ASSUME NEW e \in Entries(c, Arg(p)),
             Then(p, <<Task("open", e[2], 0), Task("erase", e[2], Arg(p)), Task("close", e[2], 0)>>)
      PROVE  Focus(p)'
  <2>1. e \in InDir /\ e[2] \in FileSector /\ e[1] = Arg(p)
    <3>1. Wants(p) = RootData /\ RootData \in Cachable
      BY <1>2, WantsOf, Sectors DEF Cachable
    <3>2. Old(c) = Logical(RootData)
      BY <1>2, <1>4, <1>5, <3>1, OnFetch
    <3>3. e \in InDir /\ e[1] = Arg(p)
      BY <3>2, <1>7 DEF Entries, InDir
    <3> QED
      BY <1>2, <3>3, FileFacts, SMTT(30)
  <2> DEFINE s == e[2]
  <2> DEFINE n == Arg(p)
  <2> DEFINE b == Task("open", s, 0)
  <2> DEFINE x == Task("erase", s, n)
  <2> DEFINE d == Task("close", s, 0)
  <2> DEFINE U == <<b, x, d>> \o R
  <2>2. /\ b \in Tasks /\ b.op = "open" /\ b.sector = s /\ n \in Name
        /\ x \in Tasks /\ x.op = "erase" /\ x.sector = s /\ x.arg = n
        /\ d \in Tasks /\ d.op = "close" /\ d.sector = s
    <3>1. n \in Name
      BY <1>2 DEF Meant
    <3> QED
      BY <2>1, <3>1, Sectors DEF Tasks, Task, Op, Arguments
  <2>3. FindFacts(n, s, U)
    <3>1. FindShape(b, x, d, R, U)
      BY DEF FindShape
    <3>2. s \in FileSector
      BY <2>1
    <3> HIDE DEF U, b, x, d, n, s, R
    <3> QED
      BY <1>2, <1>3, <2>2, <3>1, <3>2, FindPlan
  <2>4. Fit(U) /\ U # <<>> /\ U[1].op # "lock"
    <3> HIDE DEF U, n, s
    <3>1. Fit(U) /\ U # <<>> /\ U[1].op = "open"
      BY <2>3, Zenon DEF FindFacts
    <3> QED
      BY <3>1
  <2>5. Moves(p, U) /\ todo'[p] = U
    <3> DEFINE N == <<b, x, d>>
    <3>1. U = N \o Tail(todo[p]) /\ Then(p, N)
      BY <1>7
    <3> HIDE DEF U, N
    <3> QED
      BY <1>2, <2>4, <3>1, ThenMoves
  <2>6. \E z \in InDir : FindFacts(z[1], z[2], U)
    BY <2>1, <2>3
  <2> HIDE DEF U
  <2> QED
    BY <1>2, <1>4, <1>5, <2>5, <2>6, FindMove
<1> QED
  BY <1>4, <1>6, <1>7

-----------------------------------------------------------------------------
LEMMA HeadSet ==
  ASSUME NEW q \in Seq(FileSector), q # <<>>, IsInjective(q)
  PROVE  /\ ToSet(q) = {q[1]} \cup ToSet(Tail(q)) /\ q[1] \notin ToSet(Tail(q)) /\ q[1] \in FileSector
         /\ Tail(q) \in Seq(FileSector) /\ ToSet(Tail(q)) \subseteq FileSector
         /\ IsInjective(Tail(q)) /\ Len(Tail(q)) = Len(q) - 1 /\ Len(q) \in Nat \ {0}
<1> DEFINE t == Tail(q)
<1>1. /\ t \in Seq(FileSector) /\ Len(t) = Len(q) - 1 /\ Len(q) \in Nat \ {0} /\ q[1] \in FileSector
      /\ \A i \in 1 .. Len(q) - 1 : t[i] = q[i + 1]
      /\ \A i \in 2 .. Len(q) : q[i] = t[i - 1]
  BY TailOf
<1> HIDE DEF t
<1>2. /\ ToSet(q) = {q[i] : i \in 1 .. Len(q)} /\ ToSet(t) = {t[i] : i \in 1 .. Len(t)}
  <2>1. DOMAIN q = 1 .. Len(q) /\ DOMAIN t = 1 .. Len(t)
    BY <1>1
  <2> QED
    BY <2>1 DEF ToSet
<1>3. \A i, j \in 1 .. Len(q) : q[i] = q[j] => i = j
  BY DEF IsInjective
<1>4. ASSUME NEW x \in ToSet(q) PROVE x \in {q[1]} \cup ToSet(t)
  <2>1. PICK i \in 1 .. Len(q) : x = q[i]
    BY <1>2, <1>4
  <2>2. CASE i = 1
    BY <2>1, <2>2
  <2>3. CASE i # 1
    <3>1. i \in 2 .. Len(q) /\ i - 1 \in 1 .. Len(t)
      BY <1>1, <2>3
    <3> QED
      BY <1>1, <1>2, <2>1, <3>1
  <2> QED
    BY <2>2, <2>3
<1>5. ASSUME NEW x \in ToSet(t) PROVE x \in ToSet(q) /\ x # q[1]
  <2>1. PICK i \in 1 .. Len(t) : x = t[i]
    BY <1>2, <1>5
  <2>2. i + 1 \in 1 .. Len(q) /\ 1 \in 1 .. Len(q) /\ i + 1 # 1 /\ x = q[i + 1]
    BY <1>1, <2>1
  <2> QED
    BY <1>2, <1>3, <2>2
<1>6. q[1] \in ToSet(q)
  <2>1. 1 \in 1 .. Len(q)
    BY <1>1
  <2> QED
    BY <2>1, <1>2
<1>7. IsInjective(t)
  <2>1. ASSUME NEW i \in 1 .. Len(t), NEW j \in 1 .. Len(t), t[i] = t[j] PROVE i = j
    <3>1. i + 1 \in 1 .. Len(q) /\ j + 1 \in 1 .. Len(q) /\ q[i + 1] = q[j + 1]
      BY <1>1, <2>1
    <3>2. i + 1 = j + 1
      BY <1>3, <3>1
    <3> QED
      BY <3>2
  <2> QED
    BY <1>1, <2>1 DEF IsInjective
<1>8. ToSet(t) \subseteq FileSector
  BY <1>1, <1>2
<1> QED
  BY <1>1, <1>4, <1>5, <1>6, <1>7, <1>8 DEF t

\* What is the same whether the name is taken or not.
UniqueFacts(p, U) ==
  /\ U # <<>> /\ U \in Seq(Tasks) /\ Moves(p, U) /\ todo'[p] = U
  /\ U[1].op \in {"dirwrite", "release"}
  /\ \A ops : Has(U, ops) <=> U[1].op \in ops \/ "close" \in ops
  /\ \A ops, f : HasOn(U, ops, f) <=>
       (U[1].op \in ops /\ U[1].sector = f) \/ ("close" \in ops /\ f = ROOT_DIR_SECTOR)
  /\ ~RegHeld(U) /\ RootOpen(U)

LEMMA UniquePlan ==
  ASSUME NEW p \in Proc, Focus(p), todo[p] # <<>>, todo[p][1].op = "unique",
         NEW b \in Tasks, b.op \in {"dirwrite", "release"}, Meant(b), Then(p, <<b>>),
         NEW U, U = <<b>> \o Tail(todo[p])
  PROVE  UniqueFacts(p, U) /\ U[1] = b
<1> DEFINE T == todo[p]
<1> DEFINE R == Tail(T)
<1>1. Plans /\ Fit(T)
  BY DEF Focus, Plans
<1>2. Fit(R) /\ CreateRest(R)
  BY <1>1, CreateEnd, FitRest DEF CreateRest
<1>3. U = <<b>> \o R
  OBVIOUS
<1> HIDE DEF R, T
<1>4. /\ R \in Seq(Tasks) /\ R # <<>> /\ CloseRoot(R[1])
      /\ \A ops : Has(R, ops) <=> "close" \in ops
      /\ \A ops, f : HasOn(R, ops, f) <=> "close" \in ops /\ f = ROOT_DIR_SECTOR
      /\ ~RegHeld(R) /\ RootOpen(R)
      /\ \A j \in 1 .. Len(R) : CloseRoot(R[j])
  BY <1>2, CloseOnly DEF CreateRest
<1>5. HeadFacts(b, R, U)
  BY <1>3, <1>4, OneAhead
<1>6. Fit(U)
  <2>1. (R # <<>> => MayFollow(b, R[1])) /\ (R = <<>> => MayEnd(b))
    BY <1>4 DEF MayFollow
  <2>2. \A j \in 1 .. Len(R) : MayPrecede(b, R[j])
    BY <1>4, Sectors DEF MayPrecede, CloseRoot
  <2>3. Fit(R) /\ b \in Tasks /\ Meant(b) /\ b.op \notin {"lock", "erase", "lookup", "grow", "allocate"}
        /\ ~HasOn(R, {"release"}, b.sector)
    BY <1>2, <1>4
  <2> QED
    BY <1>3, <2>1, <2>2, <2>3, FitCons
<1>7. U # <<>> /\ U[1] = b /\ U \in Seq(Tasks) /\ U[1].op # "lock"
  BY <1>5 DEF HeadFacts
<1>8. Moves(p, U) /\ todo'[p] = U
  BY <1>1, <1>6, <1>7, ThenMoves
<1>9. /\ \A ops : Has(U, ops) <=> b.op \in ops \/ "close" \in ops
      /\ \A ops, f : HasOn(U, ops, f) <=>
          (b.op \in ops /\ b.sector = f) \/ ("close" \in ops /\ f = ROOT_DIR_SECTOR)
      /\ ~RegHeld(U) /\ RootOpen(U)
  <2>1. /\ \A ops : Has(U, ops) <=> (b.op \in ops \/ Has(R, ops))
        /\ \A ops, f : HasOn(U, ops, f) <=> ((b.op \in ops /\ b.sector = f) \/ HasOn(R, ops, f))
        /\ RegHeld(U) <=> (b.op # "lookup" /\ (b.op \in Naming \/ RegHeld(R)))
        /\ RootOpen(U) <=> (~OpenRoot(b) /\ (CloseRoot(b) \/ RootOpen(R)))
    BY <1>5, Zenon DEF HeadFacts
  <2> QED
    BY <1>4, <2>1 DEF Naming, OpenRoot
<1> QED
  BY <1>7, <1>8, <1>9 DEF UniqueFacts

LEMMA UniqueMove ==
  ASSUME NEW p \in Proc, Focus(p), mode = "up", mode' = mode, todo[p] # <<>>,
         todo[p][1].op = "unique",
         UNCHANGED <<disk, used, inode, fd, exec, leaked, fsLock>>,
         (~miss[p].yes /\ UNCHANGED <<cache, miss>>) \/ (\E c \in Accessed(p) : Fetched(p, c)),
         NEW U, UniqueFacts(p, U), reg' \in [Proc -> Seq(FileSector)],
         File' = File /\ (\A g \in File : InodeOf(g)' = InodeOf(g)) => OwnersRight(p)',
         (\A s \in FileSector : Caught(p, s)' => Caught(p, s)) => NewRight(p)'
  PROVE  Focus(p)'
<1> DEFINE T == todo[p]
<1> DEFINE R == Tail(T)
<1> DEFINE a == T[1]
<1>1. /\ Plans /\ Turn(p) /\ CacheRight(p) /\ DiskRight
      /\ Fit(T) /\ T # <<>> /\ a.op = "unique" /\ ~Quiet(p)
  BY DEF Focus, Plans, Quiet
<1>2. Fit(R) /\ CreateRest(R) /\ HeadFacts(a, R, T)
  BY <1>1, CreateEnd, FitRest, HeadNow DEF CreateRest
<1> HIDE DEF R, a, T
<1>3. /\ \A ops : Has(R, ops) <=> "close" \in ops
      /\ \A ops, f : HasOn(R, ops, f) <=> "close" \in ops /\ f = ROOT_DIR_SECTOR
      /\ ~RegHeld(R) /\ RootOpen(R)
  BY <1>2, CloseOnly
<1>4. /\ \A ops : Has(T, ops) <=> "close" \in ops \/ "unique" \in ops
      /\ ~RegHeld(T) /\ RootOpen(T)
      /\ \A f \in FileSector : ~HasOn(T, {"close"}, f)
      /\ \A f : ~HasOn(T, {"setlength"}, f) /\ ~HasOn(T, {"setlength", "writeinode"}, f)
  <2>1. /\ \A ops : Has(T, ops) <=> (a.op \in ops \/ Has(R, ops))
        /\ \A ops, f : HasOn(T, ops, f) <=> ((a.op \in ops /\ a.sector = f) \/ HasOn(R, ops, f))
        /\ RegHeld(T) <=> (a.op # "lookup" /\ (a.op \in Naming \/ RegHeld(R)))
        /\ RootOpen(T) <=> (~OpenRoot(a) /\ (CloseRoot(a) \/ RootOpen(R)))
    BY <1>2, Zenon DEF HeadFacts
  <2>2. ROOT_DIR_SECTOR \notin FileSector
    BY Sectors
  <2> QED
    BY <1>1, <1>3, <2>1, <2>2 DEF OpenRoot, Naming
<1>5. /\ miss' \in [Proc -> Misses] /\ \A q \in Proc \ {p} : miss'[q] = miss[q]
      /\ CacheRight(p)' /\ \A s : Logical(s)' = Logical(s)
      /\ \A s \in FileSector : Caught(p, s)' => Caught(p, s)
  <2>1. Wants(p) = RootData
    BY <1>1, WantsOf DEF T, a
  <2>2. RootData \in Cachable /\ RootData \notin FileSector
    BY Sectors DEF Cachable
  <2>3. CASE \E c \in Accessed(p) : Fetched(p, c)
    BY <1>1, <2>1, <2>2, <2>3, OnFetch, SMTT(30)
  <2>4. CASE ~miss[p].yes /\ UNCHANGED <<cache, miss>>
    <3>1. miss[p].victim = None /\ miss \in [Proc -> Misses]
      BY <1>1, <2>4 DEF CacheRight, Plans
    <3>2. cache' = cache /\ miss' = miss /\ disk' = disk /\ ~miss[p].yes
      BY <2>4
    <3>3. /\ cache \in Seq(CachedBlocks) /\ Len(cache) <= CacheSize
          /\ \A i, j \in 1 .. Len(cache) : cache[i].sector = cache[j].sector => i = j
      BY <1>1 DEF CacheRight
    <3>4. CacheRight(p)'
      BY <3>1, <3>2, <3>3, Zenon DEF CacheRight
    <3>5. \A s : InCache(s)' <=> InCache(s)
      BY <3>2, LogicalDef, Zenon
    <3>6. \A s : Logical(s)' = Logical(s)
      BY <3>2, LogicalDef, Zenon
    <3> QED
      BY <3>1, <3>2, <3>4, <3>5, <3>6 DEF Caught
  <2> QED
    BY <2>3, <2>4
<1>6. /\ U # <<>> /\ U \in Seq(Tasks) /\ Moves(p, U) /\ todo'[p] = U
      /\ U[1].op \in {"dirwrite", "release"}
      /\ \A ops : Has(U, ops) <=> U[1].op \in ops \/ "close" \in ops
      /\ \A ops, f : HasOn(U, ops, f) <=>
           (U[1].op \in ops /\ U[1].sector = f) \/ ("close" \in ops /\ f = ROOT_DIR_SECTOR)
      /\ ~RegHeld(U) /\ RootOpen(U)
  BY Zenon DEF UniqueFacts
<1>7. \A f \in FileSector : Held(p, f)' <=> Held(p, f)
  <2>1. \A f \in FileSector : ~Held(p, f)
    BY <1>4 DEF Held, T
  <2>2. \A f \in FileSector : ~HasOn(U, {"close"}, f)
    BY <1>6, Sectors
  <2>3. \A f \in FileSector : ~Held(p, f)'
    BY <1>6, <2>2 DEF Held
  <2> QED
    BY <2>1, <2>3
<1>8. ~AtHead(U, {"load", "off"}) /\ ~AtHead(U, {"readat"}) /\ ~AtHead(U, {"open"})
      /\ ~Has(U, {"erase", "deny", "newfd", "setlength", "put"})
  BY <1>6 DEF AtHead
<1>9. NamesRight(p)' /\ DataRight(p)'
  BY <1>6, <1>8, CalmNames DEF AtHead
<1>10. /\ a.op \notin {"off", "flush", "load", "mapwrite"}
       /\ Has(U, {"unlock"}) <=> Has(T, {"unlock"})
       /\ \A g : HasOn(U, DataOps, g) /\ Has(U, {"unlock"}) => HasOn(T, DataOps, g)
       /\ \A g \in FileSector : Growing(p, g) => HasOn(U, {"setlength"}, g)
       /\ \A g \in FileSector : Writing(p, g) => HasOn(U, {"setlength", "writeinode"}, g)
       /\ used' \subseteq Sector /\ used' = used
       /\ RootOpen(U) <=> RootOpen(T)
  BY <1>1, <1>4, <1>6 DEF Growing, Writing, T, DiskRight
<1> QED
  BY <1>1, <1>5, <1>6, <1>7, <1>8, <1>9, <1>10, ShiftStep DEF T, a

LEMMA UniqueStep ==
  ASSUME NEW p \in Proc, Focus(p), Unique(p)
  PROVE  Focus(p)'
<1> DEFINE T == todo[p]
<1> DEFINE R == Tail(T)
<1> DEFINE a == T[1]
<1>1. Is(p, "unique")
  BY DEF Unique
<1>2. /\ T # <<>> /\ a.op = "unique" /\ mode = "up" /\ Fit(T) /\ ~Quiet(p) /\ Meant(a)
      /\ a \in Tasks /\ Arg(p) = a.arg /\ Fit(R)
      /\ Plans /\ NewRight(p) /\ OwnersRight(p)
  BY <1>1, Begin, HeadOf
<1>3. HeadFacts(a, R, T) /\ CreateRest(R)
  BY <1>2, HeadNow, CreateEnd DEF CreateRest
<1> DEFINE Fresh == Then(p, <<Task("dirwrite", 0, Arg(p))>>) /\ UNCHANGED <<reg, lost>>
<1>4. /\ (~miss[p].yes /\ UNCHANGED <<cache, miss>>) \/ (\E c \in Accessed(p) : Fetched(p, c))
      /\ Fresh \/ Refused(p)
  BY Zenon DEF Unique
<1>5. UNCHANGED <<disk, used, inode, fd, exec, leaked, fsLock, got, mode>>
  BY DEF Unique
<1>6. Has(T, Making) /\ AtHead(T, {"unique", "dirwrite"}) /\ ~Has(T, {"release"})
  <2>1. a.op \in Making
    BY <1>2 DEF Making
  <2>2. ~Has(R, {"release"})
    BY <1>2, <1>3, CloseOnly
  <2> QED
    BY <1>2, <1>3, <2>1, <2>2 DEF HeadFacts, AtHead
<1>7. /\ reg[p] # <<>> /\ IsInjective(reg[p]) /\ ~Caught(p, reg[p][1])
      /\ reg[p] \in Seq(FileSector) /\ reg \in [Proc -> Seq(FileSector)]
      /\ disk[reg[p][1]] = OnDisk(Tail(reg[p]), Len(reg[p]) - 1)
      /\ Len(reg[p]) - 1 <= MaxLen
  BY <1>2, <1>6 DEF NewRight, T, Plans
<1>8. /\ ToSet(reg[p]) = {reg[p][1]} \cup ToSet(Tail(reg[p])) /\ reg[p][1] \notin ToSet(Tail(reg[p]))
      /\ reg[p][1] \in FileSector /\ ToSet(Tail(reg[p])) \subseteq FileSector
  BY <1>7, HeadSet
<1>9. Made(p) = ToSet(reg[p]) /\ ToGive(p) = {}
  <2>1. \A s : ~HasOn(T, {"release"}, s)
    BY <1>6, HasOnHas
  <2> QED
    BY <1>6, <2>1 DEF Made, ToGive, T
<1>10. CASE Fresh
  <2> DEFINE b == Task("dirwrite", 0, Arg(p))
  <2> DEFINE U == <<b>> \o R
  <2>1. Then(p, <<b>>) /\ UNCHANGED <<reg, lost>>
    BY <1>10
  <2>2. b \in Tasks /\ b.op = "dirwrite" /\ Meant(b)
    <3>1. Arg(p) \in Name
      BY <1>2 DEF Meant
    <3>2. b \in Tasks /\ b.op = "dirwrite" /\ b.arg = Arg(p)
      BY <3>1, Sectors DEF Tasks, Task, Op, Arguments, FREE_MAP_SECTOR
    <3> HIDE DEF b
    <3> QED
      BY <3>1, <3>2 DEF Meant
  <2>3. UniqueFacts(p, U) /\ U[1] = b
    <3>1. U = <<b>> \o Tail(todo[p])
      OBVIOUS
    <3> HIDE DEF U, b
    <3> QED
      BY <1>2, <2>1, <2>2, <3>1, UniquePlan DEF T, a
  <2> HIDE DEF U, b, R, a
  <2>4. /\ U # <<>> /\ U \in Seq(Tasks) /\ todo'[p] = U /\ U[1] = b
        /\ \A ops : Has(U, ops) <=> b.op \in ops \/ "close" \in ops
        /\ \A ops, f : HasOn(U, ops, f) <=>
             (b.op \in ops /\ b.sector = f) \/ ("close" \in ops /\ f = ROOT_DIR_SECTOR)
    <3>1. /\ U # <<>> /\ U \in Seq(Tasks) /\ todo'[p] = U
          /\ \A ops : Has(U, ops) <=> U[1].op \in ops \/ "close" \in ops
          /\ \A ops, f : HasOn(U, ops, f) <=>
               (U[1].op \in ops /\ U[1].sector = f) \/ ("close" \in ops /\ f = ROOT_DIR_SECTOR)
      BY <2>3, Zenon DEF UniqueFacts
    <3> QED
      BY <2>3, <3>1
  <2>5. Has(U, Making) /\ ~Has(U, {"release"}) /\ ~Has(U, {"create"}) /\ ~Has(U, {"newinode"})
        /\ (\A f : ~HasOn(U, {"release"}, f) /\ ~HasOn(U, {"zero"}, f))
    BY <2>2, <2>4 DEF Making
  <2>6. Made(p)' = Made(p) /\ ToGive(p)' = ToGive(p)
    BY <1>6, <1>9, <2>1, <2>4, <2>5 DEF Made, ToGive, T
  <2>7. ASSUME File' = File, \A g \in File : InodeOf(g)' = InodeOf(g) PROVE OwnersRight(p)'
    BY <1>2, <1>5, <2>1, <2>6, <2>7, KeepOwners
  <2>8. ASSUME \A s \in FileSector : Caught(p, s)' => Caught(p, s) PROVE NewRight(p)'
    <3>1. ~InCache(reg[p][1]) /\ ~(miss[p].victim # None /\ miss[p].victim.sector = reg[p][1])
      BY <1>7 DEF Caught
    <3>2. \A s : s = reg[p][1] => ~Caught(p, s)'
      BY <1>7, <1>8, <2>8
    <3>3. ~Caught(p, reg[p][1])'
      BY <2>1, <3>2 DEF Caught, InCache, Hit, SelectInSeq
    <3>4. Allots(U, Len(reg[p]) - 1)
      BY <2>5 DEF Allots, Has
    <3> QED
      BY <1>5, <1>7, <2>1, <2>4, <2>5, <3>3, <3>4 DEF NewRight
  <2>9. reg' \in [Proc -> Seq(FileSector)]
    BY <1>7, <2>1
  <2> QED
    BY <1>2, <1>4, <1>5, <2>3, <2>7, <2>8, <2>9, UniqueMove DEF T, a
<1>11. CASE Refused(p)
  <2> DEFINE s == reg[p][1]
  <2> DEFINE b == Task("release", s, 0)
  <2> DEFINE U == <<b>> \o R
  <2>1. Then(p, <<b>>) /\ reg' = [reg EXCEPT ![p] = <<>>] /\ lost' = lost \cup ToSet(Tail(reg[p]))
    BY <1>11 DEF Refused, Forget
  <2>2. b \in Tasks /\ b.op = "release" /\ b.sector = s /\ Meant(b) /\ s \in FileSector
    <3>1. s \in FileSector
      BY <1>8
    <3>2. b \in Tasks /\ b.op = "release" /\ b.sector = s
      BY <3>1, Sectors DEF Tasks, Task, Op, Arguments
    <3> HIDE DEF b, s
    <3> QED
      BY <3>1, <3>2 DEF Meant
  <2>3. UniqueFacts(p, U) /\ U[1] = b
    <3>1. U = <<b>> \o Tail(todo[p])
      OBVIOUS
    <3> HIDE DEF U, b, s
    <3> QED
      BY <1>2, <2>1, <2>2, <3>1, UniquePlan DEF T, a
  <2> HIDE DEF U, b, R, a
  <2>4. /\ U # <<>> /\ U \in Seq(Tasks) /\ todo'[p] = U /\ U[1] = b
        /\ \A ops : Has(U, ops) <=> b.op \in ops \/ "close" \in ops
        /\ \A ops, f : HasOn(U, ops, f) <=>
             (b.op \in ops /\ b.sector = f) \/ ("close" \in ops /\ f = ROOT_DIR_SECTOR)
    <3>1. /\ U # <<>> /\ U \in Seq(Tasks) /\ todo'[p] = U
          /\ \A ops : Has(U, ops) <=> U[1].op \in ops \/ "close" \in ops
          /\ \A ops, f : HasOn(U, ops, f) <=>
               (U[1].op \in ops /\ U[1].sector = f) \/ ("close" \in ops /\ f = ROOT_DIR_SECTOR)
      BY <2>3, Zenon DEF UniqueFacts
    <3> QED
      BY <2>3, <3>1
  <2>5. reg'[p] = <<>> /\ reg' \in [Proc -> Seq(FileSector)]
    BY <1>7, <2>1
  <2>6. ~Has(U, Making) /\ ~Has(U, Making \cup {"create", "zero"})
        /\ \A f : HasOn(U, {"release"}, f) <=> f = s
    BY <2>2, <2>4 DEF Making
  <2>7. Made(p)' = {} /\ ToGive(p)' = {s}
    BY <2>2, <2>4, <2>6 DEF Made, ToGive
  <2>8. ASSUME File' = File, \A g \in File : InodeOf(g)' = InodeOf(g) PROVE OwnersRight(p)'
    <3>1. /\ lost \subseteq FileSector /\ lost \cap Owns = {}
          /\ Made(p) \cap (Owns \cup lost) = {}
          /\ used = (0 .. 3) \cup lost \cup Owns \cup Made(p) \cup ToGive(p)
      BY <1>2 DEF OwnersRight
    <3> DEFINE A == ToSet(Tail(reg[p]))
    <3>2. Made(p) = {s} \cup A /\ s \notin A /\ A \subseteq FileSector /\ lost' = lost \cup A
      BY <1>8, <1>9, <2>1
    <3> HIDE DEF A, s
    <3>3. /\ Made(p)' \cap (Owns \cup lost') = {} /\ ToGive(p)' \cap (Owns \cup lost') = {}
          /\ used' = (0 .. 3) \cup lost' \cup Owns \cup Made(p)' \cup ToGive(p)'
          /\ lost' \subseteq FileSector /\ lost' \cap Owns = {}
      BY <1>5, <1>9, <2>7, <3>1, <3>2
    <3> QED
      BY <1>2, <2>8, <3>3, MoveOwners
  <2>9. NewRight(p)'
    BY <2>4, <2>6, CalmNew
  <2> QED
    BY <1>2, <1>4, <1>5, <2>3, <2>5, <2>8, <2>9, UniqueMove DEF T, a
<1> QED
  BY <1>4, <1>10, <1>11

-----------------------------------------------------------------------------
\* A step that changes inodes in memory and nothing on the disk or in the cache.
SameStore(p) == /\ InDir' = InDir /\ Named' = Named
                /\ \A s : Caught(p, s)' <=> Caught(p, s)
LEMMA InodeStep ==
  ASSUME NEW p \in Proc, Focus(p), mode = "up", mode' = mode, todo[p] # <<>>, ~Quiet(p),
         NEW U, Moves(p, U), UNCHANGED <<disk, cache, miss, leaked, fsLock>>,
         used' \subseteq Sector, used' = used \/ AtHead(U, {"mapwrite"}),
         \A q \in Proc : fd[q] # None => fd'[q] # None /\ fd'[q].sector = fd[q].sector,
         reg' \in [Proc -> Seq(FileSector)],
         todo[p][1].op \in {"open", "load", "close", "grow", "setlength", "newfd", "deny", "loaded"},
         Has(U, {"unlock"}) <=> Has(todo[p], {"unlock"}),
         \A f : HasOn(U, DataOps, f) /\ Has(U, {"unlock"}) => HasOn(todo[p], DataOps, f),
         RootOpen(todo[p]) => RootOpen(U) \/ AtHeadOn(U, "flush", RootData),
         ~AtHead(U, {"off"}),
         SameStore(p) => /\ HandleTypes' /\ SystemInodes(p)' /\ Counted(p)' /\ Unnamed' /\ LoadedRight(p)'
                         /\ InodesRight(p)' /\ OwnersRight(p)' /\ NewRight(p)' /\ NamesRight(p)'
                         /\ DataRight(p)'
  PROVE  Focus(p)'
<1>1. /\ Plans /\ Turn(p) /\ CacheRight(p) /\ SystemData(p) /\ DiskRight
  BY SMTT(30) DEF Focus
<1>2. Wants(p) = None
  <2>1. todo[p][1].op \notin {"mapwrite", "lookup", "find", "unique", "dirwrite", "erase", "readat", "put"}
    OBVIOUS
  <2> QED
    BY <1>1, <2>1, WantsOf
<1>3. /\ miss' \in [Proc -> Misses] /\ \A q \in Proc \ {p} : miss'[q] = miss[q]
      /\ CacheRight(p)' /\ \A s : Caught(p, s)' <=> Caught(p, s)
      /\ \A s : Logical(s)' = Logical(s)
  BY <1>1, <1>2, NoAccess
<1>4. Plans' /\ Turn(p)' /\ todo'[p] = U
  BY <1>1, <1>3, KeepPlans
<1>5. SameStore(p)
  <2>1. InDir' = InDir
    BY <1>3 DEF InDir
  <2>2. Named' = Named
    BY <2>1 DEF Named
  <2> QED
    BY <1>3, <2>1, <2>2 DEF SameStore
<1>6. DiskRight' /\ OffRight(p)'
  BY <1>1 DEF DiskRight, OffRight
<1>7. SystemData(p)'
  <2>1. ~AtHead(todo[p], {"mapwrite"}) /\ ~AtHeadOn(todo[p], "flush", RootData)
    BY DEF AtHead, AtHeadOn
  <2>2. Logical(MapData)' = Logical(MapData) /\ Logical(RootData)' = Logical(RootData)
    BY <1>3
  <2>3. (Logical(MapData) = Map(used) \/ AtHead(todo[p], {"mapwrite"}))'
    <3>1. CASE used' = used
      BY <1>1, <2>1, <2>2, <3>1 DEF SystemData, Map
    <3>2. CASE AtHead(U, {"mapwrite"})
      BY <1>4, <3>2
    <3> QED
      BY <3>1, <3>2
  <2>4. DirKind(Logical(RootData))'
    BY <1>1, <2>2 DEF SystemData, DirKind
  <2>5. (disk[RootData] = Logical(RootData) \/ RootOpen(todo[p])
           \/ AtHeadOn(todo[p], "flush", RootData))'
    BY <1>1, <1>4, <2>1, <2>2 DEF SystemData
  <2> QED
    BY <1>4, <2>3, <2>4, <2>5 DEF SystemData
<1> QED
  BY <1>3, <1>4, <1>5, <1>6, <1>7 DEF Focus

-----------------------------------------------------------------------------
\* What comes after an inode has been opened: nothing of the call changes, but
\* that it has the inode now.
OpenFacts(s, T, U) ==
  /\ U \in Seq(Tasks) /\ Fit(U) /\ U # <<>> /\ U[1].op # "lock"
  /\ \A ops : ops \cap {"open", "load"} = {} =>
       (Has(U, ops) <=> Has(T, ops)) /\ \A f : HasOn(U, ops, f) <=> HasOn(T, ops, f)
  /\ RegHeld(U) <=> RegHeld(T)
  /\ s \in FileSector => (RootOpen(U) <=> RootOpen(T))
  /\ s = ROOT_DIR_SECTOR => RootOpen(U) /\ ~RootOpen(T)
  /\ ~AtHead(U, {"unique", "dirwrite", "mapwrite", "off", "readat"})
  /\ \A f \in FileSector : ~AtHeadOn(U, "open", f)
  /\ AtHead(U, {"open"}) => U[1].sector = ROOT_DIR_SECTOR
  /\ ~Has(U, {"setlength", "put", "zero"})
  /\ \A n \in Nat : Allots(T, n) => Allots(U, n)
  /\ \A i \in 1 .. Len(U) : U[i].op \in {"erase", "deny", "newfd"} => \E j \in 1 .. Len(T) : T[j] = U[i]

LEMMA OpenRest ==
  ASSUME NEW T, Fit(T), T # <<>>, T[1].op = "open", NEW R, R = Tail(T), NEW s, T[1].sector = s
  PROVE  /\ s \in FileSector \cup {ROOT_DIR_SECTOR} /\ R # <<>> /\ Fit(R)
         /\ MayFollow(T[1], R[1]) /\ \A j \in 1 .. Len(R) : MayPrecede(T[1], R[j])
         /\ s \in FileSector => CloseRoot(R[1]) \/ R[1].op = "erase"
         /\ s = ROOT_DIR_SECTOR => RootOpen(R) /\ ~RootOpen(T) /\ R[1].op \in {"create", "find", "lookup"}
         /\ ~Has(R, {"setlength", "put", "zero"})
<1>1. /\ R # <<>> => MayFollow(T[1], R[1])
      /\ R = <<>> => MayEnd(T[1])
      /\ Fit(R) /\ R \in Seq(Tasks) /\ Meant(T[1])
      /\ \A j \in 1 .. Len(R) : MayPrecede(T[1], R[j])
  BY FitRest DEF Fit
<1>2. R # <<>>
  BY <1>1 DEF MayEnd
<1>3. s \in FileSector \cup {ROOT_DIR_SECTOR}
  BY <1>1 DEF Meant
<1>4. s \in FileSector => CloseRoot(R[1]) \/ R[1].op = "erase"
  BY <1>1, <1>2, Sectors DEF MayFollow
<1>5. ASSUME s = ROOT_DIR_SECTOR
      PROVE  RootOpen(R) /\ ~RootOpen(T) /\ R[1].op \in {"create", "find", "lookup"}
  <2>1. R[1].op \in {"create", "find", "lookup"}
    BY <1>1, <1>2, <1>5 DEF MayFollow
  <2>2. HeadFacts(R[1], Tail(R), R) /\ HeadFacts(T[1], R, T)
    BY <1>1, <1>2, HeadNow
  <2> DEFINE Q == Tail(R)
  <2>3. /\ Q # <<>> => MayFollow(R[1], Q[1])
        /\ Q = <<>> => MayEnd(R[1])
        /\ Fit(Q)
    BY <1>1, <1>2, FitRest
  <2> HIDE DEF Q
  <2>4. Q # <<>>
    BY <2>1, <2>3 DEF MayEnd
  <2>5. CloseRoot(Q[1])
    BY <2>1, <2>3, <2>4 DEF MayFollow
  <2>6. HeadFacts(Q[1], Tail(Q), Q)
    BY <2>3, <2>4, HeadNow
  <2>7. RootOpen(Q)
    BY <2>5, <2>6 DEF HeadFacts, CloseRoot, OpenRoot
  <2>8. RootOpen(R)
    BY <2>1, <2>2, <2>7 DEF HeadFacts, OpenRoot, Q
  <2>9. ~RootOpen(T)
    BY <1>5, <2>2 DEF HeadFacts, OpenRoot
  <2> QED
    BY <2>1, <2>8, <2>9
<1>6. ~Has(R, {"setlength", "put", "zero"})
  <2>1. \A d \in Tasks : d.op \in {"setlength", "put", "zero"} => ~MayPrecede(T[1], d)
    BY DEF MayPrecede
  <2> QED
    BY <2>1, NotLater
<1> QED
  BY <1>1, <1>2, <1>3, <1>4, <1>5, <1>6

LEMMA OpenPlan ==
  ASSUME NEW T, Fit(T), T # <<>>, T[1].op = "open", NEW s, T[1].sector = s,
         NEW U, \/ U = <<Task("load", s, 0)>> \o Tail(T)
                \/ U = Tail(T) /\ s \in FileSector
  PROVE  OpenFacts(s, T, U) /\ (U # Tail(T) => AtHeadOn(U, "load", s) /\ U[1].sector = s)
         /\ (AtHead(U, {"load"}) => AtHeadOn(U, "load", s) /\ U[1].sector = s)
         /\ (U = Tail(T) => ~AtHead(U, {"load"}))
<1> DEFINE R == Tail(T)
<1> DEFINE a == T[1]
<1>1. /\ s \in FileSector \cup {ROOT_DIR_SECTOR} /\ R # <<>> /\ Fit(R)
      /\ MayFollow(T[1], R[1]) /\ \A j \in 1 .. Len(R) : MayPrecede(T[1], R[j])
      /\ s \in FileSector => CloseRoot(R[1]) \/ R[1].op = "erase"
      /\ s = ROOT_DIR_SECTOR => RootOpen(R) /\ ~RootOpen(T) /\ R[1].op \in {"create", "find", "lookup"}
      /\ ~Has(R, {"setlength", "put", "zero"})
  BY OpenRest
<1>2. HeadFacts(a, R, T) /\ R \in Seq(Tasks)
  BY <1>1, HeadNow DEF Fit
<1>3. /\ ~AtHead(R, {"lock", "load", "mapwrite", "readat", "dirwrite"})
      /\ \A f \in FileSector : ~AtHeadOn(R, "open", f)
      /\ \A i \in 1 .. Len(R) : \E j \in 1 .. Len(T) : T[j] = R[i]
      /\ AtHead(R, {"open"}) => R[1].sector = ROOT_DIR_SECTOR
      /\ ~AtHead(R, {"unique"})
  BY AfterHead, InRest
<1> HIDE DEF R, a
<1>4. /\ \A ops : Has(T, ops) <=> (a.op \in ops \/ Has(R, ops))
      /\ \A ops, f : HasOn(T, ops, f) <=> ((a.op \in ops /\ a.sector = f) \/ HasOn(R, ops, f))
      /\ RegHeld(T) <=> (a.op # "lookup" /\ (a.op \in Naming \/ RegHeld(R)))
      /\ RootOpen(T) <=> (~OpenRoot(a) /\ (CloseRoot(a) \/ RootOpen(R)))
  BY <1>2, Zenon DEF HeadFacts
<1>5. a.op = "open" /\ a.sector = s
  BY DEF a
<1>6. RegHeld(T) <=> RegHeld(R)
  BY <1>4, <1>5 DEF Naming
<1>7. s \in FileSector => (RootOpen(T) <=> RootOpen(R))
  BY <1>4, <1>5, Sectors DEF OpenRoot, CloseRoot
<1>8. CASE U = R /\ s \in FileSector
  <2>1. ~AtHead(R, {"off"})
    BY <1>1, <1>8 DEF AtHead, CloseRoot
  <2>2. \A n \in Nat : Allots(T, n) => Allots(R, n)
    BY AllotsRest DEF R
  <2>3. s # ROOT_DIR_SECTOR
    BY <1>8, Sectors
  <2>4. U[1].op # "lock" /\ ~AtHead(R, {"load"})
    BY <1>1, <1>3, <1>8 DEF AtHead
  <2>5. \A ops : ops \cap {"open", "load"} = {} =>
          (Has(U, ops) <=> Has(T, ops)) /\ \A f : HasOn(U, ops, f) <=> HasOn(T, ops, f)
    BY <1>4, <1>5, <1>8
  <2>6. ~AtHead(R, {"unique", "dirwrite", "mapwrite", "off", "readat"})
    BY <1>3, <2>1 DEF AtHead
  <2>7. OpenFacts(s, T, U)
    BY <1>1, <1>2, <1>3, <1>6, <1>7, <1>8, <2>2, <2>3, <2>4, <2>5, <2>6 DEF OpenFacts
  <2>8. ~AtHead(U, {"load"}) /\ U = Tail(T)
    BY <1>8, <2>4 DEF R
  <2> QED
    BY <2>7, <2>8
<1>9. CASE U = <<Task("load", s, 0)>> \o R
  <2> DEFINE b == Task("load", s, 0)
  <2>1. b \in Tasks /\ b.op = "load" /\ b.sector = s
    BY <1>1, Sectors DEF Tasks, Task, Op, Arguments
  <2>2. U = <<b>> \o R
    BY <1>9
  <2> HIDE DEF b
  <2>3. HeadFacts(b, R, U)
    BY <1>2, <2>1, <2>2, OneAhead
  <2>4. Fit(U)
    <3>1. Meant(b) /\ b.op # "lock"
      BY <1>1, <2>1 DEF Meant
    <3>2. MayFollow(b, R[1])
      <4>1. MayFollow(a, R[1])
        BY <1>1 DEF a
      <4> QED
        BY <1>5, <2>1, <4>1 DEF MayFollow
    <3>3. \A j \in 1 .. Len(R) : MayPrecede(b, R[j])
      <4> TAKE j \in 1 .. Len(R)
      <4>1. MayPrecede(a, R[j])
        BY <1>1 DEF a
      <4> QED
        BY <1>5, <2>1, <4>1 DEF MayPrecede, CloseRoot
    <3>4. (R # <<>> => MayFollow(b, R[1])) /\ (R = <<>> => MayEnd(b))
      BY <1>1, <3>2
    <3>5. Fit(R) /\ b \in Tasks /\ b.op \notin {"lock", "erase", "lookup", "grow", "allocate", "release"}
      BY <1>1, <2>1
    <3> QED
      BY <2>2, <3>1, <3>3, <3>4, <3>5, FitCons
  <2>5. /\ U \in Seq(Tasks) /\ U # <<>> /\ U[1] = b /\ Tail(U) = R
        /\ Len(U) = Len(R) + 1 /\ Len(R) \in Nat
        /\ \A i \in 2 .. Len(U) : U[i] = R[i - 1] /\ i - 1 \in 1 .. Len(R)
        /\ \A ops : Has(U, ops) <=> (b.op \in ops \/ Has(R, ops))
        /\ \A ops, f : HasOn(U, ops, f) <=> ((b.op \in ops /\ b.sector = f) \/ HasOn(R, ops, f))
        /\ RegHeld(U) <=> (b.op # "lookup" /\ (b.op \in Naming \/ RegHeld(R)))
        /\ RootOpen(U) <=> (~OpenRoot(b) /\ (CloseRoot(b) \/ RootOpen(R)))
    BY <2>3, Zenon DEF HeadFacts
  <2>6. RegHeld(U) <=> RegHeld(T)
    BY <1>6, <2>1, <2>5 DEF Naming
  <2>7. /\ s \in FileSector => (RootOpen(U) <=> RootOpen(T))
        /\ s = ROOT_DIR_SECTOR => RootOpen(U) /\ ~RootOpen(T)
    BY <1>1, <1>7, <2>1, <2>5 DEF OpenRoot, CloseRoot
  <2>8. /\ AtHeadOn(U, "load", s) /\ U[1].op # "lock"
        /\ ~AtHead(U, {"unique", "dirwrite", "mapwrite", "off", "readat"}) /\ ~AtHead(U, {"open"})
        /\ \A f \in FileSector : ~AtHeadOn(U, "open", f)
    BY <2>1, <2>5 DEF AtHead, AtHeadOn
  <2>9. ~Has(U, {"setlength", "put", "zero"})
    BY <1>1, <2>1, <2>5
  <2>10. ASSUME NEW i \in 1 .. Len(U), U[i].op \notin {"load"}
         PROVE  i - 1 \in 1 .. Len(R) /\ U[i] = R[i - 1] /\ i \in 1 .. Len(T) /\ T[i] = U[i]
    <3>1. i # 1
      BY <2>1, <2>5, <2>10
    <3>2. i \in 2 .. Len(U)
      BY <3>1
    <3>3. U[i] = R[i - 1] /\ i - 1 \in 1 .. Len(R)
      BY <2>5, <3>2
    <3>4. /\ Len(T) = Len(R) + 1 /\ \A k \in 2 .. Len(T) : T[k] = R[k - 1]
      BY <1>2 DEF HeadFacts
    <3>5. i \in 2 .. Len(T)
      BY <2>5, <3>2, <3>4
    <3> QED
      BY <3>3, <3>4, <3>5
  <2>11. \A n \in Nat : Allots(T, n) => Allots(U, n)
    <3> SUFFICES ASSUME NEW n \in Nat, Allots(T, n), NEW i \in 1 .. Len(U), U[i].op = "newinode"
                 PROVE  n + (i - 1 - Early(U)) <= MaxLen
      BY DEF Allots
    <3>1. i \in 1 .. Len(T) /\ T[i].op = "newinode"
      BY <2>10
    <3>2. Early(U) = 0
      BY <2>1, <2>5 DEF Early, AtHead
    <3>3. Early(T) = 0
      BY <1>5 DEF Early, AtHead, a
    <3>4. n + (i - 1 - Early(T)) <= MaxLen
      BY <3>1 DEF Allots
    <3> QED
      BY <3>2, <3>3, <3>4
  <2>12. \A i \in 1 .. Len(U) : U[i].op \in {"erase", "deny", "newfd"} =>
           \E j \in 1 .. Len(T) : T[j] = U[i]
    BY <2>10
  <2>13. \A ops : ops \cap {"open", "load"} = {} =>
          (Has(U, ops) <=> Has(T, ops)) /\ \A f : HasOn(U, ops, f) <=> HasOn(T, ops, f)
    BY <1>4, <1>5, <2>1, <2>5
  <2>14. OpenFacts(s, T, U)
    BY <2>4, <2>5, <2>6, <2>7, <2>8, <2>9, <2>11, <2>12, <2>13 DEF OpenFacts
  <2>15. U # Tail(T)
    <3>1. AtHead(U, {"load"})
      BY <2>1, <2>5 DEF AtHead
    <3> QED
      BY <1>3, <3>1 DEF R, AtHead
  <2>16. U[1].sector = s
    BY <2>1, <2>5
  <2> QED
    BY <2>8, <2>14, <2>15, <2>16
<1> QED
  BY <1>8, <1>9 DEF R

-----------------------------------------------------------------------------
\* The handle of one inode more, or less.
LEMMA SameCaught ==
  ASSUME NEW p \in Proc, UNCHANGED <<cache, miss, reg>>
  PROVE  Caught(p, reg[p][1])' <=> Caught(p, reg[p][1])
BY DEF Caught, InCache, Hit, SelectInSeq

LEMMA KeepExec ==
  ASSUME UNCHANGED <<exec, fd>>
  PROVE  \A f : Executing(f)' = Executing(f) /\ Opened(f)' = Opened(f)
BY DEF Executing, Opened

LEMMA SameInode ==
  ASSUME NEW m \in Inodes, NEW n \in Inodes, m.cnt = n.cnt, m.deny = n.deny, m.removed = n.removed,
         m.loaded = n.loaded, m.data = n.data
  PROVE  m = n
BY DEF Inodes

LEMMA FirstHandle ==
  ASSUME Closed \in Inodes, NEW d, d = OnDisk(<<>>, 0)
  PROVE  [Closed EXCEPT !.cnt = 1, !.data = d] = [Closed EXCEPT !.cnt = Closed.cnt + 1]
<1>1. Closed.data = d /\ Closed.cnt = 0 /\ d \in OnDisks
  BY DEF Closed, OnDisk, OnDisks
<1> DEFINE m == [Closed EXCEPT !.cnt = 1, !.data = d]
<1> DEFINE n == [Closed EXCEPT !.cnt = 1]
<1>2. m \in Inodes /\ m.cnt = 1 /\ m.deny = Closed.deny /\ m.removed = Closed.removed
      /\ m.loaded = Closed.loaded /\ m.data = d
  BY <1>1 DEF Inodes
<1>3. n \in Inodes /\ n.cnt = 1 /\ n.deny = Closed.deny /\ n.removed = Closed.removed
      /\ n.loaded = Closed.loaded /\ n.data = Closed.data
  BY <1>1 DEF Inodes
<1>4. m = n
  <2> HIDE DEF m, n
  <2> QED
    BY <1>1, <1>2, <1>3, SameInode
<1> QED
  BY <1>1, <1>4

LEMMA InodeOpenStep ==
  ASSUME NEW p \in Proc, "alone" \in Assume, Focus(p), InodeOpen(p), lost' = lost
  PROVE  Focus(p)'
<1> DEFINE T == todo[p]
<1> DEFINE R == Tail(T)
<1> DEFINE s == S(p)
<1>1. Is(p, "open")
  BY DEF InodeOpen
<1>2. /\ T # <<>> /\ T[1].op = "open" /\ mode = "up" /\ Fit(T) /\ ~Quiet(p) /\ s = T[1].sector
      /\ Plans /\ Turn(p) /\ CacheRight(p) /\ DiskRight /\ HandleTypes
      /\ SystemData(p) /\ SystemInodes(p) /\ OwnersRight(p) /\ NewRight(p) /\ NamesRight(p)
      /\ Counted(p) /\ LoadedRight(p) /\ InodesRight(p) /\ Unnamed
  BY <1>1, Begin
<1>3. /\ s \in FileSector \cup {ROOT_DIR_SECTOR} /\ s \in Sector /\ Fit(R)
      /\ s = ROOT_DIR_SECTOR => ~RootOpen(T)
  BY <1>2, OpenRest, Sectors
<1>4. s \in FileSector => /\ s \in Named
                          /\ \/ RegHeld(T) /\ reg[p] = <<s>>
                             \/ ~RegHeld(T) /\ HasOn(T, {"close"}, s)
  <2> SUFFICES ASSUME s \in FileSector
               PROVE  /\ T[1].sector \in Named
                      /\ \/ RegHeld(T) /\ reg[p] = <<T[1].sector>>
                         \/ ~RegHeld(T) /\ HasOn(T, {"close"}, T[1].sector)
    BY <1>2
  <2>1. AtHead(T, {"open"}) /\ T[1].sector # ROOT_DIR_SECTOR
    BY <1>2, Sectors DEF AtHead
  <2> QED
    BY <1>2, <2>1 DEF NamesRight
<1>5. UNCHANGED <<disk, cache, used, fd, exec, leaked, fsLock, reg, miss, got, mode>>
  BY DEF InodeOpen
<1>6. inode \in [Sector -> Inodes] /\ inode[s] \in Inodes /\ (inode[s].cnt = 0 => inode[s] = Closed)
  BY <1>2, <1>3 DEF HandleTypes
<1>7. s = ROOT_DIR_SECTOR => inode[s].cnt = 0
  BY <1>2, <1>3 DEF SystemInodes
<1>8. PICK U : /\ Moves(p, U) /\ todo'[p] = U
               /\ OpenFacts(s, T, U)
               /\ inode' = [inode EXCEPT ![s] = [inode[s] EXCEPT !.cnt = inode[s].cnt + 1]]
               /\ inode[s].cnt > 0 => ~AtHead(U, {"load"})
               /\ inode[s].cnt = 0 => AtHeadOn(U, "load", s)
               /\ AtHead(U, {"load"}) => U[1].sector = s
  <2>1. CASE inode[s].cnt > 0
    <3>1. /\ inode' = [inode EXCEPT ![s] = [inode[s] EXCEPT !.cnt = inode[s].cnt + 1]]
          /\ Then(p, <<>>)
      BY <1>6, <2>1 DEF InodeOpen
    <3>2. s \in FileSector
      BY <1>3, <1>7, <2>1
    <3>3. R = Tail(T)
      OBVIOUS
    <3>4. R = <<>> \o Tail(todo[p])
      BY <1>3 DEF Fit
    <3> HIDE DEF s, R
    <3>5. OpenFacts(s, T, R) /\ ~AtHead(R, {"load"})
      <4> HIDE DEF T
      <4> QED
        BY <1>2, <3>2, <3>3, OpenPlan
    <3>6. Fit(R) /\ R # <<>> /\ R[1].op # "lock"
      BY <3>5, Zenon DEF OpenFacts
    <3>7. Moves(p, R) /\ todo'[p] = R
      BY <1>2, <3>1, <3>4, <3>6, ThenMoves
    <3>8. ~(inode[s].cnt = 0)
      BY <2>1, <1>6 DEF Inodes
    <3> QED
      BY <3>1, <3>5, <3>7, <3>8
  <2>2. CASE ~(inode[s].cnt > 0)
    <3>1. PICK d \in Garbage : /\ inode' = [inode EXCEPT ![s] = [Closed EXCEPT !.cnt = 1, !.data = d]]
                               /\ Then(p, <<Task("load", s, 0)>>)
      BY <2>2 DEF InodeOpen
    <3>2. inode[s].cnt = 0 /\ inode[s] = Closed
      BY <1>6, <2>2 DEF Inodes
    <3>3. d = OnDisk(<<>>, 0)
      BY <3>1 DEF Garbage
    <3>4. [Closed EXCEPT !.cnt = 1, !.data = d] = [inode[s] EXCEPT !.cnt = inode[s].cnt + 1]
      <4>1. Closed \in Inodes /\ inode[s] = Closed
        BY <1>6, <3>2
      <4>2. [Closed EXCEPT !.cnt = 1, !.data = d] = [Closed EXCEPT !.cnt = Closed.cnt + 1]
        BY <3>3, <4>1, FirstHandle
      <4> QED
        BY <4>1, <4>2
    <3>5. inode' = [inode EXCEPT ![s] = [inode[s] EXCEPT !.cnt = inode[s].cnt + 1]]
      BY <3>1, <3>4
    <3> DEFINE U == <<Task("load", s, 0)>> \o R
    <3>6. U = <<Task("load", s, 0)>> \o Tail(T) /\ U = <<Task("load", s, 0)>> \o Tail(todo[p])
      OBVIOUS
    <3> HIDE DEF s, U, R
    <3>7. /\ OpenFacts(s, T, U) /\ (U # Tail(T) => AtHeadOn(U, "load", s) /\ U[1].sector = s)
          /\ (AtHead(U, {"load"}) => AtHeadOn(U, "load", s) /\ U[1].sector = s)
          /\ (U = Tail(T) => ~AtHead(U, {"load"}))
      <4> HIDE DEF T
      <4> QED
        <5>1. U = <<Task("load", s, 0)>> \o Tail(T) \/ (U = Tail(T) /\ s \in FileSector)
          BY <3>6
        <5>2. Fit(T) /\ T # <<>> /\ T[1].op = "open" /\ T[1].sector = s
          BY <1>2
        <5> QED
          BY <5>1, <5>2, OpenPlan, Zenon
    <3>8. U # Tail(T)
      <4> DEFINE b == Task("load", s, 0)
      <4>1. b \in Tasks /\ R \in Seq(Tasks) /\ U = <<b>> \o R /\ R = Tail(T)
        BY <1>3, <3>6, Sectors DEF Tasks, Task, Op, Arguments, Fit, R
      <4> HIDE DEF b, T
      <4>2. Len(U) = Len(R) + 1 /\ Len(R) \in Nat
        BY <4>1, ConsOf
      <4>3. ASSUME U = R PROVE FALSE
        <5>1. Len(R) = Len(R) + 1
          BY <4>2, <4>3
        <5> QED
          BY <4>2, <5>1
      <4> QED
        BY <4>1, <4>3
    <3>9. Fit(U) /\ U # <<>> /\ U[1].op # "lock"
      BY <3>7, Zenon DEF OpenFacts
    <3>10. Moves(p, U) /\ todo'[p] = U
      BY <1>2, <3>1, <3>6, <3>9, ThenMoves
    <3> QED
      BY <2>2, <3>5, <3>7, <3>8, <3>10
  <2> QED
    BY <2>1, <2>2
<1> HIDE DEF s, R, T
<1>9. /\ inode' \in [Sector -> Inodes]
      /\ inode'[s].cnt = inode[s].cnt + 1 /\ inode[s].cnt \in Nat
      /\ inode'[s].deny = inode[s].deny /\ inode'[s].removed = inode[s].removed
      /\ inode'[s].loaded = inode[s].loaded /\ inode'[s].data = inode[s].data
      /\ \A t \in Sector : t # s => inode'[t] = inode[t]
  <2> DEFINE n == [inode[s] EXCEPT !.cnt = inode[s].cnt + 1]
  <2>1. /\ n \in Inodes /\ n.cnt = inode[s].cnt + 1 /\ inode[s].cnt \in Nat
        /\ n.deny = inode[s].deny /\ n.removed = inode[s].removed
        /\ n.loaded = inode[s].loaded /\ n.data = inode[s].data
    BY <1>6 DEF Inodes
  <2>2. inode' = [inode EXCEPT ![s] = n]
    BY <1>8
  <2> HIDE DEF n
  <2> QED
    BY <1>3, <1>6, <2>1, <2>2
<1>10. /\ U \in Seq(Tasks) /\ Fit(U) /\ U # <<>>
       /\ \A ops : ops \cap {"open", "load"} = {} =>
            (Has(U, ops) <=> Has(T, ops)) /\ \A f : HasOn(U, ops, f) <=> HasOn(T, ops, f)
       /\ RegHeld(U) <=> RegHeld(T)
       /\ s \in FileSector => (RootOpen(U) <=> RootOpen(T))
       /\ s = ROOT_DIR_SECTOR => RootOpen(U) /\ ~RootOpen(T)
       /\ ~AtHead(U, {"unique", "dirwrite", "mapwrite", "off", "readat"})
       /\ \A f \in FileSector : ~AtHeadOn(U, "open", f)
       /\ AtHead(U, {"open"}) => U[1].sector = ROOT_DIR_SECTOR
       /\ ~Has(U, {"setlength", "put", "zero"})
       /\ \A n \in Nat : Allots(T, n) => Allots(U, n)
       /\ \A i \in 1 .. Len(U) : U[i].op \in {"erase", "deny", "newfd"} => \E j \in 1 .. Len(T) : T[j] = U[i]
  BY <1>8, Zenon DEF OpenFacts
<1>11. /\ \A f \in FileSector : f \in Sector
       /\ FREE_MAP_SECTOR # s /\ MapData # s /\ RootData # s
       /\ FREE_MAP_SECTOR \in Sector /\ MapData \in Sector /\ RootData \in Sector /\ ROOT_DIR_SECTOR \in Sector
       /\ ROOT_DIR_SECTOR \notin FileSector
  BY <1>3, Sectors
<1>12. HandleTypes'
  <2>1. \A t \in Sector : inode'[t].cnt = 0 => inode'[t] = Closed
    <3> TAKE t \in Sector
    <3>1. CASE t = s
      BY <1>9, <3>1
    <3>2. CASE t # s
      BY <1>2, <1>9, <3>2 DEF HandleTypes
    <3> QED
      BY <3>1, <3>2
  <2> QED
    BY <1>2, <1>5, <1>9, <2>1 DEF HandleTypes
<1>13. SystemInodes(p)'
  <2>1. inode[FREE_MAP_SECTOR] = FreeMapInode
    BY <1>2 DEF SystemInodes, AtHead, AtHeadOn, T
  <2>2. inode'[FREE_MAP_SECTOR] = FreeMapInode /\ inode'[MapData] = Closed /\ inode'[RootData] = Closed
    BY <1>2, <1>9, <1>11, <2>1 DEF SystemInodes
  <2>3. CASE s = ROOT_DIR_SECTOR
    <3>1. inode[s] = Closed /\ inode[s].cnt = 0
      BY <1>6, <1>7, <2>3
    <3>2. Closed.deny = 0 /\ Closed.removed = FALSE /\ Closed.loaded = FALSE
      BY DEF Closed
    <3>3. inode'[s].cnt = 1 /\ inode'[s].deny = 0 /\ inode'[s].removed = FALSE /\ inode'[s].loaded = FALSE
      BY <1>9, <3>1, <3>2, SMTT(30)
    <3> QED
      BY <1>8, <1>10, <2>2, <2>3, <3>3 DEF SystemInodes
  <2>4. CASE s # ROOT_DIR_SECTOR
    <3>1. inode'[ROOT_DIR_SECTOR] = inode[ROOT_DIR_SECTOR] /\ (RootOpen(U) <=> RootOpen(T))
      BY <1>3, <1>9, <1>10, <1>11, <2>4
    <3> QED
      BY <1>2, <1>8, <2>2, <3>1, Zenon DEF SystemInodes, T
  <2> QED
    BY <2>3, <2>4
<1>14. \A f \in FileSector : Held(p, f)' <=> (f = s \/ Held(p, f))
  <2> TAKE f \in FileSector
  <2>1. (HasOn(U, {"close"}, f) <=> HasOn(T, {"close"}, f)) /\ ~AtHeadOn(U, "open", f)
    BY <1>10
  <2>2. AtHeadOn(T, "open", f) <=> f = s
    BY <1>2 DEF AtHeadOn
  <2>3. CASE f = s
    <3>1. HasOn(T, {"close"}, f) \/ (RegHeld(T) /\ reg[p] # <<>> /\ reg[p][1] = f)
      <4>1. CASE RegHeld(T) /\ reg[p] = <<s>>
        <5>1. <<s>> # <<>> /\ <<s>>[1] = s
          OBVIOUS
        <5>2. reg[p] # <<>> /\ reg[p][1] = s
          BY <4>1, <5>1
        <5> QED
          BY <2>3, <4>1, <5>2
      <4>2. CASE HasOn(T, {"close"}, s)
        BY <2>3, <4>2
      <4>3. s \in FileSector
        BY <2>3
      <4> QED
        BY <1>4, <4>1, <4>2, <4>3
    <3> QED
      BY <1>5, <1>8, <1>10, <2>1, <2>3, <3>1 DEF Held
  <2>4. CASE f # s
    BY <1>5, <1>8, <1>10, <2>1, <2>2, <2>4 DEF Held, T
  <2> QED
    BY <2>3, <2>4
<1>15. Counted(p)'
  <2> SUFFICES ASSUME NEW f \in FileSector
               PROVE  /\ inode'[f].cnt = leaked'[f] + Cardinality(Executing(f)') + Cardinality(Opened(f)')
                                         + (IF Held(p, f)' THEN 1 ELSE 0)
                      /\ inode'[f].deny = Cardinality(Executing(f)')
    BY DEF Counted
  <2>1. Executing(f)' = Executing(f) /\ Opened(f)' = Opened(f) /\ leaked' = leaked
    BY <1>5, KeepExec
  <2>2. /\ inode[f].cnt = leaked[f] + Cardinality(Executing(f)) + Cardinality(Opened(f))
                          + (IF Held(p, f) THEN 1 ELSE 0)
        /\ inode[f].deny = Cardinality(Executing(f))
    BY <1>2 DEF Counted
  <2>3. CASE f = s
    <3>1. ~Held(p, f)
      BY <1>2, <2>3 DEF Held, AtHeadOn, T
    <3>2. Held(p, f)'
      BY <1>14, <2>3
    <3> DEFINE k == leaked[f] + Cardinality(Executing(f)) + Cardinality(Opened(f))
    <3>3. inode[f].cnt = k + 0
      BY <2>2, <3>1
    <3>4. inode'[f].cnt = inode[f].cnt + 1 /\ inode'[f].deny = inode[f].deny /\ inode[f].cnt \in Nat
      BY <1>9, <2>3
    <3>5. inode'[f].cnt = (k + 0) + 1
      BY <3>3, <3>4
    <3>6. k \in Int
      <4>1. IsFiniteSet(Executing(f)) /\ IsFiniteSet(Opened(f))
        BY FilesAssumption, FS_Subset DEF Executing, Opened
      <4>2. Cardinality(Executing(f)) \in Nat /\ Cardinality(Opened(f)) \in Nat
        BY <4>1, FS_CardinalityType
      <4>3. leaked[f] \in Nat
        BY <1>2 DEF HandleTypes
      <4> QED
        BY <4>2, <4>3
    <3>7. (k + 0) + 1 = k + 1
      <4> HIDE DEF k
      <4> QED
        BY <3>6
    <3>8. inode'[f].cnt = k + 1
      BY <3>5, <3>7
    <3> QED
      BY <2>1, <2>2, <3>2, <3>4, <3>8
  <2>4. CASE f # s
    <3>1. inode'[f] = inode[f] /\ (Held(p, f)' <=> Held(p, f))
      BY <1>9, <1>11, <1>14, <2>4
    <3> QED
      BY <2>1, <2>2, <3>1
  <2> QED
    BY <2>3, <2>4
<1>16. ASSUME Named' = Named PROVE Unnamed'
  <2> SUFFICES ASSUME NEW f \in FileSector, inode'[f].cnt > 0
               PROVE  inode'[f].removed = (f \notin Named')
    BY DEF Unnamed
  <2>1. CASE f = s /\ inode[s].cnt = 0
    <3>1. f \in Named /\ inode[s].removed = FALSE
      BY <1>4, <1>6, <2>1 DEF Closed
    <3> QED
      BY <1>9, <1>16, <2>1, <3>1
  <2>2. CASE ~(f = s /\ inode[s].cnt = 0)
    <3>1. inode[f].cnt > 0 /\ inode'[f].removed = inode[f].removed
      BY <1>9, <1>11, <2>2
    <3>2. inode[f].removed = (f \notin Named)
      BY <1>2, <3>1 DEF Unnamed
    <3> QED
      BY <1>16, <3>1, <3>2
  <2> QED
    BY <2>1, <2>2
<1>17. LoadedRight(p)'
  <2>1. \A t \in {ROOT_DIR_SECTOR} \cup FileSector : inode[t].cnt > 0 => inode[t].loaded
    BY <1>2 DEF LoadedRight, AtHeadOn, T
  <2>2. ASSUME NEW t \in {ROOT_DIR_SECTOR} \cup FileSector, inode'[t].cnt > 0, ~inode'[t].loaded
        PROVE  AtHeadOn(U, "load", t)
    <3>1. t = s /\ ~(inode[s].cnt > 0)
      BY <1>9, <1>11, <2>1, <2>2
    <3> QED
      BY <1>8, <1>9, <3>1
  <2>3. AtHead(U, {"load"}) => inode'[U[1].sector].cnt > 0
    BY <1>8, <1>9
  <2> QED
    BY <1>8, <2>2, <2>3 DEF LoadedRight
<1>18. \A f \in FileSector : InodeOf(f)' = InodeOf(f)
  <2> TAKE f \in FileSector
  <2>1. inode'[f].loaded = inode[f].loaded /\ inode'[f].data = inode[f].data
    BY <1>9, <1>11
  <2> QED
    BY <1>5, <2>1 DEF InodeOf
<1>19. ASSUME Named' = Named, InDir' = InDir PROVE File' = File
  <2>1. \A f \in FileSector : inode'[f].cnt > 0 <=> (f = s \/ inode[f].cnt > 0)
    BY <1>9, <1>11
  <2>2. Named \subseteq File
    BY <1>2, FileFacts
  <2>3. File = Named \cup {f \in FileSector : inode[f].cnt > 0}
    BY DEF File, Named
  <2>4. File' = Named' \cup {f \in FileSector : inode'[f].cnt > 0}
    BY DEF File, Named
  <2> QED
    BY <1>4, <1>19, <2>1, <2>2, <2>3, <2>4
<1>20. File \subseteq FileSector
  BY <1>2, FileFacts
<1>21. \A ops \in {Making, {"release"}, {"close"}, {"create"}, {"setlength"}, {"setlength", "writeinode"},
                   {"unlock"}, DataOps, {"zero"}} :
         (Has(U, ops) <=> Has(T, ops)) /\ \A f : HasOn(U, ops, f) <=> HasOn(T, ops, f)
  <2>1. \A ops \in {Making, {"release"}, {"close"}, {"create"}, {"setlength"}, {"setlength", "writeinode"},
                   {"unlock"}, DataOps, {"zero"}} : ops \cap {"open", "load"} = {}
    BY DEF Making, DataOps
  <2> QED
    BY <1>10, <2>1
<1>22. Made(p)' = Made(p) /\ ToGive(p)' = ToGive(p)
  BY <1>5, <1>8, <1>21 DEF Made, ToGive, T
<1>23. ASSUME SameStore(p) PROVE InodesRight(p)' /\ OwnersRight(p)' /\ NewRight(p)' /\ NamesRight(p)' /\ DataRight(p)'
  <2>1. File' = File /\ InDir' = InDir /\ \A t : Caught(p, t)' <=> Caught(p, t)
    BY <1>19, <1>23 DEF SameStore
  <2>2. InodesRight(p)'
    <3>1. \A f : (Growing(p, f) => Growing(p, f)') /\ (Writing(p, f) => Writing(p, f)')
      BY <1>8, <1>21 DEF Growing, Writing, T
    <3>2. \A f \in File : InodeOf(f)' = InodeOf(f) /\ disk'[f] = disk[f]
      BY <1>5, <1>18, <1>20
    <3> QED
      BY <1>2, <2>1, <3>1, <3>2, KeepInodes
  <2>3. OwnersRight(p)'
    BY <1>2, <1>5, <1>18, <1>20, <1>22, <2>1, KeepOwners
  <2>4. NewRight(p)'
    <3>1. Has(U, Making) => Has(T, Making) /\ Allots(U, Len(reg[p]) - 1)
      <4> SUFFICES ASSUME Has(U, Making) PROVE Has(T, Making) /\ Allots(U, Len(reg[p]) - 1)
        OBVIOUS
      <4>1. Has(T, Making)
        BY <1>21
      <4>2. reg[p] # <<>> /\ Allots(T, Len(reg[p]) - 1) /\ reg[p] \in Seq(FileSector)
        BY <1>2, <4>1 DEF NewRight, T, Plans
      <4>3. Len(reg[p]) - 1 \in Nat
        BY <4>2
      <4> QED
        BY <1>10, <4>1, <4>2, <4>3
    <3>2. ~AtHead(U, {"unique", "dirwrite"})
      BY <1>10 DEF AtHead
    <3>3. Has(U, {"create"}) => Has(T, {"create"})
      BY <1>21
    <3>4. Caught(p, reg[p][1])' => Caught(p, reg[p][1])
      BY <1>5, SameCaught
    <3>5. \A f \in FileSector : HasOn(U, {"zero"}, f) => HasOn(T, {"zero"}, f)
      BY <1>21
    <3> QED
      BY <1>2, <1>5, <1>8, <2>1, <3>1, <3>2, <3>3, <3>4, <3>5, KeepNew DEF T
  <2>5. NamesRight(p)'
    BY <1>2, <1>5, <1>8, <1>10, <2>1, KeepNames DEF T
  <2>6. DataRight(p)'
    <3>1. ~Has(U, {"setlength", "put"}) /\ ~AtHead(U, {"readat"})
      BY <1>10 DEF Has, AtHead
    <3> QED
      BY <1>8, <1>10, <3>1, CalmData
  <2> QED
    BY <2>2, <2>3, <2>4, <2>5, <2>6
<1>24. SameStore(p) => /\ HandleTypes' /\ SystemInodes(p)' /\ Counted(p)' /\ Unnamed' /\ LoadedRight(p)'
                       /\ InodesRight(p)' /\ OwnersRight(p)' /\ NewRight(p)' /\ NamesRight(p)'
                       /\ DataRight(p)'
  BY <1>12, <1>13, <1>15, <1>16, <1>17, <1>23 DEF SameStore
<1>25. /\ Has(U, {"unlock"}) <=> Has(T, {"unlock"})
       /\ \A f : HasOn(U, DataOps, f) /\ Has(U, {"unlock"}) => HasOn(T, DataOps, f)
       /\ RootOpen(T) => RootOpen(U) \/ AtHeadOn(U, "flush", RootData)
       /\ ~AtHead(U, {"off"}) /\ used' \subseteq Sector /\ used' = used
       /\ reg' \in [Proc -> Seq(FileSector)]
       /\ T[1].op \in {"open", "load", "close", "grow", "setlength", "newfd", "deny", "loaded"}
  BY <1>2, <1>3, <1>5, <1>10, <1>21 DEF AtHead, DiskRight, Plans
<1>26. \A q \in Proc : fd[q] # None => fd'[q] # None /\ fd'[q].sector = fd[q].sector
  BY <1>5
<1> QED
  BY <1>2, <1>5, <1>8, <1>24, <1>25, <1>26, InodeStep DEF T

-----------------------------------------------------------------------------
\* The inode has been read.
LEMMA InodeLoadStep ==
  ASSUME NEW p \in Proc, Focus(p), InodeLoad(p), lost' = lost
  PROVE  Focus(p)'
<1> DEFINE T == todo[p]
<1> DEFINE R == Tail(T)
<1> DEFINE s == S(p)
<1>1. Is(p, "load")
  BY DEF InodeLoad
<1>2. /\ T # <<>> /\ T[1].op = "load" /\ mode = "up" /\ Fit(T) /\ ~Quiet(p) /\ s = T[1].sector
      /\ Plans /\ Turn(p) /\ CacheRight(p) /\ DiskRight /\ HandleTypes /\ Meant(T[1])
      /\ SystemData(p) /\ SystemInodes(p) /\ OwnersRight(p) /\ NewRight(p) /\ NamesRight(p)
      /\ Counted(p) /\ LoadedRight(p) /\ InodesRight(p) /\ Unnamed /\ Fit(R)
  BY <1>1, Begin
<1>3. /\ s \in FileSector \cup {ROOT_DIR_SECTOR} /\ s \in Sector
      /\ inode[s].cnt > 0
  BY <1>2, Sectors DEF Meant, LoadedRight, AtHead
<1>4. UNCHANGED <<disk, cache, used, fd, exec, leaked, fsLock, reg, miss, got, mode>>
  BY DEF InodeLoad
<1>5. inode \in [Sector -> Inodes] /\ inode[s] \in Inodes
  BY <1>2, <1>3 DEF HandleTypes
<1>6. Moves(p, R) /\ todo'[p] = R
  <2>1. Then(p, <<>>)
    BY DEF InodeLoad
  <2>2. R = <<>> \o Tail(todo[p])
    BY <1>2 DEF Fit
  <2>3. R # <<>> => R[1].op # "lock"
    BY <1>2, AfterHead DEF AtHead
  <2> HIDE DEF R
  <2> QED
    BY <1>2, <2>1, <2>2, <2>3, ThenMoves
<1>7. HeadFacts(T[1], R, T)
  BY <1>2, HeadNow
<1>8. /\ \A ops : Has(T, ops) <=> (T[1].op \in ops \/ Has(R, ops))
      /\ \A ops, f : HasOn(T, ops, f) <=> ((T[1].op \in ops /\ T[1].sector = f) \/ HasOn(R, ops, f))
      /\ RegHeld(T) <=> (T[1].op # "lookup" /\ (T[1].op \in Naming \/ RegHeld(R)))
      /\ RootOpen(T) <=> (~OpenRoot(T[1]) /\ (CloseRoot(T[1]) \/ RootOpen(R)))
  BY <1>7, Zenon DEF HeadFacts
<1>9. /\ ~AtHead(R, {"lock", "load", "mapwrite", "readat", "dirwrite"})
      /\ ~AtHead(R, {"unique"}) /\ ~AtHead(R, {"off"})
      /\ AtHead(R, {"open"}) => R[1].sector = ROOT_DIR_SECTOR
      /\ \A f \in FileSector : ~AtHeadOn(R, "open", f)
      /\ \A i \in 1 .. Len(R) : \E j \in 1 .. Len(T) : T[j] = R[i]
  BY <1>2, AfterHead, InRest
<1>10. ~Has(R, {"setlength", "put", "zero", "writeinode"})
  <2>1. \A d \in Tasks : d.op \in {"setlength", "put", "zero", "writeinode"} => ~MayPrecede(T[1], d)
    BY <1>2 DEF MayPrecede
  <2> QED
    BY <1>2, <2>1, NotLater
<1>11. /\ \A ops : "load" \notin ops =>
            (Has(R, ops) <=> Has(T, ops)) /\ \A f : HasOn(R, ops, f) <=> HasOn(T, ops, f)
       /\ RegHeld(R) <=> RegHeld(T)
       /\ RootOpen(R) <=> RootOpen(T)
  BY <1>2, <1>8 DEF Naming, OpenRoot, CloseRoot
<1>12. s \in FileSector => s \in File /\ disk[s] = InodeOf(s) /\ disk[s] \in OnDisks
  <2> SUFFICES ASSUME s \in FileSector PROVE s \in File /\ disk[s] = InodeOf(s) /\ disk[s] \in OnDisks
    OBVIOUS
  <2>1. s \in File
    BY <1>3 DEF File
  <2>2. ~Writing(p, s)
    <3>1. ~Has(T, {"setlength", "writeinode"})
      BY <1>2, <1>8, <1>10 DEF Has
    <3> QED
      BY <3>1, HasOnHas DEF Writing
  <2>3. disk[s] = InodeOf(s) /\ InodeOf(s) \in [direct : Seq(FileSector), length : Nat]
    BY <1>2, <2>1, <2>2 DEF InodesRight, FileRight
  <2>4. Seq(FileSector) \subseteq Seq(FileSector \cup {MapData, RootData})
    OBVIOUS
  <2> QED
    BY <2>1, <2>3, <2>4 DEF OnDisks
<1>13. disk[ROOT_DIR_SECTOR] = OnDisk(<<RootData>>, 1) /\ OnDisk(<<RootData>>, 1) \in OnDisks
  BY <1>2 DEF DiskRight, OnDisk, OnDisks
<1>14. disk[s] \in OnDisks
  BY <1>3, <1>12, <1>13
<1>15. inode' = [inode EXCEPT ![s] = [inode[s] EXCEPT !.data = disk[s], !.loaded = TRUE]]
  BY <1>5 DEF InodeLoad
<1> HIDE DEF s, R, T
<1>16. /\ inode' \in [Sector -> Inodes]
       /\ inode'[s].cnt = inode[s].cnt
       /\ inode'[s].deny = inode[s].deny /\ inode'[s].removed = inode[s].removed
       /\ inode'[s].loaded = TRUE /\ inode'[s].data = disk[s]
       /\ \A t \in Sector : t # s => inode'[t] = inode[t]
  <2> DEFINE n == [inode[s] EXCEPT !.data = disk[s], !.loaded = TRUE]
  <2>1. /\ n \in Inodes /\ n.cnt = inode[s].cnt
        /\ n.deny = inode[s].deny /\ n.removed = inode[s].removed
        /\ n.loaded = TRUE /\ n.data = disk[s]
    BY <1>5, <1>14 DEF Inodes
  <2>2. inode' = [inode EXCEPT ![s] = n]
    BY <1>15
  <2> HIDE DEF n
  <2> QED
    BY <1>3, <1>5, <2>1, <2>2
<1>17. \A t \in Sector : /\ inode'[t].cnt = inode[t].cnt /\ inode'[t].deny = inode[t].deny
                         /\ inode'[t].removed = inode[t].removed
  BY <1>16
<1>18. /\ \A f \in FileSector : f \in Sector
       /\ FREE_MAP_SECTOR # s /\ MapData # s /\ RootData # s
       /\ FREE_MAP_SECTOR \in Sector /\ MapData \in Sector /\ RootData \in Sector /\ ROOT_DIR_SECTOR \in Sector
       /\ ROOT_DIR_SECTOR \notin FileSector
  BY <1>3, Sectors
<1>19. HandleTypes'
  <2>1. \A t \in Sector : inode'[t].cnt = 0 => inode'[t] = Closed
    <3> TAKE t \in Sector
    <3>1. CASE t = s
      <4>1. ~(inode[s].cnt = 0)
        BY <1>3
      <4> QED
        BY <1>16, <3>1, <4>1
    <3>2. CASE t # s
      BY <1>2, <1>16, <3>2 DEF HandleTypes
    <3> QED
      BY <3>1, <3>2
  <2> QED
    BY <1>2, <1>4, <1>16, <2>1 DEF HandleTypes
<1>20. SystemInodes(p)'
  <2>1. inode[FREE_MAP_SECTOR] = FreeMapInode
    BY <1>2 DEF SystemInodes, AtHead, AtHeadOn, T
  <2>2. inode'[FREE_MAP_SECTOR] = FreeMapInode /\ inode'[MapData] = Closed /\ inode'[RootData] = Closed
    BY <1>2, <1>16, <1>18, <2>1 DEF SystemInodes
  <2>3. inode'[ROOT_DIR_SECTOR].loaded => inode'[ROOT_DIR_SECTOR].data = OnDisk(<<RootData>>, 1)
    <3>1. CASE s = ROOT_DIR_SECTOR
      BY <1>13, <1>16, <3>1
    <3>2. CASE s # ROOT_DIR_SECTOR
      BY <1>2, <1>16, <1>18, <3>2 DEF SystemInodes
    <3> QED
      BY <3>1, <3>2
  <2>4. /\ inode'[ROOT_DIR_SECTOR].cnt = inode[ROOT_DIR_SECTOR].cnt
        /\ inode'[ROOT_DIR_SECTOR].deny = inode[ROOT_DIR_SECTOR].deny
        /\ inode'[ROOT_DIR_SECTOR].removed = inode[ROOT_DIR_SECTOR].removed
    BY <1>17, <1>18
  <2>5. RootOpen(todo[p])' <=> RootOpen(todo[p])
    BY <1>6, <1>11 DEF T
  <2> QED
    BY <1>2, <2>2, <2>3, <2>4, <2>5 DEF SystemInodes
<1>21. Counted(p)'
  <2>1. SameFds
    BY <1>2, <1>4, SameFdsNow
  <2>2. \A f \in FileSector : Held(p, f)' <=> Held(p, f)
    <3> TAKE f \in FileSector
    <3>1. ~AtHeadOn(T, "open", f) /\ ~AtHeadOn(R, "open", f)
      BY <1>2, <1>9 DEF AtHeadOn
    <3>2. HasOn(R, {"close"}, f) <=> HasOn(T, {"close"}, f)
      BY <1>11
    <3> QED
      BY <1>4, <1>6, <1>11, <3>1, <3>2 DEF Held, T
  <2>3. \A f \in FileSector : inode'[f].cnt = inode[f].cnt /\ inode'[f].deny = inode[f].deny
    BY <1>17, <1>18
  <2> QED
    BY <1>2, <1>4, <2>1, <2>2, <2>3, KeepCounts
<1>22. LoadedRight(p)'
  <2>1. ASSUME NEW t \in {ROOT_DIR_SECTOR} \cup FileSector, inode'[t].cnt > 0, ~inode'[t].loaded
        PROVE  FALSE
    <3>1. t # s /\ t \in Sector
      BY <1>16, <1>18, <2>1
    <3>2. inode[t].cnt > 0 /\ ~inode[t].loaded
      BY <1>16, <2>1, <3>1
    <3>3. AtHeadOn(T, "load", t)
      BY <1>2, <3>2 DEF LoadedRight, T
    <3> QED
      BY <1>2, <3>1, <3>3 DEF AtHeadOn
  <2>2. ~AtHead(R, {"load"})
    BY <1>9 DEF AtHead
  <2> QED
    BY <1>6, <2>1, <2>2 DEF LoadedRight
<1>23. \A f \in File : InodeOf(f)' = InodeOf(f)
  <2> TAKE f \in File
  <2>1. f \in FileSector /\ f \in Sector
    BY <1>2, <1>18, FileFacts
  <2>2. CASE f = s
    BY <1>12, <1>16, <2>1, <2>2 DEF InodeOf
  <2>3. CASE f # s
    BY <1>4, <1>16, <2>1, <2>3 DEF InodeOf
  <2> QED
    BY <2>2, <2>3
<1>24. \A ops \in {Making, {"release"}, {"create"}, {"setlength"}, {"setlength", "writeinode"},
                   {"unlock"}, DataOps, {"zero"}} :
         (Has(R, ops) <=> Has(T, ops)) /\ \A f : HasOn(R, ops, f) <=> HasOn(T, ops, f)
  <2>1. \A ops \in {Making, {"release"}, {"create"}, {"setlength"}, {"setlength", "writeinode"},
                   {"unlock"}, DataOps, {"zero"}} : "load" \notin ops
    BY DEF Making, DataOps
  <2> QED
    BY <1>11, <2>1
<1>25. Made(p)' = Made(p) /\ ToGive(p)' = ToGive(p)
  BY <1>4, <1>6, <1>24 DEF Made, ToGive, T
<1>26. ASSUME SameStore(p)
       PROVE Unnamed' /\ InodesRight(p)' /\ OwnersRight(p)' /\ NewRight(p)' /\ NamesRight(p)' /\ DataRight(p)'
  <2>1. InDir' = InDir /\ Named' = Named /\ \A t : Caught(p, t)' <=> Caught(p, t)
    BY <1>26 DEF SameStore
  <2>2. File' = File
    <3>1. \A f \in FileSector : inode'[f].cnt = inode[f].cnt
      BY <1>17, <1>18
    <3> QED
      BY <2>1, <3>1 DEF File
  <2>3. Unnamed'
    <3>1. \A f \in FileSector : inode'[f].cnt = inode[f].cnt /\ inode'[f].removed = inode[f].removed
      BY <1>17, <1>18
    <3> QED
      BY <1>2, <2>1, <3>1 DEF Unnamed
  <2>4. InodesRight(p)'
    <3>1. \A f : (Growing(p, f) => Growing(p, f)') /\ (Writing(p, f) => Writing(p, f)')
      BY <1>6, <1>24 DEF Growing, Writing, T
    <3>2. \A f \in File : InodeOf(f)' = InodeOf(f) /\ disk'[f] = disk[f]
      BY <1>4, <1>23
    <3> QED
      BY <1>2, <2>1, <2>2, <3>1, <3>2, KeepInodes
  <2>5. OwnersRight(p)'
    BY <1>2, <1>4, <1>23, <1>25, <2>2, KeepOwners
  <2>6. NewRight(p)'
    <3>1. Has(R, Making) => Has(T, Making) /\ Allots(R, Len(reg[p]) - 1)
      <4> SUFFICES ASSUME Has(R, Making) PROVE Has(T, Making) /\ Allots(R, Len(reg[p]) - 1)
        OBVIOUS
      <4>1. Has(T, Making)
        BY <1>24
      <4>2. reg[p] # <<>> /\ Allots(T, Len(reg[p]) - 1) /\ reg[p] \in Seq(FileSector)
        BY <1>2, <4>1 DEF NewRight, T, Plans
      <4>3. Len(reg[p]) - 1 \in Nat
        BY <4>2
      <4> QED
        BY <1>2, <4>1, <4>2, <4>3, AllotsRest DEF R
    <3>2. ~AtHead(R, {"unique", "dirwrite"})
      BY <1>9 DEF AtHead
    <3>3. Has(R, {"create"}) => Has(T, {"create"})
      BY <1>24
    <3>4. Caught(p, reg[p][1])' => Caught(p, reg[p][1])
      BY <1>4, SameCaught
    <3>5. \A f \in FileSector : HasOn(R, {"zero"}, f) => HasOn(T, {"zero"}, f)
      BY <1>24
    <3> QED
      BY <1>2, <1>4, <1>6, <2>1, <2>2, <3>1, <3>2, <3>3, <3>4, <3>5, KeepNew DEF T
  <2>7. NamesRight(p)'
    BY <1>2, <1>4, <1>6, <1>9, <2>1, KeepNames DEF T
  <2>8. DataRight(p)'
    <3>1. ~Has(R, {"setlength", "put"}) /\ ~AtHead(R, {"readat"}) /\ R \in Seq(Tasks)
      BY <1>2, <1>9, <1>10 DEF Has, AtHead, Fit
    <3> QED
      BY <1>6, <3>1, CalmData
  <2> QED
    BY <2>3, <2>4, <2>5, <2>6, <2>7, <2>8
<1>27. SameStore(p) => /\ HandleTypes' /\ SystemInodes(p)' /\ Counted(p)' /\ Unnamed' /\ LoadedRight(p)'
                       /\ InodesRight(p)' /\ OwnersRight(p)' /\ NewRight(p)' /\ NamesRight(p)'
                       /\ DataRight(p)'
  BY <1>19, <1>20, <1>21, <1>22, <1>26
<1>28. /\ Has(R, {"unlock"}) <=> Has(T, {"unlock"})
       /\ \A f : HasOn(R, DataOps, f) /\ Has(R, {"unlock"}) => HasOn(T, DataOps, f)
       /\ RootOpen(T) => RootOpen(R) \/ AtHeadOn(R, "flush", RootData)
       /\ ~AtHead(R, {"off"}) /\ used' \subseteq Sector /\ used' = used
       /\ reg' \in [Proc -> Seq(FileSector)]
       /\ T[1].op \in {"open", "load", "close", "grow", "setlength", "newfd", "deny", "loaded"}
  BY <1>2, <1>4, <1>9, <1>11, <1>24 DEF DiskRight, Plans
<1>29. \A q \in Proc : fd[q] # None => fd'[q] # None /\ fd'[q].sector = fd[q].sector
  BY <1>4
<1> QED
  BY <1>2, <1>4, <1>6, <1>27, <1>28, <1>29, InodeStep DEF T

-----------------------------------------------------------------------------
\* One block more for an open file.
LEMMA AppendInto ==
  ASSUME NEW q \in Seq(FileSector), IsInjective(q), NEW s \in FileSector, s \notin ToSet(q)
  PROVE  /\ Append(q, s) \in Seq(FileSector) /\ IsInjective(Append(q, s))
         /\ ToSet(Append(q, s)) = ToSet(q) \cup {s}
         /\ Len(Append(q, s)) = Len(q) + 1 /\ Len(q) \in Nat
<1> DEFINE r == Append(q, s)
<1>1. /\ r \in Seq(FileSector) /\ Len(r) = Len(q) + 1 /\ Len(q) \in Nat
      /\ \A i \in 1 .. Len(q) : r[i] = q[i]
      /\ r[Len(q) + 1] = s
  OBVIOUS
<1>2. DOMAIN q = 1 .. Len(q) /\ DOMAIN r = 1 .. Len(r)
  OBVIOUS
<1> HIDE DEF r
<1>3. \A i \in 1 .. Len(q) : q[i] \in ToSet(q) /\ q[i] # s
  BY <1>2 DEF ToSet
<1>4. IsInjective(r)
  <2> SUFFICES ASSUME NEW i \in 1 .. Len(r), NEW j \in 1 .. Len(r), r[i] = r[j] PROVE i = j
    BY <1>2 DEF IsInjective
  <2>1. CASE i \in 1 .. Len(q) /\ j \in 1 .. Len(q)
    BY <1>1, <1>2, <2>1 DEF IsInjective
  <2>2. CASE i = Len(q) + 1 /\ j \in 1 .. Len(q)
    BY <1>1, <1>3, <2>2
  <2>3. CASE j = Len(q) + 1 /\ i \in 1 .. Len(q)
    BY <1>1, <1>3, <2>3
  <2>4. CASE i = Len(q) + 1 /\ j = Len(q) + 1
    BY <2>4
  <2>5. (i \in 1 .. Len(q) \/ i = Len(q) + 1) /\ (j \in 1 .. Len(q) \/ j = Len(q) + 1)
    BY <1>1
  <2> QED
    BY <2>1, <2>2, <2>3, <2>4, <2>5
<1>5. ToSet(r) = ToSet(q) \cup {s}
  <2>1. ASSUME NEW x \in ToSet(r) PROVE x \in ToSet(q) \cup {s}
    <3>1. PICK i \in 1 .. Len(r) : x = r[i]
      BY <1>2 DEF ToSet
    <3>2. CASE i \in 1 .. Len(q)
      BY <1>1, <1>3, <3>1, <3>2
    <3>3. CASE i = Len(q) + 1
      BY <1>1, <3>1, <3>3
    <3> QED
      BY <1>1, <3>2, <3>3
  <2>2. ASSUME NEW x \in ToSet(q) PROVE x \in ToSet(r)
    <3>1. PICK i \in 1 .. Len(q) : x = q[i]
      BY <1>2 DEF ToSet
    <3>2. i \in 1 .. Len(r) /\ r[i] = x
      BY <1>1, <3>1
    <3> QED
      BY <1>2, <3>2 DEF ToSet
  <2>3. s \in ToSet(r)
    <3>1. Len(q) + 1 \in 1 .. Len(r)
      BY <1>1, SMTT(30)
    <3> QED
      BY <1>1, <1>2, <3>1 DEF ToSet
  <2> QED
    BY <2>1, <2>2, <2>3
<1> QED
  BY <1>1, <1>4, <1>5 DEF r

\* While a file grows the call is about this file only.
GrowFacts(p, f, T, R) ==
  /\ f \in FileSector /\ f \in File /\ inode[f].cnt > 0 /\ inode[f].loaded
  /\ R # <<>> /\ R[1].op \in {"grow", "setlength"}
  /\ HasOn(R, {"setlength"}, f) /\ Has(R, {"setlength"})
  /\ \A g : HasOn(T, DataOps, g) => g = f
  /\ ~Has(R, {"create", "zero", "erase"} \cup Making \cup Naming)
  /\ Grows(T, Len(inode[f].data.direct)) /\ FileRight(p, f) /\ InodeOf(f) = inode[f].data
  /\ Len(inode[f].data.direct) < MaxLen

LEMMA GrowRest ==
  ASSUME NEW p \in Proc, Plans, HandleTypes, Counted(p), LoadedRight(p), InodesRight(p), DataRight(p),
         NEW T, T = todo[p], T # <<>>, T[1].op = "grow", NEW R, R = Tail(T), NEW f, f = T[1].sector
  PROVE  GrowFacts(p, f, T, R)
<1>1. Fit(T) /\ T \in Seq(Tasks) /\ T[1] \in Tasks
  BY HeadOf DEF Plans
<1>2. f \in FileSector /\ inode[f].cnt > 0 /\ inode[f].loaded
  <2>1. T[1].op \in DataOps
    BY DEF DataOps
  <2> QED
    BY <2>1, FileOpen
<1>3. f \in File
  BY <1>2 DEF File
<1>4. HeadFacts(T[1], R, T)
  BY <1>1, HeadNow
<1>5. PICK j \in 1 .. Len(T) : 1 < j /\ T[j].op = "setlength" /\ T[j].sector = f
  <2>1. 1 \in 1 .. Len(T)
    BY <1>4 DEF HeadFacts
  <2> QED
    BY <1>1, <2>1 DEF Fit, Paired
<1>6. HasOn(T, {"setlength"}, f)
  BY <1>5 DEF HasOn
<1>7. HasOn(R, {"setlength"}, f)
  BY <1>4, <1>6 DEF HeadFacts
<1>8. Growing(p, f) /\ Grows(T, Len(inode[f].data.direct))
  BY <1>2, <1>6 DEF Growing, DataRight
<1>9. \A g : HasOn(T, DataOps, g) => g = f
  <2>1. Has(T, {"unlock"})
    BY <1>1, DataPlan DEF DataOps
  <2>2. \A i \in 1 .. Len(T) : T[i].op \in DataOps => T[i].sector = fd[p].sector
    BY <2>1 DEF Plans
  <2>3. f = fd[p].sector
    <3>1. 1 \in 1 .. Len(T) /\ T[1].op \in DataOps
      BY <1>4 DEF HeadFacts, DataOps
    <3> QED
      BY <2>2, <3>1
  <2> QED
    BY <2>2, <2>3 DEF HasOn
<1>10. ~Has(R, {"create", "zero", "erase"} \cup Making \cup Naming)
  <2> DEFINE ops == {"create", "zero", "erase"} \cup Making \cup Naming
  <2>1. \A d \in Tasks : d.op \in ops => ~MayPrecede(T[1], d)
    BY DEF MayPrecede, CloseRoot, Naming, Making
  <2> HIDE DEF ops
  <2>2. ~Has(R, ops)
    BY <1>1, <2>1, NotLater
  <2> QED
    BY <2>2 DEF ops
<1>11. R # <<>> /\ R[1].op \in {"grow", "setlength"}
  <2>1. (R # <<>> => MayFollow(T[1], R[1])) /\ (R = <<>> => MayEnd(T[1]))
    BY <1>1, FitRest
  <2>2. R # <<>>
    BY <2>1 DEF MayEnd
  <2> QED
    BY <2>1, <2>2 DEF MayFollow
<1>12. FileRight(p, f) /\ InodeOf(f) = inode[f].data
  BY <1>2, <1>3 DEF InodesRight, InodeOf
<1>13. Len(inode[f].data.direct) < MaxLen
  <2>1. T[j].arg = Len(inode[f].data.direct) + (j - 1 - Early(T))
    BY <1>5, <1>8 DEF Grows
  <2>2. Early(T) = 0
    BY DEF Early, AtHead
  <2>3. T[j].arg \in 1 .. MaxLen
    BY <1>1, <1>5 DEF Fit, Meant
  <2>4. Len(inode[f].data.direct) \in Nat /\ MaxLen \in Nat
    BY <1>12, FilesAssumption DEF FileRight
  <2> QED
    BY <1>5, <2>1, <2>2, <2>3, <2>4, SMTT(30)
<1>14. Has(R, {"setlength"})
  BY <1>7, HasOnHas
<1> QED
  BY <1>2, <1>3, <1>7, <1>8, <1>9, <1>10, <1>11, <1>12, <1>13, <1>14 DEF GrowFacts

GrownBy(f, s) == inode' = [inode EXCEPT ![f].data.direct = Append(@, s)]

LEMMA GrowMove ==
  ASSUME NEW p \in Proc, Focus(p), mode = "up", mode' = mode, todo[p] # <<>>, todo[p][1].op = "grow",
         NEW s \in Free, FreeMapAllocate(s), NEW f, f = todo[p][1].sector,
         GrownBy(f, s),
         Then(p, <<Do("mapwrite"), Task("zero", s, 0)>>),
         UNCHANGED <<disk, cache, fd, exec, leaked, fsLock, reg, miss, lost>>
  PROVE  Focus(p)'
<1> DEFINE T == todo[p]
<1> DEFINE R == Tail(T)
<1> DEFINE a == T[1]
<1> DEFINE b == Do("mapwrite")
<1> DEFINE c == Task("zero", s, 0)
<1> DEFINE U == <<b, c>> \o R
<1>2. /\ T # <<>> /\ a.op = "grow" /\ Fit(T) /\ ~Quiet(p) /\ Meant(a)
      /\ Fit(R) /\ R \in Seq(Tasks) /\ T \in Seq(Tasks) /\ a \in Tasks
      /\ Plans /\ Turn(p) /\ CacheRight(p) /\ DiskRight /\ HandleTypes
      /\ SystemData(p) /\ OwnersRight(p) /\ NewRight(p) /\ NamesRight(p) /\ DataRight(p)
      /\ SystemInodes(p) /\ Counted(p) /\ LoadedRight(p) /\ InodesRight(p) /\ Unnamed
  <2>1. Plans /\ T = todo[p]
    BY DEF Focus
  <2>2. Fit(T) /\ ~Quiet(p)
    BY <2>1 DEF Plans, Quiet
  <2>3. Fit(R) /\ R \in Seq(Tasks) /\ T \in Seq(Tasks) /\ a \in Tasks /\ Meant(a)
    BY <2>2, HeadOf DEF Fit
  <2> HIDE DEF T, R, a
  <2> QED
    BY <2>1, <2>2, <2>3 DEF Focus, a, T
<1>3. /\ f \in FileSector /\ f \in File /\ inode[f].cnt > 0 /\ inode[f].loaded
      /\ R # <<>> /\ R[1].op \in {"grow", "setlength"}
      /\ HasOn(R, {"setlength"}, f) /\ Has(R, {"setlength"})
      /\ \A g : HasOn(T, DataOps, g) => g = f
      /\ ~Has(R, {"create", "zero", "erase"} \cup Making \cup Naming)
      /\ Grows(T, Len(inode[f].data.direct)) /\ FileRight(p, f) /\ InodeOf(f) = inode[f].data
      /\ Len(inode[f].data.direct) < MaxLen
  <2>1. T = todo[p] /\ T # <<>> /\ T[1].op = "grow" /\ R = Tail(T) /\ f = T[1].sector
    BY <1>2
  <2> HIDE DEF T, R
  <2>2. GrowFacts(p, f, T, R)
    BY <1>2, <2>1, GrowRest
  <2> QED
    BY <2>2, Zenon DEF GrowFacts
<1>4. /\ s \in FileSector /\ s \in Sector /\ used' = used \cup {s} /\ used' \subseteq Sector
      /\ s \notin Owns /\ s \notin lost /\ s \notin Made(p) /\ s \notin ToGive(p) /\ s \notin File
  BY <1>2, NewSector
<1>5. /\ b \in Tasks /\ b.op = "mapwrite" /\ b.sector = 0
      /\ c \in Tasks /\ c.op = "zero" /\ c.sector = s
  BY <1>4, Sectors DEF Tasks, Task, Op, Arguments, Do, FREE_MAP_SECTOR
<1>6. \A j \in 1 .. Len(R) : MayPrecede(a, R[j]) /\ R[j] \in Tasks
  BY <1>2, FitRest
<1>7. Fit(U) /\ U # <<>> /\ U[1].op # "lock"
  <2>1. U = <<b, c>> \o R
    OBVIOUS
  <2> HIDE DEF U, b, c, R, a, T
  <2>2. Meant(b) /\ Meant(c) /\ MayFollow(b, c) /\ MayPrecede(b, c)
    BY <1>4, <1>5, SMTT(30) DEF Meant, MayFollow, MayPrecede
  <2>3. MayFollow(c, R[1])
    BY <1>3, <1>5 DEF MayFollow
  <2>4. \A j \in 1 .. Len(R) : MayPrecede(b, R[j]) /\ MayPrecede(c, R[j])
    BY <1>2, <1>5, <1>6, SMTT(30) DEF MayPrecede, CloseRoot
  <2>5. /\ b.op \notin {"lock", "erase", "lookup", "grow", "allocate", "release"}
        /\ c.op \notin {"lock", "erase", "lookup", "grow", "allocate", "release"}
    BY <1>5
  <2>6. (R # <<>> => MayFollow(c, R[1])) /\ (R = <<>> => MayEnd(c))
    BY <1>3, <2>3
  <2>7. Fit(U) /\ U[1] = b /\ U # <<>>
    <3>1. Fit(R) /\ b \in Tasks /\ c \in Tasks
      BY <1>2, <1>5
    <3> QED
      BY <2>1, <2>2, <2>4, <2>5, <2>6, <3>1, FitAhead, ZenonT(60)
  <2> QED
    BY <2>7, <1>5
<1>8. AheadFacts(b, c, R, U)
  <2>1. U = <<b, c>> \o R /\ R \in Seq(Tasks) /\ b \in Tasks /\ c \in Tasks
    BY <1>2, <1>5
  <2> HIDE DEF U, b, c, R, a, T
  <2> QED
    BY <2>1, TwoAhead
<1>9. HeadFacts(a, R, T)
  BY <1>2, HeadNow
<1>10. Moves(p, U) /\ todo'[p] = U
  <2>1. U = <<b, c>> \o Tail(todo[p])
    OBVIOUS
  <2> HIDE DEF U, b, c
  <2> QED
    BY <1>2, <1>7, <2>1, ThenMoves DEF b, c
<1> HIDE DEF U, R, a, T, b, c
<1>11. \A o \in {{"unlock"}, {"close"}, {"setlength"}, {"setlength", "writeinode"}, Making,
                 {"release"}, {"create"}} :
         (Has(U, o) <=> Has(T, o)) /\ \A g : HasOn(U, o, g) <=> HasOn(T, o, g)
  BY <1>2, <1>5, <1>8, <1>9, ZenonT(60) DEF AheadFacts, HeadFacts, Making
<1>12. \A g : HasOn(U, DataOps, g) => HasOn(T, DataOps, g)
  BY <1>2, <1>5, <1>8, <1>9 DEF AheadFacts, HeadFacts, DataOps
<1>13. (RootOpen(U) <=> RootOpen(T)) /\ ~RegHeld(U) /\ ~RegHeld(T)
  <2>1. ~RegHeld(R)
    BY <1>3 DEF RegHeld, Has
  <2> QED
    BY <1>2, <1>5, <1>8, <1>9, <2>1 DEF AheadFacts, HeadFacts, Naming, OpenRoot, CloseRoot
<1>14. ~AtHead(U, {"load", "off"}) /\ ~AtHead(U, {"open"}) /\ ~AtHead(U, {"readat"})
       /\ ~AtHead(U, {"unique", "dirwrite"}) /\ AtHead(U, {"mapwrite"})
       /\ (\A g : ~AtHeadOn(U, "open", g) /\ ~AtHeadOn(T, "open", g)) /\ ~AtHead(T, {"open"})
       /\ (\A g : ~AtHeadOn(T, "load", g) /\ ~AtHeadOn(T, "flush", g)) /\ ~AtHead(T, {"off"})
  BY <1>2, <1>5, <1>8, <1>9, SMTT(30) DEF AtHead, AtHeadOn, a, AheadFacts
<1>15. ~Has(U, {"create"} \cup Making) /\ ~Has(U, {"erase", "deny", "newfd"}) /\ Has(U, {"setlength"})
       /\ HasOn(U, {"setlength"}, f)
       /\ \A t : HasOn(U, {"zero"}, t) => t = s
  <2>1. ~HasOn(R, {"zero"}, f) /\ \A t : ~HasOn(R, {"zero"}, t)
    BY <1>3 DEF HasOn, Has
  <2>2. ~Has(R, {"create"} \cup Making) /\ ~Has(R, {"erase", "deny", "newfd"})
    BY <1>3, SMTT(30) DEF Has, Naming
  <2> QED
    BY <1>3, <1>5, <1>8, <2>1, <2>2, ZenonT(60) DEF AheadFacts, Making
<1>16. /\ inode[f].data.direct \in Seq(FileSector) /\ inode[f].data.length \in Nat
       /\ inode[f].data.length <= Len(inode[f].data.direct)
       /\ IsInjective(inode[f].data.direct) /\ f \notin ToSet(inode[f].data.direct) /\ ~Caught(p, f)
       /\ Whole(f) = {f} \cup ToSet(inode[f].data.direct)
       /\ Whole(f) \subseteq Owns /\ f # s
  BY <1>3, <1>4, ZenonT(60) DEF FileRight, Whole, Owns
<1> DEFINE q == Append(inode[f].data.direct, s)
<1>17. /\ q \in Seq(FileSector) /\ IsInjective(q)
       /\ ToSet(q) = ToSet(inode[f].data.direct) \cup {s}
       /\ Len(q) = Len(inode[f].data.direct) + 1 /\ Len(inode[f].data.direct) \in Nat
  BY <1>4, <1>16, AppendInto, Zenon
<1> DEFINE k == Len(inode[f].data.direct)
<1>34. k \in Nat /\ k + 1 <= MaxLen /\ Len(q) = k + 1 /\ inode[f].data.length <= k /\ inode[f].data.length \in Nat
  <2>1. k \in Nat /\ MaxLen \in Nat /\ k < MaxLen /\ Len(q) = k + 1
    BY <1>3, <1>17, FilesAssumption, ZenonT(60)
  <2>2. inode[f].data.length <= k /\ inode[f].data.length \in Nat
    BY <1>16, ZenonT(60)
  <2> HIDE DEF k
  <2> QED
    BY <2>1, <2>2, SMTT(30)
<1>18. inode \in [Sector -> Inodes] /\ inode[f] \in Inodes /\ f \in Sector
       /\ \A g \in FileSector : g \in Sector
  BY <1>2, <1>3, Sectors, SMTT(30) DEF HandleTypes
<1>19. /\ inode' \in [Sector -> Inodes]
       /\ inode'[f].cnt = inode[f].cnt
       /\ inode'[f].deny = inode[f].deny /\ inode'[f].removed = inode[f].removed
       /\ inode'[f].loaded = inode[f].loaded
       /\ inode'[f].data.direct = q /\ inode'[f].data.length = inode[f].data.length
       /\ inode'[f].data \in [direct : Seq(FileSector), length : Nat]
       /\ \A t \in Sector : t # f => inode'[t] = inode[t]
  <2> DEFINE d == [inode[f].data EXCEPT !.direct = q]
  <2> DEFINE n == [inode[f] EXCEPT !.data = d]
  <2>1. inode[f].data \in [direct : Seq(FileSector), length : Nat]
    BY <1>3, ZenonT(60) DEF FileRight
  <2>2. /\ d \in [direct : Seq(FileSector), length : Nat]
        /\ d.direct = q /\ d.length = inode[f].data.length
    <3> HIDE DEF q
    <3> QED
      BY <1>17, <2>1, SMTT(30)
  <2>3. d \in OnDisks
    <3>1. Seq(FileSector) \subseteq Seq(FileSector \cup {MapData, RootData})
      BY SMTT(30)
    <3> HIDE DEF d
    <3> QED
      BY <2>2, <3>1 DEF OnDisks
  <2>4. inode' = [inode EXCEPT ![f] = n]
    BY <1>18 DEF GrownBy
  <2> HIDE DEF d
  <2>5. /\ n \in Inodes /\ n.cnt = inode[f].cnt
        /\ n.deny = inode[f].deny /\ n.removed = inode[f].removed
        /\ n.loaded = inode[f].loaded /\ n.data = d
    BY <1>18, <2>3 DEF Inodes
  <2> HIDE DEF n
  <2>6. inode' \in [Sector -> Inodes] /\ inode'[f] = n
        /\ \A t \in Sector : t # f => inode'[t] = inode[t]
    BY <1>18, <2>4, <2>5
  <2> QED
    BY <2>2, <2>5, <2>6, ZenonT(60)
<1> HIDE DEF q, k
<1>20. \A t \in Sector : /\ inode'[t].cnt = inode[t].cnt /\ inode'[t].deny = inode[t].deny
                         /\ inode'[t].removed = inode[t].removed /\ inode'[t].loaded = inode[t].loaded
  BY <1>19, SMTT(30)
<1>21. /\ FREE_MAP_SECTOR # f /\ MapData # f /\ RootData # f /\ ROOT_DIR_SECTOR # f
       /\ FREE_MAP_SECTOR \in Sector /\ MapData \in Sector /\ RootData \in Sector /\ ROOT_DIR_SECTOR \in Sector
  BY <1>3, Sectors, SMTT(30)
<1>22. HandleTypes'
  <2>1. \A t \in Sector : inode'[t].cnt = 0 => inode'[t] = Closed
    <3> TAKE t \in Sector
    <3>1. CASE t = f
      <4>1. ~(inode[f].cnt = 0)
        BY <1>3, <1>18, SMTT(30) DEF Inodes
      <4> QED
        BY <1>19, <3>1, <4>1, SMTT(30)
    <3>2. CASE t # f
      BY <1>2, <1>19, <3>2 DEF HandleTypes
    <3> QED
      BY <3>1, <3>2
  <2> QED
    BY <1>2, <1>19, <2>1 DEF HandleTypes
<1>23. SystemInodes(p)'
  <2>1. inode[FREE_MAP_SECTOR] = FreeMapInode
    BY <1>2, <1>14, SMTT(30) DEF SystemInodes, T
  <2>2. /\ inode'[FREE_MAP_SECTOR] = FreeMapInode /\ inode'[MapData] = Closed /\ inode'[RootData] = Closed
        /\ inode'[ROOT_DIR_SECTOR] = inode[ROOT_DIR_SECTOR]
    BY <1>2, <1>19, <1>21, <2>1 DEF SystemInodes
  <2>3. RootOpen(todo[p])' <=> RootOpen(todo[p])
    BY <1>10, <1>13 DEF T
  <2> QED
    BY <1>2, <2>2, <2>3 DEF SystemInodes
<1>24. Counted(p)'
  <2>1. SameFds
    BY <1>2, SameFdsNow
  <2>2. \A g \in FileSector : Held(p, g)' <=> Held(p, g)
    <3> TAKE g \in FileSector
    <3>1. HasOn(U, {"close"}, g) <=> HasOn(T, {"close"}, g)
      BY <1>11
    <3> QED
      BY <1>10, <1>13, <1>14, <3>1 DEF Held, T
  <2>3. \A g \in FileSector : inode'[g].cnt = inode[g].cnt /\ inode'[g].deny = inode[g].deny
    BY <1>18, <1>20
  <2> QED
    BY <1>2, <2>1, <2>2, <2>3, KeepCounts
<1>25. LoadedRight(p)'
  <2>1. ASSUME NEW t \in {ROOT_DIR_SECTOR} \cup FileSector, inode'[t].cnt > 0
        PROVE  inode'[t].loaded
    <3>1. t \in Sector
      BY <1>18, <1>21
    <3>2. inode[t].cnt > 0 => inode[t].loaded
      BY <1>2, <1>14 DEF LoadedRight, T
    <3>3. inode'[t].cnt = inode[t].cnt /\ inode'[t].loaded = inode[t].loaded
      BY <1>20, <3>1
    <3> QED
      BY <2>1, <3>2, <3>3
  <2>2. ~AtHead(U, {"load"})
    BY <1>14, SMTT(30) DEF AtHead
  <2> QED
    BY <1>10, <2>1, <2>2 DEF LoadedRight
<1>26. \A g \in File : g # f => InodeOf(g)' = InodeOf(g)
  <2> TAKE g \in File
  <2>1. g \in Sector
    BY <1>2, <1>18, FileFacts, SMTT(30)
  <2> QED
    BY <1>19, <2>1 DEF InodeOf
<1>27. InodeOf(f)' = inode'[f].data
  BY <1>3, <1>19, Zenon DEF InodeOf
<1>28. Made(p)' = {} /\ Made(p) = {} /\ ToGive(p)' = ToGive(p)
  <2>1. ~Has(U, Making) /\ ~Has(T, Making)
    BY <1>11, <1>15 DEF Has
  <2>2. \A g : HasOn(U, {"release"}, g) <=> HasOn(T, {"release"}, g)
    BY <1>11
  <2> QED
    BY <1>10, <2>1, <2>2 DEF Made, ToGive, T
<1>29. Growing(p, f)' /\ Writing(p, f)'
  <2>1. HasOn(U, {"setlength", "writeinode"}, f)
    BY <1>15 DEF HasOn
  <2> QED
    BY <1>10, <1>15, <2>1 DEF Growing, Writing
<1>30. ASSUME SameStore(p)
       PROVE Unnamed' /\ InodesRight(p)' /\ OwnersRight(p)' /\ NewRight(p)' /\ NamesRight(p)' /\ DataRight(p)'
  <2>1. InDir' = InDir /\ Named' = Named /\ \A t : Caught(p, t)' <=> Caught(p, t)
    BY <1>30 DEF SameStore
  <2>2. File' = File
    <3>1. \A g \in FileSector : inode'[g].cnt = inode[g].cnt
      BY <1>18, <1>20
    <3> QED
      BY <2>1, <3>1 DEF File
  <2>3. Unnamed'
    <3>1. \A g \in FileSector : inode'[g].cnt = inode[g].cnt /\ inode'[g].removed = inode[g].removed
      BY <1>18, <1>20
    <3> QED
      BY <1>2, <2>1, <3>1 DEF Unnamed
  <2>4. InodesRight(p)'
    <3> SUFFICES ASSUME NEW g \in File PROVE FileRight(p, g)'
      BY <2>2 DEF InodesRight
    <3>1. CASE g # f
      <4>1. Growing(p, g)' <=> Growing(p, g)
        BY <1>10, <1>11 DEF Growing, T
      <4>2. Writing(p, g)' <=> Writing(p, g)
        BY <1>10, <1>11 DEF Writing, T
      <4>3. FileRight(p, g)
        BY <1>2 DEF InodesRight
      <4>4. InodeOf(g)' = InodeOf(g) /\ disk'[g] = disk[g]
        BY <1>26, <3>1
      <4> QED
        BY <2>1, <4>1, <4>2, <4>3, <4>4 DEF FileRight
    <3>2. CASE g = f
      <4> DEFINE i == inode'[f].data
      <4>1. /\ i \in [direct : Seq(FileSector), length : Nat]
            /\ Len(i.direct) <= MaxLen /\ i.length <= Len(i.direct)
            /\ IsInjective(i.direct) /\ f \notin ToSet(i.direct)
        <5>1. i \in [direct : Seq(FileSector), length : Nat] /\ i.direct = q
              /\ i.length = inode[f].data.length
          BY <1>19
        <5>2. Len(q) <= MaxLen
          BY <1>34
        <5>3. inode[f].data.length <= Len(q)
          BY <1>34, SMTT(30)
        <5>4. f \notin ToSet(q)
          BY <1>16, <1>17, ZenonT(60)
        <5> HIDE DEF i
        <5> QED
          BY <1>17, <5>1, <5>2, <5>3, <5>4
      <4>2. InodeOf(f)' = i /\ ~Caught(p, f)'
        BY <1>16, <1>27, <2>1, Zenon
      <4> HIDE DEF i
      <4> QED
        BY <1>29, <3>2, <4>1, <4>2, SMTT(30) DEF FileRight
    <3> QED
      BY <3>1, <3>2
  <2>5. OwnersRight(p)'
    <3>1. Whole(f)' = Whole(f) \cup {s}
      <4>1. Whole(f)' = {f} \cup ToSet(InodeOf(f)'.direct)
        BY SMTT(30) DEF Whole
      <4>2. Whole(f)' = {f} \cup ToSet(q)
        BY <1>19, <1>27, <4>1, Zenon
      <4> QED
        BY <1>16, <1>17, <4>2, Zenon
    <3>2. \A g \in File : g # f => Whole(g)' = Whole(g)
      BY <1>26, SMTT(30) DEF Whole
    <3>3. Owns' = Owns \cup {s}
      <4>1. Owns = UNION {Whole(g) : g \in File}
        BY DEF Owns
      <4>2. Owns' = UNION {Whole(g)' : g \in File}
        BY <2>2 DEF Owns
      <4> QED
        BY <1>3, <3>1, <3>2, <4>1, <4>2
    <3>4. \A g, h \in File : g # h => Whole(g)' \cap Whole(h)' = {}
      <4> SUFFICES ASSUME NEW g \in File, NEW h \in File, g # h
                   PROVE  Whole(g)' \cap Whole(h)' = {}
        OBVIOUS
      <4>1. Whole(g) \cap Whole(h) = {}
        BY <1>2 DEF OwnersRight
      <4>2. s \notin Whole(g) /\ s \notin Whole(h)
        BY <1>4 DEF Owns
      <4> QED
        BY <3>1, <3>2, <4>1, <4>2
    <3>5. /\ lost \subseteq FileSector /\ lost \cap Owns = {}
          /\ ToGive(p) \cap (Owns \cup lost) = {}
          /\ used = (0 .. 3) \cup lost \cup Owns \cup Made(p) \cup ToGive(p)
      BY <1>2 DEF OwnersRight
    <3>6. /\ lost' \subseteq FileSector /\ lost' \cap (Owns \cup {s}) = {}
          /\ ToGive(p)' \cap (Owns \cup {s} \cup lost') = {}
          /\ used' = (0 .. 3) \cup lost' \cup (Owns \cup {s}) \cup Made(p)' \cup ToGive(p)'
      BY <1>4, <1>28, <3>5
    <3> QED
      BY <1>28, <2>2, <3>3, <3>4, <3>6, SMTT(30) DEF OwnersRight
  <2>6. NewRight(p)'
    <3>1. ~Has(U, Making) /\ ~Has(U, {"create"}) /\ ~AtHead(U, {"unique", "dirwrite"})
      BY <1>14, <1>15 DEF Has
    <3>2. \A t \in FileSector : HasOn(U, {"zero"}, t) => t \notin File
      BY <1>4, <1>15
    <3> QED
      BY <1>10, <2>2, <3>1, <3>2 DEF NewRight
  <2>7. NamesRight(p)'
    BY <1>10, <1>14, <1>15 DEF NamesRight, Has
  <2>8. DataRight(p)'
    <3>1. Grows(U, Len(q))
      <4> SUFFICES ASSUME NEW i \in 1 .. Len(U), U[i].op = "setlength"
                   PROVE  U[i].arg = Len(q) + (i - 1 - Early(U))
        BY DEF Grows
      <4>1. Early(U) = 2
        BY <1>5, <1>8, <1>14 DEF Early, AheadFacts
      <4>2. Early(T) = 0
        BY <1>2 DEF Early, AtHead, a
      <4>3. i \in 3 .. Len(U)
        BY <1>5, <1>8 DEF AheadFacts
      <4>4. U[i] = R[i - 2] /\ i - 2 \in 1 .. Len(R)
        BY <1>8, <4>3 DEF AheadFacts
      <4>5. /\ Len(T) = Len(R) + 1 /\ Len(R) \in Nat
            /\ \A j \in 2 .. Len(T) : T[j] = R[j - 1]
        BY <1>9 DEF HeadFacts
      <4>6. i - 1 \in 2 .. Len(T) /\ (i - 1) - 1 = i - 2
        BY <4>3, <4>4, <4>5
      <4>7. i - 1 \in 1 .. Len(T) /\ T[i - 1] = R[i - 2]
        BY <4>5, <4>6
      <4>8. T[i - 1].arg = k + ((i - 1) - 1 - Early(T))
        BY <1>3, <4>4, <4>7 DEF Grows, k
      <4>9. k + ((i - 1) - 1 - 0) = (k + 1) + (i - 1 - 2)
        BY <1>34, <4>3, SMTT(30)
      <4> QED
        BY <1>34, <4>1, <4>2, <4>4, <4>7, <4>8, <4>9
    <3>2. \A g \in FileSector : Growing(p, g)' => g = f
      <4> SUFFICES ASSUME NEW g \in FileSector, Growing(p, g)' PROVE g = f
        OBVIOUS
      <4>1. HasOn(U, {"setlength"}, g)
        BY <1>10 DEF Growing
      <4>2. HasOn(T, DataOps, g)
        BY <1>11, <4>1, SMTT(30) DEF HasOn, DataOps
      <4> QED
        BY <1>3, <4>2
    <3>3. Len(inode'[f].data.direct) = Len(q)
      BY <1>19
    <3>4. \A g \in FileSector : Growing(p, g)' => Grows(U, Len(inode'[g].data.direct))
      BY <3>1, <3>2, <3>3
    <3>5. Has(U, {"setlength"}) /\ ~AtHead(U, {"readat"})
      BY <1>14, <1>15
    <3> QED
      BY <1>10, <3>4, <3>5 DEF DataRight
  <2> QED
    BY <2>3, <2>4, <2>5, <2>6, <2>7, <2>8
<1>31. SameStore(p) => /\ HandleTypes' /\ SystemInodes(p)' /\ Counted(p)' /\ Unnamed' /\ LoadedRight(p)'
                       /\ InodesRight(p)' /\ OwnersRight(p)' /\ NewRight(p)' /\ NamesRight(p)'
                       /\ DataRight(p)'
  BY <1>22, <1>23, <1>24, <1>25, <1>30
<1>32. /\ Has(U, {"unlock"}) <=> Has(T, {"unlock"})
       /\ \A g : HasOn(U, DataOps, g) /\ Has(U, {"unlock"}) => HasOn(T, DataOps, g)
       /\ RootOpen(T) => RootOpen(U) \/ AtHeadOn(U, "flush", RootData)
       /\ ~AtHead(U, {"off"}) /\ used' \subseteq Sector /\ AtHead(U, {"mapwrite"})
       /\ reg' \in [Proc -> Seq(FileSector)]
       /\ T[1].op \in {"open", "load", "close", "grow", "setlength", "newfd", "deny", "loaded"}
  BY <1>2, <1>4, <1>11, <1>12, <1>13, <1>14 DEF Plans, AtHead, a
<1>33. \A r \in Proc : fd[r] # None => fd'[r] # None /\ fd'[r].sector = fd[r].sector
  OBVIOUS
<1> QED
  BY <1>2, <1>10, <1>31, <1>32, <1>33, InodeStep DEF T

LEMMA DirectAllocateStep ==
  ASSUME NEW p \in Proc, Focus(p), DirectAllocate(p), lost' = lost
  PROVE  Focus(p)'
<1>1. Is(p, "grow")
  BY DEF DirectAllocate
<1>2. todo[p] # <<>> /\ todo[p][1].op = "grow" /\ mode = "up" /\ S(p) = todo[p][1].sector
  BY <1>1, Begin, SMTT(30)
<1>3. CASE Free = {} /\ Panic(p)
  BY <1>3, PanicStep
<1>4. ASSUME NEW s \in Free, FreeMapAllocate(s),
             inode' = [inode EXCEPT ![S(p)].data.direct = Append(@, s)],
             Then(p, <<Do("mapwrite"), Task("zero", s, 0)>>),
             UNCHANGED <<disk, cache, fd, exec, leaked, fsLock, reg, miss, got, mode>>
      PROVE  Focus(p)'
  <2>1. GrownBy(todo[p][1].sector, s)
    BY <1>2, <1>4 DEF GrownBy
  <2>2. UNCHANGED <<disk, cache, fd, exec, leaked, fsLock, reg, miss, lost>> /\ mode' = mode
    BY <1>4
  <2> QED
    BY <1>2, <1>4, <2>1, <2>2, GrowMove, SMTT(30)
<1> QED
  BY <1>3, <1>4 DEF DirectAllocate
=============================================================================
