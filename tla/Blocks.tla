------------------------------- MODULE Blocks -------------------------------
(***************************************************************************)
(* Where filesys/inode.c (its HEAD side) keeps the sectors of a file: in   *)
(* the direct entries of the inode and in one indirect table.  One file is *)
(* created, grown by writes past its end, and removed, on a disk that may  *)
(* become full.                                                            *)
(*                                                                         *)
(* Files reach to the end of the indirect table: beyond it byte_to_sector()*)
(* looks in the doubly indirect table at a negative index.  Sectors are    *)
(* SectorSize bytes.  What a buffer that nobody filled holds is Junk, and  *)
(* a sector that is freed with that number makes the kernel panic.         *)
(***************************************************************************)
EXTENDS Integers, FiniteSets, Sequences, FiniteSetsExt

CONSTANTS DirectCnt, IndirectCnt,  \* 100 and 128
          SectorSize, Sector,      \* sectors are numbers above 0
          Foreign,                 \* those that other files may have
          MaxCalls, Junk, Nil

VARIABLES used,   \* the free map
          disk,   \* the sectors, as tables
          inode,  \* Nil, or the file
          full,   \* an allocation has failed
          lost,   \* sectors no file has that are used
          calls,  \* how many there were: the bound
          dead    \* Nil, or how many sectors a write that panics had to grow from and to

vars == <<used, disk, inode, full, lost, calls, dead>>

MaxSectors == DirectCnt + IndirectCnt
BytesToSectors(len) == (len + SectorSize - 1) \div SectorSize
JunkTable  == [i \in 0 .. IndirectCnt - 1 |-> Junk]
Zeros      == [i \in 0 .. IndirectCnt - 1 |-> 0]
Least(a, b) == IF a < b THEN a ELSE b

\* What is left of the disk while a call runs.
State == [used |-> used, disk |-> disk, full |-> full]
FreeIn(st) == Sector \ st.used

\* byte_to_sector().
ByteToSector(d, f, pos) ==
  LET index == pos \div SectorSize IN
  IF index < DirectCnt THEN f.direct[index]
                       ELSE d[f.indirect][index - DirectCnt]

-----------------------------------------------------------------------------
\* free_map_allocate (1, ...) of a zeroed sector into entry i of a table.
Allocate(st, table, i) ==
  IF FreeIn(st) = {} THEN [st |-> [st EXCEPT !.full = TRUE], table |-> table]
  ELSE LET s == Min(FreeIn(st)) IN
       [st |-> [st EXCEPT !.used = @ \cup {s}, !.disk[s] = Zeros],
        table |-> [table EXCEPT ![i] = s]]

\* Entries first up to end, exclusive, of a table; it stops at a failure.
RECURSIVE AllocateAll(_, _, _, _)
AllocateAll(st, table, first, end) ==
  IF first >= end \/ FreeIn(st) = {}
  THEN [st |-> [st EXCEPT !.full = @ \/ first < end], table |-> table]
  ELSE LET a == Allocate(st, table, first) IN AllocateAll(a.st, a.table, first + 1, end)

Failed(st, first, end) == Cardinality(FreeIn(st)) < end - first

\* Mutant: the table is read again without what it had.
FillTableAnew(st, table, first, end, s) ==
  LET a == AllocateAll(st, JunkTable, first, end) IN [a.st EXCEPT !.disk[s] = a.table]

\* inode_indirect() and indirect_allocate(): a table that could not be filled
\* is not written, and nobody looks at the return value.
FillTable(st, table, first, end, s) ==
  LET a == AllocateAll(st, table, first, end) IN
  IF Failed(st, first, end) THEN a.st ELSE [a.st EXCEPT !.disk[s] = a.table]

Becomes(st) == used' = st.used /\ disk' = st.disk /\ full' = st.full
Dies(from, to) == dead' = [from |-> from, to |-> to] /\ UNCHANGED <<used, disk, inode, full, lost>>

NoSectors == [i \in 0 .. DirectCnt - 1 |-> 0]

-----------------------------------------------------------------------------
\* inode_create() with sector_allocate(): no direct sector is a panic, no
\* indirect one an error that keeps what was allocated.
InodeCreate(len) ==
  /\ inode = Nil /\ dead = Nil
  /\ LET n  == BytesToSectors(len)
         d  == Least(n, DirectCnt)
         a  == AllocateAll(State, NoSectors, 0, d)
         s  == Min(FreeIn(a.st))
         st == [a.st EXCEPT !.used = @ \cup {s}]
     IN  \/ Failed(State, 0, d) /\ Dies(0, n)
         \/ /\ ~Failed(State, 0, d) /\ n = d /\ Becomes(a.st)
            /\ inode' = [direct |-> a.table, indirect |-> 0, len |-> len]
            /\ UNCHANGED <<lost, dead>>
         \/ /\ ~Failed(State, 0, d) /\ n > d /\ FreeIn(a.st) = {}
            /\ Becomes([a.st EXCEPT !.full = TRUE])
            /\ lost' = lost \cup {a.table[i] : i \in 0 .. d - 1}
            /\ UNCHANGED <<inode, dead>>
         \/ /\ ~Failed(State, 0, d) /\ n > d /\ FreeIn(a.st) # {}
            /\ Becomes(FillTable(st, JunkTable, 0, n - d, s))
            /\ inode' = [direct |-> a.table, indirect |-> s, len |-> len]
            /\ UNCHANGED <<lost, dead>>

\* A write of the bytes up to len, past the end of the file.  cnt is reduced
\* before temp_sectors is advanced by it, so that growth that ends too soon
\* after the direct entries is not seen to reach the table, and panics.
InodeWriteAt(len) ==
  /\ inode # Nil /\ dead = Nil
  /\ len > inode.len /\ BytesToSectors(inode.len) < MaxSectors
  /\ LET from == BytesToSectors(inode.len)
         to   == BytesToSectors(len)
         d    == Least(to - from, IF from < DirectCnt THEN DirectCnt - from ELSE 0)
         cnt  == to - from - d
         a    == AllocateAll(State, inode.direct, from, from + d)
         temp == IF from < DirectCnt THEN Least(from + cnt, DirectCnt) ELSE from
         s    == IF inode.indirect # 0 THEN inode.indirect ELSE Min(FreeIn(a.st))
         st   == [a.st EXCEPT !.used = @ \cup {s}]
         first == temp - DirectCnt
     IN  \/ /\ \/ Failed(State, from, from + d)
               \/ temp < DirectCnt /\ cnt > 0
               \/ temp >= DirectCnt /\ inode.indirect = 0 /\ FreeIn(a.st) = {}
            /\ Dies(from, to)
         \/ /\ ~Failed(State, from, from + d) /\ temp < DirectCnt /\ cnt = 0
            /\ Becomes(a.st)
            /\ inode' = [inode EXCEPT !.direct = a.table, !.len = len]
            /\ UNCHANGED <<lost, dead>>
         \/ /\ ~Failed(State, from, from + d) /\ temp >= DirectCnt
            /\ inode.indirect # 0 \/ FreeIn(a.st) # {}
            /\ Becomes(FillTable(st, st.disk[s], first, first + cnt, s))
            /\ inode' = [inode EXCEPT !.direct = a.table, !.indirect = s, !.len = len]
            /\ UNCHANGED <<lost, dead>>

\* inode_close() of the last opener of a removed file: the indirect table
\* itself stays allocated.
InodeClose ==
  /\ inode # Nil /\ dead = Nil
  /\ LET n == BytesToSectors(inode.len)
         S == {ByteToSector(disk, inode, i * SectorSize) : i \in 0 .. n - 1}
     IN  IF Junk \in S THEN Dies(n, 0)
         ELSE /\ used' = used \ S
              /\ lost' = (lost \ S) \cup ({inode.indirect} \ {0})
              /\ inode' = Nil /\ UNCHANGED <<disk, full, dead>>

\* A panic is final.
Rest == (dead # Nil \/ calls = MaxCalls) /\ UNCHANGED vars

Init ==
  /\ used \in SUBSET Foreign
  /\ disk = [s \in Sector |-> JunkTable] /\ inode = Nil /\ full = FALSE
  /\ lost = {} /\ calls = 0 /\ dead = Nil

Next ==
  \/ /\ calls < MaxCalls /\ calls' = calls + 1
     /\ \/ \E len \in 0 .. MaxSectors * SectorSize : InodeCreate(len) \/ InodeWriteAt(len)
        \/ InodeClose
  \/ Rest

-----------------------------------------------------------------------------
Index   == IF inode = Nil THEN {} ELSE 0 .. BytesToSectors(inode.len) - 1
Place(i) == ByteToSector(disk, inode, i * SectorSize)
Mapped  == {Place(i) : i \in Index}

\* Until the disk is full, each sector of a file is another sector of the disk,
\* and none is its table or one that other files or nobody has; growth leaves
\* them where they are and fills the new ones with zeros; and a panic is a
\* write across the end of the direct entries that does not go far enough.
CallRight ==
  ~full' =>
   /\ Cardinality(Mapped') = Cardinality(Index') /\ Mapped' \subseteq used'
   /\ inode' # Nil => inode'.indirect \notin Mapped'
   /\ Mapped' \cap lost' = {}
   /\ inode # Nil /\ inode' # Nil => \A i \in Index : Place(i)' = Place(i)
   /\ inode' # Nil => \A i \in Index' \ Index : disk'[Place(i)'] = Zeros
   /\ dead = Nil /\ dead' # Nil =>
        \/ dead'.to - dead'.from >= Cardinality(Sector \ used)
        \/ dead'.from < DirectCnt /\ dead'.to > DirectCnt
           /\ dead'.from + dead'.to < 2 * DirectCnt

=============================================================================
