-------------------------------- MODULE Files -------------------------------
(***************************************************************************)
(* The file system of filesys/ under the file system calls of              *)
(* userprog/syscall.c and userprog/process.c: directory, free map, inodes  *)
(* in memory and on disk, and the buffer cache between them and the disk.  *)
(* Where inode.c and free-map.c hold merge-conflict markers the model      *)
(* follows the side named HEAD.                                            *)
(*                                                                         *)
(* A sector holds one block; files are as long as their direct sectors     *)
(* (module Blocks has the arithmetic of the other levels).  todo[p] is the *)
(* rest of the call p is in: the pieces of code that run until the next    *)
(* access to the disk or the next function that may wait.  Between two     *)
(* tasks of one process the others run.  The cache is asked with           *)
(* is_hit(); on a miss new_entry() may write back the oldest entry, the    *)
(* sector is read, and the new entry goes to the end of the list, whatever *)
(* others have done to the list meanwhile.                                 *)
(*                                                                         *)
(* The buffers that processes pass are mapped: what a fault leaves behind  *)
(* that ends a process under filesys_lock is left to module Console.       *)
(*                                                                         *)
(* Assume names what the code relies on without seeing to it itself:       *)
(*   "alone"   only reads and writes of open files run beside each other,  *)
(*             which filesys_lock keeps apart; all other calls run alone   *)
(*   "noreuse" when a call starts, the cache holds no free sector          *)
(*   "quiet"   the machine is switched off between calls                   *)
(***************************************************************************)
EXTENDS Integers, Sequences, FiniteSets, FiniteSetsExt, SequencesExt

CONSTANTS Proc, Name, None,
          FileSector, \* the sectors after those of free map and root directory
          CacheSize,  \* entries the cache may have (64)
          Val, Zero,  \* contents of a block; calloc and static memory are Zero
          MaxLen,     \* bound: blocks of a file
          MaxLeak,    \* bound: handles lost by exits, between two boots
          MaxCalls,   \* bound: calls of the processes, all together
          Assume

FREE_MAP_SECTOR == 0
ROOT_DIR_SECTOR == 1
MapData  == 2   \* the data sector of the free map file
RootData == 3   \* the data sector of the root directory
Sector   == (0 .. 3) \cup FileSector

ASSUME FilesAssumption ==
  /\ IsFiniteSet(Proc) /\ Proc # {}
  /\ FileSector \subseteq Nat \ (0 .. 3) /\ IsFiniteSet(FileSector)
  /\ CacheSize \in Nat \ {0} /\ MaxLen \in Nat \ {0}
  /\ Zero \in Val /\ \E v \in Val : v # Zero
  /\ Assume \subseteq {"alone", "noreuse", "quiet"}

VARIABLES disk,   \* the contents of every sector
          cache,  \* cache_list
          used,   \* free_map: the sectors that are taken
          inode,  \* open_inodes, by sector
          fd,     \* the open file of each process
          exec,   \* its executable (exec_file)
          leaked, \* handles whose struct file exit freed without a close
          fsLock, \* the holder of filesys_lock
          todo, reg,  \* the rest of each call, and the sectors it has found
          miss,   \* its access to the cache, once is_hit() said no
          got,    \* the block it has just read
          mode,   \* "up", "off" or "panic" (an ASSERT failed)
          calls,  \* how many calls there have been
          lost    \* sectors taken for good, by a failed create or a reset

vars == <<disk, cache, used, inode, fd, exec, leaked, fsLock, todo, reg, miss,
          got, mode, calls, lost>>

\* What a sector holds.
Data(v)        == [data |-> v]
Map(S)         == [used |-> S]
Dir(E)         == [entries |-> E]
OnDisk(dir, n) == [direct |-> dir, length |-> n]
Contents == {OnDisk(d, n) : d \in BoundedSeq(FileSector \cup {MapData, RootData}, MaxLen),
                            n \in 0 .. MaxLen}
            \cup {Data(v) : v \in Val} \cup {Map(U) : U \in SUBSET Sector}
            \cup {Dir(E) : E \in SUBSET (Name \X FileSector)}

ASSUME NoneAssumption ==
  None \notin Proc \cup Sector \cup [sector : Sector, pos : Nat]
             \cup [sector : Sector, data : Contents]

Closed == [cnt |-> 0, deny |-> 0, removed |-> FALSE, loaded |-> FALSE,
           data |-> OnDisk(<<>>, 0)]
NoMiss == [yes |-> FALSE, victim |-> None]

Task(op, s, arg) == [op |-> op, sector |-> s, arg |-> arg]
Do(op)           == Task(op, 0, 0)

Is(p, op) == mode = "up" /\ todo[p] # <<>> /\ Head(todo[p]).op = op
S(p)      == Head(todo[p]).sector
Arg(p)    == Head(todo[p]).arg
\* The task of p is done; the tasks in new come before the rest of its call.
Then(p, new) == todo' = [todo EXCEPT ![p] = new \o Tail(@)]
Forget(p)    == reg' = [reg EXCEPT ![p] = <<>>]

-----------------------------------------------------------------------------
\* The buffer cache.
Hit(s)   == SelectInSeq(cache, LAMBDA e : e.sector = s)
InCache(s) == Hit(s) > 0
Entry(s, d) == [sector |-> s, data |-> d]

\* The sector a task gets through the cache.
Wants(p) ==
  LET op == Head(todo[p]).op IN
  CASE op = "mapwrite" -> MapData
    [] op \in {"lookup", "find", "unique", "dirwrite", "erase"} -> RootData
    [] op \in {"readat", "put"} -> inode[S(p)].data.direct[Arg(p)[1]]
    [] OTHER -> None

\* is_hit() finds nothing; new_entry() takes the oldest entry off a full list.
Miss(p) ==
  /\ mode = "up" /\ todo[p] # <<>> /\ Wants(p) # None
  /\ ~miss[p].yes /\ ~InCache(Wants(p))
  /\ LET full == Len(cache) >= CacheSize IN
     /\ miss' = [miss EXCEPT ![p] = [yes |-> TRUE,
                                     victim |-> IF full THEN Head(cache) ELSE None]]
     /\ cache' = IF full THEN Tail(cache) ELSE cache
  /\ UNCHANGED <<disk, used, inode, fd, exec, leaked, fsLock, todo, reg, got, mode>>

\* new_entry() writes what it took back to the disk, changed or not.
Evict(p) ==
  LET e == miss[p].victim IN
  /\ mode = "up" /\ e # None
  /\ disk' = [disk EXCEPT ![e.sector] = e.data]
  /\ miss' = [miss EXCEPT ![p].victim = None]
  /\ UNCHANGED <<cache, used, inode, fd, exec, leaked, fsLock, todo, reg, got, mode>>

\* The cache when p has its entry, and where in the cache the entry is: the
\* first one is_hit() found, or the one p has read and put at the end.
Accessed(p) ==
  IF miss[p].yes
  THEN IF miss[p].victim # None THEN {}
       ELSE {[list |-> Append(cache, Entry(Wants(p), disk[Wants(p)])),
              at |-> Len(cache) + 1]}
  ELSE IF InCache(Wants(p)) THEN {[list |-> cache, at |-> Hit(Wants(p))]} ELSE {}

Fetched(p, c)  == cache' = c.list /\ miss' = [miss EXCEPT ![p] = NoMiss]
Stored(p, c, d) == /\ cache' = [c.list EXCEPT ![c.at].data = d]
                   /\ miss' = [miss EXCEPT ![p] = NoMiss]
Old(c) == c.list[c.at].data

\* What a sector would read as: the cache, an entry on its way to the disk,
\* or the disk.
Logical(s) ==
  IF InCache(s) THEN cache[Hit(s)].data
  ELSE LET Holders == {p \in Proc : miss[p].victim # None /\ miss[p].victim.sector = s}
       IN  IF Holders # {} THEN miss[CHOOSE p \in Holders : TRUE].victim.data ELSE disk[s]

-----------------------------------------------------------------------------
\* The free map.
Free == Sector \ used

\* free_map_allocate (1, &s): the first free sector; the map goes to its file.
FreeMapAllocate(s) == Free # {} /\ s = Min(Free) /\ used' = used \cup {s}

MapWrite(p) ==
  /\ Is(p, "mapwrite")
  /\ \E c \in Accessed(p) : Stored(p, c, Map(used))
  /\ Then(p, <<>>)
  /\ UNCHANGED <<disk, used, inode, fd, exec, leaked, fsLock, reg, got, mode>>

Panic(p) ==
  /\ mode' = "panic"
  /\ UNCHANGED <<disk, cache, used, inode, fd, exec, leaked, fsLock, todo, reg,
                 miss, got>>

FreeMapRelease(p) ==
  /\ Is(p, "release")
  /\ IF S(p) \notin used THEN Panic(p)
     ELSE /\ used' = used \ {S(p)}
          /\ Then(p, <<Do("mapwrite")>>)
          /\ UNCHANGED <<disk, cache, inode, fd, exec, leaked, fsLock, reg,
                         miss, got, mode>>

-----------------------------------------------------------------------------
\* Inodes.  A new struct inode holds garbage until it has been read.
Garbage == IF "alone" \in Assume THEN {OnDisk(<<>>, 0)}  \* nobody else looks
           ELSE {OnDisk(<<>>, 0)} \cup {OnDisk(<<s>>, 1) : s \in FileSector}

InodeOpen(p) ==
  /\ Is(p, "open")
  /\ IF inode[S(p)].cnt > 0
     THEN inode' = [inode EXCEPT ![S(p)].cnt = @ + 1] /\ Then(p, <<>>)
     ELSE /\ \E d \in Garbage :
               inode' = [inode EXCEPT ![S(p)] = [Closed EXCEPT !.cnt = 1, !.data = d]]
          /\ Then(p, <<Task("load", S(p), 0)>>)
  /\ UNCHANGED <<disk, cache, used, fd, exec, leaked, fsLock, reg, miss, got, mode>>

InodeLoad(p) ==
  /\ Is(p, "load")
  /\ inode' = [inode EXCEPT ![S(p)].data = disk[S(p)], ![S(p)].loaded = TRUE]
  /\ Then(p, <<>>)
  /\ UNCHANGED <<disk, cache, used, fd, exec, leaked, fsLock, reg, miss, got, mode>>

\* Each of the sectors of an inode in turn.
ForEach(op, n) == [i \in 1 .. n.data.length |-> Task(op, n.data.direct[i], 0)]

\* Mutant: inode_close() does not write the blocks back.
InodeCloseLazy(p) ==
  LET n == inode[S(p)] IN
  /\ Is(p, "close")
  /\ IF n.cnt > 1
     THEN inode' = [inode EXCEPT ![S(p)].cnt = @ - 1] /\ Then(p, <<>>)
     ELSE /\ inode' = [inode EXCEPT ![S(p)] = Closed]
          /\ Then(p, IF n.removed
                     THEN <<Task("release", S(p), 0)>> \o ForEach("release", n)
                     ELSE <<>>)
  /\ UNCHANGED <<disk, cache, used, fd, exec, leaked, fsLock, reg, miss, got, mode>>

\* inode_close(): with the last handle a removed inode gives its sectors back
\* and the blocks of any other are written from the cache to the disk.
InodeClose(p) ==
  LET n == inode[S(p)] IN
  /\ Is(p, "close")
  /\ IF n.cnt > 1
     THEN inode' = [inode EXCEPT ![S(p)].cnt = @ - 1] /\ Then(p, <<>>)
     ELSE /\ inode' = [inode EXCEPT ![S(p)] = Closed]
          /\ Then(p, IF n.removed
                     THEN <<Task("release", S(p), 0)>> \o ForEach("release", n)
                     ELSE ForEach("flush", n))
  /\ UNCHANGED <<disk, cache, used, fd, exec, leaked, fsLock, reg, miss, got, mode>>

Flush(p) ==
  /\ Is(p, "flush")
  /\ disk' = IF InCache(S(p)) THEN [disk EXCEPT ![S(p)] = cache[Hit(S(p))].data]
                              ELSE disk
  /\ Then(p, <<>>)
  /\ UNCHANGED <<cache, used, inode, fd, exec, leaked, fsLock, reg, miss, got, mode>>

\* Mutant: the map in memory is changed, the one in the file is not.
SectorAllocateOnly(p) ==
  /\ Is(p, "allocate")
  /\ \/ /\ Free = {} /\ Panic(p)
     \/ \E s \in Free :
          /\ FreeMapAllocate(s)
          /\ reg' = [reg EXCEPT ![p] = Append(@, s)]
          /\ Then(p, <<Task("zero", s, 0)>>)
          /\ UNCHANGED <<disk, cache, inode, fd, exec, leaked, fsLock, miss, got, mode>>

\* sector_allocate(): one block of a new file, in the inode being made.
SectorAllocate(p) ==
  /\ Is(p, "allocate")
  /\ \/ /\ Free = {} /\ Panic(p)
     \/ \E s \in Free :
          /\ FreeMapAllocate(s)
          /\ reg' = [reg EXCEPT ![p] = Append(@, s)]
          /\ Then(p, <<Do("mapwrite"), Task("zero", s, 0)>>)
          /\ UNCHANGED <<disk, cache, inode, fd, exec, leaked, fsLock, miss, got, mode>>

\* Zeros go to the disk itself, past the cache, and so do inodes.
ZeroSector(p) ==
  /\ Is(p, "zero")
  /\ disk' = [disk EXCEPT ![S(p)] = Data(Zero)]
  /\ Then(p, <<>>)
  /\ UNCHANGED <<cache, used, inode, fd, exec, leaked, fsLock, reg, miss, got, mode>>

\* inode_create(), once its blocks are there.
InodeCreate(p) ==
  /\ Is(p, "newinode")
  /\ disk' = [disk EXCEPT ![reg[p][1]] = OnDisk(Tail(reg[p]), Len(reg[p]) - 1)]
  /\ Then(p, <<>>)
  /\ UNCHANGED <<cache, used, inode, fd, exec, leaked, fsLock, reg, miss, got, mode>>

-----------------------------------------------------------------------------
\* inode_read_at() of one block; at the end of the file there is none.
ReadAt(p) ==
  /\ Is(p, "read")
  /\ Then(p, IF Arg(p)[1] <= inode[S(p)].data.length
             THEN <<Task("readat", S(p), Arg(p))>> ELSE <<>>)
  /\ UNCHANGED <<disk, cache, used, inode, fd, exec, leaked, fsLock, reg, miss,
                 got, mode>>

\* Arg(p)[2] is TRUE when the block goes to a process, which moves its position.
ReadBlock(p) ==
  /\ Is(p, "readat")
  /\ \E c \in Accessed(p) :
       /\ Fetched(p, c)
       /\ IF Arg(p)[2] /\ fd[p] # None
          THEN /\ got' = [got EXCEPT ![p] = Old(c).data]
               /\ fd' = [fd EXCEPT ![p].pos = @ + 1]
          ELSE UNCHANGED <<got, fd>>
  /\ Then(p, <<>>)
  /\ UNCHANGED <<disk, used, inode, exec, leaked, fsLock, reg, mode>>

\* inode_write_at() of one block: nothing when writes are denied; past the end
\* the file first grows.
WriteAt(p) ==
  LET n == inode[S(p)] IN
  /\ Is(p, "write")
  /\ Then(p, IF n.deny > 0 THEN <<>>
             ELSE [i \in 1 .. Arg(p)[1] - n.data.length |-> Task("grow", S(p), 0)] \o
                  (IF Arg(p)[1] > n.data.length
                   THEN <<Task("setlength", S(p), Arg(p)[1])>> ELSE <<>>)
                  \o <<Task("put", S(p), Arg(p))>>)
  /\ UNCHANGED <<disk, cache, used, inode, fd, exec, leaked, fsLock, reg, miss,
                 got, mode>>

\* direct_allocate(): one more block of an open file.
DirectAllocate(p) ==
  /\ Is(p, "grow")
  /\ \/ /\ Free = {} /\ Panic(p)
     \/ \E s \in Free :
          /\ FreeMapAllocate(s)
          /\ inode' = [inode EXCEPT ![S(p)].data.direct = Append(@, s)]
          /\ Then(p, <<Do("mapwrite"), Task("zero", s, 0)>>)
          /\ UNCHANGED <<disk, cache, fd, exec, leaked, fsLock, reg, miss, got, mode>>

SetLength(p) ==
  /\ Is(p, "setlength")
  /\ inode' = [inode EXCEPT ![S(p)].data.length = Arg(p)]
  /\ Then(p, <<Task("writeinode", S(p), 0)>>)
  /\ UNCHANGED <<disk, cache, used, fd, exec, leaked, fsLock, reg, miss, got, mode>>

WriteInode(p) ==
  /\ Is(p, "writeinode")
  /\ disk' = [disk EXCEPT ![S(p)] = inode[S(p)].data]
  /\ Then(p, <<>>)
  /\ UNCHANGED <<cache, used, inode, fd, exec, leaked, fsLock, reg, miss, got, mode>>

PutBlock(p) ==
  /\ Is(p, "put")
  /\ \E c \in Accessed(p) : Stored(p, c, Data(Arg(p)[2]))
  /\ fd' = IF fd[p] # None THEN [fd EXCEPT ![p].pos = @ + 1] ELSE fd
  /\ Then(p, <<>>)
  /\ UNCHANGED <<disk, used, inode, exec, leaked, fsLock, reg, got, mode>>

-----------------------------------------------------------------------------
\* Directories.  Which slot an entry is in is left out.
Entries(c, n) == {e \in Old(c).entries : e[1] = n}

\* filesys_open() and dir_lookup(): reg gets the inode's sector, or nothing.
Lookup(p) ==
  /\ Is(p, "lookup")
  /\ \E c \in Accessed(p) :
       /\ Fetched(p, c)
       /\ \/ /\ Entries(c, Arg(p)) = {}
             /\ reg' = [reg EXCEPT ![p] = <<>>] /\ Then(p, <<>>)
          \/ \E e \in Entries(c, Arg(p)) :
               /\ reg' = [reg EXCEPT ![p] = <<e[2]>>]
               /\ Then(p, <<Task("open", e[2], 0)>>)
  /\ UNCHANGED <<disk, used, inode, fd, exec, leaked, fsLock, got, mode>>

\* dir_remove() finds the entry and opens the inode.
Find(p) ==
  /\ Is(p, "find")
  /\ \E c \in Accessed(p) :
       /\ Fetched(p, c)
       /\ \/ Entries(c, Arg(p)) = {} /\ Then(p, <<>>)
          \/ \E e \in Entries(c, Arg(p)) :
               Then(p, <<Task("open", e[2], 0), Task("erase", e[2], Arg(p)),
                         Task("close", e[2], 0)>>)
  /\ UNCHANGED <<disk, used, inode, fd, exec, leaked, fsLock, reg, got, mode>>

\* The entry is erased and the inode marked: inode_remove().
Erase(p) ==
  /\ Is(p, "erase")
  /\ \E c \in Accessed(p) :
       Stored(p, c, Dir(Old(c).entries \ {<<Arg(p), S(p)>>}))
  /\ inode' = [inode EXCEPT ![S(p)].removed = TRUE]
  /\ Then(p, <<>>)
  /\ UNCHANGED <<disk, used, fd, exec, leaked, fsLock, reg, got, mode>>

\* When dir_add() refuses, filesys_create() gives back the sector of the new inode,
\* and not those of its blocks.
Refused(p) ==
  /\ Then(p, <<Task("release", reg[p][1], 0)>>) /\ Forget(p)
  /\ lost' = lost \cup ToSet(Tail(reg[p]))

\* dir_add() looks whether the name is valid (which names are is left open), and
\* then whether it is taken.
Unique(p) ==
  /\ Is(p, "unique")
  /\ \/ ~miss[p].yes /\ Refused(p) /\ UNCHANGED <<cache, miss>>
     \/ \E c \in Accessed(p) :
          /\ Fetched(p, c)
          /\ IF Entries(c, Arg(p)) = {}
             THEN Then(p, <<Task("dirwrite", 0, Arg(p))>>) /\ UNCHANGED <<reg, lost>>
             ELSE Refused(p)
  /\ UNCHANGED <<disk, used, inode, fd, exec, leaked, fsLock, got, mode>>

\* dir_add() writes the entry into a free slot.
DirWrite(p) ==
  /\ Is(p, "dirwrite")
  /\ \E c \in Accessed(p) :
       Stored(p, c, Dir(Old(c).entries \cup {<<Arg(p), reg[p][1]>>}))
  /\ Then(p, <<>>) /\ Forget(p)
  /\ UNCHANGED <<disk, used, inode, fd, exec, leaked, fsLock, got, mode>>

\* filesys_create() gets a sector for the inode, or fails.
FilesysCreate(p) ==
  LET n == Arg(p)[1] IN
  /\ Is(p, "create")
  /\ \/ /\ Free = {}
        /\ Then(p, <<>>) /\ UNCHANGED <<used, reg>>
     \/ \E s \in Free :
          /\ FreeMapAllocate(s)
          /\ reg' = [reg EXCEPT ![p] = <<s>>]
          /\ Then(p, <<Do("mapwrite")>> \o [i \in 1 .. Arg(p)[2] |-> Do("allocate")]
                     \o <<Do("newinode"), Task("unique", 0, n)>>)
  /\ UNCHANGED <<disk, cache, inode, fd, exec, leaked, fsLock, miss, got, mode>>

-----------------------------------------------------------------------------
\* The calls of a process.
Idle(p)    == todo[p] = <<>>
InData(p)  == ~Idle(p) /\ Last(todo[p]).op = "unlock"
Alone(p)   == "alone" \in Assume => \A q \in Proc \ {p} : Idle(q)
Beside(p)  == "alone" \in Assume => \A q \in Proc \ {p} : Idle(q) \/ InData(q)
NoReuse    == "noreuse" \in Assume => \A s \in Free : ~InCache(s)

Root(tasks) == <<Task("open", ROOT_DIR_SECTOR, 0)>> \o tasks
               \o <<Task("close", ROOT_DIR_SECTOR, 0)>>
FilesysOpen(n) == Root(<<Task("lookup", 0, n)>>)

Enter(p, tasks) ==
  /\ mode = "up" /\ Idle(p)
  /\ todo' = [todo EXCEPT ![p] = tasks]
  /\ UNCHANGED <<disk, cache, used, inode, leaked, fsLock, reg, miss, got, mode>>

CallCreate(p, n, len) ==
  /\ Alone(p) /\ NoReuse
  /\ Enter(p, Root(<<Task("create", 0, <<n, len>>)>>))
  /\ UNCHANGED <<fd, exec>>

CallRemove(p, n) ==
  /\ Alone(p)
  /\ Enter(p, Root(<<Task("find", 0, n)>>))
  /\ UNCHANGED <<fd, exec>>

CallOpen(p, n) ==
  /\ fd[p] = None /\ Alone(p)
  /\ Enter(p, FilesysOpen(n) \o <<Do("newfd")>>)
  /\ UNCHANGED <<fd, exec>>

NewFd(p) ==
  /\ Is(p, "newfd")
  /\ fd' = IF reg[p] = <<>> THEN fd
           ELSE [fd EXCEPT ![p] = [sector |-> reg[p][1], pos |-> 0]]
  /\ Then(p, <<>>) /\ Forget(p)
  /\ UNCHANGED <<disk, cache, used, inode, exec, leaked, fsLock, miss, got, mode>>

\* Mutant: file_close() does not allow writes again.
AllowNot(p) ==
  /\ exec' = [exec EXCEPT ![p] = None]
  /\ UNCHANGED inode

\* file_close() of the executable: writes are allowed again, then the close.
AllowWrite(p) ==
  /\ inode' = [inode EXCEPT ![exec[p]].deny = @ - 1]
  /\ exec' = [exec EXCEPT ![p] = None]

\* process_exit(): the struct file of an open file is freed and the inode is
\* not closed; the executable is closed.
CallExit(p) ==
  /\ mode = "up" /\ Idle(p) /\ Alone(p)
  /\ fd[p] # None \/ exec[p] # None
  /\ fd' = [fd EXCEPT ![p] = None]
  /\ IF fd[p] = None THEN UNCHANGED leaked
     ELSE /\ SumFunction(leaked) < MaxLeak
          /\ leaked' = [leaked EXCEPT ![fd[p].sector] = @ + 1]
  /\ IF exec[p] = None THEN UNCHANGED <<inode, exec, todo>>
     ELSE /\ AllowWrite(p)
          /\ todo' = [todo EXCEPT ![p] = <<Task("close", exec[p], 0)>>]
  /\ UNCHANGED <<disk, cache, used, fsLock, reg, miss, got, mode>>

\* A descriptor that find_file() does not find ends the process: sys_exit (-1), in
\* sys_read() and sys_write() once filesys_lock has been taken and given back.
CallRead(p) ==
  \/ /\ fd[p] # None /\ fd[p].pos < MaxLen /\ Beside(p)
     /\ Enter(p, <<Do("lock"), Task("read", fd[p].sector, <<fd[p].pos + 1, TRUE>>),
                   Do("unlock")>>)
     /\ UNCHANGED <<fd, exec>>
  \/ fsLock = None /\ CallExit(p)

CallWrite(p, v) ==
  \/ /\ fd[p] # None /\ fd[p].pos < MaxLen /\ Beside(p) /\ NoReuse
     /\ Enter(p, <<Do("lock"), Task("write", fd[p].sector, <<fd[p].pos + 1, v>>),
                   Do("unlock")>>)
     /\ UNCHANGED <<fd, exec>>
  \/ fsLock = None /\ CallExit(p)

Lock(p) ==
  /\ Is(p, "lock") /\ fsLock = None
  /\ fsLock' = p /\ Then(p, <<>>)
  /\ UNCHANGED <<disk, cache, used, inode, fd, exec, leaked, reg, miss, got, mode>>

Unlock(p) ==
  /\ Is(p, "unlock")
  /\ fsLock' = None /\ Then(p, <<>>)
  /\ got' = [got EXCEPT ![p] = None]
  /\ UNCHANGED <<disk, cache, used, inode, fd, exec, leaked, reg, miss, mode>>

\* The ASSERTs: a descriptor of the console, or a position that is negative as an
\* off_t.
CallSeek(p, k) ==
  \/ fd[p] # None /\ fd' = [fd EXCEPT ![p].pos = k] /\ Enter(p, <<>>) /\ UNCHANGED exec
  \/ CallExit(p)
  \/ mode = "up" /\ Idle(p) /\ Panic(p)

CallClose(p) ==
  /\ fd[p] # None /\ Alone(p)
  /\ fd' = [fd EXCEPT ![p] = None]
  /\ Enter(p, <<Task("close", fd[p].sector, 0)>>)
  /\ UNCHANGED exec

\* A new process opens its executable to deny writes to it, and load() opens
\* it again, reads it and closes it.
CallExec(p, n) ==
  /\ fd[p] = None /\ exec[p] = None /\ Alone(p)
  /\ Enter(p, FilesysOpen(n) \o <<Do("deny")>> \o FilesysOpen(n)
              \o <<Do("header"), Do("loaded")>>)
  /\ UNCHANGED <<fd, exec>>

DenyWrite(p) ==
  /\ Is(p, "deny")
  /\ IF reg[p] = <<>> THEN UNCHANGED <<inode, exec>>
     ELSE /\ inode' = [inode EXCEPT ![reg[p][1]].deny = @ + 1]
          /\ exec' = [exec EXCEPT ![p] = reg[p][1]]
  /\ Then(p, <<>>)
  /\ UNCHANGED <<disk, cache, used, fd, leaked, fsLock, reg, miss, got, mode>>

\* load() reads the header and closes the file again.
Header(p) ==
  /\ Is(p, "header")
  /\ Then(p, IF reg[p] = <<>> THEN <<>>
             ELSE <<Task("read", reg[p][1], <<1, FALSE>>), Task("close", reg[p][1], 0)>>)
  /\ UNCHANGED <<disk, cache, used, inode, fd, exec, leaked, fsLock, reg, miss,
                 got, mode>>

\* The load went well, or did not and start_process() closes the file.
Loaded(p) ==
  /\ Is(p, "loaded")
  /\ \/ reg[p] # <<>> /\ Then(p, <<>>) /\ UNCHANGED <<inode, exec>>
     \/ exec[p] = None /\ Then(p, <<>>) /\ UNCHANGED <<inode, exec>>
     \/ exec[p] # None /\ Then(p, <<Task("close", exec[p], 0)>>) /\ AllowWrite(p)
  /\ Forget(p)
  /\ UNCHANGED <<disk, cache, used, fd, leaked, fsLock, miss, got, mode>>

\* sys_halt(): filesys_done() closes the free map file and does no more.
CallHalt(p) ==
  /\ "quiet" \in Assume => \A q \in Proc : Idle(q)
  /\ Enter(p, <<Task("close", FREE_MAP_SECTOR, 0), Do("off")>>)
  /\ UNCHANGED <<fd, exec>>

PowerOff(p) ==
  /\ Is(p, "off")
  /\ mode' = "off"
  /\ UNCHANGED <<disk, cache, used, inode, fd, exec, leaked, fsLock, todo, reg,
                 miss, got>>

\* filesys_init (false) after a reset: the free map file is opened and read.
BootCache == <<Entry(MapData, disk[MapData])>>
BootInode == [s \in Sector |->
                IF s = FREE_MAP_SECTOR
                THEN [Closed EXCEPT !.cnt = 1, !.loaded = TRUE, !.data = disk[s]]
                ELSE Closed]
Each(x) == [p \in Proc |-> x]
NoLeak  == [s \in FileSector |-> 0]

Boot ==
  /\ mode = "off" /\ mode' = "up"
  /\ cache' = BootCache /\ inode' = BootInode /\ used' = disk[MapData].used
  /\ fd' = Each(None) /\ exec' = Each(None) /\ leaked' = NoLeak
  /\ fsLock' = None
  /\ todo' = Each(<<>>) /\ reg' = Each(<<>>) /\ miss' = Each(NoMiss)
  /\ got' = Each(None)
  /\ LET named == {e[2] : e \in disk[RootData].entries} IN
     lost' = disk[MapData].used \
               ((0 .. 3) \cup UNION {{f} \cup ToSet(disk[f].direct) : f \in named})
  /\ UNCHANGED <<disk, calls>>

\* do_format() has written the two inodes, the map and an empty directory.
Formatted ==
  [s \in Sector |-> IF s = FREE_MAP_SECTOR THEN OnDisk(<<MapData>>, 1)
                    ELSE IF s = ROOT_DIR_SECTOR THEN OnDisk(<<RootData>>, 1)
                    ELSE IF s = MapData THEN Map(0 .. 3)
                    ELSE IF s = RootData THEN Dir({})
                    ELSE Data(CHOOSE v \in Val : v # Zero)]

Init ==
  /\ disk = Formatted
  /\ mode = "up"
  /\ cache = BootCache /\ inode = BootInode /\ used = disk[MapData].used
  /\ fd = Each(None) /\ exec = Each(None) /\ leaked = NoLeak
  /\ fsLock = None
  /\ todo = Each(<<>>) /\ reg = Each(<<>>) /\ miss = Each(NoMiss)
  /\ got = Each(None)
  /\ calls = 0 /\ lost = {}

\* A panicked kernel stays where it is, and processes may want no more.
Rest ==
  /\ mode = "panic" \/ (mode = "up" /\ calls = MaxCalls /\ \A p \in Proc : Idle(p))
  /\ UNCHANGED vars

Call(p) ==
  /\ calls < MaxCalls /\ calls' = calls + 1 /\ UNCHANGED lost
  /\ \/ \E n \in Name : \/ CallRemove(p, n) \/ CallOpen(p, n) \/ CallExec(p, n)
                        \/ \E len \in 0 .. MaxLen : CallCreate(p, n, len)
     \/ CallRead(p) \/ CallClose(p) \/ CallExit(p) \/ CallHalt(p)
     \/ \E v \in Val \ {Zero} : CallWrite(p, v)
     \/ \E k \in 0 .. MaxLen : CallSeek(p, k)

Step(p) ==
  /\ UNCHANGED calls
  /\ \/ Unique(p)
     \/ /\ \/ Miss(p) \/ Evict(p) \/ MapWrite(p) \/ FreeMapRelease(p)
           \/ InodeOpen(p) \/ InodeLoad(p) \/ InodeClose(p) \/ Flush(p)
           \/ FilesysCreate(p) \/ SectorAllocate(p) \/ ZeroSector(p) \/ InodeCreate(p)
           \/ ReadAt(p) \/ ReadBlock(p) \/ WriteAt(p) \/ PutBlock(p)
           \/ DirectAllocate(p) \/ SetLength(p) \/ WriteInode(p)
           \/ Lookup(p) \/ Find(p) \/ Erase(p) \/ DirWrite(p)
           \/ NewFd(p) \/ Lock(p) \/ Unlock(p) \/ DenyWrite(p) \/ Header(p) \/ Loaded(p)
           \/ PowerOff(p)
        /\ UNCHANGED lost

Next == (\E p \in Proc : Call(p) \/ Step(p)) \/ Boot \/ Rest

Spec == Init /\ [][Next]_vars

-----------------------------------------------------------------------------
\* Types; the cache never outgrows its size by more than the misses that are
\* being served.
TypeOK ==
  /\ \A s \in Sector : disk[s] \in Contents
  /\ \A i \in DOMAIN cache : cache[i].sector \in Sector /\ cache[i].data \in Contents
  /\ Len(cache) <= CacheSize + Cardinality(Proc)
  /\ used \subseteq Sector
  /\ \A s \in Sector : inode[s].cnt \in Nat /\ inode[s].deny \in 0 .. inode[s].cnt
  /\ fsLock \in Proc \cup {None}
  /\ mode \in {"up", "off", "panic"}

\* The files that exist, and the inode of each.
InDir == Logical(RootData).entries
File  == {e[2] : e \in InDir} \cup {s \in FileSector : inode[s].cnt > 0}
InodeOf(f) == IF inode[f].loaded THEN inode[f].data ELSE disk[f]
Owned(f) == <<f>> \o SubSeq(InodeOf(f).direct, 1, InodeOf(f).length)

\* No two files share a sector, no file has one twice, and the free map knows
\* that they are taken, whatever was created, removed, grown, leaked or lost
\* by a reset before; between calls every sector taken is a file's or lost.
SectorsOwned ==
  mode = "up" =>
    /\ \A f \in File : /\ ToSet(Owned(f)) \subseteq used \ (lost \cup 0 .. 3)
                       /\ IsInjective(Owned(f))
    /\ \A f, g \in File : f # g => ToSet(Owned(f)) \cap ToSet(Owned(g)) = {}
    /\ (\A p \in Proc : Idle(p)) =>
         used = (0 .. 3) \cup lost \cup UNION {ToSet(Owned(f)) : f \in File}

\* Between calls an inode counts its handles, those that exits have leaked
\* included, and denies writes just for the running executables; no handle on
\* a directory is left over.
CountsExact ==
  (mode = "up" /\ \A p \in Proc : Idle(p)) =>
    /\ inode[ROOT_DIR_SECTOR] = Closed
    /\ \A f \in FileSector :
         /\ inode[f].cnt = leaked[f] + Cardinality({p \in Proc : exec[p] = f})
              + Cardinality({p \in Proc : fd[p] # None /\ fd[p].sector = f})
         /\ inode[f].deny = Cardinality({p \in Proc : exec[p] = f})

\* The file system as module FileStore describes it.
names  == [n \in Name |-> IF \E e \in InDir : e[1] = n
                          THEN (CHOOSE e \in InDir : e[1] = n)[2] ELSE None]
blocks == [f \in File |-> [i \in 1 .. InodeOf(f).length |->
                             Logical(InodeOf(f).direct[i]).data]]
opens  == [f \in FileSector |-> inode[f].cnt]
denied == [f \in FileSector |-> inode[f].deny]

Store == INSTANCE FileStore WITH File <- FileSector

\* Files keep what was written to them, removed files live as long as they are
\* open, an executable is not written to, and what was closed survives a reset.
FilesSpec == Store!StoreSpec

\* A directory has one entry for a name: filesys_create() "Fails if a file
\* named NAME already exists".
NamesUnique == \A e, f \in InDir : e[1] = f[1] => e = f
=============================================================================
