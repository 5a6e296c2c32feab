-------------------------------- MODULE Alloc -------------------------------
(***************************************************************************)
(* The page allocator of threads/palloc.c and the block allocator of       *)
(* threads/malloc.c on top of it.                                          *)
(*                                                                         *)
(* Pages are taken from the bitmap of a pool under its lock, one bit at a  *)
(* time, and given back without the lock, while others scan.  Blocks are   *)
(* cut from arenas, pages whose header names a descriptor, under the lock  *)
(* of the descriptor.  The locks are those of module Synch, reduced to     *)
(* their holders.                                                          *)
(*                                                                         *)
(* One pool is modelled: the kernel and the user pool share nothing.       *)
(***************************************************************************)
EXTENDS Integers, Sequences, FiniteSets

CONSTANTS Thread,
          PageCnt,         \* pages in the pool
          Desc,            \* descriptors
          BlocksPerArena,  \* the same for every descriptor here
          BigPages,        \* sizes, in pages, of what is asked for in pages
          None

ASSUME AllocAssumption ==
  /\ PageCnt \in Nat \ {0} /\ BlocksPerArena \in Nat \ {0}
  /\ BigPages \subseteq Nat \ {0}
  /\ None \notin Thread \cup Desc /\ Desc \cap {"client", "big", "junk"} = {}

Page == 0 .. PageCnt - 1

VARIABLES used,      \* used_map
          poolLock,  \* holder of the lock of the pool
          kind, cnt, \* what is at the start of each page: desc and free_cnt of
                     \* struct arena, or "client" data, or the "junk" of 0xcc
          freeList,  \* free_list of every descriptor
          descLock,  \* holder of the lock of every descriptor
          local,     \* what each thread does, and its local variables
          owned,     \* the memory that has been returned to each thread
          panic      \* an ASSERT has failed

vars == <<used, poolLock, kind, cnt, freeList, descLock, local, owned, panic>>

\* Memory: block idx of the arena on a page, or n whole pages (idx = -1).
Block(p, i) == [page |-> p, idx |-> i, n |-> 1]
Pages(p, n) == [page |-> p, idx |-> -1, n |-> n]

NoMem == [page |-> 0, idx |-> -1, n |-> 0]

\* mem is what a thread is getting or giving back, old the block realloc()
\* is to replace.  i and j are the start of a group of bits and the bit in it.
Local(label, for, d, n) ==
  [at |-> label, for |-> for, desc |-> d, n |-> n, i |-> 0, j |-> 0,
   mem |-> NoMem, old |-> NoMem]

InCode == Local("code", "client", None, 0)

Does(t, label) == ~panic /\ local[t].at = label
Goto(t, label) == [local EXCEPT ![t].at = label]

Blocks(t) == {mem \in owned[t] : mem.idx # -1}

Span(p, n) == p .. p + n - 1

\* block_to_arena(): the ASSERTs on the header of the arena.
IsArena(p, d) == kind[p] = d

\* list_remove() of the blocks of the arena on page p.
Without(q, p) ==
  LET F[i \in 0 .. Len(q)] ==
        IF i = 0 THEN <<>>
        ELSE IF q[i].page = p THEN F[i - 1] ELSE Append(F[i - 1], q[i])
  IN  F[Len(q)]

-----------------------------------------------------------------------------
\* palloc_get_multiple(), for a client.
CallGetPages(t, n) ==
  /\ Does(t, "code")
  /\ local' = [local EXCEPT ![t] = Local("plock", "client", None, n)]
  /\ UNCHANGED <<used, poolLock, kind, cnt, freeList, descLock, owned, panic>>

\* Mutant: the pool is not locked.
PoolLockNot(t) ==
  /\ Does(t, "plock")
  /\ local' = Goto(t, "scan")
  /\ UNCHANGED <<used, poolLock, kind, cnt, freeList, descLock, owned, panic>>

PoolLock(t) ==
  /\ Does(t, "plock") /\ poolLock = None
  /\ poolLock' = t
  /\ local' = Goto(t, "scan")
  /\ UNCHANGED <<used, kind, cnt, freeList, descLock, owned, panic>>

\* bitmap_scan(): one test of a bit.
Scan(t) ==
  /\ Does(t, "scan")
  /\ LET l == local[t] IN
     local' = [local EXCEPT ![t] =
       IF l.i + l.n > PageCnt    THEN [l EXCEPT !.at = "punlock"]
       ELSE IF used[l.i + l.j]   THEN [l EXCEPT !.i = @ + 1, !.j = 0]
       ELSE IF l.j + 1 < l.n     THEN [l EXCEPT !.j = @ + 1]
       ELSE [l EXCEPT !.at = "flip", !.j = 0]]
  /\ UNCHANGED <<used, poolLock, kind, cnt, freeList, descLock, owned, panic>>

\* bitmap_set_multiple (..., true): one bit.
Flip(t) ==
  /\ Does(t, "flip")
  /\ LET l == local[t] IN
     /\ used' = [used EXCEPT ![l.i + l.j] = TRUE]
     /\ local' = [local EXCEPT ![t] =
          IF l.j + 1 < l.n THEN [l EXCEPT !.j = @ + 1]
          ELSE [l EXCEPT !.at = "punlock", !.mem = Pages(l.i, l.n)]]
  /\ UNCHANGED <<poolLock, kind, cnt, freeList, descLock, owned, panic>>

\* Mutant: a request that finds no pages returns with the pool locked.
PoolUnlockFound(t) ==
  /\ Does(t, "punlock")
  /\ poolLock' = IF local[t].mem = NoMem THEN poolLock ELSE None
  /\ local' = Goto(t, "got")
  /\ UNCHANGED <<used, kind, cnt, freeList, descLock, owned, panic>>

PoolUnlock(t) ==
  /\ Does(t, "punlock")
  /\ poolLock' = None
  /\ local' = Goto(t, "got")
  /\ UNCHANGED <<used, kind, cnt, freeList, descLock, owned, panic>>

\* The pages go to the client, who writes to them.
GotPages(t) ==
  /\ Does(t, "got") /\ local[t].for = "client"
  /\ LET mem == local[t].mem IN
     /\ kind' = [p \in Page |->
                   IF p \in Span(mem.page, mem.n) THEN "client" ELSE kind[p]]
     /\ owned' = [owned EXCEPT ![t] = @ \cup ({mem} \ {NoMem})]
  /\ local' = [local EXCEPT ![t] = InCode]
  /\ UNCHANGED <<used, poolLock, cnt, freeList, descLock, panic>>

-----------------------------------------------------------------------------
\* malloc(), or realloc() of the block old; d is the smallest descriptor whose
\* blocks are large enough.
CallMalloc(t, d, old) ==
  /\ Does(t, "code") /\ old \in Blocks(t) \cup {NoMem}
  /\ local' = [local EXCEPT ![t] =
                 [Local("dlock", "arena", d, 1) EXCEPT !.old = old]]
  /\ UNCHANGED <<used, poolLock, kind, cnt, freeList, descLock, owned, panic>>

\* malloc() of more than a descriptor has blocks for.
CallMallocBig(t, n, old) ==
  /\ Does(t, "code") /\ old \in Blocks(t) \cup {NoMem}
  /\ local' = [local EXCEPT ![t] =
                 [Local("plock", "big", None, n) EXCEPT !.old = old]]
  /\ UNCHANGED <<used, poolLock, kind, cnt, freeList, descLock, owned, panic>>

\* The client gets its block; realloc() has copied old, which is freed next.
Deliver(t, mem) ==
  /\ owned' = [owned EXCEPT ![t] = @ \cup ({mem} \ {NoMem})]
  /\ local' = [local EXCEPT ![t] =
       IF mem = NoMem \/ local[t].old = NoMem THEN InCode
       ELSE [InCode EXCEPT !.at = "free", !.mem = local[t].old]]

GotBig(t) ==
  /\ Does(t, "got") /\ local[t].for = "big"
  /\ LET mem == local[t].mem IN
     IF mem = NoMem
     THEN Deliver(t, NoMem) /\ UNCHANGED <<kind, cnt>>
     ELSE /\ kind' = [p \in Page |->
                IF p = mem.page THEN "big"
                ELSE IF p \in Span(mem.page, mem.n) THEN "client" ELSE kind[p]]
          /\ cnt' = [cnt EXCEPT ![mem.page] = mem.n]
          /\ Deliver(t, Block(mem.page, 0))
  /\ UNCHANGED <<used, poolLock, freeList, descLock, panic>>

DescLock(t) ==
  /\ Does(t, "dlock") /\ descLock[local[t].desc] = None
  /\ descLock' = [descLock EXCEPT ![local[t].desc] = t]
  /\ local' = Goto(t, IF freeList[local[t].desc] = <<>> THEN "plock" ELSE "take")
  /\ UNCHANGED <<used, poolLock, kind, cnt, freeList, owned, panic>>

\* A new arena: all its blocks join the free list.
GotArena(t) ==
  /\ Does(t, "got") /\ local[t].for = "arena"
  /\ LET p == local[t].mem.page  d == local[t].desc IN
     IF local[t].mem = NoMem
     THEN local' = Goto(t, "dunlock") /\ UNCHANGED <<kind, cnt, freeList>>
     ELSE /\ kind' = [kind EXCEPT ![p] = d]
          /\ cnt' = [cnt EXCEPT ![p] = BlocksPerArena]
          /\ freeList' = [freeList EXCEPT ![d] = @ \o
               [k \in 1 .. BlocksPerArena |-> Block(p, k - 1)]]
          /\ local' = Goto(t, "take")
  /\ UNCHANGED <<used, poolLock, descLock, owned, panic>>

\* Mutant: the block at the head of the free list stays there.
TakeKeep(t) ==
  /\ Does(t, "take")
  /\ LET d == local[t].desc  b == Head(freeList[d]) IN
     /\ panic' = ~IsArena(b.page, d)
     /\ cnt' = [cnt EXCEPT ![b.page] = @ - 1]
     /\ local' = [local EXCEPT ![t].at = "dunlock", ![t].mem = b]
  /\ UNCHANGED <<used, poolLock, kind, freeList, descLock, owned>>

Take(t) ==
  /\ Does(t, "take")
  /\ LET d == local[t].desc  b == Head(freeList[d]) IN
     /\ panic' = ~IsArena(b.page, d)
     /\ freeList' = [freeList EXCEPT ![d] = Tail(@)]
     /\ cnt' = [cnt EXCEPT ![b.page] = @ - 1]
     /\ local' = [local EXCEPT ![t].at = "dunlock", ![t].mem = b]
  /\ UNCHANGED <<used, poolLock, kind, descLock, owned>>

DescUnlock(t) ==
  /\ Does(t, "dunlock")
  /\ descLock' = [descLock EXCEPT ![local[t].desc] = None]
  /\ IF local[t].for = "arena" THEN Deliver(t, local[t].mem)
     ELSE local' = [local EXCEPT ![t] = InCode] /\ UNCHANGED owned
  /\ UNCHANGED <<used, poolLock, kind, cnt, freeList, panic>>

-----------------------------------------------------------------------------
\* free() of a block, or palloc_free_multiple() of whole pages.
CallFree(t, mem) ==
  /\ Does(t, "code") /\ mem \in owned[t]
  /\ local' = [local EXCEPT ![t] = [InCode EXCEPT !.at = "free", !.mem = mem]]
  /\ UNCHANGED <<used, poolLock, kind, cnt, freeList, descLock, owned, panic>>

\* Mutant: of a big block only the first page is given back.
FreeOne(t) ==
  /\ Does(t, "free")
  /\ LET mem == local[t].mem  p == mem.page IN
     /\ owned' = [owned EXCEPT ![t] = @ \ {mem}]
     /\ local' = [local EXCEPT ![t] =
          IF mem.idx = -1 \/ kind[p] = "big"
          THEN [InCode EXCEPT !.at = "fill", !.mem = Pages(p, 1)]
          ELSE [Local("flock", "free", kind[p], 1) EXCEPT !.mem = mem]]
     /\ panic' = (mem.idx # -1 /\ kind[p] \notin Desc \cup {"big"})
  /\ UNCHANGED <<used, poolLock, kind, cnt, freeList, descLock>>

\* The header of the arena says what kind of block it is and who has it.
Free(t) ==
  /\ Does(t, "free")
  /\ LET mem == local[t].mem  p == mem.page IN
     /\ owned' = [owned EXCEPT ![t] = @ \ {mem}]
     /\ local' = [local EXCEPT ![t] =
          IF mem.idx = -1 THEN [InCode EXCEPT !.at = "fill", !.mem = mem]
          ELSE IF kind[p] = "big"
          THEN [InCode EXCEPT !.at = "fill", !.mem = Pages(p, cnt[p])]
          ELSE [Local("flock", "free", kind[p], 1) EXCEPT !.mem = mem]]
     /\ panic' = (mem.idx # -1 /\ kind[p] \notin Desc \cup {"big"})
  /\ UNCHANGED <<used, poolLock, kind, cnt, freeList, descLock>>

FreeLock(t) ==
  /\ Does(t, "flock") /\ descLock[local[t].desc] = None
  /\ descLock' = [descLock EXCEPT ![local[t].desc] = t]
  /\ local' = Goto(t, "put")
  /\ UNCHANGED <<used, poolLock, kind, cnt, freeList, owned, panic>>

\* Mutant: the blocks of an arena that goes back stay on the free list.
PutKeep(t) ==
  /\ Does(t, "put")
  /\ LET mem == local[t].mem  d == local[t].desc  p == mem.page IN
     /\ cnt' = [cnt EXCEPT ![p] = @ + 1]
     /\ freeList' = [freeList EXCEPT ![d] = <<mem>> \o @]
     /\ IF cnt[p] + 1 >= BlocksPerArena
        THEN local' = [local EXCEPT ![t].at = "fill", ![t].mem = Pages(p, 1)]
        ELSE local' = Goto(t, "dunlock")
  /\ UNCHANGED <<used, poolLock, kind, descLock, owned, panic>>

\* The block joins the free list.  An arena without a block in use goes back to
\* the pool, and its blocks leave the list.
Put(t) ==
  /\ Does(t, "put")
  /\ LET mem == local[t].mem  d == local[t].desc  p == mem.page IN
     /\ cnt' = [cnt EXCEPT ![p] = @ + 1]
     /\ IF cnt[p] + 1 >= BlocksPerArena
        THEN /\ panic' = (cnt[p] + 1 # BlocksPerArena)
             /\ freeList' = [freeList EXCEPT ![d] = Without(@, p)]
             /\ local' = [local EXCEPT ![t].at = "fill", ![t].mem = Pages(p, 1)]
        ELSE /\ freeList' = [freeList EXCEPT ![d] = <<mem>> \o @]
             /\ local' = Goto(t, "dunlock")
             /\ UNCHANGED panic
  /\ UNCHANGED <<used, poolLock, kind, descLock, owned>>

\* palloc_free_multiple(): the pages are filled with 0xcc, and the ASSERT is
\* that all of them are in use.
Fill(t) ==
  /\ Does(t, "fill")
  /\ LET mem == local[t].mem IN
     /\ kind' = [p \in Page |->
                   IF p \in Span(mem.page, mem.n) THEN "junk" ELSE kind[p]]
     /\ cnt' = [p \in Page |->
                  IF p \in Span(mem.page, mem.n) THEN 0 ELSE cnt[p]]
     /\ panic' = (\E p \in Span(mem.page, mem.n) : ~used[p])
  /\ local' = Goto(t, "clear")
  /\ UNCHANGED <<used, poolLock, freeList, descLock, owned>>

\* bitmap_set_multiple (..., false): one bit, without the lock of the pool.
Clear(t) ==
  /\ Does(t, "clear")
  /\ LET l == local[t] IN
     /\ used' = [used EXCEPT ![l.mem.page + l.j] = FALSE]
     /\ local' = [local EXCEPT ![t] =
          IF l.j + 1 < l.mem.n THEN [l EXCEPT !.j = @ + 1]
          ELSE IF l.for = "free" THEN [l EXCEPT !.at = "dunlock"]
          ELSE InCode]
  /\ UNCHANGED <<poolLock, kind, cnt, freeList, descLock, owned, panic>>

-----------------------------------------------------------------------------
Init ==
  /\ used = [p \in Page |-> FALSE]
  /\ poolLock = None
  /\ kind = [p \in Page |-> "junk"]
  /\ cnt = [p \in Page |-> 0]
  /\ freeList = [d \in Desc |-> <<>>]
  /\ descLock = [d \in Desc |-> None]
  /\ local = [t \in Thread |-> InCode]
  /\ owned = [t \in Thread |-> {}]
  /\ panic = FALSE

Call(t) ==
  \/ \E n \in BigPages :
       \/ CallGetPages(t, n)
       \/ \E old \in Blocks(t) \cup {NoMem} : CallMallocBig(t, n, old)
  \/ \E d \in Desc, old \in Blocks(t) \cup {NoMem} : CallMalloc(t, d, old)
  \/ \E mem \in owned[t] : CallFree(t, mem)

Step(t) ==
  \/ PoolLock(t) \/ Scan(t) \/ Flip(t) \/ PoolUnlock(t)
  \/ GotPages(t) \/ GotBig(t) \/ GotArena(t)
  \/ DescLock(t) \/ Take(t) \/ DescUnlock(t)
  \/ Free(t) \/ FreeLock(t) \/ Put(t) \/ Fill(t) \/ Clear(t)

Next == \E t \in Thread : Call(t) \/ Step(t)

\* A thread that can go on does so in the end.  What keeps one from going on is a lock
\* that another holds.  lock_release() hands it to nobody, it wakes a waiter that may
\* find the lock taken again: a waiter gets it for certain only if it stays free.
Fairness == \A t \in Thread : WF_vars(Step(t))

Spec == Init /\ [][Next]_vars
FairSpec == Spec /\ Fairness

-----------------------------------------------------------------------------
Mem == [page: Page, idx: -1 .. BlocksPerArena - 1, n: 0 .. PageCnt]

TypeOK ==
  /\ used \in [Page -> BOOLEAN]
  /\ poolLock \in Thread \cup {None}
  /\ kind \in [Page -> Desc \cup {"client", "big", "junk"}]
  /\ cnt \in [Page -> Nat]
  /\ freeList \in [Desc -> Seq(Mem)]
  /\ descLock \in [Desc -> Thread \cup {None}]
  /\ \A t \in Thread :
       local[t] \in [at: {"code", "plock", "scan", "flip", "punlock", "got",
                           "dlock", "take", "dunlock", "free", "flock", "put",
                           "fill", "clear"},
                      for: {"client", "big", "arena", "free"},
                      desc: Desc \cup {None}, n: Nat, i: Nat, j: Nat,
                      mem: Mem, old: Mem]
  /\ \A t \in Thread : owned[t] \subseteq Mem
  /\ panic \in BOOLEAN

\* The pages a client has whole, and those a block keeps in use.
PagesOf(mem) ==
  Span(mem.page, IF mem.idx # -1 /\ kind[mem.page] = "big" THEN cnt[mem.page]
                                                           ELSE mem.n)

Overlap(a, b) ==
  /\ PagesOf(a) \cap PagesOf(b) # {}
  /\ a.idx = -1 \/ b.idx = -1 \/ kind[a.page] = "big" \/ a.idx = b.idx

\* No two pieces of memory that clients have overlap, and neither allocator
\* has written to one of them since it was handed out.
Exclusive ==
  /\ \A t, u \in Thread : \A a \in owned[t], b \in owned[u] :
        Overlap(a, b) => t = u /\ a = b
  /\ \A t \in Thread : \A mem \in owned[t] :
        IF mem.idx = -1 THEN \A p \in PagesOf(mem) : kind[p] = "client"
                        ELSE kind[mem.page] \in Desc \cup {"big"}

\* Every block of an arena is on the free list, once, or with one client or on
\* its way back; free_cnt counts the former; and an arena with no block in
\* use is not kept.  The ASSERTs of palloc_free_multiple(), free() and
\* block_to_arena() hold.
ArenaExact ==
  ~panic /\ \A d \in Desc : descLock[d] = None =>
    /\ \A k \in DOMAIN freeList[d] : kind[freeList[d][k].page] = d
    /\ \A p \in Page : kind[p] = d =>
         LET free   == {k \in DOMAIN freeList[d] : freeList[d][k].page = p}
             inUse  == {b \in UNION {owned[t] : t \in Thread} : b.page = p}
             coming == {t \in Thread : local[t].at = "flock"
                                        /\ local[t].mem.page = p}
         IN  /\ cnt[p] = Cardinality(free) /\ cnt[p] < BlocksPerArena
             /\ Cardinality(free) + Cardinality(inUse) + Cardinality(coming)
                  = BlocksPerArena
             /\ \A k \in free : freeList[d][k] \notin inUse

\* Pages that palloc.c is just handing out or taking back.
InTransit(t) ==
  LET l == local[t] IN
  IF l.at = "flip" THEN l.i .. l.i + l.j - 1
  ELSE IF l.at \in {"punlock", "got", "fill"} THEN Span(l.mem.page, l.mem.n)
  ELSE IF l.at = "clear" THEN l.mem.page + l.j .. l.mem.page + l.mem.n - 1
  ELSE {}

\* A page is marked used exactly while somebody has it: none is lost, and
\* none that is in use can be found free by a scan.
PagesAccounted ==
  \A p \in Page :
    used[p] <=> \/ \E t \in Thread : p \in InTransit(t)
                \/ \E t \in Thread : \E mem \in owned[t] : p \in PagesOf(mem)
                \/ kind[p] \in Desc

\* Another thread's call returns.
OtherReturns(t) ==
  \E u \in Thread \ {t} : local[u].at # "code" /\ local'[u].at = "code"

\* A call returns, whether or not there is memory, unless other threads' calls
\* return without end: these may take the lock before each time its waiter runs.
CallReturns ==
  \A t \in Thread :
    \/ local[t].at # "code" ~> local[t].at = "code"
    \/ []<><<OtherReturns(t)>>_vars
=============================================================================
