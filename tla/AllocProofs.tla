---------------------------- MODULE AllocProofs -----------------------------
(***************************************************************************)
(* The page and the block allocator, for any pool, any descriptors and any *)
(* number of threads.                                                      *)
(*                                                                         *)
(* AllocInv states, point by point, who has each page and each block.  A   *)
(* step of a thread changes only what is its own (Mine): the pages it is   *)
(* handing out or taking back, bits while it has the pool, lists whose     *)
(* lock it has.  OthersKept draws from this that the other threads are as  *)
(* they were, and Assemble says what is left to show: the parts for the    *)
(* thread itself, for the pages (DisjointStep, AccountedStep) and for the  *)
(* arenas (ArenasQuiet, ArenasMove).  Each action has a lemma that does.   *)
(*                                                                         *)
(* Without is recursive.  What it computes is found by way of the least    *)
(* index at which it would be wrong (Least).                               *)
(***************************************************************************)
EXTENDS Alloc, FiniteSetTheorems, SequenceTheorems, WellFoundedInduction, TLAPS

\* Every non-empty set of numbers has a least element.
LEMMA Least ==
  ASSUME NEW T \in SUBSET Nat, T # {} PROVE \E n \in T : \A m \in T : n <= m
<1> DEFINE I == {1 .. n : n \in T}
<1>1. \A n \in T : 1 .. n \in SUBSET Nat /\ IsFiniteSet(1 .. n)
  BY FS_Interval
<1>2. I \subseteq FiniteSubsetsOf(Nat) /\ I # {}
  BY <1>1 DEF FiniteSubsetsOf
<1>3. \E x \in I : \A y \in I : ~(<<y, x>> \in StrictSubsetOrdering(Nat))
  <2> HIDE DEF I
  <2> QED
    BY <1>2, WFMin, FS_StrictSubsetOrderingWellFounded
<1>4. PICK n \in T : \A m \in T : ~(<<1 .. m, 1 .. n>> \in StrictSubsetOrdering(Nat))
  BY <1>3
<1>5. \A m \in T : ~(1 .. m \subseteq 1 .. n /\ 1 .. m # 1 .. n)
  BY <1>1, <1>4 DEF StrictSubsetOrdering
<1>6. ASSUME NEW m \in T, m < n PROVE FALSE
  <2>1. 1 .. m \subseteq 1 .. n
    BY <1>6
  <2>2. n \in 1 .. n /\ n \notin 1 .. m
    BY <1>6
  <2> QED
    BY <2>1, <2>2, <1>5
<1> QED
  BY <1>6

\* f is the function by which Without is defined, up to n.
Filters(q, p, n, f) ==
  f = [i \in 0 .. n |->
         IF i = 0 THEN <<>>
         ELSE IF q[i].page = p THEN f[i - 1] ELSE Append(f[i - 1], q[i])]

\* The recursive definition in Without has a solution.
LEMMA FilterExists ==
  ASSUME NEW q, NEW p, NEW len \in Nat PROVE \E f : Filters(q, p, len, f)
<1> DEFINE T == {n \in Nat : ~\E f : Filters(q, p, n, f)}
<1>1. 0 \notin T
  <2>1. Filters(q, p, 0, [i \in 0 .. 0 |-> <<>>])
    BY DEF Filters
  <2> QED
    BY <2>1
<1>2. ASSUME NEW n \in Nat, n \notin T PROVE n + 1 \notin T
  <2>1. PICK f : Filters(q, p, n, f)
    BY <1>2
  <2> DEFINE g == [i \in 0 .. n + 1 |->
                     IF i <= n THEN f[i]
                     ELSE IF q[i].page = p THEN f[n] ELSE Append(f[n], q[i])]
  <2>2. ASSUME NEW i \in 0 .. n + 1
        PROVE g[i] = IF i = 0 THEN <<>>
                     ELSE IF q[i].page = p THEN g[i - 1] ELSE Append(g[i - 1], q[i])
    <3>1. CASE i = 0
      BY <2>1, <3>1 DEF Filters
    <3>2. CASE i \in 1 .. n
      <4>1. i - 1 \in 0 .. n
        BY <3>2
      <4>2. \A j \in 0 .. n :
              f[j] = IF j = 0 THEN <<>>
                     ELSE IF q[j].page = p THEN f[j - 1] ELSE Append(f[j - 1], q[j])
        BY <2>1 DEF Filters
      <4>3. i \in 0 .. n /\ i # 0 /\ i <= n
        BY <3>2
      <4> QED
        BY <3>2, <4>1, <4>2, <4>3
    <3>3. CASE i = n + 1
      BY <3>3
    <3> QED
      BY <3>1, <3>2, <3>3
  <2>3. Filters(q, p, n + 1, g)
    <3> HIDE DEF g
    <3>1. g = [i \in 0 .. n + 1 |-> g[i]]
      BY DEF g
    <3> QED
      BY <2>2, <3>1 DEF Filters
  <2> QED
    BY <2>3
<1>3. ASSUME T # {} PROVE FALSE
  <2>1. PICK n \in T : \A m \in T : n <= m
    BY <1>3, Least
  <2>2. n # 0 /\ n - 1 \in Nat /\ n - 1 \notin T /\ (n - 1) + 1 = n
    BY <1>1, <2>1
  <2> HIDE DEF T
  <2> QED
    BY <1>2, <2>1, <2>2
<1> QED
  BY <1>3

\* Without(q, p) is q without its blocks on page p, in any order and each once.
LEMMA WithoutFacts ==
  ASSUME NEW S, NEW q \in Seq(S), NEW p,
         \A j, k \in DOMAIN q : q[j] = q[k] => j = k
  PROVE  LET w == Without(q, p) IN
         /\ w \in Seq(S)
         /\ \A j, k \in DOMAIN w : w[j] = w[k] => j = k
         /\ \A b : (\E k \in DOMAIN w : w[k] = b)
                     <=> b.page # p /\ \E k \in DOMAIN q : q[k] = b
<1> DEFINE f == CHOOSE f : Filters(q, p, Len(q), f)
<1>0. Len(q) \in Nat /\ DOMAIN q = 1 .. Len(q)
  BY LenProperties
<1>1. Filters(q, p, Len(q), f)
  BY <1>0, FilterExists
<1>2. Without(q, p) = f[Len(q)]
  BY DEF Without, Filters
<1> HIDE DEF f
<1> DEFINE Good(i, w) ==
      /\ w \in Seq(S)
      /\ \A j, k \in 1 .. Len(w) : w[j] = w[k] => j = k
      /\ \A b : (\E k \in 1 .. Len(w) : w[k] = b)
                  <=> b.page # p /\ \E k \in 1 .. i : q[k] = b
<1>3. Good(0, <<>>)
  OBVIOUS
<1>4. ASSUME NEW i \in 1 .. Len(q), NEW w, Good(i - 1, w), q[i].page = p
      PROVE  Good(i, w)
  <2>1. 1 .. i = (1 .. i - 1) \cup {i}
    BY <1>0
  <2> QED
    BY <1>4, <2>1
<1>5. ASSUME NEW i \in 1 .. Len(q), NEW w, Good(i - 1, w), q[i].page # p
      PROVE  Good(i, Append(w, q[i]))
  <2> DEFINE v == Append(w, q[i])
  <2>1. 1 .. i = (1 .. i - 1) \cup {i} /\ q[i] \in S
    BY <1>0
  <2>2. w \in Seq(S) /\ Len(w) \in Nat
    BY <1>5
  <2>3. v \in Seq(S) /\ Len(v) = Len(w) + 1 /\ v[Len(w) + 1] = q[i]
    BY <2>1, <2>2
  <2>4. \A k \in 1 .. Len(w) : v[k] = w[k]
    BY <2>1, <2>2
  <2>5. 1 .. Len(v) = (1 .. Len(w)) \cup {Len(w) + 1}
    BY <2>2, <2>3
  <2>6. \A k \in 1 .. Len(w) : w[k] # q[i]
    BY <1>0, <1>5, SMTT(30)
  <2> HIDE DEF v
  <2>7. \A j, k \in 1 .. Len(v) : v[j] = v[k] => j = k
    BY <1>5, <2>3, <2>4, <2>5, <2>6
  <2>8. \A b : (\E k \in 1 .. Len(v) : v[k] = b)
                 <=> b = q[i] \/ \E k \in 1 .. Len(w) : w[k] = b
    BY <2>3, <2>4, <2>5
  <2>9. \A b : (\E k \in 1 .. Len(v) : v[k] = b)
                 <=> b.page # p /\ \E k \in 1 .. i : q[k] = b
    BY <1>5, <2>1, <2>8
  <2>10. Good(i, v)
    BY <2>3, <2>7, <2>9
  <2> QED
    BY <2>10 DEF v
<1> HIDE DEF Good
<1>6. /\ f[0] = <<>>
      /\ \A i \in 1 .. Len(q) :
           f[i] = IF q[i].page = p THEN f[i - 1] ELSE Append(f[i - 1], q[i])
  <2>1. \A i \in 0 .. Len(q) :
          f[i] = IF i = 0 THEN <<>>
                 ELSE IF q[i].page = p THEN f[i - 1] ELSE Append(f[i - 1], q[i])
    BY <1>1 DEF Filters
  <2> QED
    BY <1>0, <2>1
<1>7. ASSUME NEW i \in 1 .. Len(q), Good(i - 1, f[i - 1]) PROVE Good(i, f[i])
  BY <1>4, <1>5, <1>6, <1>7
<1> DEFINE T == {i \in 0 .. Len(q) : ~Good(i, f[i])}
<1>8. ASSUME T # {} PROVE FALSE
  <2>0. T \in SUBSET Nat
    BY <1>0
  <2>1. PICK n \in T : \A m \in T : n <= m
    BY <1>8, <2>0, Least
  <2>2. n \in 1 .. Len(q) /\ n - 1 \in 0 .. Len(q) /\ n - 1 \notin T
    BY <1>0, <1>3, <1>6, <2>1
  <2> QED
    BY <1>7, <2>1, <2>2
<1>9. Good(Len(q), f[Len(q)])
  BY <1>0, <1>8
<1>10. DOMAIN f[Len(q)] = 1 .. Len(f[Len(q)])
  BY <1>9 DEF Good
<1> QED
  BY <1>0, <1>2, <1>9, <1>10 DEF Good

-----------------------------------------------------------------------------

\* Where a thread can be, and where it is handling pages for a client or malloc().
Labels == {"code", "plock", "scan", "flip", "punlock", "got", "dlock", "take",
           "dunlock", "free", "flock", "put", "fill", "clear"}
Gets   == {"plock", "scan", "flip", "punlock", "got"}
Frame  == [at: Labels, for: {"client", "big", "arena", "free"},
           desc: Desc \cup {None}, n: Nat, i: Nat, j: Nat, mem: Mem, old: Mem]
Index  == 0 .. BlocksPerArena - 1

\* The variables, and that no ASSERT has failed.
Types ==
  /\ used \in [Page -> BOOLEAN]
  /\ poolLock \in Thread \cup {None}
  /\ kind \in [Page -> Desc \cup {"client", "big", "junk"}]
  /\ cnt \in [Page -> Nat]
  /\ freeList \in [Desc -> Seq(Mem)]
  /\ descLock \in [Desc -> Thread \cup {None}]
  /\ local \in [Thread -> Frame]
  /\ owned \in [Thread -> SUBSET Mem]
  /\ panic = FALSE

\* A thread between lock_acquire() and lock_release() of a descriptor.
InDesc(l) == \/ l.for = "arena" /\ l.at \in Gets \cup {"take", "dunlock"}
             \/ l.for = "free" /\ l.at # "flock"

\* The locks are with the threads that are between acquire and release.
Locks ==
  \A t \in Thread :
    /\ poolLock = t <=> local[t].at \in {"scan", "flip", "punlock"}
    /\ \A d \in Desc : descLock[d] = t <=> InDesc(local[t]) /\ local[t].desc = d

\* What the frame l of t holds at each point of the code.
FrameOK(t, l) ==
  /\ l.at = "code" => l = InCode
  /\ l.for \in {"arena", "free"} => l.desc \in Desc
  /\ l.at \in Gets => l.for # "free" /\ l.n >= 1 /\ (l.for = "arena" => l.n = 1)
  /\ l.at \in {"dlock", "take"} => l.for = "arena" /\ l.n = 1
  /\ l.at \in {"flock", "put"} => l.for = "free"
  /\ l.at = "dunlock" => l.for \in {"arena", "free"}
  /\ l.at \in {"fill", "clear"} => l.for \in {"client", "free"}
  /\ l.at = "free" => l.for = "client" /\ l.mem \in owned[t]
  /\ l.for = "free" => l.at \in {"flock", "put", "fill", "clear", "dunlock"}
  /\ l.at \in {"dlock", "plock", "flock", "put"} => l.i = 0 /\ l.j = 0
  /\ l.at \in {"dlock", "plock", "scan", "flip"} => l.mem = NoMem
  /\ l.at \in {"scan", "flip"} => l.j < l.n
  /\ l.at = "flip" => l.i + l.n <= PageCnt
  /\ l.at \in {"punlock", "got"} /\ l.mem # NoMem =>
       l.mem = Pages(l.mem.page, l.n) /\ l.mem.page + l.n <= PageCnt
  /\ l.at \in {"fill", "clear"} =>
       /\ l.mem = Pages(l.mem.page, l.mem.n) /\ l.mem.page + l.mem.n <= PageCnt
       /\ l.j < l.mem.n /\ (l.at = "fill" => l.j = 0) /\ (l.for = "free" => l.mem.n = 1)
  /\ l.old \in owned[t] \cup {NoMem} /\ (l.for \in {"client", "free"} => l.old = NoMem)

\* bitmap_scan(): the bits that have been tested are clear, and stay so until they
\* are set, for no one sets bits without the lock of the pool.
ScanOK(l) ==
  /\ l.at = "scan" /\ l.j # 0 => l.i + l.n <= PageCnt /\ \A k \in 0 .. l.j - 1 : ~used[l.i + k]
  /\ l.at = "flip" => \A k \in l.j .. l.n - 1 : ~used[l.i + k]

\* malloc() asks for an arena only while the list is empty, and takes a block only
\* while it is not.
ListOK(l) ==
  /\ l.for = "arena" /\ l.at \in Gets => freeList[l.desc] = <<>>
  /\ l.at = "take" => freeList[l.desc] # <<>>

\* A block on its way to the client, or back to the free list.
Moving(l) == \/ l.at \in {"flock", "put"}
             \/ l.at = "dunlock" /\ l.for = "arena" /\ l.mem # NoMem

IsBlock(b) == b = Block(b.page, b.idx) /\ b.page \in Page /\ b.idx \in Index

\* It is a block of an arena of the descriptor, and the client does not have it.
MovingOK(t, l) ==
  Moving(l) => IsBlock(l.mem) /\ kind[l.mem.page] = l.desc /\ l.mem \notin owned[t]

\* What a client has is not written to by the allocators, and the header of its
\* arena tells what it is.
OwnedOK(x) ==
  IF x.idx = -1
  THEN x.n >= 1 /\ x.page + x.n <= PageCnt /\ \A p \in Span(x.page, x.n) : kind[p] = "client"
  ELSE /\ IsBlock(x)
       /\ kind[x.page] \in Desc \cup {"big"}
       /\ kind[x.page] = "big" =>
            /\ x.idx = 0 /\ cnt[x.page] >= 1 /\ x.page + cnt[x.page] <= PageCnt
            /\ \A p \in Span(x.page, cnt[x.page]) \ {x.page} : kind[p] = "client"

\* Pages in transit are what their handling has made of them.
TransitOK(t) ==
  \A p \in InTransit(t) :
    kind[p] \in IF local[t].at # "fill" THEN {"junk"}
                ELSE IF local[t].for = "free" THEN {local[t].desc} ELSE {"client", "big"}

\* Memory that takes pages of its own, and the pages that t has: in transit, or as
\* such memory.
Whole(x) == x.idx = -1 \/ kind[x.page] = "big"
Covers(t, x, p) == \/ x = NoMem /\ p \in InTransit(t)
                   \/ x \in owned[t] /\ Whole(x) /\ p \in PagesOf(x)

\* A page belongs to one thread, for one reason.
Disjoint ==
  \A p \in Page, t, u \in Thread, x, y \in Mem :
    Covers(t, x, p) /\ Covers(u, y, p) => t = u /\ x = y

\* A page in use belongs to somebody or is an arena; a free one is filled.
Accounted(p) ==
  /\ used[p] <=> kind[p] \in Desc \/ \E t \in Thread, x \in Mem : Covers(t, x, p)
  /\ ~used[p] => kind[p] = "junk"

\* An arena that goes back to the pool but still has its header, and the others.
Dies(l, p) == l.at = "fill" /\ l.for = "free" /\ l.mem.page = p
Lives(p) == kind[p] \in Desc /\ \A t \in Thread : ~Dies(local[t], p)

\* The blocks a thread has, or is moving; those on a list; and the numbers of those
\* of one arena.
Has(t, b) == b \in owned[t] \/ (Moving(local[t]) /\ local[t].mem = b)
Listed(d, b) == \E k \in DOMAIN freeList[d] : freeList[d][k] = b
FreeIdx(p) == {i \in Index : Listed(kind[p], Block(p, i))}

\* A free list holds blocks of arenas of its descriptor, each once.
ListsOK ==
  \A d \in Desc : \A j, k \in DOMAIN freeList[d] :
    /\ freeList[d][j] = freeList[d][k] => j = k
    /\ IsBlock(freeList[d][k]) /\ kind[freeList[d][k].page] = d

\* Each block of an arena is on the list or with one thread, and none is either once
\* the arena goes back; free_cnt counts those on the list; all are there only while
\* the thread that made the arena is about to take one.
ArenaOK(p) ==
  /\ kind[p] \in Desc => \A i \in Index :
       /\ \A t, u \in Thread : Has(t, Block(p, i)) /\ Has(u, Block(p, i)) => t = u
       /\ Listed(kind[p], Block(p, i)) => \A t \in Thread : ~Has(t, Block(p, i))
       /\ IF Lives(p) THEN \/ Listed(kind[p], Block(p, i))
                           \/ \E t \in Thread : Has(t, Block(p, i))
          ELSE ~Listed(kind[p], Block(p, i)) /\ \A t \in Thread : ~Has(t, Block(p, i))
  /\ Lives(p) =>
       /\ cnt[p] = Cardinality(FreeIdx(p))
       /\ FreeIdx(p) = Index =>
            \E t \in Thread : /\ local[t].at = "take" /\ local[t].desc = kind[p]
                              /\ Head(freeList[kind[p]]).page = p

\* The inductive invariant.
AllocInv ==
  /\ Types /\ Locks
  /\ \A t \in Thread :
       /\ FrameOK(t, local[t]) /\ ScanOK(local[t]) /\ ListOK(local[t])
       /\ MovingOK(t, local[t]) /\ TransitOK(t)
       /\ \A x \in owned[t] : OwnedOK(x)
  /\ Disjoint /\ ListsOK
  /\ \A p \in Page : Accounted(p) /\ ArenaOK(p)

-----------------------------------------------------------------------------
\* What the assumptions on the constants give.
LEMMA NoMemTypes == NoMem \in Mem /\ 0 \in Page /\ PageCnt \in Nat /\ BlocksPerArena \in Nat
  BY AllocAssumption DEF NoMem, Mem, Page

\* A step of t that gives it the frame l.
LEMMA LocalTypes ==
  ASSUME Types, NEW t \in Thread, NEW l \in Frame, local' = [local EXCEPT ![t] = l]
  PROVE  /\ local' \in [Thread -> Frame] /\ local'[t] = l
         /\ \A u \in Thread \ {t} : local'[u] = local[u]
  BY DEF Types

\* A step of t that gives it the label.
LEMMA GotoTypes ==
  ASSUME Types, NEW t \in Thread, NEW label \in Labels, local' = Goto(t, label)
  PROVE  /\ local' \in [Thread -> Frame]
         /\ local'[t] = [local[t] EXCEPT !.at = label]
         /\ \A u \in Thread \ {t} : local'[u] = local[u]
<1>1. [local[t] EXCEPT !.at = label] \in Frame
  BY DEF Types, Frame
<1>2. local' = [local EXCEPT ![t] = [local[t] EXCEPT !.at = label]]
  BY DEF Goto
<1> QED
  BY <1>1, <1>2, LocalTypes

\* The fields of a piece of memory.
LEMMA MemTypes ==
  ASSUME NEW m \in Mem
  PROVE  m.page \in Page /\ m.page \in Nat /\ m.idx \in Int /\ m.n \in Nat
<1>1. m.page \in Page /\ m.idx \in -1 .. BlocksPerArena - 1 /\ m.n \in 0 .. PageCnt
  BY DEF Mem
<1> QED
  BY <1>1, NoMemTypes DEF Page

\* The fields of a frame.
LEMMA FrameTypes ==
  ASSUME Types, NEW t \in Thread
  PROVE  LET l == local[t] IN
         /\ l \in Frame /\ l.at \in Labels /\ l.desc \in Desc \cup {None}
         /\ l.for \in {"client", "big", "arena", "free"}
         /\ l.n \in Nat /\ l.i \in Nat /\ l.j \in Nat /\ l.mem \in Mem /\ l.old \in Mem
         /\ l.mem.page \in Nat /\ l.mem.n \in Nat
  BY MemTypes DEF Types, Frame

\* What a thread hands out or takes back is in the pool.
LEMMA InTransitPages ==
  ASSUME AllocInv, NEW t \in Thread PROVE InTransit(t) \subseteq Page
<1> DEFINE l == local[t]
<1>1. /\ l \in Frame /\ FrameOK(t, l)
      /\ l.mem.page \in Nat /\ l.mem.n \in Nat /\ l.i \in Nat /\ l.j \in Nat /\ l.n \in Nat
  BY FrameTypes DEF AllocInv
<1>2. CASE l.at = "flip"
  BY <1>1, <1>2, NoMemTypes DEF FrameOK, InTransit, Page
<1>3. CASE l.at \in {"punlock", "got"} /\ l.mem = NoMem
  BY <1>1, <1>3, NoMemTypes DEF FrameOK, InTransit, Page, Span, NoMem
<1>4. CASE l.at \in {"punlock", "got"} /\ l.mem # NoMem
  <2>1. l.mem.n = l.n /\ l.mem.page + l.n <= PageCnt
    BY <1>1, <1>4 DEF FrameOK, Pages
  <2> QED
    BY <1>1, <1>4, <2>1, NoMemTypes DEF InTransit, Page, Span
<1>5. CASE l.at \in {"fill", "clear"}
  <2>1. l.mem.page + l.mem.n <= PageCnt
    BY <1>1, <1>5 DEF FrameOK
  <2> QED
    BY <1>1, <1>5, <2>1, NoMemTypes DEF InTransit, Page, Span
<1>6. CASE l.at \notin {"flip", "punlock", "got", "fill", "clear"}
  BY <1>6 DEF InTransit
<1> QED
  BY <1>2, <1>3, <1>4, <1>5, <1>6

-----------------------------------------------------------------------------
\* A piece of memory that a thread has lies in the pool.
LEMMA OwnedPages ==
  ASSUME AllocInv, NEW u \in Thread, NEW x \in owned[u]
  PROVE  x \in Mem /\ x.page \in Page /\ x # NoMem /\ x.page \in PagesOf(x)
         /\ PagesOf(x) \subseteq Page
<1>1. x \in Mem /\ OwnedOK(x) /\ x.page \in Page /\ x.page \in Nat /\ x.n \in Nat
  BY MemTypes DEF AllocInv, Types
<1>2. CASE x.idx = -1
  BY <1>1, <1>2, NoMemTypes DEF OwnedOK, PagesOf, Span, Page, NoMem
<1>3. CASE x.idx # -1 /\ kind[x.page] = "big"
  <2>1. cnt[x.page] \in Nat
    BY <1>1 DEF AllocInv, Types
  <2>2. cnt[x.page] >= 1 /\ x.page + cnt[x.page] <= PageCnt
    BY <1>1, <1>3 DEF OwnedOK
  <2>3. x # NoMem
    BY <1>3 DEF NoMem
  <2> QED
    BY <1>1, <1>3, <2>1, <2>2, <2>3, NoMemTypes DEF PagesOf, Span, Page
<1>4. CASE x.idx # -1 /\ kind[x.page] # "big"
  <2>1. x.n = 1
    BY <1>1, <1>4 DEF OwnedOK, IsBlock, Block
  <2>2. x # NoMem
    BY <1>4 DEF NoMem
  <2> QED
    BY <1>1, <1>4, <2>1, <2>2, NoMemTypes DEF PagesOf, Span, Page
<1> QED
  BY <1>2, <1>3, <1>4

\* Blocks of arenas are where the invariant says.
LEMMA BlockTypes ==
  ASSUME NEW b, IsBlock(b)
  PROVE  b.idx \in Index /\ b.page \in Page /\ b = Block(b.page, b.idx)
         /\ b.idx # -1 /\ b \in Mem /\ b # NoMem /\ b.n = 1
<1>1. b.idx \in Index /\ b.page \in Page /\ b = Block(b.page, b.idx)
  BY DEF IsBlock
<1>2. b.idx \in 0 .. BlocksPerArena - 1 /\ BlocksPerArena \in Nat /\ PageCnt \in Nat \ {0}
  BY <1>1, AllocAssumption DEF Index
<1>3. b.idx # -1 /\ b.n = 1
  BY <1>1, <1>2 DEF Block
<1>4. Block(b.page, b.idx) \in Mem
  BY <1>1, <1>2 DEF Block, Mem
<1> QED
  BY <1>1, <1>3, <1>4 DEF NoMem

\* The name of a descriptor is none of the other kinds of a page.
LEMMA KindsDiffer ==
  "client" \notin Desc /\ "big" \notin Desc /\ "junk" \notin Desc
  BY AllocAssumption

\* A page that palloc.c is handing out or taking back has no owner, no block on
\* a free list and no block on its way there.
LEMMA Apart ==
  ASSUME AllocInv, NEW t \in Thread, NEW p \in InTransit(t)
  PROVE  /\ p \in Page
         /\ \A u \in Thread : \A x \in owned[u] : p \notin PagesOf(x)
         /\ \A u \in Thread : Moving(local[u]) => local[u].mem.page # p
         /\ \A u \in Thread \ {t} : p \notin InTransit(u)
         /\ \A d \in Desc : \A k \in DOMAIN freeList[d] : freeList[d][k].page # p
         /\ kind[p] \in Desc => ~Lives(p)
<1>1. p \in Page /\ Covers(t, NoMem, p) /\ NoMem \in Mem
  BY InTransitPages, NoMemTypes DEF Covers
<1>2. \A u \in Thread \ {t} : p \notin InTransit(u)
  BY <1>1 DEF AllocInv, Disjoint, Covers
<1>3. TransitOK(t) /\ ArenaOK(p) /\ FrameOK(t, local[t]) /\ Disjoint
  BY <1>1 DEF AllocInv
<1>4. kind[p] \in Desc => Dies(local[t], p)
  <2>1. SUFFICES ASSUME kind[p] \in Desc PROVE Dies(local[t], p)
    OBVIOUS
  <2>2. local[t].at = "fill" /\ local[t].for = "free"
    BY <1>3, <2>1, KindsDiffer DEF TransitOK
  <2>3. local[t].mem.n = 1 /\ local[t].mem.page \in Nat
    BY <1>3, <2>2, FrameTypes DEF FrameOK, AllocInv
  <2>4. p \in Span(local[t].mem.page, local[t].mem.n)
    BY <2>2 DEF InTransit
  <2> QED
    BY <2>2, <2>3, <2>4 DEF Span, Dies
<1>5. kind[p] \in Desc => ~Lives(p)
  BY <1>4 DEF Lives
<1>6. ASSUME NEW b, IsBlock(b), b.page = p, kind[p] \in Desc
      PROVE  ~Listed(kind[p], b) /\ \A u \in Thread : ~Has(u, b)
  BY <1>3, <1>5, <1>6, BlockTypes DEF ArenaOK
<1>7. ASSUME NEW u \in Thread, NEW x \in owned[u], p \in PagesOf(x) PROVE FALSE
  <2>1. x \in Mem /\ x # NoMem /\ OwnedOK(x)
    BY OwnedPages DEF AllocInv
  <2>2. ~Whole(x)
    BY <1>1, <1>3, <1>7, <2>1 DEF Disjoint, Covers
  <2>3. IsBlock(x) /\ kind[x.page] \in Desc
    BY <2>1, <2>2 DEF Whole, OwnedOK
  <2>4. x.page = p
    <3>1. x.n = 1 /\ x.page \in Nat
      BY <2>1, <2>3, BlockTypes, MemTypes
    <3> QED
      BY <1>7, <2>2, <3>1 DEF Whole, PagesOf, Span
  <2> QED
    BY <1>6, <2>3, <2>4 DEF Has
<1>8. ASSUME NEW u \in Thread, Moving(local[u]), local[u].mem.page = p PROVE FALSE
  <2>1. /\ MovingOK(u, local[u]) /\ FrameOK(u, local[u])
        /\ local[u].for \in {"arena", "free"}
    BY <1>8 DEF AllocInv, FrameOK, Moving
  <2>2. IsBlock(local[u].mem) /\ kind[p] \in Desc
    BY <1>8, <2>1 DEF MovingOK, FrameOK
  <2> QED
    BY <1>6, <1>8, <2>2 DEF Has
<1>9. ASSUME NEW d \in Desc, NEW k \in DOMAIN freeList[d], freeList[d][k].page = p
      PROVE  FALSE
  <2>1. IsBlock(freeList[d][k]) /\ kind[p] = d
    BY <1>9 DEF AllocInv, ListsOK
  <2> QED
    BY <1>6, <1>9, <2>1 DEF Listed
<1> QED
  BY <1>1, <1>2, <1>5, <1>7, <1>8, <1>9

-----------------------------------------------------------------------------
\* t changes only what is its own: the pages it is handing out or taking back,
\* bits that are clear while it has the pool, and lists whose lock it has.
Mine(t) ==
  /\ \A u \in Thread \ {t} : local'[u] = local[u] /\ owned'[u] = owned[u]
  /\ \A p \in Page \ InTransit(t) :
       kind'[p] = kind[p] /\ (kind[p] = "big" => cnt'[p] = cnt[p])
  /\ \A p \in Page : used'[p] => used[p] \/ poolLock = t
  /\ \A d \in Desc : freeList'[d] = freeList[d] \/ descLock[d] = t

\* What a thread keeps over a step is as it was.
LEMMA OwnedKept ==
  ASSUME AllocInv, NEW t \in Thread, Mine(t), NEW u \in Thread,
         NEW x \in owned[u], x \in owned'[u]
  PROVE  /\ PagesOf(x)' = PagesOf(x) /\ Whole(x)' <=> Whole(x)
         /\ OwnedOK(x)'
         /\ \A p \in Page : Covers(u, x, p)' <=> Covers(u, x, p)
<1>1. /\ x \in Mem /\ x.page \in Page /\ x # NoMem /\ x.page \in PagesOf(x)
      /\ PagesOf(x) \subseteq Page
  BY OwnedPages
<1>2. \A p \in PagesOf(x) : p \in Page \ InTransit(t)
  BY <1>1, Apart
<1>3. /\ \A p \in PagesOf(x) : kind'[p] = kind[p]
      /\ kind[x.page] = "big" => cnt'[x.page] = cnt[x.page]
  BY <1>1, <1>2 DEF Mine
<1>4. PagesOf(x)' = PagesOf(x)
  BY <1>1, <1>3 DEF PagesOf
<1>5. Whole(x)' <=> Whole(x)
  BY <1>1, <1>3 DEF Whole
<1>6. \A p \in Page : Covers(u, x, p)' <=> Covers(u, x, p)
  BY <1>1, <1>4, <1>5 DEF Covers
<1>7. OwnedOK(x)'
  <2>1. OwnedOK(x) /\ x.page \in Nat
    BY <1>1, MemTypes DEF AllocInv
  <2>2. CASE x.idx = -1
    <3>1. \A p \in Span(x.page, x.n) : kind'[p] = kind[p]
      BY <1>3, <2>2 DEF PagesOf
    <3> QED
      BY <2>1, <2>2, <3>1 DEF OwnedOK
  <2>3. CASE x.idx # -1 /\ kind[x.page] = "big"
    <3>1. \A p \in Span(x.page, cnt[x.page]) : kind'[p] = kind[p]
      BY <1>3, <2>3 DEF PagesOf
    <3>2. kind'[x.page] = "big" /\ cnt'[x.page] = cnt[x.page]
      BY <1>1, <1>3, <2>3
    <3> QED
      BY <2>1, <2>3, <3>1, <3>2 DEF OwnedOK
  <2>4. CASE x.idx # -1 /\ kind[x.page] # "big"
    BY <1>1, <1>3, <2>1, <2>4 DEF OwnedOK
  <2> QED
    BY <2>2, <2>3, <2>4
<1> QED
  BY <1>4, <1>5, <1>6, <1>7

\* The other threads are as they were.
LEMMA OthersKept ==
  ASSUME AllocInv, NEW t \in Thread, Mine(t), NEW u \in Thread \ {t}
  PROVE  /\ FrameOK(u, local[u])' /\ ScanOK(local[u])' /\ ListOK(local[u])'
         /\ MovingOK(u, local[u])' /\ TransitOK(u)'
         /\ \A x \in owned'[u] : OwnedOK(x)'
         /\ \A x \in Mem, p \in Page : Covers(u, x, p)' <=> Covers(u, x, p)
         /\ \A b : Has(u, b)' <=> Has(u, b)
<1>1. /\ FrameOK(u, local[u]) /\ ScanOK(local[u]) /\ ListOK(local[u])
      /\ MovingOK(u, local[u]) /\ TransitOK(u) /\ Locks /\ Types
  BY DEF AllocInv
<1>2. local'[u] = local[u] /\ owned'[u] = owned[u]
  BY DEF Mine
<1>3. FrameOK(u, local[u])'
  BY <1>1, <1>2 DEF FrameOK
<1>4. ScanOK(local[u])'
  <2>1. CASE poolLock = t
    <3>1. poolLock # u
      BY <2>1
    <3>2. local[u].at \notin {"scan", "flip", "punlock"}
      BY <1>1, <3>1 DEF Locks
    <3> QED
      BY <1>2, <3>2 DEF ScanOK
  <2>2. CASE poolLock # t
    <3>1. \A p \in Page : used'[p] => used[p]
      BY <2>2 DEF Mine
    <3>2. /\ local[u].i \in Nat /\ local[u].j \in Nat /\ local[u].n \in Nat
          /\ local[u].at \in {"scan", "flip"} => local[u].j < local[u].n
          /\ local[u].at = "flip" => local[u].i + local[u].n <= PageCnt
      BY <1>1, FrameTypes DEF FrameOK
    <3>3. ASSUME local[u].at = "scan", local[u].j # 0
          PROVE  /\ local[u].i + local[u].n <= PageCnt
                 /\ \A k \in 0 .. local[u].j - 1 : ~used'[local[u].i + k]
      <4>1. /\ local[u].i + local[u].n <= PageCnt
            /\ \A k \in 0 .. local[u].j - 1 : ~used[local[u].i + k]
        BY <1>1, <3>3 DEF ScanOK
      <4>2. \A k \in 0 .. local[u].j - 1 : local[u].i + k \in Page
        BY <3>2, <3>3, <4>1, NoMemTypes DEF Page
      <4> QED
        BY <3>1, <4>1, <4>2
    <3>4. ASSUME local[u].at = "flip"
          PROVE  \A k \in local[u].j .. local[u].n - 1 : ~used'[local[u].i + k]
      <4>1. \A k \in local[u].j .. local[u].n - 1 : ~used[local[u].i + k]
        BY <1>1, <3>4 DEF ScanOK
      <4>2. \A k \in local[u].j .. local[u].n - 1 : local[u].i + k \in Page
        BY <3>2, <3>4, NoMemTypes DEF Page
      <4> QED
        BY <3>1, <4>1, <4>2
    <3> QED
      BY <1>2, <3>3, <3>4 DEF ScanOK
  <2> QED
    BY <2>1, <2>2
<1>5. ListOK(local[u])'
  <2>1. SUFFICES ASSUME InDesc(local[u]) PROVE ListOK(local[u])'
    BY <1>1, <1>2 DEF ListOK, InDesc, FrameOK, Gets
  <2>2. local[u].desc \in Desc
    BY <1>1, <2>1 DEF FrameOK, InDesc
  <2>3. descLock[local[u].desc] = u
    BY <1>1, <2>1, <2>2 DEF Locks
  <2>4. freeList'[local[u].desc] = freeList[local[u].desc]
    BY <2>2, <2>3 DEF Mine
  <2> QED
    BY <1>1, <1>2, <2>4 DEF ListOK
<1>6. MovingOK(u, local[u])'
  <2>1. SUFFICES ASSUME Moving(local[u]) PROVE MovingOK(u, local[u])'
    BY <1>2 DEF MovingOK
  <2>2. IsBlock(local[u].mem) /\ local[u].mem.page \in Page \ InTransit(t)
    BY <1>1, <2>1, Apart, BlockTypes DEF MovingOK
  <2>3. kind'[local[u].mem.page] = kind[local[u].mem.page]
    BY <2>2 DEF Mine
  <2> QED
    BY <1>1, <1>2, <2>1, <2>2, <2>3 DEF MovingOK
<1>7. InTransit(u)' = InTransit(u)
  BY <1>2 DEF InTransit
<1>8. TransitOK(u)'
  <2>1. \A p \in InTransit(u) : p \in Page \ InTransit(t)
    BY InTransitPages, Apart
  <2>2. \A p \in InTransit(u) : kind'[p] = kind[p]
    BY <2>1 DEF Mine
  <2> QED
    BY <1>1, <1>2, <1>7, <2>2 DEF TransitOK
<1>9. \A x \in owned'[u] : OwnedOK(x)'
  BY <1>2, OwnedKept
<1>10. ASSUME NEW x \in Mem, NEW p \in Page
       PROVE  Covers(u, x, p)' <=> Covers(u, x, p)
  <2>1. CASE x \in owned[u]
    BY <1>2, <2>1, OwnedKept
  <2>2. CASE x \notin owned[u]
    BY <1>2, <1>7, <2>2 DEF Covers
  <2> QED
    BY <2>1, <2>2
<1>11. \A b : Has(u, b)' <=> Has(u, b)
  BY <1>2 DEF Has, Moving
<1> QED
  BY <1>3, <1>4, <1>5, <1>6, <1>8, <1>9, <1>10, <1>11

\* t has the page.
Covered(t, p) == \E x \in Mem : Covers(t, x, p)

\* The pages that t has after its step it has had before, or nobody had.
LEMMA DisjointStep ==
  ASSUME AllocInv, NEW t \in Thread, Mine(t),
         \A p \in Page, x, y \in Mem : Covers(t, x, p)' /\ Covers(t, y, p)' => x = y,
         \A p \in Page : Covered(t, p)' =>
           Covered(t, p) \/ \A u \in Thread : ~Covered(u, p)
  PROVE  Disjoint'
<1>1. \A u \in Thread \ {t} : \A x \in Mem, p \in Page :
        Covers(u, x, p)' <=> Covers(u, x, p)
  BY OthersKept
<1>2. ASSUME NEW p \in Page, NEW u \in Thread \ {t}, NEW x \in Mem, NEW y \in Mem,
             Covers(t, x, p)', Covers(u, y, p)'
      PROVE  FALSE
  <2>1. Covered(t, p)' /\ Covered(u, p)
    BY <1>1, <1>2 DEF Covered
  <2>2. Covered(t, p)
    BY <2>1
  <2> QED
    BY <2>1, <2>2 DEF Covered, AllocInv, Disjoint
<1>3. ASSUME NEW p \in Page, NEW u \in Thread, NEW v \in Thread, NEW x \in Mem,
             NEW y \in Mem, Covers(u, x, p)', Covers(v, y, p)'
      PROVE  u = v /\ x = y
  <2>1. CASE u = t /\ v = t
    BY <1>3, <2>1
  <2>2. CASE u = t /\ v # t
    BY <1>2, <1>3, <2>2
  <2>3. CASE u # t /\ v = t
    BY <1>2, <1>3, <2>3
  <2>4. CASE u # t /\ v # t
    <3>1. Covers(u, x, p) /\ Covers(v, y, p)
      BY <1>1, <1>3, <2>4
    <3> QED
      BY <3>1 DEF AllocInv, Disjoint
  <2> QED
    BY <2>1, <2>2, <2>3, <2>4
<1> QED
  BY <1>3 DEF Disjoint

\* Accounted, with who has the page and why left open.
AccountedFor(p) ==
  /\ used[p] <=> kind[p] \in Desc \/ \E t \in Thread : Covered(t, p)
  /\ ~used[p] => kind[p] = "junk"

\* A page stays accounted for when nothing about it changes, when it is in use
\* and somebody has it, and when t marks it free and has it no more.
LEMMA AccountedStep ==
  ASSUME AllocInv, NEW t \in Thread, Mine(t), NEW p \in Page,
         \/ /\ used'[p] = used[p] /\ (kind'[p] \in Desc <=> kind[p] \in Desc)
            /\ Covered(t, p)' <=> Covered(t, p)
            /\ kind[p] = "junk" => kind'[p] = "junk" \/ used[p]
         \/ used'[p] = TRUE /\ (kind'[p] \in Desc \/ Covered(t, p)')
         \/ /\ used'[p] = FALSE /\ kind'[p] = "junk"
            /\ Covered(t, p) /\ ~Covered(t, p)'
  PROVE  Accounted(p)'
<1>1. \A u \in Thread \ {t} : Covered(u, p)' <=> Covered(u, p)
  BY OthersKept DEF Covered
<1>2. AccountedFor(p) /\ Types
  BY DEF AllocInv, Accounted, AccountedFor, Covered
<1>3. Covered(t, p) => \A u \in Thread \ {t} : ~Covered(u, p)
  BY DEF Covered, AllocInv, Disjoint
<1>4. AccountedFor(p)'
  <2>1. CASE /\ used'[p] = used[p] /\ (kind'[p] \in Desc <=> kind[p] \in Desc)
             /\ Covered(t, p)' <=> Covered(t, p)
             /\ kind[p] = "junk" => kind'[p] = "junk" \/ used[p]
    <3>1. (\E u \in Thread : Covered(u, p)') <=> \E u \in Thread : Covered(u, p)
      BY <1>1, <2>1
    <3> QED
      BY <1>2, <2>1, <3>1 DEF AccountedFor
  <2>2. CASE used'[p] = TRUE /\ (kind'[p] \in Desc \/ Covered(t, p)')
    BY <2>2 DEF AccountedFor
  <2>3. CASE /\ used'[p] = FALSE /\ kind'[p] = "junk"
             /\ Covered(t, p) /\ ~Covered(t, p)'
    <3>1. \A u \in Thread : ~Covered(u, p)'
      BY <1>1, <1>3, <2>3
    <3> QED
      BY <2>3, <3>1, KindsDiffer DEF AccountedFor
  <2> QED
    BY <2>1, <2>2, <2>3
<1> QED
  BY <1>4 DEF AccountedFor, Accounted, Covered

\* Steps that neither hand out nor take back a page.
LEMMA PagesQuiet ==
  ASSUME AllocInv, NEW t \in Thread, Mine(t), used' = used, kind' = kind,
         \A x \in Mem, p \in Page : Covers(t, x, p)' <=> Covers(t, x, p)
  PROVE  Disjoint' /\ \A p \in Page : Accounted(p)'
<1>1. \A p \in Page : Covered(t, p)' <=> Covered(t, p)
  BY DEF Covered
<1>2. \A p \in Page, x, y \in Mem : Covers(t, x, p)' /\ Covers(t, y, p)' => x = y
  BY DEF AllocInv, Disjoint
<1>3. Disjoint'
  BY <1>1, <1>2, DisjointStep
<1>4. \A p \in Page : Accounted(p)'
  BY <1>1, AccountedStep
<1> QED
  BY <1>3, <1>4

\* Steps that move no block of an arena to or from a list or a thread.
LEMMA ArenasQuiet ==
  ASSUME AllocInv, NEW t \in Thread, Mine(t), freeList' = freeList,
         \A p \in Page : kind'[p] \in Desc =>
           /\ kind'[p] = kind[p] /\ cnt'[p] = cnt[p]
           /\ Dies(local'[t], p) <=> Dies(local[t], p),
         \A b : IsBlock(b) /\ kind[b.page] \in Desc => (Has(t, b)' <=> Has(t, b)),
         local[t].at # "take"
  PROVE  ListsOK' /\ \A p \in Page : ArenaOK(p)'
<1>1. ListsOK'
  <2>1. SUFFICES ASSUME NEW d \in Desc, NEW j \in DOMAIN freeList[d],
                        NEW k \in DOMAIN freeList[d]
                 PROVE  /\ freeList[d][j] = freeList[d][k] => j = k
                        /\ IsBlock(freeList[d][k]) /\ kind'[freeList[d][k].page] = d
    BY DEF ListsOK
  <2>2. /\ freeList[d][j] = freeList[d][k] => j = k
        /\ IsBlock(freeList[d][k]) /\ kind[freeList[d][k].page] = d
    BY DEF AllocInv, ListsOK
  <2>3. freeList[d][k].page \in Page \ InTransit(t)
    BY <2>2, BlockTypes, Apart
  <2> QED
    BY <2>2, <2>3 DEF Mine
<1>2. ASSUME NEW p \in Page, kind'[p] \in Desc PROVE ArenaOK(p)'
  <2>1. kind'[p] = kind[p] /\ cnt'[p] = cnt[p] /\ ArenaOK(p) /\ kind[p] \in Desc
    BY <1>2 DEF AllocInv
  <2>2. \A i \in Index : Listed(kind[p], Block(p, i))' <=> Listed(kind[p], Block(p, i))
    BY <2>1 DEF Listed
  <2>3. FreeIdx(p)' = FreeIdx(p)
    BY <2>1, <2>2 DEF FreeIdx
  <2>4. \A i \in Index, u \in Thread : Has(u, Block(p, i))' <=> Has(u, Block(p, i))
    <3>1. \A i \in Index : IsBlock(Block(p, i)) /\ Block(p, i).page = p
      BY DEF IsBlock, Block
    <3> QED
      BY <2>1, <3>1, OthersKept
  <2>5. Lives(p)' <=> Lives(p)
    BY <1>2, <2>1 DEF Lives, Mine
  <2>6. \A u \in Thread : local[u].at = "take" => local'[u] = local[u]
    BY DEF Mine
  <2>7. ASSUME NEW i \in Index
        PROVE  /\ \A v, u \in Thread : Has(v, Block(p, i))' /\ Has(u, Block(p, i))' => v = u
               /\ Listed(kind[p], Block(p, i))' => \A v \in Thread : ~Has(v, Block(p, i))'
               /\ IF Lives(p)' THEN \/ Listed(kind[p], Block(p, i))'
                                    \/ \E v \in Thread : Has(v, Block(p, i))'
                  ELSE /\ ~Listed(kind[p], Block(p, i))'
                       /\ \A v \in Thread : ~Has(v, Block(p, i))'
    BY <2>1, <2>2, <2>4, <2>5 DEF ArenaOK
  <2>8. Lives(p)' =>
          /\ cnt'[p] = Cardinality(FreeIdx(p)')
          /\ FreeIdx(p)' = Index =>
               \E u \in Thread : /\ local'[u].at = "take" /\ local'[u].desc = kind[p]
                                 /\ Head(freeList[kind[p]]).page = p
    BY <2>1, <2>3, <2>5, <2>6 DEF ArenaOK
  <2> QED
    BY <2>1, <2>7, <2>8 DEF ArenaOK
<1>3. ASSUME NEW p \in Page, kind'[p] \notin Desc PROVE ArenaOK(p)'
  BY <1>3 DEF ArenaOK, Lives
<1> QED
  BY <1>1, <1>2, <1>3

PoolLabels == {"scan", "flip", "punlock"}

\* Steps that take and release no lock.
LEMMA LocksSame ==
  ASSUME AllocInv, NEW t \in Thread, Mine(t), UNCHANGED <<poolLock, descLock>>,
         local'[t].at \in PoolLabels <=> local[t].at \in PoolLabels,
         InDesc(local'[t]) <=> InDesc(local[t]),
         InDesc(local[t]) => local'[t].desc = local[t].desc
  PROVE  Locks'
  BY DEF AllocInv, Locks, Mine, PoolLabels

\* What a step of t has still to show when it changes only what is its own.
MineOK(t) ==
  /\ FrameOK(t, local[t]) /\ ScanOK(local[t]) /\ ListOK(local[t])
  /\ MovingOK(t, local[t]) /\ TransitOK(t)
  /\ \A x \in owned[t] : OwnedOK(x)

\* The invariant after a step of t, from what t has to show.
LEMMA Assemble ==
  ASSUME AllocInv, NEW t \in Thread, Mine(t), Types', Locks', MineOK(t)',
         Disjoint', \A p \in Page : Accounted(p)',
         ListsOK', \A p \in Page : ArenaOK(p)'
  PROVE  AllocInv'
<1>1. \A u \in Thread \ {t} : MineOK(u)'
  BY OthersKept DEF MineOK
<1>2. \A u \in Thread : MineOK(u)'
  BY <1>1
<1> QED
  BY <1>2 DEF MineOK, AllocInv

-----------------------------------------------------------------------------
\* Steps that change the frame of a thread and, at most, who has a lock.
LEMMA EasyStep ==
  ASSUME AllocInv, NEW t \in Thread, NEW l \in Frame, local' = [local EXCEPT ![t] = l],
         UNCHANGED <<used, kind, cnt, freeList, owned, panic>>,
         poolLock' \in Thread \cup {None}, descLock' \in [Desc -> Thread \cup {None}],
         Locks', FrameOK(t, l), ScanOK(l), ListOK(l),
         Moving(l) <=> Moving(local[t]),
         Moving(l) => l.mem = local[t].mem /\ l.desc = local[t].desc,
         InTransit(t)' = InTransit(t),
         local[t].at \notin {"take", "fill"}, l.at # "fill"
  PROVE  AllocInv'
<1>1. /\ Types /\ local' \in [Thread -> Frame] /\ local'[t] = l
      /\ \A u \in Thread \ {t} : local'[u] = local[u]
  BY LocalTypes DEF AllocInv
<1>2. Types'
  BY <1>1 DEF Types
<1>3. Mine(t)
  BY <1>1 DEF Mine
<1>4. FrameOK(t, local[t])' /\ ScanOK(local[t])' /\ ListOK(local[t])'
  BY <1>1 DEF FrameOK, ScanOK, ListOK
<1>5. MovingOK(t, local[t])'
  <2>1. MovingOK(t, local[t])
    BY DEF AllocInv
  <2> QED
    BY <1>1, <2>1 DEF MovingOK
<1>6. TransitOK(t)'
  <2>1. TransitOK(t)
    BY DEF AllocInv
  <2> QED
    BY <1>1, <2>1 DEF TransitOK
<1>7. \A x \in owned'[t] : OwnedOK(x)'
  BY <1>3, OwnedKept
<1>8. \A x \in Mem, p \in Page : Covers(t, x, p)' <=> Covers(t, x, p)
  BY DEF Covers, Whole, PagesOf
<1>9. \A b : Has(t, b)' <=> Has(t, b)
  BY <1>1 DEF Has
<1>10. \A p \in Page : Dies(local'[t], p) <=> Dies(local[t], p)
  BY <1>1 DEF Dies
<1>11. Disjoint' /\ \A p \in Page : Accounted(p)'
  BY <1>3, <1>8, PagesQuiet
<1>12. ListsOK' /\ \A p \in Page : ArenaOK(p)'
  BY <1>3, <1>9, <1>10, ArenasQuiet
<1> QED
  BY <1>2, <1>3, <1>4, <1>5, <1>6, <1>7, <1>11, <1>12, Assemble DEF MineOK

\* A call.
LEMMA CallStep ==
  ASSUME AllocInv, NEW t \in Thread, Call(t) PROVE AllocInv'
<1>1. local[t] = InCode /\ ~Moving(InCode) /\ InTransit(t) = {} /\ FrameOK(t, local[t])
  <2>1. local[t].at = "code" /\ FrameOK(t, local[t])
    BY DEF Call, CallGetPages, CallMalloc, CallMallocBig, CallFree, Does, AllocInv
  <2> QED
    BY <2>1 DEF FrameOK, InCode, Local, Moving, InTransit
<1>2. /\ UNCHANGED <<used, kind, cnt, freeList, owned, panic, poolLock, descLock>>
      /\ Types /\ Locks /\ NoMem \in Mem /\ PageCnt \in Nat /\ owned[t] \subseteq Mem
      /\ poolLock' \in Thread \cup {None} /\ descLock' \in [Desc -> Thread \cup {None}]
  BY NoMemTypes DEF Call, CallGetPages, CallMalloc, CallMallocBig, CallFree, AllocInv, Types
<1>3. ASSUME NEW l \in Frame, local' = [local EXCEPT ![t] = l],
             l.at \in {"plock", "dlock", "free"}, FrameOK(t, l), ~InDesc(l)
      PROVE  AllocInv'
  <2>1. local'[t] = l /\ \A u \in Thread \ {t} : local'[u] = local[u]
    BY <1>2, <1>3, LocalTypes
  <2>2. Locks'
    BY <1>1, <1>2, <1>3, <2>1 DEF Locks, InDesc, InCode, Local
  <2>3. ~Moving(l) /\ InTransit(t)' = {} /\ ScanOK(l)
    BY <1>3, <2>1 DEF Moving, InTransit, ScanOK
  <2>4. ListOK(l)
    BY <1>3 DEF ListOK, InDesc
  <2>5. /\ Moving(l) <=> Moving(local[t])
        /\ InTransit(t)' = InTransit(t)
        /\ local[t].at \notin {"take", "fill"} /\ l.at # "fill"
    BY <1>1, <1>3, <2>3 DEF InCode, Local
  <2> QED
    BY <1>2, <1>3, <2>2, <2>3, <2>4, <2>5, EasyStep
<1>4. ASSUME NEW n \in BigPages, CallGetPages(t, n) PROVE AllocInv'
  <2> DEFINE l == Local("plock", "client", None, n)
  <2>1. n \in Nat /\ n >= 1
    BY AllocAssumption
  <2>2. l \in Frame /\ l.at = "plock"
    BY <1>2, <2>1 DEF Local, Frame, Labels
  <2>3. FrameOK(t, l) /\ ~InDesc(l)
    BY <2>1 DEF Local, FrameOK, InDesc, Gets
  <2>4. local' = [local EXCEPT ![t] = l]
    BY <1>4 DEF CallGetPages
  <2> QED
    BY <1>3, <2>2, <2>3, <2>4
<1>5. ASSUME NEW n \in BigPages, NEW old \in Blocks(t) \cup {NoMem},
             CallMallocBig(t, n, old)
      PROVE  AllocInv'
  <2> DEFINE l == [Local("plock", "big", None, n) EXCEPT !.old = old]
  <2>1. n \in Nat /\ n >= 1 /\ old \in owned[t] \cup {NoMem} /\ old \in Mem
    BY <1>2, AllocAssumption DEF Blocks
  <2>2. l \in Frame /\ l.at = "plock"
    BY <1>2, <2>1 DEF Local, Frame, Labels
  <2>3. FrameOK(t, l) /\ ~InDesc(l)
    BY <2>1 DEF Local, FrameOK, InDesc, Gets
  <2>4. local' = [local EXCEPT ![t] = l]
    BY <1>5 DEF CallMallocBig
  <2> QED
    BY <1>3, <2>2, <2>3, <2>4
<1>6. ASSUME NEW d \in Desc, NEW old \in Blocks(t) \cup {NoMem}, CallMalloc(t, d, old)
      PROVE  AllocInv'
  <2> DEFINE l == [Local("dlock", "arena", d, 1) EXCEPT !.old = old]
  <2>1. old \in owned[t] \cup {NoMem} /\ old \in Mem
    BY <1>2 DEF Blocks
  <2>2. l \in Frame /\ l.at = "dlock"
    BY <1>2, <2>1 DEF Local, Frame, Labels
  <2>3. FrameOK(t, l) /\ ~InDesc(l)
    BY <2>1 DEF Local, FrameOK, InDesc, Gets
  <2>4. local' = [local EXCEPT ![t] = l]
    BY <1>6 DEF CallMalloc
  <2> QED
    BY <1>3, <2>2, <2>3, <2>4
<1>7. ASSUME NEW mem \in owned[t], CallFree(t, mem) PROVE AllocInv'
  <2> DEFINE l == [InCode EXCEPT !.at = "free", !.mem = mem]
  <2>1. mem \in Mem
    BY <1>2
  <2>2. l \in Frame /\ l.at = "free"
    BY <1>2, <2>1 DEF InCode, Local, Frame, Labels
  <2>3. FrameOK(t, l) /\ ~InDesc(l)
    BY <2>1 DEF InCode, Local, FrameOK, InDesc, Gets
  <2>4. local' = [local EXCEPT ![t] = l]
    BY <1>7 DEF CallFree
  <2> QED
    BY <1>3, <2>2, <2>3, <2>4
<1> QED
  BY <1>4, <1>5, <1>6, <1>7 DEF Call

\* lock_acquire() of the pool.
LEMMA PoolLockStep ==
  ASSUME AllocInv, NEW t \in Thread, PoolLock(t) PROVE AllocInv'
<1> DEFINE l == [local[t] EXCEPT !.at = "scan"]
<1>1. /\ Types /\ Locks /\ FrameOK(t, local[t]) /\ ListOK(local[t])
      /\ local[t].at = "plock" /\ poolLock = None
      /\ UNCHANGED <<used, kind, cnt, freeList, owned, panic, descLock>>
      /\ poolLock' = t /\ local' = Goto(t, "scan")
  BY DEF PoolLock, Does, AllocInv
<1>2. /\ l \in Frame /\ l.at = "scan" /\ local' = [local EXCEPT ![t] = l]
      /\ l.for = local[t].for /\ l.desc = local[t].desc /\ l.n = local[t].n
      /\ l.i = local[t].i /\ l.j = local[t].j /\ l.mem = local[t].mem /\ l.old = local[t].old
  BY <1>1, FrameTypes DEF Goto, Frame, Labels, Types
<1> HIDE DEF l
<1>3. local'[t] = l /\ \A u \in Thread \ {t} : local'[u] = local[u]
  BY <1>1, <1>2, LocalTypes
<1>4. InDesc(l) <=> InDesc(local[t])
  BY <1>1, <1>2 DEF InDesc, Gets
<1>5. Locks'
  BY <1>1, <1>2, <1>3, <1>4, AllocAssumption DEF Locks
<1>6. FrameOK(t, l)
  <2>1. l.n \in Nat /\ l.n >= 1 /\ l.j = 0
    BY <1>1, <1>2, FrameTypes DEF FrameOK, Gets
  <2> QED
    BY <1>1, <1>2, <2>1 DEF FrameOK, Gets
<1>7. ScanOK(l) /\ ListOK(l)
  BY <1>1, <1>2 DEF FrameOK, ScanOK, ListOK, Gets
<1>8. /\ ~Moving(l) /\ ~Moving(local[t]) /\ InTransit(t)' = InTransit(t)
  BY <1>1, <1>2, <1>3 DEF Moving, InTransit
<1>9. poolLock' \in Thread \cup {None} /\ descLock' \in [Desc -> Thread \cup {None}]
  BY <1>1 DEF Types
<1> QED
  BY <1>1, <1>2, <1>5, <1>6, <1>7, <1>8, <1>9, EasyStep

\* One test of a bit.
LEMMA ScanStep ==
  ASSUME AllocInv, NEW t \in Thread, Scan(t) PROVE AllocInv'
<1> DEFINE m == local[t]
           l == IF m.i + m.n > PageCnt  THEN [m EXCEPT !.at = "punlock"]
                ELSE IF used[m.i + m.j] THEN [m EXCEPT !.i = @ + 1, !.j = 0]
                ELSE IF m.j + 1 < m.n   THEN [m EXCEPT !.j = @ + 1]
                ELSE [m EXCEPT !.at = "flip", !.j = 0]
<1>1. /\ Types /\ Locks /\ FrameOK(t, m) /\ ListOK(m) /\ ScanOK(m)
      /\ m.at = "scan" /\ PageCnt \in Nat
      /\ UNCHANGED <<used, kind, cnt, freeList, owned, panic, poolLock, descLock>>
      /\ local' = [local EXCEPT ![t] = l]
  BY NoMemTypes DEF Scan, Does, AllocInv
<1>2. m \in Frame /\ m.n \in Nat /\ m.i \in Nat /\ m.j \in Nat /\ m.j < m.n /\ m.mem = NoMem
  BY <1>1, FrameTypes DEF FrameOK
<1> DEFINE Next3 ==
      /\ l \in Frame /\ l.for = m.for /\ l.desc = m.desc /\ l.n = m.n
      /\ l.mem = m.mem /\ l.old = m.old /\ l.at \in {"scan", "flip", "punlock"}
      /\ l.j < l.n /\ l.j \in Nat
      /\ l.at = "flip" => /\ l.j = 0 /\ l.i = m.i /\ m.i + m.n <= PageCnt
                          /\ ~used[m.i + m.j] /\ m.j + 1 = m.n
      /\ l.at = "scan" /\ l.j # 0 =>
           m.i + m.n <= PageCnt /\ l.i = m.i /\ l.j = m.j + 1 /\ ~used[m.i + m.j]
<1>3. Next3
  <2>1. CASE m.i + m.n > PageCnt
    <3>1. l = [m EXCEPT !.at = "punlock"]
      BY <2>1
    <3> HIDE DEF l
    <3> QED
      BY <1>1, <1>2, <3>1 DEF Frame, Labels
  <2>2. CASE ~(m.i + m.n > PageCnt) /\ used[m.i + m.j]
    <3>1. l = [m EXCEPT !.i = @ + 1, !.j = 0]
      BY <2>2
    <3> HIDE DEF l, m
    <3>2. l \in Frame
      <4>1. m.i + 1 \in Nat
        BY <1>2
      <4>2. l = [m EXCEPT !.i = m.i + 1, !.j = 0]
        BY <1>2, <3>1 DEF Frame
      <4> QED
        BY <1>2, <4>1, <4>2 DEF Frame
    <3>3. l.at = "scan" /\ l.j = 0 /\ l.n = m.n /\ 0 < m.n
      BY <1>1, <1>2, <3>1 DEF Frame
    <3>4. l.for = m.for /\ l.desc = m.desc /\ l.mem = m.mem /\ l.old = m.old
      BY <1>2, <3>1 DEF Frame
    <3> QED
      BY <3>2, <3>3, <3>4
  <2>3. CASE ~(m.i + m.n > PageCnt) /\ ~used[m.i + m.j] /\ m.j + 1 < m.n
    <3>1. l = [m EXCEPT !.j = @ + 1]
      BY <2>3
    <3> HIDE DEF l
    <3> QED
      BY <1>1, <1>2, <2>3, <3>1 DEF Frame, Labels
  <2>4. CASE ~(m.i + m.n > PageCnt) /\ ~used[m.i + m.j] /\ ~(m.j + 1 < m.n)
    <3>1. l = [m EXCEPT !.at = "flip", !.j = 0]
      BY <2>4
    <3> HIDE DEF l, m
    <3>2. l \in Frame
      BY <1>2, <3>1 DEF Frame, Labels
    <3>3. l.at = "flip" /\ l.j = 0 /\ l.n = m.n /\ l.i = m.i
      BY <1>1, <1>2, <3>1 DEF Frame
    <3>4. l.for = m.for /\ l.desc = m.desc /\ l.mem = m.mem /\ l.old = m.old
      BY <1>2, <3>1 DEF Frame
    <3>5. 0 < m.n /\ m.i + m.n <= PageCnt /\ m.j + 1 = m.n
      BY <1>1, <1>2, <2>4
    <3> QED
      BY <2>4, <3>2, <3>3, <3>4, <3>5
  <2> QED
    BY <2>1, <2>2, <2>3, <2>4
<1>4. l.at = "scan" /\ l.j # 0 =>
        m.i + m.n <= PageCnt /\ l.i = m.i /\ l.j = m.j + 1 /\ ~used[m.i + m.j]
  BY <1>3
<1>5. l.at = "flip" => ~used[m.i + m.j] /\ m.j + 1 = m.n
  BY <1>3
<1>6. m.i + m.n <= PageCnt => \A k \in 0 .. m.j - 1 : ~used[m.i + k]
  BY <1>1, <1>2 DEF ScanOK
<1> HIDE DEF l, m
<1>7. ScanOK(l)
  <2>1. CASE l.at = "scan" /\ l.j # 0
    <3>1. l.j = m.j + 1 /\ m.j \in Nat
      BY <1>2, <1>4, <2>1
    <3>2. \A k \in 0 .. l.j - 1 : k \in 0 .. m.j - 1 \/ k = m.j
      BY <3>1
    <3> QED
      BY <1>3, <1>4, <1>6, <2>1, <3>2 DEF ScanOK
  <2>2. CASE l.at = "flip"
    <3>1. l.j = 0 /\ l.n = m.j + 1 /\ m.j \in Nat
      BY <1>2, <1>3, <1>5, <2>2
    <3>2. \A k \in l.j .. l.n - 1 : k \in 0 .. m.j - 1 \/ k = m.j
      BY <3>1
    <3> QED
      BY <1>3, <1>5, <1>6, <2>2, <3>2 DEF ScanOK
  <2> QED
    BY <1>3, <2>1, <2>2 DEF ScanOK
<1>8. FrameOK(t, l) /\ ListOK(l)
  BY <1>1, <1>2, <1>3 DEF FrameOK, ListOK, Gets
<1>9. local'[t] = l /\ \A u \in Thread \ {t} : local'[u] = local[u]
  BY <1>1, <1>3, LocalTypes
<1>10. InDesc(l) <=> InDesc(m)
  BY <1>1, <1>3 DEF InDesc, Gets
<1>11. Locks'
  BY <1>1, <1>3, <1>9, <1>10 DEF Locks, m
<1>12. InTransit(t) = {} /\ InTransit(t)' = {}
  BY <1>1, <1>2, <1>3, <1>9 DEF InTransit, m, Span, NoMem
<1>13. ~Moving(l) /\ ~Moving(m)
  BY <1>1, <1>3 DEF Moving
<1>14. poolLock' \in Thread \cup {None} /\ descLock' \in [Desc -> Thread \cup {None}]
  BY <1>1 DEF Types
<1> QED
  BY <1>1, <1>3, <1>7, <1>8, <1>11, <1>12, <1>13, <1>14, EasyStep DEF m

\* lock_release() of the pool.
LEMMA PoolUnlockStep ==
  ASSUME AllocInv, NEW t \in Thread, PoolUnlock(t) PROVE AllocInv'
<1> DEFINE l == [local[t] EXCEPT !.at = "got"]
<1>1. /\ Types /\ Locks /\ FrameOK(t, local[t]) /\ ListOK(local[t])
      /\ local[t].at = "punlock"
      /\ UNCHANGED <<used, kind, cnt, freeList, owned, panic, descLock>>
      /\ poolLock' = None /\ local' = Goto(t, "got")
  BY DEF PoolUnlock, Does, AllocInv
<1>2. /\ l \in Frame /\ l.at = "got" /\ local' = [local EXCEPT ![t] = l]
      /\ l.for = local[t].for /\ l.desc = local[t].desc /\ l.n = local[t].n
      /\ l.mem = local[t].mem /\ l.old = local[t].old
  BY <1>1, FrameTypes DEF Goto, Frame, Labels, Types
<1> HIDE DEF l
<1>3. local'[t] = l /\ \A u \in Thread \ {t} : local'[u] = local[u]
  BY <1>1, <1>2, LocalTypes
<1>4. InDesc(l) <=> InDesc(local[t])
  BY <1>1, <1>2 DEF InDesc, Gets
<1>5. Locks'
  BY <1>1, <1>2, <1>3, <1>4, AllocAssumption DEF Locks
<1>6. FrameOK(t, l)
  BY <1>1, <1>2 DEF FrameOK, Gets
<1>7. ScanOK(l) /\ ListOK(l)
  BY <1>1, <1>2 DEF ScanOK, ListOK, Gets
<1>8. /\ ~Moving(l) /\ ~Moving(local[t]) /\ InTransit(t)' = InTransit(t)
  BY <1>1, <1>2, <1>3 DEF Moving, InTransit
<1>9. poolLock' \in Thread \cup {None} /\ descLock' \in [Desc -> Thread \cup {None}]
  BY <1>1 DEF Types
<1> QED
  BY <1>1, <1>2, <1>5, <1>6, <1>7, <1>8, <1>9, EasyStep

\* lock_acquire() of a descriptor, in malloc() or in free().
LEMMA DescLockStep ==
  ASSUME AllocInv, NEW t \in Thread, DescLock(t) \/ FreeLock(t) PROVE AllocInv'
<1> DEFINE d == local[t].desc
           label == IF local[t].at = "flock" THEN "put"
                    ELSE IF freeList[d] = <<>> THEN "plock" ELSE "take"
           l == [local[t] EXCEPT !.at = label]
<1>1. /\ Types /\ Locks /\ FrameOK(t, local[t])
      /\ local[t].at \in {"dlock", "flock"} /\ descLock[d] = None
      /\ UNCHANGED <<used, kind, cnt, freeList, owned, panic, poolLock>>
      /\ descLock' = [descLock EXCEPT ![d] = t] /\ local' = Goto(t, label)
  BY DEF DescLock, FreeLock, Does, AllocInv
<1>2. /\ l \in Frame /\ l.at = label /\ local' = [local EXCEPT ![t] = l]
      /\ l.for = local[t].for /\ l.desc = d /\ l.n = local[t].n
      /\ l.i = local[t].i /\ l.j = local[t].j /\ l.mem = local[t].mem /\ l.old = local[t].old
  <2>1. local[t] \in Frame /\ label \in Labels
    BY <1>1, FrameTypes DEF Labels
  <2>2. local' = [local EXCEPT ![t] = l]
    BY <1>1 DEF Goto
  <2> HIDE DEF label
  <2> QED
    BY <2>1, <2>2 DEF Frame
<1> HIDE DEF l
<1>3. /\ l.at \in {"put", "plock", "take"} /\ (l.at = "put" <=> local[t].at = "flock")
      /\ l.at = "plock" => freeList[l.desc] = <<>>
      /\ l.at = "take" => freeList[l.desc] # <<>>
  <2>1. CASE local[t].at = "flock"
    BY <1>2, <2>1
  <2>2. CASE local[t].at # "flock" /\ freeList[d] = <<>>
    BY <1>2, <2>2
  <2>3. CASE local[t].at # "flock" /\ freeList[d] # <<>>
    BY <1>2, <2>3
  <2> QED
    BY <2>1, <2>2, <2>3
<1> HIDE DEF label
<1>4. local'[t] = l /\ \A u \in Thread \ {t} : local'[u] = local[u]
  BY <1>1, <1>2, LocalTypes
<1>5. d \in Desc /\ InDesc(l) /\ ~InDesc(local[t])
  BY <1>1, <1>2, <1>3 DEF InDesc, Gets, FrameOK
<1>6. /\ descLock' \in [Desc -> Thread \cup {None}] /\ descLock'[d] = t
      /\ \A e \in Desc \ {d} : descLock'[e] = descLock[e]
  BY <1>1, <1>5 DEF Types
<1>7. Locks'
  <2>1. ASSUME NEW u \in Thread, NEW e \in Desc
        PROVE  descLock'[e] = u <=> InDesc(local'[u]) /\ local'[u].desc = e
    <3>1. descLock[e] = u <=> InDesc(local[u]) /\ local[u].desc = e
      BY <1>1 DEF Locks
    <3> QED
      BY <1>1, <1>2, <1>4, <1>5, <1>6, <3>1, AllocAssumption
  <2>2. ASSUME NEW u \in Thread
        PROVE  poolLock' = u <=> local'[u].at \in {"scan", "flip", "punlock"}
    BY <1>1, <1>3, <1>4 DEF Locks
  <2> QED
    BY <2>1, <2>2 DEF Locks
<1>8. FrameOK(t, l) /\ ScanOK(l) /\ ListOK(l)
  BY <1>1, <1>2, <1>3 DEF FrameOK, Gets, ScanOK, ListOK
<1>9. Moving(l) <=> Moving(local[t])
  BY <1>1, <1>2, <1>3 DEF Moving
<1>10. InTransit(t) = {} /\ InTransit(t)' = {}
  BY <1>1, <1>3, <1>4 DEF InTransit
<1>11. poolLock' \in Thread \cup {None}
  BY <1>1 DEF Types
<1>12. local[t].at \notin {"take", "fill"} /\ l.at # "fill"
  BY <1>1, <1>3
<1> QED
  BY <1>1, <1>2, <1>6, <1>7, <1>8, <1>9, <1>10, <1>11, <1>12, EasyStep

-----------------------------------------------------------------------------
\* Steps that move a block of an arena between a thread and what it has.
LEMMA BlockStep ==
  ASSUME AllocInv, NEW t \in Thread, NEW l \in Frame, local' = [local EXCEPT ![t] = l],
         NEW O \in SUBSET Mem, owned' = [owned EXCEPT ![t] = O],
         UNCHANGED <<used, kind, cnt, freeList, panic>>,
         poolLock' \in Thread \cup {None}, descLock' \in [Desc -> Thread \cup {None}],
         Locks', FrameOK(t, l)', ScanOK(l), ListOK(l),
         Moving(l) => /\ IsBlock(l.mem) /\ kind[l.mem.page] = l.desc
                      /\ l.mem \notin O,
         \A b : IsBlock(b) /\ kind[b.page] \in Desc =>
           (b \in O \/ (Moving(l) /\ l.mem = b) <=> Has(t, b)),
         \A x \in Mem : Whole(x) => (x \in O <=> x \in owned[t]),
         \A x \in O : OwnedOK(x),
         InTransit(t) = {}, InTransit(t)' = {},
         local[t].at \notin {"take", "fill"}, l.at # "fill"
  PROVE  AllocInv'
<1>1. /\ Types /\ local' \in [Thread -> Frame] /\ local'[t] = l
      /\ \A u \in Thread \ {t} : local'[u] = local[u]
  BY LocalTypes DEF AllocInv
<1>2. /\ owned' \in [Thread -> SUBSET Mem] /\ owned'[t] = O
      /\ \A u \in Thread \ {t} : owned'[u] = owned[u]
  BY <1>1 DEF Types
<1>3. Types'
  BY <1>1, <1>2 DEF Types
<1>4. Mine(t)
  BY <1>1, <1>2 DEF Mine
<1>5. FrameOK(t, local[t])' /\ ScanOK(local[t])' /\ ListOK(local[t])'
  BY <1>1 DEF FrameOK, ScanOK, ListOK
<1>6. MovingOK(t, local[t])'
  BY <1>1, <1>2 DEF MovingOK
<1>7. TransitOK(t)'
  BY DEF TransitOK
<1>8. \A x \in owned'[t] : OwnedOK(x)'
  BY <1>2 DEF OwnedOK
<1>9. \A x \in Mem, p \in Page : Covers(t, x, p)' <=> Covers(t, x, p)
  BY <1>2 DEF Covers, Whole, PagesOf
<1>10. \A b : IsBlock(b) /\ kind[b.page] \in Desc => (Has(t, b)' <=> Has(t, b))
  BY <1>1, <1>2 DEF Has
<1>11. \A p \in Page : Dies(local'[t], p) <=> Dies(local[t], p)
  BY <1>1 DEF Dies
<1>12. Disjoint' /\ \A p \in Page : Accounted(p)'
  BY <1>4, <1>9, PagesQuiet
<1>13. ListsOK' /\ \A p \in Page : ArenaOK(p)'
  BY <1>4, <1>10, <1>11, ArenasQuiet
<1> QED
  BY <1>3, <1>4, <1>5, <1>6, <1>7, <1>8, <1>12, <1>13, Assemble DEF MineOK

\* The frame of a thread that has been given mem.
LEMMA DeliverFrame ==
  ASSUME Types, NEW t \in Thread, FrameOK(t, local[t]), NEW mem \in Mem, Deliver(t, mem)
  PROVE  /\ owned' = [owned EXCEPT ![t] = owned[t] \cup ({mem} \ {NoMem})]
         /\ \E l \in Frame : /\ local' = [local EXCEPT ![t] = l]
                             /\ l.at \in {"code", "free"} /\ l.for = "client"
                             /\ FrameOK(t, l)'
<1>1. owned' = [owned EXCEPT ![t] = owned[t] \cup ({mem} \ {NoMem})]
  BY DEF Deliver
<1>2. /\ owned'[t] = owned[t] \cup ({mem} \ {NoMem}) /\ local[t].old \in Mem
      /\ local[t].old \in owned[t] \cup {NoMem} /\ NoMem \in Mem
  BY <1>1, FrameTypes, NoMemTypes DEF FrameOK, Types
<1>3. CASE mem = NoMem \/ local[t].old = NoMem
  <2>1. local' = [local EXCEPT ![t] = InCode]
    BY <1>3 DEF Deliver
  <2>2. InCode \in Frame
    BY <1>2 DEF InCode, Local, Frame, Labels
  <2>3. InCode.at = "code" /\ InCode.for = "client" /\ FrameOK(t, InCode)'
    BY DEF InCode, Local, FrameOK, Gets
  <2> QED
    BY <1>1, <2>1, <2>2, <2>3
<1>4. CASE mem # NoMem /\ local[t].old # NoMem
  <2>1. [InCode EXCEPT !.at = "free", !.mem = local[t].old] \in Frame
    BY <1>2 DEF InCode, Local, Frame, Labels
  <2>2. PICK l \in Frame : l = [InCode EXCEPT !.at = "free", !.mem = local[t].old]
    BY <2>1
  <2>3. local' = [local EXCEPT ![t] = l]
    BY <1>4, <2>2 DEF Deliver
  <2>4. l.at = "free" /\ l.for = "client" /\ l.mem \in owned'[t] /\ l.old = NoMem
    BY <1>2, <1>4, <2>2 DEF InCode, Local
  <2>5. FrameOK(t, l)'
    BY <2>4 DEF FrameOK, Gets
  <2> QED
    BY <1>1, <2>3, <2>4, <2>5
<1> QED
  BY <1>3, <1>4

\* lock_release() of a descriptor.
LEMMA DescUnlockStep ==
  ASSUME AllocInv, NEW t \in Thread, DescUnlock(t) PROVE AllocInv'
<1> DEFINE d == local[t].desc  mem == local[t].mem
           O == IF local[t].for = "arena" THEN owned[t] \cup ({mem} \ {NoMem}) ELSE owned[t]
<1>1. /\ Types /\ Locks /\ FrameOK(t, local[t]) /\ MovingOK(t, local[t])
      /\ local[t].at = "dunlock" /\ local[t].for \in {"arena", "free"}
      /\ UNCHANGED <<used, kind, cnt, freeList, panic, poolLock>>
      /\ descLock' = [descLock EXCEPT ![d] = None]
  BY DEF DescUnlock, Does, AllocInv, FrameOK
<1>2. mem \in Mem /\ NoMem \in Mem /\ d \in Desc /\ InDesc(local[t]) /\ InTransit(t) = {}
  BY <1>1, FrameTypes, NoMemTypes DEF FrameOK, InDesc, InTransit
<1>3. /\ owned' = [owned EXCEPT ![t] = O]
      /\ \E l \in Frame : /\ local' = [local EXCEPT ![t] = l]
                          /\ l.at \in {"code", "free"} /\ l.for = "client"
                          /\ FrameOK(t, l)'
  <2>1. CASE local[t].for = "arena"
    <3>1. Deliver(t, mem)
      BY <2>1 DEF DescUnlock
    <3> QED
      BY <1>1, <1>2, <2>1, <3>1, DeliverFrame
  <2>2. CASE local[t].for = "free"
    <3>1. local' = [local EXCEPT ![t] = InCode] /\ owned' = owned
      BY <2>2 DEF DescUnlock
    <3>2. InCode \in Frame /\ InCode.at = "code" /\ InCode.for = "client"
      BY <1>2 DEF InCode, Local, Frame, Labels
    <3>3. FrameOK(t, InCode)'
      BY DEF InCode, Local, FrameOK, Gets
    <3>4. owned' = [owned EXCEPT ![t] = O]
      BY <1>1, <2>2, <3>1 DEF Types
    <3> QED
      BY <3>1, <3>2, <3>3, <3>4
  <2> QED
    BY <1>1, <2>1, <2>2
<1>4. PICK l \in Frame : /\ local' = [local EXCEPT ![t] = l]
                         /\ l.at \in {"code", "free"} /\ l.for = "client"
                         /\ FrameOK(t, l)'
  BY <1>3
<1>5. local'[t] = l /\ \A u \in Thread \ {t} : local'[u] = local[u]
  BY <1>1, <1>4, LocalTypes
<1>6. /\ descLock' \in [Desc -> Thread \cup {None}] /\ descLock'[d] = None
      /\ \A e \in Desc \ {d} : descLock'[e] = descLock[e]
      /\ poolLock' \in Thread \cup {None}
  BY <1>1, <1>2 DEF Types
<1>7. /\ ~InDesc(l) /\ ~Moving(l) /\ ScanOK(l) /\ ListOK(l) /\ InTransit(t)' = {}
      /\ l.at # "fill"
  BY <1>4, <1>5 DEF InDesc, Moving, ScanOK, ListOK, InTransit
<1>8. Locks'
  <2>1. ASSUME NEW u \in Thread, NEW e \in Desc
        PROVE  descLock'[e] = u <=> InDesc(local'[u]) /\ local'[u].desc = e
    <3>1. /\ descLock[e] = u <=> InDesc(local[u]) /\ local[u].desc = e
          /\ descLock[d] = t
      BY <1>1, <1>2 DEF Locks
    <3> QED
      BY <1>5, <1>6, <1>7, <3>1, AllocAssumption
  <2>2. ASSUME NEW u \in Thread
        PROVE  poolLock' = u <=> local'[u].at \in {"scan", "flip", "punlock"}
    BY <1>1, <1>4, <1>5 DEF Locks
  <2> QED
    BY <2>1, <2>2 DEF Locks
<1>9. O \in SUBSET Mem
  BY <1>1, <1>2 DEF Types
<1>10. local[t].for = "arena" /\ mem # NoMem =>
         IsBlock(mem) /\ kind[mem.page] = d /\ Moving(local[t])
  BY <1>1 DEF MovingOK, Moving
<1>11. ASSUME NEW b PROVE b \in O <=> Has(t, b)
  BY <1>1, <1>10 DEF Has, Moving
<1>12. ASSUME NEW x \in Mem, Whole(x) PROVE x \in O <=> x \in owned[t]
  <2>1. ~(local[t].for = "arena" /\ mem # NoMem /\ x = mem)
    BY <1>2, <1>10, <1>12, BlockTypes, KindsDiffer DEF Whole
  <2> QED
    BY <2>1
<1>13. ASSUME NEW x \in O PROVE OwnedOK(x)
  <2>1. CASE x \in owned[t]
    BY <2>1 DEF AllocInv
  <2>2. CASE x \notin owned[t]
    <3>1. x = mem /\ IsBlock(mem) /\ kind[mem.page] \in Desc
      BY <1>2, <1>10, <1>13, <2>2
    <3> QED
      BY <3>1, BlockTypes, KindsDiffer DEF OwnedOK
  <2> QED
    BY <2>1, <2>2
<1> HIDE DEF O
<1> QED
  BY <1>1, <1>2, <1>3, <1>4, <1>6, <1>7, <1>8, <1>9, <1>11, <1>12, <1>13, BlockStep

\* free() of a block of an arena.
LEMMA FreeBlock ==
  ASSUME AllocInv, NEW t \in Thread, Free(t), local[t].mem.idx # -1,
         kind[local[t].mem.page] # "big"
  PROVE  AllocInv'
<1> DEFINE mem == local[t].mem  d == kind[mem.page]
           O == owned[t] \ {mem}
           next == [Local("flock", "free", d, 1) EXCEPT !.mem = mem]
<1>1. /\ Types /\ Locks /\ FrameOK(t, local[t]) /\ local[t].at = "free"
      /\ mem \in owned[t] /\ local[t].for = "client"
      /\ UNCHANGED <<used, kind, cnt, freeList, poolLock, descLock>>
      /\ local' = [local EXCEPT ![t] = next] /\ owned' = [owned EXCEPT ![t] = O]
  BY DEF Free, Does, AllocInv, FrameOK
<1>2. mem \in Mem /\ IsBlock(mem) /\ d \in Desc /\ NoMem \in Mem
  BY <1>1, OwnedPages, NoMemTypes DEF AllocInv, OwnedOK
<1>3. UNCHANGED panic
  BY <1>1, <1>2 DEF Free, Types
<1>4. PICK l \in Frame : /\ local' = [local EXCEPT ![t] = l]
                         /\ l.at = "flock" /\ l.for = "free" /\ l.desc = d
                         /\ l.mem = mem /\ l.old = NoMem /\ l.i = 0 /\ l.j = 0
  <2>1. /\ next \in Frame /\ next.at = "flock" /\ next.for = "free" /\ next.desc = d
        /\ next.mem = mem /\ next.old = NoMem /\ next.i = 0 /\ next.j = 0
    BY <1>2 DEF Local, Frame, Labels
  <2> HIDE DEF next
  <2> QED
    BY <1>1, <2>1
<1> HIDE DEF next
<1>5. local'[t] = l /\ \A u \in Thread \ {t} : local'[u] = local[u]
  BY <1>1, <1>4, LocalTypes
<1>6. O \in SUBSET Mem /\ owned'[t] = O
  BY <1>1 DEF Types
<1>7. FrameOK(t, l)' /\ ScanOK(l) /\ ListOK(l)
  BY <1>2, <1>4 DEF FrameOK, ScanOK, ListOK, Gets
<1>8. ~InDesc(l) /\ ~InDesc(local[t]) /\ Moving(l) /\ ~Moving(local[t])
  BY <1>1, <1>4 DEF InDesc, Moving
<1>9. Locks'
  BY <1>1, <1>4, <1>5, <1>8 DEF Locks
<1>10. InTransit(t) = {} /\ InTransit(t)' = {}
  BY <1>1, <1>4, <1>5 DEF InTransit
<1>11. \A b : b \in O \/ (Moving(l) /\ l.mem = b) <=> Has(t, b)
  BY <1>1, <1>4, <1>8 DEF Has
<1>12. \A x \in Mem : Whole(x) => (x \in O <=> x \in owned[t])
  BY <1>2, BlockTypes, KindsDiffer DEF Whole
<1>13. \A x \in O : OwnedOK(x)
  BY DEF AllocInv
<1>14. poolLock' \in Thread \cup {None} /\ descLock' \in [Desc -> Thread \cup {None}]
  BY <1>1 DEF Types
<1>15. Moving(l) => /\ IsBlock(l.mem) /\ kind[l.mem.page] = l.desc /\ l.mem \notin O
  BY <1>2, <1>4
<1> HIDE DEF O
<1> QED
  BY <1>1, <1>3, <1>4, <1>6, <1>7, <1>9, <1>10, <1>11, <1>12, <1>13, <1>14, <1>15, BlockStep

\* free() of a big block, and palloc_free_multiple() of whole pages.
LEMMA FreePages ==
  ASSUME AllocInv, NEW t \in Thread, Free(t),
         local[t].mem.idx = -1 \/ kind[local[t].mem.page] = "big"
  PROVE  AllocInv'
<1> DEFINE mem == local[t].mem
           pages == IF mem.idx = -1 THEN mem ELSE Pages(mem.page, cnt[mem.page])
           next == [InCode EXCEPT !.at = "fill", !.mem = pages]
           O == owned[t] \ {mem}
<1>1. /\ Types /\ Locks /\ FrameOK(t, local[t]) /\ local[t].at = "free"
      /\ mem \in owned[t] /\ local[t].for = "client" /\ OwnedOK(mem)
      /\ UNCHANGED <<used, kind, cnt, freeList, poolLock, descLock>>
      /\ local' = [local EXCEPT ![t] = next] /\ owned' = [owned EXCEPT ![t] = O]
  BY DEF Free, Does, AllocInv, FrameOK
<1>2. /\ mem \in Mem /\ mem.page \in Page /\ mem # NoMem /\ NoMem \in Mem
      /\ mem.n \in Nat /\ mem.idx \in Int /\ cnt[mem.page] \in Nat /\ PageCnt \in Nat
      /\ mem.page \in Nat /\ BlocksPerArena \in Nat
  BY <1>1, OwnedPages, MemTypes, NoMemTypes DEF Types
<1>3. UNCHANGED panic
  BY <1>1, <1>2 DEF Free, Types
<1>4. /\ pages \in Mem /\ pages = Pages(pages.page, pages.n) /\ pages.n >= 1
      /\ pages.page + pages.n <= PageCnt /\ PagesOf(mem) = Span(pages.page, pages.n)
      /\ \A p \in Span(pages.page, pages.n) : kind[p] \in {"client", "big"}
  <2>1. CASE mem.idx = -1
    <3>1. mem = [page |-> mem.page, idx |-> mem.idx, n |-> mem.n]
      BY <1>2 DEF Mem
    <3> QED
      BY <1>1, <1>2, <2>1, <3>1 DEF OwnedOK, PagesOf, Pages
  <2>2. CASE mem.idx # -1 /\ kind[mem.page] = "big"
    <3>1. /\ cnt[mem.page] >= 1 /\ mem.page + cnt[mem.page] <= PageCnt
          /\ \A p \in Span(mem.page, cnt[mem.page]) \ {mem.page} : kind[p] = "client"
      BY <1>1, <2>2 DEF OwnedOK
    <3>2. pages = Pages(mem.page, cnt[mem.page])
      BY <2>2
    <3>3. pages.page = mem.page /\ pages.n = cnt[mem.page] /\ pages.idx = -1
      BY <3>2 DEF Pages
    <3>4. pages \in Mem
      BY <1>2, <3>1, <3>2 DEF Pages, Mem
    <3> QED
      BY <2>2, <3>1, <3>2, <3>3, <3>4 DEF PagesOf, Pages
  <2> QED
    BY <2>1, <2>2
<1> HIDE DEF pages
<1>5. PICK l \in Frame : /\ local' = [local EXCEPT ![t] = l]
                         /\ l.at = "fill" /\ l.for = "client" /\ l.mem = pages
                         /\ l.old = NoMem /\ l.j = 0
  <2>1. /\ next \in Frame /\ next.at = "fill" /\ next.for = "client"
        /\ next.mem = pages /\ next.old = NoMem /\ next.j = 0
    BY <1>2, <1>4 DEF InCode, Local, Frame, Labels
  <2> HIDE DEF next
  <2> QED
    BY <1>1, <2>1
<1> HIDE DEF next
<1>6. /\ local' \in [Thread -> Frame] /\ local'[t] = l
      /\ \A u \in Thread \ {t} : local'[u] = local[u]
  BY <1>1, <1>5, LocalTypes
<1>7. /\ owned' \in [Thread -> SUBSET Mem] /\ owned'[t] = O
      /\ \A u \in Thread \ {t} : owned'[u] = owned[u]
  BY <1>1 DEF Types
<1>8. Types'
  BY <1>1, <1>3, <1>6, <1>7 DEF Types
<1>9. Mine(t)
  BY <1>1, <1>6, <1>7 DEF Mine
<1>10. ~InDesc(l) /\ ~InDesc(local[t]) /\ ~Moving(l) /\ ~Moving(local[t])
  BY <1>1, <1>5 DEF InDesc, Moving
<1>11. Locks'
  BY <1>1, <1>5, <1>6, <1>9, <1>10, LocksSame DEF PoolLabels
<1>12. InTransit(t) = {} /\ InTransit(t)' = PagesOf(mem)
  BY <1>1, <1>4, <1>5, <1>6 DEF InTransit
<1>13. MineOK(t)'
  <2>1. FrameOK(t, l)' /\ ScanOK(l)' /\ ListOK(l)' /\ MovingOK(t, l)'
    <3>1. l.mem.page + l.mem.n <= PageCnt /\ l.j < l.mem.n /\ l.mem.n \in Nat
      BY <1>4, <1>5, MemTypes
    <3> QED
      BY <1>4, <1>5, <1>10, <3>1 DEF FrameOK, ScanOK, ListOK, MovingOK, Gets
  <2>2. TransitOK(t)'
    BY <1>1, <1>4, <1>5, <1>6, <1>12 DEF TransitOK
  <2>3. \A x \in O : OwnedOK(x)'
    BY <1>7, <1>9, OwnedKept
  <2> QED
    BY <1>6, <1>7, <2>1, <2>2, <2>3 DEF MineOK
<1>14. ASSUME NEW x \in Mem, NEW p \in Page
       PROVE  Covers(t, x, p)' <=> \/ x = NoMem /\ Covers(t, mem, p)
                                   \/ x # mem /\ Covers(t, x, p)
  <2>1. Whole(mem) /\ (Covers(t, mem, p) <=> p \in PagesOf(mem))
    BY <1>1, <1>2 DEF Whole, Covers
  <2>2. NoMem \notin O
    BY OwnedPages
  <2>3. Covers(t, x, p)' <=> \/ x = NoMem /\ p \in PagesOf(mem)
                             \/ x \in O /\ Whole(x) /\ p \in PagesOf(x)
    BY <1>1, <1>7, <1>12 DEF Covers, Whole, PagesOf
  <2>4. Covers(t, x, p) <=> x \in owned[t] /\ Whole(x) /\ p \in PagesOf(x)
    BY <1>12 DEF Covers
  <2> QED
    BY <2>1, <2>2, <2>3, <2>4
<1>15. \A p \in Page, x, y \in Mem : Covers(t, x, p)' /\ Covers(t, y, p)' => x = y
  BY <1>2, <1>14 DEF AllocInv, Disjoint
<1>16. \A p \in Page : Covered(t, p)' <=> Covered(t, p)
  <2>1. ASSUME NEW p \in Page PROVE Covered(t, p)' => Covered(t, p)
    BY <1>2, <1>14 DEF Covered
  <2>2. ASSUME NEW p \in Page, NEW x \in Mem, Covers(t, x, p) PROVE Covered(t, p)'
    <3>1. CASE x = mem
      BY <1>2, <1>14, <2>2, <3>1 DEF Covered
    <3>2. CASE x # mem
      BY <1>14, <2>2, <3>2 DEF Covered
    <3> QED
      BY <3>1, <3>2
  <2> QED
    BY <2>1, <2>2 DEF Covered
<1>17. Disjoint'
  BY <1>9, <1>15, <1>16, DisjointStep
<1>18. \A p \in Page : Accounted(p)'
  BY <1>1, <1>9, <1>16, AccountedStep
<1>19. \A b : IsBlock(b) /\ kind[b.page] \in Desc => (Has(t, b)' <=> Has(t, b))
  <2>1. ASSUME NEW b, IsBlock(b), kind[b.page] \in Desc PROVE b # mem
    BY <2>1, BlockTypes, KindsDiffer
  <2> QED
    BY <1>6, <1>7, <1>10, <2>1 DEF Has
<1>20. ListsOK' /\ \A p \in Page : ArenaOK(p)'
  <2>1. \A p \in Page : Dies(local'[t], p) <=> Dies(local[t], p)
    BY <1>1, <1>5, <1>6 DEF Dies
  <2> QED
    BY <1>1, <1>9, <1>19, <2>1, ArenasQuiet
<1> QED
  BY <1>8, <1>9, <1>11, <1>13, <1>17, <1>18, <1>20, Assemble

\* free() and palloc_free_multiple().
LEMMA FreeStep ==
  ASSUME AllocInv, NEW t \in Thread, Free(t) PROVE AllocInv'
  BY FreeBlock, FreePages

-----------------------------------------------------------------------------
\* One bit of the pages that have been found.
LEMMA FlipStep ==
  ASSUME AllocInv, NEW t \in Thread, Flip(t) PROVE AllocInv'
<1> DEFINE m == local[t]  q == m.i + m.j
           next == IF m.j + 1 < m.n THEN [m EXCEPT !.j = @ + 1]
                   ELSE [m EXCEPT !.at = "punlock", !.mem = Pages(m.i, m.n)]
<1>1. /\ Types /\ Locks /\ FrameOK(t, m) /\ ScanOK(m) /\ ListOK(m) /\ TransitOK(t)
      /\ m.at = "flip" /\ used' = [used EXCEPT ![q] = TRUE]
      /\ UNCHANGED <<poolLock, kind, cnt, freeList, descLock, owned, panic>>
      /\ local' = [local EXCEPT ![t] = next]
  BY DEF Flip, Does, AllocInv
<1>2. /\ m \in Frame /\ m.n \in Nat /\ m.i \in Nat /\ m.j \in Nat /\ m.j < m.n
      /\ m.i + m.n <= PageCnt /\ PageCnt \in Nat /\ m.n >= 1 /\ m.for # "free"
  BY <1>1, FrameTypes, NoMemTypes DEF FrameOK, Gets
<1>3. q \in Page /\ m.i \in Page /\ m.n \in 0 .. PageCnt
  BY <1>2 DEF Page
<1>4. PICK l \in Frame :
        /\ local' = [local EXCEPT ![t] = l]
        /\ l.for = m.for /\ l.desc = m.desc /\ l.n = m.n /\ l.i = m.i /\ l.old = m.old
        /\ \/ l.at = "flip" /\ l.j = m.j + 1 /\ l.j < l.n /\ l.mem = m.mem
           \/ l.at = "punlock" /\ m.j + 1 = m.n /\ l.mem = Pages(m.i, m.n)
  <2>1. CASE m.j + 1 < m.n
    <3>1. next = [m EXCEPT !.j = m.j + 1] /\ m.j + 1 \in Nat
      BY <1>2, <2>1 DEF Frame
    <3> HIDE DEF next
    <3>2. /\ next \in Frame /\ next.at = "flip" /\ next.j = m.j + 1 /\ next.mem = m.mem
          /\ next.for = m.for /\ next.desc = m.desc /\ next.n = m.n /\ next.i = m.i
          /\ next.old = m.old
      BY <1>1, <1>2, <3>1 DEF Frame
    <3> QED
      BY <1>1, <2>1, <3>2
  <2>2. CASE ~(m.j + 1 < m.n)
    <3>1. next = [m EXCEPT !.at = "punlock", !.mem = Pages(m.i, m.n)]
      BY <2>2
    <3>2. Pages(m.i, m.n) \in Mem /\ "punlock" \in Labels /\ m.j + 1 = m.n
      BY <1>2, <1>3, <2>2, NoMemTypes DEF Pages, Mem, Labels
    <3> HIDE DEF next
    <3>3. /\ next \in Frame /\ next.at = "punlock" /\ next.mem = Pages(m.i, m.n)
          /\ next.for = m.for /\ next.desc = m.desc /\ next.n = m.n /\ next.i = m.i
          /\ next.old = m.old
      BY <1>1, <1>2, <3>1, <3>2 DEF Frame
    <3> QED
      BY <1>1, <3>2, <3>3
  <2> QED
    BY <2>1, <2>2
<1> HIDE DEF next
<1>5. /\ local' \in [Thread -> Frame] /\ local'[t] = l
      /\ \A u \in Thread \ {t} : local'[u] = local[u]
  BY <1>1, <1>4, LocalTypes
<1>6. /\ used' \in [Page -> BOOLEAN] /\ used'[q] = TRUE
      /\ \A p \in Page \ {q} : used'[p] = used[p]
  BY <1>1, <1>3 DEF Types
<1>7. Types'
  BY <1>1, <1>5, <1>6 DEF Types
<1>8. Mine(t)
  <2>1. poolLock = t
    BY <1>1 DEF Locks
  <2> QED
    BY <1>1, <1>5, <2>1 DEF Mine
<1>9. ~used[q]
  BY <1>1, <1>2 DEF ScanOK
<1>10. kind[q] = "junk" /\ \A u \in Thread : ~Covered(u, q)
  BY <1>3, <1>9 DEF AllocInv, Accounted, Covered
<1>11. InTransit(t) = m.i .. m.i + m.j - 1 /\ InTransit(t)' = InTransit(t) \cup {q}
  <2>1. InTransit(t) = m.i .. m.i + m.j - 1
    BY <1>1 DEF InTransit
  <2>2. InTransit(t)' = m.i .. m.i + m.j
    <3>1. CASE l.at = "flip"
      <4>1. l.i = m.i /\ l.j = m.j + 1
        BY <1>4, <3>1
      <4>2. InTransit(t)' = l.i .. l.i + l.j - 1
        BY <1>5, <3>1 DEF InTransit
      <4> QED
        BY <1>2, <4>1, <4>2
    <3>2. CASE l.at = "punlock"
      <4>1. l.mem = Pages(m.i, m.n) /\ m.n = m.j + 1
        BY <1>2, <1>4, <3>2
      <4>2. InTransit(t)' = Span(m.i, m.n)
        BY <1>5, <3>2, <4>1 DEF InTransit, Pages
      <4> QED
        BY <1>2, <4>1, <4>2 DEF Span
    <3> QED
      BY <1>4, <3>1, <3>2
  <2> QED
    BY <1>2, <2>1, <2>2
<1>12. /\ ~Moving(l) /\ ~Moving(m) /\ (InDesc(l) <=> InDesc(m))
  BY <1>1, <1>2, <1>4 DEF Moving, InDesc, Gets
<1>13. Locks'
  BY <1>1, <1>4, <1>5, <1>8, <1>12, LocksSame DEF PoolLabels
<1>14. MineOK(t)'
  <2>1. FrameOK(t, l)' /\ ListOK(l)' /\ MovingOK(t, l)'
    <3>1. CASE l.at = "flip"
      BY <1>1, <1>2, <1>4, <1>12, <3>1 DEF FrameOK, ListOK, MovingOK, Gets
    <3>2. CASE l.at = "punlock"
      <4>1. l.mem = Pages(l.mem.page, l.n) /\ l.mem.page = m.i
        BY <1>4, <3>2 DEF Pages
      <4> QED
        BY <1>1, <1>2, <1>4, <1>12, <3>2, <4>1 DEF FrameOK, ListOK, MovingOK, Gets
    <3> QED
      BY <1>4, <3>1, <3>2
  <2>2. ScanOK(l)'
    <3>1. CASE l.at = "flip"
      <4>1. \A k \in m.j .. m.n - 1 : ~used[m.i + k]
        BY <1>1 DEF ScanOK
      <4>2. \A k \in l.j .. l.n - 1 : /\ k \in m.j .. m.n - 1
                                      /\ m.i + k \in Page \ {q}
        BY <1>2, <1>4, <3>1 DEF Page
      <4>3. \A k \in l.j .. l.n - 1 : ~used'[l.i + k]
        BY <1>4, <1>6, <4>1, <4>2
      <4> QED
        BY <3>1, <4>3 DEF ScanOK
    <3>2. CASE l.at = "punlock"
      BY <3>2 DEF ScanOK
    <3> QED
      BY <1>4, <3>1, <3>2
  <2>3. TransitOK(t)'
    <3>1. \A p \in InTransit(t)' : kind[p] = "junk"
      BY <1>1, <1>10, <1>11 DEF TransitOK
    <3> QED
      BY <1>1, <1>4, <1>5, <3>1 DEF TransitOK
  <2>4. \A x \in owned'[t] : OwnedOK(x)'
    BY <1>1, <1>8, OwnedKept
  <2> QED
    BY <1>5, <2>1, <2>2, <2>3, <2>4 DEF MineOK
<1>15. ASSUME NEW x \in Mem, NEW p \in Page
       PROVE  Covers(t, x, p)' <=> Covers(t, x, p) \/ (x = NoMem /\ p = q)
  BY <1>1, <1>11 DEF Covers, Whole, PagesOf
<1>16. \A p \in Page, x, y \in Mem : Covers(t, x, p)' /\ Covers(t, y, p)' => x = y
  BY <1>10, <1>15 DEF Covered, AllocInv, Disjoint
<1>17. Disjoint'
  <2>1. \A p \in Page : Covered(t, p)' =>
          Covered(t, p) \/ \A u \in Thread : ~Covered(u, p)
    BY <1>10, <1>15 DEF Covered
  <2> QED
    BY <1>8, <1>16, <2>1, DisjointStep
<1>18. ASSUME NEW p \in Page PROVE Accounted(p)'
  <2>1. CASE p = q
    <3>1. Covered(t, p)'
      BY <1>15, <2>1, NoMemTypes DEF Covered
    <3> QED
      BY <1>6, <1>8, <2>1, <3>1, AccountedStep
  <2>2. CASE p # q
    <3>1. Covered(t, p)' <=> Covered(t, p)
      BY <1>15, <2>2 DEF Covered
    <3> QED
      BY <1>1, <1>6, <1>8, <2>2, <3>1, AccountedStep
  <2> QED
    BY <2>1, <2>2
<1>19. ListsOK' /\ \A p \in Page : ArenaOK(p)'
  <2>1. \A p \in Page : Dies(local'[t], p) <=> Dies(local[t], p)
    BY <1>1, <1>4, <1>5 DEF Dies
  <2>2. \A b : Has(t, b)' <=> Has(t, b)
    BY <1>1, <1>5, <1>12 DEF Has
  <2> QED
    BY <1>1, <1>8, <2>1, <2>2, ArenasQuiet
<1> QED
  BY <1>7, <1>8, <1>13, <1>14, <1>17, <1>18, <1>19, Assemble

\* A request that finds no pages.
LEMMA GotNothing ==
  ASSUME AllocInv, NEW t \in Thread, GotPages(t) \/ GotBig(t) \/ GotArena(t),
         local[t].mem = NoMem
  PROVE  AllocInv'
<1> DEFINE m == local[t]
<1>1. /\ Types /\ Locks /\ FrameOK(t, m) /\ ScanOK(m) /\ ListOK(m) /\ m \in Frame
      /\ m.at = "got" /\ InTransit(t) = {} /\ ~Moving(m)
      /\ UNCHANGED <<used, poolLock, descLock, freeList, panic>>
  BY FrameTypes
     DEF GotPages, GotBig, GotArena, Does, AllocInv, Moving, InTransit, Span, NoMem
<1>2. Span(NoMem.page, NoMem.n) = {}
  BY DEF NoMem, Span
<1>3. PICK l \in Frame :
        /\ local' = [local EXCEPT ![t] = l]
        /\ UNCHANGED <<kind, cnt, owned>>
        /\ \/ m.for # "arena" /\ l = InCode
           \/ m.for = "arena" /\ l = [m EXCEPT !.at = "dunlock"]
  <2>0. InCode \in Frame /\ [m EXCEPT !.at = "dunlock"] \in Frame
    BY <1>1, NoMemTypes DEF InCode, Local, Frame, Labels
  <2>1. CASE GotPages(t)
    <3>1. kind' = [p \in Page |-> kind[p]] /\ owned' = [owned EXCEPT ![t] = owned[t]]
      BY <1>2, <2>1 DEF GotPages
    <3>2. m.for # "arena" /\ local' = [local EXCEPT ![t] = InCode] /\ cnt' = cnt
      BY <2>1 DEF GotPages
    <3> QED
      BY <1>1, <2>0, <3>1, <3>2 DEF Types
  <2>2. CASE GotBig(t)
    <3>1. m.for # "arena" /\ Deliver(t, NoMem) /\ UNCHANGED <<kind, cnt>>
      BY <2>2 DEF GotBig
    <3>2. /\ local' = [local EXCEPT ![t] = InCode]
          /\ owned' = [owned EXCEPT ![t] = owned[t]]
      BY <3>1 DEF Deliver
    <3> QED
      BY <1>1, <2>0, <3>1, <3>2 DEF Types
  <2>3. CASE GotArena(t)
    <3>1. m.for = "arena" /\ local' = Goto(t, "dunlock") /\ UNCHANGED <<kind, cnt, owned>>
      BY <2>3 DEF GotArena
    <3>2. local' = [local EXCEPT ![t] = [m EXCEPT !.at = "dunlock"]]
      BY <1>1, <3>1 DEF Goto
    <3> QED
      BY <2>0, <3>1, <3>2
  <2> QED
    BY <2>1, <2>2, <2>3
<1>4. local'[t] = l /\ \A u \in Thread \ {t} : local'[u] = local[u]
  BY <1>1, <1>3, LocalTypes
<1>5. CASE m.for # "arena"
  <2>1. l = InCode
    BY <1>3, <1>5
  <2>2. /\ l.at = "code" /\ FrameOK(t, l) /\ ScanOK(l) /\ ListOK(l) /\ ~Moving(l)
        /\ ~InDesc(l) /\ ~InDesc(m)
    BY <1>1, <1>5, <2>1
       DEF InCode, Local, FrameOK, ScanOK, ListOK, Moving, InDesc, Gets
  <2>3. Locks' /\ InTransit(t)' = {}
    BY <1>1, <1>4, <2>2 DEF Locks, InTransit
  <2>4. poolLock' \in Thread \cup {None} /\ descLock' \in [Desc -> Thread \cup {None}]
    BY <1>1 DEF Types
  <2> QED
    BY <1>1, <1>3, <2>2, <2>3, <2>4, EasyStep
<1>6. CASE m.for = "arena"
  <2>1. /\ l.at = "dunlock" /\ l.for = m.for /\ l.desc = m.desc /\ l.n = m.n
        /\ l.mem = m.mem /\ l.old = m.old
    BY <1>1, <1>3, <1>6 DEF Frame
  <2>2. /\ FrameOK(t, l) /\ ScanOK(l) /\ ListOK(l) /\ ~Moving(l)
        /\ InDesc(l) /\ InDesc(m)
    BY <1>1, <1>6, <2>1 DEF FrameOK, ScanOK, ListOK, Moving, InDesc, Gets
  <2>3. Locks' /\ InTransit(t)' = {}
    BY <1>1, <1>4, <2>1, <2>2 DEF Locks, InTransit
  <2>4. poolLock' \in Thread \cup {None} /\ descLock' \in [Desc -> Thread \cup {None}]
    BY <1>1 DEF Types
  <2> QED
    BY <1>1, <1>3, <2>1, <2>2, <2>3, <2>4, EasyStep
<1> QED
  BY <1>5, <1>6

\* The pages go to a client, as the piece of memory new.
LEMMA HandOver ==
  ASSUME AllocInv, NEW t \in Thread, local[t].at = "got",
         local[t].for \in {"client", "big"}, local[t].mem # NoMem,
         NEW l \in Frame, local' = [local EXCEPT ![t] = l],
         l.at \in {"code", "free"}, l.for = "client", FrameOK(t, l)',
         NEW new \in Mem \ {NoMem}, owned' = [owned EXCEPT ![t] = owned[t] \cup {new}],
         kind' \in [Page -> Desc \cup {"client", "big", "junk"}], cnt' \in [Page -> Nat],
         \A p \in Page \ InTransit(t) : kind'[p] = kind[p] /\ cnt'[p] = cnt[p],
         \A p \in InTransit(t) : kind'[p] \in {"client", "big"},
         Whole(new)', PagesOf(new)' = InTransit(t), OwnedOK(new)', new.page \in InTransit(t),
         UNCHANGED <<used, poolLock, freeList, descLock, panic>>
  PROVE  AllocInv'
<1>1. /\ local' \in [Thread -> Frame] /\ local'[t] = l
      /\ \A u \in Thread \ {t} : local'[u] = local[u]
  BY LocalTypes DEF AllocInv
<1>2. /\ owned' \in [Thread -> SUBSET Mem] /\ owned'[t] = owned[t] \cup {new}
      /\ \A u \in Thread \ {t} : owned'[u] = owned[u]
  BY DEF AllocInv, Types
<1>3. Types'
  BY <1>1, <1>2 DEF AllocInv, Types
<1>4. Mine(t)
  BY <1>1, <1>2 DEF Mine
<1>5. /\ ~InDesc(l) /\ ~InDesc(local[t]) /\ ~Moving(l) /\ ~Moving(local[t])
  BY DEF InDesc, Moving
<1>6. Locks'
  BY <1>1, <1>4, <1>5, LocksSame DEF PoolLabels
<1>7. InTransit(t)' = {} /\ InTransit(t) \subseteq Page /\ TransitOK(t)
  BY <1>1, InTransitPages DEF InTransit, AllocInv
<1>8. \A p \in InTransit(t) : kind[p] = "junk"
  BY <1>7 DEF TransitOK
<1>9. MineOK(t)'
  <2>1. ScanOK(l)' /\ ListOK(l)' /\ MovingOK(t, l)'
    BY <1>5 DEF ScanOK, ListOK, MovingOK
  <2>2. TransitOK(t)'
    BY <1>7 DEF TransitOK
  <2>3. \A x \in owned'[t] : OwnedOK(x)'
    BY <1>2, <1>4, OwnedKept
  <2> QED
    BY <1>1, <2>1, <2>2, <2>3 DEF MineOK
<1>10. ASSUME NEW x \in Mem, NEW p \in Page
       PROVE  Covers(t, x, p)' <=> \/ x = new /\ p \in InTransit(t)
                                   \/ x # NoMem /\ Covers(t, x, p)
  <2>1. CASE x = new
    <3>1. Covers(t, x, p)' <=> p \in InTransit(t)
      BY <1>2, <1>7, <2>1 DEF Covers
    <3>2. Covers(t, x, p) => p \in InTransit(t)
      <4>1. CASE new \in owned[t]
        <5>1. new \in owned'[t]
          BY <1>2
        <5>2. Covers(t, new, p)' <=> Covers(t, new, p)
          BY <1>4, <4>1, <5>1, OwnedKept
        <5> QED
          BY <2>1, <3>1, <5>2
      <4>2. CASE new \notin owned[t]
        BY <2>1, <4>2 DEF Covers
      <4> QED
        BY <4>1, <4>2
    <3> QED
      BY <2>1, <3>1, <3>2
  <2>2. CASE x # new /\ x \in owned[t]
    <3>1. Covers(t, x, p)' <=> Covers(t, x, p)
      BY <1>2, <1>4, <2>2, OwnedKept
    <3>2. x # NoMem
      BY <2>2, OwnedPages
    <3> QED
      BY <2>2, <3>1, <3>2
  <2>3. CASE x # new /\ x \notin owned[t]
    BY <1>2, <1>7, <2>3 DEF Covers
  <2> QED
    BY <2>1, <2>2, <2>3
<1>11. \A p \in Page : p \in InTransit(t) <=> Covers(t, NoMem, p)
  BY OwnedPages DEF Covers
<1>12. ASSUME NEW p \in Page, NEW x \in Mem, NEW y \in Mem,
              Covers(t, x, p)', Covers(t, y, p)'
       PROVE  x = y
  <2>1. \A z \in Mem : Covers(t, z, p) /\ p \in InTransit(t) => z = NoMem
    BY <1>11, NoMemTypes DEF AllocInv, Disjoint
  <2>2. Covers(t, x, p) /\ Covers(t, y, p) => x = y
    BY DEF AllocInv, Disjoint
  <2> QED
    BY <1>10, <1>12, <2>1, <2>2
<1>13. ASSUME NEW p \in Page PROVE Covered(t, p)' <=> Covered(t, p)
  <2>1. ASSUME NEW x \in Mem, Covers(t, x, p)' PROVE Covered(t, p)
    BY <1>10, <1>11, <2>1, NoMemTypes DEF Covered
  <2>2. ASSUME NEW x \in Mem, Covers(t, x, p) PROVE Covered(t, p)'
    <3>1. CASE x = NoMem
      BY <1>10, <1>11, <2>2, <3>1 DEF Covered
    <3>2. CASE x # NoMem
      BY <1>10, <2>2, <3>2 DEF Covered
    <3> QED
      BY <3>1, <3>2
  <2> QED
    BY <2>1, <2>2 DEF Covered
<1>14. Disjoint'
  BY <1>4, <1>12, <1>13, DisjointStep
<1>15. ASSUME NEW p \in Page PROVE Accounted(p)'
  <2>1. CASE p \in InTransit(t)
    <3>1. Covered(t, p)'
      BY <1>11, <1>13, <2>1, NoMemTypes DEF Covered
    <3>2. used[p] = TRUE
      <4>1. Covered(t, p) /\ used[p] \in BOOLEAN
        BY <1>13, <3>1 DEF AllocInv, Types
      <4> QED
        BY <4>1 DEF Covered, AllocInv, Accounted
    <3> QED
      BY <1>4, <3>1, <3>2, AccountedStep
  <2>2. CASE p \notin InTransit(t)
    BY <1>4, <1>13, <2>2, AccountedStep
  <2> QED
    BY <2>1, <2>2
<1>16. ListsOK' /\ \A p \in Page : ArenaOK(p)'
  <2>1. \A p \in Page : Dies(local'[t], p) <=> Dies(local[t], p)
    BY <1>1 DEF Dies
  <2>2. \A b : IsBlock(b) /\ kind[b.page] \in Desc => (Has(t, b)' <=> Has(t, b))
    BY <1>1, <1>2, <1>5, <1>8, KindsDiffer DEF Has
  <2>3. \A p \in Page : kind[p] \in Desc \/ kind'[p] \in Desc =>
           kind'[p] = kind[p] /\ cnt'[p] = cnt[p]
    BY <1>8, KindsDiffer
  <2> QED
    BY <1>4, <2>1, <2>2, <2>3, ArenasQuiet
<1> QED
  BY <1>3, <1>4, <1>6, <1>9, <1>14, <1>15, <1>16, Assemble

\* What has been found for a thread.
LEMMA GotTypes ==
  ASSUME AllocInv, NEW t \in Thread, local[t].at = "got", local[t].mem # NoMem
  PROVE  LET mem == local[t].mem IN
         /\ mem \in Mem /\ mem = Pages(mem.page, mem.n) /\ mem.n = local[t].n
         /\ mem.n \in Nat /\ mem.n >= 1 /\ mem.page \in Page /\ mem.page \in Nat
         /\ mem.page + mem.n <= PageCnt /\ InTransit(t) = Span(mem.page, mem.n)
         /\ InTransit(t) \subseteq Page /\ mem.page \in InTransit(t)
         /\ \A p \in InTransit(t) : kind[p] = "junk"
<1> DEFINE mem == local[t].mem
<1>1. /\ mem \in Mem /\ FrameOK(t, local[t]) /\ TransitOK(t) /\ local[t].n \in Nat
      /\ mem.page \in Page /\ mem.page \in Nat /\ mem.n \in Nat
  BY FrameTypes, MemTypes DEF AllocInv
<1>2. mem = Pages(mem.page, local[t].n) /\ mem.page + local[t].n <= PageCnt /\ local[t].n >= 1
  BY <1>1 DEF FrameOK, Gets
<1>3. mem.n = local[t].n
  BY <1>2 DEF Pages
<1>4. InTransit(t) = Span(mem.page, mem.n) /\ InTransit(t) \subseteq Page
  BY InTransitPages DEF InTransit
<1>5. mem.page \in InTransit(t)
  BY <1>1, <1>2, <1>3, <1>4 DEF Span
<1> QED
  BY <1>1, <1>2, <1>3, <1>4, <1>5 DEF TransitOK

\* palloc_get_multiple() returns pages to a client.
LEMMA GotPagesStep ==
  ASSUME AllocInv, NEW t \in Thread, GotPages(t) PROVE AllocInv'
<1>1. CASE local[t].mem = NoMem
  BY <1>1, GotNothing
<1>2. CASE local[t].mem # NoMem
  <2>1. /\ Types /\ local[t].at = "got" /\ local[t].for = "client"
        /\ UNCHANGED <<used, poolLock, cnt, freeList, descLock, panic>>
        /\ local' = [local EXCEPT ![t] = InCode]
        /\ owned' = [owned EXCEPT ![t] = owned[t] \cup {local[t].mem}]
    BY <1>2 DEF GotPages, Does, AllocInv
  <2>2. PICK mem \in Mem : mem = local[t].mem
    BY <1>2, <2>1, GotTypes
  <2>3. /\ mem = Pages(mem.page, mem.n) /\ mem.page \in Nat /\ mem.n \in Nat
        /\ mem.n >= 1 /\ mem.page + mem.n <= PageCnt
        /\ InTransit(t) = Span(mem.page, mem.n) /\ InTransit(t) \subseteq Page
        /\ mem.page \in InTransit(t)
    BY <1>2, <2>1, <2>2, GotTypes
  <2>4. kind' = [p \in Page |-> IF p \in Span(mem.page, mem.n) THEN "client" ELSE kind[p]]
    BY <2>2 DEF GotPages
  <2>5. /\ kind' \in [Page -> Desc \cup {"client", "big", "junk"}]
        /\ \A p \in Page \ InTransit(t) : kind'[p] = kind[p]
        /\ \A p \in InTransit(t) : kind'[p] = "client"
    BY <2>1, <2>3, <2>4 DEF Types
  <2>6. mem.idx = -1
    BY <2>3 DEF Pages
  <2>7. Whole(mem)' /\ PagesOf(mem)' = InTransit(t) /\ OwnedOK(mem)'
    BY <2>3, <2>5, <2>6 DEF Whole, PagesOf, OwnedOK
  <2>8. InCode \in Frame /\ InCode.at = "code" /\ InCode.for = "client"
    BY NoMemTypes DEF InCode, Local, Frame, Labels
  <2>9. FrameOK(t, InCode)'
    BY DEF InCode, Local, FrameOK, Gets
  <2>10. cnt' \in [Page -> Nat]
    BY <2>1 DEF Types
  <2> QED
    BY <1>2, <2>1, <2>2, <2>3, <2>5, <2>7, <2>8, <2>9, <2>10, HandOver
<1> QED
  BY <1>1, <1>2

\* malloc() returns a block of whole pages.
LEMMA GotBigStep ==
  ASSUME AllocInv, NEW t \in Thread, GotBig(t) PROVE AllocInv'
<1>1. CASE local[t].mem = NoMem
  BY <1>1, GotNothing
<1>2. CASE local[t].mem # NoMem
  <2>1. /\ Types /\ FrameOK(t, local[t]) /\ local[t].at = "got" /\ local[t].for = "big"
        /\ UNCHANGED <<used, poolLock, freeList, descLock, panic>>
        /\ Deliver(t, Block(local[t].mem.page, 0))
        /\ cnt' = [cnt EXCEPT ![local[t].mem.page] = local[t].mem.n]
    BY <1>2 DEF GotBig, Does, AllocInv
  <2>2. PICK mem \in Mem : mem = local[t].mem
    BY <1>2, <2>1, GotTypes
  <2>3. /\ mem.page \in Nat /\ mem.n \in Nat /\ mem.page \in Page
        /\ mem.n >= 1 /\ mem.page + mem.n <= PageCnt
        /\ InTransit(t) = Span(mem.page, mem.n) /\ InTransit(t) \subseteq Page
        /\ mem.page \in InTransit(t)
    BY <1>2, <2>1, <2>2, GotTypes
  <2>4. kind' = [p \in Page |-> IF p = mem.page THEN "big"
                               ELSE IF p \in Span(mem.page, mem.n) THEN "client" ELSE kind[p]]
    BY <1>2, <2>2 DEF GotBig
  <2>5. /\ kind' \in [Page -> Desc \cup {"client", "big", "junk"}]
        /\ \A p \in Page \ InTransit(t) : kind'[p] = kind[p]
        /\ \A p \in InTransit(t) : kind'[p] = IF p = mem.page THEN "big" ELSE "client"
    BY <2>1, <2>3, <2>4 DEF Types
  <2>6. /\ cnt' \in [Page -> Nat] /\ cnt'[mem.page] = mem.n
        /\ \A p \in Page \ InTransit(t) : cnt'[p] = cnt[p]
    BY <2>1, <2>2, <2>3 DEF Types
  <2>7. PICK new \in Mem : new = Block(mem.page, 0) /\ IsBlock(new)
    <3>1. IsBlock(Block(mem.page, 0))
      BY <2>3, AllocAssumption DEF IsBlock, Block, Index
    <3> QED
      BY <3>1, BlockTypes
  <2>8. new # NoMem /\ new.page = mem.page /\ new.idx = 0
    BY <2>7, BlockTypes DEF Block
  <2>9. kind'[mem.page] = "big"
    BY <2>3, <2>5
  <2>10. Whole(new)' /\ PagesOf(new)' = InTransit(t)
    BY <2>3, <2>6, <2>8, <2>9 DEF Whole, PagesOf
  <2>11. OwnedOK(new)'
    BY <2>3, <2>5, <2>6, <2>7, <2>8, <2>9 DEF OwnedOK
  <2>12. PICK l \in Frame : /\ local' = [local EXCEPT ![t] = l]
                            /\ l.at \in {"code", "free"} /\ l.for = "client"
                            /\ FrameOK(t, l)'
    BY <2>1, <2>2, <2>7, DeliverFrame
  <2>13. owned' = [owned EXCEPT ![t] = owned[t] \cup {new}]
    BY <2>1, <2>2, <2>7, <2>8, DeliverFrame
  <2> QED
    BY <1>2, <2>1, <2>2, <2>3, <2>5, <2>6, <2>8, <2>10, <2>11, <2>12, <2>13, HandOver
<1> QED
  BY <1>1, <1>2

-----------------------------------------------------------------------------
\* palloc_free_multiple(): the pages are filled, and those of an arena stop being one.
LEMMA FillStep ==
  ASSUME AllocInv, NEW t \in Thread, Fill(t) PROVE AllocInv'
<1> DEFINE m == local[t]  mem == m.mem
<1>1. /\ Types /\ Locks /\ FrameOK(t, m) /\ m \in Frame /\ TransitOK(t)
      /\ m.at = "fill" /\ local' = [local EXCEPT ![t] = [m EXCEPT !.at = "clear"]]
      /\ UNCHANGED <<used, poolLock, freeList, descLock, owned>>
  BY FrameTypes DEF Fill, Does, Goto, AllocInv
<1>2. /\ mem \in Mem /\ mem.page \in Nat /\ mem.n \in Nat /\ m.n \in Nat
      /\ InTransit(t) = Span(mem.page, mem.n) /\ InTransit(t) \subseteq Page
  BY <1>1, FrameTypes, InTransitPages DEF InTransit
<1>3. PICK l \in Frame : /\ local' = [local EXCEPT ![t] = l]
                         /\ l.at = "clear" /\ l.for = m.for /\ l.desc = m.desc
                         /\ l.n = m.n /\ l.i = m.i /\ l.j = m.j /\ l.mem = mem
                         /\ l.old = m.old
  <2>1. [m EXCEPT !.at = "clear"] \in Frame
    BY <1>1 DEF Frame, Labels
  <2> QED
    BY <1>1, <2>1 DEF Frame
<1>4. /\ local' \in [Thread -> Frame] /\ local'[t] = l
      /\ \A u \in Thread \ {t} : local'[u] = local[u]
  BY <1>1, <1>3, LocalTypes
<1>5. /\ kind' \in [Page -> Desc \cup {"client", "big", "junk"}] /\ cnt' \in [Page -> Nat]
      /\ \A p \in InTransit(t) : kind'[p] = "junk"
      /\ \A p \in Page \ InTransit(t) : kind'[p] = kind[p] /\ cnt'[p] = cnt[p]
  <2>1. /\ kind' = [p \in Page |->
                      IF p \in Span(mem.page, mem.n) THEN "junk" ELSE kind[p]]
        /\ cnt' = [p \in Page |-> IF p \in Span(mem.page, mem.n) THEN 0 ELSE cnt[p]]
    BY DEF Fill
  <2>2. cnt' \in [Page -> Nat]
    BY <1>1, <2>1 DEF Types
  <2>3. kind' \in [Page -> Desc \cup {"client", "big", "junk"}]
    BY <1>1, <2>1 DEF Types
  <2> QED
    BY <1>2, <2>1, <2>2, <2>3
<1>6. \A p \in InTransit(t) : Covered(t, p) /\ used[p] = TRUE
  <2>1. \A p \in InTransit(t) : Covered(t, p)
    BY NoMemTypes DEF Covered, Covers
  <2>2. \A p \in InTransit(t) : used[p] \in BOOLEAN
    BY <1>1, <1>2 DEF Types
  <2> QED
    BY <1>2, <2>1, <2>2 DEF Covered, AllocInv, Accounted
<1>7. panic' = FALSE
  <2>1. panic' = (\E p \in Span(mem.page, mem.n) : ~used[p])
    BY DEF Fill
  <2> QED
    BY <1>2, <1>6, <2>1
<1>8. Types'
  BY <1>1, <1>4, <1>5, <1>7 DEF Types
<1>9. Mine(t)
  BY <1>1, <1>4, <1>5 DEF Mine
<1>10. ~Moving(l) /\ ~Moving(m) /\ (InDesc(l) <=> InDesc(m))
  BY <1>1, <1>3 DEF Moving, InDesc, Gets
<1>11. Locks'
  BY <1>1, <1>3, <1>4, <1>9, <1>10, LocksSame DEF PoolLabels
<1>12. InTransit(t)' = InTransit(t)
  <2>1. m.j = 0
    BY <1>1 DEF FrameOK
  <2>2. InTransit(t)' = mem.page + m.j .. mem.page + mem.n - 1
    BY <1>3, <1>4 DEF InTransit
  <2> QED
    BY <1>2, <2>1, <2>2 DEF Span
<1>13. MineOK(t)'
  <2>1. FrameOK(t, l)' /\ ScanOK(l)' /\ ListOK(l)' /\ MovingOK(t, l)'
    BY <1>1, <1>3, <1>10 DEF FrameOK, ScanOK, ListOK, MovingOK, Gets
  <2>2. TransitOK(t)'
    BY <1>3, <1>4, <1>5, <1>12 DEF TransitOK
  <2>3. \A x \in owned'[t] : OwnedOK(x)'
    BY <1>1, <1>9, OwnedKept
  <2> QED
    BY <1>4, <2>1, <2>2, <2>3 DEF MineOK
<1>14. ASSUME NEW x \in Mem, NEW p \in Page PROVE Covers(t, x, p)' <=> Covers(t, x, p)
  <2>1. CASE x \in owned[t]
    BY <1>1, <1>9, <2>1, OwnedKept
  <2>2. CASE x \notin owned[t]
    BY <1>1, <1>12, <2>2 DEF Covers
  <2> QED
    BY <2>1, <2>2
<1>15. \A p \in Page : Covered(t, p)' <=> Covered(t, p)
  BY <1>14 DEF Covered
<1>16. Disjoint'
  BY <1>9, <1>14, <1>15, DisjointStep DEF AllocInv, Disjoint
<1>17. ASSUME NEW p \in Page PROVE Accounted(p)'
  <2>1. CASE p \in InTransit(t)
    BY <1>1, <1>6, <1>9, <1>15, <2>1, AccountedStep
  <2>2. CASE p \notin InTransit(t)
    BY <1>1, <1>5, <1>9, <1>15, <2>2, AccountedStep
  <2> QED
    BY <2>1, <2>2
<1>18. ListsOK' /\ \A p \in Page : ArenaOK(p)'
  <2>1. ASSUME NEW p \in Page, kind'[p] \in Desc
        PROVE  p \notin InTransit(t) /\ ~Dies(local'[t], p) /\ ~Dies(local[t], p)
    <3>1. p \notin InTransit(t)
      BY <1>5, <2>1, KindsDiffer
    <3>2. ~Dies(local'[t], p)
      BY <1>3, <1>4 DEF Dies
    <3>3. m.for = "free" => mem.page \in InTransit(t)
      <4>1. m.for = "free" => mem.n = 1
        BY <1>1 DEF FrameOK
      <4> QED
        BY <1>2, <4>1 DEF Span
    <3> QED
      BY <3>1, <3>2, <3>3 DEF Dies
  <2>2. \A b : Has(t, b)' <=> Has(t, b)
    BY <1>1, <1>4, <1>10 DEF Has
  <2> QED
    BY <1>1, <1>5, <1>9, <2>1, <2>2, ArenasQuiet
<1> QED
  BY <1>8, <1>9, <1>11, <1>13, <1>16, <1>17, <1>18, Assemble

\* One bit of the pages that go back.
LEMMA ClearStep ==
  ASSUME AllocInv, NEW t \in Thread, Clear(t) PROVE AllocInv'
<1> DEFINE m == local[t]
           next == IF m.j + 1 < m.mem.n THEN [m EXCEPT !.j = @ + 1]
                   ELSE IF m.for = "free" THEN [m EXCEPT !.at = "dunlock"] ELSE InCode
<1>1. /\ Types /\ Locks /\ FrameOK(t, m) /\ m \in Frame /\ TransitOK(t)
      /\ m.at = "clear" /\ used' = [used EXCEPT ![m.mem.page + m.j] = FALSE]
      /\ local' = [local EXCEPT ![t] = next]
      /\ UNCHANGED <<poolLock, kind, cnt, freeList, descLock, owned, panic>>
  BY FrameTypes DEF Clear, Does, AllocInv
<1>2. /\ m.mem.page \in Nat /\ m.mem.n \in Nat /\ m.j \in Nat /\ m.j < m.mem.n
      /\ m.mem.page + m.mem.n <= PageCnt /\ PageCnt \in Nat
      /\ m.for \in {"client", "free"} /\ InTransit(t) \subseteq Page
      /\ InTransit(t) = m.mem.page + m.j .. m.mem.page + m.mem.n - 1
  BY <1>1, FrameTypes, InTransitPages, NoMemTypes DEF FrameOK, InTransit
<1>3. PICK q \in InTransit(t) :
        /\ q = m.mem.page + m.j /\ q \in Nat
        /\ InTransit(t) = q .. m.mem.page + m.mem.n - 1
  <2>1. m.mem.page + m.j \in m.mem.page + m.j .. m.mem.page + m.mem.n - 1
    BY <1>2, SMTT(30)
  <2> QED
    BY <1>2, <2>1
<1>4. PICK l \in Frame :
        /\ local' = [local EXCEPT ![t] = l]
        /\ \/ /\ l.at = "clear" /\ l.for = m.for /\ l.desc = m.desc /\ l.mem = m.mem
              /\ l.old = m.old /\ m.j + 1 < m.mem.n /\ l.j = m.j + 1
           \/ /\ l.at = "dunlock" /\ l.for = m.for /\ l.desc = m.desc /\ l.old = m.old
              /\ m.for = "free" /\ m.j + 1 = m.mem.n
           \/ l = InCode /\ m.for = "client" /\ m.j + 1 = m.mem.n
  <2>1. CASE m.j + 1 < m.mem.n
    <3>1. next = [m EXCEPT !.j = m.j + 1] /\ m.j + 1 \in Nat
      BY <1>1, <1>2, <2>1 DEF Frame
    <3> HIDE DEF next
    <3>2. /\ next \in Frame /\ next.at = "clear" /\ next.for = m.for /\ next.j = m.j + 1
          /\ next.desc = m.desc /\ next.mem = m.mem /\ next.old = m.old
      BY <1>1, <3>1 DEF Frame
    <3> QED
      BY <1>1, <2>1, <3>2
  <2>2. CASE ~(m.j + 1 < m.mem.n) /\ m.for = "free"
    <3>1. next = [m EXCEPT !.at = "dunlock"] /\ m.j + 1 = m.mem.n
      BY <1>2, <2>2
    <3> HIDE DEF next
    <3>2. /\ next \in Frame /\ next.at = "dunlock" /\ next.for = m.for
          /\ next.desc = m.desc /\ next.old = m.old
      BY <1>1, <3>1 DEF Frame, Labels
    <3> QED
      BY <1>1, <2>2, <3>1, <3>2
  <2>3. CASE ~(m.j + 1 < m.mem.n) /\ m.for # "free"
    <3>1. next = InCode /\ m.j + 1 = m.mem.n /\ m.for = "client"
      BY <1>2, <2>3
    <3>2. InCode \in Frame
      BY NoMemTypes DEF InCode, Local, Frame, Labels
    <3> QED
      BY <1>1, <3>1, <3>2
  <2> QED
    BY <2>1, <2>2, <2>3
<1> HIDE DEF next
<1>5. /\ local' \in [Thread -> Frame] /\ local'[t] = l
      /\ \A u \in Thread \ {t} : local'[u] = local[u]
  BY <1>1, <1>4, LocalTypes
<1>6. /\ used' \in [Page -> BOOLEAN] /\ used'[q] = FALSE /\ q \in Page
      /\ \A p \in Page \ {q} : used'[p] = used[p]
  BY <1>1, <1>2, <1>3 DEF Types
<1>7. Types'
  BY <1>1, <1>5, <1>6 DEF Types
<1>8. Mine(t)
  BY <1>1, <1>5, <1>6 DEF Mine
<1>9. /\ ~Moving(l) /\ ~Moving(m) /\ (InDesc(l) <=> InDesc(m))
      /\ l.at \notin PoolLabels /\ l.at \notin {"take", "fill"}
      /\ InDesc(m) => l.desc = m.desc
  BY <1>1, <1>2, <1>4 DEF Moving, InDesc, Gets, InCode, Local, PoolLabels
<1>10. Locks'
  BY <1>1, <1>5, <1>8, <1>9, LocksSame DEF PoolLabels
<1>11. InTransit(t)' = InTransit(t) \ {q}
  <2>1. CASE l.at = "clear"
    <3>1. l.mem = m.mem /\ l.j = m.j + 1
      BY <1>4, <2>1 DEF InCode, Local
    <3>2. InTransit(t)' = l.mem.page + l.j .. l.mem.page + l.mem.n - 1
      BY <1>5, <2>1 DEF InTransit
    <3>3. l.mem.page + l.j = q + 1
      BY <1>2, <1>3, <3>1, SMTT(30)
    <3>4. InTransit(t)' = q + 1 .. m.mem.page + m.mem.n - 1
      BY <3>1, <3>2, <3>3
    <3> QED
      BY <1>2, <1>3, <3>4
  <2>2. CASE l.at # "clear"
    <3>1. m.j + 1 = m.mem.n /\ l.at \in {"dunlock", "code"}
      BY <1>4, <2>2 DEF InCode, Local
    <3>2. InTransit(t)' = {}
      BY <1>5, <3>1 DEF InTransit
    <3>3. q = m.mem.page + m.mem.n - 1
      BY <1>2, <1>3, <3>1
    <3> QED
      BY <1>3, <3>2, <3>3
  <2> QED
    BY <2>1, <2>2
<1>12. \A p \in InTransit(t) : kind[p] = "junk"
  BY <1>1 DEF TransitOK
<1>13. MineOK(t)'
  <2>1. FrameOK(t, l)'
    <3>1. CASE l.at = "clear"
      <4>1. /\ l.for = m.for /\ l.desc = m.desc /\ l.mem = m.mem /\ l.old = m.old
            /\ m.j + 1 < m.mem.n /\ l.j = m.j + 1
        BY <1>4, <3>1 DEF InCode, Local
      <4>2. l.j < l.mem.n /\ l.mem.page + l.mem.n <= PageCnt
        BY <1>2, <4>1
      <4> QED
        BY <1>1, <1>2, <3>1, <4>1, <4>2 DEF FrameOK, Gets
    <3>2. CASE l.at = "dunlock"
      BY <1>1, <1>2, <1>4, <3>2 DEF FrameOK, Gets, InCode, Local
    <3>3. CASE l = InCode
      BY <3>3 DEF FrameOK, Gets, InCode, Local
    <3> QED
      BY <1>4, <3>1, <3>2, <3>3
  <2>2. ScanOK(l)' /\ ListOK(l)' /\ MovingOK(t, l)'
    BY <1>2, <1>4, <1>9 DEF ScanOK, ListOK, MovingOK, Gets, InCode, Local
  <2>3. TransitOK(t)'
    <3>1. \A p \in InTransit(t)' : kind'[p] = "junk"
      BY <1>1, <1>11, <1>12
    <3> QED
      BY <1>5, <1>9, <3>1 DEF TransitOK
  <2>4. \A x \in owned'[t] : OwnedOK(x)'
    BY <1>1, <1>8, OwnedKept
  <2> QED
    BY <1>5, <2>1, <2>2, <2>3, <2>4 DEF MineOK
<1>14. ASSUME NEW x \in Mem, NEW p \in Page
       PROVE  Covers(t, x, p)' <=> Covers(t, x, p) /\ p # q
  <2>1. \A z \in owned[t] : z # NoMem /\ q \notin PagesOf(z)
    BY OwnedPages, Apart
  <2>2. Covers(t, x, p)' <=> \/ x = NoMem /\ p \in InTransit(t) \ {q}
                             \/ x \in owned[t] /\ Whole(x) /\ p \in PagesOf(x)
    BY <1>1, <1>11 DEF Covers, Whole, PagesOf
  <2> QED
    BY <2>1, <2>2 DEF Covers
<1>15. Disjoint'
  <2>1. \A p \in Page : Covered(t, p)' => Covered(t, p)
    BY <1>14 DEF Covered
  <2>2. \A p \in Page, x, y \in Mem : Covers(t, x, p)' /\ Covers(t, y, p)' => x = y
    BY <1>14 DEF AllocInv, Disjoint
  <2> QED
    BY <1>8, <2>1, <2>2, DisjointStep
<1>16. ASSUME NEW p \in Page PROVE Accounted(p)'
  <2>1. CASE p = q
    <3>1. Covered(t, p) /\ ~Covered(t, p)'
      BY <1>14, <2>1, NoMemTypes DEF Covered, Covers
    <3>2. kind'[p] = "junk"
      BY <1>1, <1>12, <2>1
    <3> QED
      BY <1>6, <1>8, <2>1, <3>1, <3>2, AccountedStep
  <2>2. CASE p # q
    <3>1. Covered(t, p)' <=> Covered(t, p)
      BY <1>14, <2>2 DEF Covered
    <3> QED
      BY <1>1, <1>6, <1>8, <2>2, <3>1, AccountedStep
  <2> QED
    BY <2>1, <2>2
<1>17. ListsOK' /\ \A p \in Page : ArenaOK(p)'
  <2>1. \A p \in Page : Dies(local'[t], p) <=> Dies(local[t], p)
    BY <1>1, <1>5, <1>9 DEF Dies
  <2>2. \A b : Has(t, b)' <=> Has(t, b)
    BY <1>1, <1>5, <1>9 DEF Has
  <2> QED
    BY <1>1, <1>8, <2>1, <2>2, ArenasQuiet
<1> QED
  BY <1>7, <1>8, <1>10, <1>13, <1>15, <1>16, <1>17, Assemble

-----------------------------------------------------------------------------
\* Lists without repetition: one element less, and one more.
LEMMA TailFacts ==
  ASSUME NEW S, NEW q \in Seq(S), q # <<>>,
         \A j, k \in DOMAIN q : q[j] = q[k] => j = k
  PROVE  LET w == Tail(q) IN
         /\ w \in Seq(S) /\ Head(q) \in S /\ \E k \in DOMAIN q : q[k] = Head(q)
         /\ \A j, k \in DOMAIN w : w[j] = w[k] => j = k
         /\ \A b : (\E k \in DOMAIN w : w[k] = b)
                     <=> b # Head(q) /\ \E k \in DOMAIN q : q[k] = b
<1> DEFINE w == Tail(q)
<1>1. Len(q) \in Nat /\ Len(q) >= 1 /\ DOMAIN q = 1 .. Len(q) /\ Head(q) = q[1]
  BY EmptySeq, LenProperties
<1>2. /\ w \in Seq(S) /\ Head(q) \in S /\ Len(w) = Len(q) - 1
      /\ \A i \in 1 .. Len(w) : w[i] = q[i + 1]
  BY HeadTailProperties
<1>3. DOMAIN w = 1 .. Len(q) - 1 /\ \A i \in 1 .. Len(q) - 1 : w[i] = q[i + 1]
  BY <1>2, LenProperties
<1> HIDE DEF w
<1>4. ASSUME NEW j \in DOMAIN w, NEW k \in DOMAIN w, w[j] = w[k] PROVE j = k
  <2>1. j + 1 \in DOMAIN q /\ k + 1 \in DOMAIN q /\ q[j + 1] = q[k + 1]
    BY <1>1, <1>3, <1>4
  <2>2. j + 1 = k + 1 /\ j \in Int /\ k \in Int
    BY <1>1, <1>3, <2>1
  <2> QED
    BY <2>2
<1>5. ASSUME NEW b, NEW k \in DOMAIN w, w[k] = b
      PROVE  b # Head(q) /\ \E i \in DOMAIN q : q[i] = b
  <2>1. k + 1 \in DOMAIN q /\ q[k + 1] = b /\ k + 1 # 1 /\ 1 \in DOMAIN q
    BY <1>1, <1>3, <1>5
  <2> QED
    BY <1>1, <2>1
<1>6. ASSUME NEW b, b # Head(q), NEW k \in DOMAIN q, q[k] = b
      PROVE  \E i \in DOMAIN w : w[i] = b
  <2>1. k # 1
    BY <1>1, <1>6
  <2>2. k - 1 \in DOMAIN w /\ w[k - 1] = q[(k - 1) + 1] /\ (k - 1) + 1 = k
    BY <1>1, <1>3, <2>1
  <2> QED
    BY <1>6, <2>2
<1>7. \E k \in DOMAIN q : q[k] = Head(q)
  BY <1>1
<1> QED
  BY <1>2, <1>4, <1>5, <1>6, <1>7 DEF w

\* One element more.
LEMMA PushFacts ==
  ASSUME NEW S, NEW q \in Seq(S), NEW x \in S, \A k \in DOMAIN q : q[k] # x,
         \A j, k \in DOMAIN q : q[j] = q[k] => j = k
  PROVE  LET w == <<x>> \o q IN
         /\ w \in Seq(S)
         /\ \A j, k \in DOMAIN w : w[j] = w[k] => j = k
         /\ \A b : (\E k \in DOMAIN w : w[k] = b) <=> b = x \/ \E k \in DOMAIN q : q[k] = b
<1> DEFINE w == <<x>> \o q
<1>1. Len(q) \in Nat /\ DOMAIN q = 1 .. Len(q)
  BY LenProperties
<1>2. <<x>> \in Seq(S) /\ Len(<<x>>) = 1
  OBVIOUS
<1>3. /\ w \in Seq(S) /\ Len(w) = 1 + Len(q)
      /\ \A i \in 1 .. 1 + Len(q) : w[i] = IF i <= 1 THEN <<x>>[i] ELSE q[i - 1]
  BY <1>2, ConcatProperties
<1>4. /\ DOMAIN w = 1 .. 1 + Len(q) /\ w[1] = x
      /\ \A i \in 2 .. 1 + Len(q) : w[i] = q[i - 1]
  BY <1>1, <1>3, LenProperties
<1> HIDE DEF w
<1>5. ASSUME NEW j \in DOMAIN w, NEW k \in DOMAIN w, w[j] = w[k] PROVE j = k
  <2>1. ASSUME NEW i \in DOMAIN w, i # 1 PROVE i - 1 \in DOMAIN q /\ w[i] = q[i - 1] /\ i \in Int
    BY <1>1, <1>4, <2>1
  <2>2. CASE j = 1
    BY <1>4, <1>5, <2>1, <2>2
  <2>3. CASE k = 1
    BY <1>4, <1>5, <2>1, <2>3
  <2>4. CASE j # 1 /\ k # 1
    <3>1. j - 1 = k - 1 /\ j \in Int /\ k \in Int
      BY <1>5, <2>1, <2>4
    <3> QED
      BY <3>1
  <2> QED
    BY <2>2, <2>3, <2>4
<1>6. ASSUME NEW b, NEW k \in DOMAIN w, w[k] = b
      PROVE  b = x \/ \E i \in DOMAIN q : q[i] = b
  <2>1. k # 1 => k - 1 \in DOMAIN q /\ w[k] = q[k - 1]
    BY <1>1, <1>4
  <2> QED
    BY <1>4, <1>6, <2>1
<1>7. ASSUME NEW b, NEW k \in DOMAIN q, q[k] = b PROVE \E i \in DOMAIN w : w[i] = b
  <2>1. k + 1 \in DOMAIN w /\ w[k + 1] = q[(k + 1) - 1] /\ (k + 1) - 1 = k
    BY <1>1, <1>4
  <2> QED
    BY <1>7, <2>1
<1>8. \E k \in DOMAIN w : w[k] = x
  BY <1>1, <1>4
<1> QED
  BY <1>3, <1>5, <1>6, <1>7, <1>8 DEF w

\* Steps that move blocks of one arena, on page p, to or from the list of d.
LEMMA ArenasMove ==
  ASSUME AllocInv, NEW t \in Thread, Mine(t), NEW d \in Desc, NEW p \in Page,
         InDesc(local[t]), local[t].desc = d,
         local[t].at = "take" => Head(freeList[d]).page = p,
         kind'[p] = d, \A r \in Page \ {p} : kind'[r] = kind[r] /\ cnt'[r] = cnt[r],
         \A e \in Desc \ {d} : freeList'[e] = freeList[e],
         \A j, k \in DOMAIN freeList'[d] : freeList'[d][j] = freeList'[d][k] => j = k,
         \A b : Listed(d, b)' => IsBlock(b),
         \A b : b.page # p => (Listed(d, b)' <=> Listed(d, b)),
         \A b : b.page # p => (Has(t, b)' <=> Has(t, b)),
         \A r \in Page \ {p} : Dies(local'[t], r) <=> Dies(local[t], r),
         ArenaOK(p)'
  PROVE  ListsOK' /\ \A r \in Page : ArenaOK(r)'
<1>1. Types /\ Locks /\ ListsOK
  BY DEF AllocInv
<1>2. ListsOK'
  <2>1. SUFFICES ASSUME NEW e \in Desc, NEW j \in DOMAIN freeList'[e],
                        NEW k \in DOMAIN freeList'[e]
                 PROVE  /\ freeList'[e][j] = freeList'[e][k] => j = k
                        /\ IsBlock(freeList'[e][k]) /\ kind'[freeList'[e][k].page] = e
    BY DEF ListsOK
  <2>2. CASE e # d
    <3>1. freeList'[e] = freeList[e]
      BY <2>2
    <3>2. /\ freeList[e][j] = freeList[e][k] => j = k
          /\ IsBlock(freeList[e][k]) /\ kind[freeList[e][k].page] = e
          /\ freeList[e][k].page \in Page \ InTransit(t)
      BY <1>1, <3>1, Apart, BlockTypes DEF ListsOK
    <3>3. kind'[freeList[e][k].page] = e
      BY <3>2 DEF Mine
    <3> QED
      BY <3>1, <3>2, <3>3
  <2>3. CASE e = d
    <3>1. PICK b : b = freeList'[d][k]
      OBVIOUS
    <3>2. Listed(d, b)' /\ IsBlock(b) /\ b.page \in Page
      BY <2>3, <3>1, BlockTypes DEF Listed
    <3>3. CASE b.page = p
      BY <2>3, <3>1, <3>2, <3>3
    <3>4. CASE b.page # p
      <4>1. Listed(d, b) /\ kind'[b.page] = kind[b.page]
        BY <3>2, <3>4
      <4>2. kind[b.page] = d
        BY <1>1, <4>1 DEF Listed, ListsOK
      <4> QED
        BY <2>3, <3>1, <3>2, <4>1, <4>2
    <3> QED
      BY <3>3, <3>4
  <2> QED
    BY <2>2, <2>3
<1>3. ASSUME NEW r \in Page \ {p}, kind'[r] \in Desc PROVE ArenaOK(r)'
  <2>1. PICK e \in Desc : e = kind[r]
    BY <1>3
  <2>2. kind'[r] = e /\ cnt'[r] = cnt[r] /\ ArenaOK(r) /\ r # p
    BY <2>1 DEF AllocInv
  <2>3. ASSUME NEW i \in Index PROVE Listed(e, Block(r, i))' <=> Listed(e, Block(r, i))
    <3>1. Block(r, i).page # p
      BY <2>2 DEF Block
    <3>2. CASE e = d
      BY <3>1, <3>2
    <3>3. CASE e # d
      BY <3>3 DEF Listed
    <3> QED
      BY <3>2, <3>3
  <2>4. FreeIdx(r)' = FreeIdx(r)
    BY <2>1, <2>2, <2>3 DEF FreeIdx
  <2>5. ASSUME NEW i \in Index, NEW u \in Thread
        PROVE  Has(u, Block(r, i))' <=> Has(u, Block(r, i))
    <3>1. Block(r, i).page # p
      BY <2>2 DEF Block
    <3> QED
      BY <3>1, OthersKept
  <2>6. Lives(r)' <=> Lives(r)
    BY <2>1, <2>2 DEF Lives, Mine
  <2>7. e = d /\ Lives(r) => FreeIdx(r) # Index
    <3>1. SUFFICES ASSUME e = d, Lives(r), FreeIdx(r) = Index PROVE FALSE
      OBVIOUS
    <3>2. PICK u \in Thread : /\ local[u].at = "take" /\ local[u].desc = d
                              /\ Head(freeList[d]).page = r
      BY <2>1, <2>2, <3>1 DEF ArenaOK
    <3>3. InDesc(local[u])
      BY <3>2 DEF InDesc, AllocInv, FrameOK
    <3>4. u = t
      BY <1>1, <3>2, <3>3 DEF Locks
    <3> QED
      BY <2>2, <3>2, <3>4
  <2>8. e # d => \A u \in Thread : local[u].at = "take" /\ local[u].desc = e =>
                                     local'[u] = local[u] /\ freeList'[e] = freeList[e]
    BY DEF Mine
  <2>9. ASSUME NEW i \in Index
        PROVE  /\ \A v, u \in Thread : Has(v, Block(r, i))' /\ Has(u, Block(r, i))' => v = u
               /\ Listed(e, Block(r, i))' => \A v \in Thread : ~Has(v, Block(r, i))'
               /\ IF Lives(r)' THEN \/ Listed(e, Block(r, i))'
                                    \/ \E v \in Thread : Has(v, Block(r, i))'
                  ELSE /\ ~Listed(e, Block(r, i))'
                       /\ \A v \in Thread : ~Has(v, Block(r, i))'
    BY <2>1, <2>2, <2>3, <2>5, <2>6 DEF ArenaOK
  <2>10. Lives(r)' =>
          /\ cnt'[r] = Cardinality(FreeIdx(r)')
          /\ FreeIdx(r)' = Index =>
               \E u \in Thread : /\ local'[u].at = "take" /\ local'[u].desc = e
                                 /\ Head(freeList'[e]).page = r
    BY <2>1, <2>2, <2>4, <2>6, <2>7, <2>8 DEF ArenaOK
  <2> QED
    BY <2>2, <2>9, <2>10 DEF ArenaOK
<1>4. ASSUME NEW r \in Page, kind'[r] \notin Desc PROVE ArenaOK(r)'
  BY <1>4 DEF ArenaOK, Lives
<1> QED
  BY <1>2, <1>3, <1>4

\* The blocks of an arena are numbered.
LEMMA IndexSize ==
  /\ IsFiniteSet(Index) /\ Cardinality(Index) = BlocksPerArena
  /\ \A p \in Page : IsFiniteSet(FreeIdx(p)) /\ FreeIdx(p) \subseteq Index
  /\ BlocksPerArena \in Nat \ {0}
<1>1. BlocksPerArena \in Nat \ {0} /\ 0 \in Int /\ BlocksPerArena - 1 \in Int
  BY AllocAssumption
<1>2. IsFiniteSet(Index) /\ Cardinality(Index) = BlocksPerArena
  BY <1>1, FS_Interval DEF Index
<1>3. \A p \in Page : FreeIdx(p) \in SUBSET Index
  BY DEF FreeIdx
<1> QED
  BY <1>1, <1>2, <1>3, FS_Subset

-----------------------------------------------------------------------------
\* The blocks of an arena are told apart by their numbers.
LEMMA BlocksDiffer ==
  ASSUME NEW p, NEW i, NEW j, Block(p, i) = Block(p, j) PROVE i = j
<1>1. Block(p, i).idx = i /\ Block(p, j).idx = j
  BY DEF Block
<1> QED
  BY <1>1

\* The first block of the list goes to t.
LEMMA TakeStep ==
  ASSUME AllocInv, NEW t \in Thread, Take(t) PROVE AllocInv'
<1>1. PICK m \in Frame : m = local[t]
  BY FrameTypes DEF AllocInv
<1>2. /\ Types /\ Locks /\ FrameOK(t, m) /\ ListOK(m) /\ ListsOK
      /\ m.at = "take" /\ m.for = "arena" /\ m.desc \in Desc
      /\ InTransit(t) = {} /\ ~Moving(m) /\ InDesc(m)
      /\ UNCHANGED <<used, poolLock, kind, descLock, owned>>
  BY <1>1 DEF Take, Does, AllocInv, FrameOK, InTransit, Moving, InDesc
<1>3. PICK d \in Desc : d = m.desc
  BY <1>2
<1>4. /\ freeList[d] \in Seq(Mem) /\ freeList[d] # <<>>
      /\ \A j, k \in DOMAIN freeList[d] : freeList[d][j] = freeList[d][k] => j = k
  BY <1>2, <1>3 DEF Types, ListOK, ListsOK
<1>5. PICK b : b = Head(freeList[d])
  OBVIOUS
<1>6. Listed(d, b)
  BY <1>4, <1>5, TailFacts DEF Listed
<1>7. IsBlock(b) /\ kind[b.page] = d
  BY <1>2, <1>6 DEF Listed, ListsOK
<1>8. PICK p \in Page, i0 \in Index : p = b.page /\ b = Block(p, i0)
  BY <1>7, BlockTypes
<1>9. /\ freeList' = [freeList EXCEPT ![d] = Tail(freeList[d])]
      /\ cnt' = [cnt EXCEPT ![p] = cnt[p] - 1]
      /\ panic' = FALSE
      /\ local' = [local EXCEPT ![t] = [m EXCEPT !.at = "dunlock", !.mem = b]]
  BY <1>1, <1>2, <1>3, <1>5, <1>7, <1>8 DEF Take, IsArena, Types
<1>10. PICK l \in Frame :
         /\ local' = [local EXCEPT ![t] = l]
         /\ l.at = "dunlock" /\ l.for = m.for /\ l.desc = d /\ l.n = m.n
         /\ l.mem = b /\ l.old = m.old
  <2>1. [m EXCEPT !.at = "dunlock", !.mem = b] \in Frame
    BY <1>7, BlockTypes DEF Frame, Labels
  <2>2. PICK l \in Frame : l = [m EXCEPT !.at = "dunlock", !.mem = b]
    BY <2>1
  <2> QED
    BY <1>3, <1>9, <2>2 DEF Frame
<1>11. /\ local' \in [Thread -> Frame] /\ local'[t] = l
       /\ \A u \in Thread \ {t} : local'[u] = local[u]
  BY <1>2, <1>10, LocalTypes
<1>12. ArenaOK(p) /\ kind[p] = d /\ Listed(d, Block(p, i0))
  BY <1>6, <1>7, <1>8 DEF AllocInv
<1>13. Lives(p) /\ i0 \in FreeIdx(p) /\ \A u \in Thread : ~Has(u, b)
  BY <1>8, <1>12 DEF ArenaOK, FreeIdx
<1>14. /\ cnt[p] = Cardinality(FreeIdx(p)) /\ IsFiniteSet(FreeIdx(p))
       /\ Cardinality(FreeIdx(p) \ {i0}) = cnt[p] - 1 /\ cnt[p] - 1 \in Nat
  <2>1. cnt[p] = Cardinality(FreeIdx(p)) /\ IsFiniteSet(FreeIdx(p))
    BY <1>12, <1>13, IndexSize DEF ArenaOK
  <2>2. /\ IsFiniteSet(FreeIdx(p) \ {i0})
        /\ Cardinality(FreeIdx(p) \ {i0}) = Cardinality(FreeIdx(p)) - 1
    BY <1>13, <2>1, FS_RemoveElement
  <2> QED
    BY <2>1, <2>2, FS_CardinalityType
<1>15. /\ cnt' \in [Page -> Nat] /\ cnt'[p] = cnt[p] - 1
       /\ \A r \in Page \ {p} : cnt'[r] = cnt[r]
  BY <1>2, <1>9, <1>14 DEF Types
<1>16. /\ Tail(freeList[d]) \in Seq(Mem)
       /\ \A j, k \in DOMAIN Tail(freeList[d]) :
            Tail(freeList[d])[j] = Tail(freeList[d])[k] => j = k
       /\ \A c : (\E k \in DOMAIN Tail(freeList[d]) : Tail(freeList[d])[k] = c)
                   <=> c # b /\ \E k \in DOMAIN freeList[d] : freeList[d][k] = c
  BY <1>4, <1>5, TailFacts
<1>17. /\ freeList' \in [Desc -> Seq(Mem)] /\ freeList'[d] = Tail(freeList[d])
       /\ \A e \in Desc \ {d} : freeList'[e] = freeList[e]
  BY <1>2, <1>9, <1>16 DEF Types
<1>18. \A c : Listed(d, c)' <=> c # b /\ Listed(d, c)
  BY <1>16, <1>17 DEF Listed
<1>19. Types'
  BY <1>2, <1>9, <1>11, <1>15, <1>17 DEF Types
<1>20. descLock[d] = t
  BY <1>1, <1>2, <1>3 DEF Locks
<1>21. Mine(t)
  BY <1>2, <1>11, <1>12, <1>15, <1>17, <1>20, KindsDiffer DEF Mine
<1>22. InDesc(l) /\ Moving(l)
  <2>1. b # NoMem
    BY <1>7, BlockTypes
  <2> QED
    BY <1>2, <1>10, <2>1 DEF InDesc, Moving
<1>23. Locks'
  BY <1>1, <1>2, <1>3, <1>10, <1>11, <1>21, <1>22, LocksSame DEF PoolLabels
<1>24. InTransit(t)' = {}
  BY <1>10, <1>11 DEF InTransit
<1>25. MineOK(t)'
  <2>1. FrameOK(t, l)'
    BY <1>2, <1>3, <1>10 DEF FrameOK, Gets
  <2>2. ScanOK(l)' /\ ListOK(l)'
    BY <1>10 DEF ScanOK, ListOK, Gets
  <2>3. MovingOK(t, l)'
    <3>1. b \notin owned[t]
      BY <1>13 DEF Has
    <3> QED
      BY <1>2, <1>7, <1>10, <3>1 DEF MovingOK
  <2>4. TransitOK(t)'
    BY <1>24 DEF TransitOK
  <2>5. \A x \in owned'[t] : OwnedOK(x)'
    BY <1>2, <1>21, OwnedKept
  <2> QED
    BY <1>11, <2>1, <2>2, <2>3, <2>4, <2>5 DEF MineOK
<1>26. ASSUME NEW x \in Mem, NEW r \in Page PROVE Covers(t, x, r)' <=> Covers(t, x, r)
  <2>1. CASE x \in owned[t]
    BY <1>2, <1>21, <2>1, OwnedKept
  <2>2. CASE x \notin owned[t]
    BY <1>2, <1>24, <2>2 DEF Covers
  <2> QED
    BY <2>1, <2>2
<1>27. Disjoint' /\ \A r \in Page : Accounted(r)'
  BY <1>2, <1>21, <1>26, PagesQuiet
<1>28. \A c : Has(t, c)' <=> c = b \/ Has(t, c)
  BY <1>1, <1>2, <1>10, <1>11, <1>22 DEF Has
<1>29. ArenaOK(p)'
  <2>1. kind'[p] = d /\ kind[p] = d
    BY <1>2, <1>12
  <2>2. Lives(p)'
    BY <1>2, <1>10, <1>11, <1>13 DEF Lives, Dies
  <2>3. \A i \in Index : Listed(d, Block(p, i))' <=> i # i0 /\ Listed(d, Block(p, i))
    BY <1>8, <1>18, BlocksDiffer
  <2>4. FreeIdx(p)' = FreeIdx(p) \ {i0}
    BY <2>1, <2>3 DEF FreeIdx
  <2>5. cnt'[p] = Cardinality(FreeIdx(p)') /\ FreeIdx(p)' # Index
    BY <1>14, <1>15, <2>4
  <2>6. \A u \in Thread \ {t} : \A c : Has(u, c)' <=> Has(u, c)
    BY <1>21, OthersKept
  <2>7. ASSUME NEW i \in Index
        PROVE  /\ \A v, u \in Thread : Has(v, Block(p, i))' /\ Has(u, Block(p, i))' => v = u
               /\ Listed(d, Block(p, i))' => \A v \in Thread : ~Has(v, Block(p, i))'
               /\ \/ Listed(d, Block(p, i))'
                  \/ \E v \in Thread : Has(v, Block(p, i))'
    <3>1. CASE i = i0
      <4>1. Block(p, i) = b
        BY <1>8, <3>1
      <4>2. Has(t, b)' /\ \A u \in Thread \ {t} : ~Has(u, b)'
        BY <1>13, <1>28, <2>6
      <4> QED
        BY <2>3, <3>1, <4>1, <4>2
    <3>2. CASE i # i0
      <4>1. Block(p, i) # b
        BY <1>8, <3>2, BlocksDiffer
      <4>2. \A u \in Thread : Has(u, Block(p, i))' <=> Has(u, Block(p, i))
        BY <1>28, <2>6, <4>1
      <4>3. Listed(d, Block(p, i))' <=> Listed(d, Block(p, i))
        BY <2>3, <3>2
      <4> QED
        BY <1>12, <1>13, <2>1, <4>2, <4>3 DEF ArenaOK
    <3> QED
      BY <3>1, <3>2
  <2> QED
    BY <2>1, <2>2, <2>5, <2>7 DEF ArenaOK
<1>30. ListsOK' /\ \A r \in Page : ArenaOK(r)'
  <2>1. \A c : c.page # p => (Listed(d, c)' <=> Listed(d, c)) /\ (Has(t, c)' <=> Has(t, c))
    BY <1>8, <1>18, <1>28
  <2>2. \A c : Listed(d, c)' => IsBlock(c)
    BY <1>2, <1>18 DEF Listed, ListsOK
  <2>3. \A r \in Page \ {p} : Dies(local'[t], r) <=> Dies(local[t], r)
    BY <1>1, <1>2, <1>10, <1>11 DEF Dies
  <2>4. InDesc(local[t]) /\ local[t].desc = d /\ Head(freeList[d]).page = p
    BY <1>1, <1>2, <1>3, <1>5, <1>8
  <2>5. \A j, k \in DOMAIN freeList'[d] : freeList'[d][j] = freeList'[d][k] => j = k
    BY <1>16, <1>17
  <2>6. kind'[p] = d /\ \A r \in Page \ {p} : kind'[r] = kind[r] /\ cnt'[r] = cnt[r]
    BY <1>2, <1>12, <1>15
  <2> QED
    BY <1>17, <1>21, <1>29, <2>1, <2>2, <2>3, <2>4, <2>5, <2>6, ArenasMove
<1> QED
  BY <1>19, <1>21, <1>23, <1>25, <1>27, <1>30, Assemble

\* Block i0 of the arena on page p is what t, whose frame is m, gives back to d.
GivesBack(t, m, d, p, i0) ==
  /\ m.desc = d /\ m.mem = Block(p, i0) /\ kind[p] = d
  /\ m.for = "free" /\ m.j = 0 /\ descLock[d] = t
  /\ InTransit(t) = {} /\ InDesc(m)
  /\ Block(p, i0) \notin owned[t] /\ Has(t, Block(p, i0))
  /\ \A u \in Thread \ {t} : ~Has(u, Block(p, i0))
  /\ Lives(p) /\ ~Listed(d, Block(p, i0)) /\ i0 \notin FreeIdx(p)
  /\ cnt[p] \in Nat /\ cnt[p] + 1 = Cardinality(FreeIdx(p) \cup {i0})

\* What is known of a block that joins the free list.
LEMMA PutTypes ==
  ASSUME AllocInv, NEW t \in Thread, NEW m, m = local[t], m.at = "put"
  PROVE  \E d \in Desc, p \in Page, i0 \in Index : GivesBack(t, m, d, p, i0)
<1>1. /\ Types /\ Locks /\ FrameOK(t, m) /\ MovingOK(t, m)
      /\ Moving(m) /\ InTransit(t) = {}
  BY DEF AllocInv, Moving, InTransit
<1>2. PICK d \in Desc : d = m.desc
  BY <1>1 DEF FrameOK
<1>3. PICK b : b = m.mem
  OBVIOUS
<1>4. IsBlock(b) /\ kind[b.page] = d /\ b \notin owned[t]
  BY <1>1, <1>2, <1>3 DEF MovingOK
<1>5. PICK p \in Page, i0 \in Index : p = b.page /\ b = Block(p, i0)
  BY <1>4, BlockTypes
<1>6. m.for = "free" /\ m.j = 0 /\ InDesc(m)
  BY <1>1 DEF FrameOK, InDesc
<1>7. descLock[d] = t
  BY <1>1, <1>2, <1>6 DEF Locks
<1>8. Has(t, b) /\ ArenaOK(p) /\ kind[p] = d
  BY <1>1, <1>3, <1>4, <1>5 DEF Has, AllocInv
<1>9. Lives(p) /\ ~Listed(d, b) /\ \A u \in Thread \ {t} : ~Has(u, b)
  BY <1>5, <1>8 DEF ArenaOK
<1>10. i0 \notin FreeIdx(p)
  BY <1>5, <1>8, <1>9 DEF FreeIdx
<1>11. cnt[p] = Cardinality(FreeIdx(p)) /\ IsFiniteSet(FreeIdx(p)) /\ cnt[p] \in Nat
  BY <1>1, <1>8, <1>9, IndexSize DEF ArenaOK, Types
<1>12. cnt[p] + 1 = Cardinality(FreeIdx(p) \cup {i0})
  BY <1>10, <1>11, FS_AddElement
<1>13. GivesBack(t, m, d, p, i0)
  BY <1>1, <1>2, <1>3, <1>4, <1>5, <1>6, <1>7, <1>8, <1>9, <1>10, <1>11, <1>12 DEF GivesBack
<1> QED
  BY <1>13

\* The block of t joins the list, and the arena stays.
LEMMA PutOne ==
  ASSUME AllocInv, NEW t \in Thread, Put(t),
         ~(cnt[local[t].mem.page] + 1 >= BlocksPerArena)
  PROVE  AllocInv'
<1>1. PICK m \in Frame : m = local[t]
  BY FrameTypes DEF AllocInv
<1>2. /\ Types /\ Locks /\ FrameOK(t, m) /\ ListsOK /\ m.at = "put"
      /\ UNCHANGED <<used, poolLock, kind, descLock, owned>>
  BY <1>1 DEF Put, Does, AllocInv
<1>3. PICK d \in Desc, p \in Page, i0 \in Index : GivesBack(t, m, d, p, i0)
  BY <1>1, <1>2, PutTypes
<1> USE DEF GivesBack
<1>4. PICK b : b = Block(p, i0)
  OBVIOUS
<1>5. b.page = p /\ IsBlock(b) /\ b \in Mem
  BY <1>4, BlockTypes DEF IsBlock, Block
<1>6. /\ freeList' = [freeList EXCEPT ![d] = <<b>> \o freeList[d]]
      /\ cnt' = [cnt EXCEPT ![p] = cnt[p] + 1] /\ panic' = FALSE
      /\ local' = Goto(t, "dunlock") /\ cnt[p] + 1 # BlocksPerArena
  BY <1>1, <1>2, <1>3, <1>4, <1>5, IndexSize DEF Put, Types
<1>7. /\ local' \in [Thread -> Frame] /\ local'[t] = [m EXCEPT !.at = "dunlock"]
      /\ \A u \in Thread \ {t} : local'[u] = local[u]
  BY <1>1, <1>2, <1>6, GotoTypes DEF Labels
<1>8. PICK l \in Frame :
        /\ local'[t] = l /\ l.at = "dunlock" /\ l.for = "free" /\ l.desc = d
        /\ l.n = m.n /\ l.mem = b /\ l.old = m.old
  BY <1>3, <1>4, <1>7 DEF Frame
<1>9. /\ freeList[d] \in Seq(Mem) /\ \A k \in DOMAIN freeList[d] : freeList[d][k] # b
      /\ \A j, k \in DOMAIN freeList[d] : freeList[d][j] = freeList[d][k] => j = k
  BY <1>2, <1>3, <1>4 DEF Types, ListsOK, Listed
<1>10. /\ <<b>> \o freeList[d] \in Seq(Mem)
       /\ \A j, k \in DOMAIN (<<b>> \o freeList[d]) :
            (<<b>> \o freeList[d])[j] = (<<b>> \o freeList[d])[k] => j = k
       /\ \A c : (\E k \in DOMAIN (<<b>> \o freeList[d]) : (<<b>> \o freeList[d])[k] = c)
                   <=> c = b \/ \E k \in DOMAIN freeList[d] : freeList[d][k] = c
  BY <1>5, <1>9, PushFacts
<1>11. /\ freeList' \in [Desc -> Seq(Mem)] /\ freeList'[d] = <<b>> \o freeList[d]
       /\ \A e \in Desc \ {d} : freeList'[e] = freeList[e]
  BY <1>2, <1>6, <1>10 DEF Types
<1>12. \A c : Listed(d, c)' <=> c = b \/ Listed(d, c)
  BY <1>10, <1>11 DEF Listed
<1>13. /\ cnt' \in [Page -> Nat] /\ cnt'[p] = cnt[p] + 1
       /\ \A r \in Page \ {p} : cnt'[r] = cnt[r]
  BY <1>2, <1>3, <1>6 DEF Types
<1>14. Types'
  BY <1>2, <1>6, <1>7, <1>11, <1>13 DEF Types
<1>15. Mine(t)
  BY <1>2, <1>3, <1>7, <1>11, <1>13, KindsDiffer DEF Mine
<1>16. InDesc(l) /\ ~Moving(l) /\ InTransit(t)' = {}
  BY <1>8 DEF InDesc, Moving, InTransit
<1>17. Locks'
  BY <1>1, <1>2, <1>3, <1>8, <1>15, <1>16, LocksSame DEF PoolLabels
<1>18. MineOK(t)'
  <2>1. FrameOK(t, l)'
    BY <1>2, <1>3, <1>8 DEF FrameOK, Gets
  <2>2. ScanOK(l)' /\ ListOK(l)' /\ MovingOK(t, l)'
    BY <1>8, <1>16 DEF ScanOK, ListOK, MovingOK
  <2>3. TransitOK(t)'
    BY <1>16 DEF TransitOK
  <2>4. \A x \in owned'[t] : OwnedOK(x)'
    BY <1>2, <1>15, OwnedKept
  <2> QED
    BY <1>8, <2>1, <2>2, <2>3, <2>4 DEF MineOK
<1>19. ASSUME NEW x \in Mem, NEW r \in Page PROVE Covers(t, x, r)' <=> Covers(t, x, r)
  <2>1. CASE x \in owned[t]
    BY <1>2, <1>15, <2>1, OwnedKept
  <2>2. CASE x \notin owned[t]
    BY <1>2, <1>3, <1>16, <2>2 DEF Covers
  <2> QED
    BY <2>1, <2>2
<1>20. Disjoint' /\ \A r \in Page : Accounted(r)'
  BY <1>2, <1>15, <1>19, PagesQuiet
<1>21. \A c : Has(t, c)' <=> c # b /\ Has(t, c)
  BY <1>1, <1>2, <1>3, <1>4, <1>8, <1>16 DEF Has, Moving
<1>22. ArenaOK(p)'
  <2>1. kind'[p] = d /\ ArenaOK(p) /\ kind[p] = d
    BY <1>2, <1>3 DEF AllocInv
  <2>2. Lives(p)'
    BY <1>2, <1>3, <1>7, <1>8 DEF Lives, Dies
  <2>3. \A i \in Index : Listed(d, Block(p, i))' <=> i = i0 \/ Listed(d, Block(p, i))
    BY <1>4, <1>12, BlocksDiffer
  <2>4. FreeIdx(p)' = FreeIdx(p) \cup {i0}
    BY <2>1, <2>3 DEF FreeIdx
  <2>5. cnt'[p] = Cardinality(FreeIdx(p)') /\ FreeIdx(p)' # Index
    BY <1>3, <1>6, <1>13, <2>4, IndexSize
  <2>6. \A u \in Thread \ {t} : \A c : Has(u, c)' <=> Has(u, c)
    BY <1>15, OthersKept
  <2>7. ASSUME NEW i \in Index
        PROVE  /\ \A v, u \in Thread : Has(v, Block(p, i))' /\ Has(u, Block(p, i))' => v = u
               /\ Listed(d, Block(p, i))' => \A v \in Thread : ~Has(v, Block(p, i))'
               /\ \/ Listed(d, Block(p, i))'
                  \/ \E v \in Thread : Has(v, Block(p, i))'
    <3>1. CASE i = i0
      <4>1. Block(p, i) = b
        BY <1>4, <3>1
      <4>2. \A u \in Thread : ~Has(u, b)'
        BY <1>3, <1>4, <1>21, <2>6
      <4> QED
        BY <2>3, <3>1, <4>1, <4>2
    <3>2. CASE i # i0
      <4>1. Block(p, i) # b
        BY <1>4, <3>2, BlocksDiffer
      <4>2. \A u \in Thread : Has(u, Block(p, i))' <=> Has(u, Block(p, i))
        BY <1>21, <2>6, <4>1
      <4>3. Listed(d, Block(p, i))' <=> Listed(d, Block(p, i))
        BY <2>3, <3>2
      <4> QED
        BY <1>3, <2>1, <4>2, <4>3 DEF ArenaOK
    <3> QED
      BY <3>1, <3>2
  <2> QED
    BY <2>1, <2>2, <2>5, <2>7 DEF ArenaOK
<1>23. ListsOK' /\ \A r \in Page : ArenaOK(r)'
  <2>1. \A c : c.page # p => (Listed(d, c)' <=> Listed(d, c)) /\ (Has(t, c)' <=> Has(t, c))
    BY <1>5, <1>12, <1>21
  <2>2. \A c : Listed(d, c)' => IsBlock(c)
    <3>1. \A c : Listed(d, c) => IsBlock(c)
      BY <1>2 DEF Listed, ListsOK
    <3> QED
      BY <1>5, <1>12, <3>1
  <2>3. \A r \in Page \ {p} : Dies(local'[t], r) <=> Dies(local[t], r)
    BY <1>1, <1>2, <1>8 DEF Dies
  <2>4. InDesc(local[t]) /\ local[t].desc = d /\ local[t].at # "take"
    BY <1>1, <1>2, <1>3
  <2>5. \A j, k \in DOMAIN freeList'[d] : freeList'[d][j] = freeList'[d][k] => j = k
    BY <1>10, <1>11
  <2>6. kind'[p] = d /\ \A r \in Page \ {p} : kind'[r] = kind[r] /\ cnt'[r] = cnt[r]
    BY <1>2, <1>3, <1>13
  <2> QED
    BY <1>11, <1>15, <1>22, <2>1, <2>2, <2>3, <2>4, <2>5, <2>6, ArenasMove
<1> QED
  BY <1>14, <1>15, <1>17, <1>18, <1>20, <1>23, Assemble

\* Pages that are handed out as such are no part of an arena.
LEMMA WholeKinds ==
  ASSUME AllocInv, NEW u \in Thread, NEW x \in owned[u], Whole(x)
  PROVE  \A r \in PagesOf(x) : kind[r] \in {"client", "big"}
<1>1. OwnedOK(x) /\ x.page \in Nat /\ x.n \in Nat
  BY OwnedPages, MemTypes DEF AllocInv
<1>2. CASE x.idx = -1
  BY <1>1, <1>2 DEF OwnedOK, PagesOf
<1>3. CASE x.idx # -1
  BY <1>1, <1>3 DEF OwnedOK, PagesOf, Whole
<1> QED
  BY <1>2, <1>3

\* Nobody has the page of an arena as such.
LEMMA LiveUncovered ==
  ASSUME AllocInv, NEW p \in Page, Lives(p)
  PROVE  \A u \in Thread, x \in Mem : ~Covers(u, x, p)
<1>1. SUFFICES ASSUME NEW u \in Thread, NEW x \in Mem, Covers(u, x, p) PROVE FALSE
  OBVIOUS
<1>2. kind[p] \in Desc
  BY DEF Lives
<1>3. CASE p \in InTransit(u)
  BY <1>2, <1>3, Apart
<1>4. CASE x \in owned[u] /\ Whole(x) /\ p \in PagesOf(x)
  BY <1>2, <1>4, WholeKinds, KindsDiffer
<1> QED
  BY <1>1, <1>3, <1>4 DEF Covers

\* The block of t is the last one in use: the arena goes back.
LEMMA PutLast ==
  ASSUME AllocInv, NEW t \in Thread, Put(t),
         cnt[local[t].mem.page] + 1 >= BlocksPerArena
  PROVE  AllocInv'
<1>1. PICK m \in Frame : m = local[t]
  BY FrameTypes DEF AllocInv
<1>2. /\ Types /\ Locks /\ FrameOK(t, m) /\ ListsOK /\ m.at = "put"
      /\ UNCHANGED <<used, poolLock, kind, descLock, owned>>
  BY <1>1 DEF Put, Does, AllocInv
<1>3. PICK d \in Desc, p \in Page, i0 \in Index : GivesBack(t, m, d, p, i0)
  BY <1>1, <1>2, PutTypes
<1> USE DEF GivesBack
<1>4. PICK b : b = Block(p, i0)
  OBVIOUS
<1>5. b.page = p /\ IsBlock(b) /\ b \in Mem
  BY <1>4, BlockTypes DEF IsBlock, Block
<1>6. cnt[p] + 1 = BlocksPerArena /\ FreeIdx(p) \cup {i0} = Index
  <2>1. cnt[p] + 1 >= BlocksPerArena
    BY <1>1, <1>3, <1>4, <1>5
  <2>2. FreeIdx(p) \cup {i0} \in SUBSET Index
    BY <1>3, IndexSize
  <2>3. /\ Cardinality(FreeIdx(p) \cup {i0}) <= Cardinality(Index)
        /\ Cardinality(FreeIdx(p) \cup {i0}) = Cardinality(Index)
             => FreeIdx(p) \cup {i0} = Index
    BY <2>2, IndexSize, FS_Subset
  <2> QED
    BY <1>3, <2>1, <2>3, IndexSize
<1>7. /\ freeList' = [freeList EXCEPT ![d] = Without(freeList[d], p)]
      /\ cnt' = [cnt EXCEPT ![p] = cnt[p] + 1] /\ panic' = FALSE
      /\ local' = [local EXCEPT ![t] = [m EXCEPT !.at = "fill", !.mem = Pages(p, 1)]]
  <2>1. local[t] = m /\ m.mem.page = p /\ m.desc = d
    BY <1>1, <1>3, <1>4, <1>5
  <2>2. cnt' = [cnt EXCEPT ![p] = cnt[p] + 1]
    BY <2>1 DEF Put
  <2>3. /\ panic' = (cnt[p] + 1 # BlocksPerArena)
        /\ freeList' = [freeList EXCEPT ![d] = Without(freeList[d], p)]
        /\ local' = [local EXCEPT ![t] = [m EXCEPT !.at = "fill", !.mem = Pages(p, 1)]]
    BY <2>1 DEF Put
  <2> QED
    BY <1>6, <2>2, <2>3
<1>8. PICK l \in Frame :
        /\ local' = [local EXCEPT ![t] = l]
        /\ l.at = "fill" /\ l.for = "free" /\ l.desc = d /\ l.n = m.n /\ l.j = 0
        /\ l.mem = Pages(p, 1) /\ l.old = m.old
  <2>1. Pages(p, 1) \in Mem
    BY AllocAssumption DEF Pages, Mem
  <2>2. [m EXCEPT !.at = "fill", !.mem = Pages(p, 1)] \in Frame
    BY <2>1 DEF Frame, Labels
  <2>3. PICK l \in Frame : l = [m EXCEPT !.at = "fill", !.mem = Pages(p, 1)]
    BY <2>2
  <2> QED
    BY <1>3, <1>7, <2>3 DEF Frame
<1>9. /\ local' \in [Thread -> Frame] /\ local'[t] = l
      /\ \A u \in Thread \ {t} : local'[u] = local[u]
  BY <1>2, <1>8, LocalTypes
<1>10. /\ freeList[d] \in Seq(Mem)
       /\ \A j, k \in DOMAIN freeList[d] : freeList[d][j] = freeList[d][k] => j = k
  BY <1>2 DEF Types, ListsOK
<1>11. /\ Without(freeList[d], p) \in Seq(Mem)
       /\ \A j, k \in DOMAIN Without(freeList[d], p) :
            Without(freeList[d], p)[j] = Without(freeList[d], p)[k] => j = k
       /\ \A c : (\E k \in DOMAIN Without(freeList[d], p) : Without(freeList[d], p)[k] = c)
                   <=> c.page # p /\ \E k \in DOMAIN freeList[d] : freeList[d][k] = c
  BY <1>10, WithoutFacts
<1>12. /\ freeList' \in [Desc -> Seq(Mem)] /\ freeList'[d] = Without(freeList[d], p)
       /\ \A e \in Desc \ {d} : freeList'[e] = freeList[e]
  BY <1>2, <1>7, <1>11 DEF Types
<1>13. \A c : Listed(d, c)' <=> c.page # p /\ Listed(d, c)
  BY <1>11, <1>12 DEF Listed
<1>14. /\ cnt' \in [Page -> Nat] /\ cnt'[p] = cnt[p] + 1
       /\ \A r \in Page \ {p} : cnt'[r] = cnt[r]
  BY <1>2, <1>3, <1>7 DEF Types
<1>15. Types'
  BY <1>2, <1>7, <1>9, <1>12, <1>14 DEF Types
<1>16. Mine(t)
  BY <1>2, <1>3, <1>9, <1>12, <1>14, KindsDiffer DEF Mine
<1>17. InDesc(l) /\ ~Moving(l)
  BY <1>8 DEF InDesc, Moving
<1>18. Locks'
  BY <1>1, <1>2, <1>3, <1>8, <1>9, <1>16, <1>17, LocksSame DEF PoolLabels
<1>19. /\ l.mem.page = p /\ l.mem.n = 1 /\ l.mem = Pages(l.mem.page, l.mem.n)
       /\ p \in Nat /\ p + 1 <= PageCnt
  BY <1>8, NoMemTypes DEF Pages, Page
<1>20. InTransit(t)' = {p}
  <2>1. InTransit(t)' = p .. p + 1 - 1
    BY <1>8, <1>9, <1>19 DEF InTransit, Span
  <2> QED
    BY <1>19, <2>1
<1>21. MineOK(t)'
  <2>1. FrameOK(t, l)'
    BY <1>2, <1>3, <1>8, <1>19 DEF FrameOK, Gets
  <2>2. ScanOK(l)' /\ ListOK(l)' /\ MovingOK(t, l)'
    BY <1>8, <1>17 DEF ScanOK, ListOK, MovingOK
  <2>3. TransitOK(t)'
    BY <1>2, <1>3, <1>8, <1>9, <1>20 DEF TransitOK
  <2>4. \A x \in owned'[t] : OwnedOK(x)'
    BY <1>2, <1>16, OwnedKept
  <2> QED
    BY <1>9, <2>1, <2>2, <2>3, <2>4 DEF MineOK
<1>22. ASSUME NEW x \in Mem, NEW r \in Page
       PROVE  Covers(t, x, r)' <=> (x = NoMem /\ r = p) \/ Covers(t, x, r)
  <2>1. CASE x \in owned[t]
    BY <1>2, <1>16, <2>1, OwnedKept, OwnedPages
  <2>2. CASE x \notin owned[t]
    BY <1>2, <1>3, <1>20, <2>2 DEF Covers
  <2> QED
    BY <2>1, <2>2
<1>23. \A u \in Thread, x \in Mem : ~Covers(u, x, p)
  BY <1>3, LiveUncovered
<1>24. Disjoint'
  <2>1. \A r \in Page, x, y \in Mem : Covers(t, x, r)' /\ Covers(t, y, r)' => x = y
    BY <1>22, <1>23 DEF AllocInv, Disjoint
  <2>2. \A r \in Page : Covered(t, r)' =>
          Covered(t, r) \/ \A u \in Thread : ~Covered(u, r)
    BY <1>22, <1>23 DEF Covered
  <2> QED
    BY <1>16, <2>1, <2>2, DisjointStep
<1>25. ASSUME NEW r \in Page PROVE Accounted(r)'
  <2>1. CASE r = p
    <3>1. used[p] = TRUE
      BY <1>2, <1>3 DEF AllocInv, Accounted, Types
    <3> QED
      BY <1>2, <1>3, <1>16, <2>1, <3>1, AccountedStep
  <2>2. CASE r # p
    <3>1. Covered(t, r)' <=> Covered(t, r)
      BY <1>22, <2>2 DEF Covered
    <3> QED
      BY <1>2, <1>16, <2>2, <3>1, AccountedStep
  <2> QED
    BY <2>1, <2>2
<1>26. \A c : Has(t, c)' <=> c # b /\ Has(t, c)
  BY <1>1, <1>2, <1>3, <1>4, <1>9, <1>17 DEF Has, Moving
<1>27. ArenaOK(p)'
  <2>1. kind'[p] = d /\ ArenaOK(p) /\ kind[p] = d
    BY <1>2, <1>3 DEF AllocInv
  <2>2. ~Lives(p)'
    BY <1>8, <1>9, <1>19 DEF Lives, Dies
  <2>3. \A u \in Thread \ {t} : \A c : Has(u, c)' <=> Has(u, c)
    BY <1>16, OthersKept
  <2>4. ASSUME NEW i \in Index
        PROVE  ~Listed(d, Block(p, i))' /\ \A u \in Thread : ~Has(u, Block(p, i))'
    <3>1. ~Listed(d, Block(p, i))'
      <4>1. Block(p, i).page = p
        BY DEF Block
      <4> QED
        BY <1>13, <4>1
    <3>2. CASE i = i0
      BY <1>3, <1>4, <1>26, <2>3, <3>1, <3>2
    <3>3. CASE i # i0
      <4>1. Listed(d, Block(p, i))
        BY <1>3, <1>6, <3>3 DEF FreeIdx
      <4>2. \A u \in Thread : ~Has(u, Block(p, i))
        BY <2>1, <4>1 DEF ArenaOK
      <4> QED
        BY <1>26, <2>3, <3>1, <4>2
    <3> QED
      BY <3>2, <3>3
  <2> QED
    BY <2>1, <2>2, <2>4 DEF ArenaOK
<1>28. ListsOK' /\ \A r \in Page : ArenaOK(r)'
  <2>1. \A c : c.page # p => (Listed(d, c)' <=> Listed(d, c)) /\ (Has(t, c)' <=> Has(t, c))
    BY <1>5, <1>13, <1>26
  <2>2. \A c : Listed(d, c)' => IsBlock(c)
    BY <1>2, <1>13 DEF Listed, ListsOK
  <2>3. \A r \in Page \ {p} : Dies(local'[t], r) <=> Dies(local[t], r)
    BY <1>1, <1>2, <1>8, <1>9, <1>19 DEF Dies
  <2>4. InDesc(local[t]) /\ local[t].desc = d /\ local[t].at # "take"
    BY <1>1, <1>2, <1>3
  <2>5. \A j, k \in DOMAIN freeList'[d] : freeList'[d][j] = freeList'[d][k] => j = k
    BY <1>11, <1>12
  <2>6. kind'[p] = d /\ \A r \in Page \ {p} : kind'[r] = kind[r] /\ cnt'[r] = cnt[r]
    BY <1>2, <1>3, <1>14
  <2> QED
    BY <1>12, <1>16, <1>27, <2>1, <2>2, <2>3, <2>4, <2>5, <2>6, ArenasMove
<1> QED
  BY <1>15, <1>16, <1>18, <1>21, <1>24, <1>25, <1>28, Assemble

\* free() of a block, under the lock of its descriptor.
LEMMA PutStep ==
  ASSUME AllocInv, NEW t \in Thread, Put(t) PROVE AllocInv'
  BY PutOne, PutLast

-----------------------------------------------------------------------------
\* The list of the blocks of a new arena.
NewList(p) == <<>> \o [k \in 1 .. BlocksPerArena |-> Block(p, k - 1)]

\* It holds each block of the arena once.
LEMMA NewListFacts ==
  ASSUME NEW p \in Page
  PROVE  LET w == NewList(p) IN
         /\ w \in Seq(Mem) /\ w # <<>> /\ Head(w).page = p
         /\ \A j, k \in DOMAIN w : w[j] = w[k] => j = k
         /\ \A c : (\E k \in DOMAIN w : w[k] = c) <=> \E i \in Index : c = Block(p, i)
<1> DEFINE w == [k \in 1 .. BlocksPerArena |-> Block(p, k - 1)]
<1>0. BlocksPerArena \in Nat /\ BlocksPerArena >= 1
  BY AllocAssumption
<1>1. \A i \in Index : IsBlock(Block(p, i)) /\ Block(p, i) \in Mem
  <2>1. \A i \in Index : IsBlock(Block(p, i))
    BY DEF IsBlock, Block
  <2> QED
    BY <2>1, BlockTypes
<1>2. \A k \in 1 .. BlocksPerArena : k - 1 \in Index
  BY <1>0 DEF Index
<1>3. w \in [1 .. BlocksPerArena -> Mem]
  BY <1>1, <1>2
<1>4. w \in Seq(Mem)
  BY <1>0, <1>3, SeqDef
<1>5. NewList(p) = w
  BY <1>4, ConcatEmptySeq DEF NewList
<1>6. DOMAIN w = 1 .. BlocksPerArena /\ \A k \in 1 .. BlocksPerArena : w[k] = Block(p, k - 1)
  OBVIOUS
<1> HIDE DEF w
<1>7. ASSUME NEW j \in DOMAIN w, NEW k \in DOMAIN w, w[j] = w[k] PROVE j = k
  <2>1. j - 1 = k - 1
    BY <1>6, <1>7, BlocksDiffer
  <2> QED
    BY <1>0, <1>6, <2>1
<1>8. ASSUME NEW c, NEW k \in DOMAIN w, w[k] = c PROVE \E i \in Index : c = Block(p, i)
  BY <1>2, <1>6, <1>8
<1>9. ASSUME NEW i \in Index PROVE \E k \in DOMAIN w : w[k] = Block(p, i)
  <2>1. i + 1 \in 1 .. BlocksPerArena /\ (i + 1) - 1 = i
    BY <1>0 DEF Index
  <2> QED
    BY <1>6, <2>1
<1>10. Len(w) = BlocksPerArena
  BY <1>0, <1>4, <1>6, LenProperties
<1>11. w # <<>> /\ Head(w) = w[1]
  BY <1>0, <1>4, <1>10, EmptySeq
<1>12. Head(w).page = p
  BY <1>0, <1>6, <1>11 DEF Block
<1> QED
  BY <1>4, <1>5, <1>7, <1>8, <1>9, <1>11, <1>12

\* A new arena: all its blocks join the list.
LEMMA GotArenaStep ==
  ASSUME AllocInv, NEW t \in Thread, GotArena(t) PROVE AllocInv'
<1>0. CASE local[t].mem = NoMem
  BY <1>0, GotNothing
<1> SUFFICES ASSUME local[t].mem # NoMem PROVE AllocInv'
  BY <1>0
<1>1. PICK m \in Frame : m = local[t]
  BY FrameTypes DEF AllocInv
<1>2. /\ Types /\ Locks /\ FrameOK(t, m) /\ ListOK(m) /\ ListsOK
      /\ m.at = "got" /\ m.for = "arena" /\ m.n = 1 /\ m.mem # NoMem
      /\ UNCHANGED <<used, poolLock, descLock, owned, panic>>
  BY <1>1 DEF GotArena, Does, AllocInv, FrameOK, Gets
<1>3. PICK d \in Desc : d = m.desc
  BY <1>2 DEF FrameOK
<1>4. /\ InDesc(m) /\ ~Moving(m) /\ freeList[d] = <<>>
  BY <1>2, <1>3 DEF InDesc, Moving, ListOK, Gets
<1>5. PICK p \in Page : p = m.mem.page /\ InTransit(t) = {p}
  <2>1. /\ m.mem.page \in Page /\ m.mem.page \in Nat
        /\ InTransit(t) = Span(m.mem.page, 1)
    BY <1>1, <1>2, GotTypes
  <2>2. InTransit(t) = {m.mem.page}
    BY <2>1 DEF Span
  <2> QED
    BY <2>1, <2>2
<1>6. kind[p] = "junk"
  BY <1>1, <1>2, <1>5, GotTypes
<1>7. /\ kind' = [kind EXCEPT ![p] = d] /\ cnt' = [cnt EXCEPT ![p] = BlocksPerArena]
      /\ freeList' = [freeList EXCEPT ![d] = NewList(p)]
      /\ local' = Goto(t, "take")
  BY <1>1, <1>2, <1>3, <1>4, <1>5 DEF GotArena, NewList
<1>8. /\ local' \in [Thread -> Frame] /\ local'[t] = [m EXCEPT !.at = "take"]
      /\ \A u \in Thread \ {t} : local'[u] = local[u]
  BY <1>1, <1>2, <1>7, GotoTypes DEF Labels
<1>9. PICK l \in Frame :
        /\ local'[t] = l /\ l.at = "take" /\ l.for = "arena" /\ l.desc = d
        /\ l.n = 1 /\ l.mem = m.mem /\ l.old = m.old
  BY <1>2, <1>3, <1>8 DEF Frame
<1>10. PICK q : q = NewList(p)
  OBVIOUS
<1>11. /\ q \in Seq(Mem) /\ q # <<>> /\ Head(q).page = p
       /\ \A j, k \in DOMAIN q : q[j] = q[k] => j = k
       /\ \A c : (\E k \in DOMAIN q : q[k] = c) <=> \E i \in Index : c = Block(p, i)
  <2>1. LET w == NewList(p) IN
        /\ w \in Seq(Mem) /\ w # <<>> /\ Head(w).page = p
        /\ \A j, k \in DOMAIN w : w[j] = w[k] => j = k
        /\ \A c : (\E k \in DOMAIN w : w[k] = c) <=> \E i \in Index : c = Block(p, i)
    BY NewListFacts, Zenon
  <2> QED
    BY <1>10, <2>1
<1>12. /\ freeList' \in [Desc -> Seq(Mem)] /\ freeList'[d] = q
       /\ \A e \in Desc \ {d} : freeList'[e] = freeList[e]
  BY <1>2, <1>7, <1>10, <1>11 DEF Types
<1>13. \A c : Listed(d, c)' <=> \E i \in Index : c = Block(p, i)
  <2>1. \A c : Listed(d, c)' <=> \E k \in DOMAIN q : q[k] = c
    BY <1>12 DEF Listed
  <2> QED
    BY <1>11, <2>1
<1>14. \A i \in Index : IsBlock(Block(p, i)) /\ Block(p, i).page = p
  BY DEF IsBlock, Block
<1>15. /\ cnt' \in [Page -> Nat] /\ cnt'[p] = BlocksPerArena
       /\ \A r \in Page \ {p} : cnt'[r] = cnt[r]
       /\ kind' \in [Page -> Desc \cup {"client", "big", "junk"}] /\ kind'[p] = d
       /\ \A r \in Page \ {p} : kind'[r] = kind[r]
  BY <1>2, <1>7, IndexSize DEF Types
<1>16. Types'
  BY <1>2, <1>8, <1>12, <1>15 DEF Types
<1>17. descLock[d] = t
  BY <1>1, <1>2, <1>3, <1>4 DEF Locks
<1>18. Mine(t)
  BY <1>2, <1>5, <1>8, <1>12, <1>15, <1>17 DEF Mine
<1>19. InDesc(l) /\ ~Moving(l) /\ InTransit(t)' = {}
  BY <1>9 DEF InDesc, Moving, InTransit
<1>20. Locks'
  BY <1>1, <1>2, <1>3, <1>4, <1>9, <1>18, <1>19, LocksSame DEF PoolLabels
<1>21. MineOK(t)'
  <2>1. FrameOK(t, l)'
    BY <1>2, <1>9 DEF FrameOK, Gets
  <2>2. ScanOK(l)' /\ MovingOK(t, l)'
    BY <1>9, <1>19 DEF ScanOK, MovingOK
  <2>3. ListOK(l)'
    BY <1>9, <1>11, <1>12 DEF ListOK, Gets
  <2>4. TransitOK(t)'
    BY <1>19 DEF TransitOK
  <2>5. \A x \in owned'[t] : OwnedOK(x)'
    BY <1>2, <1>18, OwnedKept
  <2> QED
    BY <1>9, <2>1, <2>2, <2>3, <2>4, <2>5 DEF MineOK
<1>22. \A u \in Thread : \A x \in owned[u] : p \notin PagesOf(x) /\ x.page # p /\ x # NoMem
  BY <1>5, Apart, OwnedPages
<1>23. ASSUME NEW x \in Mem, NEW r \in Page
       PROVE  Covers(t, x, r)' <=> Covers(t, x, r) /\ r # p
  <2>1. CASE x \in owned[t]
    <3>1. Covers(t, x, r)' <=> Covers(t, x, r)
      BY <1>2, <1>18, <2>1, OwnedKept
    <3>2. ~Covers(t, x, p)
      BY <1>22, <2>1 DEF Covers
    <3> QED
      BY <3>1, <3>2
  <2>2. CASE x \notin owned[t]
    BY <1>2, <1>5, <1>19, <2>2 DEF Covers
  <2> QED
    BY <2>1, <2>2
<1>24. Disjoint'
  <2>1. \A r \in Page : Covered(t, r)' => Covered(t, r)
    BY <1>23 DEF Covered
  <2>2. \A r \in Page, x, y \in Mem : Covers(t, x, r)' /\ Covers(t, y, r)' => x = y
    BY <1>23 DEF AllocInv, Disjoint
  <2> QED
    BY <1>18, <2>1, <2>2, DisjointStep
<1>25. ASSUME NEW r \in Page PROVE Accounted(r)'
  <2>1. CASE r = p
    <3>1. Covers(t, NoMem, p) /\ used[p] \in BOOLEAN
      BY <1>2, <1>5 DEF Covers, Types
    <3>2. used[p] = TRUE
      BY <3>1, NoMemTypes DEF AllocInv, Accounted
    <3> QED
      BY <1>2, <1>15, <1>18, <2>1, <3>2, AccountedStep
  <2>2. CASE r # p
    <3>1. Covered(t, r)' <=> Covered(t, r)
      BY <1>23, <2>2 DEF Covered
    <3> QED
      BY <1>2, <1>15, <1>18, <2>2, <3>1, AccountedStep
  <2> QED
    BY <2>1, <2>2
<1>26. \A c : Has(t, c)' <=> Has(t, c)
  BY <1>1, <1>2, <1>4, <1>9, <1>19 DEF Has
<1>27. ArenaOK(p)'
  <2>1. Lives(p)'
    <3>1. ASSUME NEW u \in Thread \ {t}, Dies(local[u], p) PROVE FALSE
      <4>1. FrameOK(u, local[u]) /\ local[u].mem.page = p
            /\ local[u].at = "fill" /\ local[u].for = "free"
        BY <3>1 DEF Dies, AllocInv
      <4>2. InTransit(u) = Span(p, 1)
        BY <4>1 DEF FrameOK, InTransit
      <4>3. p \in InTransit(u)
        BY <4>2, NoMemTypes DEF Span, Page
      <4> QED
        BY <1>5, <4>3, Apart
    <3> QED
      BY <1>8, <1>9, <1>15, <3>1 DEF Lives, Dies
  <2>2. ASSUME NEW i \in Index
        PROVE  Listed(d, Block(p, i))' /\ \A u \in Thread : ~Has(u, Block(p, i))'
    <3>1. \A u \in Thread : ~Has(u, Block(p, i))
      <4>1. \A u \in Thread : Moving(local[u]) => local[u].mem.page # p
        BY <1>5, Apart
      <4> QED
        BY <1>14, <1>22, <4>1 DEF Has
    <3>2. \A u \in Thread \ {t} : ~Has(u, Block(p, i))'
      BY <1>18, <3>1, OthersKept
    <3> QED
      BY <1>13, <1>26, <3>1, <3>2
  <2>3. FreeIdx(p)' = Index
    BY <1>15, <2>2 DEF FreeIdx
  <2>4. cnt'[p] = Cardinality(FreeIdx(p)')
    BY <1>15, <2>3, IndexSize
  <2>5. local'[t].at = "take" /\ local'[t].desc = kind'[p]
        /\ Head(freeList'[kind'[p]]).page = p
    BY <1>9, <1>11, <1>12, <1>15
  <2> QED
    BY <1>15, <2>1, <2>2, <2>4, <2>5 DEF ArenaOK
<1>28. ListsOK' /\ \A r \in Page : ArenaOK(r)'
  <2>1. ASSUME NEW c, c.page # p PROVE Listed(d, c)' <=> Listed(d, c)
    <3>1. ~Listed(d, c)'
      BY <1>13, <1>14, <2>1
    <3>2. ~Listed(d, c)
      BY <1>4 DEF Listed
    <3> QED
      BY <3>1, <3>2
  <2>2. \A c : Listed(d, c)' => IsBlock(c)
    BY <1>13, <1>14
  <2>3. \A r \in Page \ {p} : Dies(local'[t], r) <=> Dies(local[t], r)
    BY <1>1, <1>2, <1>9 DEF Dies
  <2>4. InDesc(local[t]) /\ local[t].desc = d /\ local[t].at # "take"
    BY <1>1, <1>2, <1>3, <1>4
  <2>5. \A j, k \in DOMAIN freeList'[d] : freeList'[d][j] = freeList'[d][k] => j = k
    BY <1>11, <1>12
  <2> QED
    BY <1>12, <1>15, <1>18, <1>26, <1>27, <2>1, <2>2, <2>3, <2>4, <2>5, ArenasMove
<1> QED
  BY <1>16, <1>18, <1>20, <1>21, <1>24, <1>25, <1>28, Assemble

-----------------------------------------------------------------------------
\* Nothing is in use at the start.
LEMMA AllocInit == Init => AllocInv
<1> SUFFICES ASSUME Init PROVE AllocInv
  OBVIOUS
<1>1. /\ \A p \in Page : used[p] = FALSE /\ kind[p] = "junk" /\ cnt[p] = 0
      /\ \A d \in Desc : freeList[d] = <<>> /\ descLock[d] = None
      /\ \A t \in Thread : local[t] = InCode /\ owned[t] = {}
      /\ poolLock = None /\ panic = FALSE
  BY DEF Init
<1>2. InCode \in Frame /\ InCode.at = "code" /\ InCode.for = "client"
  BY NoMemTypes DEF InCode, Local, Frame, Labels
<1>3. Types
  BY <1>2 DEF Init, Types
<1>4. Locks
  BY <1>1, <1>2, AllocAssumption DEF Locks, InDesc
<1>5. \A t \in Thread : InTransit(t) = {} /\ ~Moving(local[t])
  BY <1>1, <1>2 DEF InTransit, Moving
<1>6. ASSUME NEW t \in Thread
      PROVE  /\ FrameOK(t, local[t]) /\ ScanOK(local[t]) /\ ListOK(local[t])
             /\ MovingOK(t, local[t]) /\ TransitOK(t)
             /\ \A x \in owned[t] : OwnedOK(x)
  <2>1. FrameOK(t, InCode)
    BY DEF FrameOK, InCode, Local, Gets
  <2>2. ScanOK(InCode) /\ ListOK(InCode)
    BY <1>2 DEF ScanOK, ListOK
  <2> QED
    BY <1>1, <1>5, <2>1, <2>2 DEF MovingOK, TransitOK
<1>7. \A t \in Thread, x \in Mem, p \in Page : ~Covers(t, x, p)
  BY <1>1, <1>5 DEF Covers
<1>8. Disjoint /\ \A p \in Page : Accounted(p)
  BY <1>1, <1>7, KindsDiffer DEF Disjoint, Accounted
<1>9. ListsOK /\ \A p \in Page : ArenaOK(p)
  BY <1>1, KindsDiffer DEF ListsOK, ArenaOK, Lives
<1> QED
  BY <1>3, <1>4, <1>6, <1>8, <1>9 DEF AllocInv

\* Every step keeps the invariant.
LEMMA AllocStep == AllocInv /\ [Next]_vars => AllocInv'
<1> SUFFICES ASSUME AllocInv, [Next]_vars PROVE AllocInv'
  OBVIOUS
<1>1. CASE UNCHANGED vars
  <2>1. UNCHANGED <<used, poolLock, kind, cnt, freeList, descLock, local, owned, panic>>
    BY <1>1 DEF vars
  <2>2. Types' /\ Locks' /\ ListsOK'
    BY <2>1 DEF AllocInv, Types, Locks, ListsOK
  <2>3. \A t \in Thread : InTransit(t)' = InTransit(t)
    BY <2>1 DEF InTransit
  <2>4. ASSUME NEW t \in Thread
        PROVE  /\ FrameOK(t, local[t])' /\ ScanOK(local[t])' /\ ListOK(local[t])'
               /\ MovingOK(t, local[t])' /\ TransitOK(t)'
               /\ \A x \in owned'[t] : OwnedOK(x)'
    <3>1. /\ FrameOK(t, local[t]) /\ ScanOK(local[t]) /\ ListOK(local[t])
          /\ MovingOK(t, local[t]) /\ TransitOK(t) /\ \A x \in owned[t] : OwnedOK(x)
      BY DEF AllocInv
    <3>2. FrameOK(t, local[t])'
      BY <2>1, <3>1 DEF FrameOK
    <3>3. ScanOK(local[t])' /\ ListOK(local[t])' /\ MovingOK(t, local[t])'
      BY <2>1, <3>1 DEF ScanOK, ListOK, MovingOK
    <3>4. TransitOK(t)' /\ \A x \in owned'[t] : OwnedOK(x)'
      BY <2>1, <2>3, <3>1 DEF TransitOK, OwnedOK
    <3> QED
      BY <3>2, <3>3, <3>4
  <2>5. \A t \in Thread, x \in Mem, p \in Page : Covers(t, x, p)' <=> Covers(t, x, p)
    BY <2>1, <2>3 DEF Covers, Whole, PagesOf
  <2>6. Disjoint' /\ \A p \in Page : Accounted(p)'
    BY <2>1, <2>5 DEF AllocInv, Disjoint, Accounted
  <2>7. \A p \in Page : ArenaOK(p)'
    <3>1. \A d, b : Listed(d, b)' <=> Listed(d, b)
      BY <2>1 DEF Listed
    <3>2. \A t \in Thread : \A b : Has(t, b)' <=> Has(t, b)
      BY <2>1 DEF Has
    <3>3. \A p \in Page : (Lives(p)' <=> Lives(p)) /\ FreeIdx(p)' = FreeIdx(p)
      BY <2>1, <3>1 DEF Lives, FreeIdx
    <3> QED
      BY <2>1, <3>1, <3>2, <3>3 DEF AllocInv, ArenaOK
  <2> QED
    BY <2>2, <2>4, <2>6, <2>7 DEF AllocInv
<1>2. ASSUME NEW t \in Thread, Step(t) PROVE AllocInv'
  BY <1>2, PoolLockStep, ScanStep, FlipStep, PoolUnlockStep, GotPagesStep, GotBigStep,
     GotArenaStep, DescLockStep, TakeStep, DescUnlockStep, FreeStep, PutStep,
     FillStep, ClearStep DEF Step
<1> QED
  BY <1>1, <1>2, CallStep DEF Next

\* The invariant holds in every reachable state.
LEMMA AllocAlways == Spec => []AllocInv
  BY AllocInit, AllocStep, PTL DEF Spec

-----------------------------------------------------------------------------
\* The invariant implies the type invariant,
LEMMA InvTypes == AllocInv => TypeOK
<1> SUFFICES ASSUME AllocInv PROVE TypeOK
  OBVIOUS
<1>1. Types
  BY DEF AllocInv
<1>2. \A t \in Thread : local[t] \in Frame /\ owned[t] \subseteq Mem
  BY <1>1 DEF Types
<1> QED
  BY <1>1, <1>2 DEF Types, TypeOK, Frame, Labels

\* The page of a block of an arena is all that the block keeps in use.
LEMMA ArenaBlock ==
  ASSUME AllocInv, NEW t \in Thread, NEW x \in owned[t], ~Whole(x)
  PROVE  IsBlock(x) /\ kind[x.page] \in Desc /\ PagesOf(x) = {x.page}
<1>1. IsBlock(x) /\ kind[x.page] \in Desc
  BY DEF AllocInv, OwnedOK, Whole
<1>2. x.n = 1 /\ x.page \in Nat
  BY <1>1, BlockTypes, MemTypes
<1>3. PagesOf(x) = x.page .. x.page + 1 - 1
  BY <1>2 DEF PagesOf, Span, Whole
<1> QED
  BY <1>1, <1>2, <1>3

\* the bookkeeping of pages,
LEMMA InvPages == AllocInv => PagesAccounted
<1> SUFFICES ASSUME AllocInv, NEW p \in Page
             PROVE  used[p] <=> \/ \E t \in Thread : p \in InTransit(t)
                                \/ \E t \in Thread : \E x \in owned[t] : p \in PagesOf(x)
                                \/ kind[p] \in Desc
  BY DEF PagesAccounted
<1>1. used[p] <=> kind[p] \in Desc \/ \E t \in Thread, x \in Mem : Covers(t, x, p)
  BY DEF AllocInv, Accounted
<1>2. ASSUME NEW t \in Thread, p \in InTransit(t) PROVE used[p]
  BY <1>1, <1>2, NoMemTypes DEF Covers
<1>3. ASSUME NEW t \in Thread, NEW x \in owned[t], p \in PagesOf(x) PROVE used[p]
  <2>1. CASE Whole(x)
    BY <1>1, <1>3, <2>1, OwnedPages DEF Covers
  <2>2. CASE ~Whole(x)
    BY <1>1, <1>3, <2>2, ArenaBlock
  <2> QED
    BY <2>1, <2>2
<1> QED
  BY <1>1, <1>2, <1>3 DEF Covers

\* the exclusive use of memory,
LEMMA InvExclusive == AllocInv => Exclusive
<1> SUFFICES ASSUME AllocInv PROVE Exclusive
  OBVIOUS
<1>1. ASSUME NEW t \in Thread, NEW u \in Thread, NEW a \in owned[t], NEW b \in owned[u],
             Overlap(a, b)
      PROVE  t = u /\ a = b
  <2>1. PICK p \in Page : p \in PagesOf(a) /\ p \in PagesOf(b)
    BY <1>1, OwnedPages DEF Overlap
  <2>2. CASE Whole(a) /\ Whole(b)
    <3>1. Covers(t, a, p) /\ Covers(u, b, p) /\ a \in Mem /\ b \in Mem
      BY <2>1, <2>2, OwnedPages DEF Covers
    <3> QED
      BY <3>1 DEF AllocInv, Disjoint
  <2>3. CASE Whole(a) /\ ~Whole(b)
    BY <2>1, <2>3, WholeKinds, ArenaBlock, KindsDiffer
  <2>4. CASE ~Whole(a) /\ Whole(b)
    BY <2>1, <2>4, WholeKinds, ArenaBlock, KindsDiffer
  <2>5. CASE ~Whole(a) /\ ~Whole(b)
    <3>1. IsBlock(a) /\ IsBlock(b) /\ a.page = p /\ b.page = p /\ kind[p] \in Desc
      BY <2>1, <2>5, ArenaBlock
    <3>2. a.idx = b.idx
      BY <1>1, <2>5 DEF Overlap, Whole
    <3>3. a = b /\ a.idx \in Index /\ a = Block(p, a.idx)
      BY <3>1, <3>2, BlockTypes
    <3>4. Has(t, a) /\ Has(u, a)
      BY <3>3 DEF Has
    <3> QED
      BY <3>1, <3>3, <3>4 DEF AllocInv, ArenaOK
  <2> QED
    BY <2>2, <2>3, <2>4, <2>5
<1>2. ASSUME NEW t \in Thread, NEW x \in owned[t]
      PROVE  IF x.idx = -1 THEN \A p \in PagesOf(x) : kind[p] = "client"
                           ELSE kind[x.page] \in Desc \cup {"big"}
  BY DEF AllocInv, OwnedOK, PagesOf
<1> QED
  BY <1>1, <1>2 DEF Exclusive

-----------------------------------------------------------------------------
\* A function that pairs the elements of two sets off shows them equal in size.
LEMMA SameSize ==
  ASSUME NEW S, NEW T, NEW f \in [S -> T], IsFiniteSet(T),
         \A x, y \in S : f[x] = f[y] => x = y, \A y \in T : \E x \in S : f[x] = y
  PROVE  IsFiniteSet(S) /\ Cardinality(S) = Cardinality(T)
<1>1. f \in Injection(S, T)
  BY DEF Injection, IsInjective
<1>2. f \in Surjection(S, T)
  BY DEF Surjection
<1> QED
  BY <1>1, <1>2, FS_Injection

\* The blocks of the arena on page p that clients have, and that are coming back.
HeldIdx(p)   == {i \in Index : \E t \in Thread : Block(p, i) \in owned[t]}
ComingIdx(p) == {i \in Index : \E t \in Thread : /\ local[t].at = "flock"
                                                  /\ local[t].mem = Block(p, i)}

\* While nobody has the lock of a descriptor.
LEMMA Unlocked ==
  ASSUME AllocInv, NEW d \in Desc, descLock[d] = None
  PROVE  /\ \A t \in Thread : ~(InDesc(local[t]) /\ local[t].desc = d)
         /\ \A p \in Page : kind[p] = d => Lives(p) /\ FreeIdx(p) # Index
         /\ \A t \in Thread, p \in Page : kind[p] = d /\ Moving(local[t])
              /\ local[t].mem.page = p => local[t].at = "flock"
<1>1. ASSUME NEW t \in Thread PROVE ~(InDesc(local[t]) /\ local[t].desc = d)
  BY AllocAssumption DEF AllocInv, Locks
<1>2. ASSUME NEW p \in Page, kind[p] = d PROVE Lives(p)
  <2>1. SUFFICES ASSUME NEW t \in Thread, Dies(local[t], p) PROVE FALSE
    BY <1>2 DEF Lives
  <2>2. /\ local[t].at = "fill" /\ local[t].for = "free" /\ local[t].mem.page = p
        /\ FrameOK(t, local[t]) /\ TransitOK(t) /\ InDesc(local[t])
    BY <2>1 DEF Dies, AllocInv, InDesc
  <2>3. InTransit(t) = p .. p + 1 - 1
    BY <2>2 DEF FrameOK, InTransit, Span
  <2>4. p \in InTransit(t)
    BY <2>3 DEF Page
  <2>5. local[t].desc = d
    BY <1>2, <2>2, <2>4 DEF TransitOK
  <2> QED
    BY <1>1, <2>2, <2>5
<1>3. ASSUME NEW p \in Page, kind[p] = d PROVE FreeIdx(p) # Index
  <2>1. SUFFICES ASSUME FreeIdx(p) = Index PROVE FALSE
    OBVIOUS
  <2>2. PICK t \in Thread : local[t].at = "take" /\ local[t].desc = d
    BY <1>2, <1>3, <2>1 DEF AllocInv, ArenaOK
  <2>3. InDesc(local[t])
    BY <2>2 DEF AllocInv, FrameOK, InDesc
  <2> QED
    BY <1>1, <2>2, <2>3
<1>4. ASSUME NEW t \in Thread, NEW p \in Page, kind[p] = d, Moving(local[t]),
             local[t].mem.page = p
      PROVE  local[t].at = "flock"
  <2>1. local[t].desc = d /\ FrameOK(t, local[t])
    BY <1>4 DEF AllocInv, MovingOK
  <2>2. local[t].at # "flock" => InDesc(local[t])
    BY <1>4, <2>1 DEF Moving, InDesc, FrameOK
  <2> QED
    BY <1>1, <2>1, <2>2
<1> QED
  BY <1>1, <1>2, <1>3, <1>4

\* Each block is in exactly one of the three places.
LEMMA Partition ==
  ASSUME AllocInv, NEW d \in Desc, descLock[d] = None, NEW p \in Page, kind[p] = d
  PROVE  /\ FreeIdx(p) \cup HeldIdx(p) \cup ComingIdx(p) = Index
         /\ FreeIdx(p) \cap HeldIdx(p) = {} /\ FreeIdx(p) \cap ComingIdx(p) = {}
         /\ HeldIdx(p) \cap ComingIdx(p) = {}
<1>1. ArenaOK(p) /\ Lives(p)
  BY Unlocked DEF AllocInv
<1>2. ASSUME NEW i \in Index, NEW t \in Thread
      PROVE  Has(t, Block(p, i)) <=> \/ Block(p, i) \in owned[t]
                                     \/ /\ local[t].at = "flock"
                                        /\ local[t].mem = Block(p, i)
  <2>1. Block(p, i).page = p
    BY DEF Block
  <2> QED
    BY <2>1, Unlocked DEF Has, Moving
<1>3. ASSUME NEW i \in Index
      PROVE  (\E t \in Thread : Has(t, Block(p, i))) <=> i \in HeldIdx(p) \cup ComingIdx(p)
  BY <1>2 DEF HeldIdx, ComingIdx
<1>4. ASSUME NEW i \in Index
      PROVE  i \in FreeIdx(p) <=> ~\E t \in Thread : Has(t, Block(p, i))
  BY <1>1 DEF ArenaOK, FreeIdx
<1>5. ASSUME NEW i \in HeldIdx(p), i \in ComingIdx(p) PROVE FALSE
  <2>1. i \in Index
    BY DEF HeldIdx
  <2>2. PICK t \in Thread : Block(p, i) \in owned[t]
    BY DEF HeldIdx
  <2>3. PICK u \in Thread : local[u].at = "flock" /\ local[u].mem = Block(p, i)
    BY <1>5 DEF ComingIdx
  <2>4. t = u
    BY <1>1, <1>2, <2>1, <2>2, <2>3 DEF ArenaOK, Lives
  <2>5. Block(p, i) \notin owned[u]
    BY <2>3 DEF AllocInv, MovingOK, Moving
  <2> QED
    BY <2>2, <2>4, <2>5
<1>6. FreeIdx(p) \subseteq Index /\ HeldIdx(p) \subseteq Index /\ ComingIdx(p) \subseteq Index
  BY DEF FreeIdx, HeldIdx, ComingIdx
<1> QED
  BY <1>3, <1>4, <1>5, <1>6

\* The size of a finite set in three disjoint parts.
LEMMA Add3 ==
  ASSUME NEW A, NEW B, NEW C, NEW U, IsFiniteSet(U), A \cup B \cup C = U,
         A \cap B = {}, A \cap C = {}, B \cap C = {}
  PROVE  /\ IsFiniteSet(A) /\ IsFiniteSet(B) /\ IsFiniteSet(C)
         /\ Cardinality(A) \in Nat /\ Cardinality(B) \in Nat /\ Cardinality(C) \in Nat
         /\ Cardinality(A) + Cardinality(B) + Cardinality(C) = Cardinality(U)
<1>1. A \in SUBSET U /\ B \in SUBSET U /\ C \in SUBSET U
  OBVIOUS
<1>2. IsFiniteSet(A) /\ IsFiniteSet(B) /\ IsFiniteSet(C)
  BY <1>1, FS_Subset
<1>3. Cardinality(A) \in Nat /\ Cardinality(B) \in Nat /\ Cardinality(C) \in Nat
  BY <1>2, FS_CardinalityType
<1>4. Cardinality({}) = 0
  BY FS_EmptySet
<1>5. /\ IsFiniteSet(A \cup B)
      /\ Cardinality(A \cup B) = Cardinality(A) + Cardinality(B) - Cardinality({})
  BY <1>2, FS_Union
<1>6. (A \cup B) \cap C = {}
  OBVIOUS
<1>7. Cardinality((A \cup B) \cup C) = Cardinality(A \cup B) + Cardinality(C) - Cardinality({})
  BY <1>2, <1>5, <1>6, FS_Union
<1>8. Cardinality((A \cup B) \cup C) = Cardinality(U)
  OBVIOUS
<1>9. Cardinality(A \cup B) = Cardinality(A) + Cardinality(B)
  BY <1>3, <1>4, <1>5
<1>10. Cardinality(U) = Cardinality(A \cup B) + Cardinality(C)
  <2>1. Cardinality(A \cup B) \in Nat
    BY <1>5, FS_CardinalityType
  <2> QED
    BY <1>3, <1>4, <1>7, <1>8, <2>1
<1> QED
  BY <1>2, <1>3, <1>9, <1>10

\* The blocks in the three places, counted.
LEMMA ArenaCounts ==
  ASSUME AllocInv, NEW d \in Desc, descLock[d] = None, NEW p \in Page, kind[p] = d
  PROVE  LET free   == {k \in DOMAIN freeList[d] : freeList[d][k].page = p}
             inUse  == {b \in UNION {owned[t] : t \in Thread} : b.page = p}
             coming == {t \in Thread : local[t].at = "flock"
                                        /\ local[t].mem.page = p}
         IN  /\ cnt[p] = Cardinality(free) /\ cnt[p] < BlocksPerArena
             /\ Cardinality(free) + Cardinality(inUse) + Cardinality(coming)
                  = BlocksPerArena
             /\ \A k \in free : freeList[d][k] \notin inUse
<1> DEFINE free   == {k \in DOMAIN freeList[d] : freeList[d][k].page = p}
           inUse  == {b \in UNION {owned[t] : t \in Thread} : b.page = p}
           coming == {t \in Thread : local[t].at = "flock" /\ local[t].mem.page = p}
<1>1. /\ Lives(p) /\ FreeIdx(p) # Index /\ ArenaOK(p) /\ ListsOK
      /\ \A t \in Thread : MovingOK(t, local[t])
  BY Unlocked DEF AllocInv
<1>2. /\ IsFiniteSet(FreeIdx(p)) /\ IsFiniteSet(HeldIdx(p)) /\ IsFiniteSet(ComingIdx(p))
      /\ Cardinality(FreeIdx(p)) \in Nat
      /\ Cardinality(FreeIdx(p)) + Cardinality(HeldIdx(p)) + Cardinality(ComingIdx(p))
           = BlocksPerArena
  <2>1. /\ FreeIdx(p) \cup HeldIdx(p) \cup ComingIdx(p) = Index
        /\ FreeIdx(p) \cap HeldIdx(p) = {} /\ FreeIdx(p) \cap ComingIdx(p) = {}
        /\ HeldIdx(p) \cap ComingIdx(p) = {}
    BY Partition
  <2>2. IsFiniteSet(Index) /\ Cardinality(Index) = BlocksPerArena
    BY IndexSize
  <2>3. /\ IsFiniteSet(FreeIdx(p)) /\ IsFiniteSet(HeldIdx(p)) /\ IsFiniteSet(ComingIdx(p))
        /\ Cardinality(FreeIdx(p)) \in Nat
        /\ Cardinality(FreeIdx(p)) + Cardinality(HeldIdx(p)) + Cardinality(ComingIdx(p))
             = Cardinality(Index)
    <3>1. PICK A, B, C : A = FreeIdx(p) /\ B = HeldIdx(p) /\ C = ComingIdx(p)
      BY Zenon
    <3>2. /\ A \cup B \cup C = Index
          /\ A \cap B = {} /\ A \cap C = {} /\ B \cap C = {}
      BY <2>1, <3>1
    <3>3. /\ IsFiniteSet(A) /\ IsFiniteSet(B) /\ IsFiniteSet(C) /\ Cardinality(A) \in Nat
          /\ Cardinality(A) + Cardinality(B) + Cardinality(C) = Cardinality(Index)
      BY <2>2, <3>2, Add3
    <3> QED
      BY <3>1, <3>3
  <2> QED
    BY <2>2, <2>3
<1>3. cnt[p] = Cardinality(FreeIdx(p)) /\ cnt[p] < BlocksPerArena
  <2>1. cnt[p] = Cardinality(FreeIdx(p))
    BY <1>1 DEF ArenaOK
  <2>2. /\ Cardinality(FreeIdx(p)) <= Cardinality(Index)
        /\ Cardinality(FreeIdx(p)) # Cardinality(Index)
    BY <1>1, IndexSize, FS_Subset
  <2> QED
    BY <1>2, <2>1, <2>2, IndexSize
<1>4. ASSUME NEW k \in free
      PROVE  /\ freeList[d][k].idx \in Index /\ freeList[d][k] = Block(p, freeList[d][k].idx)
             /\ Listed(d, freeList[d][k])
  BY <1>1, BlockTypes DEF ListsOK, Listed
<1>5. Cardinality(free) = Cardinality(FreeIdx(p))
  <2> DEFINE f == [k \in free |-> freeList[d][k].idx]
  <2>1. f \in [free -> FreeIdx(p)]
    BY <1>4 DEF FreeIdx
  <2>2. ASSUME NEW j \in free, NEW k \in free, f[j] = f[k] PROVE j = k
    <3>1. freeList[d][j].idx = freeList[d][k].idx
      BY <2>2
    <3>2. freeList[d][j] = freeList[d][k]
      BY <1>4, <3>1
    <3> QED
      BY <1>1, <3>2 DEF ListsOK
  <2>3. ASSUME NEW i \in FreeIdx(p) PROVE \E k \in free : f[k] = i
    <3>1. PICK k \in DOMAIN freeList[d] : freeList[d][k] = Block(p, i)
      BY <2>3 DEF FreeIdx, Listed
    <3>2. freeList[d][k].page = p /\ freeList[d][k].idx = i
      BY <3>1 DEF Block
    <3> QED
      BY <3>2
  <2> HIDE DEF f, free
  <2> QED
    BY <1>2, <2>1, <2>2, <2>3, SameSize
<1>6. ASSUME NEW b \in inUse
      PROVE  /\ b.idx \in Index /\ b = Block(p, b.idx) /\ \E t \in Thread : b \in owned[t]
  <2>1. PICK t \in Thread : b \in owned[t]
    OBVIOUS
  <2>2. OwnedOK(b) /\ b.page = p /\ b.page \in PagesOf(b)
    BY <2>1, OwnedPages DEF AllocInv
  <2>3. ~Whole(b)
    BY <2>1, <2>2, WholeKinds, KindsDiffer
  <2> QED
    BY <2>1, <2>2, <2>3, ArenaBlock, BlockTypes
<1>7. Cardinality(inUse) = Cardinality(HeldIdx(p))
  <2> DEFINE f == [b \in inUse |-> b.idx]
  <2>1. f \in [inUse -> HeldIdx(p)]
    <3>1. \A b \in inUse : b.idx \in HeldIdx(p)
      BY <1>6 DEF HeldIdx
    <3> QED
      BY <3>1
  <2>2. ASSUME NEW a \in inUse, NEW b \in inUse, f[a] = f[b] PROVE a = b
    <3>1. a.idx = b.idx
      BY <2>2
    <3> QED
      BY <1>6, <3>1
  <2>3. ASSUME NEW i \in HeldIdx(p) PROVE \E b \in inUse : f[b] = i
    <3>1. PICK t \in Thread : Block(p, i) \in owned[t]
      BY <2>3 DEF HeldIdx
    <3>2. Block(p, i).page = p /\ Block(p, i).idx = i
      BY DEF Block
    <3> QED
      BY <3>1, <3>2
  <2> HIDE DEF f, inUse
  <2> QED
    BY <1>2, <2>1, <2>2, <2>3, SameSize
<1>8. ASSUME NEW t \in coming
      PROVE  /\ local[t].at = "flock" /\ local[t].mem.idx \in Index
             /\ local[t].mem = Block(p, local[t].mem.idx) /\ Has(t, local[t].mem)
  BY <1>1, BlockTypes DEF MovingOK, Moving, Has
<1>9. Cardinality(coming) = Cardinality(ComingIdx(p))
  <2> DEFINE f == [t \in coming |-> local[t].mem.idx]
  <2>1. f \in [coming -> ComingIdx(p)]
    <3>1. \A t \in coming : local[t].mem.idx \in ComingIdx(p)
      BY <1>8 DEF ComingIdx
    <3> QED
      BY <3>1
  <2>2. ASSUME NEW t \in coming, NEW u \in coming, f[t] = f[u] PROVE t = u
    <3>1. local[t].mem.idx = local[u].mem.idx
      BY <2>2
    <3>2. PICK i \in Index : i = local[t].mem.idx
      BY <1>8
    <3>3. Has(t, Block(p, i)) /\ Has(u, Block(p, i)) /\ t \in Thread /\ u \in Thread
      BY <1>8, <3>1, <3>2
    <3> QED
      BY <1>1, <3>3 DEF ArenaOK
  <2>3. ASSUME NEW i \in ComingIdx(p) PROVE \E t \in coming : f[t] = i
    <3>1. PICK t \in Thread : local[t].at = "flock" /\ local[t].mem = Block(p, i)
      BY <2>3 DEF ComingIdx
    <3>2. local[t].mem.page = p /\ local[t].mem.idx = i
      BY <3>1 DEF Block
    <3> QED
      BY <3>1, <3>2
  <2> HIDE DEF f, coming
  <2> QED
    BY <1>2, <2>1, <2>2, <2>3, SameSize
<1>10. ASSUME NEW k \in free, freeList[d][k] \in inUse PROVE FALSE
  <2>1. PICK b : b = freeList[d][k]
    OBVIOUS
  <2>2. PICK t \in Thread : b \in owned[t]
    BY <1>6, <1>10, <2>1
  <2>3. b.idx \in Index /\ b = Block(p, b.idx) /\ Listed(d, b)
    BY <1>4, <2>1
  <2> QED
    BY <1>1, <2>2, <2>3 DEF ArenaOK, Has
<1> HIDE DEF free, inUse, coming
<1>11. /\ cnt[p] = Cardinality(free) /\ cnt[p] < BlocksPerArena
       /\ Cardinality(free) + Cardinality(inUse) + Cardinality(coming) = BlocksPerArena
       /\ \A k \in free : freeList[d][k] \notin inUse
  BY <1>2, <1>3, <1>5, <1>7, <1>9, <1>10
<1> QED
  BY <1>11 DEF free, inUse, coming

\* The invariant implies the bookkeeping of blocks.
LEMMA InvArenas == AllocInv => ArenaExact
<1> SUFFICES ASSUME AllocInv PROVE ArenaExact
  OBVIOUS
<1>1. ~panic
  BY DEF AllocInv, Types
<1>2. \A d \in Desc : \A k \in DOMAIN freeList[d] : kind[freeList[d][k].page] = d
  BY DEF AllocInv, ListsOK
<1> QED
  BY <1>1, <1>2, ArenaCounts DEF ArenaExact

-----------------------------------------------------------------------------
\* The state of palloc.c and malloc.c keeps its types, at any size of the pool.
THEOREM AllocTypes == Spec => []TypeOK
  BY AllocAlways, InvTypes, PTL

\* palloc_get_multiple(), malloc() and realloc() hand out memory that nobody else
\* has, and neither allocator writes to it until it is given back.
THEOREM MemoryExclusive == Spec => []Exclusive
  BY AllocAlways, InvExclusive, PTL

\* malloc() and free(): every block of every arena is in one place, free_cnt counts
\* those on the list, an arena without a block in use goes back, and no ASSERT fails.
THEOREM ArenasExact == Spec => []ArenaExact
  BY AllocAlways, InvArenas, PTL

\* palloc.c marks exactly the pages that somebody has, though it gives pages back
\* without the lock of the pool.
THEOREM PagesKept == Spec => []PagesAccounted
  BY AllocAlways, InvPages, PTL
=============================================================================
