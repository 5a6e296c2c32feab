-------------------------------- MODULE Hash --------------------------------
(***************************************************************************)
(* The hash tables of lib/kernel/hash.c: buckets of elements that rehash() *)
(* moves to more or fewer buckets after an insertion or a deletion, unless *)
(* malloc() fails.  A bucket is a sequence; List says why it may be.       *)
(***************************************************************************)
EXTENDS Integers, FiniteSets, Sequences, SequencesExt, Bitwise

CONSTANTS Elem, Key,   \* what less() compares
          HashFn,      \* the hash of a key
          MinBuckets, BestElemsPerBucket,  \* 4 and 2 in the code
          Nil

VARIABLES elemCnt, buckets,
          call   \* the last operation and its element

vars == <<elemCnt, buckets, call>>

Cnt(b)     == Cardinality(DOMAIN b)
Members(b) == UNION {ToSet(b[i]) : i \in DOMAIN b}
New(n)     == [i \in 0 .. n - 1 |-> <<>>]
Equal(a, b) == Key[a] = Key[b]

FindBucket(n, e) == HashFn[Key[e]] & (n - 1)

FindElem(b, e) ==
  LET same == SelectSeq(b[FindBucket(Cnt(b), e)], LAMBDA x : Equal(x, e))
  IN  IF same = <<>> THEN Nil ELSE Head(same)

InsertElem(b, e) == [b EXCEPT ![FindBucket(Cnt(b), e)] = <<e>> \o @]
RemoveElem(b, e) == [b EXCEPT ![FindBucket(Cnt(b), e)] = SelectSeq(@, LAMBDA x : x # e)]

TurnOffLeast1Bit(x) == x & (x - 1)

RECURSIVE RoundDown(_)
RoundDown(n) == IF TurnOffLeast1Bit(n) = 0 THEN n ELSE RoundDown(TurnOffLeast1Bit(n))

BestCnt(elems) ==
  LET n == elems \div BestElemsPerBucket IN RoundDown(IF n < MinBuckets THEN MinBuckets ELSE n)

-----------------------------------------------------------------------------
\* rehash() has two arrays of lists: l.old, which it walks, and l.new.  A list ends at
\* its tail, which is no element.
EndOf(array, i) == <<array, i>>
Home(l, e) == CHOOSE h \in ({"old"} \X DOMAIN l.old) \cup ({"new"} \X DOMAIN l.new) :
                e \in ToSet(l[h[1]][h[2]])

\* list_next() in whichever list e is now.
ListNext(l, e) ==
  LET h == Home(l, e)
      s == l[h[1]][h[2]]
      k == CHOOSE k \in DOMAIN s : s[k] = e
  IN  IF k = Len(s) THEN EndOf(h[1], h[2]) ELSE s[k + 1]

\* list_remove() and list_push_front() to the bucket find_bucket() gives.
MoveElem(l, e) ==
  LET h == Home(l, e)
      m == [l EXCEPT ![h[1]][h[2]] = SelectSeq(@, LAMBDA x : x # e)]
  IN  [m EXCEPT !.new[FindBucket(Cnt(l.new), e)] = <<e>> \o @]

\* What becomes of a table when a tail is taken for an element.
Wreck == <<>>

\* Mutant: the next element is looked up when the element has moved.
RECURSIVE MoveBucketLate(_, _, _)
MoveBucketLate(l, i, elem) ==
  IF elem = EndOf("old", i) THEN l
  ELSE IF elem \notin Elem THEN Wreck
  ELSE LET m == MoveElem(l, elem) IN MoveBucketLate(m, i, ListNext(m, elem))

\* The walk along old bucket i: the next element is looked up before elem moves.
RECURSIVE MoveBucket(_, _, _)
MoveBucket(l, i, elem) ==
  IF elem = EndOf("old", i) THEN l
  ELSE IF elem \notin Elem THEN Wreck
  ELSE MoveBucket(MoveElem(l, elem), i, ListNext(l, elem))

RECURSIVE MoveAll(_, _)
MoveAll(l, i) ==
  IF l = Wreck THEN Wreck
  ELSE IF i = Cnt(l.old) THEN l.new
  ELSE MoveAll(MoveBucket(l, i, IF l.old[i] = <<>> THEN EndOf("old", i) ELSE Head(l.old[i])),
               i + 1)

Rehash(b, elems, memory) ==
  LET n == BestCnt(elems) IN
  IF n = Cnt(b) \/ ~memory THEN b ELSE MoveAll([old |-> b, new |-> New(n)], 0)

-----------------------------------------------------------------------------
\* hash_first() stands before the first bucket, hash_next() skips empty ones.
HashFirst == [bucket |-> 0, pos |-> 0]

RECURSIVE Skip(_, _)
Skip(b, i) ==
  IF i.pos <= Len(b[i.bucket]) THEN i
  ELSE IF i.bucket + 1 >= Cnt(b) THEN Nil
  ELSE Skip(b, [bucket |-> i.bucket + 1, pos |-> 1])

HashNext(b, i) == Skip(b, [i EXCEPT !.pos = @ + 1])

RECURSIVE Walk(_, _)
Walk(b, i) ==
  LET n == HashNext(b, i) IN
  IF n = Nil THEN <<>> ELSE <<b[n.bucket][n.pos]>> \o Walk(b, n)

-----------------------------------------------------------------------------
Init == elemCnt = 0 /\ buckets = New(MinBuckets) /\ call = <<"clear", Nil>>

HashInsert(e, memory) ==
  LET fresh == FindElem(buckets, e) = Nil IN
  /\ call' = <<"insert", e>>
  /\ elemCnt' = IF fresh THEN elemCnt + 1 ELSE elemCnt
  /\ buckets' = Rehash(IF fresh THEN InsertElem(buckets, e) ELSE buckets, elemCnt', memory)

HashReplace(e, memory) ==
  LET old == FindElem(buckets, e) IN
  /\ call' = <<"replace", e>>
  /\ elemCnt' = IF old = Nil THEN elemCnt + 1 ELSE elemCnt
  /\ buckets' = Rehash(InsertElem(IF old = Nil THEN buckets ELSE RemoveElem(buckets, old), e),
                       elemCnt', memory)

HashDelete(e, memory) ==
  LET found == FindElem(buckets, e) IN
  /\ call' = <<"delete", e>>
  /\ elemCnt' = IF found = Nil THEN elemCnt ELSE elemCnt - 1
  /\ buckets' = IF found = Nil THEN buckets
                ELSE Rehash(RemoveElem(buckets, found), elemCnt', memory)

HashClear == call' = <<"clear", Nil>> /\ elemCnt' = 0 /\ buckets' = New(Cnt(buckets))

Loose == Elem \ Members(buckets)

Next ==
  \/ \E memory \in BOOLEAN :
       \/ \E e \in Loose : HashInsert(e, memory) \/ HashReplace(e, memory)
       \/ \E e \in Elem : HashDelete(e, memory)
  \/ HashClear

-----------------------------------------------------------------------------
\* The table is the set of elements it was given, no two of them equal, however
\* many buckets there are and whether or not malloc() failed: the operations
\* add, replace and remove, every element is found, counted, and met once by
\* an iterator; and rehash() never takes the end of a list for an element.
OperationRight ==
  LET before == Members(buckets)  after == Members(buckets')
      e == call'[2]
      same(x) == {y \in before : Equal(x, y)}
  IN
  /\ buckets' # Wreck
  /\ after = CASE call'[1] = "insert"  -> IF same(e) = {} THEN before \cup {e} ELSE before
               [] call'[1] = "replace" -> (before \ same(e)) \cup {e}
               [] call'[1] = "delete"  -> before \ same(e)
               [] call'[1] = "clear"   -> {}
  /\ elemCnt' = Cardinality(after)
  /\ ToSet(Walk(buckets', HashFirst)) = after
  /\ Len(Walk(buckets', HashFirst)) = elemCnt'
  /\ \A x \in Elem :
       LET f == FindElem(buckets', x) IN
       IF \E y \in after : Equal(x, y) THEN f \in after /\ Equal(f, x) ELSE f = Nil

\* Every step does.
HashRight == [][OperationRight]_vars
=============================================================================
