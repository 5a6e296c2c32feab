-------------------------------- MODULE List --------------------------------
(***************************************************************************)
(* The doubly linked lists of lib/kernel/list.c, as the pointers they are  *)
(* made of.  Every operation is shown to do to the sequence of elements    *)
(* what list.h says, and to leave lists that read the same backwards.      *)
(*                                                                         *)
(* A memory m maps each element, and the head and tail of each list, to    *)
(* its next and prev.  The pointers that a removed element keeps are       *)
(* forgotten: nothing may follow them.                                     *)
(***************************************************************************)
EXTENDS Integers, Sequences, SequencesExt

CONSTANTS Elem, Listno, Key, Nil  \* Key is what less() compares

VARIABLES next, prev

vars == <<next, prev>>

H(l) == <<"head", l>>
T(l) == <<"tail", l>>
Node == Elem \cup {H(l) : l \in Listno} \cup {T(l) : l \in Listno}

mem        == [next |-> next, prev |-> prev]
Becomes(m) == next' = m.next /\ prev' = m.prev
Less(a, b) == Key[a] < Key[b]
Begin(m, l) == m.next[H(l)]
Empty(m, l) == Begin(m, l) = T(l)

\* The elements from a up to b, exclusive, following next or prev.
RECURSIVE Forth(_, _, _), Back(_, _, _)
Forth(m, a, b) == IF a = b THEN <<>> ELSE <<a>> \o Forth(m, m.next[a], b)
Back(m, a, b)  == IF a = b THEN <<>> ELSE <<a>> \o Back(m, m.prev[a], b)

Contents(m, l) == Forth(m, Begin(m, l), T(l))
In(l)     == ToSet(Contents(mem, l))
Loose     == Elem \ UNION {In(l) : l \in Listno}
Places(l) == In(l) \cup {T(l)}   \* what list_insert() takes for BEFORE

-----------------------------------------------------------------------------
Insert(m, before, e) ==
  LET p == m.prev[before] IN
  [next |-> [m.next EXCEPT ![e] = before, ![p] = e],
   prev |-> [m.prev EXCEPT ![e] = p, ![before] = e]]

Unlink(m, e) ==
  LET p == m.prev[e]  n == m.next[e] IN
  [next |-> [m.next EXCEPT ![p] = n, ![e] = Nil],
   prev |-> [m.prev EXCEPT ![n] = p, ![e] = Nil]]

\* list_splice(): FIRST up to LAST, exclusive, move before BEFORE.
Splice(m, before, first, end) ==
  IF first = end THEN m
  ELSE LET last == m.prev[end]
           out  == [next |-> [m.next EXCEPT ![m.prev[first]] = end],
                    prev |-> [m.prev EXCEPT ![end] = m.prev[first]]]
           p    == out.prev[before]
       IN  [next |-> [out.next EXCEPT ![last] = before, ![p] = first],
            prev |-> [out.prev EXCEPT ![first] = p, ![before] = last]]

RECURSIVE FlipAll(_, _, _)
FlipAll(m, e, end) ==
  IF e = end THEN m
  ELSE FlipAll([next |-> [m.next EXCEPT ![e] = m.prev[e]],
                prev |-> [m.prev EXCEPT ![e] = m.next[e]]], m.next[e], end)

\* list_reverse(): all links turn, then the ends and what they point to.
Reversed(m, l) ==
  IF Empty(m, l) THEN m
  ELSE LET f == FlipAll(m, Begin(m, l), T(l))
           g == [next |-> [f.next EXCEPT ![H(l)] = f.prev[T(l)]],
                 prev |-> [f.prev EXCEPT ![T(l)] = f.next[H(l)]]]
           first == g.next[H(l)]  last == g.prev[T(l)]
       IN  [next |-> [g.next EXCEPT ![last] = g.prev[first]],
            prev |-> [g.prev EXCEPT ![first] = g.next[last]]]

-----------------------------------------------------------------------------
RECURSIVE EndOfRun(_, _, _), Merge(_, _, _, _), Pass(_, _, _, _), Sorted(_, _)
EndOfRun(m, a, b) ==
  LET n == m.next[a] IN IF n = b \/ Less(n, a) THEN n ELSE EndOfRun(m, n, b)

\* inplace_merge() of a0 up to a1b0 and a1b0 up to b1.
Merge(m, a0, a1b0, b1) ==
  IF a0 = a1b0 \/ a1b0 = b1 THEN m
  ELSE IF ~Less(a1b0, a0) THEN Merge(m, m.next[a0], a1b0, b1)
  ELSE LET n == m.next[a1b0] IN Merge(Splice(m, a0, m.prev[n], n), a0, n, b1)

\* One pass of list_sort() over the runs, and how many it left.
Pass(m, l, a0, runs) ==
  IF a0 = T(l) THEN [mem |-> m, runs |-> runs]
  ELSE LET a1b0 == EndOfRun(m, a0, T(l)) IN
       IF a1b0 = T(l) THEN [mem |-> m, runs |-> runs + 1]
       ELSE LET b1 == EndOfRun(m, a1b0, T(l)) IN
            Pass(Merge(m, a0, a1b0, b1), l, b1, runs + 1)

Sorted(m, l) ==
  LET p == Pass(m, l, Begin(m, l), 0) IN
  IF p.runs > 1 THEN Sorted(p.mem, l) ELSE p.mem

\* list_insert_ordered() goes before the first that is greater.
RECURSIVE OrderedPlace(_, _, _, _)
OrderedPlace(m, l, e, a) ==
  IF a = T(l) \/ Less(e, a) THEN a ELSE OrderedPlace(m, l, e, m.next[a])

RECURSIVE Unique(_, _, _, _)
Unique(m, l, dup, e) ==
  LET n == m.next[e] IN
  IF n = T(l) THEN m
  ELSE IF ~Less(e, n) /\ ~Less(n, e)
       THEN LET out == Unlink(m, n) IN
            Unique(IF dup = Nil THEN out ELSE Insert(out, T(dup), n), l, dup, e)
       ELSE Unique(m, l, dup, n)

\* list_max() and list_min(), from the best so far and the rest.
RECURSIVE MaxFrom(_, _, _, _), MinFrom(_, _, _, _)
MaxFrom(m, l, best, e) ==
  IF e = T(l) THEN best ELSE MaxFrom(m, l, IF Less(best, e) THEN e ELSE best, m.next[e])
MinFrom(m, l, best, e) ==
  IF e = T(l) THEN best ELSE MinFrom(m, l, IF Less(e, best) THEN e ELSE best, m.next[e])

ListMax(m, l) ==
  IF Empty(m, l) THEN T(l) ELSE MaxFrom(m, l, Begin(m, l), m.next[Begin(m, l)])
ListMin(m, l) ==
  IF Empty(m, l) THEN T(l) ELSE MinFrom(m, l, Begin(m, l), m.next[Begin(m, l)])

-----------------------------------------------------------------------------
PushFront(l, e) == Becomes(Insert(mem, Begin(mem, l), e))
PushBack(l, e)  == Becomes(Insert(mem, T(l), e))
InsertBefore(l, b, e) == Becomes(Insert(mem, b, e))
InsertOrdered(l, e) == Becomes(Insert(mem, OrderedPlace(mem, l, e, Begin(mem, l)), e))
ListRemove(e)   == Becomes(Unlink(mem, e))
PopFront(l) == ~Empty(mem, l) /\ Becomes(Unlink(mem, Begin(mem, l)))
PopBack(l)  == ~Empty(mem, l) /\ Becomes(Unlink(mem, prev[T(l)]))
ListReverse(l)  == Becomes(Reversed(mem, l))
Sort(l)     == Becomes(Sorted(mem, l))
ListUnique(l, dup) ==
  Becomes(IF Empty(mem, l) THEN mem ELSE Unique(mem, l, dup, Begin(mem, l)))

\* A range of list l, and a place that is not inside it.
Segment(l, i, j) == SubSeq(Contents(mem, l), i, j)
MoveSegment(l, i, j, b) ==
  LET s == Contents(mem, l) IN
  /\ b \notin ToSet(Segment(l, i, j))
  /\ Becomes(Splice(mem, b, s[i], next[s[j]]))

\* list_init().
Init ==
  /\ next = [x \in Node |-> IF \E l \in Listno : x = H(l) THEN <<"tail", x[2]>> ELSE Nil]
  /\ prev = [x \in Node |-> IF \E l \in Listno : x = T(l) THEN <<"head", x[2]>> ELSE Nil]

Next ==
  \E l \in Listno :
    \/ \E e \in Loose : \/ PushFront(l, e) \/ PushBack(l, e) \/ InsertOrdered(l, e)
                        \/ \E b \in Places(l) : InsertBefore(l, b, e)
    \/ \E e \in In(l) : ListRemove(e)
    \/ PopFront(l) \/ PopBack(l) \/ ListReverse(l) \/ Sort(l)
    \/ \E dup \in (Listno \ {l}) \cup {Nil} : ListUnique(l, dup)
    \/ \E j \in DOMAIN Contents(mem, l) : \E i \in 1 .. j, k \in Listno :
         \E b \in Places(k) : MoveSegment(l, i, j, b)

-----------------------------------------------------------------------------
\* What the operations do to sequences.
Seqs == [l \in Listno |-> Contents(mem, l)]

Before(s, b, x) ==   \* s with the elements x before b, or at the end
  LET i == IF b \in ToSet(s) THEN CHOOSE k \in DOMAIN s : s[k] = b ELSE Len(s) + 1
  IN  SubSeq(s, 1, i - 1) \o x \o SubSeq(s, i, Len(s))
Without(s, X) == SelectSeq(s, LAMBDA e : e \notin X)

\* The stable order of a sequence.
Ordered(s) ==
  LET pos == SetToSortSeq(DOMAIN s, LAMBDA i, j :
               Less(s[i], s[j]) \/ (~Less(s[j], s[i]) /\ i < j))
  IN  [k \in DOMAIN s |-> s[pos[k]]]

Greater(s, e) == SelectSeq(s, LAMBDA x : Less(e, x))
InOrder(s)   == \A i \in 2 .. Len(s) : ~Less(s[i], s[i - 1])
Repeats(s)    == {s[i] : i \in {k \in 2 .. Len(s) : Key[s[k]] = Key[s[k - 1]]}}

Only(l, s) == Seqs' = [Seqs EXCEPT ![l] = s]

\* Every operation does to the elements what list.h says - sorting is stable,
\* an ordered insertion goes behind its equals, of equals the first is the
\* largest - and forwards and backwards a list reads the same.
OperationRight ==
  /\ \A l \in Listno : LET s == Seqs[l] IN
       /\ \A e \in Loose :
            /\ PushFront(l, e) => Only(l, <<e>> \o s)
            /\ PushBack(l, e) => Only(l, Append(s, e))
            /\ InsertOrdered(l, e) /\ InOrder(s) =>
                 Only(l, Before(s, IF Greater(s, e) = <<>> THEN Nil
                                   ELSE Greater(s, e)[1], <<e>>))
            /\ \A b \in Places(l) : InsertBefore(l, b, e) => Only(l, Before(s, b, <<e>>))
       /\ \A e \in In(l) : ListRemove(e) => Only(l, Without(s, {e}))
       /\ PopFront(l) => Only(l, Tail(s))
       /\ PopBack(l) => Only(l, Front(s))
       /\ ListReverse(l) => Only(l, [i \in DOMAIN s |-> s[Len(s) + 1 - i]])
       /\ Sort(l) => Only(l, Ordered(s))
       /\ ListUnique(l, Nil) => Only(l, Without(s, Repeats(s)))
       /\ \A d \in Listno \ {l} : ListUnique(l, d) =>
            Seqs' = [Seqs EXCEPT ![l] = Without(s, Repeats(s)),
                       ![d] = @ \o SelectSeq(s, LAMBDA e : e \in Repeats(s))]
       /\ \A j \in DOMAIN s : \A i \in 1 .. j, k \in Listno : \A b \in Places(k) :
            MoveSegment(l, i, j, b) =>
              Seqs' = [m \in Listno |->
                         LET rest == Without(Seqs[m], ToSet(SubSeq(s, i, j))) IN
                         IF m = k THEN Before(rest, b, SubSeq(s, i, j)) ELSE rest]
       /\ s # <<>> =>
            /\ \E i \in DOMAIN s : s[i] = ListMax(mem, l) /\
                 \A j \in DOMAIN s : ~Less(s[i], s[j]) /\ (j < i => Less(s[j], s[i]))
            /\ \E i \in DOMAIN s : s[i] = ListMin(mem, l) /\
                 \A j \in DOMAIN s : ~Less(s[j], s[i]) /\ (j < i => Less(s[i], s[j]))
       /\ Back(mem, prev[T(l)], H(l))' = [i \in DOMAIN Seqs'[l] |->
                                            Seqs'[l][Len(Seqs'[l]) + 1 - i]]

\* Every step does.
ListsRight == [][OperationRight]_vars
=============================================================================
