---------------------------- MODULE CommandLine -----------------------------
(***************************************************************************)
(* From the string given to exec to the stack that main() finds: the copy  *)
(* that process_execute() makes, strtok_r() on it, and the arguments that  *)
(* start_process() pushes on the new stack.                                *)
(*                                                                         *)
(* A character is Blank or one of Char.  Memory below PhysBase is a        *)
(* function; a pointer takes Word bytes, of which the first holds its      *)
(* value.  The stack has StackSize bytes, the array argv MaxArgs entries;  *)
(* nothing in the code looks at these two limits.                          *)
(***************************************************************************)
EXTENDS Integers, Sequences, SequencesExt

CONSTANTS Char, Blank, Nul, MaxLine,
          PgSize, PhysBase, StackSize, Word, MaxArgs,  \* 4096, 3 GB, 4096, 4, 100
          Nil

VARIABLES line,             \* what exec was given
          at,
          fn, save,         \* fn_copy, ending in Nul, and the save_ptr into it
          token,            \* where the token starts, or Nil
          mem, esp, argv    \* the user's stack, and argv[]

vars == <<line, at, fn, save, token, mem, esp, argv>>

\* strlcpy (fn_copy, file_name, PGSIZE).
Strlcpy(src, size) ==
  Append(IF Len(src) < size - 1 THEN src ELSE SubSeq(src, 1, size - 1), Nul)

\* The first position from i on with a character of C; with one not of C.
In(s, i, C)    == CHOOSE k \in i .. Len(s) : s[k] \in C /\ \A j \in i .. k - 1 : s[j] \notin C
NotIn(s, i, C) == CHOOSE k \in i .. Len(s) : s[k] \notin C /\ \A j \in i .. k - 1 : s[j] \in C

\* strtok_r (..., " ", ...) from position i: the token, the string with its end
\* marked, and the place to go on from.
StrtokR(s, i) ==
  LET start == NotIn(s, i, {Blank})
      end   == In(s, start, {Blank, Nul})
  IN  IF s[start] = Nul THEN [token |-> Nil, s |-> s, save |-> start]
      ELSE [token |-> start, s |-> [s EXCEPT ![end] = Nul],
            save |-> IF s[end] = Nul THEN end ELSE end + 1]

StringAt(s, i) == SubSeq(s, i, In(s, i, {Nul}))  \* with its Nul

\* Bytes x at address a.
Store(m, a, x) == [b \in DOMAIN m |-> IF b \in a .. a + Len(x) - 1 THEN x[b - a + 1] ELSE m[b]]
Pointer(v) == [i \in 1 .. Word |-> IF i = 1 THEN <<v>> ELSE Nil]
Room(a)    == a >= PhysBase - StackSize

-----------------------------------------------------------------------------
Tokenise(s, i) ==
  LET t == StrtokR(s, i) IN fn' = t.s /\ save' = t.save /\ token' = t.token

\* No first word is a null thread name, which thread_create() asserts against.
ProcessExecute ==
  /\ at = "exec"
  /\ Tokenise(Strlcpy(line, PgSize), 1)
  /\ at' = IF token' = Nil THEN "panic" ELSE "push"
  /\ UNCHANGED <<line, mem, esp, argv>>

\* The words, downwards; below the stack page the kernel faults, and beyond
\* argv[] it overwrites what is there.
PushWord ==
  /\ at = "push" /\ token # Nil
  /\ LET word == StringAt(fn, token)  to == esp - Len(word) IN
     IF Room(to) /\ Len(argv) < MaxArgs
     THEN /\ mem' = Store(mem, to, word) /\ esp' = to /\ argv' = Append(argv, to)
          /\ Tokenise(fn, save) /\ UNCHANGED at
     ELSE at' = "fault" /\ UNCHANGED <<fn, save, token, mem, esp, argv>>
  /\ UNCHANGED line

\* The rest, after word-align: argv[], its null, argv, argc and a return address.
PushPointers ==
  /\ at = "push" /\ token = Nil
  /\ LET argc  == Len(argv)
         array == esp - (esp % Word) - (argc + 1) * Word
         cells == <<0, argc, array>> \o argv \o <<0>>
         to    == array - 3 * Word
     IN  IF Room(to)
         THEN /\ mem' = Store(mem, to, FlattenSeq([i \in DOMAIN cells |-> Pointer(cells[i])]))
              /\ esp' = to /\ at' = "main"
         ELSE at' = "fault" /\ UNCHANGED <<mem, esp>>
  /\ UNCHANGED <<line, fn, save, token, argv>>

Rest == at \in {"main", "fault", "panic"} /\ UNCHANGED vars

Init ==
  /\ line \in BoundedSeq(Char \cup {Blank}, MaxLine)
  /\ at = "exec" /\ fn = <<>> /\ save = 1 /\ token = Nil
  /\ mem = [a \in PhysBase - StackSize .. PhysBase - 1 |-> Nil]
  /\ esp = PhysBase /\ argv = <<>>

Next == ProcessExecute \/ PushWord \/ PushPointers \/ Rest

-----------------------------------------------------------------------------
\* The words of the command line that a page holds.
Kept == SubSeq(line, 1, IF Len(line) < PgSize THEN Len(line) ELSE PgSize - 1)
Starts == SetToSortSeq({i \in DOMAIN Kept : Kept[i] # Blank /\ (i = 1 \/ Kept[i - 1] = Blank)},
                       LAMBDA i, j : i < j)
WordFrom(i) ==
  LET end == CHOOSE k \in i .. Len(Kept) :
               /\ k = Len(Kept) \/ Kept[k + 1] = Blank
               /\ \A j \in i .. k : Kept[j] # Blank
  IN  SubSeq(Kept, i, end)
Words == [n \in DOMAIN Starts |-> WordFrom(Starts[n])]

\* What main() reads: a pointer, and the string at an address.
ReadPointer(a) == mem[a][1]
ReadsString(a, s) ==
  \A i \in 1 .. Len(s) + 1 :
    a + i <= PhysBase /\ mem[a + i - 1] = IF i > Len(s) THEN Nul ELSE s[i]

BytesNeeded ==
  LET chars == FoldLeft(LAMBDA n, w : n + Len(w) + 1, 0, Words)
  IN  ((chars + Word - 1) \div Word) * Word + (Len(Words) + 4) * Word

\* main (argc, argv) gets the words of the command line in their order, argv[argc]
\* null and pointers on word boundaries, with no string or pointer overwritten
\* by a later push; only an empty command line or one for which the stack or
\* argv[] is too small does not get there.
ArgumentsRight ==
  /\ at = "main" =>
       LET array == ReadPointer(esp + 2 * Word) IN
       /\ esp % Word = 0
       /\ ReadPointer(esp + Word) = Len(Words)
       /\ \A n \in DOMAIN Words : ReadsString(ReadPointer(array + (n - 1) * Word), Words[n])
       /\ ReadPointer(array + Len(Words) * Word) = 0
  /\ at = "panic" => Words = <<>>
  /\ at = "fault" => Len(Words) > MaxArgs \/ BytesNeeded > StackSize
=============================================================================
