------------------------------- MODULE Loader -------------------------------
(***************************************************************************)
(* The address space of one user process: load() and its helpers in        *)
(* userprog/process.c, the page tables of userprog/pagedir.c, and the part *)
(* of process_exit() that gives them back.                                 *)
(*                                                                         *)
(* A page is PgSize bytes, a page table holds PtSize entries, addresses    *)
(* have AddrSize values and the user's are below PhysBase.  The executable *)
(* is external: load() reads one program header after another out of Phdr, *)
(* or fails to.  palloc_get_page() may fail at any call, the other users   *)
(* of memory being left out.  Byte i of the file is File(i), never 0.      *)
(***************************************************************************)
EXTENDS Integers, FiniteSets, Sequences

CONSTANTS PgSize, PtSize, AddrSize, PhysBase, FileLength, MaxPhnum,
          Phdr,    \* program headers: [type, offset, vaddr, filesz, memsz, write]
          Frame,   \* physical pages, as numbers
          Nil

VARIABLES at, phnum,  \* where load() is, and the headers it has left
          seg,        \* the arguments of load_segment(), which change as it goes
          pagedir,    \* Nil, or the page tables by number
          hand,       \* Nil, or the page (kpage) that is not mapped yet
          taken,      \* the pages palloc_get_page() gave and has not back
          content,    \* of each page
          loaded,     \* the segments loaded
          esp,
          panic       \* an ASSERT of palloc_free_multiple() has failed

vars == <<at, phnum, seg, pagedir, hand, taken, content, loaded, esp, panic>>

File(i)       == i + 1
RoundUp(x)    == ((x + PgSize - 1) \div PgSize) * PgSize
PgRoundDown(a) == a - (a % PgSize)
IsUser(a)     == a < PhysBase
PdNo(a)       == (a \div PgSize) \div PtSize
PtNo(a)       == (a \div PgSize) % PtSize
Plus(a, b)    == (a + b) % AddrSize
NoTables      == [n \in 0 .. PdNo(PhysBase - 1) |-> Nil]
NewTable(f)   == [frame |-> f, pte |-> [n \in 0 .. PtSize - 1 |-> Nil]]
Zeroed        == [i \in 0 .. PgSize - 1 |-> 0]
Junk          == [i \in 0 .. PgSize - 1 |-> Nil]

Free  == Frame \ taken
First(S) == CHOOSE f \in S : \A g \in S : f <= g

-----------------------------------------------------------------------------
\* lookup_page() without CREATE, and the page pagedir_get_page() returns.
LookupPage(a) ==
  IF pagedir.pt[PdNo(a)] = Nil THEN Nil ELSE pagedir.pt[PdNo(a)].pte[PtNo(a)]

\* validate_segment().
ValidateSegment(h) ==
  /\ h.offset % PgSize = h.vaddr % PgSize
  /\ h.offset <= FileLength
  /\ h.memsz >= h.filesz
  /\ h.memsz # 0
  /\ IsUser(h.vaddr) /\ IsUser(Plus(h.vaddr, h.memsz))
  /\ Plus(h.vaddr, h.memsz) >= h.vaddr
  /\ h.vaddr >= PgSize

\* What load() passes to load_segment().
Segment(h) ==
  LET page_offset == h.vaddr % PgSize
      read == IF h.filesz > 0 THEN page_offset + h.filesz ELSE 0
  IN  [pos |-> PgRoundDown(h.offset), upage |-> PgRoundDown(h.vaddr),
       read |-> read, zero |-> RoundUp(page_offset + h.memsz) - read,
       writable |-> h.write, phdr |-> h]

-----------------------------------------------------------------------------
\* palloc_get_page() for the page in hand.
GetPage ==
  /\ Free # {}
  /\ hand' = First(Free) /\ taken' = taken \cup {First(Free)}

\* Mutant: the page in hand is forgotten.
FreeHandNot == hand' = Nil /\ UNCHANGED <<taken, panic>>

\* palloc_free_page (kpage), which asserts that the page is in use.
FreeHand ==
  /\ hand' = Nil /\ taken' = taken \ {hand}
  /\ panic' = (panic \/ hand \notin taken)

\* pagedir_create() copies the kernel's mappings, of which nothing is kept here.
PagedirCreate ==
  /\ at = "start"
  /\ \/ /\ taken' = taken \cup {First(Free)}
        /\ pagedir' = [frame |-> First(Free), pt |-> NoTables] /\ at' = "open"
     \/ at' = "failed" /\ UNCHANGED <<taken, pagedir>>
  /\ UNCHANGED <<phnum, seg, hand, content, loaded, esp, panic>>

\* filesys_open() and the executable header, which may not be right.
OpenExecutable ==
  /\ at = "open"
  /\ \/ at' = "headers" /\ phnum' \in 0 .. MaxPhnum
     \/ at' = "failed" /\ UNCHANGED phnum
  /\ UNCHANGED <<seg, pagedir, hand, taken, content, loaded, esp, panic>>

ReadPhdr ==
  /\ at = "headers" /\ phnum > 0
  /\ phnum' = phnum - 1
  /\ \/ \E h \in Phdr :
          IF h.type = "load" /\ ValidateSegment(h)
          THEN at' = "segment" /\ seg' = Segment(h)
          ELSE /\ at' = IF h.type \in {"load", "refused"} THEN "failed" ELSE "headers"
               /\ UNCHANGED seg
     \/ at' = "failed" /\ UNCHANGED seg   \* not all of it is in the file
  /\ UNCHANGED <<pagedir, hand, taken, content, loaded, esp, panic>>

\* The page in hand at address a in a table, which may be one in a fresh page.
Map(a, writable, table, fresh) ==
  /\ pagedir' = [pagedir EXCEPT !.pt[PdNo(a)] =
       [table EXCEPT !.pte[PtNo(a)] = [frame |-> hand, writable |-> writable]]]
  /\ hand' = Nil /\ taken' = taken \cup fresh
  /\ UNCHANGED panic

\* pagedir_set_page(), and lookup_page() with CREATE: the page table may have to be
\* allocated, and then palloc_get_page() may fail.
SetPage(a, writable) ==
  LET table == pagedir.pt[PdNo(a)] IN
  IF table # Nil THEN Map(a, writable, table, {})
  ELSE Free # {} /\ Map(a, writable, NewTable(First(Free)), {First(Free)})
SetPageFails(a) == pagedir.pt[PdNo(a)] = Nil

\* install_page() and where load() goes then.  An address that is mapped is refused,
\* and a page that could not be installed is given back.
InstallPage(a, writable, then) ==
  /\ IsUser(a)
  /\ \/ LookupPage(a) = Nil /\ SetPage(a, writable) /\ at' = then
     \/ /\ LookupPage(a) # Nil \/ SetPageFails(a)
        /\ FreeHand /\ at' = "failed" /\ UNCHANGED pagedir

-----------------------------------------------------------------------------
\* One turn of load_segment() takes a page, ...
LoadGetPage ==
  /\ at = "segment" /\ seg.read + seg.zero > 0
  /\ \/ GetPage /\ at' = "read"
     \/ at' = "failed" /\ UNCHANGED <<hand, taken>>
  /\ UNCHANGED <<phnum, seg, pagedir, content, loaded, esp, panic>>

\* ... fills it, unless file_read() comes back short: at the end of the file at the
\* latest, and for an error further down anywhere, ...
PageRead == IF seg.read < PgSize THEN seg.read ELSE PgSize

LoadReadPage ==
  /\ at = "read"
  /\ \/ /\ PageRead = 0 \/ seg.pos + PageRead <= FileLength
        /\ content' = [content EXCEPT ![hand] = [i \in 0 .. PgSize - 1 |->
                          IF i < PageRead THEN File(seg.pos + i) ELSE 0]]
        /\ at' = "install" /\ UNCHANGED <<hand, taken, panic>>
     \/ PageRead > 0 /\ FreeHand /\ at' = "failed" /\ UNCHANGED content
  /\ UNCHANGED <<phnum, seg, pagedir, loaded, esp>>

\* ... maps it and advances.
LoadInstallPage ==
  /\ at = "install"
  /\ InstallPage(seg.upage, seg.writable, "segment")
  /\ seg' = IF at' = "segment"
            THEN [seg EXCEPT !.read = @ - PageRead, !.zero = @ - (PgSize - PageRead),
                             !.upage = @ + PgSize, !.pos = @ + PageRead]
            ELSE seg
  /\ UNCHANGED <<phnum, content, loaded, esp>>

LoadedSegment ==
  /\ at = "segment" /\ seg.read + seg.zero = 0
  /\ at' = "headers" /\ loaded' = loaded \cup {seg.phdr} /\ seg' = Nil
  /\ UNCHANGED <<phnum, pagedir, hand, taken, content, esp, panic>>

\* setup_stack(): one zeroed page, and the stack pointer above it.
StackGetPage ==
  /\ at = "headers" /\ phnum = 0
  /\ \/ GetPage /\ content' = [content EXCEPT ![hand'] = Zeroed] /\ at' = "stack"
     \/ at' = "failed" /\ UNCHANGED <<hand, taken, content>>
  /\ UNCHANGED <<phnum, seg, pagedir, loaded, esp, panic>>

StackInstallPage ==
  /\ at = "stack"
  /\ InstallPage(PhysBase - PgSize, TRUE, "running")
  /\ esp' = IF at' = "running" THEN PhysBase ELSE esp
  /\ UNCHANGED <<phnum, seg, content, loaded>>

-----------------------------------------------------------------------------
\* The page tables, and the pages mapped.
TableNos  == {n \in DOMAIN NoTables : pagedir.pt[n] # Nil}
UserPages == {a \in 0 .. PhysBase - 1 : a % PgSize = 0 /\ LookupPage(a) # Nil}

\* pagedir_destroy() in process_exit() frees the page of each entry it meets, and each
\* palloc_free_page() asserts that its page is in use.
PagedirDestroy ==
  /\ at \in {"running", "failed"}
  /\ LET freed == {pagedir.frame} \cup {pagedir.pt[n].frame : n \in TableNos}
                    \cup {LookupPage(a).frame : a \in UserPages}
     IN  IF pagedir = Nil THEN UNCHANGED <<taken, panic>>
         ELSE /\ taken' = taken \ freed
              /\ panic' = \/ panic \/ ~(freed \subseteq taken)
                          \/ Cardinality(freed)
                               # 1 + Cardinality(TableNos) + Cardinality(UserPages)
  /\ pagedir' = Nil /\ at' = "gone"
  /\ UNCHANGED <<phnum, seg, hand, content, loaded, esp>>

Rest == at = "gone" /\ UNCHANGED vars

Init ==
  /\ at = "start" /\ phnum = 0 /\ seg = Nil /\ pagedir = Nil
  /\ hand = Nil /\ taken = {} /\ content = [f \in Frame |-> Junk]
  /\ loaded = {} /\ esp = Nil /\ panic = FALSE

Next ==
  \/ PagedirCreate \/ OpenExecutable \/ ReadPhdr
  \/ LoadGetPage \/ LoadReadPage \/ LoadInstallPage \/ LoadedSegment
  \/ StackGetPage \/ StackInstallPage \/ PagedirDestroy \/ Rest

-----------------------------------------------------------------------------
Byte(a)   == content[LookupPage(a).frame][a % PgSize]
Covers(h, a) == a \in PgRoundDown(h.vaddr) .. h.vaddr + h.memsz - 1

\* A process that runs has in its memory what its executable says: the bytes of
\* the file and zeros after them, writable or not, and a zeroed stack; page 0
\* and all else is unmapped, and no frame serves twice.
ImageExact ==
  at = "running" =>
    /\ \A h \in loaded : \A i \in 0 .. h.memsz - 1 :
         /\ LookupPage(h.vaddr + i) # Nil
         /\ Byte(h.vaddr + i) = IF i < h.filesz THEN File(h.offset + i) ELSE 0
         /\ LookupPage(h.vaddr + i).writable = h.write
    /\ \A a \in UserPages :
         /\ a >= PgSize
         /\ \/ \E h \in loaded : Covers(h, a)
            \/ a = PhysBase - PgSize /\ Byte(a) = 0 /\ LookupPage(a).writable
    /\ Cardinality(taken) = 1 + Cardinality(TableNos) + Cardinality(UserPages)

\* However load() failed or the process ended, every page it took, the one in hand
\* too, has been given back, and given back once; and no address of the kernel is
\* ever mapped (the ASSERTs of pagedir.c).
ImageRight ==
  /\ ImageExact
  /\ at = "gone" => taken = {}
  /\ ~panic
  /\ at = "install" => IsUser(seg.upage)
=============================================================================
