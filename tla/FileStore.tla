------------------------------ MODULE FileStore -----------------------------
(***************************************************************************)
(* What the file system promises to processes: names that denote files,    *)
(* files that are rows of blocks, handles on files, and what is left of    *)
(* all that after the machine is switched off.  Module Files shows that    *)
(* filesys/ keeps this promise, and under which assumptions.               *)
(***************************************************************************)
EXTENDS Integers, Sequences, TLC

CONSTANTS Proc, Name, File, Val, Zero, MaxLen, None

VARIABLES names,  \* the file each name denotes, or None
          blocks, \* the blocks of every file that exists
          opens,  \* how many handles are on each file
          denied, \* how many of them deny writes
          got     \* the block a process has just read, or None

storeVars == <<names, blocks, opens, denied, got>>

Named(f) == \E n \in Name : names[n] = f
Zeros(k) == [i \in 1 .. k |-> Zero]
Without(f) == [g \in DOMAIN blocks \ {f} |-> blocks[g]]

\* A new file of k zero blocks; its name must be free.
Create(n, f, k) ==
  /\ names[n] = None /\ f \notin DOMAIN blocks
  /\ names' = [names EXCEPT ![n] = f]
  /\ blocks' = (f :> Zeros(k)) @@ blocks
  /\ UNCHANGED <<opens, denied, got>>

Open(f) ==
  /\ f \in DOMAIN blocks
  /\ opens' = [opens EXCEPT ![f] = @ + 1]
  /\ UNCHANGED <<names, blocks, denied, got>>

\* A file without a name goes with its last handle.
Close(f) ==
  /\ opens[f] > 0
  /\ opens' = [opens EXCEPT ![f] = @ - 1]
  /\ blocks' = IF opens[f] = 1 /\ ~Named(f) THEN Without(f) ELSE blocks
  /\ UNCHANGED <<names, denied, got>>

\* A name is removed while its file is open, at least by the remover.
Remove(n) ==
  /\ names[n] # None /\ opens[names[n]] > 0
  /\ names' = [names EXCEPT ![n] = None]
  /\ UNCHANGED <<blocks, opens, denied, got>>

Deny(f) ==
  /\ denied[f] < opens[f]
  /\ denied' = [denied EXCEPT ![f] = @ + 1]
  /\ UNCHANGED <<names, blocks, opens, got>>

Allow(f) ==
  /\ denied[f] > 0
  /\ denied' = [denied EXCEPT ![f] = @ - 1]
  /\ UNCHANGED <<names, blocks, opens, got>>

Read(p, f, i) ==
  /\ f \in DOMAIN blocks /\ i \in DOMAIN blocks[f]
  /\ got' = [got EXCEPT ![p] = blocks[f][i]]
  /\ UNCHANGED <<names, blocks, opens, denied>>

Forget(p) ==
  got' = [got EXCEPT ![p] = None] /\ UNCHANGED <<names, blocks, opens, denied>>

\* A write past the end first makes the file longer by zero blocks.
Extend(f, k) ==
  /\ opens[f] > 0 /\ denied[f] = 0 /\ Len(blocks[f]) + k <= MaxLen
  /\ blocks' = [blocks EXCEPT ![f] = @ \o Zeros(k)]
  /\ UNCHANGED <<names, opens, denied, got>>

Put(f, i, v) ==
  /\ opens[f] > 0 /\ denied[f] = 0 /\ i \in DOMAIN blocks[f]
  /\ blocks' = [blocks EXCEPT ![f][i] = v]
  /\ UNCHANGED <<names, opens, denied, got>>

\* Switched off and on: names stay, and so do the blocks of every file nobody
\* had open; a file that was open keeps its length, and a file without a name
\* is gone.
Reboot ==
  /\ opens' = [f \in File |-> 0]
  /\ denied' = [f \in File |-> 0]
  /\ got' = [p \in Proc |-> None]
  /\ DOMAIN blocks' = {f \in DOMAIN blocks : Named(f)}
  /\ \A f \in DOMAIN blocks' :
        /\ blocks'[f] \in [DOMAIN blocks[f] -> Val]
        /\ opens[f] = 0 => blocks'[f] = blocks[f]
  /\ UNCHANGED names

StoreInit ==
  /\ names = [n \in Name |-> None]
  /\ blocks = <<>>
  /\ opens = [f \in File |-> 0]
  /\ denied = [f \in File |-> 0]
  /\ got = [p \in Proc |-> None]

StoreNext ==
  \/ \E n \in Name : Remove(n) \/ \E f \in File, k \in 0 .. MaxLen : Create(n, f, k)
  \/ \E f \in File : \/ Open(f) \/ Close(f) \/ Deny(f) \/ Allow(f)
                     \/ \E k \in 1 .. MaxLen : Extend(f, k)
                     \/ \E i \in 1 .. MaxLen, v \in Val : Put(f, i, v)
                     \/ \E i \in 1 .. MaxLen, p \in Proc : Read(p, f, i)
  \/ \E p \in Proc : Forget(p)
  \/ Reboot

StoreSpec == StoreInit /\ [][StoreNext]_storeVars
=============================================================================
