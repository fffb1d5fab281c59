------------------------------ MODULE SlabObjs ------------------------------
(***************************************************************************)
(* What a slab of kern/mm/uslab.cc promises MemCache: a pool of object     *)
(* slots of one page.  MemCache keeps a full slab out of reach of Alloc    *)
(* and frees only what it handed out, so both are preconditions here.      *)
(***************************************************************************)
EXTENDS Integers

CONSTANTS Objects,    \* the object indexes the slab hands out
          NoObj       \* got before the first Alloc

VARIABLES live,       \* objects handed out and not freed
          got,        \* what the last Alloc returned
          allocated   \* calls of Alloc less calls of Free

absvars == <<live, got, allocated>>

Init ==
  /\ live = {}
  /\ got = NoObj
  /\ allocated = 0

Alloc ==
  /\ live # Objects
  /\ got' \in Objects \ live
  /\ live' = live \cup {got'}
  /\ allocated' = allocated + 1

Free(o) ==
  /\ o \in live
  /\ live' = live \ {o}
  /\ allocated' = allocated - 1
  /\ UNCHANGED got

Next == Alloc \/ \E o \in live : Free(o)

Spec == Init /\ [][Next]_absvars
=============================================================================
