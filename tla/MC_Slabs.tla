----------------------------- MODULE MC_Slabs ------------------------------
(* A slab of either kind.  BitmapSlab<4> is scaled to 6-bit words and      *)
(* 3-bit ints: rows fill up one after the other and bit 2 is the top int   *)
(* bit.  FreeListSlab has five objects on a stack of six bytes; every      *)
(* order of Free is reached.                                               *)
EXTENDS BitmapSlab, FreeListSlab

VARIABLE kind

MCInit == Init /\ StackInit /\ kind \in {"bitmap", "free list"}

MCNext ==
  /\ UNCHANGED kind
  /\ \/ kind = "bitmap" /\ Next /\ UNCHANGED stackvars
     \/ kind = "free list" /\ StackNext /\ UNCHANGED vars

MCSpec == MCInit /\ [][MCNext]_<<kind, vars, stackvars>>
=============================================================================
