---------------------------- MODULE MC_SlabHeap ----------------------------
(* Clients that ask for two of three sizes.  1024 and 1025 have caches of  *)
(* four and of two objects a slab, which share MetaSlabs of two headers:   *)
(* in six pages there are two of these at a time.  4097 is a run of two    *)
(* pages, which competes with the slabs for memory and leaves its structs  *)
(* behind for them.                                                        *)
EXTENDS SlabHeap

CONSTANT MaxHeld   \* bound: objects that clients hold at a time

VARIABLE sizes     \* what clients ask for

MCInit == Init /\ sizes \in {{1024, 1025}, {1025, 4097}}

MCNext ==
  /\ UNCHANGED sizes
  /\ \/ Cardinality(held) < MaxHeld /\ \E size \in sizes : Alloc(size)
     \/ \E b \in held : Free(b)

MCSpec == MCInit /\ [][MCNext]_<<sizes, vars>>
=============================================================================
