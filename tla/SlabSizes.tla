----------------------------- MODULE SlabSizes -----------------------------
(* The sizes of the two kinds of slab of kern/mm/uslab.cc.                 *)
EXTENDS Integers

CONSTANTS NBitLine,   \* words in the bitmap of a BitmapSlab
          WordBits,   \* bits in a u64
          IntBits,    \* bits in an int
          CtzZero,    \* what this CPU answers for __builtin_ctzl(0)
          Total,      \* PAGESIZE / ObjSize of a FreeListSlab: 32, 16, 8, 4 or 2
          StackSize   \* the size of free_stack: 38

ASSUME BitmapAssumption ==
  /\ NBitLine \in {1, 2, 4}
  /\ IntBits \in Nat /\ IntBits > 1
  /\ WordBits = 2 * IntBits
  /\ CtzZero \in {0, WordBits}

ASSUME FreeListAssumption ==
  /\ Total \in Nat \ {0}
  /\ StackSize \in Nat
  /\ Total <= StackSize /\ StackSize < 256

NoObj == -1   \* before the first Alloc
=============================================================================
