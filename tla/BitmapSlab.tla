----------------------------- MODULE BitmapSlab -----------------------------
(***************************************************************************)
(* kern/mm/uslab.cc: BitmapSlab<NBitLine>.  A word of the bitmap is the    *)
(* set of its 1 bits, so ^= is the symmetric difference, &= and |= are     *)
(* intersection and union.                                                 *)
(*                                                                         *)
(* Two things depend on the build rather than on the C++ text:             *)
(*   - 1 << idx is an int: with the top int bit set it is sign-extended    *)
(*     when it meets the u64 word, and the shift count is taken modulo the *)
(*     int width (x86 shl);                                                *)
(*   - __builtin_ctzl(0) is undefined; the emitted "rep bsf" answers       *)
(*     WordBits on a CPU with BMI1 (it is tzcnt there) and 0 on one        *)
(*     without (bsf leaves its register, the zero word, as it is).         *)
(***************************************************************************)
EXTENDS SlabSizes

VARIABLES bitmap,     \* the words
          live,       \* objects handed out and not freed
          got,        \* what the last Alloc returned
          allocated   \* this slab's share of MemCache's stat.allocated

vars == <<bitmap, live, got, allocated>>

Line == 0 .. (NBitLine - 1)
Bit == 0 .. (WordBits - 1)

\* The page's objects, one per bit as the constructor and Init count them.
Objects == {idx * NBitLine + row : idx \in Bit, row \in Line}

\* The objects whose bit 1 << idx reaches.
LowerHalf == {idx * NBitLine + row : idx \in 0 .. (IntBits - 1), row \in Line}

\* 1 << idx, as an int, converted to u64.
OneShl(idx) ==
  LET b == idx % IntBits
  IN  IF b = IntBits - 1 THEN b .. (WordBits - 1) ELSE {b}

Xor(v, w) == (v \ w) \cup (w \ v)

\* ctz of a full row taken for 0, as on a CPU without BMI1.
IsCtzBsf(w, t) ==
  IF w = {} THEN t = 0
            ELSE t \in w /\ \A u \in w : t <= u

\* t = __builtin_ctzl(w)
IsCtz(w, t) ==
  IF w = {} THEN t = CtzZero
            ELSE t \in w /\ \A u \in w : t <= u

\* The loop of is_empty stopped early: only the first word is looked at.
is_empty_first == bitmap[0] = Bit

is_full == \A row \in Line : bitmap[row] = {}
is_empty == \A row \in Line : bitmap[row] = Bit

Init ==
  /\ bitmap = [row \in Line |-> Bit]
  /\ live = {}
  /\ got = NoObj
  /\ allocated = 0

\* The loop of AllocFromBitmapArray: the smallest ctz, in the first row that has it.
Picks(row, idx) ==
  /\ IsCtz(bitmap[row], idx)
  /\ idx < WordBits
  /\ \A r \in Line : \A t \in 0 .. WordBits :
       IsCtz(bitmap[r], t) => idx <= t /\ (r < row => idx < t)

AllocFromBitmapArray(row, idx) ==
  /\ Picks(row, idx)
  /\ bitmap' = [bitmap EXCEPT ![row] = Xor(@, OneShl(idx))]
  /\ got' = idx * NBitLine + row
  /\ live' = live \cup {idx * NBitLine + row}
  /\ allocated' = allocated + 1

\* Called by MemCache::Allocate on a slab that was not full when it was queued.
Alloc ==
  /\ ~is_full
  /\ \E row \in Line, idx \in Bit : AllocFromBitmapArray(row, idx)

FreeToBitmapArray(obj_idx) ==
  LET row == obj_idx % NBitLine
      idx == obj_idx \div NBitLine
  IN  bitmap' = [bitmap EXCEPT ![row] = Xor(@, OneShl(idx))]

Free(obj_idx) ==
  /\ obj_idx \in live
  /\ FreeToBitmapArray(obj_idx)
  /\ live' = live \ {obj_idx}
  /\ allocated' = allocated - 1
  /\ UNCHANGED got

Next == Alloc \/ \E o \in live : Free(o)

Spec == Init /\ [][Next]_vars

-----------------------------------------------------------------------------
(* Properties *)

\* Type invariant: words of WordBits bits, object indexes inside the page.
TypeOK ==
  /\ bitmap \in [Line -> SUBSET Bit]
  /\ live \subseteq Objects
  /\ got \in Objects \cup {NoObj}

SO == INSTANCE SlabObjs

\* The bitmap implements a pool of the page's objects: AllocFromBitmapArray never
\* hands out an object that is in use or one outside the page.
ImplementsPool == SO!Spec

\* MemCache::AdjustSlab queues the slab by is_full and is_empty.  is_empty is
\* exact, so ReclaimEmptySlab never gives back a page that holds an object.
\* is_full holds as soon as the lower half is in use: a slab counts as full
\* with half of its page unused, and one that is not full has an object to give.
\* (uslab.cc:28 says of a bit "1 means free slot, 0 means in use": the upper half
\* of a word reads 0 when its top int bit is taken, though nobody got those slots.)
SlabQueries ==
  /\ is_empty <=> live = {}
  /\ is_full <=> LowerHalf \subseteq live

-----------------------------------------------------------------------------
\* Inductive for a CPU with CtzZero = WordBits: a bit below the top int bit
\* stands for its object, the top int bit and all bits above it for one object.
BitFor(row, b) == (IF b < IntBits THEN b ELSE IntBits - 1) * NBitLine + row

BitsAgree ==
  \A row \in Line, b \in Bit : b \in bitmap[row] <=> BitFor(row, b) \notin live

IInv == TypeOK /\ live \subseteq LowerHalf /\ BitsAgree
=============================================================================
