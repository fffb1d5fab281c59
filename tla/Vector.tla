------------------------------- MODULE Vector -------------------------------
(***************************************************************************)
(* kern/libc/vector.{h,cc} with memcpy and memmove of kern/libc/string.c:  *)
(* vectors that grow in blocks of the kernel's heap.                       *)
(*                                                                         *)
(* A block is a sequence of elements, its name a number.  Positions are    *)
(* counted from 1 and memory is copied element by element, which is what   *)
(* the loops over bytes do to elements of one size.  A vector that does    *)
(* not exist yet can only be constructed, by moving another.               *)
(***************************************************************************)
EXTENDS Integers, Sequences, FiniteSets, SequencesExt

CONSTANTS Vectors, Elem,
          Blocks,       \* the blocks Alloc can return
          First,        \* capacity of the first block: 16
          MaxLen        \* bound: elements of a vector

NULL == 0
Garbage == "garbage"    \* what a new block holds

\* A block is free whenever one is needed: memory that runs out is SlabHeap's matter.
ASSUME VectorAssumption ==
  /\ Garbage \notin Elem /\ NULL \notin Blocks /\ Blocks \subseteq Nat
  /\ First \in Nat \ {0} /\ MaxLen \in Nat
  /\ IsFiniteSet(Vectors) /\ IsFiniteSet(Blocks)
  /\ Cardinality(Vectors) < Cardinality(Blocks)

VARIABLES exists,       \* the vectors constructed
          capacity, len, ptr,
          heap,         \* contents of the blocks; << >> if not in use
          crashed,      \* why the kernel crashed, or "no"
          wanted,       \* what a client expects in each vector
          spoilt        \* the vectors on which Remove moved several elements

object == <<capacity, len, ptr>>
vector_vars == <<exists, object, heap, crashed, wanted, spoilt>>

VectorInit ==
  /\ exists \in {{v} : v \in Vectors}
  /\ capacity = [v \in Vectors |-> 0] /\ len = [v \in Vectors |-> 0]
  /\ ptr = [v \in Vectors |-> NULL]
  /\ heap = [b \in Blocks |-> << >>] /\ crashed = "no"
  /\ wanted = [v \in Vectors |-> << >>] /\ spoilt = {}

-----------------------------------------------------------------------------
(* string.c, and a block of the heap.                                      *)

\* From the first element up.
MoveUp(arr, dst, src, n) ==
  LET moved[k \in 0 .. n] ==
        IF k = 0 THEN arr
        ELSE [moved[k - 1] EXCEPT ![dst + k - 1] = moved[k - 1][src + k - 1]]
  IN  moved[n]

\* memmove(arr + dst, arr + src, n): from the last element down, also when the
\* destination is below the source.
memmove(arr, dst, src, n) ==
  LET moved[k \in 0 .. n] ==
        IF k = 0 THEN arr
        ELSE [moved[k - 1] EXCEPT ![dst + n - k] = moved[k - 1][src + n - k]]
  IN  moved[n]

\* A block of the given size that begins with the n elements.
memcpy(arr, n, size) == SubSeq(arr, 1, n) \o [k \in 1 .. (size - n) |-> Garbage]

NewBlock == CHOOSE b \in Blocks : heap[b] = << >>
Old(v) == IF ptr[v] = NULL THEN << >> ELSE heap[ptr[v]]

-----------------------------------------------------------------------------
(* BaseVector.                                                             *)

\* The old block is not given back.
ResetPtrLeaks(v, size) ==
  [heap EXCEPT ![NewBlock] = memcpy(Old(v), len[v], size)]

\* ResetPtr's heap: the elements copied to a new block, the old one freed.
ResetPtr(v, size) ==
  [b \in Blocks |-> IF b = NewBlock THEN memcpy(Old(v), len[v], size)
                    ELSE IF b = ptr[v] THEN << >>
                    ELSE heap[b]]

Extended(v) == IF capacity[v] = 0 THEN First ELSE capacity[v] * 2

\* One element later than necessary.
FullLate(v) == len[v] > capacity[v]

\* EnsureSpace(len): idx >= capacity.
Full(v) == len[v] >= capacity[v]

\* The vector after EnsureSpace(len).
Ensured(v) ==
  IF Full(v) THEN [heap |-> ResetPtr(v, Extended(v)), ptr |-> NewBlock, capacity |-> Extended(v)]
  ELSE [heap |-> heap, ptr |-> ptr[v], capacity |-> capacity[v]]

-----------------------------------------------------------------------------
(* Vector.                                                                 *)

Crash(why) ==
  /\ crashed' = why
  /\ UNCHANGED <<exists, object, heap, wanted, spoilt>>

\* Where Insert's stores go.
Target(v) ==
  LET r == Ensured(v)
  IN  IF r.ptr = NULL THEN "null"
      ELSE IF len[v] < Len(r.heap[r.ptr]) THEN "block" ELSE "beyond"

\* pos = len + 1 is PushBack.
Insert(v, pos, e) ==
  LET r   == Ensured(v)
      arr == r.heap[r.ptr]
  IN  /\ Target(v) = "block"
      /\ heap' = [r.heap EXCEPT ![r.ptr] =
                    [memmove(arr, pos + 1, pos, len[v] - pos + 1) EXCEPT ![pos] = e]]
      /\ ptr' = [ptr EXCEPT ![v] = r.ptr]
      /\ capacity' = [capacity EXCEPT ![v] = r.capacity]
      /\ len' = [len EXCEPT ![v] = @ + 1]
      /\ wanted' = [wanted EXCEPT ![v] = InsertAt(@, pos, e)]
      /\ UNCHANGED <<exists, crashed, spoilt>>

InsertCrash(v) == Target(v) # "block" /\ Crash(Target(v))

\* Remove with n elements behind pos.  memmove goes the wrong way for n > 1.
RemoveElement(v, pos) ==
  LET n == len[v] - pos
  IN  /\ heap' = [heap EXCEPT ![ptr[v]] = memmove(@, pos, pos + 1, n)]
      /\ len' = [len EXCEPT ![v] = @ - 1]
      /\ wanted' = [wanted EXCEPT ![v] = RemoveAt(@, pos)]
      /\ spoilt' = IF n > 1 THEN spoilt \cup {v} ELSE spoilt
      /\ UNCHANGED <<exists, capacity, ptr, crashed>>

\* PopBack is Remove(len), one beyond the last: it moves -1 elements, and
\* memmove's loop runs through memory.
PopBack(v) == Crash("popback")

\* Vector(Vector &&rhs).
Move(v, rhs) ==
  /\ exists' = exists \cup {v}
  /\ len' = [len EXCEPT ![v] = len[rhs], ![rhs] = 0]
  /\ ptr' = [ptr EXCEPT ![v] = ptr[rhs], ![rhs] = NULL]
  /\ capacity' = [capacity EXCEPT ![v] = len[rhs]]
  /\ wanted' = [wanted EXCEPT ![v] = wanted[rhs], ![rhs] = << >>]
  /\ spoilt' = {IF u = rhs THEN v ELSE u : u \in spoilt}
  /\ UNCHANGED <<heap, crashed>>

VectorNext ==
  /\ crashed = "no"
  /\ \E v \in exists :
       \/ /\ len[v] < MaxLen
          /\ \/ \E pos \in 1 .. (len[v] + 1), e \in Elem : Insert(v, pos, e)
             \/ InsertCrash(v)
       \/ \E pos \in 1 .. len[v] : RemoveElement(v, pos)
       \/ PopBack(v)
       \/ \E w \in Vectors \ exists : Move(w, v)

VectorSpec == VectorInit /\ [][VectorNext]_vector_vars

-----------------------------------------------------------------------------
(* Properties.                                                             *)

\* A vector holds what was put into it, in order, across growing, shifting and
\* moving, as long as Remove did not have to move several elements.
Contents ==
  \A v \in exists \ spoilt : SubSeq(Old(v), 1, len[v]) = wanted[v]

\* Insertions store inside their block, also after Vector(Vector &&) has set the
\* capacity to the length; only a vector that was moved from, and has kept its
\* capacity without a block, stores at NULL.
WithinBlock ==
  /\ crashed # "beyond"
  /\ crashed = "null" => \E v \in exists : capacity[v] > 0 /\ ptr[v] = NULL

\* Every block in use belongs to exactly one vector: growing frees the block it
\* replaces, moving leaves the block with one owner.
OneOwner ==
  \A b \in Blocks : heap[b] # << >> <=> Cardinality({v \in exists : ptr[v] = b}) = 1
=============================================================================
