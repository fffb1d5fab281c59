---------------------------- MODULE Slabs_proofs ----------------------------
(***************************************************************************)
(* Both kinds of slab implement a pool of objects: first BitmapSlab, then  *)
(* FreeListSlab, whose names begin with Stack.                             *)
(***************************************************************************)
EXTENDS BitmapSlab, FreeListSlab, FiniteSetTheorems, TLAPS

-----------------------------------------------------------------------------
(***************************************************************************)
(* Object index arithmetic.  NBitLine is 1, 2 or 4, as in the caches of    *)
(* uslab.cc; each case is linear.                                          *)
(***************************************************************************)

\* The word and row sizes are positive, and a row index is below NBitLine.
LEMMA ConstFacts ==
  /\ NBitLine \in Nat /\ NBitLine > 0
  /\ IntBits \in Nat /\ IntBits > 1 /\ WordBits \in Nat /\ WordBits = 2 * IntBits
  /\ Line = 0 .. (NBitLine - 1) /\ 0 \in Line
  /\ Bit = 0 .. (WordBits - 1)
BY BitmapAssumption DEF Line, Bit

\* obj_idx % n and obj_idx / n undo idx * n + row.
LEMMA IndexFacts ==
  ASSUME NEW idx \in Nat, NEW row \in Line
  PROVE  /\ (idx * NBitLine + row) % NBitLine = row
         /\ (idx * NBitLine + row) \div NBitLine = idx
         /\ idx * NBitLine + row \in Nat
<1>1. CASE NBitLine = 1
  BY <1>1 DEF Line
<1>2. CASE NBitLine = 2
  BY <1>2 DEF Line
<1>3. CASE NBitLine = 4
  BY <1>3 DEF Line
<1> QED BY <1>1, <1>2, <1>3, BitmapAssumption

\* Two objects with the same index are the same bit of the same row.
LEMMA IndexInjective ==
  ASSUME NEW idx \in Nat, NEW row \in Line, NEW jdx \in Nat, NEW col \in Line,
         idx * NBitLine + row = jdx * NBitLine + col
  PROVE  idx = jdx /\ row = col
BY IndexFacts

\* LowerHalf is the bits of the low half of each row, a part of the objects.
LEMMA ObjectsFacts ==
  /\ \A idx \in 0 .. (IntBits - 1), row \in Line : idx * NBitLine + row \in LowerHalf
  /\ \A o \in LowerHalf : \E idx \in 0 .. (IntBits - 1), row \in Line :
       o = idx * NBitLine + row
  /\ LowerHalf \subseteq Objects
<1>1. 0 .. (IntBits - 1) \subseteq Bit
  BY ConstFacts
<1> QED BY <1>1 DEF LowerHalf, Objects

\* The bits that stand for an object are those 1 << idx toggles.
LEMMA ShlFacts ==
  ASSUME NEW idx \in 0 .. (IntBits - 1), NEW row \in Line,
         NEW r \in Line, NEW b \in Bit
  PROVE  /\ BitFor(r, b) = idx * NBitLine + row <=> r = row /\ b \in OneShl(idx)
         /\ OneShl(idx) \subseteq Bit
<1> DEFINE jdx == IF b < IntBits THEN b ELSE IntBits - 1
<1>1. jdx \in Nat /\ idx \in Nat /\ b \in Nat /\ b < 2 * IntBits
  BY ConstFacts
<1>2. BitFor(r, b) = jdx * NBitLine + r
  BY DEF BitFor
<1>3. OneShl(idx) = IF idx = IntBits - 1 THEN idx .. (WordBits - 1) ELSE {idx}
  <2>1. idx % IntBits = idx
    BY ConstFacts
  <2> QED BY <2>1 DEF OneShl
<1>4. BitFor(r, b) = idx * NBitLine + row <=> idx = jdx /\ r = row
  <2> HIDE DEF jdx
  <2> QED BY <1>1, <1>2, IndexInjective
<1>5. idx = jdx <=> b \in OneShl(idx)
  BY <1>1, <1>3, ConstFacts
<1>6. OneShl(idx) \subseteq Bit
  BY <1>1, <1>3, ConstFacts
<1> QED BY <1>4, <1>5, <1>6

\* Toggling the bits of one object as it changes hands keeps the bitmap right.
LEMMA Toggle ==
  ASSUME IInv, NEW idx \in 0 .. (IntBits - 1), NEW row \in Line,
         bitmap' = [bitmap EXCEPT ![row] = Xor(bitmap[row], OneShl(idx))],
         \/ /\ idx * NBitLine + row \notin live
            /\ live' = live \cup {idx * NBitLine + row}
         \/ /\ idx * NBitLine + row \in live
            /\ live' = live \ {idx * NBitLine + row}
  PROVE  BitsAgree' /\ bitmap' \in [Line -> SUBSET Bit] /\ live' \subseteq LowerHalf
<1> DEFINE o == idx * NBitLine + row
<1>1. bitmap \in [Line -> SUBSET Bit] /\ live \subseteq LowerHalf
  BY DEF IInv, TypeOK
<1>2. o \in LowerHalf
  BY ObjectsFacts
<1>3. OneShl(idx) \subseteq Bit
  BY ShlFacts, ConstFacts
<1>4. bitmap' \in [Line -> SUBSET Bit]
  BY <1>1, <1>3 DEF Xor
<1>5. ASSUME NEW r \in Line, NEW b \in Bit
      PROVE  b \in bitmap'[r] <=> BitFor(r, b) \notin live'
  <2> HIDE DEF o
  <2>1. b \in bitmap[r] <=> BitFor(r, b) \notin live
    BY DEF IInv, BitsAgree
  <2>2. BitFor(r, b) = o <=> r = row /\ b \in OneShl(idx)
    BY ShlFacts DEF o
  <2>3. b \in bitmap'[r] <=> IF r = row /\ b \in OneShl(idx) THEN b \notin bitmap[r]
                                                          ELSE b \in bitmap[r]
    BY <1>1 DEF Xor
  <2>4. \/ o \notin live /\ live' = live \cup {o}
        \/ o \in live /\ live' = live \ {o}
    BY DEF o
  <2> QED BY <2>1, <2>2, <2>3, <2>4
<1> QED BY <1>1, <1>2, <1>4, <1>5 DEF BitsAgree

-----------------------------------------------------------------------------
(***************************************************************************)
(* The inductive invariant, for a CPU whose ctz of 0 is WordBits.          *)
(***************************************************************************)

\* The bitmap the constructor of BitmapSlab writes satisfies the invariant.
LEMMA InitIInv == Init => IInv
<1> SUFFICES ASSUME Init PROVE IInv
  OBVIOUS
<1>1. TypeOK
  BY DEF Init, TypeOK
<1>2. BitsAgree
  BY DEF Init, BitsAgree
<1>3. live \subseteq LowerHalf
  BY DEF Init
<1> QED BY <1>1, <1>2, <1>3 DEF IInv

\* What the scan finds is the lowest bit of an object that nobody holds.
LEMMA PicksFree ==
  ASSUME IInv, CtzZero = WordBits, NEW row \in Line, NEW idx \in Bit, Picks(row, idx)
  PROVE  idx \in 0 .. (IntBits - 1) /\ idx * NBitLine + row \notin live
<1>1. idx \in bitmap[row] /\ \A u \in bitmap[row] : idx <= u
  BY ConstFacts DEF Picks, IsCtz
<1>2. idx < IntBits
  <2> SUFFICES ASSUME idx >= IntBits PROVE FALSE
    BY ConstFacts
  <2>1. IntBits - 1 \in Bit /\ IntBits - 1 < idx
    BY ConstFacts
  <2>2. BitFor(row, IntBits - 1) = BitFor(row, idx)
    BY ConstFacts DEF BitFor
  <2>3. IntBits - 1 \in bitmap[row]
    BY <1>1, <2>1, <2>2 DEF IInv, BitsAgree
  <2> QED BY <1>1, <2>1, <2>3, ConstFacts
<1>3. BitFor(row, idx) = idx * NBitLine + row
  BY <1>2 DEF BitFor
<1> QED BY <1>1, <1>2, <1>3, ConstFacts DEF IInv, BitsAgree

\* Alloc returns an object nobody holds and keeps the invariant.
LEMMA AllocFacts ==
  ASSUME IInv, CtzZero = WordBits, Alloc
  PROVE  /\ IInv' /\ got' \in Objects \ live /\ live' = live \cup {got'}
         /\ allocated' = allocated + 1
<1>1. PICK row \in Line, idx \in Bit : AllocFromBitmapArray(row, idx)
  BY DEF Alloc
<1>2. idx \in 0 .. (IntBits - 1) /\ idx * NBitLine + row \notin live
  BY <1>1, PicksFree DEF AllocFromBitmapArray
<1>3. /\ bitmap' = [bitmap EXCEPT ![row] = Xor(bitmap[row], OneShl(idx))]
      /\ got' = idx * NBitLine + row
      /\ live' = live \cup {idx * NBitLine + row} /\ allocated' = allocated + 1
  BY <1>1 DEF AllocFromBitmapArray
<1>4. BitsAgree' /\ bitmap' \in [Line -> SUBSET Bit] /\ live' \subseteq LowerHalf
  BY <1>2, <1>3, Toggle
<1>5. got' \in LowerHalf
  BY <1>2, <1>3, ObjectsFacts
<1> QED BY <1>2, <1>3, <1>4, <1>5, ObjectsFacts DEF IInv, TypeOK

\* Free takes back exactly the object it is given and keeps the invariant.
LEMMA FreeFacts ==
  ASSUME IInv, NEW o \in live, Free(o)
  PROVE  IInv' /\ live' = live \ {o} /\ got' = got /\ allocated' = allocated - 1
<1>1. PICK idx \in 0 .. (IntBits - 1), row \in Line : o = idx * NBitLine + row
  BY ObjectsFacts DEF IInv, TypeOK
<1>2. idx \in Nat
  BY ConstFacts
<1>3. o % NBitLine = row /\ o \div NBitLine = idx
  BY <1>1, <1>2, IndexFacts
<1>4. /\ bitmap' = [bitmap EXCEPT ![row] = Xor(bitmap[row], OneShl(idx))]
      /\ live' = live \ {o} /\ got' = got /\ allocated' = allocated - 1
  BY <1>3 DEF Free, FreeToBitmapArray
<1>5. BitsAgree' /\ bitmap' \in [Line -> SUBSET Bit] /\ live' \subseteq LowerHalf
  BY <1>1, <1>4, Toggle
<1> QED BY <1>4, <1>5, ObjectsFacts DEF IInv, TypeOK

\* With a tzcnt that answers WordBits for 0, every step keeps the invariant.
LEMMA NextIInv == ASSUME CtzZero = WordBits PROVE IInv /\ [Next]_vars => IInv'
<1> SUFFICES ASSUME IInv, [Next]_vars PROVE IInv'
  OBVIOUS
<1>1. CASE Alloc
  BY <1>1, AllocFacts
<1>2. CASE \E o \in live : Free(o)
  BY <1>2, FreeFacts
<1>3. CASE UNCHANGED vars
  BY <1>3 DEF IInv, TypeOK, BitsAgree, vars
<1> QED BY <1>1, <1>2, <1>3 DEF Next

\* With that tzcnt the invariant holds throughout.
LEMMA Invariance == ASSUME CtzZero = WordBits PROVE Spec => []IInv
<1>1. IInv /\ [Next]_vars => IInv'
  BY NextIInv
<1> QED BY InitIInv, <1>1, PTL DEF Spec

\* On a CPU with BMI1 the bitmap always holds words of the page's objects.
THEOREM TypeCorrect == ASSUME CtzZero = WordBits PROVE Spec => []TypeOK
<1>1. IInv => TypeOK
  BY DEF IInv
<1>2. Spec => []IInv
  BY Invariance
<1> QED BY <1>1, <1>2, PTL

\* On a CPU with BMI1, is_empty says exactly that no object is in use, and
\* is_full that the lower half of the objects is, for any width of the words and
\* for 1, 2 or 4 of them.
THEOREM Queries == ASSUME CtzZero = WordBits PROVE Spec => []SlabQueries
<1>1. IInv => SlabQueries
  <2> SUFFICES ASSUME IInv PROVE SlabQueries
    OBVIOUS
  <2>1. bitmap \in [Line -> SUBSET Bit] /\ live \subseteq LowerHalf
    BY DEF IInv, TypeOK
  <2>2. \A row \in Line, b \in Bit : BitFor(row, b) \in LowerHalf
    <3> SUFFICES ASSUME NEW row \in Line, NEW b \in Bit PROVE BitFor(row, b) \in LowerHalf
      OBVIOUS
    <3>1. (IF b < IntBits THEN b ELSE IntBits - 1) \in 0 .. (IntBits - 1)
      BY ConstFacts
    <3> QED BY <3>1, ObjectsFacts DEF BitFor
  <2>3. \A o \in LowerHalf : \E row \in Line, b \in Bit : BitFor(row, b) = o
    <3> SUFFICES ASSUME NEW o \in LowerHalf
                 PROVE  \E row \in Line, b \in Bit : BitFor(row, b) = o
      OBVIOUS
    <3>1. PICK idx \in 0 .. (IntBits - 1), row \in Line : o = idx * NBitLine + row
      BY ObjectsFacts
    <3>2. idx \in Bit /\ BitFor(row, idx) = o
      BY <3>1, ConstFacts DEF BitFor
    <3> QED BY <3>2
  <2>4. is_full <=> \A row \in Line, b \in Bit : b \notin bitmap[row]
    BY <2>1 DEF is_full
  <2>5. is_empty <=> \A row \in Line, b \in Bit : b \in bitmap[row]
    BY <2>1 DEF is_empty
  <2>6. is_full <=> LowerHalf \subseteq live
    <3>1. \A row \in Line, b \in Bit : b \in bitmap[row] <=> BitFor(row, b) \notin live
      BY DEF IInv, BitsAgree
    <3>2. ASSUME is_full PROVE LowerHalf \subseteq live
      BY <3>1, <3>2, <2>3, <2>4
    <3>3. ASSUME LowerHalf \subseteq live PROVE is_full
      BY <3>1, <3>3, <2>2, <2>4
    <3> QED BY <3>2, <3>3, <2>1
  <2>7. is_empty <=> live = {}
    BY <2>1, <2>2, <2>3, <2>5 DEF IInv, BitsAgree
  <2> QED BY <2>6, <2>7 DEF SlabQueries
<1>2. Spec => []IInv
  BY Invariance
<1> QED BY <1>1, <1>2, PTL

\* On a CPU with BMI1 the bitmap implements the pool of SlabObjs: no object is
\* handed out twice.
THEOREM Refinement == ASSUME CtzZero = WordBits PROVE Spec => ImplementsPool
<1>1. Init => SO!Init
  BY DEF Init, SO!Init
<1>2. IInv /\ [Next]_vars => [SO!Next]_(SO!absvars)
  <2> SUFFICES ASSUME IInv, [Next]_vars PROVE SO!Next \/ UNCHANGED SO!absvars
    OBVIOUS
  <2>1. CASE Alloc
    <3>1. /\ got' \in Objects \ live /\ live' = live \cup {got'}
          /\ allocated' = allocated + 1
      BY <2>1, AllocFacts
    <3> QED BY <3>1 DEF SO!Next, SO!Alloc
  <2>2. CASE \E o \in live : Free(o)
    BY <2>2, FreeFacts DEF SO!Next, SO!Free
  <2>3. CASE UNCHANGED vars
    BY <2>3 DEF vars, SO!absvars
  <2> QED BY <2>1, <2>2, <2>3 DEF Next
<1>3. Spec => []IInv
  BY Invariance
<1>4. Spec => SO!Spec
  BY <1>1, <1>2, <1>3, PTL DEF Spec, SO!Spec
<1> QED BY <1>4 DEF ImplementsPool

-----------------------------------------------------------------------------
(* FreeListSlab *)

\* The number of objects fits in the stack and the stack's size in a u8.
LEMMA StackConstFacts ==
  /\ Total \in Nat /\ Total > 0 /\ StackSize \in Nat /\ Total <= StackSize /\ StackSize < 256
  /\ u8(Total) = Total
  /\ StackObjects = 0 .. (Total - 1) /\ Slot = 0 .. (StackSize - 1)
BY FreeListAssumption DEF u8, StackObjects, Slot

\* A value below 256 is stored in a u8 unchanged.
LEMMA U8Small == ASSUME NEW x \in 0 .. 255 PROVE u8(x) = x
BY DEF u8

\* Sets of objects are finite, and the set of all of them has Total elements.
LEMMA CardFacts ==
  /\ IsFiniteSet(StackObjects) /\ Cardinality(StackObjects) = Total
  /\ \A S \in SUBSET StackObjects :
       /\ IsFiniteSet(S) /\ Cardinality(S) \in 0 .. Total
       /\ Cardinality(S) = 0 <=> S = {}
       /\ Cardinality(S) = Total <=> S = StackObjects
<1>1. IsFiniteSet(StackObjects) /\ Cardinality(StackObjects) = Total
  BY FS_Interval, StackConstFacts
<1>2. ASSUME NEW S \in SUBSET StackObjects
      PROVE  /\ IsFiniteSet(S) /\ Cardinality(S) \in 0 .. Total
             /\ Cardinality(S) = 0 <=> S = {}
             /\ Cardinality(S) = Total <=> S = StackObjects
  <2>1. IsFiniteSet(S) /\ Cardinality(S) <= Total
    BY <1>1, FS_Subset
  <2>2. Cardinality(S) \in Nat
    BY <2>1, FS_CardinalityType
  <2>3. Cardinality(S) = 0 <=> S = {}
    BY <2>1, FS_EmptySet
  <2>4. Cardinality(S) = Total => S = StackObjects
    BY <1>1, FS_Subset
  <2> QED BY <1>1, <2>1, <2>2, <2>3, <2>4, StackConstFacts
<1> QED BY <1>1, <1>2

\* The stack the constructor of FreeListSlab fills satisfies the invariant.
LEMMA StackInitIInv == StackInit => StackIInv
<1> SUFFICES ASSUME StackInit PROVE StackIInv
  OBVIOUS
<1>1. /\ nr_free = Total /\ nr_total = Total /\ stack_live = {} /\ stack_got = NoObj
      /\ free_stack = [s \in Slot |-> IF s < Total THEN s ELSE 0]
  BY StackConstFacts DEF StackInit
<1>2. StackTypeOK
  BY <1>1, StackConstFacts DEF StackTypeOK
<1>3. \A s \in 0 .. (nr_free - 1) : free_stack[s] = s
  BY <1>1, StackConstFacts
<1>4. OnStack = StackObjects \ stack_live /\ NoRepeat
  BY <1>1, <1>3, StackConstFacts DEF OnStack, NoRepeat
<1>5. nr_free = Total - Cardinality(stack_live)
  BY <1>1, FS_EmptySet, StackConstFacts
<1> QED BY <1>2, <1>4, <1>5 DEF StackIInv

\* Alloc pops an object nobody holds.
LEMMA StackAllocFacts ==
  ASSUME StackIInv, StackAlloc
  PROVE  /\ StackIInv' /\ stack_got' \in StackObjects \ stack_live /\ stack_live' = stack_live \cup {stack_got'}
         /\ stack_allocated' = stack_allocated + 1
<1> DEFINE top == nr_free - 1
<1>1. /\ nr_free \in 1 .. Total /\ nr_free \in Nat
      /\ free_stack \in [Slot -> StackObjects] /\ stack_live \in SUBSET StackObjects
  BY StackConstFacts DEF StackIInv, StackTypeOK, StackAlloc, stack_is_full
<1>2. u8(nr_free - 1) = top
  BY <1>1, StackConstFacts DEF u8
<1>3. /\ nr_free' = top /\ stack_got' = free_stack[top] /\ stack_live' = stack_live \cup {stack_got'}
      /\ free_stack' = free_stack /\ nr_total' = nr_total /\ stack_allocated' = stack_allocated + 1
  BY <1>2 DEF StackAlloc
<1>4. stack_got' \in OnStack /\ stack_got' \in StackObjects
  BY <1>1, <1>3, StackConstFacts DEF OnStack
<1>5. stack_got' \in StackObjects \ stack_live
  BY <1>4 DEF StackIInv
<1>6. StackTypeOK'
  <2>1. nr_free' \in 0 .. Total /\ nr_total' = Total
    BY <1>1, <1>3, StackConstFacts DEF StackIInv, StackTypeOK
  <2>2. stack_live' \in SUBSET StackObjects
    BY <1>1, <1>3, <1>5
  <2> QED BY <1>1, <1>3, <1>5, <2>1, <2>2 DEF StackTypeOK
<1>7. NoRepeat'
  BY <1>1, <1>3 DEF StackIInv, NoRepeat
<1>8. OnStack' = StackObjects \ stack_live'
  <2>1. OnStack' = OnStack \ {stack_got'}
    <3>1. \A s \in 0 .. (top - 1) : free_stack[s] # free_stack[top]
      BY <1>1 DEF StackIInv, NoRepeat
    <3>2. OnStack = {free_stack[s] : s \in 0 .. (top - 1)} \cup {free_stack[top]}
      BY <1>1 DEF OnStack
    <3>3. OnStack' = {free_stack[s] : s \in 0 .. (top - 1)}
      BY <1>3 DEF OnStack
    <3> QED BY <1>3, <3>1, <3>2, <3>3
  <2> QED BY <1>3, <1>5, <2>1 DEF StackIInv
<1>9. nr_free' = Total - Cardinality(stack_live')
  <2>1. IsFiniteSet(stack_live) /\ Cardinality(stack_live) \in Nat
    BY <1>1, CardFacts
  <2>2. Cardinality(stack_live') = Cardinality(stack_live) + 1
    BY <1>3, <1>5, <2>1, FS_AddElement
  <2> QED BY <1>1, <1>3, <2>1, <2>2, StackConstFacts DEF StackIInv
<1> QED BY <1>3, <1>5, <1>6, <1>7, <1>8, <1>9 DEF StackIInv

\* Free pushes below the end of the array.
LEMMA StackFreeFacts ==
  ASSUME StackIInv, NEW o \in stack_live, StackFree(o)
  PROVE  StackIInv' /\ stack_live' = stack_live \ {o} /\ stack_got' = stack_got /\ stack_allocated' = stack_allocated - 1
<1>1. /\ nr_free \in Nat /\ free_stack \in [Slot -> StackObjects]
      /\ stack_live \in SUBSET StackObjects /\ o \in StackObjects
      /\ IsFiniteSet(stack_live) /\ Cardinality(stack_live) \in Nat
      /\ nr_free = Total - Cardinality(stack_live)
  BY CardFacts, StackConstFacts DEF StackIInv, StackTypeOK
<1>2. Cardinality(stack_live) > 0
  BY <1>1, CardFacts
<1>3. nr_free \in Nat /\ nr_free < Total /\ nr_free \in Slot
  BY <1>1, <1>2, StackConstFacts
<1>4. u8(nr_free + 1) = nr_free + 1
  <2>1. nr_free + 1 \in 0 .. 255
    BY <1>3, FreeListAssumption
  <2> QED BY <2>1, U8Small
<1>5. /\ free_stack' = [free_stack EXCEPT ![nr_free] = o] /\ nr_free' = nr_free + 1
      /\ stack_live' = stack_live \ {o} /\ nr_total' = nr_total /\ stack_got' = stack_got
      /\ stack_allocated' = stack_allocated - 1
  BY <1>4 DEF StackFree
<1>6. StackTypeOK'
  <2>1. nr_free' \in 0 .. Total /\ nr_total' = Total /\ stack_got' \in StackObjects \cup {NoObj}
    BY <1>1, <1>3, <1>5, StackConstFacts DEF StackIInv, StackTypeOK
  <2>2. stack_live' \in SUBSET StackObjects /\ free_stack' \in [Slot -> StackObjects]
    BY <1>1, <1>3, <1>5
  <2> QED BY <2>1, <2>2 DEF StackTypeOK
<1>7. \A s \in 0 .. (nr_free - 1) : free_stack'[s] = free_stack[s] /\ free_stack[s] # o
  <2>1. \A s \in 0 .. (nr_free - 1) : s \in Slot /\ s # nr_free /\ free_stack[s] \in OnStack
    BY <1>1, <1>3, StackConstFacts DEF OnStack
  <2> QED BY <1>1, <1>5, <2>1 DEF StackIInv
<1>8. free_stack'[nr_free] = o
  BY <1>1, <1>3, <1>5
<1>9. NoRepeat'
  BY <1>1, <1>5, <1>7, <1>8 DEF StackIInv, NoRepeat
<1>10. OnStack' = StackObjects \ stack_live'
  <2>1. OnStack' = OnStack \cup {o}
    <3>1. OnStack' = {free_stack'[s] : s \in 0 .. nr_free}
      BY <1>1, <1>5 DEF OnStack
    <3>2. OnStack' = {free_stack'[s] : s \in 0 .. (nr_free - 1)} \cup {o}
      BY <1>1, <1>8, <3>1
    <3> QED BY <1>7, <3>2 DEF OnStack
  <2> QED BY <1>1, <1>5, <2>1 DEF StackIInv
<1>11. nr_free' = Total - Cardinality(stack_live')
  <2>1. Cardinality(stack_live') = Cardinality(stack_live) - 1
    BY <1>1, <1>5, FS_RemoveElement
  <2> QED BY <1>1, <1>5, <2>1, StackConstFacts
<1> QED BY <1>5, <1>6, <1>9, <1>10, <1>11 DEF StackIInv

\* Every Alloc and Free keeps the invariant.
LEMMA StackNextIInv == StackIInv /\ [StackNext]_stackvars => StackIInv'
<1> SUFFICES ASSUME StackIInv, [StackNext]_stackvars PROVE StackIInv'
  OBVIOUS
<1>1. CASE StackAlloc
  BY <1>1, StackAllocFacts
<1>2. CASE \E o \in stack_live : StackFree(o)
  BY <1>2, StackFreeFacts
<1>3. CASE UNCHANGED stackvars
  BY <1>3 DEF StackIInv, StackTypeOK, OnStack, NoRepeat, stackvars
<1> QED BY <1>1, <1>2, <1>3 DEF StackNext

\* The invariant holds throughout.
LEMMA StackInvariance == StackSpec => []StackIInv
BY StackInitIInv, StackNextIInv, PTL DEF StackSpec

\* The stack stays within Total entries (no u8 wraps, no write past free_stack),
\* and is_full and is_empty are exact, for every object size.
THEOREM StackQueries == StackSpec => []StackExact
<1>1. StackIInv => StackExact
  <2> SUFFICES ASSUME StackIInv PROVE StackExact
    OBVIOUS
  <2>1. /\ nr_free \in 0 .. Total /\ nr_total = Total /\ stack_live \in SUBSET StackObjects
        /\ nr_free = Total - Cardinality(stack_live)
    BY DEF StackIInv, StackTypeOK
  <2>2. /\ Cardinality(stack_live) \in 0 .. Total
        /\ Cardinality(stack_live) = 0 <=> stack_live = {}
        /\ Cardinality(stack_live) = Total <=> stack_live = StackObjects
    BY <2>1, CardFacts
  <2>3. (nr_free = 0 <=> stack_live = StackObjects) /\ (nr_free = nr_total <=> stack_live = {})
    BY <2>1, <2>2, StackConstFacts
  <2> QED BY <2>1, <2>3, StackConstFacts DEF StackExact, stack_is_full, stack_is_empty
<1> QED BY <1>1, StackInvariance, PTL

\* The stack implements the pool of SlabObjs: whatever the order in which
\* objects come back, none is handed out twice.
THEOREM StackRefinement == StackSpec => StackImplementsPool
<1>1. StackInit => StackSO!Init
  BY DEF StackInit, StackSO!Init
<1>2. StackIInv /\ [StackNext]_stackvars => [StackSO!Next]_(StackSO!absvars)
  <2> SUFFICES ASSUME StackIInv, [StackNext]_stackvars PROVE StackSO!Next \/ UNCHANGED StackSO!absvars
    OBVIOUS
  <2>1. CASE StackAlloc
    <3>1. /\ stack_got' \in StackObjects \ stack_live /\ stack_live' = stack_live \cup {stack_got'}
          /\ stack_allocated' = stack_allocated + 1
      BY <2>1, StackAllocFacts
    <3> QED BY <3>1 DEF StackSO!Next, StackSO!Alloc
  <2>2. CASE \E o \in stack_live : StackFree(o)
    BY <2>2, StackFreeFacts DEF StackSO!Next, StackSO!Free
  <2>3. CASE UNCHANGED stackvars
    BY <2>3 DEF stackvars, StackSO!absvars
  <2> QED BY <2>1, <2>2, <2>3 DEF StackNext
<1>3. StackSpec => StackSO!Spec
  BY <1>1, <1>2, StackInvariance, PTL DEF StackSpec, StackSO!Spec
<1> QED BY <1>3 DEF StackImplementsPool
=============================================================================
