--------------------------- MODULE Library_proofs ----------------------------
(***************************************************************************)
(* What the kernel's library promises, for any sizes, contents and calls.  *)
(*                                                                         *)
(* The vectors: growth, Insert, Remove and the move constructor keep what  *)
(* a client put in, stay inside the block, and no two vectors share one.   *)
(* Along VectorInv.                                                        *)
(*                                                                         *)
(* vprintf: the loop that takes a number apart and the one that writes it  *)
(* out backwards compute its shortest numeral, and no interrupt changes,   *)
(* repeats or reorders what another activation prints.  Along ConsoleInv.  *)
(***************************************************************************)
EXTENDS Console, Vector, WellFoundedInduction, NaturalsInduction, FiniteSetTheorems,
        SequenceTheorems, TLAPS

-----------------------------------------------------------------------------
(* Induction: a property of naturals that fails has a least counterexample. *)

\* A set of naturals that is not empty has a least element.
LEMMA NatLeast ==
  ASSUME NEW T \in SUBSET Nat, T # {}
  PROVE  \E m \in T : \A k \in T : m <= k
<1> DEFINE R == OpToRel(<, Nat)
<1>0. IsWellFoundedOn(R, Nat) BY NatLessThanWellFounded, Zenon
<1> HIDE DEF R
<1>1. PICK m \in T : \A k \in T : ~ (<<k, m>> \in R)
  BY <1>0, WFMin
<1>2. ASSUME NEW k \in T PROVE m <= k
  <2>1. <<k, m>> \notin R BY <1>1
  <2>2. k \in Nat /\ m \in Nat OBVIOUS
  <2>3. ~ (k < m) BY <2>1, <2>2, Zenon DEF R, OpToRel
  <2> QED BY <2>2, <2>3
<1> QED BY <1>2

-----------------------------------------------------------------------------
(* memmove, memcpy and the sequences a client sees.                        *)

\* The equation that memmove's intermediate blocks satisfy.
Moves(w, arr, dst, src, n) ==
  w = [k \in 0 .. n |->
         IF k = 0 THEN arr
         ELSE [w[k - 1] EXCEPT ![dst + n - k] = w[k - 1][src + n - k]]]

\* The equation has at most one solution.
LEMMA MovesOnce ==
  ASSUME NEW arr, NEW dst \in Int, NEW src \in Int, NEW n \in Nat, NEW w, NEW f,
         Moves(w, arr, dst, src, n), Moves(f, arr, dst, src, n)
  PROVE  f[n] = w[n]
<1> DEFINE T == {k \in 0 .. n : f[k] # w[k]}
<1> SUFFICES ASSUME T # {} PROVE FALSE
  <2>1. n \in 0 .. n OBVIOUS
  <2> QED BY <2>1
<1>1. PICK m \in T : \A k \in T : m <= k
  <2>1. T \in SUBSET Nat OBVIOUS
  <2> HIDE DEF T
  <2> QED BY <2>1, NatLeast
<1>2. m \in 0 .. n /\ f[m] # w[m] OBVIOUS
<1>3. f[m] = IF m = 0 THEN arr ELSE [f[m - 1] EXCEPT ![dst + n - m] = f[m - 1][src + n - m]]
  BY <1>2, Zenon DEF Moves
<1>4. w[m] = IF m = 0 THEN arr ELSE [w[m - 1] EXCEPT ![dst + n - m] = w[m - 1][src + n - m]]
  BY <1>2, Zenon DEF Moves
<1>5. m # 0 BY <1>2, <1>3, <1>4
<1>6. m - 1 \in 0 .. n /\ ~ (m <= m - 1) BY <1>2, <1>5
<1>7. f[m - 1] = w[m - 1] BY <1>1, <1>6
<1> QED BY <1>2, <1>3, <1>4, <1>5, <1>7

\* memmove returns the last block of any solution of its equation.
LEMMA MoveIs ==
  ASSUME NEW arr, NEW dst \in Int, NEW src \in Int, NEW n \in Nat, NEW w,
         Moves(w, arr, dst, src, n)
  PROVE  memmove(arr, dst, src, n) = w[n]
<1> DEFINE f == CHOOSE g : Moves(g, arr, dst, src, n)
<1>1. Moves(f, arr, dst, src, n) BY Zenon
<1>2. memmove(arr, dst, src, n) = f[n] BY Zenon DEF memmove, Moves
<1> HIDE DEF f
<1> QED BY <1>1, <1>2, MovesOnce

\* memmove up by one, as in Insert: the n elements from src on move by one place.
LEMMA MovedUp ==
  ASSUME NEW S, NEW arr \in Seq(S), NEW src \in Nat \ {0}, NEW n \in Nat,
         src + n <= Len(arr)
  PROVE  memmove(arr, src + 1, src, n)
           = [i \in 1 .. Len(arr) |-> IF i > src /\ i <= src + n THEN arr[i - 1] ELSE arr[i]]
<1>0. PICK L \in Nat : L = Len(arr) /\ arr \in [1 .. L -> S] BY LenProperties
<1> DEFINE B(k) == [i \in 1 .. L |-> IF i > src + n - k /\ i <= src + n THEN arr[i - 1] ELSE arr[i]]
           w == [k \in 0 .. n |-> B(k)]
<1>1. ASSUME NEW k \in 0 .. n, k # 0
      PROVE  B(k) = [B(k - 1) EXCEPT ![src + 1 + n - k] = B(k - 1)[src + n - k]]
  <2>1. src + n - k \in 1 .. L /\ src + 1 + n - k \in 1 .. L BY <1>0, <1>1
  <2>2. B(k - 1)[src + n - k] = arr[src + n - k] BY <2>1
  <2>3. [B(k - 1) EXCEPT ![src + 1 + n - k] = B(k - 1)[src + n - k]]
          = [i \in 1 .. L |-> IF i = src + 1 + n - k THEN arr[src + n - k] ELSE B(k - 1)[i]]
    BY <2>1, <2>2
  <2>4. ASSUME NEW i \in 1 .. L
        PROVE  B(k)[i] = IF i = src + 1 + n - k THEN arr[src + n - k] ELSE B(k - 1)[i]
    <3>1. CASE i = src + 1 + n - k
      <4>1. i - 1 = src + n - k /\ i > src + n - k /\ i <= src + n BY <1>1, <3>1
      <4>2. B(k)[i] = arr[i - 1] BY <4>1
      <4> QED BY <3>1, <4>1, <4>2
    <3>2. CASE i # src + 1 + n - k BY <3>2
    <3> QED BY <3>1, <3>2
  <2> QED BY <2>3, <2>4
<1>2. B(0) = arr
  <2>1. \A i \in 1 .. L : B(0)[i] = arr[i] OBVIOUS
  <2>2. arr = [i \in 1 .. L |-> arr[i]] BY <1>0
  <2> QED BY <2>1, <2>2
<1>3. Moves(w, arr, src + 1, src, n)
  <2>1. ASSUME NEW k \in 0 .. n
        PROVE  w[k] = IF k = 0 THEN arr
                      ELSE [w[k - 1] EXCEPT ![src + 1 + n - k] = w[k - 1][src + n - k]]
    <3>1. CASE k = 0 BY <1>2, <3>1
    <3>2. CASE k # 0
      <4>1. k - 1 \in 0 .. n BY <3>2
      <4>2. w[k - 1] = B(k - 1) /\ w[k] = B(k) BY <4>1
      <4> HIDE DEF w, B
      <4> QED BY <1>1, <3>2, <4>2
    <3> QED BY <3>1, <3>2
  <2>2. w = [k \in 0 .. n |-> w[k]] OBVIOUS
  <2> HIDE DEF w
  <2> QED BY <2>1, <2>2 DEF Moves
<1>4. memmove(arr, src + 1, src, n) = w[n]
  <2> HIDE DEF w
  <2> QED BY <1>3, MoveIs
<1>5. w[n] = B(n) OBVIOUS
<1>6. B(n) = [i \in 1 .. L |-> IF i > src /\ i <= src + n THEN arr[i - 1] ELSE arr[i]]
  BY src + n - n = src
<1> QED BY <1>0, <1>4, <1>5, <1>6

\* memmove down by one, as in Remove: the last element is copied to every place.
LEMMA MovedDown ==
  ASSUME NEW S, NEW arr \in Seq(S), NEW dst \in Nat \ {0}, NEW n \in Nat,
         dst + n <= Len(arr)
  PROVE  memmove(arr, dst, dst + 1, n)
           = [i \in 1 .. Len(arr) |-> IF i >= dst /\ i < dst + n THEN arr[dst + n] ELSE arr[i]]
<1>0. PICK L \in Nat : L = Len(arr) /\ arr \in [1 .. L -> S] BY LenProperties
<1> DEFINE B(k) == [i \in 1 .. L |-> IF i >= dst + n - k /\ i < dst + n THEN arr[dst + n] ELSE arr[i]]
           w == [k \in 0 .. n |-> B(k)]
<1>1. ASSUME NEW k \in 0 .. n, k # 0
      PROVE  B(k) = [B(k - 1) EXCEPT ![dst + n - k] = B(k - 1)[dst + 1 + n - k]]
  <2>1. dst + n - k \in 1 .. L /\ dst + 1 + n - k \in 1 .. L BY <1>0, <1>1
  <2>2. B(k - 1)[dst + 1 + n - k] = arr[dst + n]
    <3>1. CASE k = 1
      <4>1. dst + 1 + n - k = dst + n BY <3>1
      <4> QED BY <2>1, <4>1
    <3>2. CASE k # 1 BY <1>1, <2>1, <3>2
    <3> QED BY <3>1, <3>2
  <2>3. [B(k - 1) EXCEPT ![dst + n - k] = B(k - 1)[dst + 1 + n - k]]
          = [i \in 1 .. L |-> IF i = dst + n - k THEN arr[dst + n] ELSE B(k - 1)[i]]
    BY <2>1, <2>2
  <2>4. ASSUME NEW i \in 1 .. L
        PROVE  B(k)[i] = IF i = dst + n - k THEN arr[dst + n] ELSE B(k - 1)[i]
    <3>1. CASE i = dst + n - k BY <3>1
    <3>2. CASE i # dst + n - k BY <3>2
    <3> QED BY <3>1, <3>2
  <2> QED BY <2>3, <2>4
<1>2. B(0) = arr
  <2>1. \A i \in 1 .. L : B(0)[i] = arr[i] OBVIOUS
  <2>2. arr = [i \in 1 .. L |-> arr[i]] BY <1>0
  <2> QED BY <2>1, <2>2
<1>3. Moves(w, arr, dst, dst + 1, n)
  <2>1. ASSUME NEW k \in 0 .. n
        PROVE  w[k] = IF k = 0 THEN arr
                      ELSE [w[k - 1] EXCEPT ![dst + n - k] = w[k - 1][dst + 1 + n - k]]
    <3>1. CASE k = 0 BY <1>2, <3>1
    <3>2. CASE k # 0
      <4>1. k - 1 \in 0 .. n BY <3>2
      <4>2. w[k - 1] = B(k - 1) /\ w[k] = B(k) BY <4>1
      <4> HIDE DEF w, B
      <4> QED BY <1>1, <3>2, <4>2
    <3> QED BY <3>1, <3>2
  <2>2. w = [k \in 0 .. n |-> w[k]] OBVIOUS
  <2> HIDE DEF w
  <2> QED BY <2>1, <2>2 DEF Moves
<1>4. memmove(arr, dst, dst + 1, n) = w[n]
  <2> HIDE DEF w
  <2> QED BY <1>3, MoveIs
<1>5. w[n] = B(n) OBVIOUS
<1>6. B(n) = [i \in 1 .. L |-> IF i >= dst /\ i < dst + n THEN arr[dst + n] ELSE arr[i]]
  BY dst + n - n = dst
<1> QED BY <1>0, <1>4, <1>5, <1>6

\* A new block of ResetPtr: as long as wanted, and beginning with the old elements.
LEMMA Copied ==
  ASSUME NEW S, NEW arr \in Seq(S), Garbage \in S, NEW n \in 0 .. Len(arr),
         NEW size \in Nat, n <= size
  PROVE  /\ memcpy(arr, n, size) \in Seq(S) /\ Len(memcpy(arr, n, size)) = size
         /\ \A i \in 1 .. n : memcpy(arr, n, size)[i] = arr[i]
<1> DEFINE a == SubSeq(arr, 1, n)
           g == [k \in 1 .. (size - n) |-> Garbage]
<1>1. a \in Seq(S) /\ Len(a) = n /\ \A i \in 1 .. n : a[i] = arr[i] OBVIOUS
<1>2. g \in Seq(S) /\ Len(g) = size - n
  <2>1. size - n \in Nat OBVIOUS
  <2> QED BY <2>1
<1>3. memcpy(arr, n, size) = a \o g BY DEF memcpy
<1> HIDE DEF a, g
<1> QED BY <1>1, <1>2, <1>3

\* InsertAt, element by element.
LEMMA Inserted ==
  ASSUME NEW S, NEW s \in Seq(S), NEW pos \in 1 .. (Len(s) + 1), NEW e \in S
  PROVE  /\ InsertAt(s, pos, e) \in Seq(S) /\ Len(InsertAt(s, pos, e)) = Len(s) + 1
         /\ \A i \in 1 .. (Len(s) + 1) :
              InsertAt(s, pos, e)[i] = IF i < pos THEN s[i] ELSE IF i = pos THEN e ELSE s[i - 1]
<1> DEFINE a == SubSeq(s, 1, pos - 1)
           b == SubSeq(s, pos, Len(s))
<1>1. a \in Seq(S) /\ Len(a) = pos - 1 /\ \A i \in 1 .. (pos - 1) : a[i] = s[i] OBVIOUS
<1>2. b \in Seq(S) /\ Len(b) = Len(s) - pos + 1
      /\ \A i \in 1 .. (Len(s) - pos + 1) : b[i] = s[pos + i - 1]
  OBVIOUS
<1>3. InsertAt(s, pos, e) = (a \o <<e>>) \o b BY DEF InsertAt
<1> HIDE DEF a, b
<1>4. (a \o <<e>>) \in Seq(S) /\ Len(a \o <<e>>) = pos
      /\ (a \o <<e>>)[pos] = e /\ \A i \in 1 .. (pos - 1) : (a \o <<e>>)[i] = a[i]
  BY <1>1
<1>5. PICK c \in Seq(S) : c = a \o <<e>> BY <1>4
<1>6. /\ c \o b \in Seq(S) /\ Len(c \o b) = Len(c) + Len(b)
      /\ \A i \in 1 .. Len(c) + Len(b) : (c \o b)[i] = IF i <= Len(c) THEN c[i] ELSE b[i - Len(c)]
  BY <1>2, ConcatProperties
<1>8. Len(s) \in Nat /\ Len(c) = pos /\ Len(c) + Len(b) = Len(s) + 1
  <2>1. Len(s) \in Nat OBVIOUS
  <2>2. Len(c) = pos BY <1>4, <1>5
  <2> QED BY <1>2, <2>1, <2>2
<1>7. ASSUME NEW i \in 1 .. (Len(s) + 1)
      PROVE  (c \o b)[i] = IF i < pos THEN s[i] ELSE IF i = pos THEN e ELSE s[i - 1]
  <2>0. (c \o b)[i] = IF i <= Len(c) THEN c[i] ELSE b[i - Len(c)] BY <1>6, <1>8
  <2>1. CASE i <= pos BY <1>1, <1>4, <1>5, <1>8, <2>0, <2>1
  <2>2. CASE i > pos
    <3>1. (c \o b)[i] = b[i - pos] BY <1>8, <2>0, <2>2
    <3>2. b[i - pos] = s[pos + (i - pos) - 1] BY <1>2, <2>2
    <3>3. pos + (i - pos) - 1 = i - 1 /\ ~ (i < pos) /\ i # pos BY <2>2
    <3> QED BY <3>1, <3>2, <3>3
  <2> QED BY <1>8, <2>1, <2>2
<1> QED BY <1>3, <1>5, <1>6, <1>7, <1>8

\* RemoveAt, element by element.
LEMMA Removed ==
  ASSUME NEW S, NEW s \in Seq(S), NEW pos \in 1 .. Len(s)
  PROVE  /\ RemoveAt(s, pos) \in Seq(S) /\ Len(RemoveAt(s, pos)) = Len(s) - 1
         /\ \A i \in 1 .. (Len(s) - 1) :
              RemoveAt(s, pos)[i] = IF i < pos THEN s[i] ELSE s[i + 1]
<1> DEFINE a == SubSeq(s, 1, pos - 1)
           b == SubSeq(s, pos + 1, Len(s))
<1>1. a \in Seq(S) /\ Len(a) = pos - 1 /\ \A i \in 1 .. (pos - 1) : a[i] = s[i] OBVIOUS
<1>2. b \in Seq(S) /\ Len(b) = Len(s) - pos
      /\ \A i \in 1 .. (Len(s) - pos) : b[i] = s[pos + i]
  OBVIOUS
<1>3. RemoveAt(s, pos) = a \o b BY DEF RemoveAt
<1> HIDE DEF a, b
<1>4. /\ a \o b \in Seq(S) /\ Len(a \o b) = Len(a) + Len(b)
      /\ \A i \in 1 .. Len(a) + Len(b) : (a \o b)[i] = IF i <= Len(a) THEN a[i] ELSE b[i - Len(a)]
  BY <1>1, <1>2, ConcatProperties
<1>6. Len(s) \in Nat /\ Len(a) + Len(b) = Len(s) - 1 BY <1>1, <1>2
<1>5. ASSUME NEW i \in 1 .. (Len(s) - 1)
      PROVE  (a \o b)[i] = IF i < pos THEN s[i] ELSE s[i + 1]
  <2>0. (a \o b)[i] = IF i <= Len(a) THEN a[i] ELSE b[i - Len(a)] BY <1>4, <1>6
  <2>1. CASE i < pos BY <1>1, <2>0, <2>1
  <2>2. CASE i >= pos
    <3>1. (a \o b)[i] = b[i - (pos - 1)] BY <1>1, <2>0, <2>2
    <3>2. b[i - (pos - 1)] = s[pos + (i - (pos - 1))] BY <1>2, <2>2
    <3>3. pos + (i - (pos - 1)) = i + 1 /\ ~ (i < pos) BY <2>2
    <3> QED BY <3>1, <3>2, <3>3
  <2> QED BY <1>6, <2>1, <2>2
<1> QED BY <1>3, <1>4, <1>5, <1>6

\* What Insert makes of a block of which n elements are in use.
LEMMA InsertedBlock ==
  ASSUME NEW S, NEW arr \in Seq(S), NEW n \in Nat, n < Len(arr),
         NEW pos \in 1 .. (n + 1), NEW e \in S
  PROVE  LET b == [memmove(arr, pos + 1, pos, n - pos + 1) EXCEPT ![pos] = e]
         IN  /\ b \in Seq(S) /\ Len(b) = Len(arr)
             /\ \A i \in 1 .. (n + 1) :
                  b[i] = IF i < pos THEN arr[i] ELSE IF i = pos THEN e ELSE arr[i - 1]
<1>0. PICK L \in Nat : L = Len(arr) /\ arr \in [1 .. L -> S] BY LenProperties
<1>1. n - pos + 1 \in Nat /\ pos \in Nat \ {0} /\ pos + (n - pos + 1) <= Len(arr) BY <1>0
<1>2. PICK m : m = memmove(arr, pos + 1, pos, n - pos + 1) OBVIOUS
<1>3. m = [i \in 1 .. L |-> IF i > pos /\ i <= pos + (n - pos + 1) THEN arr[i - 1] ELSE arr[i]]
  BY <1>0, <1>1, <1>2, MovedUp
<1>4. m \in [1 .. L -> S] BY <1>0, <1>1, <1>3
<1>5. [m EXCEPT ![pos] = e] \in [1 .. L -> S] BY <1>4
<1>6. [m EXCEPT ![pos] = e] \in Seq(S) /\ Len([m EXCEPT ![pos] = e]) = L
  <2>1. PICK q \in [1 .. L -> S] : q = [m EXCEPT ![pos] = e] BY <1>5
  <2>2. q \in Seq(S) /\ Len(q) = L OBVIOUS
  <2> QED BY <2>1, <2>2
<1>7. ASSUME NEW i \in 1 .. (n + 1)
      PROVE  [m EXCEPT ![pos] = e][i] = IF i < pos THEN arr[i] ELSE IF i = pos THEN e ELSE arr[i - 1]
  <2>1. i \in 1 .. L /\ i <= pos + (n - pos + 1) BY <1>0
  <2>2. m[i] = IF i > pos THEN arr[i - 1] ELSE arr[i] BY <1>3, <2>1
  <2> QED BY <1>4, <2>1, <2>2
<1> QED BY <1>0, <1>2, <1>6, <1>7

\* What Remove makes of a block of which n elements are in use.
LEMMA RemovedBlock ==
  ASSUME NEW S, NEW arr \in Seq(S), NEW n \in Nat, n <= Len(arr), NEW pos \in 1 .. n
  PROVE  LET b == memmove(arr, pos, pos + 1, n - pos)
         IN  /\ b \in Seq(S) /\ Len(b) = Len(arr)
             /\ n - pos <= 1 =>
                  \A i \in 1 .. (n - 1) : b[i] = IF i < pos THEN arr[i] ELSE arr[i + 1]
<1>0. PICK L \in Nat : L = Len(arr) /\ arr \in [1 .. L -> S] BY LenProperties
<1>1. n - pos \in Nat /\ pos \in Nat \ {0} /\ pos + (n - pos) <= Len(arr) BY <1>0
<1>2. PICK m : m = memmove(arr, pos, pos + 1, n - pos) OBVIOUS
<1>3. m = [i \in 1 .. L |-> IF i >= pos /\ i < pos + (n - pos) THEN arr[pos + (n - pos)] ELSE arr[i]]
  BY <1>0, <1>1, <1>2, MovedDown
<1>4. m \in [1 .. L -> S] BY <1>0, <1>1, <1>3
<1>5. m \in Seq(S) /\ Len(m) = L BY <1>4
<1>6. ASSUME n - pos <= 1, NEW i \in 1 .. (n - 1)
      PROVE  m[i] = IF i < pos THEN arr[i] ELSE arr[i + 1]
  <2>1. i \in 1 .. L /\ i < pos + (n - pos) BY <1>0
  <2>2. m[i] = IF i >= pos THEN arr[pos + (n - pos)] ELSE arr[i] BY <1>3, <2>1
  <2>3. i >= pos => pos + (n - pos) = i + 1 BY <1>6
  <2> QED BY <2>2, <2>3
<1> QED BY <1>0, <1>2, <1>5, <1>6

-----------------------------------------------------------------------------
(* The inductive invariant of the vectors.                                 *)

VectorTypeOK ==
  /\ exists \subseteq Vectors /\ spoilt \subseteq exists
  /\ capacity \in [Vectors -> Nat] /\ len \in [Vectors -> Nat]
  /\ ptr \in [Vectors -> Blocks \cup {NULL}]
  /\ heap \in [Blocks -> Seq(Elem \cup {Garbage})]
  /\ wanted \in [Vectors -> Seq(Elem)]

\* A vector has room for its elements, and a block at least as large as it says,
\* unless it was moved from.
Fitting ==
  \A v \in Vectors :
    /\ len[v] <= capacity[v]
    /\ ptr[v] = NULL => len[v] = 0
    /\ ptr[v] # NULL => v \in exists /\ heap[ptr[v]] # << >> /\ capacity[v] <= Len(heap[ptr[v]])

\* No block has two vectors, and one in use has one.
Owned ==
  /\ \A v, w \in Vectors : ptr[v] = ptr[w] /\ ptr[v] # NULL => v = w
  /\ \A b \in Blocks : heap[b] # << >> => \E v \in Vectors : ptr[v] = b

\* Contents, element by element; the length is right of spoilt vectors too.
Expected ==
  \A v \in Vectors :
    /\ Len(wanted[v]) = len[v]
    /\ v \notin spoilt => \A i \in 1 .. len[v] : heap[ptr[v]][i] = wanted[v][i]

VectorInv == VectorTypeOK /\ Fitting /\ Owned /\ Expected /\ WithinBlock

\* A vector's constructor satisfies the invariant.
LEMMA InitVectorInv == VectorInit => VectorInv
<1> SUFFICES ASSUME VectorInit PROVE VectorInv OBVIOUS
<1>1. VectorTypeOK BY EmptySeq DEF VectorInit, VectorTypeOK
<1>2. Fitting BY VectorAssumption DEF VectorInit, Fitting
<1>3. Owned BY DEF VectorInit, Owned
<1>4. Expected BY DEF VectorInit, Expected
<1>5. WithinBlock BY DEF VectorInit, WithinBlock
<1> QED BY <1>1, <1>2, <1>3, <1>4, <1>5 DEF VectorInv

\* Alloc has a block: there are more blocks than vectors.
LEMMA FreeBlock ==
  ASSUME VectorTypeOK, Owned
  PROVE  NewBlock \in Blocks /\ heap[NewBlock] = << >>
<1> SUFFICES ASSUME \A b \in Blocks : heap[b] # << >> PROVE FALSE
  BY Zenon DEF NewBlock
<1> DEFINE f == [b \in Blocks |-> CHOOSE v \in Vectors : ptr[v] = b]
<1>1. \A b \in Blocks : f[b] \in Vectors /\ ptr[f[b]] = b
  <2> SUFFICES ASSUME NEW b \in Blocks PROVE f[b] \in Vectors /\ ptr[f[b]] = b OBVIOUS
  <2>1. \E v \in Vectors : ptr[v] = b BY Zenon DEF Owned
  <2>2. f[b] = CHOOSE v \in Vectors : ptr[v] = b OBVIOUS
  <2> QED BY <2>1, <2>2, Zenon
<1>2. f \in [Blocks -> Vectors]
  <2>1. f = [b \in Blocks |-> f[b]] OBVIOUS
  <2> HIDE DEF f
  <2> QED BY <1>1, <2>1
<1> HIDE DEF f
<1>3. \A a, b \in Blocks : f[a] = f[b] => a = b BY <1>1
<1>4. Cardinality(Vectors) < Cardinality(Blocks) BY VectorAssumption
<1> QED BY <1>2, <1>3, <1>4, VectorAssumption, FS_PigeonHole

\* The heap h, the block p and the capacity c of a vector on which EnsureSpace was
\* called: an element fits, the other vectors keep theirs, and no block is forgotten.
Grown(v, h, p, c) ==
  /\ h \in [Blocks -> Seq(Elem \cup {Garbage})] /\ c \in Nat /\ p \in Blocks \cup {NULL}
  /\ p = NULL => capacity[v] > 0 /\ ptr[v] = NULL
  /\ p # NULL => len[v] < c /\ c <= Len(h[p])
  /\ \A w \in Vectors \ {v} : ptr[w] # NULL => p # ptr[w] /\ h[ptr[w]] = heap[ptr[w]]
  /\ \A b \in Blocks \ {p} : h[b] # << >> => \E w \in Vectors \ {v} : ptr[w] = b
  /\ v \notin spoilt => \A i \in 1 .. len[v] : h[p][i] = wanted[v][i]

\* EnsureSpace(len), with and without a new block.
LEMMA EnsuredGrown ==
  ASSUME VectorInv, NEW v \in exists
  PROVE  Grown(v, Ensured(v).heap, Ensured(v).ptr, Ensured(v).capacity)
<1> DEFINE S == Elem \cup {Garbage}
<1>0. /\ v \in Vectors /\ len[v] \in Nat /\ capacity[v] \in Nat /\ ptr[v] \in Blocks \cup {NULL}
      /\ heap \in [Blocks -> Seq(S)] /\ ptr \in [Vectors -> Blocks \cup {NULL}]
  BY DEF VectorInv, VectorTypeOK
<1>f. /\ len[v] <= capacity[v]
      /\ ptr[v] = NULL => len[v] = 0
      /\ ptr[v] # NULL => heap[ptr[v]] # << >> /\ capacity[v] <= Len(heap[ptr[v]])
  BY <1>0 DEF VectorInv, Fitting
<1>o. /\ \A w \in Vectors : ptr[v] = ptr[w] /\ ptr[v] # NULL => v = w
      /\ \A b \in Blocks : heap[b] # << >> => \E w \in Vectors : ptr[w] = b
  BY <1>0 DEF VectorInv, Owned
<1>e. v \notin spoilt => \A i \in 1 .. len[v] : heap[ptr[v]][i] = wanted[v][i]
  BY <1>0 DEF VectorInv, Expected
<1>n. NULL \notin Blocks BY VectorAssumption
<1>1. CASE ~Full(v)
  <2>1. Ensured(v).heap = heap /\ Ensured(v).ptr = ptr[v] /\ Ensured(v).capacity = capacity[v]
    BY <1>1 DEF Ensured
  <2>2. len[v] < capacity[v] BY <1>0, <1>1 DEF Full
  <2>3. ptr[v] = NULL => capacity[v] > 0 BY <1>0, <2>2
  <2>4. ASSUME NEW w \in Vectors \ {v}, ptr[w] # NULL PROVE ptr[v] # ptr[w]
    BY <1>o, <2>4
  <2>5. ASSUME NEW b \in Blocks \ {ptr[v]}, heap[b] # << >> PROVE \E w \in Vectors \ {v} : ptr[w] = b
    BY <1>o, <2>5
  <2>6. Grown(v, heap, ptr[v], capacity[v])
    BY <1>0, <1>f, <1>e, <2>2, <2>3, <2>4, <2>5 DEF Grown
  <2> QED BY <2>1, <2>6
<1>2. CASE Full(v)
  <2>1. PICK n \in Blocks : n = NewBlock /\ heap[n] = << >> BY FreeBlock DEF VectorInv
  <2>2. PICK c \in Nat : c = Extended(v)
    BY <1>0, VectorAssumption DEF Extended
  <2>3. len[v] < c
    BY <1>0, <1>2, <1>f, <2>2, VectorAssumption DEF Extended, Full
  <2>4. PICK old \in Seq(S) : old = Old(v)
    <3>1. << >> \in Seq(S) BY EmptySeq
    <3> QED BY <1>0, <3>1 DEF Old
  <2>5. len[v] <= Len(old)
    <3>1. CASE ptr[v] = NULL BY <1>0, <1>f, <3>1
    <3>2. CASE ptr[v] # NULL
      <4>1. old = heap[ptr[v]] BY <2>4, <3>2 DEF Old
      <4>2. Len(old) \in Nat BY <2>4
      <4> QED BY <1>0, <1>f, <3>2, <4>1, <4>2
    <3> QED BY <3>1, <3>2
  <2>6. PICK new : new = memcpy(old, len[v], c) OBVIOUS
  <2>7. /\ new \in Seq(S) /\ Len(new) = c
        /\ \A i \in 1 .. len[v] : new[i] = old[i]
    <3>1. Garbage \in S /\ len[v] \in 0 .. Len(old) /\ len[v] <= c
      <4>1. Len(old) \in Nat OBVIOUS
      <4> QED BY <1>0, <2>2, <2>3, <2>5, <4>1
    <3> HIDE DEF S
    <3> QED BY <2>6, <3>1, Copied
  <2>8. PICK h : h = ResetPtr(v, c) OBVIOUS
  <2>9. h = [b \in Blocks |-> IF b = n THEN new ELSE IF b = ptr[v] THEN << >> ELSE heap[b]]
    BY <2>1, <2>4, <2>6, <2>8 DEF ResetPtr
  <2>10. h \in [Blocks -> Seq(S)] /\ h[n] = new
    <3>1. << >> \in Seq(S) BY EmptySeq
    <3> QED BY <1>0, <2>7, <2>9, <3>1
  <2>11. Ensured(v).heap = h /\ Ensured(v).ptr = n /\ Ensured(v).capacity = c
    BY <1>2, <2>1, <2>2, <2>8 DEF Ensured
  <2>12. n # NULL /\ ptr[v] # n BY <1>n, <1>f, <2>1
  <2>13. ASSUME NEW w \in Vectors \ {v}, ptr[w] # NULL PROVE n # ptr[w] /\ h[ptr[w]] = heap[ptr[w]]
    <3>1. ptr[w] \in Blocks BY <1>0, <2>13
    <3>2. heap[ptr[w]] # << >> BY <2>13 DEF VectorInv, Fitting
    <3>3. ptr[w] # ptr[v] BY <1>o, <2>13
    <3> QED BY <2>1, <2>9, <3>1, <3>2, <3>3
  <2>14. ASSUME NEW b \in Blocks \ {n}, h[b] # << >> PROVE \E w \in Vectors \ {v} : ptr[w] = b
    <3>1. b # ptr[v] /\ heap[b] # << >> BY <2>9, <2>14
    <3> QED BY <1>o, <3>1
  <2>15. ASSUME v \notin spoilt, NEW i \in 1 .. len[v] PROVE h[n][i] = wanted[v][i]
    <3>1. ptr[v] # NULL BY <1>0, <1>f
    <3>2. old = heap[ptr[v]] BY <2>4, <3>1 DEF Old
    <3> QED BY <1>e, <2>7, <2>10, <2>15, <3>2
  <2>16. len[v] < c /\ c <= Len(h[n]) BY <2>2, <2>3, <2>7, <2>10
  <2>17. Grown(v, h, n, c)
    BY <2>1, <2>2, <2>10, <2>12, <2>13, <2>14, <2>15, <2>16 DEF Grown
  <2> QED BY <2>11, <2>17
<1> QED BY <1>1, <1>2

\* Insert, PushBack: the vector has the element, and the others what they had.
LEMMA InsertInv ==
  ASSUME VectorInv, crashed = "no", NEW v \in exists,
         NEW pos \in 1 .. (len[v] + 1), NEW e \in Elem, Insert(v, pos, e)
  PROVE  VectorInv'
<1> DEFINE S == Elem \cup {Garbage}
<1>0. /\ v \in Vectors /\ len \in [Vectors -> Nat] /\ capacity \in [Vectors -> Nat]
      /\ ptr \in [Vectors -> Blocks \cup {NULL}] /\ heap \in [Blocks -> Seq(S)]
      /\ wanted \in [Vectors -> Seq(Elem)] /\ exists \subseteq Vectors /\ spoilt \subseteq exists
  BY DEF VectorInv, VectorTypeOK
<1>1. PICK h, p, c : h = Ensured(v).heap /\ p = Ensured(v).ptr /\ c = Ensured(v).capacity OBVIOUS
<1>2. Grown(v, h, p, c) BY <1>1, EnsuredGrown
<1>3. /\ p # NULL /\ len[v] < Len(h[p])
      /\ heap' = [h EXCEPT ![p] = [memmove(h[p], pos + 1, pos, len[v] - pos + 1) EXCEPT ![pos] = e]]
      /\ ptr' = [ptr EXCEPT ![v] = p] /\ capacity' = [capacity EXCEPT ![v] = c]
      /\ len' = [len EXCEPT ![v] = len[v] + 1]
      /\ wanted' = [wanted EXCEPT ![v] = InsertAt(wanted[v], pos, e)]
      /\ exists' = exists /\ crashed' = crashed /\ spoilt' = spoilt
  BY <1>1 DEF Insert, Target
<1>4. p \in Blocks /\ h \in [Blocks -> Seq(S)] /\ c \in Nat /\ len[v] < c /\ c <= Len(h[p])
  BY <1>2, <1>3 DEF Grown
<1>5. PICK nb : nb = [memmove(h[p], pos + 1, pos, len[v] - pos + 1) EXCEPT ![pos] = e] OBVIOUS
<1>6. /\ nb \in Seq(S) /\ Len(nb) = Len(h[p])
      /\ \A i \in 1 .. (len[v] + 1) :
           nb[i] = IF i < pos THEN h[p][i] ELSE IF i = pos THEN e ELSE h[p][i - 1]
  <2>1. PICK arr, n : arr = h[p] /\ n = len[v] OBVIOUS
  <2>2. arr \in Seq(S) /\ n \in Nat /\ e \in S /\ n < Len(arr) /\ pos \in 1 .. (n + 1)
    BY <1>0, <1>3, <1>4, <2>1
  <2>3. nb = [memmove(arr, pos + 1, pos, n - pos + 1) EXCEPT ![pos] = e] BY <1>5, <2>1
  <2> HIDE DEF S
  <2>4. /\ nb \in Seq(S) /\ Len(nb) = Len(arr)
        /\ \A i \in 1 .. (n + 1) :
             nb[i] = IF i < pos THEN arr[i] ELSE IF i = pos THEN e ELSE arr[i - 1]
    BY <2>2, <2>3, InsertedBlock
  <2> QED BY <2>1, <2>4
<1>7. PICK ws : ws = InsertAt(wanted[v], pos, e) OBVIOUS
<1>8. Len(wanted[v]) = len[v] /\ wanted[v] \in Seq(Elem) BY <1>0 DEF VectorInv, Expected
<1>9. /\ ws \in Seq(Elem) /\ Len(ws) = len[v] + 1
      /\ \A i \in 1 .. (len[v] + 1) :
           ws[i] = IF i < pos THEN wanted[v][i] ELSE IF i = pos THEN e ELSE wanted[v][i - 1]
  <2>1. PICK s \in Seq(Elem) : s = wanted[v] BY <1>8
  <2>2. pos \in 1 .. (Len(s) + 1) /\ ws = InsertAt(s, pos, e) BY <1>7, <1>8, <2>1
  <2>3. /\ InsertAt(s, pos, e) \in Seq(Elem) /\ Len(InsertAt(s, pos, e)) = Len(s) + 1
        /\ \A i \in 1 .. (Len(s) + 1) :
             InsertAt(s, pos, e)[i] = IF i < pos THEN s[i] ELSE IF i = pos THEN e ELSE s[i - 1]
    <3>1. pos \in 1 .. (Len(s) + 1) BY <2>2
    <3> QED BY <3>1, Inserted, SMTT(30)
  <2> QED BY <1>8, <2>1, <2>2, <2>3
<1>10. heap' = [h EXCEPT ![p] = nb] /\ heap'[p] = nb /\ \A b \in Blocks \ {p} : heap'[b] = h[b]
  BY <1>3, <1>4, <1>5
<1>11. wanted' = [wanted EXCEPT ![v] = ws] BY <1>3, <1>7
<1>12. \A w \in Vectors \ {v} : ptr[w] # NULL => p # ptr[w] /\ h[ptr[w]] = heap[ptr[w]]
  BY <1>2 DEF Grown
<1>13. /\ ptr'[v] = p /\ capacity'[v] = c /\ len'[v] = len[v] + 1 /\ wanted'[v] = ws
       /\ \A w \in Vectors \ {v} : ptr'[w] = ptr[w] /\ capacity'[w] = capacity[w]
                                   /\ len'[w] = len[w] /\ wanted'[w] = wanted[w]
  BY <1>0, <1>3, <1>11
<1>14. \A w \in Vectors \ {v} : ptr[w] # NULL => heap'[ptr[w]] = heap[ptr[w]]
  <2> SUFFICES ASSUME NEW w \in Vectors \ {v}, ptr[w] # NULL PROVE heap'[ptr[w]] = heap[ptr[w]]
    OBVIOUS
  <2>1. ptr[w] \in Blocks BY <1>0
  <2> QED BY <1>10, <1>12, <2>1
<1>15. VectorTypeOK'
  <2>1. capacity' \in [Vectors -> Nat] /\ len' \in [Vectors -> Nat] BY <1>0, <1>3, <1>4
  <2>2. ptr' \in [Vectors -> Blocks \cup {NULL}] BY <1>0, <1>3, <1>4
  <2>3. heap' \in [Blocks -> Seq(S)] BY <1>4, <1>6, <1>10
  <2>4. wanted' \in [Vectors -> Seq(Elem)] BY <1>0, <1>9, <1>11
  <2> QED BY <1>0, <1>3, <2>1, <2>2, <2>3, <2>4 DEF VectorTypeOK
<1>16. Fitting'
  <2> SUFFICES ASSUME NEW w \in Vectors
               PROVE  /\ len'[w] <= capacity'[w]
                      /\ ptr'[w] = NULL => len'[w] = 0
                      /\ ptr'[w] # NULL => /\ w \in exists' /\ heap'[ptr'[w]] # << >>
                                           /\ capacity'[w] <= Len(heap'[ptr'[w]])
    BY DEF Fitting
  <2>1. CASE w = v
    <3>1. len[v] + 1 <= c /\ c > 0 BY <1>0, <1>4
    <3>2. nb # << >> BY <1>4, <1>6, <3>1
    <3> QED BY <1>3, <1>4, <1>6, <1>10, <1>13, <2>1, <3>1, <3>2
  <2>2. CASE w # v
    <3>1. /\ len[w] <= capacity[w]
          /\ ptr[w] = NULL => len[w] = 0
          /\ ptr[w] # NULL => w \in exists /\ heap[ptr[w]] # << >> /\ capacity[w] <= Len(heap[ptr[w]])
      BY DEF VectorInv, Fitting
    <3> QED BY <1>3, <1>13, <1>14, <2>2, <3>1
  <2> QED BY <2>1, <2>2
<1>17. Owned'
  <2>1. ASSUME NEW u \in Vectors, NEW w \in Vectors, ptr'[u] = ptr'[w], ptr'[u] # NULL PROVE u = w
    <3>1. CASE u # v /\ w # v BY <1>13, <2>1, <3>1 DEF VectorInv, Owned
    <3>2. CASE u = v /\ w # v BY <1>12, <1>13, <2>1, <3>2
    <3>3. CASE u # v /\ w = v BY <1>12, <1>13, <2>1, <3>3
    <3> QED BY <3>1, <3>2, <3>3
  <2>2. ASSUME NEW b \in Blocks, heap'[b] # << >> PROVE \E u \in Vectors : ptr'[u] = b
    <3>1. CASE b = p BY <1>0, <1>13, <3>1
    <3>2. CASE b # p
      <4>1. h[b] # << >> BY <1>10, <2>2, <3>2
      <4>2. PICK w \in Vectors \ {v} : ptr[w] = b BY <1>2, <3>2, <4>1 DEF Grown
      <4> QED BY <1>13, <4>2
    <3> QED BY <3>1, <3>2
  <2> QED BY <2>1, <2>2 DEF Owned
<1>18. Expected'
  <2> SUFFICES ASSUME NEW w \in Vectors
               PROVE  /\ Len(wanted'[w]) = len'[w]
                      /\ w \notin spoilt' => \A i \in 1 .. len'[w] : heap'[ptr'[w]][i] = wanted'[w][i]
    BY DEF Expected
  <2>1. CASE w = v
    <3>1. ASSUME v \notin spoilt, NEW i \in 1 .. (len[v] + 1) PROVE nb[i] = ws[i]
      <4>1. \A j \in 1 .. len[v] : h[p][j] = wanted[v][j] BY <1>2, <3>1 DEF Grown
      <4>2. len[v] \in Nat BY <1>0
      <4>3. CASE i < pos
        <5>1. i \in 1 .. len[v] BY <4>2, <4>3
        <5> QED BY <1>6, <1>9, <4>1, <4>3, <5>1
      <4>4. CASE i = pos BY <1>6, <1>9, <4>4
      <4>5. CASE i > pos
        <5>1. i - 1 \in 1 .. len[v] /\ ~ (i < pos) /\ i # pos BY <4>2, <4>5
        <5>2. h[p][i - 1] = wanted[v][i - 1] BY <4>1, <5>1
        <5> QED BY <1>6, <1>9, <5>1, <5>2
      <4> QED BY <4>2, <4>3, <4>4, <4>5
    <3>2. len'[v] = len[v] + 1 /\ wanted'[v] = ws /\ heap'[ptr'[v]] = nb /\ spoilt' = spoilt
      BY <1>3, <1>10, <1>13
    <3> QED BY <1>9, <2>1, <3>1, <3>2
  <2>2. CASE w # v
    <3>1. /\ Len(wanted[w]) = len[w]
          /\ w \notin spoilt => \A i \in 1 .. len[w] : heap[ptr[w]][i] = wanted[w][i]
      BY DEF VectorInv, Expected
    <3>2. ptr[w] = NULL => len[w] = 0 BY DEF VectorInv, Fitting
    <3>5. ptr'[w] = ptr[w] /\ len'[w] = len[w] /\ wanted'[w] = wanted[w] /\ spoilt' = spoilt
      BY <1>3, <1>13, <2>2
    <3>3. CASE ptr[w] = NULL
      <4>1. 1 .. len'[w] = {} BY <3>2, <3>3, <3>5
      <4> QED BY <3>1, <3>5, <4>1
    <3>4. CASE ptr[w] # NULL
      <4>1. heap'[ptr'[w]] = heap[ptr[w]] BY <1>14, <2>2, <3>4, <3>5
      <4> QED BY <3>1, <3>5, <4>1
    <3> QED BY <3>3, <3>4
  <2> QED BY <2>1, <2>2
<1>19. WithinBlock' BY <1>3 DEF WithinBlock
<1> QED BY <1>15, <1>16, <1>17, <1>18, <1>19 DEF VectorInv

\* A store outside a block happens only in a vector that was moved from.
LEMMA CrashInv ==
  ASSUME VectorInv, crashed = "no", NEW v \in exists, InsertCrash(v) \/ PopBack(v)
  PROVE  VectorInv'
<1>1. /\ exists' = exists /\ capacity' = capacity /\ len' = len /\ ptr' = ptr
      /\ heap' = heap /\ wanted' = wanted /\ spoilt' = spoilt
  BY DEF InsertCrash, PopBack, Crash, object
<1>2. VectorTypeOK' /\ Fitting' /\ Owned' /\ Expected'
  BY <1>1 DEF VectorInv, VectorTypeOK, Fitting, Owned, Expected
<1>3. WithinBlock'
  <2>1. CASE PopBack(v) BY <2>1 DEF PopBack, Crash, WithinBlock
  <2>2. CASE InsertCrash(v)
    <3>1. PICK h, p, c : h = Ensured(v).heap /\ p = Ensured(v).ptr /\ c = Ensured(v).capacity OBVIOUS
    <3>2. Grown(v, h, p, c) BY <3>1, EnsuredGrown
    <3>3. crashed' = IF p = NULL THEN "null" ELSE IF len[v] < Len(h[p]) THEN "block" ELSE "beyond"
      BY <2>2, <3>1 DEF InsertCrash, Crash, Target
    <3>4. CASE p = NULL
      <4>1. capacity[v] > 0 /\ ptr[v] = NULL BY <3>2, <3>4 DEF Grown
      <4> QED BY <1>1, <3>3, <3>4, <4>1 DEF WithinBlock
    <3>5. CASE p # NULL
      <4>1. h[p] \in Seq(Elem \cup {Garbage}) /\ len[v] < c /\ c <= Len(h[p]) /\ c \in Nat
        BY <3>2, <3>5 DEF Grown
      <4>2. len[v] \in Nat BY DEF VectorInv, VectorTypeOK
      <4>3. Len(h[p]) \in Nat BY <4>1
      <4>4. len[v] < Len(h[p]) BY <4>1, <4>2, <4>3
      <4> QED BY <3>3, <3>5, <4>4 DEF WithinBlock
    <3> QED BY <3>4, <3>5
  <2> QED BY <2>1, <2>2
<1> QED BY <1>2, <1>3 DEF VectorInv

\* Remove: a block keeps its length, and its contents if at most one element moves.
LEMMA RemoveInv ==
  ASSUME VectorInv, crashed = "no", NEW v \in exists,
         NEW pos \in 1 .. len[v], RemoveElement(v, pos)
  PROVE  VectorInv'
<1> DEFINE S == Elem \cup {Garbage}
<1>0. /\ v \in Vectors /\ len \in [Vectors -> Nat] /\ capacity \in [Vectors -> Nat]
      /\ ptr \in [Vectors -> Blocks \cup {NULL}] /\ heap \in [Blocks -> Seq(S)]
      /\ wanted \in [Vectors -> Seq(Elem)] /\ exists \subseteq Vectors /\ spoilt \subseteq exists
  BY DEF VectorInv, VectorTypeOK
<1>1. PICK n \in Nat : n = len[v] BY <1>0
<1>2. n - 1 \in Nat /\ pos \in 1 .. n BY <1>1
<1>3. PICK p \in Blocks : p = ptr[v] /\ p # NULL
  <2>1. ptr[v] = NULL => len[v] = 0 BY <1>0 DEF VectorInv, Fitting
  <2> QED BY <1>0, <1>1, <1>2, <2>1
<1>4. PICK arr \in Seq(S) : arr = heap[p] BY <1>0
<1>5. n <= capacity[v] /\ capacity[v] <= Len(arr) /\ arr # << >> /\ n <= Len(arr)
  <2>1. n <= capacity[v] /\ capacity[v] <= Len(arr) /\ arr # << >>
    BY <1>0, <1>1, <1>3, <1>4 DEF VectorInv, Fitting
  <2>2. Len(arr) \in Nat BY <1>4
  <2> QED BY <1>0, <2>1, <2>2
<1>6. PICK nb : nb = memmove(arr, pos, pos + 1, n - pos) OBVIOUS
<1>7. /\ nb \in Seq(S) /\ Len(nb) = Len(arr)
      /\ n - pos <= 1 => \A i \in 1 .. (n - 1) : nb[i] = IF i < pos THEN arr[i] ELSE arr[i + 1]
  <2> HIDE DEF S
  <2> QED BY <1>2, <1>5, <1>6, RemovedBlock
<1>8. PICK s \in Seq(Elem) : s = wanted[v] /\ Len(s) = n
  BY <1>0, <1>1 DEF VectorInv, Expected
<1>9. PICK ws : ws = RemoveAt(s, pos) OBVIOUS
<1>10. /\ ws \in Seq(Elem) /\ Len(ws) = n - 1
       /\ \A i \in 1 .. (n - 1) : ws[i] = IF i < pos THEN s[i] ELSE s[i + 1]
  <2>1. pos \in 1 .. Len(s) BY <1>2, <1>8
  <2>2. /\ RemoveAt(s, pos) \in Seq(Elem) /\ Len(RemoveAt(s, pos)) = Len(s) - 1
        /\ \A i \in 1 .. (Len(s) - 1) :
             RemoveAt(s, pos)[i] = IF i < pos THEN s[i] ELSE s[i + 1]
    BY <2>1, Removed
  <2> QED BY <1>8, <1>9, <2>2
<1>11. /\ heap' = [heap EXCEPT ![p] = nb] /\ len' = [len EXCEPT ![v] = n - 1]
       /\ wanted' = [wanted EXCEPT ![v] = ws]
       /\ spoilt' = IF n - pos > 1 THEN spoilt \cup {v} ELSE spoilt
       /\ exists' = exists /\ capacity' = capacity /\ ptr' = ptr /\ crashed' = crashed
  BY <1>1, <1>3, <1>4, <1>6, <1>8, <1>9 DEF RemoveElement
<1>12. /\ heap'[p] = nb /\ len'[v] = n - 1 /\ wanted'[v] = ws
       /\ \A b \in Blocks \ {p} : heap'[b] = heap[b]
       /\ \A w \in Vectors \ {v} : len'[w] = len[w] /\ wanted'[w] = wanted[w]
  BY <1>0, <1>11
<1>13. \A w \in Vectors \ {v} : ptr[w] # NULL => heap'[ptr[w]] = heap[ptr[w]]
  <2> SUFFICES ASSUME NEW w \in Vectors \ {v}, ptr[w] # NULL PROVE heap'[ptr[w]] = heap[ptr[w]]
    OBVIOUS
  <2>1. ptr[w] \in Blocks BY <1>0
  <2>2. ptr[w] # p BY <1>0, <1>3 DEF VectorInv, Owned
  <2> QED BY <1>12, <2>1, <2>2
<1>14. VectorTypeOK'
  <2>1. len' \in [Vectors -> Nat] BY <1>0, <1>2, <1>11
  <2>2. heap' \in [Blocks -> Seq(S)] BY <1>0, <1>7, <1>11
  <2>3. wanted' \in [Vectors -> Seq(Elem)] BY <1>0, <1>10, <1>11
  <2>4. spoilt' \subseteq exists' BY <1>0, <1>11
  <2> QED BY <1>0, <1>11, <2>1, <2>2, <2>3, <2>4 DEF VectorTypeOK
<1>15. Fitting'
  <2> SUFFICES ASSUME NEW w \in Vectors
               PROVE  /\ len'[w] <= capacity'[w]
                      /\ ptr'[w] = NULL => len'[w] = 0
                      /\ ptr'[w] # NULL => /\ w \in exists' /\ heap'[ptr'[w]] # << >>
                                           /\ capacity'[w] <= Len(heap'[ptr'[w]])
    BY DEF Fitting
  <2>1. CASE w = v
    <3>1. n - 1 <= capacity[v] BY <1>0, <1>2, <1>5
    <3>2. nb # << >>
      <4>1. Len(arr) > 0 BY <1>2, <1>5
      <4> QED BY <1>7, <4>1
    <3>3. ptr'[v] = p /\ heap'[ptr'[v]] = nb /\ capacity'[v] = capacity[v] BY <1>3, <1>11, <1>12
    <3> QED BY <1>3, <1>5, <1>7, <1>11, <1>12, <2>1, <3>1, <3>2, <3>3
  <2>2. CASE w # v
    <3>1. /\ len[w] <= capacity[w]
          /\ ptr[w] = NULL => len[w] = 0
          /\ ptr[w] # NULL => w \in exists /\ heap[ptr[w]] # << >> /\ capacity[w] <= Len(heap[ptr[w]])
      BY DEF VectorInv, Fitting
    <3> QED BY <1>11, <1>12, <1>13, <2>2, <3>1
  <2> QED BY <2>1, <2>2
<1>16. Owned'
  <2>1. \A u, w \in Vectors : ptr'[u] = ptr'[w] /\ ptr'[u] # NULL => u = w
    BY <1>11 DEF VectorInv, Owned
  <2>2. ASSUME NEW b \in Blocks, heap'[b] # << >> PROVE \E u \in Vectors : ptr'[u] = b
    <3>1. CASE b = p BY <1>0, <1>3, <1>11, <3>1
    <3>2. CASE b # p BY <1>11, <1>12, <2>2, <3>2 DEF VectorInv, Owned
    <3> QED BY <3>1, <3>2
  <2> QED BY <2>1, <2>2 DEF Owned
<1>17. Expected'
  <2> SUFFICES ASSUME NEW w \in Vectors
               PROVE  /\ Len(wanted'[w]) = len'[w]
                      /\ w \notin spoilt' => \A i \in 1 .. len'[w] : heap'[ptr'[w]][i] = wanted'[w][i]
    BY DEF Expected
  <2>1. CASE w = v
    <3>1. ASSUME v \notin spoilt', NEW i \in 1 .. (n - 1) PROVE nb[i] = ws[i]
      <4>1. v \notin spoilt /\ ~ (n - pos > 1) BY <1>11, <3>1
      <4>2. \A j \in 1 .. n : arr[j] = s[j]
        BY <1>0, <1>1, <1>3, <1>4, <1>8, <4>1 DEF VectorInv, Expected
      <4>6. n - pos <= 1 BY <1>2, <4>1
      <4>3. nb[i] = IF i < pos THEN arr[i] ELSE arr[i + 1] BY <1>7, <4>6
      <4>4. i \in 1 .. n /\ i + 1 \in 1 .. n BY <1>2
      <4>5. arr[i] = s[i] /\ arr[i + 1] = s[i + 1] BY <4>2, <4>4
      <4> QED BY <1>10, <4>3, <4>5
    <3>2. len'[v] = n - 1 /\ wanted'[v] = ws /\ heap'[ptr'[v]] = nb BY <1>3, <1>11, <1>12
    <3> QED BY <1>10, <2>1, <3>1, <3>2
  <2>2. CASE w # v
    <3>1. /\ Len(wanted[w]) = len[w]
          /\ w \notin spoilt => \A i \in 1 .. len[w] : heap[ptr[w]][i] = wanted[w][i]
      BY DEF VectorInv, Expected
    <3>2. ptr[w] = NULL => len[w] = 0 BY DEF VectorInv, Fitting
    <3>3. ptr'[w] = ptr[w] /\ len'[w] = len[w] /\ wanted'[w] = wanted[w]
      BY <1>11, <1>12, <2>2
    <3>6. w \in spoilt' <=> w \in spoilt BY <1>11, <2>2
    <3>4. CASE ptr[w] = NULL
      <4>1. 1 .. len'[w] = {} BY <3>2, <3>3, <3>4
      <4> QED BY <3>1, <3>3, <4>1
    <3>5. CASE ptr[w] # NULL
      <4>1. heap'[ptr'[w]] = heap[ptr[w]] BY <1>13, <2>2, <3>3, <3>5
      <4> QED BY <3>1, <3>3, <3>6, <4>1
    <3> QED BY <3>4, <3>5
  <2> QED BY <2>1, <2>2
<1>18. WithinBlock' BY <1>11 DEF WithinBlock
<1> QED BY <1>14, <1>15, <1>16, <1>17, <1>18 DEF VectorInv

\* Vector(Vector &&rhs): the block changes its vector, the elements stay.
LEMMA MoveInv ==
  ASSUME VectorInv, crashed = "no", NEW rhs \in exists, NEW v \in Vectors \ exists, Move(v, rhs)
  PROVE  VectorInv'
<1> DEFINE S == Elem \cup {Garbage}
<1>0. /\ rhs \in Vectors /\ len \in [Vectors -> Nat] /\ capacity \in [Vectors -> Nat]
      /\ ptr \in [Vectors -> Blocks \cup {NULL}] /\ heap \in [Blocks -> Seq(S)]
      /\ wanted \in [Vectors -> Seq(Elem)] /\ exists \subseteq Vectors /\ spoilt \subseteq exists
      /\ v # rhs
  BY DEF VectorInv, VectorTypeOK
<1>1. /\ exists' = exists \cup {v}
      /\ len' = [len EXCEPT ![v] = len[rhs], ![rhs] = 0]
      /\ ptr' = [ptr EXCEPT ![v] = ptr[rhs], ![rhs] = NULL]
      /\ capacity' = [capacity EXCEPT ![v] = len[rhs]]
      /\ wanted' = [wanted EXCEPT ![v] = wanted[rhs], ![rhs] = << >>]
      /\ spoilt' = {IF u = rhs THEN v ELSE u : u \in spoilt}
      /\ heap' = heap /\ crashed' = crashed
  BY DEF Move
<1>2. /\ len'[v] = len[rhs] /\ ptr'[v] = ptr[rhs] /\ capacity'[v] = len[rhs] /\ wanted'[v] = wanted[rhs]
      /\ len'[rhs] = 0 /\ ptr'[rhs] = NULL /\ capacity'[rhs] = capacity[rhs] /\ wanted'[rhs] = << >>
      /\ \A w \in Vectors \ {v, rhs} : len'[w] = len[w] /\ ptr'[w] = ptr[w]
                                       /\ capacity'[w] = capacity[w] /\ wanted'[w] = wanted[w]
  BY <1>0, <1>1
<1>3. ptr[v] = NULL BY DEF VectorInv, Fitting
<1>4. /\ v \in spoilt' <=> rhs \in spoilt
      /\ \A w \in Vectors \ {v, rhs} : w \in spoilt' <=> w \in spoilt
  BY <1>0, <1>1
<1>5. VectorTypeOK'
  <2>1. len' \in [Vectors -> Nat] /\ capacity' \in [Vectors -> Nat] BY <1>0, <1>1
  <2>2. ptr' \in [Vectors -> Blocks \cup {NULL}] BY <1>0, <1>1
  <2>3. wanted' \in [Vectors -> Seq(Elem)]
    <3>1. << >> \in Seq(Elem) BY EmptySeq
    <3> QED BY <1>0, <1>1, <3>1
  <2>4. exists' \subseteq Vectors /\ spoilt' \subseteq exists' BY <1>0, <1>1
  <2> QED BY <1>0, <1>1, <2>1, <2>2, <2>3, <2>4 DEF VectorTypeOK
<1>6. Fitting'
  <2> SUFFICES ASSUME NEW w \in Vectors
               PROVE  /\ len'[w] <= capacity'[w]
                      /\ ptr'[w] = NULL => len'[w] = 0
                      /\ ptr'[w] # NULL => /\ w \in exists' /\ heap'[ptr'[w]] # << >>
                                           /\ capacity'[w] <= Len(heap'[ptr'[w]])
    BY DEF Fitting
  <2>1. \A u \in Vectors :
          /\ len[u] <= capacity[u]
          /\ ptr[u] = NULL => len[u] = 0
          /\ ptr[u] # NULL => u \in exists /\ heap[ptr[u]] # << >> /\ capacity[u] <= Len(heap[ptr[u]])
    BY DEF VectorInv, Fitting
  <2>2. CASE w = v
    <3>1. len[rhs] \in Nat /\ capacity[rhs] \in Nat /\ len[rhs] <= capacity[rhs] BY <1>0, <2>1
    <3>2. ptr[rhs] # NULL => len[rhs] <= Len(heap[ptr[rhs]])
      <4> SUFFICES ASSUME ptr[rhs] # NULL PROVE len[rhs] <= Len(heap[ptr[rhs]]) OBVIOUS
      <4>1. PICK a \in Seq(S) : a = heap[ptr[rhs]] BY <1>0
      <4>2. Len(a) \in Nat /\ capacity[rhs] <= Len(a) BY <1>0, <2>1, <4>1
      <4> QED BY <3>1, <4>1, <4>2
    <3> QED BY <1>0, <1>1, <1>2, <2>1, <2>2, <3>1, <3>2
  <2>3. CASE w = rhs
    <3>1. capacity[rhs] \in Nat BY <1>0
    <3> QED BY <1>2, <2>3, <3>1
  <2>4. CASE w # v /\ w # rhs BY <1>1, <1>2, <2>1, <2>4
  <2> QED BY <2>2, <2>3, <2>4
<1>7. Owned'
  <2>1. ASSUME NEW u \in Vectors, NEW w \in Vectors, ptr'[u] = ptr'[w], ptr'[u] # NULL PROVE u = w
    <3>0. \A x, y \in Vectors : ptr[x] = ptr[y] /\ ptr[x] # NULL => x = y BY DEF VectorInv, Owned
    <3>1. u # rhs /\ w # rhs BY <1>2, <2>1
    <3>2. CASE u = v /\ w # v BY <1>0, <1>2, <2>1, <3>0, <3>1, <3>2
    <3>3. CASE u # v /\ w = v BY <1>0, <1>2, <2>1, <3>0, <3>1, <3>3
    <3>4. CASE u # v /\ w # v BY <1>2, <2>1, <3>0, <3>1, <3>4
    <3> QED BY <3>2, <3>3, <3>4
  <2>2. ASSUME NEW b \in Blocks, heap'[b] # << >> PROVE \E u \in Vectors : ptr'[u] = b
    <3>1. PICK w \in Vectors : ptr[w] = b BY <1>1, <2>2 DEF VectorInv, Owned
    <3>2. w # v BY <1>3, <3>1, VectorAssumption
    <3>3. CASE w = rhs BY <1>2, <3>1, <3>3
    <3>4. CASE w # rhs BY <1>2, <3>1, <3>2, <3>4
    <3> QED BY <3>3, <3>4
  <2> QED BY <2>1, <2>2 DEF Owned
<1>8. Expected'
  <2> SUFFICES ASSUME NEW w \in Vectors
               PROVE  /\ Len(wanted'[w]) = len'[w]
                      /\ w \notin spoilt' => \A i \in 1 .. len'[w] : heap'[ptr'[w]][i] = wanted'[w][i]
    BY DEF Expected
  <2>1. \A u \in Vectors :
          /\ Len(wanted[u]) = len[u]
          /\ u \notin spoilt => \A i \in 1 .. len[u] : heap[ptr[u]][i] = wanted[u][i]
    BY DEF VectorInv, Expected
  <2>2. CASE w = v BY <1>0, <1>1, <1>2, <1>4, <2>1, <2>2
  <2>3. CASE w = rhs
    <3>1. 1 .. len'[w] = {} BY <1>2, <2>3
    <3> QED BY <1>2, <2>3, <3>1
  <2>4. CASE w # v /\ w # rhs
    <3>1. /\ ptr'[w] = ptr[w] /\ len'[w] = len[w] /\ wanted'[w] = wanted[w] /\ heap' = heap
          /\ w \in spoilt' <=> w \in spoilt
      BY <1>1, <1>2, <1>4, <2>4
    <3> QED BY <2>1, <3>1
  <2> QED BY <2>2, <2>3, <2>4
<1>9. WithinBlock' BY <1>1 DEF WithinBlock
<1> QED BY <1>5, <1>6, <1>7, <1>8, <1>9 DEF VectorInv

\* Whatever is done to the vectors keeps VectorInv.
LEMMA VectorStep == VectorInv /\ [VectorNext]_vector_vars => VectorInv'
<1> SUFFICES ASSUME VectorInv, [VectorNext]_vector_vars PROVE VectorInv' OBVIOUS
<1>1. CASE UNCHANGED vector_vars
  BY <1>1 DEF vector_vars, object, VectorInv, VectorTypeOK, Fitting, Owned, Expected, WithinBlock
<1>2. CASE VectorNext
  <2>1. crashed = "no" BY <1>2 DEF VectorNext
  <2>2. PICK v \in exists :
          \/ \E pos \in 1 .. (len[v] + 1), e \in Elem : Insert(v, pos, e)
          \/ InsertCrash(v) \/ PopBack(v)
          \/ \E pos \in 1 .. len[v] : RemoveElement(v, pos)
          \/ \E w \in Vectors \ exists : Move(w, v)
    BY <1>2 DEF VectorNext
  <2>3. CASE \E pos \in 1 .. (len[v] + 1), e \in Elem : Insert(v, pos, e) BY <2>1, <2>3, InsertInv
  <2>4. CASE InsertCrash(v) \/ PopBack(v) BY <2>1, <2>4, CrashInv
  <2>5. CASE \E pos \in 1 .. len[v] : RemoveElement(v, pos) BY <2>1, <2>5, RemoveInv
  <2>6. CASE \E w \in Vectors \ exists : Move(w, v) BY <2>1, <2>6, MoveInv
  <2> QED BY <2>2, <2>3, <2>4, <2>5, <2>6
<1> QED BY <1>1, <1>2

\* The vectors are as VectorInv says at any time.
THEOREM VectorInductive == VectorSpec => []VectorInv
  BY InitVectorInv, VectorStep, PTL DEF VectorSpec

\* A vector holds what its clients put into it, whatever they do with other vectors
\* and however often it grows or is moved, until Remove spoils it.
THEOREM AlwaysContents == VectorSpec => []Contents
<1>1. VectorInv => Contents
  <2> SUFFICES ASSUME VectorInv, NEW v \in exists \ spoilt
               PROVE  SubSeq(Old(v), 1, len[v]) = wanted[v]
    BY DEF Contents
  <2>1. PICK n \in Nat : n = len[v] BY DEF VectorInv, VectorTypeOK
  <2>2. PICK s \in Seq(Elem) : s = wanted[v] /\ Len(s) = n
    BY <2>1 DEF VectorInv, VectorTypeOK, Expected
  <2>3. PICK a \in Seq(Elem \cup {Garbage}) : a = Old(v) /\ n <= Len(a) /\ \A i \in 1 .. n : a[i] = s[i]
    <3>1. CASE ptr[v] = NULL
      <4>1. n = 0 /\ Old(v) = << >> BY <2>1, <3>1 DEF VectorInv, VectorTypeOK, Fitting, Old
      <4>2. << >> \in Seq(Elem \cup {Garbage}) /\ Len(<< >>) = 0 BY EmptySeq
      <4>3. n <= Len(<< >>) /\ 1 .. n = {} BY <4>1, <4>2
      <4> QED BY <4>1, <4>2, <4>3
    <3>2. CASE ptr[v] # NULL
      <4>1. PICK a \in Seq(Elem \cup {Garbage}) : a = heap[ptr[v]] BY <3>2 DEF VectorInv, VectorTypeOK
      <4>2. Len(a) \in Nat /\ capacity[v] \in Nat BY DEF VectorInv, VectorTypeOK
      <4>3. n <= capacity[v] /\ capacity[v] <= Len(a)
        BY <2>1, <3>2, <4>1 DEF VectorInv, VectorTypeOK, Fitting
      <4>4. \A i \in 1 .. n : a[i] = s[i]
        BY <2>1, <2>2, <4>1 DEF VectorInv, VectorTypeOK, Expected
      <4>5. a = Old(v) BY <3>2, <4>1 DEF Old
      <4> QED BY <4>2, <4>3, <4>4, <4>5
    <3> QED BY <3>1, <3>2
  <2>4. SubSeq(a, 1, n) \in Seq(Elem \cup {Garbage}) /\ Len(SubSeq(a, 1, n)) = n
        /\ \A i \in 1 .. n : SubSeq(a, 1, n)[i] = a[i]
    BY <2>3
  <2>5. s \in Seq(Elem \cup {Garbage}) BY SeqMonotonic
  <2>6. SubSeq(a, 1, n) = s BY <2>2, <2>3, <2>4, <2>5, SeqEqual
  <2> QED BY <2>1, <2>2, <2>3, <2>6
<1> QED BY <1>1, VectorInductive, PTL

\* No insertion stores beyond its block, and only a vector that was moved from
\* stores at NULL.
THEOREM AlwaysWithinBlock == VectorSpec => []WithinBlock
<1>1. VectorInv => WithinBlock BY DEF VectorInv
<1> QED BY <1>1, VectorInductive, PTL

\* No block is shared and none leaks.
THEOREM AlwaysOneOwner == VectorSpec => []OneOwner
<1>1. VectorInv => OneOwner
  <2> SUFFICES ASSUME VectorInv, NEW b \in Blocks
               PROVE  heap[b] # << >> <=> Cardinality({v \in exists : ptr[v] = b}) = 1
    BY DEF OneOwner
  <2>0. PICK X : X = {v \in exists : ptr[v] = b} OBVIOUS
  <2>1. IsFiniteSet(X)
    <3>1. X \in SUBSET Vectors BY <2>0 DEF VectorInv, VectorTypeOK
    <3> QED BY <3>1, VectorAssumption, FS_Subset
  <2>2. b # NULL BY VectorAssumption
  <2>3. ASSUME heap[b] # << >> PROVE Cardinality(X) = 1
    <3>1. PICK v \in Vectors : ptr[v] = b BY <2>3 DEF VectorInv, Owned
    <3>2. v \in exists BY <2>2, <3>1 DEF VectorInv, Fitting
    <3>3. \A w \in exists : ptr[w] = b => w = v
      BY <2>2, <3>1 DEF VectorInv, VectorTypeOK, Owned
    <3>4. X = {v} BY <2>0, <3>1, <3>2, <3>3
    <3> QED BY <3>4, FS_Singleton
  <2>4. ASSUME Cardinality(X) = 1 PROVE heap[b] # << >>
    <3>1. PICK v : X = {v} BY <2>1, <2>4, FS_Singleton
    <3>2. v \in exists /\ ptr[v] = b BY <2>0, <3>1
    <3> QED BY <2>2, <3>2 DEF VectorInv, VectorTypeOK, Fitting
  <2> QED BY <2>0, <2>3, <2>4
<1> QED BY <1>1, VectorInductive, PTL

-----------------------------------------------------------------------------
(* The powers of a base.                                                   *)

\* The equation of Powers, up to n.
IsPowers(f, b, n) == f = [m \in 0 .. n |-> IF m = 0 THEN 1 ELSE b * f[m - 1]]

\* The equation has a solution.
LEMMA PowersExist ==
  ASSUME NEW b \in Nat, NEW n \in Nat
  PROVE  \E f : IsPowers(f, b, n)
<1> DEFINE T == {m \in Nat : ~ \E f : IsPowers(f, b, m)}
<1> SUFFICES ASSUME T # {} PROVE FALSE OBVIOUS
<1>1. PICK m \in T : \A k \in T : m <= k
  <2>1. T \in SUBSET Nat OBVIOUS
  <2> HIDE DEF T
  <2> QED BY <2>1, NatLeast
<1>2. m \in Nat /\ ~ \E f : IsPowers(f, b, m) OBVIOUS
<1>3. CASE m = 0
  <2>1. [x \in 0 .. 0 |-> 1] = [x \in 0 .. 0 |-> IF x = 0 THEN 1 ELSE b * ([y \in 0 .. 0 |-> 1])[x - 1]]
    OBVIOUS
  <2>2. IsPowers([x \in 0 .. 0 |-> 1], b, 0) BY <2>1, Zenon DEF IsPowers
  <2> QED BY <1>2, <1>3, <2>2
<1>4. CASE m # 0
  <2>1. m - 1 \in Nat /\ ~ (m <= m - 1) BY <1>2, <1>4
  <2>2. m - 1 \notin T BY <1>1, <2>1
  <2>3. PICK f : IsPowers(f, b, m - 1) BY <2>1, <2>2
  <2> DEFINE g == [x \in 0 .. m |-> IF x = m THEN b * f[m - 1] ELSE f[x]]
  <2>4. ASSUME NEW x \in 0 .. m PROVE g[x] = IF x = 0 THEN 1 ELSE b * g[x - 1]
    <3>1. CASE x = m
      <4>1. x - 1 \in 0 .. m /\ x - 1 # m /\ x - 1 = m - 1 BY <1>2, <1>4, <3>1
      <4>2. g[x - 1] = f[m - 1] BY <4>1
      <4> QED BY <1>4, <3>1, <4>2
    <3>2. CASE x # m
      <4>1. x \in 0 .. (m - 1) BY <1>2, <3>2
      <4>2. f[x] = IF x = 0 THEN 1 ELSE b * f[x - 1] BY <2>3, <4>1, Zenon DEF IsPowers
      <4>3. x # 0 => x - 1 \in 0 .. m /\ x - 1 # m BY <1>2
      <4>4. x # 0 => g[x - 1] = f[x - 1] BY <4>3
      <4> QED BY <3>2, <4>2, <4>4
    <3> QED BY <3>1, <3>2
  <2>5. g = [x \in 0 .. m |-> g[x]] OBVIOUS
  <2> HIDE DEF g
  <2>6. IsPowers(g, b, m) BY <2>4, <2>5 DEF IsPowers
  <2> QED BY <1>2, <2>6
<1> QED BY <1>3, <1>4

\* Powers(b) is 1, b, b * b, ...
LEMMA PowersAre ==
  ASSUME NEW b \in Nat \ {0}
  PROVE  /\ Powers(b)[0] = 1
         /\ \A m \in 1 .. BufSize : Powers(b)[m] = Powers(b)[m - 1] * b
         /\ \A m \in 0 .. BufSize : Powers(b)[m] \in Nat \ {0}
<1> DEFINE p == Powers(b)
<1>0. BufSize \in Nat /\ b \in Nat BY ConsoleAssumption
<1>1. IsPowers(p, b, BufSize)
  <2>1. PICK f : IsPowers(f, b, BufSize) BY <1>0, PowersExist
  <2>2. IsPowers(CHOOSE g : IsPowers(g, b, BufSize), b, BufSize) BY <2>1, Zenon
  <2>3. p = CHOOSE g : IsPowers(g, b, BufSize) BY Zenon DEF Powers, IsPowers
  <2> QED BY <2>2, <2>3
<1> HIDE DEF p
<1>2. \A m \in 0 .. BufSize : p[m] = IF m = 0 THEN 1 ELSE b * p[m - 1] BY <1>1, Zenon DEF IsPowers
<1> DEFINE T == {m \in 0 .. BufSize : p[m] \notin Nat \ {0}}
<1>3. T = {}
  <2> SUFFICES ASSUME T # {} PROVE FALSE OBVIOUS
  <2>1. PICK m \in T : \A k \in T : m <= k
    <3>1. T \in SUBSET Nat BY <1>0
    <3> HIDE DEF T
    <3> QED BY <3>1, NatLeast
  <2>2. m \in 0 .. BufSize /\ p[m] \notin Nat \ {0} OBVIOUS
  <2>3. m # 0 BY <1>2, <2>2
  <2>4. m - 1 \in 0 .. BufSize /\ ~ (m <= m - 1) BY <1>0, <2>2, <2>3
  <2>5. p[m - 1] \in Nat \ {0} BY <2>1, <2>4
  <2>6. p[m] = b * p[m - 1] BY <1>2, <2>2, <2>3
  <2> QED BY <2>2, <2>5, <2>6
<1>4. \A m \in 0 .. BufSize : p[m] \in Nat \ {0} BY <1>3
<1>5. p[0] = 1 BY <1>0, <1>2
<1>6. ASSUME NEW m \in 1 .. BufSize PROVE p[m] = p[m - 1] * b
  <2>1. m \in 0 .. BufSize /\ m # 0 /\ m - 1 \in 0 .. BufSize BY <1>0
  <2>2. p[m] = b * p[m - 1] BY <1>2, <2>1
  <2>3. p[m - 1] \in Nat BY <1>4, <2>1
  <2> QED BY <2>2, <2>3
<1> QED BY <1>4, <1>5, <1>6 DEF p

\* They grow.
LEMMA PowersGrow ==
  ASSUME NEW b \in Nat \ {0}, NEW i \in 0 .. BufSize, NEW j \in 0 .. BufSize, i <= j
  PROVE  Powers(b)[i] <= Powers(b)[j]
<1>0. PICK p : p = Powers(b) OBVIOUS
<1>1. /\ \A m \in 1 .. BufSize : p[m] = p[m - 1] * b
      /\ \A m \in 0 .. BufSize : p[m] \in Nat \ {0}
  BY <1>0, PowersAre
<1>2. BufSize \in Nat BY ConsoleAssumption
<1> DEFINE T == {m \in i .. BufSize : ~ (p[i] <= p[m])}
<1> SUFFICES ASSUME T # {} PROVE FALSE
  <2>1. j \in i .. BufSize BY <1>2
  <2> QED BY <1>0, <2>1
<1>3. PICK m \in T : \A k \in T : m <= k
  <2>1. T \in SUBSET Nat BY <1>2
  <2> HIDE DEF T
  <2> QED BY <2>1, NatLeast
<1>4. m \in i .. BufSize /\ ~ (p[i] <= p[m]) OBVIOUS
<1>5. m # i BY <1>1, <1>4
<1>6. m - 1 \in i .. BufSize /\ ~ (m <= m - 1) /\ m \in 1 .. BufSize BY <1>2, <1>4, <1>5
<1>7. p[i] <= p[m - 1] BY <1>3, <1>6
<1>8. m - 1 \in 0 .. BufSize BY <1>6, <1>2
<1>9. p[m - 1] \in Nat \ {0} /\ p[i] \in Nat /\ p[m] = p[m - 1] * b BY <1>1, <1>6, <1>8
<1>10. PICK q \in Nat : q = p[m - 1] BY <1>9
<1>11. q <= q * b
  <2>1. b >= 1 OBVIOUS
  <2> QED BY <2>1
<1> QED BY <1>4, <1>7, <1>9, <1>10, <1>11

-----------------------------------------------------------------------------
(* The text of a directive.                                                *)

\* The number of digits is found, and it is the smallest.
LEMMA DigitsAre ==
  ASSUME NEW b \in Nat \ {0}, NEW u \in Nat, u < Powers(b)[BufSize]
  PROVE  /\ Digits(u, b) \in 1 .. BufSize /\ u < Powers(b)[Digits(u, b)]
         /\ Digits(u, b) = 1 \/ u >= Powers(b)[Digits(u, b) - 1]
<1>0. BufSize \in Nat \ {0} BY ConsoleAssumption
<1>1. PICK p : p = Powers(b) OBVIOUS
<1>2. \A m \in 0 .. BufSize : p[m] \in Nat BY <1>1, PowersAre
<1> DEFINE T == {m \in 1 .. BufSize : u < p[m]}
<1>3. BufSize \in T BY <1>0, <1>1
<1>4. PICK m \in T : \A k \in T : m <= k
  <2>1. T \in SUBSET Nat /\ T # {} BY <1>0, <1>3
  <2> HIDE DEF T
  <2> QED BY <2>1, NatLeast
<1>5. m \in 1 .. BufSize /\ u < p[m] OBVIOUS
<1>6. m = 1 \/ u >= p[m - 1]
  <2> SUFFICES ASSUME m # 1 PROVE u >= p[m - 1] OBVIOUS
  <2>1. m - 1 \in 1 .. BufSize /\ ~ (m <= m - 1) BY <1>0, <1>5
  <2>2. ~ (u < p[m - 1]) BY <1>4, <2>1
  <2>3. p[m - 1] \in Nat BY <1>0, <1>2, <2>1
  <2> QED BY <2>2, <2>3
<1>7. \E k \in 1 .. BufSize : u < Powers(b)[k] /\ (k = 1 \/ u >= Powers(b)[k - 1])
  BY <1>1, <1>5, <1>6
<1> QED BY <1>7, Zenon DEF Digits

\* What the loops of vprintf make of a number: q[s] is left after s digits, and the
\* digits come out from the last to the first.
Quotients(q, x) ==
  LET b == Base(x.c)
      t == Text(x)
  IN  /\ Len(t) \in 1 .. BufSize
      /\ q \in [0 .. Len(t) -> Nat] /\ q[0] = Fetched(x)
      /\ \A s \in 0 .. (Len(t) - 1) :
           /\ q[s + 1] = q[s] \div b
           /\ q[s + 1] = 0 <=> s + 1 = Len(t)
           /\ t[Len(t) - s] = Digit(x.c, q[s] % b)

\* The character of a digit is that of the reference.
LEMMA DigitIs ==
  ASSUME NEW c \in {"d", "u", "x"}, NEW d \in 0 .. (Base(c) - 1)
  PROVE  /\ Digit(c, d) = IF d < 10 THEN 48 + d ELSE 87 + d
         /\ Digit(c, d) \in 0 .. 255
<1>1. CASE c = "x"
  <2>1. d \in 0 .. 15 BY <1>1 DEF Base
  <2> QED BY <1>1, <2>1 DEF Digit, hex
<1>2. CASE c # "x"
  <2>1. d \in 0 .. 9 BY <1>2 DEF Base
  <2> QED BY <1>2, <2>1 DEF Digit
<1> QED BY <1>1, <1>2

\* The text of a number, digit by digit, is what the loops compute.
LEMMA NumberText ==
  ASSUME NEW x, IsDirective(x), x.c \in {"d", "u", "x"}
  PROVE  Text(x) \in Seq(0 .. 255) /\ \E q : Quotients(q, x)
<1>0. BufSize \in Nat \ {0} /\ UInt \in Nat \ {0} BY ConsoleAssumption
<1>1. PICK b \in Nat \ {0} : b = Base(x.c) /\ b \in {10, 16} BY DEF Base
<1>2. x.arg \in Nat /\ x.arg < Powers(b)[BufSize] BY <1>1 DEF IsDirective
<1>3. PICK u \in Nat : u = Fetched(x) /\ u <= x.arg
  <2>1. x.arg % UInt \in Nat /\ x.arg % UInt <= x.arg BY <1>0, <1>2
  <2> QED BY <1>2, <2>1 DEF Fetched
<1>4. PICK p : p = Powers(b) OBVIOUS
<1>5. /\ p[0] = 1
      /\ \A m \in 1 .. BufSize : p[m] = p[m - 1] * b
      /\ \A m \in 0 .. BufSize : p[m] \in Nat \ {0}
  BY <1>4, PowersAre
<1>6. u < p[BufSize]
  <2>1. BufSize \in 0 .. BufSize BY <1>0
  <2>2. p[BufSize] \in Nat BY <1>5, <2>1
  <2> QED BY <1>2, <1>3, <1>4, <2>2
<1>7. PICK n \in 1 .. BufSize : n = Digits(u, b) /\ u < p[n] /\ (n = 1 \/ u >= p[n - 1])
  BY <1>4, <1>6, DigitsAre
<1> DEFINE Char(d) == IF d < 10 THEN 48 + d ELSE 87 + d
<1>8. Text(x) = [j \in 1 .. n |-> Char((u \div p[n - j]) % b)]
  <2>1. Text(x) = Numeral(u, b)
    <3>1. u = IF x.l = 0 THEN x.arg % UInt ELSE x.arg BY <1>3 DEF Fetched, IsDirective
    <3> QED BY <1>1, <3>1 DEF Text, Base
  <2> QED BY <1>4, <1>7, <2>1 DEF Numeral
<1>9. PICK q : q = [s \in 0 .. n |-> u \div p[s]] OBVIOUS
<1>10. ASSUME NEW s \in 0 .. n PROVE q[s] \in Nat /\ (q[s] = 0 <=> u < p[s])
  <2>1. s \in 0 .. BufSize BY <1>0
  <2>2. PICK r \in Nat \ {0} : r = p[s] BY <1>5, <2>1
  <2>3. u \div r \in Nat /\ (u \div r = 0 <=> u < r) OBVIOUS
  <2> QED BY <1>9, <2>2, <2>3
<1>11. ASSUME NEW s \in 0 .. n PROVE q[s] % b \in 0 .. (b - 1)
  <2>1. PICK r \in Nat : r = q[s] BY <1>10
  <2>2. r % b \in 0 .. (b - 1) BY <1>1
  <2> QED BY <2>1, <2>2
<1>12. PICK t : t = Text(x) OBVIOUS
<1>13. \A j \in 1 .. n : t[j] = Digit(x.c, q[n - j] % b) /\ t[j] \in 0 .. 255
  <2> SUFFICES ASSUME NEW j \in 1 .. n PROVE t[j] = Digit(x.c, q[n - j] % b) /\ t[j] \in 0 .. 255
    OBVIOUS
  <2>1. n - j \in 0 .. n BY <1>0
  <2>2. PICK d \in 0 .. (Base(x.c) - 1) : d = q[n - j] % b BY <1>1, <1>11, <2>1
  <2>3. t[j] = Char(d) BY <1>8, <1>9, <1>12, <2>1, <2>2
  <2> QED BY <2>2, <2>3, DigitIs
<1>14. t \in Seq(0 .. 255) /\ Len(t) = n
  <2>1. t = [j \in 1 .. n |-> t[j]] BY <1>8, <1>12
  <2>2. n \in Nat BY <1>0
  <2>3. t \in [1 .. n -> 0 .. 255] BY <1>13, <2>1
  <2> QED BY <2>2, <2>3
<1>15. ASSUME NEW s \in 0 .. (n - 1) PROVE q[s + 1] = q[s] \div b
  <2>1. s + 1 \in 1 .. BufSize /\ s \in 0 .. n /\ s + 1 \in 0 .. n /\ s \in 0 .. BufSize BY <1>0
  <2>2. PICK r \in Nat \ {0} : r = p[s] BY <1>5, <2>1
  <2>3. p[s + 1] = r * b
    <3>1. p[s + 1] = p[(s + 1) - 1] * b BY <1>5, <2>1
    <3>2. (s + 1) - 1 = s BY <2>1
    <3> QED BY <2>2, <3>1, <3>2
  <2>4. (u \div r) \div b = u \div (r * b) BY <1>1, <2>2
  <2>5. q[s] = u \div r /\ q[s + 1] = u \div (r * b) BY <1>9, <2>1, <2>2, <2>3
  <2> QED BY <2>4, <2>5
<1>16. ASSUME NEW s \in 0 .. (n - 1) PROVE q[s + 1] = 0 <=> s + 1 = n
  <2>1. s + 1 \in 0 .. n /\ n - 1 \in 0 .. BufSize /\ s + 1 \in 0 .. BufSize BY <1>0
  <2>2. CASE s + 1 = n BY <1>7, <1>10, <2>1, <2>2
  <2>3. CASE s + 1 # n
    <3>1. s + 1 <= n - 1 /\ n # 1 BY <1>0, <2>3
    <3>2. p[s + 1] <= p[n - 1] BY <1>4, <2>1, <3>1, PowersGrow
    <3>3. u >= p[n - 1] /\ p[s + 1] \in Nat /\ p[n - 1] \in Nat BY <1>5, <1>7, <2>1, <3>1
    <3>4. ~ (u < p[s + 1]) BY <3>2, <3>3
    <3> QED BY <1>10, <2>1, <2>3, <3>4
  <2> QED BY <2>2, <2>3
<1>17. ASSUME NEW s \in 0 .. (n - 1) PROVE t[n - s] = Digit(x.c, q[s] % b)
  <2>1. n - s \in 1 .. n /\ n - (n - s) = s BY <1>0
  <2> QED BY <1>13, <2>1
<1>18. p[0] = 1 /\ q[0] = u
  <2>1. 0 \in 0 .. n /\ u \div 1 = u BY <1>0, <1>3
  <2> QED BY <1>5, <1>9, <2>1
<1>19. q \in [0 .. n -> Nat]
  <2>1. q = [s \in 0 .. n |-> q[s]] BY <1>9
  <2> QED BY <1>10, <2>1
<1>20. Quotients(q, x)
  BY <1>1, <1>3, <1>12, <1>14, <1>15, <1>16, <1>17, <1>18, <1>19 DEF Quotients
<1> QED BY <1>12, <1>14, <1>20

\* Every directive's text is a sequence of bytes.
LEMMA TextBytes ==
  ASSUME NEW x, IsDirective(x)
  PROVE  Text(x) \in Seq(0 .. 255)
<1>1. CASE x.c \in {"d", "u", "x"} BY <1>1, NumberText
<1>2. CASE x.c \in {"lit", "c"}
  <2>0. x.arg \in Nat BY <1>2 DEF IsDirective
  <2>1. x.arg % 256 \in 0 .. 255 BY <2>0
  <2>2. Text(x) = <<x.arg % 256>> BY <1>2 DEF Text
  <2> QED BY <2>1, <2>2
<1>3. CASE x.c = "s"
  <2>1. Text(x) = x.arg /\ x.arg \in Seq(1 .. 255) BY <1>3 DEF Text, IsDirective
  <2> QED BY <2>1, SeqMonotonic
<1>4. CASE x.c = "?"
  <2>1. Text(x) = << >> BY <1>4 DEF Text
  <2> QED BY <2>1, EmptySeq
<1> QED BY <1>1, <1>2, <1>3, <1>4 DEF IsDirective

-----------------------------------------------------------------------------
(* Texts one after the other.                                              *)

\* The equation of FlattenSeq's local function, up to n.
IsFlatten(f, ss, n) ==
  f = [i \in 1 .. n |-> IF i = 1 THEN ss[i] ELSE f[i - 1] \o ss[i]]

\* The equation has a solution.
LEMMA FlattenExists ==
  ASSUME NEW ss, NEW n \in Nat
  PROVE  \E f : IsFlatten(f, ss, n)
<1> DEFINE T == {m \in Nat : ~ \E f : IsFlatten(f, ss, m)}
<1> SUFFICES ASSUME T # {} PROVE FALSE OBVIOUS
<1>1. PICK m \in T : \A k \in T : m <= k
  <2>1. T \in SUBSET Nat OBVIOUS
  <2> HIDE DEF T
  <2> QED BY <2>1, NatLeast
<1>2. m \in Nat /\ ~ \E f : IsFlatten(f, ss, m) OBVIOUS
<1>3. PICK f : m # 0 => IsFlatten(f, ss, m - 1)
  <2>1. CASE m = 0 BY <2>1
  <2>2. CASE m # 0
    <3>1. m - 1 \in Nat /\ ~ (m <= m - 1) BY <1>2, <2>2
    <3>2. m - 1 \notin T BY <1>1, <3>1
    <3> QED BY <3>1, <3>2
  <2> QED BY <2>1, <2>2
<1> DEFINE g == [i \in 1 .. m |-> IF i = 1 THEN ss[i] ELSE IF i = m THEN f[m - 1] \o ss[m] ELSE f[i]]
<1>4. ASSUME NEW i \in 1 .. m PROVE g[i] = IF i = 1 THEN ss[i] ELSE g[i - 1] \o ss[i]
  <2>1. CASE i = 1 BY <2>1
  <2>2. CASE i # 1
    <3>1. i - 1 \in 1 .. m /\ i - 1 # m /\ i - 1 \in 1 .. (m - 1) /\ m # 0 BY <1>2, <2>2
    <3>2. \A k \in 1 .. (m - 1) : f[k] = IF k = 1 THEN ss[k] ELSE f[k - 1] \o ss[k]
      BY <1>3, <3>1, Zenon DEF IsFlatten
    <3>3. g[i - 1] = f[i - 1]
      <4>1. CASE i - 1 = 1 BY <3>1, <3>2, <4>1
      <4>2. CASE i - 1 # 1 BY <3>1, <4>2
      <4> QED BY <4>1, <4>2
    <3>4. CASE i = m
      <4>1. g[i] = f[m - 1] \o ss[m] BY <2>2, <3>4
      <4> QED BY <2>2, <3>3, <3>4, <4>1
    <3>5. CASE i # m
      <4>1. g[i] = f[i] /\ i \in 1 .. (m - 1) BY <1>2, <2>2, <3>5
      <4>2. f[i] = f[i - 1] \o ss[i] BY <2>2, <3>2, <4>1
      <4> QED BY <2>2, <3>3, <4>1, <4>2
    <3> QED BY <3>4, <3>5
  <2> QED BY <2>1, <2>2
<1>5. g = [i \in 1 .. m |-> g[i]] OBVIOUS
<1> HIDE DEF g
<1>6. IsFlatten(g, ss, m) BY <1>4, <1>5 DEF IsFlatten
<1> QED BY <1>2, <1>6

\* Where each of the sequences ss begins in flat: after st[i] elements.
Offsets(st, ss, flat) ==
  /\ st \in [1 .. (Len(ss) + 1) -> Nat] /\ st[1] = 0 /\ st[Len(ss) + 1] = Len(flat)
  /\ \A i \in 1 .. Len(ss) :
       /\ st[i + 1] = st[i] + Len(ss[i]) /\ st[i + 1] <= Len(flat)
       /\ \A j \in 1 .. Len(ss[i]) : flat[st[i] + j] = ss[i][j]

\* The first elements of t are s.
Begins(s, t) == Len(s) <= Len(t) /\ \A j \in 1 .. Len(s) : t[j] = s[j]

\* A concatenation, element by element.
LEMMA Concatenated ==
  ASSUME NEW S, NEW s \in Seq(S), NEW t \in Seq(S)
  PROVE  /\ s \o t \in Seq(S) /\ Len(s \o t) = Len(s) + Len(t)
         /\ Begins(s, s \o t)
         /\ \A j \in 1 .. Len(t) : (s \o t)[Len(s) + j] = t[j]
<1>1. PICK c : c = s \o t OBVIOUS
<1>2. /\ c \in Seq(S) /\ Len(c) = Len(s) + Len(t)
      /\ \A i \in 1 .. Len(s) + Len(t) : c[i] = IF i <= Len(s) THEN s[i] ELSE t[i - Len(s)]
  BY <1>1, ConcatProperties
<1>3. PICK m \in Nat, n \in Nat : m = Len(s) /\ n = Len(t) BY LenProperties
<1>4. Begins(s, c) BY <1>2, <1>3 DEF Begins
<1>5. ASSUME NEW j \in 1 .. Len(t) PROVE c[Len(s) + j] = t[j]
  <2>1. m + j \in 1 .. (m + n) /\ ~ (m + j <= m) /\ m + j - m = j BY <1>3
  <2> QED BY <1>2, <1>3, <2>1
<1> QED BY <1>1, <1>2, <1>4, <1>5

\* FlattenSeq puts the sequences one after the other.
LEMMA Flattened ==
  ASSUME NEW S, NEW ss \in Seq(Seq(S))
  PROVE  FlattenSeq(ss) \in Seq(S) /\ \E st : Offsets(st, ss, FlattenSeq(ss))
<1>0. PICK n \in Nat : n = Len(ss) /\ ss \in [1 .. n -> Seq(S)] BY LenProperties
<1>1. CASE n = 0
  <2>1. ss = << >> /\ FlattenSeq(ss) = << >> BY <1>0, <1>1 DEF FlattenSeq
  <2>2. << >> \in Seq(S) /\ Len(<< >>) = 0 BY EmptySeq
  <2>3. [i \in 1 .. 1 |-> 0] \in [1 .. (Len(<< >>) + 1) -> Nat] BY <2>2
  <2>4. Offsets([i \in 1 .. 1 |-> 0], << >>, << >>) BY <2>2, <2>3 DEF Offsets
  <2> QED BY <2>1, <2>2, <2>4
<1>2. CASE n # 0
  <2>1. PICK f : IsFlatten(f, ss, n) /\ FlattenSeq(ss) = f[n]
    <3>1. PICK g : IsFlatten(g, ss, n) BY FlattenExists
    <3>2. IsFlatten(CHOOSE h : IsFlatten(h, ss, n), ss, n) BY <3>1, Zenon
    <3>3. FlattenSeq(ss) = (CHOOSE h : IsFlatten(h, ss, n))[n]
      BY <1>0, <1>2, Zenon DEF FlattenSeq, IsFlatten
    <3> QED BY <3>2, <3>3
  <2>2. f[1] = ss[1] /\ \A i \in 2 .. n : f[i] = f[i - 1] \o ss[i]
    <3>1. \A i \in 1 .. n : f[i] = IF i = 1 THEN ss[i] ELSE f[i - 1] \o ss[i]
      BY <2>1, Zenon DEF IsFlatten
    <3>2. 1 \in 1 .. n /\ \A i \in 2 .. n : i \in 1 .. n /\ i # 1 BY <1>2
    <3> QED BY <3>1, <3>2
  <2>3. \A i \in 1 .. n : f[i] \in Seq(S)
    <3> DEFINE T == {i \in 1 .. n : f[i] \notin Seq(S)}
    <3> SUFFICES ASSUME T # {} PROVE FALSE OBVIOUS
    <3>1. PICK m \in T : \A k \in T : m <= k
      <4>1. T \in SUBSET Nat OBVIOUS
      <4> HIDE DEF T
      <4> QED BY <4>1, NatLeast
    <3>2. m \in 1 .. n /\ f[m] \notin Seq(S) OBVIOUS
    <3>3. ss[m] \in Seq(S) BY <1>0, <3>2
    <3>4. m # 1 BY <2>2, <3>2, <3>3
    <3>5. m - 1 \in 1 .. n /\ ~ (m <= m - 1) /\ m \in 2 .. n BY <3>2, <3>4
    <3>6. f[m - 1] \in Seq(S) BY <3>1, <3>5
    <3>7. f[m] = f[m - 1] \o ss[m] BY <2>2, <3>5
    <3> QED BY <3>2, <3>3, <3>6, <3>7, ConcatProperties
  <2>4. \A i \in 2 .. n :
          /\ Len(f[i]) = Len(f[i - 1]) + Len(ss[i]) /\ Begins(f[i - 1], f[i])
          /\ \A j \in 1 .. Len(ss[i]) : f[i][Len(f[i - 1]) + j] = ss[i][j]
    <3> SUFFICES ASSUME NEW i \in 2 .. n
                 PROVE  /\ Len(f[i]) = Len(f[i - 1]) + Len(ss[i]) /\ Begins(f[i - 1], f[i])
                        /\ \A j \in 1 .. Len(ss[i]) : f[i][Len(f[i - 1]) + j] = ss[i][j]
      OBVIOUS
    <3>1. i - 1 \in 1 .. n /\ i \in 1 .. n OBVIOUS
    <3>2. PICK s \in Seq(S), t \in Seq(S) : s = f[i - 1] /\ t = ss[i] BY <1>0, <2>3, <3>1
    <3>3. f[i] = s \o t BY <2>2, <3>2
    <3>4. /\ Len(s \o t) = Len(s) + Len(t) /\ Begins(s, s \o t)
          /\ \A j \in 1 .. Len(t) : (s \o t)[Len(s) + j] = t[j]
      BY Concatenated
    <3> QED BY <3>2, <3>3, <3>4
  <2>5. \A i \in 1 .. n : Begins(f[i], f[n])
    <3> SUFFICES ASSUME NEW i \in 1 .. n PROVE Begins(f[i], f[n]) OBVIOUS
    <3> DEFINE T == {m \in i .. n : ~ Begins(f[i], f[m])}
    <3> SUFFICES ASSUME T # {} PROVE FALSE
      <4>1. n \in i .. n OBVIOUS
      <4> QED BY <4>1
    <3>1. PICK m \in T : \A k \in T : m <= k
      <4>1. T \in SUBSET Nat OBVIOUS
      <4> HIDE DEF T
      <4> QED BY <4>1, NatLeast
    <3>2. m \in i .. n /\ ~ Begins(f[i], f[m]) OBVIOUS
    <3>3. PICK s \in Seq(S), t \in Seq(S) : s = f[i] /\ t = f[m]
      <4>1. m \in 1 .. n BY <3>2
      <4> QED BY <2>3, <4>1
    <3>4. Len(s) \in Nat /\ Len(t) \in Nat OBVIOUS
    <3>5. m # i
      <4>1. Begins(s, s) BY <3>4 DEF Begins
      <4> QED BY <3>2, <3>3, <4>1
    <3>6. m - 1 \in i .. n /\ ~ (m <= m - 1) /\ m \in 2 .. n /\ m - 1 \in 1 .. n BY <3>2, <3>5
    <3>7. PICK r \in Seq(S) : r = f[m - 1] BY <2>3, <3>6
    <3>8. Len(r) \in Nat OBVIOUS
    <3>9. Begins(s, r) BY <3>1, <3>3, <3>6, <3>7
    <3>10. Begins(r, t) BY <2>4, <3>3, <3>6, <3>7
    <3>11. Begins(s, t)
      <4>1. Len(s) <= Len(r) /\ Len(r) <= Len(t) BY <3>9, <3>10 DEF Begins
      <4>2. ASSUME NEW j \in 1 .. Len(s) PROVE t[j] = s[j]
        <5>1. r[j] = s[j] BY <3>9 DEF Begins
        <5>2. j \in 1 .. Len(r) BY <3>4, <3>8, <4>1
        <5>3. t[j] = r[j] BY <3>10, <5>2 DEF Begins
        <5> QED BY <5>1, <5>3
      <4>3. Len(s) <= Len(t) BY <3>4, <3>8, <4>1
      <4> QED BY <4>2, <4>3 DEF Begins
    <3> QED BY <3>2, <3>3, <3>11
  <2>6. PICK flat \in Seq(S) : flat = f[n] /\ flat = FlattenSeq(ss)
    <3>1. n \in 1 .. n BY <1>2
    <3> QED BY <2>1, <2>3, <3>1
  <2> DEFINE st == [i \in 1 .. (n + 1) |-> IF i = 1 THEN 0 ELSE Len(f[i - 1])]
  <2>7. st \in [1 .. (n + 1) -> Nat]
    <3>1. ASSUME NEW i \in 1 .. (n + 1), i # 1 PROVE Len(f[i - 1]) \in Nat
      <4>1. i - 1 \in 1 .. n BY <3>1
      <4> QED BY <2>3, <4>1
    <3> QED BY <3>1
  <2>8. st[1] = 0 /\ st[n + 1] = Len(flat)
    <3>1. n + 1 \in 1 .. (n + 1) /\ 1 \in 1 .. (n + 1) /\ n + 1 # 1 /\ (n + 1) - 1 = n BY <1>2
    <3>2. st[n + 1] = Len(f[(n + 1) - 1]) BY <3>1
    <3> QED BY <2>6, <3>1, <3>2
  <2>9. ASSUME NEW i \in 1 .. n
        PROVE  /\ st[i + 1] = st[i] + Len(ss[i]) /\ st[i + 1] <= Len(flat)
               /\ \A j \in 1 .. Len(ss[i]) : flat[st[i] + j] = ss[i][j]
    <3>0. PICK a \in Seq(S), t \in Seq(S) : a = ss[i] /\ t = f[i] BY <1>0, <2>3
    <3>1. i \in 1 .. (n + 1) /\ i + 1 \in 1 .. (n + 1) /\ i + 1 # 1 /\ (i + 1) - 1 = i OBVIOUS
    <3>2. st[i + 1] = Len(t)
      <4>1. st[i + 1] = Len(f[(i + 1) - 1]) BY <3>1
      <4> QED BY <3>0, <3>1, <4>1
    <3>3. Begins(t, flat) BY <2>5, <2>6, <3>0
    <3>4. Len(t) = st[i] + Len(a) /\ \A j \in 1 .. Len(a) : t[st[i] + j] = a[j]
      <4>0. Len(a) \in Nat OBVIOUS
      <4>1. CASE i = 1
        <5>1. t = a /\ st[i] = 0 BY <2>2, <2>8, <3>0, <4>1
        <5> QED BY <4>0, <5>1
      <4>2. CASE i # 1
        <5>1. i \in 2 .. n BY <4>2
        <5>2. st[i] = Len(f[i - 1]) BY <3>1, <4>2
        <5> HIDE DEF st
        <5> QED BY <2>4, <3>0, <5>1, <5>2
      <4> QED BY <4>1, <4>2
    <3>5. st[i] \in Nat BY <2>7, <3>1
    <3>6. PICK z \in Nat, l \in Nat, L \in Nat : z = st[i] /\ l = Len(a) /\ L = Len(t)
      BY <3>5, <3>0, LenProperties
    <3>7. ASSUME NEW j \in 1 .. Len(a) PROVE flat[st[i] + j] = a[j]
      <4>1. z + j \in 1 .. L BY <3>4, <3>6
      <4>2. flat[z + j] = t[z + j] BY <3>3, <3>6, <4>1 DEF Begins
      <4> HIDE DEF st
      <4> QED BY <3>4, <3>6, <4>2
    <3> HIDE DEF st
    <3> QED BY <3>0, <3>2, <3>3, <3>4, <3>7 DEF Begins
  <2> HIDE DEF st
  <2>10. Offsets(st, ss, flat) BY <1>0, <2>7, <2>8, <2>9 DEF Offsets
  <2> QED BY <2>6, <2>10
<1> QED BY <1>1, <1>2

\* A layout says how many bytes come before directive k of call c.
CallLayout(pos, who, c) ==
  \A k \in 1 .. Len(Calls[who][c]) :
    LET t == Text(Calls[who][c][k])
    IN  /\ pos[k] \in Nat /\ pos[k + 1] = pos[k] + Len(t)
        /\ \A j \in 1 .. Len(t) : /\ pos[k] + j \in 1 .. Len(Messages(who))
                                  /\ Messages(who)[pos[k] + j] = t[j]

Layout(pos, who) ==
  LET n == Len(Calls[who])
  IN  /\ pos[1][1] = 0 /\ pos[n][Len(Calls[who][n]) + 1] = Len(Messages(who))
      /\ \A c \in 1 .. n : pos[c][1] \in Nat /\ CallLayout(pos[c], who, c)
      /\ \A c \in 1 .. (n - 1) : pos[c + 1][1] = pos[c][Len(Calls[who][c]) + 1]

\* What is assumed of the formats, by index.
LEMMA CallsAre ==
  ASSUME NEW who \in Who
  PROVE  /\ Len(Calls[who]) \in Nat \ {0} /\ DOMAIN Calls[who] = 1 .. Len(Calls[who])
         /\ \A c \in 1 .. Len(Calls[who]) :
              /\ Len(Calls[who][c]) \in Nat /\ DOMAIN Calls[who][c] = 1 .. Len(Calls[who][c])
              /\ \A k \in 1 .. Len(Calls[who][c]) : IsDirective(Calls[who][c][k])
<1>1. PICK s : s = Calls[who] OBVIOUS
<1>2. IsSeq(s) /\ s # << >> BY <1>1, ConsoleAssumption
<1>3. \A c \in DOMAIN s : IsSeq(s[c]) /\ \A k \in DOMAIN s[c] : IsDirective(s[c][k])
  BY <1>1, ConsoleAssumption
<1>4. Len(s) \in Nat \ {0} /\ DOMAIN s = 1 .. Len(s)
  <2>1. PICK S : s \in Seq(S) BY <1>2 DEF IsSeq
  <2> QED BY <1>2, <2>1
<1>5. ASSUME NEW c \in 1 .. Len(s)
      PROVE  Len(s[c]) \in Nat /\ DOMAIN s[c] = 1 .. Len(s[c])
  <2>1. PICK t : t = s[c] /\ IsSeq(t) BY <1>3, <1>4
  <2>2. PICK S : t \in Seq(S) BY <2>1 DEF IsSeq
  <2> QED BY <2>1, <2>2
<1> QED BY <1>1, <1>3, <1>4, <1>5

\* The texts of one format.
LEMMA MessageIs ==
  ASSUME NEW who \in Who, NEW c \in 1 .. Len(Calls[who])
  PROVE  LET fmt == Calls[who][c]
         IN  /\ Message(fmt) \in Seq(0 .. 255)
             /\ \E st : Offsets(st, [k \in 1 .. Len(fmt) |-> Text(fmt[k])], Message(fmt))
<1>1. PICK fmt : fmt = Calls[who][c] OBVIOUS
<1>2. /\ Len(fmt) \in Nat /\ DOMAIN fmt = 1 .. Len(fmt)
      /\ \A k \in 1 .. Len(fmt) : IsDirective(fmt[k])
  BY <1>1, CallsAre
<1>3. PICK ss : ss = [k \in 1 .. Len(fmt) |-> Text(fmt[k])] OBVIOUS
<1>4. ss \in Seq(Seq(0 .. 255))
  <2>1. \A k \in 1 .. Len(fmt) : Text(fmt[k]) \in Seq(0 .. 255) BY <1>2, TextBytes
  <2>2. ss \in [1 .. Len(fmt) -> Seq(0 .. 255)] BY <1>3, <2>1
  <2> QED BY <1>2, <2>2
<1>5. Message(fmt) = FlattenSeq(ss) BY <1>2, <1>3 DEF Message
<1>6. FlattenSeq(ss) \in Seq(0 .. 255) /\ \E st : Offsets(st, ss, FlattenSeq(ss)) BY <1>4, Flattened
<1> QED BY <1>1, <1>3, <1>5, <1>6

\* Everything that is printed has a layout.
LEMMA LayoutExists ==
  ASSUME NEW who \in Who
  PROVE  Messages(who) \in Seq(0 .. 255) /\ \E pos : Layout(pos, who)
<1>0. PICK cs : cs = Calls[who] OBVIOUS
<1>1. PICK n \in Nat \ {0} : cs = Calls[who] /\ n = Len(cs) BY <1>0, CallsAre
<1>2. /\ DOMAIN cs = 1 .. n
      /\ \A c \in 1 .. n :
           /\ Len(cs[c]) \in Nat
           /\ \A k \in 1 .. Len(cs[c]) : Text(cs[c][k]) \in Seq(0 .. 255)
  BY <1>1, CallsAre, TextBytes
<1>3. PICK ms : ms = [c \in 1 .. n |-> Message(cs[c])] OBVIOUS
<1>4. ms \in Seq(Seq(0 .. 255)) /\ Len(ms) = n
  <2>1. \A c \in 1 .. n : Message(cs[c]) \in Seq(0 .. 255) BY <1>1, MessageIs
  <2>2. ms \in [1 .. n -> Seq(0 .. 255)] BY <1>3, <2>1
  <2> QED BY <2>2
<1>5. Messages(who) = FlattenSeq(ms) BY <1>1, <1>2, <1>3 DEF Messages
<1>6. PICK text, st : text = Messages(who) /\ text \in Seq(0 .. 255) /\ Offsets(st, ms, text)
  BY <1>4, <1>5, Flattened
<1>7. /\ st \in [1 .. (n + 1) -> Nat] /\ st[1] = 0 /\ st[n + 1] = Len(text)
      /\ \A c \in 1 .. n :
           /\ st[c + 1] = st[c] + Len(ms[c]) /\ st[c + 1] <= Len(text)
           /\ \A j \in 1 .. Len(ms[c]) : text[st[c] + j] = ms[c][j]
  BY <1>4, <1>6 DEF Offsets
<1> DEFINE Texts(c) == [k \in 1 .. Len(cs[c]) |-> Text(cs[c][k])]
           in(c) == CHOOSE o : Offsets(o, Texts(c), ms[c])
<1>8. ASSUME NEW c \in 1 .. n PROVE Offsets(in(c), Texts(c), ms[c])
  <2>1. \E o : Offsets(o, Texts(c), ms[c]) BY <1>1, <1>3, MessageIs
  <2> QED BY <2>1, Zenon
<1>9. ASSUME NEW c \in 1 .. n PROVE Len(Texts(c)) = Len(cs[c]) BY <1>2
<1> HIDE DEF in
<1> DEFINE pos == [c \in 1 .. n |-> [k \in 1 .. (Len(cs[c]) + 1) |-> st[c] + in(c)[k]]]
<1>10. ASSUME NEW c \in 1 .. n
       PROVE  /\ pos[c][1] = st[c] /\ pos[c][Len(cs[c]) + 1] = st[c + 1]
              /\ pos[c][1] \in Nat /\ CallLayout(pos[c], who, c)
  <2>0. PICK o : o = in(c) OBVIOUS
  <2>1. PICK l \in Nat, z \in Nat : o = in(c) /\ l = Len(cs[c]) /\ z = st[c]
    <3>1. c \in 1 .. (n + 1) OBVIOUS
    <3> QED BY <1>2, <1>7, <2>0, <3>1
  <2>2. Offsets(o, Texts(c), ms[c]) /\ Len(Texts(c)) = l BY <1>8, <1>9, <2>1
  <2>3. /\ o \in [1 .. (l + 1) -> Nat] /\ o[1] = 0 /\ o[l + 1] = Len(ms[c])
        /\ \A i \in 1 .. l :
             /\ o[i + 1] = o[i] + Len(Texts(c)[i]) /\ o[i + 1] <= Len(ms[c])
             /\ \A j \in 1 .. Len(Texts(c)[i]) : ms[c][o[i] + j] = Texts(c)[i][j]
    <3> HIDE DEF Texts
    <3> QED BY <2>2 DEF Offsets
  <2>4. PICK p : p = pos[c] OBVIOUS
  <2>5. p = [k \in 1 .. (l + 1) |-> z + o[k]] BY <2>1, <2>4
  <2>6. PICK m \in Seq(0 .. 255), M \in Nat : m = ms[c] /\ M = Len(m)
    <3>1. ms[c] \in Seq(0 .. 255) BY <1>4
    <3> QED BY <3>1
  <2>7. p[1] = z /\ p[l + 1] = st[c + 1]
    <3>1. 1 \in 1 .. (l + 1) /\ l + 1 \in 1 .. (l + 1) OBVIOUS
    <3>2. st[c + 1] = z + M BY <1>7, <2>1, <2>6
    <3> QED BY <2>3, <2>5, <2>6, <3>1, <3>2
  <2>8. PICK N \in Nat : N = Len(text) /\ z + M <= N
    <3>1. Len(text) \in Nat BY <1>6
    <3>2. st[c + 1] = z + M /\ st[c + 1] <= Len(text) BY <1>7, <2>1, <2>6
    <3> QED BY <3>1, <3>2
  <2>9. ASSUME NEW k \in 1 .. l
        PROVE  LET t == Text(cs[c][k])
               IN  /\ p[k] \in Nat /\ p[k + 1] = p[k] + Len(t)
                   /\ \A j \in 1 .. Len(t) : p[k] + j \in 1 .. N /\ text[p[k] + j] = t[j]
    <3>1. PICK t \in Seq(0 .. 255), L \in Nat : t = Text(cs[c][k]) /\ L = Len(t)
      <4>1. Text(cs[c][k]) \in Seq(0 .. 255) BY <1>2, <2>1
      <4> QED BY <4>1
    <3>2. Texts(c)[k] = t BY <2>1, <3>1
    <3> HIDE DEF Texts, pos
    <3>3. k \in 1 .. (l + 1) /\ k + 1 \in 1 .. (l + 1) OBVIOUS
    <3>4. PICK a \in Nat, b \in Nat : a = o[k] /\ b = o[k + 1] BY <2>3, <3>3
    <3>5. b = a + L /\ b <= M /\ \A j \in 1 .. L : m[a + j] = t[j]
      <4>1. /\ o[k + 1] = o[k] + Len(Texts(c)[k]) /\ o[k + 1] <= Len(ms[c])
            /\ \A j \in 1 .. Len(Texts(c)[k]) : ms[c][o[k] + j] = Texts(c)[k][j]
        BY <2>3
      <4> QED BY <2>6, <3>1, <3>2, <3>4, <4>1
    <3>6. p[k] = z + a /\ p[k + 1] = z + b BY <2>5, <3>3, <3>4
    <3>7. ASSUME NEW j \in 1 .. L PROVE p[k] + j \in 1 .. N /\ text[p[k] + j] = t[j]
      <4>0. a + j \in 1 .. M BY <3>5
      <4>1. p[k] + j = z + (a + j) /\ p[k] + j \in 1 .. N BY <2>8, <3>6, <4>0
      <4>2. text[z + (a + j)] = m[a + j] BY <1>7, <2>1, <2>6, <4>0
      <4> QED BY <3>5, <4>1, <4>2
    <3> QED BY <3>1, <3>5, <3>6, <3>7
  <2>10. CallLayout(p, who, c)
    <3> HIDE DEF pos, Texts
    <3> QED BY <1>1, <1>6, <2>1, <2>8, <2>9 DEF CallLayout
  <2> HIDE DEF pos, Texts
  <2> QED BY <2>1, <2>4, <2>7, <2>10
<1> HIDE DEF pos
<1>11. Layout(pos, who)
  <2>1. 1 \in 1 .. n /\ n \in 1 .. n OBVIOUS
  <2>2. pos[1][1] = 0 /\ pos[n][Len(cs[n]) + 1] = Len(text) BY <1>7, <1>10, <2>1
  <2>3. ASSUME NEW c \in 1 .. (n - 1) PROVE pos[c + 1][1] = pos[c][Len(cs[c]) + 1]
    <3>1. c \in 1 .. n /\ c + 1 \in 1 .. n OBVIOUS
    <3> QED BY <1>10, <3>1
  <2> QED BY <1>1, <1>6, <1>10, <2>2, <2>3 DEF Layout
<1> QED BY <1>6, <1>11

\* The layout of what who prints.
Pos(who) == CHOOSE pos : Layout(pos, who)

\* The layout is one.
LEMMA PosIs ==
  ASSUME NEW who \in Who
  PROVE  Layout(Pos(who), who) /\ Messages(who) \in Seq(0 .. 255)
  BY LayoutExists, Zenon DEF Pos

\* What is left of a number after each of its digits.
Quot(x) == CHOOSE q : Quotients(q, x)

\* Numbers have them.
LEMMA QuotIs ==
  ASSUME NEW x, IsDirective(x), x.c \in {"d", "u", "x"}
  PROVE  Quotients(Quot(x), x)
  BY NumberText, Zenon DEF Quot

-----------------------------------------------------------------------------
(* The inductive invariant of the console.                                 *)

Frame ==
  [id : Nat, call : Nat, k : Nat, at : {"fmt", "string", "digits", "number"}, u : Nat, s : Nat,
   byte : Nat, n : Nat, left : Seq(Source), outb : {"no", "red_zone", "gone"}]

Output == [id : Nat, n : Nat, src : Source, byte : Nat]

\* The first s places of buf b hold the last s digits of t.
Stored(b, t, s) == \A j \in 1 .. s : b[j] = t[Len(t) + 1 - j]

\* Inside a conversion whose text t begins after p bytes, f has written the part of
\* it that its locals say, and the buffer holds the digits it is to write.
Within(f, b, x, t, p) ==
  /\ f.at = "string" => x.c = "s" /\ f.s \in 1 .. (Len(t) + 1) /\ f.n = p + f.s - 1
  /\ f.at = "digits" => /\ x.c \in {"d", "u", "x"} /\ f.s \in 0 .. (Len(t) - 1) /\ f.n = p
                        /\ f.u = Quot(x)[f.s] /\ Stored(b, t, f.s)
  /\ f.at = "number" => /\ x.c \in {"d", "u", "x"} /\ f.s \in 0 .. Len(t)
                        /\ f.n = p + Len(t) - f.s /\ Stored(b, t, f.s)

\* An activation has written as many bytes as its place in its formats says.
Placed(f, who, b) ==
  /\ f.call \in 1 .. Len(Calls[who]) /\ f.k \in 1 .. (Len(Calls[who][f.call]) + 1)
  /\ f.at = "fmt" => f.n = Pos(who)[f.call][f.k]
  /\ f.at # "fmt" =>
       /\ f.k # Len(Calls[who][f.call]) + 1
       /\ Within(f, b, Calls[who][f.call][f.k], Text(Calls[who][f.call][f.k]), Pos(who)[f.call][f.k])

\* The byte that is being written is the n-th of the text.
Writing(f, who) ==
  /\ f.outb # "no" => f.left # << >>
  /\ f.left # << >> => f.n \in 1 .. Len(Messages(who)) /\ f.byte = Messages(who)[f.n]

Distinct(s) == \A i, j \in 1 .. Len(s) : s[i] = s[j] => i = j

\* Source src has byte n of activation id, or will never have it.
Passed(id, n, src, o, l) ==
  \/ <<id, n, src>> \in l
  \/ \E k \in 1 .. Len(o) : o[k].id = id /\ o[k].n = n /\ o[k].src = src

\* The bytes up to the n-th are with the sources, but for the n-th and those left.
Sent(f, o, l) ==
  /\ Distinct(f.left)
  /\ \A k \in 1 .. Len(o) :
       o[k].id = f.id => o[k].n <= f.n /\ (o[k].n = f.n => o[k].src \notin ToSet(f.left))
  /\ \A n \in 1 .. f.n, src \in Source :
       n < f.n \/ src \notin ToSet(f.left) => Passed(f.id, n, src, o, l)

\* An activation of who with the buffer b.
Running(f, who, b, o, l) == Placed(f, who, b) /\ Writing(f, who) /\ Sent(f, o, l)

StackInv(st, cl, bf, o, l) ==
  /\ st \in Seq(Frame)
  /\ \A i, j \in 1 .. Len(st) : i < j => st[i].id < st[j].id
  /\ \A i \in 1 .. Len(st) :
       st[i].id \in 1 .. Len(cl) /\ Running(st[i], cl[st[i].id], bf[st[i].id], o, l)

\* What is out is right.
Faithful(o, cl) ==
  \A k \in 1 .. Len(o) :
    /\ o[k].id \in 1 .. Len(cl) /\ o[k].n \in 1 .. Len(Messages(cl[o[k].id]))
    /\ o[k].byte = Messages(cl[o[k].id])[o[k].n]

Ordered(o) ==
  \A j, k \in 1 .. Len(o) :
    j < k /\ o[j].id = o[k].id /\ o[j].src = o[k].src => o[j].n < o[k].n

\* An activation that is not on the stack is complete.
Complete(st, cl, o, l) ==
  \A id \in 1 .. Len(cl) :
    (\A i \in 1 .. Len(st) : st[i].id # id) =>
      \A n \in 1 .. Len(Messages(cl[id])), src \in Source : Passed(id, n, src, o, l)

ConsoleTypeOK ==
  /\ sources \in Seq(Source) /\ Distinct(sources)
  /\ callers \in Seq(Who) /\ Len(callers) <= MaxEvents + 1
  /\ callers # << >> => ToSet(sources) = Source
  /\ buf \in [Id -> [1 .. BufSize -> Nat]]
  /\ out \in Seq(Output)

ConsoleInv ==
  /\ ConsoleTypeOK
  /\ StackInv(stack, callers, buf, out, lost)
  /\ Faithful(out, callers) /\ Ordered(out)
  /\ Complete(stack, callers, out, lost)

-----------------------------------------------------------------------------
(* An activation's own steps.                                              *)

\* Directive x with the text t stands between the bytes p and q of text.
Spelled(x, t, p, q, text) ==
  /\ IsDirective(x) /\ t = Text(x) /\ t \in Seq(0 .. 255) /\ Len(t) \in Nat
  /\ p \in Nat /\ q = p + Len(t)
  /\ \A j \in 1 .. Len(t) : p + j \in 1 .. Len(text) /\ text[p + j] = t[j]

\* Every directive does.
LEMMA SpelledAt ==
  ASSUME NEW who \in Who, NEW c \in 1 .. Len(Calls[who]), NEW k \in 1 .. Len(Calls[who][c])
  PROVE  Spelled(Calls[who][c][k], Text(Calls[who][c][k]), Pos(who)[c][k], Pos(who)[c][k + 1],
                 Messages(who))
<1>1. PICK x, t, p : x = Calls[who][c][k] /\ t = Text(x) /\ p = Pos(who)[c] OBVIOUS
<1>2. IsDirective(x) BY <1>1, CallsAre
<1>3. t \in Seq(0 .. 255) /\ Len(t) \in Nat
  <2>1. t \in Seq(0 .. 255) BY <1>1, <1>2, TextBytes
  <2> QED BY <2>1
<1>4. CallLayout(p, who, c) BY <1>1, PosIs DEF Layout
<1>5. /\ p[k] \in Nat /\ p[k + 1] = p[k] + Len(t)
      /\ \A j \in 1 .. Len(t) : /\ p[k] + j \in 1 .. Len(Messages(who))
                                /\ Messages(who)[p[k] + j] = t[j]
  BY <1>1, <1>4 DEF CallLayout
<1> QED BY <1>1, <1>2, <1>3, <1>5 DEF Spelled

\* Where an activation inside its format is.
LEMMA Here ==
  ASSUME NEW f \in Frame, NEW who \in Who, NEW b, Placed(f, who, b),
         f.k # Len(Calls[who][f.call]) + 1
  PROVE  /\ f.call \in 1 .. Len(Calls[who]) /\ f.k \in 1 .. Len(Calls[who][f.call])
         /\ Len(Calls[who][f.call]) \in Nat
         /\ Spelled(Calls[who][f.call][f.k], Text(Calls[who][f.call][f.k]),
                    Pos(who)[f.call][f.k], Pos(who)[f.call][f.k + 1], Messages(who))
<1>1. f.call \in 1 .. Len(Calls[who]) /\ f.k \in 1 .. (Len(Calls[who][f.call]) + 1) BY DEF Placed
<1>2. Len(Calls[who][f.call]) \in Nat BY <1>1, CallsAre
<1>3. f.k \in 1 .. Len(Calls[who][f.call]) BY <1>1, <1>2
<1> QED BY <1>1, <1>2, <1>3, SpelledAt

\* The next directive begins where this one's text ends.
LEMMA NextPlaced ==
  ASSUME NEW f \in Frame, NEW g \in Frame, NEW who \in Who, NEW b,
         f.call \in 1 .. Len(Calls[who]), f.k \in 1 .. Len(Calls[who][f.call]),
         g.call = f.call, g.k = f.k + 1, g.at = "fmt",
         g.n = Pos(who)[f.call][f.k + 1]
  PROVE  Placed(g, who, b)
<1>1. Len(Calls[who][f.call]) \in Nat BY CallsAre
<1>2. f.k + 1 \in 1 .. (Len(Calls[who][f.call]) + 1) BY <1>1
<1> QED BY <1>2 DEF Placed

\* A literal or a character: one byte.
LEMMA LitStep ==
  ASSUME NEW f \in Frame, NEW g \in Frame, NEW who \in Who, NEW b, Placed(f, who, b),
         f.at = "fmt", f.k # Len(Calls[who][f.call]) + 1,
         Calls[who][f.call][f.k].c \in {"lit", "c"},
         g.call = f.call, g.k = f.k + 1, g.at = "fmt", g.n = f.n + 1,
         g.byte = Calls[who][f.call][f.k].arg % 256
  PROVE  /\ Placed(g, who, b)
         /\ g.n \in 1 .. Len(Messages(who)) /\ g.byte = Messages(who)[g.n]
<1>0. f.call \in 1 .. Len(Calls[who]) /\ f.n = Pos(who)[f.call][f.k] BY DEF Placed
<1>1. /\ f.k \in 1 .. Len(Calls[who][f.call]) /\ Len(Calls[who][f.call]) \in Nat
      /\ Spelled(Calls[who][f.call][f.k], Text(Calls[who][f.call][f.k]),
                 Pos(who)[f.call][f.k], Pos(who)[f.call][f.k + 1], Messages(who))
  BY Here
<1>2. PICK x, t, p, q, text :
        /\ x = Calls[who][f.call][f.k] /\ t = Text(x) /\ p = Pos(who)[f.call][f.k]
        /\ q = Pos(who)[f.call][f.k + 1] /\ text = Messages(who)
  OBVIOUS
<1>3. Spelled(x, t, p, q, text) BY <1>1, <1>2
<1>4. t = <<x.arg % 256>>
  <2>1. t = Text(x) /\ x.c \in {"lit", "c"} BY <1>2
  <2> QED BY <2>1 DEF Text
<1>5. Len(t) = 1 /\ t[1] = x.arg % 256 BY <1>4
<1>6. q = p + 1 /\ p + 1 \in 1 .. Len(text) /\ text[p + 1] = x.arg % 256
  <2>1. 1 \in 1 .. Len(t) BY <1>5
  <2> QED BY <1>3, <1>5, <2>1 DEF Spelled
<1>7. g.n = q BY <1>0, <1>2, <1>6
<1>8. Placed(g, who, b) BY <1>0, <1>1, <1>2, <1>7, NextPlaced
<1> QED BY <1>0, <1>2, <1>6, <1>8

\* A directive that is not known: no byte.
LEMMA SkipStep ==
  ASSUME NEW f \in Frame, NEW g \in Frame, NEW who \in Who, NEW b, Placed(f, who, b),
         f.at = "fmt", f.k # Len(Calls[who][f.call]) + 1, Calls[who][f.call][f.k].c = "?",
         g.call = f.call, g.k = f.k + 1, g.at = "fmt", g.n = f.n
  PROVE  Placed(g, who, b)
<1>0. f.call \in 1 .. Len(Calls[who]) /\ f.n = Pos(who)[f.call][f.k] BY DEF Placed
<1>1. /\ f.k \in 1 .. Len(Calls[who][f.call]) /\ Len(Calls[who][f.call]) \in Nat
      /\ Spelled(Calls[who][f.call][f.k], Text(Calls[who][f.call][f.k]),
                 Pos(who)[f.call][f.k], Pos(who)[f.call][f.k + 1], Messages(who))
  BY Here
<1>2. PICK x, t, p, q, text :
        /\ x = Calls[who][f.call][f.k] /\ t = Text(x) /\ p = Pos(who)[f.call][f.k]
        /\ q = Pos(who)[f.call][f.k + 1] /\ text = Messages(who)
  OBVIOUS
<1>3. Spelled(x, t, p, q, text) BY <1>1, <1>2
<1>4. t = << >>
  <2>1. t = Text(x) /\ x.c = "?" BY <1>2
  <2> QED BY <2>1 DEF Text
<1>5. Len(t) = 0 BY <1>4
<1>6. q = p BY <1>3, <1>5 DEF Spelled
<1> QED BY <1>0, <1>1, <1>2, <1>6, NextPlaced

\* A string or a number is begun.
LEMMA BeginStep ==
  ASSUME NEW f \in Frame, NEW g \in Frame, NEW who \in Who, NEW b, Placed(f, who, b),
         f.at = "fmt", f.k # Len(Calls[who][f.call]) + 1,
         \/ Calls[who][f.call][f.k].c = "s" /\ g.at = "string" /\ g.s = 1
         \/ /\ Calls[who][f.call][f.k].c \in {"d", "u", "x"}
            /\ g.at = "digits" /\ g.s = 0 /\ g.u = Fetched(Calls[who][f.call][f.k]),
         g.call = f.call, g.k = f.k, g.n = f.n
  PROVE  Placed(g, who, b)
<1>0. f.call \in 1 .. Len(Calls[who]) /\ f.n = Pos(who)[f.call][f.k] BY DEF Placed
<1>1. /\ f.k \in 1 .. Len(Calls[who][f.call]) /\ Len(Calls[who][f.call]) \in Nat
      /\ Spelled(Calls[who][f.call][f.k], Text(Calls[who][f.call][f.k]),
                 Pos(who)[f.call][f.k], Pos(who)[f.call][f.k + 1], Messages(who))
  BY Here
<1>2. PICK x, t, p, q, text :
        /\ x = Calls[who][f.call][f.k] /\ t = Text(x) /\ p = Pos(who)[f.call][f.k]
        /\ q = Pos(who)[f.call][f.k + 1] /\ text = Messages(who)
  OBVIOUS
<1>3. Spelled(x, t, p, q, text) BY <1>1, <1>2
<1>4. IsDirective(x) /\ Len(t) \in Nat /\ p \in Nat BY <1>3 DEF Spelled
<1>5. Within(g, b, x, t, p)
  <2>1. CASE x.c = "s" /\ g.at = "string" /\ g.s = 1 BY <1>0, <1>2, <1>4, <2>1 DEF Within
  <2>2. CASE x.c \in {"d", "u", "x"} /\ g.at = "digits" /\ g.s = 0 /\ g.u = Fetched(x)
    <3>1. Quotients(Quot(x), x) BY <1>4, <2>2, QuotIs, Zenon
    <3>2. Quot(x)[0] = Fetched(x) /\ Len(t) \in 1 .. BufSize BY <1>2, <3>1, Zenon DEF Quotients
    <3>3. Stored(b, t, 0) BY DEF Stored
    <3> QED BY <1>0, <1>2, <1>4, <2>2, <3>2, <3>3 DEF Within
  <2> QED BY <1>2, <2>1, <2>2
<1>6. g.at # "fmt" BY <1>2
<1>7. g.k \in 1 .. (Len(Calls[who][g.call]) + 1) /\ g.k # Len(Calls[who][g.call]) + 1 BY <1>1
<1> QED BY <1>0, <1>2, <1>5, <1>6, <1>7 DEF Placed

\* *s++ of a string.
LEMMA StringStep ==
  ASSUME NEW f \in Frame, NEW g \in Frame, NEW who \in Who, NEW b, Placed(f, who, b),
         f.at = "string", f.s <= Len(Calls[who][f.call][f.k].arg),
         g.call = f.call, g.k = f.k, g.at = "string", g.s = f.s + 1, g.n = f.n + 1,
         g.byte = Calls[who][f.call][f.k].arg[f.s] % 256
  PROVE  /\ Placed(g, who, b)
         /\ g.n \in 1 .. Len(Messages(who)) /\ g.byte = Messages(who)[g.n]
<1>0. f.k # Len(Calls[who][f.call]) + 1 BY Zenon DEF Placed
<1>1. /\ f.call \in 1 .. Len(Calls[who])
      /\ f.k \in 1 .. Len(Calls[who][f.call]) /\ Len(Calls[who][f.call]) \in Nat
      /\ Spelled(Calls[who][f.call][f.k], Text(Calls[who][f.call][f.k]),
                 Pos(who)[f.call][f.k], Pos(who)[f.call][f.k + 1], Messages(who))
  BY <1>0, Here
<1>2. PICK x, t, p, q, text :
        /\ x = Calls[who][f.call][f.k] /\ t = Text(x) /\ p = Pos(who)[f.call][f.k]
        /\ q = Pos(who)[f.call][f.k + 1] /\ text = Messages(who)
  OBVIOUS
<1>3. Spelled(x, t, p, q, text) BY <1>1, <1>2
<1>4. x.c = "s" /\ f.s \in 1 .. (Len(t) + 1) /\ f.n = p + f.s - 1
  BY <1>2 DEF Placed, Within
<1>5. t = x.arg /\ t \in Seq(1 .. 255) /\ Len(t) \in Nat /\ p \in Nat
  <2>1. IsDirective(x) /\ t = Text(x) /\ Len(t) \in Nat /\ p \in Nat BY <1>3 DEF Spelled
  <2>2. Text(x) = x.arg BY <1>4 DEF Text
  <2>3. x.arg \in Seq(1 .. 255) BY <1>4, <2>1 DEF IsDirective
  <2> QED BY <2>1, <2>2, <2>3
<1>6. f.s \in 1 .. Len(t) BY <1>2, <1>4, <1>5
<1>7. t[f.s] % 256 = t[f.s]
  <2>1. PICK i \in 1 .. Len(t) : i = f.s BY <1>6
  <2>2. PICK v \in 1 .. 255 : v = t[i] BY <1>5, ElementOfSeq
  <2>3. v % 256 = v OBVIOUS
  <2> QED BY <2>1, <2>2, <2>3
<1>8. p + f.s \in 1 .. Len(text) /\ text[p + f.s] = t[f.s] BY <1>3, <1>6 DEF Spelled
<1>9. g.n = p + f.s /\ g.byte = t[f.s] BY <1>2, <1>4, <1>5, <1>6, <1>7
<1>10. g.s \in 1 .. (Len(t) + 1) /\ g.n = p + g.s - 1 BY <1>5, <1>6, <1>9
<1>11. Within(g, b, x, t, p) BY <1>4, <1>10 DEF Within
<1>12. Placed(g, who, b) BY <1>0, <1>1, <1>2, <1>11 DEF Placed
<1> QED BY <1>2, <1>8, <1>9, <1>12

\* The end of a string, or of a number.
LEMMA EndStep ==
  ASSUME NEW f \in Frame, NEW g \in Frame, NEW who \in Who, NEW b, Placed(f, who, b),
         \/ f.at = "string" /\ ~ (f.s <= Len(Calls[who][f.call][f.k].arg))
         \/ f.at = "number" /\ ~ (f.s > 0),
         g.call = f.call, g.k = f.k + 1, g.at = "fmt", g.n = f.n
  PROVE  Placed(g, who, b)
<1>0. f.k # Len(Calls[who][f.call]) + 1 BY Zenon DEF Placed
<1>1. /\ f.call \in 1 .. Len(Calls[who])
      /\ f.k \in 1 .. Len(Calls[who][f.call]) /\ Len(Calls[who][f.call]) \in Nat
      /\ Spelled(Calls[who][f.call][f.k], Text(Calls[who][f.call][f.k]),
                 Pos(who)[f.call][f.k], Pos(who)[f.call][f.k + 1], Messages(who))
  BY <1>0, Here
<1>2. PICK x, t, p, q, text :
        /\ x = Calls[who][f.call][f.k] /\ t = Text(x) /\ p = Pos(who)[f.call][f.k]
        /\ q = Pos(who)[f.call][f.k + 1] /\ text = Messages(who)
  OBVIOUS
<1>3. Spelled(x, t, p, q, text) BY <1>1, <1>2
<1>4. q = p + Len(t) /\ p \in Nat /\ Len(t) \in Nat /\ t = Text(x) BY <1>3 DEF Spelled
<1>5. f.n = q
  <2>1. CASE f.at = "string" /\ ~ (f.s <= Len(x.arg))
    <3>1. x.c = "s" /\ f.s \in 1 .. (Len(t) + 1) /\ f.n = p + f.s - 1
      BY <1>2, <2>1 DEF Placed, Within
    <3>2. t = x.arg BY <1>4, <3>1 DEF Text
    <3>3. f.s = Len(t) + 1 BY <1>4, <2>1, <3>1, <3>2
    <3> QED BY <1>4, <3>1, <3>3
  <2>2. CASE f.at = "number" /\ ~ (f.s > 0)
    <3>1. f.s \in 0 .. Len(t) /\ f.n = p + Len(t) - f.s BY <1>2, <2>2 DEF Placed, Within
    <3> QED BY <1>4, <2>2, <3>1
  <2> QED BY <1>2, <2>1, <2>2
<1> QED BY <1>1, <1>2, <1>5, NextPlaced

\* What *s++ = digit makes of f and its buffer b: g and d.
Pushes(f, g, b, d, x) ==
  /\ d = [b EXCEPT ![f.s + 1] = Digit(x.c, f.u % Base(x.c))]
  /\ g.u = f.u \div Base(x.c) /\ g.at = IF g.u = 0 THEN "number" ELSE "digits"

\* The buffer has one more digit, and the loop ends with the last.
LEMMA PushStep ==
  ASSUME NEW f \in Frame, NEW g \in Frame, NEW who \in Who,
         NEW b \in [1 .. BufSize -> Nat], NEW d, Placed(f, who, b), f.at = "digits",
         g.call = f.call, g.k = f.k, g.n = f.n, g.s = f.s + 1,
         Pushes(f, g, b, d, Calls[who][f.call][f.k])
  PROVE  Placed(g, who, d) /\ d \in [1 .. BufSize -> Nat]
<1>0. f.k # Len(Calls[who][f.call]) + 1 BY Zenon DEF Placed
<1>1. /\ f.call \in 1 .. Len(Calls[who])
      /\ f.k \in 1 .. Len(Calls[who][f.call]) /\ Len(Calls[who][f.call]) \in Nat
      /\ Spelled(Calls[who][f.call][f.k], Text(Calls[who][f.call][f.k]),
                 Pos(who)[f.call][f.k], Pos(who)[f.call][f.k + 1], Messages(who))
  BY <1>0, Here
<1>2. PICK x, t, p, q, text :
        /\ x = Calls[who][f.call][f.k] /\ t = Text(x) /\ p = Pos(who)[f.call][f.k]
        /\ q = Pos(who)[f.call][f.k + 1] /\ text = Messages(who)
  OBVIOUS
<1>3. Spelled(x, t, p, q, text) BY <1>1, <1>2
<1>4. /\ x.c \in {"d", "u", "x"} /\ f.s \in 0 .. (Len(t) - 1) /\ f.n = p
      /\ f.u = Quot(x)[f.s] /\ Stored(b, t, f.s)
  BY <1>2 DEF Placed, Within
<1>5. IsDirective(x) /\ t \in Seq(0 .. 255) /\ p \in Nat BY <1>3 DEF Spelled
<1>6. Quotients(Quot(x), x) BY <1>4, <1>5, QuotIs, Zenon
<1>7. PICK L \in 1 .. BufSize : L = Len(t) BY <1>2, <1>6, Zenon DEF Quotients
<1>8. PICK s \in 0 .. (L - 1) : s = f.s BY <1>4, <1>7
<1>9. PICK e : e = Digit(x.c, f.u % Base(x.c)) BY Zenon
<1>10. /\ Quot(x)[s + 1] = f.u \div Base(x.c)
       /\ Quot(x)[s + 1] = 0 <=> s + 1 = L
       /\ t[L - s] = e
  <2>1. PICK quot : quot = Quot(x) BY Zenon
  <2>2. \A r \in 0 .. (L - 1) :
          /\ quot[r + 1] = quot[r] \div Base(x.c)
          /\ quot[r + 1] = 0 <=> r + 1 = L
          /\ t[L - r] = Digit(x.c, quot[r] % Base(x.c))
    BY <1>2, <1>6, <1>7, <2>1, Zenon DEF Quotients
  <2>3. f.u = quot[s] BY <1>4, <1>8, <2>1, Zenon
  <2> QED BY <1>9, <2>1, <2>2, <2>3, Zenon
<1>11. BufSize \in Nat /\ s + 1 \in 1 .. L /\ s + 1 \in 1 .. BufSize /\ L - s \in 1 .. L
  BY ConsoleAssumption
<1>12. /\ d = [b EXCEPT ![s + 1] = e] /\ g.u = f.u \div Base(x.c)
       /\ g.at = IF g.u = 0 THEN "number" ELSE "digits"
  BY <1>2, <1>8, <1>9, Zenon DEF Pushes
<1>13. e \in Nat
  <2>1. PICK i \in 1 .. Len(t) : i = L - s BY <1>7, <1>11
  <2>2. PICK v \in 0 .. 255 : v = t[i] BY <1>5, ElementOfSeq
  <2>3. v \in Nat OBVIOUS
  <2> QED BY <1>10, <2>1, <2>2, <2>3
<1>14. d \in [1 .. BufSize -> Nat] BY <1>11, <1>12, <1>13
<1>15. Stored(d, t, s + 1)
  <2> SUFFICES ASSUME NEW j \in 1 .. (s + 1) PROVE d[j] = t[Len(t) + 1 - j] BY DEF Stored
  <2>1. j \in 1 .. BufSize BY <1>11
  <2>2. CASE j = s + 1
    <3>1. L + 1 - j = L - s BY <1>11, <2>2
    <3> QED BY <1>7, <1>10, <1>11, <1>12, <2>2, <3>1
  <2>3. CASE j # s + 1
    <3>1. j \in 1 .. s BY <2>3
    <3>2. b[j] = t[Len(t) + 1 - j] BY <1>4, <1>8, <3>1 DEF Stored
    <3> QED BY <1>12, <2>1, <2>3, <3>2
  <2> QED BY <2>2, <2>3
<1>16. g.s = s + 1 /\ g.n = p /\ g.u = Quot(x)[s + 1] BY <1>4, <1>8, <1>10, <1>12
<1>17. Within(g, d, x, t, p)
  <2>1. CASE g.u = 0
    <3>1. g.at = "number" /\ s + 1 = L BY <1>10, <1>12, <1>16, <2>1
    <3>2. g.s \in 0 .. Len(t) /\ g.n = p + Len(t) - g.s BY <1>5, <1>7, <1>11, <1>16, <3>1
    <3> QED BY <1>4, <1>15, <1>16, <3>1, <3>2 DEF Within
  <2>2. CASE g.u # 0
    <3>1. g.at = "digits" /\ s + 1 # L BY <1>10, <1>12, <1>16, <2>2
    <3>2. g.s \in 0 .. (Len(t) - 1) BY <1>7, <1>11, <1>16, <3>1
    <3> QED BY <1>4, <1>15, <1>16, <3>1, <3>2 DEF Within
  <2> QED BY <2>1, <2>2
<1>18. g.at # "fmt" BY <1>12
<1> QED BY <1>0, <1>1, <1>2, <1>14, <1>17, <1>18 DEF Placed

\* while (--s >= buf) WriteByte( *s): the digits come out in the right order.
LEMMA PopStep ==
  ASSUME NEW f \in Frame, NEW g \in Frame, NEW who \in Who, NEW b, Placed(f, who, b),
         f.at = "number", f.s > 0,
         g.call = f.call, g.k = f.k, g.at = "number", g.s = f.s - 1, g.n = f.n + 1,
         g.byte = b[f.s] % 256
  PROVE  /\ Placed(g, who, b)
         /\ g.n \in 1 .. Len(Messages(who)) /\ g.byte = Messages(who)[g.n]
<1>0. f.k # Len(Calls[who][f.call]) + 1 BY Zenon DEF Placed
<1>1. /\ f.call \in 1 .. Len(Calls[who])
      /\ f.k \in 1 .. Len(Calls[who][f.call]) /\ Len(Calls[who][f.call]) \in Nat
      /\ Spelled(Calls[who][f.call][f.k], Text(Calls[who][f.call][f.k]),
                 Pos(who)[f.call][f.k], Pos(who)[f.call][f.k + 1], Messages(who))
  BY <1>0, Here
<1>2. PICK x, t, p, q, text :
        /\ x = Calls[who][f.call][f.k] /\ t = Text(x) /\ p = Pos(who)[f.call][f.k]
        /\ q = Pos(who)[f.call][f.k + 1] /\ text = Messages(who)
  OBVIOUS
<1>3. Spelled(x, t, p, q, text) BY <1>1, <1>2
<1>4. /\ x.c \in {"d", "u", "x"} /\ f.s \in 0 .. Len(t)
      /\ f.n = p + Len(t) - f.s /\ Stored(b, t, f.s)
  BY <1>2 DEF Placed, Within
<1>5. t \in Seq(0 .. 255) /\ p \in Nat BY <1>3 DEF Spelled
<1>6. PICK L \in Nat : L = Len(t) BY <1>5
<1>7. PICK s \in 1 .. L : s = f.s BY <1>4, <1>6
<1>8. L + 1 - s \in 1 .. L OBVIOUS
<1>9. b[s] = t[L + 1 - s]
  <2>1. s \in 1 .. s OBVIOUS
  <2> QED BY <1>4, <1>6, <1>7, <2>1 DEF Stored
<1>10. t[L + 1 - s] % 256 = t[L + 1 - s]
  <2>1. PICK i \in 1 .. Len(t) : i = L + 1 - s BY <1>6, <1>8
  <2>2. PICK v \in 0 .. 255 : v = t[i] BY <1>5, ElementOfSeq
  <2>3. v % 256 = v OBVIOUS
  <2> QED BY <2>1, <2>2, <2>3
<1>11. p + (L + 1 - s) \in 1 .. Len(text) /\ text[p + (L + 1 - s)] = t[L + 1 - s]
  BY <1>3, <1>6, <1>8 DEF Spelled
<1>12. g.n = p + (L + 1 - s) BY <1>4, <1>5, <1>6, <1>7
<1>13. g.byte = t[L + 1 - s] BY <1>7, <1>9, <1>10
<1>14. g.s \in 0 .. Len(t) /\ g.n = p + Len(t) - g.s BY <1>5, <1>6, <1>7, <1>12
<1>15. Stored(b, t, g.s)
  <2>1. \A j \in 1 .. g.s : j \in 1 .. f.s BY <1>7
  <2> QED BY <1>4, <2>1 DEF Stored
<1>16. Within(g, b, x, t, p) BY <1>4, <1>14, <1>15 DEF Within
<1>17. Placed(g, who, b) BY <1>0, <1>1, <1>2, <1>16 DEF Placed
<1> QED BY <1>2, <1>11, <1>12, <1>13, <1>17

\* From one kprintf to the next: not a byte in between.
LEMMA CallStep ==
  ASSUME NEW f \in Frame, NEW g \in Frame, NEW who \in Who, NEW b, Placed(f, who, b),
         f.at = "fmt", f.k > Len(Calls[who][f.call]), f.call < Len(Calls[who]),
         g.call = f.call + 1, g.k = 1, g.at = "fmt", g.n = f.n
  PROVE  Placed(g, who, b)
<1>1. /\ f.call \in 1 .. Len(Calls[who]) /\ f.k \in 1 .. (Len(Calls[who][f.call]) + 1)
      /\ f.n = Pos(who)[f.call][f.k]
  BY DEF Placed
<1>2. Len(Calls[who]) \in Nat /\ Len(Calls[who][f.call]) \in Nat BY <1>1, CallsAre
<1>3. f.k = Len(Calls[who][f.call]) + 1 BY <1>1, <1>2
<1>4. f.call \in 1 .. (Len(Calls[who]) - 1) /\ f.call + 1 \in 1 .. Len(Calls[who]) BY <1>1, <1>2
<1>5. PICK pos : pos = Pos(who) /\ Layout(pos, who) BY PosIs
<1>6. pos[f.call + 1][1] = pos[f.call][Len(Calls[who][f.call]) + 1] BY <1>4, <1>5 DEF Layout
<1>7. Len(Calls[who][f.call + 1]) \in Nat BY <1>4, CallsAre
<1>8. 1 \in 1 .. (Len(Calls[who][f.call + 1]) + 1) BY <1>7
<1> QED BY <1>1, <1>3, <1>4, <1>5, <1>6, <1>8 DEF Placed

\* At the end of the last kprintf all bytes are written.
LEMMA LastByte ==
  ASSUME NEW f \in Frame, NEW who \in Who, NEW b, Placed(f, who, b),
         f.at = "fmt", f.k > Len(Calls[who][f.call]), ~ (f.call < Len(Calls[who]))
  PROVE  f.n = Len(Messages(who))
<1>1. /\ f.call \in 1 .. Len(Calls[who]) /\ f.k \in 1 .. (Len(Calls[who][f.call]) + 1)
      /\ f.n = Pos(who)[f.call][f.k]
  BY DEF Placed
<1>2. Len(Calls[who]) \in Nat /\ Len(Calls[who][f.call]) \in Nat BY <1>1, CallsAre
<1>3. f.k = Len(Calls[who][f.call]) + 1 /\ f.call = Len(Calls[who]) BY <1>1, <1>2
<1>4. PICK pos : pos = Pos(who) /\ Layout(pos, who) BY PosIs
<1>5. pos[f.call][f.k] = Len(Messages(who)) BY <1>3, <1>4 DEF Layout
<1> QED BY <1>1, <1>4, <1>5

-----------------------------------------------------------------------------
(* What the sources have got.                                              *)

\* A step that writes nothing.
LEMMA SentSame ==
  ASSUME NEW f \in Frame, NEW g \in Frame, NEW o, NEW l, Sent(f, o, l),
         g.id = f.id, g.n = f.n, g.left = f.left
  PROVE  Sent(g, o, l)
  BY DEF Sent

\* Console::WriteByte begins: all the bytes before have been sent.
LEMMA SentNext ==
  ASSUME NEW f \in Frame, NEW g \in Frame, NEW o \in Seq(Output), NEW l, Sent(f, o, l),
         f.left = << >>, Distinct(g.left), ToSet(g.left) = Source,
         g.id = f.id, g.n = f.n + 1
  PROVE  Sent(g, o, l)
<1>0. f.n \in Nat BY DEF Frame
<1>1. ToSet(<< >>) = {} BY EmptySeq DEF ToSet
<1>2. ASSUME NEW k \in 1 .. Len(o), o[k].id = g.id
      PROVE  o[k].n <= g.n /\ (o[k].n = g.n => o[k].src \notin ToSet(g.left))
  <2>1. o[k].n <= f.n BY <1>2 DEF Sent
  <2>2. o[k].n \in Nat
    <3>1. o[k] \in Output BY ElementOfSeq
    <3> QED BY <3>1 DEF Output
  <2> QED BY <1>0, <2>1, <2>2
<1>3. ASSUME NEW n \in 1 .. g.n, NEW src \in Source, n < g.n \/ src \notin ToSet(g.left)
      PROVE  Passed(g.id, n, src, o, l)
  <2>1. n < g.n BY <1>3
  <2>2. n \in 1 .. f.n BY <1>0, <2>1
  <2>3. src \notin ToSet(f.left) BY <1>1
  <2> QED BY <2>2, <2>3 DEF Sent
<1> QED BY <1>2, <1>3 DEF Sent

\* More is out, or lost, but only of activation id.
More(id, o, l, o2, l2) ==
  /\ \A k \in 1 .. Len(o2) : o2[k].id # id => k \in 1 .. Len(o) /\ o2[k] = o[k]
  /\ \A i, n, src : Passed(i, n, src, o, l) => Passed(i, n, src, o2, l2)

\* Nothing more is a special case.
LEMMA MoreSame == ASSUME NEW id, NEW o, NEW l PROVE More(id, o, l, o, l)
  BY DEF More

\* Another activation's output changes nothing for f.
LEMMA SentOther ==
  ASSUME NEW f \in Frame, NEW id, f.id # id, NEW o, NEW l, NEW o2, NEW l2,
         Sent(f, o, l), More(id, o, l, o2, l2)
  PROVE  Sent(f, o2, l2)
<1>1. ASSUME NEW k \in 1 .. Len(o2), o2[k].id = f.id
      PROVE  o2[k].n <= f.n /\ (o2[k].n = f.n => o2[k].src \notin ToSet(f.left))
  <2>1. k \in 1 .. Len(o) /\ o2[k] = o[k] BY <1>1 DEF More
  <2> QED BY <1>1, <2>1 DEF Sent
<1>2. ASSUME NEW n \in 1 .. f.n, NEW src \in Source, n < f.n \/ src \notin ToSet(f.left)
      PROVE  Passed(f.id, n, src, o2, l2)
  <2>1. Passed(f.id, n, src, o, l) BY <1>2 DEF Sent
  <2> QED BY <2>1 DEF More
<1> QED BY <1>1, <1>2 DEF Sent

\* Beyond o, o2 has at most the byte that f writes, at its next source.
Beyond(f, o, o2) ==
  \A k \in 1 .. Len(o2) :
    \/ k \in 1 .. Len(o) /\ o2[k] = o[k]
    \/ o2[k].n = f.n /\ o2[k].src = Head(f.left)

\* A byte goes out to, or is lost for, the first of the sources left.
LEMMA SentHead ==
  ASSUME NEW f \in Frame, NEW g \in Frame, NEW o \in Seq(Output), NEW l, NEW o2, NEW l2,
         Sent(f, o, l), f.left # << >>, More(f.id, o, l, o2, l2),
         Beyond(f, o, o2),
         f.n # 0 => Passed(f.id, f.n, Head(f.left), o2, l2),
         g.id = f.id, g.n = f.n, g.left = Tail(f.left)
  PROVE  Sent(g, o2, l2)
<1>0. f.n \in Nat /\ f.left \in Seq(Source) BY DEF Frame
<1>1. PICK s \in Seq(Source), m \in Nat \ {0} : s = f.left /\ m = Len(s) BY <1>0, EmptySeq
<1>2. PICK t \in Seq(Source) : t = Tail(s) /\ Len(t) = m - 1 /\ \A i \in 1 .. (m - 1) : t[i] = s[i + 1]
  <2>1. s # << >> BY <1>1
  <2>2. Tail(s) \in Seq(Source) /\ Len(Tail(s)) = Len(s) - 1
        /\ \A i \in 1 .. Len(Tail(s)) : Tail(s)[i] = s[i + 1]
    BY <2>1, HeadTailProperties
  <2> QED BY <1>1, <2>2
<1>3. Head(s) = s[1] BY <1>1
<1>4. \A i, j \in 1 .. m : s[i] = s[j] => i = j BY <1>1 DEF Sent, Distinct
<1>5. Distinct(t)
  <2> SUFFICES ASSUME NEW i \in 1 .. (m - 1), NEW j \in 1 .. (m - 1), t[i] = t[j] PROVE i = j
    BY <1>2 DEF Distinct
  <2>1. i + 1 \in 1 .. m /\ j + 1 \in 1 .. m /\ s[i + 1] = s[j + 1] BY <1>2
  <2>2. i + 1 = j + 1 BY <1>4, <2>1
  <2> QED BY <2>2
<1>6. \A src : src \in ToSet(s) <=> \E i \in 1 .. m : src = s[i] BY <1>1 DEF ToSet
<1>7. \A src : src \in ToSet(t) <=> \E i \in 1 .. (m - 1) : src = t[i]
  <2>1. DOMAIN t = 1 .. (m - 1) BY <1>2
  <2> QED BY <2>1 DEF ToSet
<1>8. s[1] \notin ToSet(t)
  <2> SUFFICES ASSUME NEW i \in 1 .. (m - 1), s[1] = t[i] PROVE FALSE BY <1>7
  <2>1. i + 1 \in 1 .. m /\ 1 \in 1 .. m /\ s[1] = s[i + 1] BY <1>2
  <2>2. 1 = i + 1 BY <1>4, <2>1
  <2> QED BY <2>2
<1>9. ASSUME NEW src, src \in ToSet(t) PROVE src \in ToSet(s)
  <2>1. PICK i \in 1 .. (m - 1) : src = t[i] BY <1>7, <1>9
  <2>2. i + 1 \in 1 .. m /\ src = s[i + 1] BY <1>2, <2>1
  <2> QED BY <1>6, <2>2
<1>10. ASSUME NEW src, src \in ToSet(s), src # s[1] PROVE src \in ToSet(t)
  <2>1. PICK i \in 1 .. m : src = s[i] BY <1>6, <1>10
  <2>2. i # 1 BY <1>10, <2>1
  <2>3. i - 1 \in 1 .. (m - 1) /\ (i - 1) + 1 = i BY <2>2
  <2>4. src = t[i - 1] BY <1>2, <2>1, <2>3
  <2> QED BY <1>7, <2>3, <2>4
<1>11. ASSUME NEW k \in 1 .. Len(o2), o2[k].id = g.id
       PROVE  o2[k].n <= g.n /\ (o2[k].n = g.n => o2[k].src \notin ToSet(g.left))
  <2>1. CASE k \in 1 .. Len(o) /\ o2[k] = o[k]
    <3>1. o2[k].n <= f.n /\ (o2[k].n = f.n => o2[k].src \notin ToSet(s)) BY <1>1, <1>11, <2>1 DEF Sent
    <3> QED BY <1>1, <1>2, <1>9, <3>1
  <2>2. CASE o2[k].n = f.n /\ o2[k].src = Head(f.left)
    <3>1. o2[k].n <= f.n BY <1>0, <2>2
    <3> QED BY <1>1, <1>2, <1>3, <1>8, <2>2, <3>1
  <2> QED BY <2>1, <2>2 DEF Beyond
<1>12. ASSUME NEW n \in 1 .. g.n, NEW src \in Source, n < g.n \/ src \notin ToSet(g.left)
       PROVE  Passed(g.id, n, src, o2, l2)
  <2>0. n \in 1 .. f.n OBVIOUS
  <2>1. CASE n < f.n \/ src \notin ToSet(s)
    <3>1. Passed(f.id, n, src, o, l) BY <1>1, <2>0, <2>1 DEF Sent
    <3> QED BY <3>1 DEF More
  <2>2. CASE ~ (n < f.n) /\ src \in ToSet(s)
    <3>1. n = f.n /\ f.n # 0 BY <1>0, <2>0, <2>2
    <3>2. src \notin ToSet(t) BY <1>1, <1>2, <1>12, <2>2
    <3>3. src = s[1] BY <1>10, <2>2, <3>2
    <3> QED BY <1>1, <1>3, <3>1, <3>3
  <2> QED BY <2>1, <2>2
<1> QED BY <1>1, <1>2, <1>5, <1>11, <1>12 DEF Sent

-----------------------------------------------------------------------------
(* The stack of activations.                                               *)

\* A stack whose top is replaced.
LEMMA TopIs ==
  ASSUME NEW S, NEW st \in Seq(S), st # << >>, NEW g \in S
  PROVE  /\ Len(st) \in Nat \ {0} /\ Last(st) = st[Len(st)] /\ Last(st) \in S
         /\ Front(st) \in Seq(S) /\ Len(Front(st)) = Len(st) - 1
         /\ \A i \in 1 .. (Len(st) - 1) : Front(st)[i] = st[i]
         /\ Append(Front(st), g) \in Seq(S) /\ Len(Append(Front(st), g)) = Len(st)
         /\ Append(Front(st), g)[Len(st)] = g
         /\ \A i \in 1 .. (Len(st) - 1) : Append(Front(st), g)[i] = st[i]
<1>1. PICK n \in Nat \ {0} : n = Len(st) BY EmptySeq
<1>2. st[n] \in S BY <1>1, ElementOfSeq
<1>3. PICK fr : fr = Front(st) OBVIOUS
<1>4. fr \in Seq(S) /\ Len(fr) = n - 1 /\ \A i \in 1 .. (n - 1) : fr[i] = st[i]
  <2>1. fr = SubSeq(st, 1, n - 1) BY <1>1, <1>3 DEF Front
  <2> QED BY <1>1, <2>1
<1>5. PICK ap : ap = Append(fr, g) OBVIOUS
<1>6. ap \in Seq(S) /\ Len(ap) = n /\ ap[n] = g /\ \A i \in 1 .. (n - 1) : ap[i] = fr[i]
  BY <1>4, <1>5
<1> QED BY <1>1, <1>2, <1>3, <1>4, <1>5, <1>6 DEF Last

\* A step of the running activation leaves those it interrupted alone.
LEMMA ReplaceTop ==
  ASSUME NEW st, NEW cl \in Seq(Who), NEW bf, NEW bf2, NEW o, NEW l, NEW o2, NEW l2, NEW g \in Frame,
         StackInv(st, cl, bf, o, l), st # << >>, g.id = Last(st).id,
         \A id \in 1 .. Len(cl) : id # g.id => bf2[id] = bf[id],
         More(g.id, o, l, o2, l2),
         Running(g, cl[g.id], bf2[g.id], o2, l2)
  PROVE  StackInv(Append(Front(st), g), cl, bf2, o2, l2)
<1>1. st \in Seq(Frame) BY DEF StackInv
<1>2. PICK n \in Nat \ {0} : n = Len(st) BY <1>1, EmptySeq
<1>3. PICK s2 : s2 = Append(Front(st), g) OBVIOUS
<1>4. /\ s2 \in Seq(Frame) /\ Len(s2) = n /\ s2[n] = g /\ Last(st) = st[n]
      /\ \A i \in 1 .. (n - 1) : s2[i] = st[i]
  <2>1. /\ Last(st) = st[Len(st)]
        /\ Append(Front(st), g) \in Seq(Frame) /\ Len(Append(Front(st), g)) = Len(st)
        /\ Append(Front(st), g)[Len(st)] = g
        /\ \A i \in 1 .. (Len(st) - 1) : Append(Front(st), g)[i] = st[i]
    BY <1>1, TopIs
  <2> QED BY <1>2, <1>3, <2>1, Zenon
<1>5. /\ \A i, j \in 1 .. n : i < j => st[i].id < st[j].id
      /\ \A i \in 1 .. n : st[i].id \in 1 .. Len(cl) /\ Running(st[i], cl[st[i].id], bf[st[i].id], o, l)
  BY <1>2 DEF StackInv
<1>6. \A i \in 1 .. n : s2[i].id = st[i].id
  <2> SUFFICES ASSUME NEW i \in 1 .. n PROVE s2[i].id = st[i].id OBVIOUS
  <2>1. CASE i = n BY <1>4, <2>1
  <2>2. CASE i # n
    <3>1. i \in 1 .. (n - 1) BY <2>2
    <3> QED BY <1>4, <3>1
  <2> QED BY <2>1, <2>2
<1>7. ASSUME NEW i \in 1 .. n PROVE Running(s2[i], cl[s2[i].id], bf2[s2[i].id], o2, l2)
  <2>1. CASE i = n BY <1>4, <2>1
  <2>2. CASE i # n
    <3>1. i \in 1 .. (n - 1) /\ i < n /\ n \in 1 .. n BY <2>2
    <3>2. PICK f \in Frame : f = st[i] BY <1>1, <1>2, <3>1, ElementOfSeq
    <3>3. s2[i] = f BY <1>4, <3>1, <3>2
    <3>4. f.id < g.id BY <1>4, <1>5, <3>1, <3>2
    <3>5. f.id # g.id
      <4>1. f.id \in Nat /\ g.id \in Nat BY DEF Frame
      <4> QED BY <3>4, <4>1
    <3>6. f.id \in 1 .. Len(cl) /\ Running(f, cl[f.id], bf[f.id], o, l) BY <1>5, <3>2
    <3>7. bf2[f.id] = bf[f.id] BY <3>5, <3>6
    <3>8. Sent(f, o2, l2)
      <4>1. Sent(f, o, l) BY <3>6 DEF Running
      <4> QED BY <3>5, <4>1, SentOther
    <3>9. Placed(f, cl[f.id], bf2[f.id]) /\ Writing(f, cl[f.id]) BY <3>6, <3>7 DEF Running
    <3> QED BY <3>3, <3>8, <3>9 DEF Running
  <2> QED BY <2>1, <2>2
<1>8. StackInv(s2, cl, bf2, o2, l2)
  <2>1. \A i, j \in 1 .. Len(s2) : i < j => s2[i].id < s2[j].id BY <1>4, <1>5, <1>6
  <2>2. \A i \in 1 .. Len(s2) : s2[i].id \in 1 .. Len(cl) BY <1>4, <1>5, <1>6
  <2> QED BY <1>4, <1>7, <2>1, <2>2 DEF StackInv
<1> QED BY <1>3, <1>8

\* Nor is any of them finished by it.
LEMMA ReplaceComplete ==
  ASSUME NEW st, NEW cl, NEW bf, NEW o, NEW l, NEW o2, NEW l2, NEW g \in Frame,
         StackInv(st, cl, bf, o, l), st # << >>, g.id = Last(st).id,
         More(g.id, o, l, o2, l2), Complete(st, cl, o, l)
  PROVE  Complete(Append(Front(st), g), cl, o2, l2)
<1>1. st \in Seq(Frame) BY DEF StackInv
<1>2. PICK n \in Nat \ {0} : n = Len(st) BY <1>1, EmptySeq
<1>3. PICK s2 : s2 = Append(Front(st), g) OBVIOUS
<1>4. /\ s2 \in Seq(Frame) /\ Len(s2) = n /\ s2[n] = g /\ Last(st) = st[n]
      /\ \A i \in 1 .. (n - 1) : s2[i] = st[i]
  <2>1. /\ Last(st) = st[Len(st)]
        /\ Append(Front(st), g) \in Seq(Frame) /\ Len(Append(Front(st), g)) = Len(st)
        /\ Append(Front(st), g)[Len(st)] = g
        /\ \A i \in 1 .. (Len(st) - 1) : Append(Front(st), g)[i] = st[i]
    BY <1>1, TopIs
  <2> QED BY <1>2, <1>3, <2>1, Zenon
<1>6. \A i \in 1 .. n : s2[i].id = st[i].id
  <2> SUFFICES ASSUME NEW i \in 1 .. n PROVE s2[i].id = st[i].id OBVIOUS
  <2>1. CASE i = n BY <1>4, <2>1
  <2>2. CASE i # n
    <3>1. i \in 1 .. (n - 1) BY <2>2
    <3> QED BY <1>4, <3>1
  <2> QED BY <2>1, <2>2
<1>7. ASSUME NEW id \in 1 .. Len(cl), \A i \in 1 .. Len(s2) : s2[i].id # id,
             NEW n2 \in 1 .. Len(Messages(cl[id])), NEW src \in Source
      PROVE  Passed(id, n2, src, o2, l2)
  <2>1. \A i \in 1 .. Len(st) : st[i].id # id BY <1>2, <1>4, <1>6, <1>7
  <2>2. Passed(id, n2, src, o, l) BY <2>1 DEF Complete
  <2> QED BY <2>2 DEF More
<1> QED BY <1>3, <1>7 DEF Complete

\* An activation ends that has sent everything.
LEMMA PopTop ==
  ASSUME NEW st, NEW cl, NEW bf, NEW o, NEW l,
         StackInv(st, cl, bf, o, l), st # << >>, Complete(st, cl, o, l),
         \A n \in 1 .. Len(Messages(cl[Last(st).id])), src \in Source :
           Passed(Last(st).id, n, src, o, l)
  PROVE  StackInv(Front(st), cl, bf, o, l) /\ Complete(Front(st), cl, o, l)
<1>1. st \in Seq(Frame) BY DEF StackInv
<1>2. PICK n \in Nat \ {0} : n = Len(st) BY <1>1, EmptySeq
<1>3. PICK s2 : s2 = Front(st) OBVIOUS
<1>4. s2 \in Seq(Frame) /\ Len(s2) = n - 1 /\ Last(st) = st[n] /\ \A i \in 1 .. (n - 1) : s2[i] = st[i]
  <2>0. st[Len(st)] \in Frame BY <1>1, <1>2, ElementOfSeq
  <2>1. /\ Last(st) = st[Len(st)]
        /\ Front(st) \in Seq(Frame) /\ Len(Front(st)) = Len(st) - 1
        /\ \A i \in 1 .. (Len(st) - 1) : Front(st)[i] = st[i]
    BY <1>1, <2>0, TopIs
  <2> QED BY <1>2, <1>3, <2>1, Zenon
<1>5. /\ \A i, j \in 1 .. n : i < j => st[i].id < st[j].id
      /\ \A i \in 1 .. n : st[i].id \in 1 .. Len(cl) /\ Running(st[i], cl[st[i].id], bf[st[i].id], o, l)
  BY <1>2 DEF StackInv
<1>6. \A i \in 1 .. (n - 1) : i \in 1 .. n OBVIOUS
<1>7. StackInv(s2, cl, bf, o, l)
  <2>1. \A i, j \in 1 .. Len(s2) : i < j => s2[i].id < s2[j].id BY <1>4, <1>5, <1>6
  <2>2. \A i \in 1 .. Len(s2) :
          s2[i].id \in 1 .. Len(cl) /\ Running(s2[i], cl[s2[i].id], bf[s2[i].id], o, l)
    BY <1>4, <1>5, <1>6
  <2> QED BY <1>4, <2>1, <2>2 DEF StackInv
<1>8. ASSUME NEW id \in 1 .. Len(cl), \A i \in 1 .. Len(s2) : s2[i].id # id,
             NEW m \in 1 .. Len(Messages(cl[id])), NEW src \in Source
      PROVE  Passed(id, m, src, o, l)
  <2>1. CASE id = Last(st).id BY <2>1
  <2>2. CASE id # Last(st).id
    <3>1. ASSUME NEW i \in 1 .. n PROVE st[i].id # id
      <4>1. CASE i = n BY <1>4, <2>2, <4>1
      <4>2. CASE i # n
        <5>1. i \in 1 .. (n - 1) BY <4>2
        <5> QED BY <1>4, <1>8, <5>1
      <4> QED BY <4>1, <4>2
    <3> QED BY <1>2, <3>1 DEF Complete
  <2> QED BY <2>1, <2>2
<1> QED BY <1>3, <1>7, <1>8 DEF Complete

\* A new activation, which has written nothing.
Fresh(g, id) ==
  /\ g \in Frame /\ g.id = id /\ g.call = 1 /\ g.k = 1 /\ g.at = "fmt" /\ g.n = 0
  /\ g.left = << >> /\ g.outb = "no"

\* KernelMain prints, or an interrupt comes.
LEMMA PushTop ==
  ASSUME NEW st, NEW cl \in Seq(Who), NEW bf, NEW o, NEW l, NEW who \in Who, NEW g,
         StackInv(st, cl, bf, o, l), Complete(st, cl, o, l), Faithful(o, cl),
         Fresh(g, Len(cl) + 1)
  PROVE  /\ StackInv(Append(st, g), Append(cl, who), bf, o, l)
         /\ Complete(Append(st, g), Append(cl, who), o, l)
         /\ Faithful(o, Append(cl, who))
<1>1. PICK c \in Nat : c = Len(cl) BY LenProperties
<1>2. PICK c2 : c2 = Append(cl, who) OBVIOUS
<1>3. Len(c2) = c + 1 /\ c2[c + 1] = who /\ \A i \in 1 .. c : c2[i] = cl[i] BY <1>1, <1>2
<1>4. st \in Seq(Frame) /\ g \in Frame BY DEF StackInv, Fresh
<1>5. PICK n \in Nat : n = Len(st) BY <1>4
<1>6. PICK s2 : s2 = Append(st, g) OBVIOUS
<1>7. s2 \in Seq(Frame) /\ Len(s2) = n + 1 /\ s2[n + 1] = g /\ \A i \in 1 .. n : s2[i] = st[i]
  <2>1. /\ Append(st, g) \in Seq(Frame) /\ Len(Append(st, g)) = Len(st) + 1
        /\ \A i \in 1 .. Len(st) : Append(st, g)[i] = st[i]
        /\ Append(st, g)[Len(st) + 1] = g
    BY <1>4, AppendProperties
  <2> QED BY <1>5, <1>6, <2>1, Zenon
<1>8. Faithful(o, c2)
  <2> SUFFICES ASSUME NEW k \in 1 .. Len(o)
               PROVE  /\ o[k].id \in 1 .. (c + 1) /\ o[k].n \in 1 .. Len(Messages(c2[o[k].id]))
                      /\ o[k].byte = Messages(c2[o[k].id])[o[k].n]
    BY <1>3 DEF Faithful
  <2>1. /\ o[k].id \in 1 .. c /\ o[k].n \in 1 .. Len(Messages(cl[o[k].id]))
        /\ o[k].byte = Messages(cl[o[k].id])[o[k].n]
    BY <1>1 DEF Faithful
  <2>2. c2[o[k].id] = cl[o[k].id] /\ o[k].id \in 1 .. (c + 1) BY <1>3, <2>1
  <2> QED BY <2>1, <2>2
<1>9. Placed(g, who, bf[g.id])
  <2>1. 1 \in 1 .. Len(Calls[who]) /\ Len(Calls[who][1]) \in Nat
    <3>1. Len(Calls[who]) \in Nat \ {0} BY CallsAre
    <3>2. 1 \in 1 .. Len(Calls[who]) BY <3>1
    <3> QED BY <3>2, CallsAre
  <2>2. 1 \in 1 .. (Len(Calls[who][1]) + 1) BY <2>1
  <2>3. PICK pos : pos = Pos(who) /\ Layout(pos, who) BY PosIs
  <2>4. pos[1][1] = 0 BY <2>3 DEF Layout
  <2> QED BY <2>1, <2>2, <2>3, <2>4 DEF Placed, Fresh
<1>10. Writing(g, who) BY DEF Writing, Fresh
<1>11. Sent(g, o, l)
  <2>1. Distinct(<< >>)
    <3>1. 1 .. Len(<< >>) = {} BY EmptySeq
    <3> QED BY <3>1 DEF Distinct
  <2>2. ASSUME NEW k \in 1 .. Len(o) PROVE o[k].id # g.id
    <3>1. o[k].id \in 1 .. c BY <1>1 DEF Faithful
    <3> QED BY <1>1, <3>1 DEF Fresh
  <2>3. 1 .. g.n = {} BY DEF Fresh
  <2> QED BY <2>1, <2>2, <2>3 DEF Sent, Fresh
<1>12. /\ \A i, j \in 1 .. n : i < j => st[i].id < st[j].id
       /\ \A i \in 1 .. n : st[i].id \in 1 .. c /\ Running(st[i], cl[st[i].id], bf[st[i].id], o, l)
  BY <1>1, <1>5 DEF StackInv
<1>13. g.id = c + 1 BY <1>1 DEF Fresh
<1>14. \A i \in 1 .. (n + 1) : i \in 1 .. n \/ i = n + 1 OBVIOUS
<1>15. StackInv(s2, c2, bf, o, l)
  <2>1. ASSUME NEW i \in 1 .. (n + 1), NEW j \in 1 .. (n + 1), i < j PROVE s2[i].id < s2[j].id
    <3>1. i \in 1 .. n BY <2>1
    <3>2. CASE j = n + 1
      <4>1. st[i].id \in 1 .. c BY <1>12, <3>1
      <4>2. s2[i].id = st[i].id /\ s2[j].id = c + 1 BY <1>7, <1>13, <3>1, <3>2
      <4> QED BY <4>1, <4>2
    <3>3. CASE j # n + 1
      <4>1. j \in 1 .. n BY <3>3
      <4> QED BY <1>7, <1>12, <2>1, <3>1, <4>1
    <3> QED BY <3>2, <3>3
  <2>2. ASSUME NEW i \in 1 .. (n + 1)
        PROVE  s2[i].id \in 1 .. (c + 1) /\ Running(s2[i], c2[s2[i].id], bf[s2[i].id], o, l)
    <3>1. CASE i = n + 1
      <4>1. s2[i] = g /\ c2[g.id] = who /\ g.id \in 1 .. (c + 1) BY <1>3, <1>7, <1>13, <3>1
      <4>2. Running(g, who, bf[g.id], o, l) BY <1>9, <1>10, <1>11 DEF Running
      <4> QED BY <4>1, <4>2
    <3>2. CASE i \in 1 .. n
      <4>1. s2[i] = st[i] /\ st[i].id \in 1 .. c /\ Running(st[i], cl[st[i].id], bf[st[i].id], o, l)
        BY <1>7, <1>12, <3>2
      <4>2. c2[st[i].id] = cl[st[i].id] /\ st[i].id \in 1 .. (c + 1) BY <1>3, <4>1
      <4> QED BY <4>1, <4>2
    <3> QED BY <1>14, <3>1, <3>2
  <2> QED BY <1>3, <1>7, <2>1, <2>2 DEF StackInv
<1>16. ASSUME NEW id \in 1 .. (c + 1), \A i \in 1 .. Len(s2) : s2[i].id # id,
              NEW m \in 1 .. Len(Messages(c2[id])), NEW src \in Source
       PROVE  Passed(id, m, src, o, l)
  <2>1. n + 1 \in 1 .. (n + 1) OBVIOUS
  <2>2. id # c + 1 BY <1>7, <1>13, <1>16, <2>1
  <2>3. id \in 1 .. c BY <2>2
  <2>4. c2[id] = cl[id] BY <1>3, <2>3
  <2>5. \A i \in 1 .. n : st[i].id # id
    <3>1. \A i \in 1 .. n : i \in 1 .. (n + 1) OBVIOUS
    <3> QED BY <1>7, <1>16, <3>1
  <2> QED BY <1>1, <1>5, <2>3, <2>4, <2>5 DEF Complete
<1>17. Complete(s2, c2, o, l) BY <1>3, <1>16 DEF Complete
<1> QED BY <1>2, <1>6, <1>8, <1>15, <1>17

-----------------------------------------------------------------------------
(* The steps of the console keep its invariant.                            *)

\* At boot there are no activations and no output.
LEMMA InitConsoleInv == Init => ConsoleInv
<1> SUFFICES ASSUME Init PROVE ConsoleInv OBVIOUS
<1>1. Len(<< >>) = 0 /\ 1 .. Len(<< >>) = {} BY EmptySeq
<1>2. ConsoleTypeOK
  <2>1. Distinct(sources) BY <1>1 DEF Init, Distinct
  <2>2. buf \in [Id -> [1 .. BufSize -> Nat]] BY DEF Init
  <2>3. Len(callers) <= MaxEvents + 1 BY <1>1, ConsoleAssumption DEF Init
  <2> QED BY <2>1, <2>2, <2>3 DEF Init, ConsoleTypeOK
<1>3. StackInv(stack, callers, buf, out, lost) BY <1>1 DEF Init, StackInv
<1>4. Faithful(out, callers) /\ Ordered(out) BY <1>1 DEF Init, Faithful, Ordered
<1>5. Complete(stack, callers, out, lost) BY <1>1 DEF Init, Complete
<1> QED BY <1>2, <1>3, <1>4, <1>5 DEF ConsoleInv

\* What is known of the running activation.
LEMMA TopFacts ==
  ASSUME ConsoleInv, stack # << >>
  PROVE  \E f \in Frame, who \in Who, b \in [1 .. BufSize -> Nat] :
           /\ f = Top /\ f.id \in 1 .. Len(callers) /\ f.id \in Id
           /\ who = callers[f.id] /\ b = buf[f.id]
           /\ Running(f, who, b, out, lost)
<1>1. PICK st, cl, bf, o, l : st = stack /\ cl = callers /\ bf = buf /\ o = out /\ l = lost OBVIOUS
<1>2. StackInv(st, cl, bf, o, l) /\ cl \in Seq(Who) /\ Len(cl) <= MaxEvents + 1
  BY <1>1 DEF ConsoleInv, ConsoleTypeOK
<1>3. st \in Seq(Frame) /\ st # << >> BY <1>1, <1>2 DEF StackInv
<1>4. PICK n \in Nat \ {0} : n = Len(st) BY <1>3, EmptySeq
<1>5. PICK f \in Frame : f = st[n] BY <1>3, <1>4, ElementOfSeq
<1>6. f = Top BY <1>1, <1>4, <1>5 DEF Top, Last
<1>7. f.id \in 1 .. Len(cl) /\ Running(f, cl[f.id], bf[f.id], o, l)
  <2>1. n \in 1 .. Len(st) BY <1>4
  <2> QED BY <1>2, <1>5, <2>1 DEF StackInv
<1>8. f.id \in Id
  <2>1. MaxEvents \in Nat BY ConsoleAssumption
  <2>2. Len(cl) \in Nat BY <1>2
  <2> QED BY <1>2, <1>7, <2>1, <2>2 DEF Id
<1>9. cl[f.id] \in Who BY <1>2, <1>7, ElementOfSeq
<1>10. bf[f.id] \in [1 .. BufSize -> Nat] BY <1>1, <1>8 DEF ConsoleInv, ConsoleTypeOK
<1> QED BY <1>1, <1>6, <1>7, <1>8, <1>9, <1>10

\* A step of the running activation.
LEMMA TopStep ==
  ASSUME ConsoleInv, stack # << >>, NEW g \in Frame, g.id = Top.id, Set(g),
         UNCHANGED <<sources, callers>>,
         buf' \in [Id -> [1 .. BufSize -> Nat]],
         \A id \in 1 .. Len(callers) : id # g.id => buf'[id] = buf[id],
         out' \in Seq(Output), More(g.id, out, lost, out', lost'),
         Faithful(out', callers), Ordered(out'),
         Running(g, callers[g.id], buf'[g.id], out', lost')
  PROVE  ConsoleInv'
<1>1. PICK st, cl, bf, o, l : st = stack /\ cl = callers /\ bf = buf /\ o = out /\ l = lost OBVIOUS
<1>2. PICK bf2, o2, l2 : bf2 = buf' /\ o2 = out' /\ l2 = lost' OBVIOUS
<1>3. /\ StackInv(st, cl, bf, o, l) /\ cl \in Seq(Who) /\ Complete(st, cl, o, l)
      /\ st # << >> /\ g.id = Last(st).id
  BY <1>1 DEF ConsoleInv, ConsoleTypeOK, Top
<1>4. /\ \A id \in 1 .. Len(cl) : id # g.id => bf2[id] = bf[id]
      /\ More(g.id, o, l, o2, l2) /\ Running(g, cl[g.id], bf2[g.id], o2, l2)
  BY <1>1, <1>2
<1>5. StackInv(Append(Front(st), g), cl, bf2, o2, l2) BY <1>3, <1>4, ReplaceTop
<1>6. Complete(Append(Front(st), g), cl, o2, l2) BY <1>3, <1>4, ReplaceComplete
<1>7. stack' = Append(Front(st), g) /\ callers' = cl BY <1>1 DEF Set
<1>8. StackInv(stack', callers', buf', out', lost') /\ Complete(stack', callers', out', lost')
  BY <1>2, <1>5, <1>6, <1>7
<1>9. ConsoleTypeOK' BY DEF ConsoleInv, ConsoleTypeOK
<1> QED BY <1>8, <1>9 DEF ConsoleInv

\* A step that puts nothing out.
LEMMA QuietStep ==
  ASSUME ConsoleInv, stack # << >>, NEW g \in Frame, g.id = Top.id, Set(g),
         UNCHANGED <<sources, callers, buf, out, lost>>,
         Running(g, callers[g.id], buf[g.id], out, lost)
  PROVE  ConsoleInv'
<1>1. More(g.id, out, lost, out', lost')
  <2>1. PICK o, l : o = out /\ l = lost OBVIOUS
  <2>2. More(g.id, o, l, o, l) BY MoreSame
  <2>3. o = out' /\ l = lost' BY <2>1
  <2> QED BY <2>1, <2>2, <2>3
<1>2. /\ out' \in Seq(Output) /\ Faithful(out', callers) /\ Ordered(out')
      /\ buf' \in [Id -> [1 .. BufSize -> Nat]]
  BY DEF ConsoleInv, ConsoleTypeOK
<1> QED BY <1>1, <1>2, TopStep

\* A step that begins to write the next byte of the text.
LEMMA ByteStep ==
  ASSUME ConsoleInv, stack # << >>, Top.left = << >>,
         NEW g \in Frame, g.id = Top.id, g.n = Top.n + 1, g.left = sources, g.outb = "no",
         Placed(g, callers[g.id], buf[g.id]),
         g.n \in 1 .. Len(Messages(callers[g.id])), g.byte = Messages(callers[g.id])[g.n],
         Set(g), UNCHANGED <<sources, callers, buf, out, lost>>
  PROVE  ConsoleInv'
<1>1. PICK f \in Frame, who \in Who, b \in [1 .. BufSize -> Nat] :
        /\ f = Top /\ f.id \in 1 .. Len(callers)
        /\ Running(f, who, b, out, lost)
  BY TopFacts
<1>2. PICK o, l, ss, cl : o = out /\ l = lost /\ ss = sources /\ cl = callers OBVIOUS
<1>3. Distinct(ss) /\ ToSet(ss) = Source /\ o \in Seq(Output)
  <2>1. cl \in Seq(Who) BY <1>2 DEF ConsoleInv, ConsoleTypeOK
  <2>2. cl # << >>
    <3>1. Len(<< >>) = 0 BY EmptySeq
    <3> QED BY <1>1, <1>2, <3>1
  <2> QED BY <1>2, <2>2 DEF ConsoleInv, ConsoleTypeOK
<1>4. Sent(g, o, l)
  <2>1. Sent(f, o, l) BY <1>1, <1>2 DEF Running
  <2>2. f.left = << >> /\ g.left = ss /\ g.id = f.id /\ g.n = f.n + 1 BY <1>1, <1>2
  <2> QED BY <1>3, <2>1, <2>2, SentNext
<1>5. Writing(g, callers[g.id]) BY DEF Writing
<1>6. Running(g, callers[g.id], buf[g.id], out, lost) BY <1>2, <1>4, <1>5 DEF Running
<1> QED BY <1>6, QuietStep

\* A step between two bytes that writes nothing.
LEMMA IdleStep ==
  ASSUME ConsoleInv, stack # << >>, Top.left = << >>,
         NEW g \in Frame, g.id = Top.id, g.n = Top.n, g.left = Top.left, g.outb = Top.outb,
         Placed(g, callers[g.id], buf[g.id]),
         Set(g), UNCHANGED <<sources, callers, buf, out, lost>>
  PROVE  ConsoleInv'
<1>1. PICK f \in Frame, who \in Who, b \in [1 .. BufSize -> Nat] :
        /\ f = Top /\ f.id \in 1 .. Len(callers) /\ who = callers[f.id]
        /\ Running(f, who, b, out, lost)
  BY TopFacts
<1>2. PICK o, l : o = out /\ l = lost OBVIOUS
<1>3. Sent(g, o, l)
  <2>1. Sent(f, o, l) BY <1>1, <1>2 DEF Running
  <2>2. g.id = f.id /\ g.n = f.n /\ g.left = f.left BY <1>1
  <2> QED BY <2>1, <2>2, SentSame
<1>4. Writing(g, callers[g.id]) BY <1>1 DEF Running, Writing
<1>5. Running(g, callers[g.id], buf[g.id], out, lost) BY <1>2, <1>3, <1>4 DEF Running
<1> QED BY <1>5, QuietStep

\* Between two bytes OutB is not running.
LEMMA AtFacts ==
  ASSUME ConsoleInv, NEW place, At(place)
  PROVE  \E f \in Frame, who \in Who, b \in [1 .. BufSize -> Nat] :
           /\ f = Top /\ f.at = place /\ f.left = << >> /\ f.outb = "no"
           /\ f.id \in Id /\ who = callers[f.id] /\ b = buf[f.id]
           /\ Placed(f, who, b)
           /\ Calling(f) = Calls[who] /\ Fmt = Calls[who][f.call] /\ Arg = Calls[who][f.call][f.k]
<1>1. stack # << >> /\ Top.left = << >> /\ Top.at = place BY DEF At
<1>2. PICK f \in Frame, who \in Who, b \in [1 .. BufSize -> Nat] :
        /\ f = Top /\ f.id \in Id /\ who = callers[f.id] /\ b = buf[f.id]
        /\ Running(f, who, b, out, lost)
  BY <1>1, TopFacts
<1>3. Placed(f, who, b) /\ f.outb = "no" BY <1>1, <1>2 DEF Running, Writing
<1>4. Calling(f) = Calls[who] BY <1>2 DEF Calling
<1>5. Fmt = Calls[who][f.call] BY <1>2, <1>4 DEF Fmt
<1>6. Arg = Calls[who][f.call][f.k] BY <1>2, <1>5 DEF Arg
<1> QED BY <1>1, <1>2, <1>3, <1>4, <1>5, <1>6

\* What the step to the next directive changes.
LEMMA NextFrame ==
  ASSUME NEW f \in Frame, NEW g, g = NextDirective(f)
  PROVE  /\ g \in Frame /\ g.id = f.id /\ g.call = f.call /\ g.k = f.k + 1 /\ g.at = "fmt"
         /\ g.u = f.u /\ g.s = f.s /\ g.byte = f.byte /\ g.n = f.n
         /\ g.left = f.left /\ g.outb = f.outb
<1>1. PICK k \in Nat : k = f.k + 1
  <2>1. f.k \in Nat BY DEF Frame
  <2> QED BY <2>1
<1>2. g = [f EXCEPT !.at = "fmt", !.k = k] BY <1>1 DEF NextDirective
<1>3. g \in Frame BY <1>2 DEF Frame
<1> QED BY <1>1, <1>2, <1>3 DEF Frame

\* What writing a byte changes.
Wrote(f, v, g) ==
  /\ g \in Frame /\ g.id = f.id /\ g.call = f.call /\ g.k = f.k /\ g.at = f.at
  /\ g.u = f.u /\ g.s = f.s /\ g.byte = v % 256 /\ g.n = f.n + 1
  /\ g.left = sources /\ g.outb = f.outb

\* And nothing else.
LEMMA WrittenFrame ==
  ASSUME ConsoleInv, NEW f \in Frame, NEW v \in Nat, NEW g, g = Written(f, v)
  PROVE  Wrote(f, v, g)
<1>1. PICK n \in Nat, w \in Nat : n = f.n + 1 /\ w = v % 256
  <2>1. f.n \in Nat BY DEF Frame
  <2> QED BY <2>1
<1>2. PICK ss \in Seq(Source) : ss = sources BY DEF ConsoleInv, ConsoleTypeOK
<1>3. g = [f EXCEPT !.byte = w, !.n = n, !.left = ss] BY <1>1, <1>2 DEF Written
<1>4. g \in Frame BY <1>3, Zenon DEF Frame
<1>5. /\ g.id = f.id /\ g.call = f.call /\ g.k = f.k /\ g.at = f.at /\ g.u = f.u /\ g.s = f.s
      /\ g.byte = w /\ g.n = n /\ g.left = ss /\ g.outb = f.outb
  BY <1>3 DEF Frame
<1> QED BY <1>1, <1>2, <1>4, <1>5 DEF Wrote

\* vprintf takes a directive.
LEMMA ConvertInv == ASSUME ConsoleInv, Convert PROVE ConsoleInv'
<1>0. /\ At("fmt") /\ stack # << >> /\ Top.left = << >>
      /\ UNCHANGED <<sources, callers, buf, out, lost>>
  BY DEF Convert, At
<1>1. PICK f \in Frame, who \in Who, b \in [1 .. BufSize -> Nat] :
        /\ f = Top /\ f.at = "fmt" /\ f.left = << >> /\ f.outb = "no"
        /\ f.id \in Id /\ who = callers[f.id] /\ b = buf[f.id]
        /\ Placed(f, who, b)
        /\ Fmt = Calls[who][f.call] /\ Arg = Calls[who][f.call][f.k]
  BY <1>0, AtFacts
<1>2. PICK x, ss : x = Calls[who][f.call][f.k] /\ x = Arg /\ ss = sources /\ ss \in Seq(Source)
  BY <1>1 DEF ConsoleInv, ConsoleTypeOK
<1>3. f.call \in 1 .. Len(Calls[who]) /\ f.k # Len(Calls[who][f.call]) + 1 /\ IsDirective(x)
  <2>1. f.call \in 1 .. Len(Calls[who]) /\ f.k \in 1 .. (Len(Calls[who][f.call]) + 1)
    BY <1>1 DEF Placed
  <2>2. f.k <= Len(Calls[who][f.call]) BY <1>1 DEF Convert
  <2>3. Len(Calls[who][f.call]) \in Nat BY <2>1, CallsAre
  <2>4. f.k \in 1 .. Len(Calls[who][f.call]) BY <2>1, <2>2, <2>3
  <2>5. IsDirective(Calls[who][f.call][f.k]) BY <2>1, <2>4, CallsAre
  <2> QED BY <1>2, <2>1, <2>3, <2>4, <2>5
<1>4. f.call \in Nat /\ f.k \in Nat /\ f.n \in Nat /\ f.id \in Nat BY DEF Frame
<1>5. CASE x.c \in {"lit", "c"} /\ Set(Written(NextDirective(f), x.arg))
  <2>0. PICK v \in Nat : v = x.arg BY <1>3, <1>5 DEF IsDirective
  <2>1. PICK e : e = NextDirective(f) OBVIOUS
  <2>2. PICK g : g = Written(e, v) OBVIOUS
  <2>3. /\ e \in Frame /\ e.id = f.id /\ e.call = f.call /\ e.k = f.k + 1 /\ e.at = "fmt"
        /\ e.n = f.n /\ e.outb = "no"
    BY <1>1, <2>1, NextFrame
  <2>4. /\ g \in Frame /\ g.id = f.id /\ g.call = f.call /\ g.k = f.k + 1 /\ g.at = "fmt"
        /\ g.n = f.n + 1 /\ g.byte = v % 256 /\ g.left = sources /\ g.outb = "no"
    <3>1. Wrote(e, v, g) BY <2>2, <2>3, WrittenFrame
    <3> QED BY <2>3, <3>1 DEF Wrote
  <2>5. Placed(g, who, b) /\ g.n \in 1 .. Len(Messages(who)) /\ g.byte = Messages(who)[g.n]
    <3>1. /\ Calls[who][f.call][f.k].c \in {"lit", "c"}
          /\ g.byte = Calls[who][f.call][f.k].arg % 256
      BY <1>2, <1>5, <2>0, <2>4
    <3>2. /\ Placed(f, who, b) /\ f.at = "fmt" /\ f.k # Len(Calls[who][f.call]) + 1 /\ g \in Frame
          /\ g.call = f.call /\ g.k = f.k + 1 /\ g.at = "fmt" /\ g.n = f.n + 1
      BY <1>1, <1>3, <2>4
    <3> QED BY <3>1, <3>2, LitStep
  <2> QED BY <1>0, <1>1, <1>5, <2>0, <2>1, <2>2, <2>4, <2>5, ByteStep
<1>6. CASE x.c = "s" /\ Set([f EXCEPT !.at = "string", !.s = 1])
  <2>1. PICK g : g = [f EXCEPT !.at = "string", !.s = 1] OBVIOUS
  <2>2. g \in Frame BY <2>1 DEF Frame
  <2>3. /\ g.id = f.id /\ g.call = f.call /\ g.k = f.k /\ g.at = "string" /\ g.s = 1 /\ g.n = f.n
        /\ g.left = f.left /\ g.outb = f.outb
    BY <2>1, Zenon DEF Frame
  <2>4. Placed(g, who, b) BY <1>1, <1>2, <1>3, <1>6, <2>2, <2>3, BeginStep, Zenon
  <2> QED BY <1>0, <1>1, <1>6, <2>1, <2>2, <2>3, <2>4, IdleStep
<1>7. CASE x.c \in {"d", "u", "x"} /\ Set([f EXCEPT !.at = "digits", !.s = 0, !.u = Fetched(x)])
  <2>0. Fetched(x) \in Nat
    <3>1. x.arg \in Nat /\ UInt \in Nat \ {0} BY <1>3, <1>7, ConsoleAssumption DEF IsDirective
    <3> QED BY <3>1 DEF Fetched
  <2>1. PICK g : g = [f EXCEPT !.at = "digits", !.s = 0, !.u = Fetched(x)] OBVIOUS
  <2>2. g \in Frame BY <2>0, <2>1, Zenon DEF Frame
  <2>3. /\ g.id = f.id /\ g.call = f.call /\ g.k = f.k /\ g.at = "digits" /\ g.s = 0 /\ g.n = f.n
        /\ g.u = Fetched(x) /\ g.left = f.left /\ g.outb = f.outb
    BY <2>1 DEF Frame
  <2>4. Placed(g, who, b) BY <1>1, <1>2, <1>3, <1>7, <2>2, <2>3, BeginStep, Zenon
  <2> QED BY <1>0, <1>1, <1>7, <2>1, <2>2, <2>3, <2>4, IdleStep
<1>8. CASE x.c = "?" /\ Set(NextDirective(f))
  <2>1. PICK g : g = NextDirective(f) OBVIOUS
  <2>2. g \in Frame BY <2>1, NextFrame
  <2>3. /\ g.id = f.id /\ g.call = f.call /\ g.k = f.k + 1 /\ g.at = "fmt" /\ g.n = f.n
        /\ g.left = f.left /\ g.outb = f.outb
    BY <2>1, NextFrame
  <2>4. Placed(g, who, b) BY <1>1, <1>2, <1>3, <1>8, <2>2, <2>3, SkipStep
  <2> QED BY <1>0, <1>1, <1>8, <2>1, <2>2, <2>3, <2>4, IdleStep
<1> QED BY <1>1, <1>2, <1>5, <1>6, <1>7, <1>8, Zenon DEF Convert

\* vprintf writes a byte of a string, or is at its end.
LEMMA StringInv == ASSUME ConsoleInv, String PROVE ConsoleInv'
<1>0. /\ At("string") /\ stack # << >> /\ Top.left = << >>
      /\ UNCHANGED <<sources, callers, buf, out, lost>>
  BY DEF String, At
<1>1. PICK f \in Frame, who \in Who, b \in [1 .. BufSize -> Nat] :
        /\ f = Top /\ f.at = "string" /\ f.left = << >> /\ f.outb = "no"
        /\ f.id \in Id /\ who = callers[f.id] /\ b = buf[f.id]
        /\ Placed(f, who, b)
        /\ Fmt = Calls[who][f.call] /\ Arg = Calls[who][f.call][f.k]
  BY <1>0, AtFacts
<1>2. PICK x, ss : x = Calls[who][f.call][f.k] /\ x = Arg /\ ss = sources /\ ss \in Seq(Source)
  BY <1>1 DEF ConsoleInv, ConsoleTypeOK
<1>3. f.k # Len(Calls[who][f.call]) + 1 BY <1>1 DEF Placed
<1>4. /\ f.call \in Nat /\ f.k \in Nat /\ f.n \in Nat /\ f.id \in Nat /\ f.s \in Nat
  BY DEF Frame
<1>5. CASE f.s <= Len(x.arg) /\ Set(Written([f EXCEPT !.s = @ + 1], x.arg[f.s]))
  <2>0. x.arg[f.s] \in Nat
    <3>1. f.s \in 1 .. Len(x.arg) /\ x.c = "s"
      <4>1. Within(f, b, x, Text(x), Pos(who)[f.call][f.k]) BY <1>1, <1>2 DEF Placed
      <4>2. x.c = "s" /\ f.s >= 1 BY <1>1, <4>1 DEF Within
      <4> QED BY <1>4, <1>5, <4>2
    <3>2. IsDirective(x) BY <1>1, <1>2, <1>3, Here DEF Spelled
    <3>3. x.arg \in Seq(1 .. 255) BY <3>1, <3>2 DEF IsDirective
    <3>4. PICK a \in Seq(1 .. 255) : a = x.arg BY <3>3
    <3>5. a[f.s] \in 1 .. 255 BY <3>1, <3>4, ElementOfSeq
    <3>6. \A d \in 1 .. 255 : d \in Nat OBVIOUS
    <3> QED BY <3>4, <3>5, <3>6
  <2>1. PICK v \in Nat, m \in Nat : v = x.arg[f.s] /\ m = f.s + 1 BY <1>4, <2>0
  <2>2. PICK e : e = [f EXCEPT !.s = m] OBVIOUS
  <2>3. e \in Frame BY <2>1, <2>2 DEF Frame
  <2>4. /\ e.id = f.id /\ e.call = f.call /\ e.k = f.k /\ e.at = "string" /\ e.s = m
        /\ e.n = f.n /\ e.outb = "no"
    BY <1>1, <2>2 DEF Frame
  <2>6. PICK g : g = Written(e, v) OBVIOUS
  <2>7. /\ g \in Frame /\ g.id = f.id /\ g.call = f.call /\ g.k = f.k /\ g.at = "string" /\ g.s = m
        /\ g.n = f.n + 1 /\ g.byte = v % 256 /\ g.left = sources /\ g.outb = "no"
    <3>1. Wrote(e, v, g) BY <2>3, <2>6, WrittenFrame
    <3> QED BY <2>4, <3>1 DEF Wrote
  <2>8. Set(g) BY <1>5, <2>1, <2>2, <2>6
  <2>5. Placed(g, who, b) /\ g.n \in 1 .. Len(Messages(who)) /\ g.byte = Messages(who)[g.n]
    <3>1. /\ f.s <= Len(Calls[who][f.call][f.k].arg)
          /\ g.byte = Calls[who][f.call][f.k].arg[f.s] % 256
      BY <1>2, <1>5, <2>1, <2>7
    <3>2. /\ Placed(f, who, b) /\ f.at = "string" /\ g \in Frame /\ g.call = f.call /\ g.k = f.k
          /\ g.at = "string" /\ g.s = f.s + 1 /\ g.n = f.n + 1
      BY <1>1, <2>1, <2>7
    <3> QED BY <3>1, <3>2, StringStep, Zenon
  <2> QED BY <1>0, <1>1, <2>5, <2>7, <2>8, ByteStep
<1>6. CASE ~ (f.s <= Len(x.arg)) /\ Set(NextDirective(f))
  <2>1. PICK g : g = NextDirective(f) OBVIOUS
  <2>2. g \in Frame BY <2>1, NextFrame
  <2>3. /\ g.id = f.id /\ g.call = f.call /\ g.k = f.k + 1 /\ g.at = "fmt" /\ g.n = f.n
        /\ g.left = f.left /\ g.outb = f.outb
    BY <2>1, NextFrame
  <2>4. Placed(g, who, b) BY <1>1, <1>2, <1>6, <2>2, <2>3, EndStep
  <2> QED BY <1>0, <1>1, <1>6, <2>1, <2>2, <2>3, <2>4, IdleStep
<1> QED BY <1>1, <1>2, <1>5, <1>6 DEF String

\* vprintf stores a digit, in the buffer of its own activation.
LEMMA PushInv == ASSUME ConsoleInv, Push PROVE ConsoleInv'
<1>0. At("digits") /\ stack # << >> /\ UNCHANGED <<sources, callers, out, lost>> BY DEF Push, At
<1>1. PICK f \in Frame, who \in Who, b \in [1 .. BufSize -> Nat] :
        /\ f = Top /\ f.at = "digits" /\ f.left = << >> /\ f.outb = "no"
        /\ f.id \in Id /\ who = callers[f.id] /\ b = buf[f.id]
        /\ Placed(f, who, b) /\ Arg = Calls[who][f.call][f.k]
  BY <1>0, AtFacts
<1>2. PICK x, base : x = Calls[who][f.call][f.k] /\ x = Arg /\ base = Base(x.c) BY <1>1
<1>3. base \in {10, 16} /\ f.u \in Nat /\ f.s \in Nat
  <2>1. f.u \in Nat /\ f.s \in Nat BY DEF Frame
  <2> QED BY <1>2, <2>1 DEF Base
<1>4. PICK rest \in Nat, m \in Nat : rest = f.u \div base /\ m = f.s + 1
  <2>1. f.u \div base \in Nat
    <3>1. CASE base = 10 BY <1>3, <3>1
    <3>2. CASE base = 16 BY <1>3, <3>2
    <3> QED BY <1>3, <3>1, <3>2
  <2> QED BY <1>3, <2>1
<1>5. PICK at \in {"fmt", "string", "digits", "number"} :
         at = IF rest = 0 THEN "number" ELSE "digits" OBVIOUS
<1>6. PICK g : g = [f EXCEPT !.s = m, !.u = rest, !.at = at] OBVIOUS
<1>7. g \in Frame BY <1>4, <1>5, <1>6 DEF Frame
<1>8. /\ g.id = f.id /\ g.call = f.call /\ g.k = f.k /\ g.at = at /\ g.u = rest /\ g.s = m
      /\ g.n = f.n /\ g.left = f.left /\ g.outb = f.outb /\ g.byte = f.byte
  BY <1>6 DEF Frame
<1>9. Set(g) BY <1>1, <1>2, <1>4, <1>5, <1>6, Zenon DEF Push
<1>10. PICK bf, bf2, d : /\ bf = buf /\ bf2 = buf'
                         /\ d = [b EXCEPT ![f.s + 1] = Digit(x.c, f.u % Base(x.c))]
  BY Zenon
<1>11. bf2 = [bf EXCEPT ![f.id][f.s + 1] = Digit(x.c, f.u % Base(x.c))]
  BY <1>1, <1>2, <1>10, Zenon DEF Push, Buf
<1>12. bf \in [Id -> [1 .. BufSize -> Nat]] BY <1>10 DEF ConsoleInv, ConsoleTypeOK
<1>13. bf2 = [bf EXCEPT ![f.id] = d] BY <1>1, <1>10, <1>11, <1>12
<1>14. Placed(g, who, d) /\ d \in [1 .. BufSize -> Nat]
  <2>1. Pushes(f, g, b, d, Calls[who][f.call][f.k])
    BY <1>2, <1>4, <1>5, <1>8, <1>10 DEF Pushes
  <2>2. /\ Placed(f, who, b) /\ f.at = "digits" /\ g.call = f.call /\ g.k = f.k /\ g.n = f.n
        /\ g.s = f.s + 1
    BY <1>1, <1>4, <1>8
  <2> QED BY <1>7, <2>1, <2>2, PushStep
<1>15. /\ bf2 \in [Id -> [1 .. BufSize -> Nat]] /\ bf2[f.id] = d
       /\ \A id \in Id : id # f.id => bf2[id] = bf[id]
  BY <1>1, <1>12, <1>13, <1>14
<1>16. \A id \in 1 .. Len(callers) : id \in Id
  <2>1. PICK cl \in Seq(Who) : cl = callers /\ Len(cl) <= MaxEvents + 1
    BY DEF ConsoleInv, ConsoleTypeOK
  <2>2. MaxEvents \in Nat BY ConsoleAssumption
  <2>3. Len(cl) \in Nat OBVIOUS
  <2> QED BY <2>1, <2>2, <2>3 DEF Id
<1>17. Running(g, callers[g.id], buf'[g.id], out', lost')
  <2>1. Running(f, who, b, out, lost) BY <1>0, <1>1, TopFacts
  <2>2. Writing(g, who) BY <1>1, <1>8 DEF Writing
  <2>3. PICK o, l : o = out /\ l = lost /\ o = out' /\ l = lost' BY <1>0
  <2>4. Sent(f, o, l) BY <2>1, <2>3 DEF Running
  <2>5. Sent(g, o, l) BY <1>7, <1>8, <2>4, SentSame
  <2>6. Running(g, who, d, o, l) BY <1>14, <2>2, <2>5 DEF Running
  <2> QED BY <1>1, <1>8, <1>10, <1>15, <2>3, <2>6
<1>18. More(g.id, out, lost, out', lost')
  <2>1. PICK o, l : o = out /\ l = lost /\ o = out' /\ l = lost' BY <1>0
  <2>2. More(g.id, o, l, o, l) BY MoreSame
  <2> QED BY <2>1, <2>2
<1>19. /\ out' \in Seq(Output) /\ Faithful(out', callers) /\ Ordered(out')
  BY <1>0 DEF ConsoleInv, ConsoleTypeOK
<1>20. /\ buf' \in [Id -> [1 .. BufSize -> Nat]]
       /\ \A id \in 1 .. Len(callers) : id # g.id => buf'[id] = buf[id]
  BY <1>8, <1>10, <1>15, <1>16
<1>21. g.id = Top.id BY <1>1, <1>8
<1> QED BY <1>0, <1>7, <1>9, <1>17, <1>18, <1>19, <1>20, <1>21, TopStep

\* vprintf writes a digit, or is at the end of the number.
LEMMA PopInv == ASSUME ConsoleInv, Pop PROVE ConsoleInv'
<1>0. /\ At("number") /\ stack # << >> /\ Top.left = << >>
      /\ UNCHANGED <<sources, callers, buf, out, lost>>
  BY DEF Pop, At
<1>1. PICK f \in Frame, who \in Who, b \in [1 .. BufSize -> Nat] :
        /\ f = Top /\ f.at = "number" /\ f.left = << >> /\ f.outb = "no"
        /\ f.id \in Id /\ who = callers[f.id] /\ b = buf[f.id]
        /\ Placed(f, who, b)
  BY <1>0, AtFacts
<1>2. f.call \in Nat /\ f.k \in Nat /\ f.n \in Nat /\ f.id \in Nat /\ f.s \in Nat BY DEF Frame
<1>3. CASE f.s > 0 /\ Set(Written([f EXCEPT !.s = @ - 1], b[f.s]))
  <2>0. b[f.s] \in Nat
    <3>1. PICK x : x = Calls[who][f.call][f.k] OBVIOUS
    <3>2. f.k # Len(Calls[who][f.call]) + 1 BY <1>1 DEF Placed
    <3>3. IsDirective(x) BY <1>1, <3>1, <3>2, Here DEF Spelled
    <3>4. Within(f, b, x, Text(x), Pos(who)[f.call][f.k]) BY <1>1, <3>1 DEF Placed
    <3>5. x.c \in {"d", "u", "x"} /\ f.s \in 0 .. Len(Text(x)) BY <1>1, <3>4 DEF Within
    <3>6. Quotients(Quot(x), x) BY <3>3, <3>5, QuotIs
    <3>7. Len(Text(x)) \in 1 .. BufSize BY <3>6 DEF Quotients
    <3>8. BufSize \in Nat BY ConsoleAssumption
    <3>9. f.s \in 1 .. BufSize BY <1>2, <1>3, <3>5, <3>7, <3>8
    <3> QED BY <3>9
  <2>1. PICK v \in Nat, m \in Nat : v = b[f.s] /\ m = f.s - 1 BY <1>2, <1>3, <2>0
  <2>2. PICK e : e = [f EXCEPT !.s = m] OBVIOUS
  <2>3. e \in Frame BY <2>1, <2>2 DEF Frame
  <2>4. /\ e.id = f.id /\ e.call = f.call /\ e.k = f.k /\ e.at = "number" /\ e.s = m
        /\ e.n = f.n /\ e.outb = "no"
    BY <1>1, <2>2 DEF Frame
  <2>5. PICK g : g = Written(e, v) OBVIOUS
  <2>6. /\ g \in Frame /\ g.id = f.id /\ g.call = f.call /\ g.k = f.k /\ g.at = "number" /\ g.s = m
        /\ g.n = f.n + 1 /\ g.byte = v % 256 /\ g.left = sources /\ g.outb = "no"
    <3>1. Wrote(e, v, g) BY <2>3, <2>5, WrittenFrame
    <3> QED BY <2>4, <3>1 DEF Wrote
  <2>7. Set(g) BY <1>3, <2>1, <2>2, <2>5
  <2>8. Placed(g, who, b) /\ g.n \in 1 .. Len(Messages(who)) /\ g.byte = Messages(who)[g.n]
    <3>1. /\ Placed(f, who, b) /\ f.at = "number" /\ f.s > 0 /\ g \in Frame
          /\ g.call = f.call /\ g.k = f.k /\ g.at = "number" /\ g.s = f.s - 1 /\ g.n = f.n + 1
          /\ g.byte = b[f.s] % 256
      BY <1>1, <1>3, <2>1, <2>6
    <3> QED BY <3>1, PopStep
  <2> QED BY <1>0, <1>1, <2>6, <2>7, <2>8, ByteStep
<1>4. CASE ~ (f.s > 0) /\ Set(NextDirective(f))
  <2>1. PICK g : g = NextDirective(f) OBVIOUS
  <2>2. g \in Frame BY <2>1, NextFrame
  <2>3. /\ g.id = f.id /\ g.call = f.call /\ g.k = f.k + 1 /\ g.at = "fmt" /\ g.n = f.n
        /\ g.left = f.left /\ g.outb = f.outb
    BY <2>1, NextFrame
  <2>4. Placed(g, who, b) BY <1>1, <1>4, <2>2, <2>3, EndStep
  <2> QED BY <1>0, <1>1, <1>4, <2>1, <2>2, <2>3, <2>4, IdleStep
<1> QED BY <1>1, <1>3, <1>4 DEF Pop, Buf

\* vprintf returns.
LEMMA ReturnInv == ASSUME ConsoleInv, Return PROVE ConsoleInv'
<1>0. /\ At("fmt") /\ stack # << >> /\ Top.left = << >>
      /\ UNCHANGED <<sources, callers, buf, out, lost>>
  BY DEF Return, At
<1>1. PICK f \in Frame, who \in Who, b \in [1 .. BufSize -> Nat] :
        /\ f = Top /\ f.at = "fmt" /\ f.left = << >> /\ f.outb = "no"
        /\ f.id \in Id /\ who = callers[f.id] /\ b = buf[f.id]
        /\ Placed(f, who, b)
        /\ Calling(f) = Calls[who] /\ Fmt = Calls[who][f.call]
  BY <1>0, AtFacts
<1>2. f.k > Len(Calls[who][f.call]) BY <1>1 DEF Return
<1>3. CASE f.call < Len(Calls[who]) /\ Set([f EXCEPT !.call = @ + 1, !.k = 1])
  <2>1. PICK c \in Nat : c = f.call + 1
    <3>1. f.call \in Nat BY DEF Frame
    <3> QED BY <3>1
  <2>2. PICK g : g = [f EXCEPT !.call = c, !.k = 1] OBVIOUS
  <2>3. g \in Frame BY <2>2 DEF Frame
  <2>4. /\ g.id = f.id /\ g.call = c /\ g.k = 1 /\ g.at = "fmt" /\ g.n = f.n
        /\ g.left = f.left /\ g.outb = f.outb
    BY <1>1, <2>2 DEF Frame
  <2>5. Placed(g, who, b) BY <1>1, <1>2, <1>3, <2>1, <2>3, <2>4, CallStep
  <2>6. Set(g) BY <1>3, <2>1, <2>2
  <2> QED BY <1>0, <1>1, <2>3, <2>4, <2>5, <2>6, IdleStep
<1>4. CASE ~ (f.call < Len(Calls[who])) /\ stack' = Front(stack)
  <2>1. f.n = Len(Messages(who)) BY <1>1, <1>2, <1>4, LastByte
  <2>2. PICK st, cl, bf, o, l : st = stack /\ cl = callers /\ bf = buf /\ o = out /\ l = lost OBVIOUS
  <2>3. /\ StackInv(st, cl, bf, o, l) /\ Complete(st, cl, o, l) /\ st # << >> /\ Last(st) = f
    BY <1>0, <1>1, <2>2 DEF ConsoleInv, Top
  <2>4. Sent(f, o, l)
    <3>1. Running(Top, callers[Top.id], buf[Top.id], out, lost) BY <1>0, TopFacts
    <3> QED BY <1>1, <2>2, <3>1 DEF Running
  <2>5. \A n \in 1 .. Len(Messages(cl[Last(st).id])), src \in Source :
           Passed(Last(st).id, n, src, o, l)
    <3>1. ToSet(<< >>) = {} BY EmptySeq DEF ToSet
    <3>2. \A n \in 1 .. f.n, src \in Source : Passed(f.id, n, src, o, l)
      BY <1>1, <2>4, <3>1 DEF Sent
    <3> QED BY <1>1, <2>1, <2>2, <2>3, <3>2
  <2>6. StackInv(Front(st), cl, bf, o, l) /\ Complete(Front(st), cl, o, l)
    BY <2>3, <2>5, PopTop
  <2>7. /\ StackInv(stack', callers', buf', out', lost') /\ Complete(stack', callers', out', lost')
    BY <1>0, <1>4, <2>2, <2>6
  <2>8. ConsoleTypeOK' /\ Faithful(out', callers') /\ Ordered(out')
    BY <1>0 DEF ConsoleInv, ConsoleTypeOK
  <2> QED BY <2>7, <2>8 DEF ConsoleInv
<1> QED BY <1>1, <1>3, <1>4 DEF Return

\* The place in the formats does not depend on the byte being written.
LEMMA PlacedSame ==
  ASSUME NEW f, NEW g, NEW who, NEW b, Placed(f, who, b),
         g.call = f.call, g.k = f.k, g.at = f.at, g.u = f.u, g.s = f.s, g.n = f.n
  PROVE  Placed(g, who, b)
<1>1. ASSUME NEW x, NEW t, NEW p, Within(f, b, x, t, p) PROVE Within(g, b, x, t, p)
  BY <1>1 DEF Within
<1> QED BY <1>1 DEF Placed

\* OutB stores its parameters.
LEMMA OutBInv == ASSUME ConsoleInv, OutB PROVE ConsoleInv'
<1>0. stack # << >> /\ Top.left # << >> /\ UNCHANGED <<sources, callers, buf, out, lost>> BY DEF OutB
<1>1. PICK f \in Frame, who \in Who, b \in [1 .. BufSize -> Nat] :
        /\ f = Top /\ f.id \in Id /\ who = callers[f.id] /\ b = buf[f.id]
        /\ Running(f, who, b, out, lost)
  BY <1>0, TopFacts
<1>2. PICK g : g = [f EXCEPT !.outb = "red_zone"] OBVIOUS
<1>3. g \in Frame BY <1>2 DEF Frame
<1>4. /\ g.id = f.id /\ g.call = f.call /\ g.k = f.k /\ g.at = f.at /\ g.u = f.u /\ g.s = f.s
      /\ g.byte = f.byte /\ g.n = f.n /\ g.left = f.left /\ g.outb = "red_zone"
  BY <1>2 DEF Frame
<1>5. Set(g) BY <1>1, <1>2 DEF OutB
<1>6. Running(g, who, b, out, lost)
  <2>1. PICK o, l : o = out /\ l = lost OBVIOUS
  <2>2. Placed(f, who, b) /\ Writing(f, who) /\ Sent(f, o, l) BY <1>1, <2>1 DEF Running
  <2>3. Placed(g, who, b) BY <1>4, <2>2, PlacedSame
  <2>4. Writing(g, who) BY <1>0, <1>1, <1>4, <2>2 DEF Writing
  <2>5. Sent(g, o, l) BY <1>3, <1>4, <2>2, SentSame
  <2> QED BY <2>1, <2>3, <2>4, <2>5 DEF Running
<1> QED BY <1>0, <1>1, <1>3, <1>4, <1>5, <1>6, QuietStep

\* What outb puts out.
Put(f) == [id |-> f.id, n |-> f.n, src |-> Head(f.left), byte |-> f.byte]

\* A byte that gets out is the right one, in order, and no other is touched.
LEMMA PutOut ==
  ASSUME NEW f \in Frame, NEW o \in Seq(Output), NEW l, NEW cl, f.id \in 1 .. Len(cl),
         f.left # << >>, Sent(f, o, l), Writing(f, cl[f.id]), Faithful(o, cl), Ordered(o),
         NEW r, r = Put(f),
         NEW o2, o2 = Append(o, r)
  PROVE  /\ o2 \in Seq(Output) /\ Faithful(o2, cl) /\ Ordered(o2)
         /\ More(f.id, o, l, o2, l) /\ Passed(f.id, f.n, Head(f.left), o2, l)
         /\ Beyond(f, o, o2)
<1>1. f.id \in Nat /\ f.n \in Nat /\ f.byte \in Nat /\ f.left \in Seq(Source) BY DEF Frame
<1>2. PICK h \in Source : h = Head(f.left) /\ h \in ToSet(f.left)
  <2>1. PICK s \in Seq(Source) : s = f.left /\ s # << >> BY <1>1
  <2>2. 1 \in 1 .. Len(s) /\ 1 \in DOMAIN s BY <2>1, EmptySeq
  <2>3. s[1] \in Source BY <2>2, ElementOfSeq
  <2>4. s[1] \in ToSet(s) BY <2>2 DEF ToSet
  <2>5. Head(s) = s[1] BY <2>1
  <2> QED BY <2>1, <2>3, <2>4, <2>5
<1>3. r \in Output BY <1>1, <1>2 DEF Output, Put
<1>4. r.id = f.id /\ r.n = f.n /\ r.src = h /\ r.byte = f.byte BY <1>2 DEF Put
<1>5. PICK m \in Nat : m = Len(o) BY LenProperties
<1>6. o2 \in Seq(Output) /\ Len(o2) = m + 1 /\ o2[m + 1] = r /\ \A i \in 1 .. m : o2[i] = o[i]
  BY <1>3, <1>5
<1>7. \A k \in 1 .. (m + 1) : k \in 1 .. m \/ k = m + 1 OBVIOUS
<1>8. Faithful(o2, cl)
  <2> SUFFICES ASSUME NEW k \in 1 .. (m + 1)
               PROVE  /\ o2[k].id \in 1 .. Len(cl) /\ o2[k].n \in 1 .. Len(Messages(cl[o2[k].id]))
                      /\ o2[k].byte = Messages(cl[o2[k].id])[o2[k].n]
    BY <1>6 DEF Faithful
  <2>1. CASE k \in 1 .. m BY <1>5, <1>6, <2>1 DEF Faithful
  <2>2. CASE k = m + 1
    <3>1. f.n \in 1 .. Len(Messages(cl[f.id])) /\ f.byte = Messages(cl[f.id])[f.n] BY DEF Writing
    <3> QED BY <1>4, <1>6, <2>2, <3>1
  <2> QED BY <1>7, <2>1, <2>2
<1>9. Ordered(o2)
  <2> SUFFICES ASSUME NEW j \in 1 .. (m + 1), NEW k \in 1 .. (m + 1),
                      j < k, o2[j].id = o2[k].id, o2[j].src = o2[k].src
               PROVE  o2[j].n < o2[k].n
    BY <1>6 DEF Ordered
  <2>1. j \in 1 .. m OBVIOUS
  <2>2. CASE k \in 1 .. m BY <1>5, <1>6, <2>1, <2>2 DEF Ordered
  <2>3. CASE k = m + 1
    <3>1. PICK q \in Output : q = o[j] BY <1>5, <2>1, ElementOfSeq
    <3>2. q.id = f.id /\ q.src = h BY <1>4, <1>6, <2>1, <2>3, <3>1
    <3>3. q.n <= f.n /\ (q.n = f.n => q.src \notin ToSet(f.left)) BY <1>5, <2>1, <3>1, <3>2 DEF Sent
    <3>4. q.n \in Nat BY DEF Output
    <3>5. q.n < f.n BY <1>1, <1>2, <3>2, <3>3, <3>4
    <3> QED BY <1>4, <1>6, <2>1, <2>3, <3>1, <3>5
  <2> QED BY <1>7, <2>2, <2>3
<1>10. Beyond(f, o, o2) BY <1>2, <1>4, <1>5, <1>6, <1>7 DEF Beyond
<1>11. \A k \in 1 .. Len(o2) : o2[k].id # f.id => k \in 1 .. Len(o) /\ o2[k] = o[k]
  BY <1>4, <1>5, <1>6, <1>7
<1>12. ASSUME NEW i, NEW n, NEW src, Passed(i, n, src, o, l) PROVE Passed(i, n, src, o2, l)
  <2>1. CASE <<i, n, src>> \in l BY <2>1 DEF Passed
  <2>2. CASE \E k \in 1 .. Len(o) : o[k].id = i /\ o[k].n = n /\ o[k].src = src
    <3>1. PICK k \in 1 .. m : o[k].id = i /\ o[k].n = n /\ o[k].src = src BY <1>5, <2>2
    <3>2. k \in 1 .. Len(o2) /\ o2[k] = o[k] BY <1>6, <3>1
    <3> QED BY <3>1, <3>2 DEF Passed
  <2> QED BY <1>12, <2>1, <2>2 DEF Passed
<1>13. Passed(f.id, f.n, Head(f.left), o2, l)
  <2>1. m + 1 \in 1 .. Len(o2) BY <1>6
  <2> QED BY <1>2, <1>4, <1>6, <2>1 DEF Passed
<1>14. More(f.id, o, l, o2, l) BY <1>11, <1>12 DEF More
<1> QED BY <1>6, <1>8, <1>9, <1>10, <1>13, <1>14

\* outb: a byte gets out, or is lost.
LEMMA OutInv == ASSUME ConsoleInv, Out PROVE ConsoleInv'
<1>0. stack # << >> /\ UNCHANGED <<sources, callers, buf>> BY DEF Out
<1>1. PICK f \in Frame, who \in Who, b \in [1 .. BufSize -> Nat] :
        /\ f = Top /\ f.id \in 1 .. Len(callers) /\ who = callers[f.id] /\ b = buf[f.id]
        /\ Running(f, who, b, out, lost)
  BY <1>0, TopFacts
<1>2. Placed(f, who, b) /\ Writing(f, who) /\ Sent(f, out, lost) BY <1>1 DEF Running
<1>3. f.left # << >> BY <1>1, <1>2 DEF Out, Writing
<1>4. PICK t \in Seq(Source) : t = Tail(f.left)
  <2>1. PICK s \in Seq(Source) : s = f.left /\ s # << >> BY <1>3 DEF Frame
  <2>2. Tail(s) \in Seq(Source) BY <2>1, HeadTailProperties
  <2> QED BY <2>1, <2>2
<1>5. PICK g : g = [f EXCEPT !.outb = "no", !.left = t] OBVIOUS
<1>6. g \in Frame BY <1>5 DEF Frame
<1>7. /\ g.id = f.id /\ g.call = f.call /\ g.k = f.k /\ g.at = f.at /\ g.u = f.u /\ g.s = f.s
      /\ g.byte = f.byte /\ g.n = f.n /\ g.left = t /\ g.outb = "no"
  BY <1>5 DEF Frame
<1>8. Set(g) BY <1>1, <1>4, <1>5 DEF Out
<1>9. Placed(g, who, b) BY <1>2, <1>7, PlacedSame
<1>10. Writing(g, who) BY <1>2, <1>3, <1>7 DEF Writing
<1>11. PICK o, l, o2, l2, cl :
         o = out /\ l = lost /\ o2 = out' /\ l2 = lost' /\ cl = callers
  OBVIOUS
<1>12. o \in Seq(Output) /\ Faithful(o, cl) /\ Ordered(o) BY <1>11 DEF ConsoleInv, ConsoleTypeOK
<1>13. /\ o2 \in Seq(Output) /\ Faithful(o2, cl) /\ Ordered(o2)
       /\ More(f.id, o, l, o2, l2) /\ Passed(f.id, f.n, Head(f.left), o2, l2)
       /\ Beyond(f, o, o2)
  <2>1. CASE f.outb = "red_zone"
    <3>1. PICK r : r = Put(f) OBVIOUS
    <3>2. o2 = Append(o, r) /\ l2 = l BY <1>1, <1>11, <2>1, <3>1 DEF Out, Put
    <3>3. f.id \in 1 .. Len(cl) /\ Sent(f, o, l) /\ Writing(f, cl[f.id]) BY <1>1, <1>2, <1>11
    <3>4. /\ o2 \in Seq(Output) /\ Faithful(o2, cl) /\ Ordered(o2)
          /\ More(f.id, o, l, o2, l) /\ Passed(f.id, f.n, Head(f.left), o2, l)
          /\ Beyond(f, o, o2)
      BY <1>3, <1>12, <3>1, <3>2, <3>3, PutOut
    <3> QED BY <3>2, <3>4
  <2>2. CASE f.outb # "red_zone"
    <3>1. o2 = o /\ l2 = l \cup {<<f.id, f.n, Head(f.left)>>} BY <1>1, <1>11, <2>2 DEF Out
    <3>2. \A i, n, src : Passed(i, n, src, o, l) => Passed(i, n, src, o2, l2) BY <3>1 DEF Passed
    <3>3. Passed(f.id, f.n, Head(f.left), o2, l2) BY <3>1 DEF Passed
    <3>4. More(f.id, o, l, o2, l2) BY <3>1, <3>2 DEF More
    <3>5. Beyond(f, o, o2) BY <3>1 DEF Beyond
    <3> QED BY <1>12, <3>1, <3>3, <3>4, <3>5
  <2> QED BY <2>1, <2>2
<1>14. Sent(g, o2, l2)
  <2>1. Sent(f, o, l) /\ g.id = f.id /\ g.n = f.n /\ g.left = Tail(f.left) BY <1>2, <1>4, <1>7, <1>11
  <2> QED BY <1>3, <1>6, <1>12, <1>13, <2>1, SentHead
<1>15. Running(g, callers[g.id], buf'[g.id], out', lost')
  BY <1>0, <1>1, <1>7, <1>9, <1>10, <1>11, <1>14 DEF Running
<1>16. /\ buf' \in [Id -> [1 .. BufSize -> Nat]]
       /\ \A id \in 1 .. Len(callers) : id # g.id => buf'[id] = buf[id]
  BY <1>0 DEF ConsoleInv, ConsoleTypeOK
<1>17. /\ out' \in Seq(Output) /\ More(g.id, out, lost, out', lost')
       /\ Faithful(out', callers) /\ Ordered(out')
  BY <1>7, <1>11, <1>13
<1>18. g.id = Top.id BY <1>1, <1>7
<1> QED BY <1>0, <1>6, <1>8, <1>15, <1>16, <1>17, <1>18, TopStep

\* A new activation has written nothing.
LEMMA NewFresh ==
  ASSUME ConsoleInv
  PROVE  \E g \in Frame : g = New /\ Fresh(g, Len(callers) + 1)
<1>1. PICK n \in Nat : n = Len(callers) + 1
  <2>1. PICK cl \in Seq(Who) : cl = callers BY DEF ConsoleInv, ConsoleTypeOK
  <2>2. Len(cl) + 1 \in Nat OBVIOUS
  <2> QED BY <2>1, <2>2
<1>2. PICK g : g = New OBVIOUS
<1>3. g = [id |-> n, call |-> 1, k |-> 1, at |-> "fmt", u |-> 0, s |-> 0,
           byte |-> 0, n |-> 0, left |-> << >>, outb |-> "no"]
  BY <1>1, <1>2 DEF New
<1>4. << >> \in Seq(Source) BY EmptySeq
<1>5. g \in Frame BY <1>3, <1>4 DEF Frame
<1>6. /\ g.id = n /\ g.call = 1 /\ g.k = 1 /\ g.at = "fmt" /\ g.n = 0
      /\ g.left = << >> /\ g.outb = "no"
  BY <1>3
<1>7. Fresh(g, n) BY <1>5, <1>6 DEF Fresh
<1> QED BY <1>1, <1>2, <1>5, <1>7

\* Someone begins to print, on top of a stack that satisfies the invariant.
LEMMA BeginInv ==
  ASSUME ConsoleInv, NEW st, NEW who \in Who,
         StackInv(st, callers, buf, out, lost), Complete(st, callers, out, lost),
         Len(callers) <= MaxEvents, ToSet(sources) = Source,
         stack' = Append(st, New), callers' = Append(callers, who),
         UNCHANGED <<sources, buf, out, lost>>
  PROVE  ConsoleInv'
<1>1. PICK g \in Frame : g = New /\ Fresh(g, Len(callers) + 1) BY NewFresh
<1>2. PICK cl, bf, o, l : cl = callers /\ bf = buf /\ o = out /\ l = lost OBVIOUS
<1>3. cl \in Seq(Who) /\ Faithful(o, cl) BY <1>2 DEF ConsoleInv, ConsoleTypeOK
<1>4. StackInv(st, cl, bf, o, l) /\ Complete(st, cl, o, l) /\ Fresh(g, Len(cl) + 1) BY <1>1, <1>2
<1>5. /\ StackInv(Append(st, g), Append(cl, who), bf, o, l)
      /\ Complete(Append(st, g), Append(cl, who), o, l)
      /\ Faithful(o, Append(cl, who))
  BY <1>3, <1>4, PushTop
<1>6. /\ StackInv(stack', callers', buf', out', lost') /\ Complete(stack', callers', out', lost')
      /\ Faithful(out', callers')
  BY <1>1, <1>2, <1>5
<1>7. Append(cl, who) \in Seq(Who) /\ Len(Append(cl, who)) = Len(cl) + 1 /\ Len(cl) \in Nat BY <1>3
<1>8. MaxEvents \in Nat BY ConsoleAssumption
<1>9. callers' \in Seq(Who) /\ Len(callers') <= MaxEvents + 1 BY <1>2, <1>7, <1>8
<1>10. ConsoleTypeOK' BY <1>9 DEF ConsoleInv, ConsoleTypeOK
<1>11. Ordered(out') BY DEF ConsoleInv
<1> QED BY <1>6, <1>10, <1>11 DEF ConsoleInv

\* Before anyone prints there is neither an activation nor output.
LEMMA Silent ==
  ASSUME ConsoleInv, callers = << >>
  PROVE  stack = << >> /\ out = << >>
<1>1. PICK st, cl, bf, o, l : st = stack /\ cl = callers /\ bf = buf /\ o = out /\ l = lost OBVIOUS
<1>2. StackInv(st, cl, bf, o, l) /\ Faithful(o, cl) /\ o \in Seq(Output) /\ st \in Seq(Frame)
  BY <1>1 DEF ConsoleInv, ConsoleTypeOK, StackInv
<1>3. 1 .. Len(cl) = {} BY <1>1, EmptySeq
<1>4. ASSUME st # << >> PROVE FALSE
  <2>1. 1 \in 1 .. Len(st) BY <1>2, <1>4, EmptySeq
  <2>2. st[1].id \in 1 .. Len(cl) BY <1>2, <2>1 DEF StackInv
  <2> QED BY <1>3, <2>2
<1>5. ASSUME o # << >> PROVE FALSE
  <2>1. 1 \in 1 .. Len(o) BY <1>2, <1>5, EmptySeq
  <2>2. o[1].id \in 1 .. Len(cl) BY <1>2, <2>1 DEF Faithful
  <2> QED BY <1>3, <2>2
<1> QED BY <1>1, <1>4, <1>5

\* A source is put into the chain.
LEMMA AddSourceInv == ASSUME ConsoleInv, NEW src \in Source, AddSource(src) PROVE ConsoleInv'
<1>1. PICK ss \in Seq(Source) : ss = sources /\ Distinct(ss) BY DEF ConsoleInv, ConsoleTypeOK
<1>2. PICK n \in Nat : n = Len(ss) BY LenProperties
<1>3. PICK s2 : s2 = <<src>> \o ss OBVIOUS
<1>4. /\ s2 \in Seq(Source) /\ Len(s2) = n + 1 /\ s2[1] = src
      /\ \A i \in 1 .. (n + 1) : i # 1 => s2[i] = ss[i - 1]
  BY <1>2, <1>3
<1>5. Distinct(s2)
  <2>1. \A i \in 1 .. n : ss[i] # src
    <3>1. src \notin ToSet(ss) BY <1>1 DEF AddSource
    <3>2. DOMAIN ss = 1 .. n BY <1>2
    <3> QED BY <3>1, <3>2 DEF ToSet
  <2>2. ASSUME NEW i \in 1 .. (n + 1), NEW j \in 1 .. (n + 1), s2[i] = s2[j] PROVE i = j
    <3>1. CASE i = 1 /\ j # 1
      <4>1. j - 1 \in 1 .. n BY <3>1
      <4> QED BY <1>4, <2>1, <2>2, <3>1, <4>1
    <3>2. CASE i # 1 /\ j = 1
      <4>1. i - 1 \in 1 .. n BY <3>2
      <4> QED BY <1>4, <2>1, <2>2, <3>2, <4>1
    <3>3. CASE i # 1 /\ j # 1
      <4>1. i - 1 \in 1 .. n /\ j - 1 \in 1 .. n BY <3>3
      <4>2. ss[i - 1] = ss[j - 1] BY <1>4, <2>2, <3>3
      <4>3. i - 1 = j - 1 BY <1>1, <1>2, <4>1, <4>2 DEF Distinct
      <4> QED BY <4>3
    <3> QED BY <3>1, <3>2, <3>3
  <2> QED BY <1>4, <2>2 DEF Distinct
<1>6. sources' = s2 /\ callers = << >> /\ UNCHANGED <<stack, callers, buf, out, lost>>
  BY <1>1, <1>3 DEF AddSource
<1>7. ConsoleTypeOK' BY <1>4, <1>5, <1>6 DEF ConsoleInv, ConsoleTypeOK
<1> QED BY <1>6, <1>7 DEF ConsoleInv

\* KernelMain prints.
LEMMA MainInv == ASSUME ConsoleInv, Main PROVE ConsoleInv'
<1>1. callers = << >> /\ stack = << >>
  <2>1. callers = << >> BY DEF Main
  <2> QED BY <2>1, Silent
<1>2. PICK st : st = stack OBVIOUS
<1>3. StackInv(st, callers, buf, out, lost) /\ Complete(st, callers, out, lost)
  BY <1>2 DEF ConsoleInv
<1>4. Len(callers) <= MaxEvents BY <1>1, EmptySeq, ConsoleAssumption
<1>5. stack' = Append(st, New)
  <2>1. PICK g : g = New OBVIOUS
  <2>2. stack' = <<g>> /\ Append(<< >>, g) = <<g>> BY <2>1 DEF Main
  <2> QED BY <1>1, <1>2, <2>1, <2>2
<1>6. PICK who \in Who : who = "main" BY DEF Who
<1>7. callers' = Append(callers, who)
  <2>1. Append(<< >>, who) = <<who>> OBVIOUS
  <2> QED BY <1>1, <1>6, <2>1 DEF Main
<1>8. ToSet(sources) = Source /\ UNCHANGED <<sources, buf, out, lost>> BY DEF Main
<1> QED BY <1>3, <1>4, <1>5, <1>7, <1>8, BeginInv

\* An interrupt comes, wherever vprintf is.
LEMMA InterruptInv ==
  ASSUME ConsoleInv, NEW who \in {"irq", "nmi"}, InterruptWrapper(who)
  PROVE  ConsoleInv'
<1>1. who \in Who BY DEF Who
<1>2. /\ Len(callers) \in 1 .. MaxEvents /\ callers' = Append(callers, who)
      /\ UNCHANGED <<sources, buf, out, lost>>
  BY DEF InterruptWrapper
<1>3. Len(callers) <= MaxEvents
  <2>1. MaxEvents \in Nat BY ConsoleAssumption
  <2> QED BY <1>2, <2>1
<1>4. ToSet(sources) = Source
  <2>1. callers # << >>
    <3>1. 1 .. 0 = {} /\ Len(<< >>) = 0 /\ 0 \notin 1 .. MaxEvents BY EmptySeq, ConsoleAssumption
    <3> QED BY <1>2, <3>1
  <2> QED BY <2>1 DEF ConsoleInv, ConsoleTypeOK
<1>5. PICK st : st = IF stack = << >> \/ Top.outb = "no" THEN stack
                     ELSE Append(Front(stack), [Top EXCEPT !.outb = "gone"])
  OBVIOUS
<1>6. stack' = Append(st, New) BY <1>5 DEF InterruptWrapper
<1>7. StackInv(st, callers, buf, out, lost) /\ Complete(st, callers, out, lost)
  <2>1. CASE stack = << >> \/ Top.outb = "no" BY <1>5, <2>1 DEF ConsoleInv
  <2>2. CASE ~ (stack = << >> \/ Top.outb = "no")
    <3>1. PICK f \in Frame, w \in Who, b \in [1 .. BufSize -> Nat] :
            /\ f = Top /\ w = callers[f.id] /\ b = buf[f.id]
            /\ Running(f, w, b, out, lost)
      BY <2>2, TopFacts
    <3>2. PICK s, cl, bf, o, l : s = stack /\ cl = callers /\ bf = buf /\ o = out /\ l = lost OBVIOUS
    <3>3. PICK g : g = [f EXCEPT !.outb = "gone"] OBVIOUS
    <3>4. g \in Frame BY <3>3 DEF Frame
    <3>5. /\ g.id = f.id /\ g.call = f.call /\ g.k = f.k /\ g.at = f.at /\ g.u = f.u /\ g.s = f.s
          /\ g.byte = f.byte /\ g.n = f.n /\ g.left = f.left /\ g.outb = "gone"
      BY <3>3 DEF Frame
    <3>6. Running(g, w, b, o, l)
      <4>1. Placed(f, w, b) /\ Writing(f, w) /\ Sent(f, o, l) BY <3>1, <3>2 DEF Running
      <4>2. Placed(g, w, b) BY <3>5, <4>1, PlacedSame
      <4>3. f.outb # "no" BY <2>2, <3>1
      <4>4. Writing(g, w) BY <3>5, <4>1, <4>3 DEF Writing
      <4>5. Sent(g, o, l) BY <3>4, <3>5, <4>1, SentSame
      <4> QED BY <4>2, <4>4, <4>5 DEF Running
    <3>7. /\ StackInv(s, cl, bf, o, l) /\ cl \in Seq(Who) /\ Complete(s, cl, o, l)
          /\ s # << >> /\ g.id = Last(s).id
      BY <2>2, <3>1, <3>2, <3>5 DEF ConsoleInv, ConsoleTypeOK, Top
    <3>8. More(g.id, o, l, o, l) BY MoreSame
    <3>9. Running(g, cl[g.id], bf[g.id], o, l) BY <3>1, <3>2, <3>5, <3>6
    <3>10. StackInv(Append(Front(s), g), cl, bf, o, l) BY <3>4, <3>7, <3>8, <3>9, ReplaceTop
    <3>11. Complete(Append(Front(s), g), cl, o, l) BY <3>4, <3>7, <3>8, ReplaceComplete
    <3>12. st = Append(Front(s), g) BY <1>5, <2>2, <3>1, <3>2, <3>3
    <3> QED BY <3>2, <3>10, <3>11, <3>12
  <2> QED BY <2>1, <2>2
<1> QED BY <1>1, <1>2, <1>3, <1>4, <1>6, <1>7, BeginInv

\* Every step keeps the invariant.
LEMMA ConsoleStep == ConsoleInv /\ [Next]_vars => ConsoleInv'
<1> SUFFICES ASSUME ConsoleInv, [Next]_vars PROVE ConsoleInv' OBVIOUS
<1>1. CASE UNCHANGED vars BY <1>1 DEF vars, ConsoleInv, ConsoleTypeOK
<1>2. CASE Next
  <2>1. ASSUME NEW src \in Source, AddSource(src) PROVE ConsoleInv' BY <2>1, AddSourceInv
  <2>2. CASE Main BY <2>2, MainInv
  <2>3. CASE Convert BY <2>3, ConvertInv
  <2>4. CASE String BY <2>4, StringInv
  <2>5. CASE Push BY <2>5, PushInv
  <2>6. CASE Pop BY <2>6, PopInv
  <2>7. CASE Return BY <2>7, ReturnInv
  <2>8. CASE OutB BY <2>8, OutBInv
  <2>9. CASE Out BY <2>9, OutInv
  <2>10. ASSUME NEW who \in {"irq", "nmi"}, InterruptWrapper(who) PROVE ConsoleInv'
    BY <2>10, InterruptInv
  <2> QED
    BY <1>2, <2>1, <2>2, <2>3, <2>4, <2>5, <2>6, <2>7, <2>8, <2>9, <2>10 DEF Next, Cpu
<1> QED BY <1>1, <1>2

\* The inductive invariant of vprintf and its interrupts: every activation on the
\* stack has written exactly the bytes that its place in its formats says.
THEOREM ConsoleInductive == Spec => []ConsoleInv
<1>1. Init => ConsoleInv BY InitConsoleInv
<1>2. ConsoleInv /\ [Next]_vars => ConsoleInv' BY ConsoleStep
<1> QED BY <1>1, <1>2, PTL DEF Spec

\* What Rendered says of one activation.
AllOf(id, text, mine, st, o, l) ==
  /\ \A k \in mine : o[k].n \in DOMAIN text /\ o[k].byte = text[o[k].n]
  /\ \A j, k \in mine : j < k /\ o[j].src = o[k].src => o[j].n < o[k].n
  /\ (\A k \in DOMAIN st : st[k].id # id) =>
       \A n \in DOMAIN text, src \in Source :
         <<id, n, src>> \in l \/ \E k \in mine : o[k].n = n /\ o[k].src = src

\* Whoever interrupts vprintf, and wherever, every activation's bytes reach every
\* source as its formats say, in order, none twice, and none is missing but those
\* whose OutB was interrupted: for all formats, arguments, sources and interrupts.
THEOREM AlwaysRendered == Spec => []Rendered
<1>1. ConsoleInv => Rendered
  <2> SUFFICES ASSUME ConsoleInv PROVE Rendered OBVIOUS
  <2>1. PICK st, cl, o, l : st = stack /\ cl = callers /\ o = out /\ l = lost OBVIOUS
  <2>2. /\ cl \in Seq(Who) /\ st \in Seq(Frame) /\ o \in Seq(Output)
        /\ Faithful(o, cl) /\ Ordered(o) /\ Complete(st, cl, o, l)
    BY <2>1 DEF ConsoleInv, ConsoleTypeOK, StackInv
  <2>3. DOMAIN cl = 1 .. Len(cl) /\ DOMAIN st = 1 .. Len(st) /\ DOMAIN o = 1 .. Len(o) BY <2>2
  <2> SUFFICES ASSUME NEW id \in DOMAIN callers
               PROVE  AllOf(id, Messages(callers[id]), {k \in DOMAIN out : out[k].id = id},
                            stack, out, lost)
    BY DEF Rendered, Done, AllOf
  <2>4. PICK text, mine : text = Messages(cl[id]) /\ mine = {k \in DOMAIN o : o[k].id = id} OBVIOUS
  <2>5. id \in 1 .. Len(cl) BY <2>1, <2>3
  <2>6. DOMAIN text = 1 .. Len(text)
    <3>1. PICK who \in Who : who = cl[id] BY <2>2, <2>5, ElementOfSeq
    <3>2. text \in Seq(0 .. 255) BY <2>4, <3>1, PosIs
    <3> QED BY <3>2
  <2>7. ASSUME NEW k \in mine PROVE o[k].n \in DOMAIN text /\ o[k].byte = text[o[k].n]
    BY <2>2, <2>3, <2>6, <2>4 DEF Faithful
  <2>8. ASSUME NEW j \in mine, NEW k \in mine, j < k, o[j].src = o[k].src PROVE o[j].n < o[k].n
    BY <2>2, <2>3, <2>8, <2>4 DEF Ordered
  <2>9. ASSUME \A k \in DOMAIN st : st[k].id # id, NEW n \in DOMAIN text, NEW src \in Source
        PROVE  <<id, n, src>> \in l \/ \E k \in mine : o[k].n = n /\ o[k].src = src
    <3>1. Passed(id, n, src, o, l) BY <2>2, <2>3, <2>6, <2>9, <2>4, <2>5 DEF Complete
    <3> QED BY <2>3, <2>4, <3>1 DEF Passed
  <2>10. AllOf(id, text, mine, st, o, l) BY <2>7, <2>8, <2>9 DEF AllOf
  <2> QED BY <2>1, <2>10, <2>4
<1> QED BY <1>1, ConsoleInductive, PTL
=============================================================================
