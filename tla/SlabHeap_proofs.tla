-------------------------- MODULE SlabHeap_proofs --------------------------
(***************************************************************************)
(* The object heap for any number of pages, any MetaSlab size and any      *)
(* requests: the pages accounted for, the queues and counters exact, every *)
(* held object found again, and the abstract heap implemented.             *)
(***************************************************************************)
EXTENDS SlabHeap, SequenceTheorems, FiniteSetTheorems, TLAPS

(***************************************************************************)
(* Lists.                                                                  *)
(***************************************************************************)

\* No element is listed twice.
Once(q) == \A j, l \in 1 .. Len(q) : q[j] = q[l] => j = l

\* The elements of a list, by position.
LEMMA Elements ==
  ASSUME NEW S, NEW q \in Seq(S)
  PROVE  /\ Len(q) \in Nat /\ DOMAIN q = 1 .. Len(q)
         /\ ToSet(q) = {q[j] : j \in 1 .. Len(q)}
         /\ ToSet(q) \subseteq S
         /\ q # << >> => Len(q) >= 1
         /\ ToSet(<< >>) = {}
<1>1. DOMAIN q = 1 .. Len(q) /\ Len(q) \in Nat
  BY LenProperties
<1>2. \A j \in 1 .. Len(q) : q[j] \in S
  BY ElementOfSeq
<1>3. q # << >> => Len(q) >= 1
  BY EmptySeq
<1>4. ToSet(<< >>) = {}
  BY DEF ToSet
<1> QED BY <1>1, <1>2, <1>3, <1>4 DEF ToSet

\* ListNode::InsertAfter of a list's head.
LEMMA Prepend ==
  ASSUME NEW S, NEW q \in Seq(S), NEW e \in S
  PROVE  /\ <<e>> \o q \in Seq(S)
         /\ ToSet(<<e>> \o q) = ToSet(q) \cup {e}
         /\ Once(q) /\ e \notin ToSet(q) => Once(<<e>> \o q)
<1> DEFINE r == <<e>> \o q
<1>1. <<e>> \in Seq(S) /\ Len(<<e>>) = 1 /\ <<e>>[1] = e
  OBVIOUS
<1>2. /\ r \in Seq(S) /\ Len(r) = Len(q) + 1
      /\ \A j \in 1 .. (Len(q) + 1) : r[j] = IF j <= 1 THEN <<e>>[j] ELSE q[j - 1]
  BY <1>1, ConcatProperties
<1>3. Len(q) \in Nat /\ ToSet(q) = {q[j] : j \in 1 .. Len(q)}
  BY Elements
<1> HIDE DEF r
<1>4. ToSet(r) = {r[j] : j \in 1 .. Len(r)}
  BY <1>2, Elements
<1>5. r[1] = e /\ \A j \in 2 .. (Len(q) + 1) : r[j] = q[j - 1] /\ j - 1 \in 1 .. Len(q)
  BY <1>1, <1>2, <1>3
<1>6. \A j \in 1 .. Len(q) : q[j] = r[j + 1] /\ j + 1 \in 1 .. Len(r)
  BY <1>2, <1>3, <1>5
<1>7. ToSet(r) = ToSet(q) \cup {e}
  <2>1. ToSet(r) \subseteq ToSet(q) \cup {e}
    BY <1>2, <1>3, <1>4, <1>5
  <2>2. 1 \in 1 .. Len(r)
    BY <1>2, <1>3
  <2>3. ToSet(q) \cup {e} \subseteq ToSet(r)
    BY <1>3, <1>4, <1>5, <1>6, <2>2
  <2> QED BY <2>1, <2>3
<1>8. ASSUME Once(q), e \notin ToSet(q) PROVE Once(r)
  <2> SUFFICES ASSUME NEW j \in 1 .. Len(r), NEW l \in 1 .. Len(r), r[j] = r[l]
               PROVE  j = l
    BY DEF Once
  <2>1. (j = 1 /\ r[j] = e) \/ (j - 1 \in 1 .. Len(q) /\ r[j] = q[j - 1])
    BY <1>2, <1>3, <1>5
  <2>2. (l = 1 /\ r[l] = e) \/ (l - 1 \in 1 .. Len(q) /\ r[l] = q[l - 1])
    BY <1>2, <1>3, <1>5
  <2>3. (j = 1 /\ l = 1) \/ j - 1 = l - 1
    BY <1>3, <1>8, <2>1, <2>2 DEF Once
  <2> QED BY <2>3
<1> QED BY <1>2, <1>7, <1>8 DEF r

\* ListNode::Delete.
LEMMA Removed ==
  ASSUME NEW S, NEW q \in Seq(S), NEW e, Once(q)
  PROVE  /\ RemoveFirst(q, e) \in Seq(S)
         /\ ToSet(RemoveFirst(q, e)) = ToSet(q) \ {e}
         /\ Once(RemoveFirst(q, e))
<1>0. Len(q) \in Nat /\ ToSet(q) = {q[j] : j \in 1 .. Len(q)}
  BY Elements
<1>1. CASE ~\E j \in 1 .. Len(q) : q[j] = e
  <2>1. RemoveFirst(q, e) = q
    BY <1>1 DEF RemoveFirst
  <2> QED BY <1>0, <1>1, <2>1
<1>2. CASE \E j \in 1 .. Len(q) : q[j] = e
  <2>1. PICK i \in 1 .. Len(q) : q[i] = e
    BY <1>2
  <2>2. {j \in 1 .. Len(q) : q[j] = e} = {i}
    BY <2>1 DEF Once
  <2>3. SelectInSeq(q, LAMBDA v : v = e) = i
    <3>1. Min({i}) = i
      BY <1>0, <2>1 DEF Min
    <3> QED BY <2>2, <3>1 DEF SelectInSeq
  <2> DEFINE a == SubSeq(q, 1, i - 1)
             b == SubSeq(q, i + 1, Len(q))
             r == a \o b
  <2>4. RemoveFirst(q, e) = r
    BY <1>2, <2>3 DEF RemoveFirst, RemoveAt
  <2>5. \A j \in 1 .. Len(q) : q[j] \in S
    BY ElementOfSeq
  <2>6. /\ a \in Seq(S) /\ Len(a) = i - 1
        /\ \A j \in 1 .. (i - 1) : a[j] = q[j]
    <3>1. /\ a \in Seq(S) /\ Len(a) = IF 1 <= i - 1 THEN i - 1 - 1 + 1 ELSE 0
          /\ \A j \in 1 .. (i - 1 - 1 + 1) : a[j] = q[1 + j - 1]
      BY <1>0, <2>1, <2>5, SubSeqProperties
    <3> HIDE DEF a
    <3> QED BY <1>0, <2>1, <3>1
  <2>7. /\ b \in Seq(S) /\ Len(b) = Len(q) - i
        /\ \A j \in 1 .. (Len(q) - i) : b[j] = q[i + j]
    <3>1. /\ b \in Seq(S) /\ Len(b) = IF i + 1 <= Len(q) THEN Len(q) - (i + 1) + 1 ELSE 0
          /\ \A j \in 1 .. (Len(q) - (i + 1) + 1) : b[j] = q[i + 1 + j - 1]
      BY <1>0, <2>1, <2>5, SubSeqProperties
    <3> HIDE DEF b
    <3> QED BY <1>0, <2>1, <3>1
  <2> HIDE DEF a, b
  <2>8. /\ r \in Seq(S) /\ Len(r) = Len(q) - 1
        /\ \A j \in 1 .. (Len(q) - 1) : r[j] = IF j < i THEN q[j] ELSE q[j + 1]
    <3>1. /\ r \in Seq(S) /\ Len(r) = Len(a) + Len(b)
          /\ \A j \in 1 .. (Len(a) + Len(b)) : r[j] = IF j <= Len(a) THEN a[j] ELSE b[j - Len(a)]
      BY <2>6, <2>7, ConcatProperties
    <3> HIDE DEF r
    <3>2. Len(a) + Len(b) = Len(q) - 1
      BY <1>0, <2>1, <2>6, <2>7
    <3>3. ASSUME NEW j \in 1 .. (Len(q) - 1) PROVE r[j] = IF j < i THEN q[j] ELSE q[j + 1]
      <4>1. CASE j < i
        BY <1>0, <2>1, <2>6, <3>1, <3>2, <4>1
      <4>2. CASE ~(j < i)
        <5>1. j - Len(a) \in 1 .. (Len(q) - i) /\ i + (j - Len(a)) = j + 1 /\ ~(j <= Len(a))
          BY <1>0, <2>1, <2>6, <4>2
        <5> QED BY <2>7, <3>1, <3>2, <4>2, <5>1
      <4> QED BY <4>1, <4>2
    <3> QED BY <3>1, <3>2, <3>3
  <2> HIDE DEF r
  <2>9. ToSet(r) = {r[j] : j \in 1 .. Len(r)}
    BY <2>8, Elements
  <2>10. ASSUME NEW j \in 1 .. Len(r) PROVE \E l \in 1 .. Len(q) : l # i /\ r[j] = q[l]
    <3>1. j \in 1 .. (Len(q) - 1)
      BY <2>8
    <3>2. CASE j < i
      <4>1. j \in 1 .. Len(q) /\ j # i
        BY <1>0, <2>1, <3>1, <3>2
      <4> QED BY <2>8, <3>1, <3>2, <4>1
    <3>3. CASE ~(j < i)
      <4>1. j + 1 \in 1 .. Len(q) /\ j + 1 # i
        BY <1>0, <2>1, <3>1, <3>3
      <4> QED BY <2>8, <3>1, <3>3, <4>1
    <3> QED BY <3>2, <3>3
  <2>11. ASSUME NEW l \in 1 .. Len(q), l # i PROVE \E j \in 1 .. Len(r) : r[j] = q[l]
    <3>1. CASE l < i
      BY <1>0, <2>1, <2>8, <3>1
    <3>2. CASE l > i
      <4>1. l - 1 \in 1 .. Len(r) /\ ~(l - 1 < i) /\ (l - 1) + 1 = l
        BY <1>0, <2>1, <2>8, <3>2
      <4> QED BY <2>8, <4>1
    <3> QED BY <1>0, <2>1, <2>11, <3>1, <3>2
  <2>12. ToSet(r) = ToSet(q) \ {e}
    <3>1. \A l \in 1 .. Len(q) : q[l] = e <=> l = i
      BY <2>1 DEF Once
    <3>2. ToSet(r) \subseteq ToSet(q) \ {e}
      BY <1>0, <2>9, <2>10, <3>1
    <3>3. ToSet(q) \ {e} \subseteq ToSet(r)
      BY <1>0, <2>9, <2>11, <3>1
    <3> QED BY <3>2, <3>3
  <2>13. Once(r)
    <3> SUFFICES ASSUME NEW j \in 1 .. Len(r), NEW l \in 1 .. Len(r), r[j] = r[l]
                 PROVE  j = l
      BY DEF Once
    <3> DEFINE up(x) == IF x < i THEN x ELSE x + 1
    <3>1. /\ up(j) \in 1 .. Len(q) /\ r[j] = q[up(j)]
          /\ up(l) \in 1 .. Len(q) /\ r[l] = q[up(l)]
      BY <1>0, <2>1, <2>8
    <3>2. up(j) = up(l)
      BY <3>1 DEF Once
    <3> QED BY <1>0, <2>1, <2>8, <3>2
  <2> QED BY <2>4, <2>8, <2>12, <2>13
<1> QED BY <1>1, <1>2

\* AllocPage takes the first element.
LEMMA TakeHead ==
  ASSUME NEW S, NEW q \in Seq(S), Once(q), q # << >>
  PROVE  /\ Head(q) \in ToSet(q) /\ Head(q) \in S
         /\ Tail(q) \in Seq(S) /\ Len(Tail(q)) = Len(q) - 1
         /\ ToSet(Tail(q)) = ToSet(q) \ {Head(q)}
         /\ Once(Tail(q))
<1> DEFINE r == Tail(q)
<1>1. /\ Head(q) = q[1] /\ Head(q) \in S /\ r \in Seq(S) /\ Len(r) = Len(q) - 1
      /\ \A j \in 1 .. Len(r) : r[j] = q[j + 1]
  BY HeadTailProperties
<1>2. Len(q) \in Nat /\ Len(q) >= 1 /\ ToSet(q) = {q[j] : j \in 1 .. Len(q)}
  BY Elements
<1> HIDE DEF r
<1>3. ToSet(r) = {r[j] : j \in 1 .. Len(r)}
  BY <1>1, Elements
<1>4. 1 \in 1 .. Len(q) /\ \A j \in 1 .. Len(r) : j + 1 \in 1 .. Len(q) /\ j + 1 # 1
  BY <1>1, <1>2
<1>5. \A j \in 1 .. Len(q) : j # 1 => j - 1 \in 1 .. Len(r) /\ (j - 1) + 1 = j
  BY <1>1, <1>2
<1>6. ToSet(r) \subseteq ToSet(q) \ {q[1]}
  BY <1>1, <1>2, <1>3, <1>4 DEF Once
<1>7. ToSet(q) \ {q[1]} \subseteq ToSet(r)
  <2> SUFFICES ASSUME NEW j \in 1 .. Len(q), q[j] # q[1] PROVE q[j] \in ToSet(r)
    BY <1>2
  <2> QED BY <1>1, <1>3, <1>5
<1>8. Once(r)
  BY <1>1, <1>2, <1>4 DEF Once
<1> QED BY <1>1, <1>2, <1>4, <1>6, <1>7, <1>8 DEF r

\* FreePages puts a run of n pages in front.
Linked(p, n, q) == [k \in 1 .. n |-> p + n - k] \o q

LEMMA PrependRun ==
  ASSUME NEW S, NEW q \in Seq(S), NEW p \in Nat, NEW n \in Nat, Once(q),
         Run(p, n) \subseteq S, \A x \in Run(p, n) : x \notin ToSet(q)
  PROVE  /\ Linked(p, n, q) \in Seq(S) /\ Once(Linked(p, n, q))
         /\ \A x : x \in ToSet(Linked(p, n, q)) <=> x \in ToSet(q) \/ x \in Run(p, n)
<1> DEFINE f == [k \in 1 .. n |-> p + n - k]
           r == f \o q
<1>1. \A k \in 1 .. n : p + n - k \in Run(p, n)
  BY DEF Run
<1>2. f \in Seq(S) /\ Len(f) = n /\ \A k \in 1 .. n : f[k] = p + n - k
  BY <1>1
<1>3. /\ Len(q) \in Nat /\ ToSet(q) = {q[j] : j \in 1 .. Len(q)}
  BY Elements
<1> HIDE DEF f
<1>4. /\ r \in Seq(S) /\ Len(r) = n + Len(q)
      /\ \A j \in 1 .. (n + Len(q)) : r[j] = IF j <= n THEN f[j] ELSE q[j - n]
  BY <1>2, ConcatProperties
<1> HIDE DEF r
<1>5. ToSet(r) = {r[j] : j \in 1 .. Len(r)}
  BY <1>4, Elements
<1>6. \A j \in 1 .. Len(r) : \/ j <= n /\ r[j] = p + n - j /\ r[j] \in Run(p, n)
                             \/ j - n \in 1 .. Len(q) /\ r[j] = q[j - n] /\ r[j] \in ToSet(q)
  BY <1>1, <1>2, <1>3, <1>4
<1>7. ToSet(r) = ToSet(q) \cup Run(p, n)
  <2>1. ToSet(r) \subseteq ToSet(q) \cup Run(p, n)
    BY <1>5, <1>6
  <2>2. ToSet(q) \subseteq ToSet(r)
    <3> SUFFICES ASSUME NEW j \in 1 .. Len(q) PROVE q[j] \in ToSet(r)
      BY <1>3
    <3>1. j + n \in 1 .. Len(r) /\ ~(j + n <= n) /\ (j + n) - n = j
      BY <1>3, <1>4
    <3> QED BY <1>4, <1>5, <3>1
  <2>3. Run(p, n) \subseteq ToSet(r)
    <3> SUFFICES ASSUME NEW x \in Run(p, n) PROVE x \in ToSet(r)
      OBVIOUS
    <3>1. p + n - x \in 1 .. n /\ p + n - (p + n - x) = x
      BY DEF Run
    <3>2. p + n - x \in 1 .. Len(r) /\ r[p + n - x] = x
      BY <1>2, <1>3, <1>4, <3>1
    <3> QED BY <1>5, <3>2
  <2> QED BY <2>1, <2>2, <2>3
<1>8. Once(r)
  <2> SUFFICES ASSUME NEW j \in 1 .. Len(r), NEW l \in 1 .. Len(r), r[j] = r[l]
               PROVE  j = l
    BY DEF Once
  <2>1. \/ j <= n /\ l <= n /\ p + n - j = p + n - l
        \/ /\ j - n \in 1 .. Len(q) /\ l - n \in 1 .. Len(q)
           /\ q[j - n] = q[l - n]
    BY <1>6
  <2>2. p + n - j = p + n - l \/ j - n = l - n
    BY <2>1 DEF Once
  <2> QED BY <1>4, <2>2
<1>9. Linked(p, n, q) = r
  BY DEF f, r, Linked
<1> QED BY <1>4, <1>7, <1>8, <1>9

\* AllocPages unlinks the pages of R.
LEMMA Kept ==
  ASSUME NEW S, NEW q \in Seq(S), NEW R, Once(q)
  PROVE  /\ Without(q, R) \in Seq(S) /\ Once(Without(q, R))
         /\ ToSet(Without(q, R)) = ToSet(q) \ R
<1> DEFINE kept == {k \in DOMAIN q : q[k] \notin R}
           rank(k) == Cardinality({j \in kept : j <= k})
           m == Cardinality(kept)
           at(n) == CHOOSE k \in kept : rank(k) = n
           r == [n \in 1 .. m |-> q[at(n)]]
           f == [k \in kept |-> rank(k)]
<1>0. Len(q) \in Nat /\ DOMAIN q = 1 .. Len(q) /\ ToSet(q) = {q[j] : j \in 1 .. Len(q)}
  BY Elements
<1>1. IsFiniteSet(kept) /\ kept \in SUBSET (1 .. Len(q)) /\ m \in Nat
  <2>1. kept \in SUBSET (1 .. Len(q))
    BY <1>0
  <2>2. IsFiniteSet(1 .. Len(q))
    BY <1>0, FS_Interval
  <2>3. IsFiniteSet(kept)
    <3> HIDE DEF kept
    <3> QED BY <2>1, <2>2, FS_Subset
  <2> QED BY <2>1, <2>3, FS_CardinalityType
<1> HIDE DEF kept
<1>2. ASSUME NEW k \in kept
      PROVE  /\ rank(k) \in 1 .. m
             /\ \A j \in kept : j < k => rank(j) < rank(k)
  <2> DEFINE B(x) == {j \in kept : j <= x}
  <2>1. IsFiniteSet(B(k)) /\ B(k) \in SUBSET kept /\ k \in B(k)
    BY <1>1, FS_Subset
  <2>2. Cardinality(B(k)) \in Nat /\ Cardinality(B(k)) <= m /\ Cardinality(B(k)) # 0
    BY <1>1, <2>1, FS_Subset, FS_CardinalityType, FS_EmptySet
  <2>3. ASSUME NEW j \in kept, j < k PROVE Cardinality(B(j)) < Cardinality(B(k))
    <3>1. B(j) \in SUBSET B(k) /\ B(j) # B(k)
      <4>1. j \in Int /\ k \in Int /\ \A x \in kept : x \in Int
        BY <1>1
      <4>2. B(j) \in SUBSET B(k)
        <5> SUFFICES ASSUME NEW x \in kept, x <= j PROVE x <= k
          OBVIOUS
        <5> QED BY <2>3, <4>1
      <4>3. k \notin B(j)
        BY <2>3, <4>1
      <4> QED BY <2>1, <4>2, <4>3
    <3>2. Cardinality(B(j)) <= Cardinality(B(k)) /\ Cardinality(B(j)) # Cardinality(B(k))
      BY <2>1, <3>1, FS_Subset
    <3>3. Cardinality(B(j)) \in Nat
      BY <2>1, <3>1, FS_Subset, FS_CardinalityType
    <3> QED BY <2>2, <3>2, <3>3
  <2> QED BY <1>1, <2>2, <2>3
<1> HIDE DEF rank, m
<1>3. \A j, k \in kept : rank(j) = rank(k) => j = k
  BY <1>1, <1>2
<1>4. f \in Injection(kept, 1 .. m)
  BY <1>2, <1>3 DEF Injection, IsInjective
<1>5. \A n \in 1 .. m : \E k \in kept : rank(k) = n
  <2>1. IsFiniteSet(1 .. m) /\ Cardinality(1 .. m) = m
    BY <1>1, FS_Interval
  <2>2. f \in Surjection(kept, 1 .. m)
    BY <1>4, <2>1, FS_Injection DEF m
  <2> QED BY <2>2 DEF Surjection
<1>6. \A n \in 1 .. m : at(n) \in kept /\ rank(at(n)) = n
  BY <1>5
<1>7. \A k \in kept : at(rank(k)) = k /\ rank(k) \in 1 .. m
  BY <1>2, <1>3, <1>6
<1> HIDE DEF at
<1>8. r \in Seq(S) /\ Len(r) = m /\ \A n \in 1 .. m : r[n] = q[at(n)]
  <2>1. \A n \in 1 .. m : q[at(n)] \in S
    BY <1>1, <1>6, ElementOfSeq
  <2> QED BY <1>1, <2>1
<1>9. ToSet(r) = {r[n] : n \in 1 .. m}
  <2> HIDE DEF r
  <2> QED BY <1>8, Elements
<1> HIDE DEF r
<1>10. Once(r)
  <2> SUFFICES ASSUME NEW j \in 1 .. m, NEW l \in 1 .. m, r[j] = r[l] PROVE j = l
    BY <1>8 DEF Once
  <2>1. q[at(j)] = q[at(l)] /\ at(j) \in 1 .. Len(q) /\ at(l) \in 1 .. Len(q)
    BY <1>1, <1>6, <1>8
  <2>2. at(j) = at(l)
    BY <2>1 DEF Once
  <2> QED BY <1>6, <2>2
<1>11. ToSet(r) = {q[k] : k \in kept}
  BY <1>6, <1>7, <1>8, <1>9
<1>12. {q[k] : k \in kept} = ToSet(q) \ R
  BY <1>0 DEF kept
<1>13. Without(q, R) = r
  BY DEF Without, r, at, rank, m, kept
<1> QED BY <1>8, <1>10, <1>11, <1>12, <1>13

-----------------------------------------------------------------------------
(***************************************************************************)
(* Sizes.                                                                  *)
(***************************************************************************)

\* The powers of two that FitGlobalMemCache meets.
LEMMA Powers ==
  /\ Bit[0] = 1
  /\ Bit[1] = 2
  /\ Bit[2] = 4
  /\ Bit[3] = 8
  /\ Bit[4] = 16
  /\ Bit[5] = 32
  /\ Bit[6] = 64
  /\ Bit[7] = 128
  /\ Bit[8] = 256
  /\ Bit[9] = 512
  /\ Bit[10] = 1024
  /\ Bit[11] = 2048
  /\ Bit \in [0 .. 31 -> Nat]
  /\ \A b \in 11 .. 31 : Bit[b] >= 2048
<1>0. Bit[0] = 1  BY DEF Bit
<1>1. Bit[1] = 2  BY DEF Bit
<1>2. Bit[2] = 4  BY DEF Bit
<1>3. Bit[3] = 8  BY DEF Bit
<1>4. Bit[4] = 16  BY DEF Bit
<1>5. Bit[5] = 32  BY DEF Bit
<1>6. Bit[6] = 64  BY DEF Bit
<1>7. Bit[7] = 128  BY DEF Bit
<1>8. Bit[8] = 256  BY DEF Bit
<1>9. Bit[9] = 512  BY DEF Bit
<1>10. Bit[10] = 1024  BY DEF Bit
<1>11. Bit[11] = 2048  BY DEF Bit
<1>12. Bit[12] = 4096  BY DEF Bit
<1>13. Bit[13] = 8192  BY DEF Bit
<1>14. Bit[14] = 16384  BY DEF Bit
<1>15. Bit[15] = 32768  BY DEF Bit
<1>16. Bit[16] = 65536  BY DEF Bit
<1>17. Bit[17] = 131072  BY DEF Bit
<1>18. Bit[18] = 262144  BY DEF Bit
<1>19. Bit[19] = 524288  BY DEF Bit
<1>20. Bit[20] = 1048576  BY DEF Bit
<1>21. Bit[21] = 2097152  BY DEF Bit
<1>22. Bit[22] = 4194304  BY DEF Bit
<1>23. Bit[23] = 8388608  BY DEF Bit
<1>24. Bit[24] = 16777216  BY DEF Bit
<1>25. Bit[25] = 33554432  BY DEF Bit
<1>26. Bit[26] = 67108864  BY DEF Bit
<1>27. Bit[27] = 134217728  BY DEF Bit
<1>28. Bit[28] = 268435456  BY DEF Bit
<1>29. Bit[29] = 536870912  BY DEF Bit
<1>30. Bit[30] = 1073741824  BY DEF Bit
<1>31. Bit[31] = 2147483648  BY DEF Bit
<1> HIDE DEF Bit
<1>32. \A b \in 0 .. 31 : b \in 0 .. 7 \/ b \in 8 .. 15 \/ b \in 16 .. 23 \/ b \in 24 .. 31
  OBVIOUS
<1>33. \A b \in 0 .. 7 : Bit[b] \in Nat /\ (b >= 11 => Bit[b] >= 2048)
  BY <1>0, <1>1, <1>2, <1>3, <1>4, <1>5, <1>6, <1>7
<1>34. \A b \in 8 .. 15 : Bit[b] \in Nat /\ (b >= 11 => Bit[b] >= 2048)
  BY <1>8, <1>9, <1>10, <1>11, <1>12, <1>13, <1>14, <1>15
<1>35. \A b \in 16 .. 23 : Bit[b] \in Nat /\ (b >= 11 => Bit[b] >= 2048)
  BY <1>16, <1>17, <1>18, <1>19, <1>20, <1>21, <1>22, <1>23
<1>36. \A b \in 24 .. 31 : Bit[b] \in Nat /\ (b >= 11 => Bit[b] >= 2048)
  BY <1>24, <1>25, <1>26, <1>27, <1>28, <1>29, <1>30, <1>31
<1>37. \A b \in 0 .. 31 : Bit[b] \in Nat /\ (b >= 11 => Bit[b] >= 2048)
  BY <1>32, <1>33, <1>34, <1>35, <1>36
<1>38. Bit \in [0 .. 31 -> Nat]
  <2>1. Bit = [b \in 0 .. 31 |-> Bit[b]]
    BY Zenon DEF Bit
  <2> QED BY <1>37, <2>1
<1> QED BY <1>0, <1>1, <1>2, <1>3, <1>4, <1>5, <1>6, <1>7, <1>8, <1>9, <1>10, <1>11, <1>37, <1>38

\* FitGlobalMemCache finds a cache whose objects are large enough, and
\* finds a cache by its own object size.
LEMMA FitFacts ==
  ASSUME NEW size \in Nat, 2 <= size, size <= 2048
  PROVE  /\ Fit(size) \in Chunk /\ size <= Fit(size)
         /\ size \in Chunk => Fit(size) = size
<1> DEFINE Len2(b) == size - 1 < Bit[b] /\ (b = 0 \/ Bit[b - 1] <= size - 1)
           len == CHOOSE b \in 0 .. 31 : Len2(b)
<1>1. \E b \in 0 .. 31 : Len2(b)
  <2>1. CASE 2 <= size /\ size <= 2
    <3>1. 1 \in 0 .. 31 /\ Len2(1)
      BY <2>1, Powers
    <3> QED BY <3>1
  <2>2. CASE 3 <= size /\ size <= 4
    <3>1. 2 \in 0 .. 31 /\ Len2(2)
      BY <2>2, Powers
    <3> QED BY <3>1
  <2>3. CASE 5 <= size /\ size <= 8
    <3>1. 3 \in 0 .. 31 /\ Len2(3)
      BY <2>3, Powers
    <3> QED BY <3>1
  <2>4. CASE 9 <= size /\ size <= 16
    <3>1. 4 \in 0 .. 31 /\ Len2(4)
      BY <2>4, Powers
    <3> QED BY <3>1
  <2>5. CASE 17 <= size /\ size <= 32
    <3>1. 5 \in 0 .. 31 /\ Len2(5)
      BY <2>5, Powers
    <3> QED BY <3>1
  <2>6. CASE 33 <= size /\ size <= 64
    <3>1. 6 \in 0 .. 31 /\ Len2(6)
      BY <2>6, Powers
    <3> QED BY <3>1
  <2>7. CASE 65 <= size /\ size <= 128
    <3>1. 7 \in 0 .. 31 /\ Len2(7)
      BY <2>7, Powers
    <3> QED BY <3>1
  <2>8. CASE 129 <= size /\ size <= 256
    <3>1. 8 \in 0 .. 31 /\ Len2(8)
      BY <2>8, Powers
    <3> QED BY <3>1
  <2>9. CASE 257 <= size /\ size <= 512
    <3>1. 9 \in 0 .. 31 /\ Len2(9)
      BY <2>9, Powers
    <3> QED BY <3>1
  <2>10. CASE 513 <= size /\ size <= 1024
    <3>1. 10 \in 0 .. 31 /\ Len2(10)
      BY <2>10, Powers
    <3> QED BY <3>1
  <2>11. CASE 1025 <= size /\ size <= 2048
    <3>1. 11 \in 0 .. 31 /\ Len2(11)
      BY <2>11, Powers
    <3> QED BY <3>1
  <2> QED BY <2>1, <2>2, <2>3, <2>4, <2>5, <2>6, <2>7, <2>8, <2>9, <2>10, <2>11
<1>2. len \in 0 .. 31 /\ Len2(len)
  <2> HIDE DEF Len2
  <2> QED BY <1>1
<1> HIDE DEF len
<1>3. len \in 1 .. 11
  <2>1. len # 0
    BY <1>2, Powers
  <2>2. ~(len \in 12 .. 31)
    <3>1. len \in 12 .. 31 => len - 1 \in 11 .. 31
      OBVIOUS
    <3> QED BY <1>2, <2>1, <3>1, Powers
  <2> QED BY <1>2, <2>1, <2>2
<1>4. Fit(size) = 16 * Bit[IF len < 4 THEN 0 ELSE len - 4]
  BY DEF Fit, len
<1>11. CASE len = 1
  <2>1. Fit(size) = 16 /\ size <= 2 /\ size > 1
    BY <1>2, <1>4, <1>11, Powers
  <2> QED BY <2>1 DEF Chunk
<1>12. CASE len = 2
  <2>1. Fit(size) = 16 /\ size <= 4 /\ size > 2
    BY <1>2, <1>4, <1>12, Powers
  <2> QED BY <2>1 DEF Chunk
<1>13. CASE len = 3
  <2>1. Fit(size) = 16 /\ size <= 8 /\ size > 4
    BY <1>2, <1>4, <1>13, Powers
  <2> QED BY <2>1 DEF Chunk
<1>14. CASE len = 4
  <2>1. Fit(size) = 16 /\ size <= 16 /\ size > 8
    BY <1>2, <1>4, <1>14, Powers
  <2> QED BY <2>1 DEF Chunk
<1>15. CASE len = 5
  <2>1. Fit(size) = 32 /\ size <= 32 /\ size > 16
    BY <1>2, <1>4, <1>15, Powers
  <2> QED BY <2>1 DEF Chunk
<1>16. CASE len = 6
  <2>1. Fit(size) = 64 /\ size <= 64 /\ size > 32
    BY <1>2, <1>4, <1>16, Powers
  <2> QED BY <2>1 DEF Chunk
<1>17. CASE len = 7
  <2>1. Fit(size) = 128 /\ size <= 128 /\ size > 64
    BY <1>2, <1>4, <1>17, Powers
  <2> QED BY <2>1 DEF Chunk
<1>18. CASE len = 8
  <2>1. Fit(size) = 256 /\ size <= 256 /\ size > 128
    BY <1>2, <1>4, <1>18, Powers
  <2> QED BY <2>1 DEF Chunk
<1>19. CASE len = 9
  <2>1. Fit(size) = 512 /\ size <= 512 /\ size > 256
    BY <1>2, <1>4, <1>19, Powers
  <2> QED BY <2>1 DEF Chunk
<1>20. CASE len = 10
  <2>1. Fit(size) = 1024 /\ size <= 1024 /\ size > 512
    BY <1>2, <1>4, <1>20, Powers
  <2> QED BY <2>1 DEF Chunk
<1>21. CASE len = 11
  <2>1. Fit(size) = 2048 /\ size <= 2048 /\ size > 1024
    BY <1>2, <1>4, <1>21, Powers
  <2> QED BY <2>1 DEF Chunk
<1> QED BY <1>3, <1>11, <1>12, <1>13, <1>14, <1>15, <1>16, <1>17, <1>18, <1>19, <1>20, <1>21

\* The slots of a slab: some, finitely many, and within its page.
LEMMA SlotFacts ==
  /\ \A c \in Cache : Slots(c) # {} /\ Slots(c) \subseteq Nat /\ IsFiniteSet(Slots(c))
  /\ \A c \in Chunk : c \in Nat /\ 2 <= c /\ c <= 2048 /\ c # META
  /\ \A c \in Chunk : \A o \in Slots(c) : o * c \in Nat /\ (o + 1) * c <= PAGESIZE
  /\ Slots(META) = 1 .. MetaSlots
<1>1. \A c \in Chunk : c \in Nat /\ 2 <= c /\ c <= 2048 /\ c # META
  BY DEF Chunk, META
<1>2. /\ Slots(META) = 1 .. MetaSlots /\ Slots(META) # {} /\ Slots(META) \subseteq Nat
      /\ IsFiniteSet(Slots(META))
  <2>1. Slots(META) = 1 .. MetaSlots
    BY SMT DEF Slots
  <2>2. 1 \in 1 .. MetaSlots /\ 1 .. MetaSlots \subseteq Nat /\ IsFiniteSet(1 .. MetaSlots)
    BY HeapAssumption, FS_Interval, SMT
  <2> QED BY <2>1, <2>2, SMT
<1>3. ASSUME NEW n \in Nat
      PROVE  0 .. n # {} /\ 0 .. n \subseteq Nat /\ IsFiniteSet(0 .. n)
  <2>1. 0 \in 0 .. n /\ 0 .. n \subseteq Nat
    OBVIOUS
  <2>2. IsFiniteSet(0 .. n)
    BY FS_Interval
  <2> QED BY <2>1, <2>2, Zenon
<1> DEFINE Fits(c, n) == /\ n \in Nat /\ Slots(c) = 0 .. n
                         /\ \A o \in 0 .. n : o * c \in Nat /\ (o + 1) * c <= PAGESIZE
<1>4. ASSUME NEW c, NEW n, Fits(c, n)
      PROVE  /\ Slots(c) # {} /\ Slots(c) \subseteq Nat /\ IsFiniteSet(Slots(c))
             /\ \A o \in Slots(c) : o * c \in Nat /\ (o + 1) * c <= PAGESIZE
  BY <1>3, <1>4, Zenon
<1>5. Fits(16, 127)
  BY SMT DEF Slots, META, PAGESIZE
<1>6. Fits(32, 63)
  BY SMT DEF Slots, META, PAGESIZE
<1>7. Fits(64, 31)
  BY SMT DEF Slots, META, PAGESIZE
<1>8. Fits(128, 31)
  BY SMT DEF Slots, META, PAGESIZE
<1>9. Fits(256, 15)
  BY SMT DEF Slots, META, PAGESIZE
<1>10. Fits(512, 7)
  BY SMT DEF Slots, META, PAGESIZE
<1>11. Fits(1024, 3)
  BY SMT DEF Slots, META, PAGESIZE
<1>12. Fits(2048, 1)
  BY SMT DEF Slots, META, PAGESIZE
<1> HIDE DEF Fits
<1>13. \A c \in Chunk : \E n : Fits(c, n)
  BY <1>5, <1>6, <1>7, <1>8, <1>9, <1>10, <1>11, <1>12, SMT DEF Chunk
<1>14. ASSUME NEW c \in Chunk
       PROVE  /\ Slots(c) # {} /\ Slots(c) \subseteq Nat /\ IsFiniteSet(Slots(c))
              /\ \A o \in Slots(c) : o * c \in Nat /\ (o + 1) * c <= PAGESIZE
  BY <1>4, <1>13, Zenon
<1>15. \A c \in Cache : Slots(c) # {} /\ Slots(c) \subseteq Nat /\ IsFiniteSet(Slots(c))
  BY <1>2, <1>14, Zenon DEF Cache
<1> QED BY <1>1, <1>2, <1>14, <1>15

\* The pages of a large allocation hold it.
LEMMA NrPageFacts ==
  ASSUME NEW size \in Nat, size > 2048
  PROVE  /\ NrPage(size) \in Nat /\ NrPage(size) >= 1
         /\ size <= NrPage(size) * PAGESIZE
         /\ NrPage(size) * PAGESIZE > 2048 /\ NrPage(size) * PAGESIZE \in Nat
         /\ (NrPage(size) * PAGESIZE) \div PAGESIZE = NrPage(size)
<1> DEFINE d == (size - 1) \div 4096
<1>1. d \in Nat /\ size - 1 < (d + 1) * 4096
  BY SMT
<1>2. NrPage(size) = d + 1
  BY SMT DEF NrPage, PAGESIZE
<1> HIDE DEF d
<1>3. ((d + 1) * 4096) \div 4096 = d + 1
  BY <1>1, SMT
<1> QED BY <1>1, <1>2, <1>3, SMT DEF PAGESIZE

-----------------------------------------------------------------------------
(***************************************************************************)
(* The queues of a cache.                                                  *)
(***************************************************************************)

Members(q) == UNION {ToSet(q[k]) : k \in Kind}

\* One slab more, one less.
Plus(S, s) == S \cup {s}
Minus(S, s) == S \ {s}

Queues == [Kind -> Seq(Slab)]

\* The slabs of q are each in one queue, once, the one for their fill u[s].
QueueOK(c, q, u) ==
  /\ q \in Queues
  /\ \A k \in Kind : Once(q[k]) /\ \A s \in ToSet(q[k]) : Place(c, u[s]) = k

\* The fills u and v of all slabs of q other than s are the same.
SameBut(q, s, u, v) == \A t \in Members(q) \ {s} : v[t] = u[t]

LEMMA MembersBy ==
  ASSUME NEW q, NEW s
  PROVE  s \in Members(q) <=> \E k \in Kind : s \in ToSet(q[k])
BY DEF Members

\* A fill has one place.
LEMMA PlaceKind ==
  ASSUME NEW c, NEW u
  PROVE  Place(c, u) \in Kind
BY DEF Place, Kind

\* Nothing happens to the slabs of a cache.
LEMMA QueueSame ==
  ASSUME NEW c, NEW q, NEW u, NEW v, QueueOK(c, q, u), \A t \in Members(q) : v[t] = u[t]
  PROVE  QueueOK(c, q, v)
BY MembersBy DEF QueueOK

\* Delete.
LEMMA DeleteOK ==
  ASSUME NEW c, NEW q, NEW u, NEW v, NEW s, QueueOK(c, q, u), SameBut(q, s, u, v)
  PROVE  QueueOK(c, Delete(q, s), v) /\ Members(Delete(q, s)) = Minus(Members(q), s)
<1> DEFINE r == Delete(q, s)
<1>1. \A k \in Kind : /\ RemoveFirst(q[k], s) \in Seq(Slab)
                      /\ ToSet(RemoveFirst(q[k], s)) = ToSet(q[k]) \ {s}
                      /\ Once(RemoveFirst(q[k], s))
  BY Removed DEF QueueOK, Queues
<1>2. r = [k \in Kind |-> RemoveFirst(q[k], s)]
  BY DEF Delete
<1> HIDE DEF r
<1>3. /\ r \in Queues
      /\ \A k \in Kind : ToSet(r[k]) = ToSet(q[k]) \ {s} /\ Once(r[k])
  BY <1>1, <1>2 DEF Queues
<1>4. Members(r) = Members(q) \ {s}
  BY <1>3, MembersBy
<1>5. QueueOK(c, r, v)
  BY <1>3, MembersBy DEF QueueOK, SameBut
<1> QED BY <1>4, <1>5 DEF r, Minus

\* InsertAfter, of a slab that is in none of the queues.
LEMMA InsertOK ==
  ASSUME NEW c, NEW q, NEW u, NEW s \in Slab, QueueOK(c, q, u), s \notin Members(q)
  PROVE  /\ QueueOK(c, InsertAfter(q, Place(c, u[s]), s), u)
         /\ Members(InsertAfter(q, Place(c, u[s]), s)) = Plus(Members(q), s)
<1> DEFINE k == Place(c, u[s])
           r == InsertAfter(q, k, s)
           e == <<s>> \o q[k]
<1>0. k \in Kind
  BY PlaceKind
<1>1. s \notin ToSet(q[k])
  BY <1>0, MembersBy
<1> HIDE DEF k
<1>2. e \in Seq(Slab) /\ ToSet(e) = ToSet(q[k]) \cup {s} /\ Once(e)
  BY <1>0, <1>1, Prepend DEF QueueOK, Queues
<1>3. r = [q EXCEPT ![k] = e]
  BY DEF InsertAfter
<1> HIDE DEF r, e
<1>4. r \in Queues /\ r[k] = e /\ \A j \in Kind : j # k => r[j] = q[j]
  BY <1>0, <1>2, <1>3 DEF QueueOK, Queues
<1>5. Members(r) = Members(q) \cup {s}
  <2>1. \A j \in Kind : \A t : t \in ToSet(r[j]) <=> t \in ToSet(q[j]) \/ (j = k /\ t = s)
    BY <1>2, <1>4
  <2>2. \A t : t \in Members(r) <=> t \in Members(q) \/ t = s
    BY <1>0, <2>1, MembersBy
  <2> QED BY <2>2
<1>6. QueueOK(c, r, u)
  <2> SUFFICES ASSUME NEW j \in Kind
               PROVE  Once(r[j]) /\ \A t \in ToSet(r[j]) : Place(c, u[t]) = j
    BY <1>4 DEF QueueOK
  <2>1. CASE j = k
    BY <1>0, <1>2, <1>4, <2>1 DEF QueueOK, k
  <2>2. CASE j # k
    BY <1>4, <2>2 DEF QueueOK
  <2> QED BY <2>1, <2>2
<1> QED BY <1>5, <1>6 DEF r, k, Plus

\* AdjustSlab: Delete, then InsertAfter by the new fill.
LEMMA RequeueOK ==
  ASSUME NEW c, NEW q, NEW u, NEW v, NEW s \in Slab, QueueOK(c, q, u), SameBut(q, s, u, v)
  PROVE  /\ QueueOK(c, InsertAfter(Delete(q, s), Place(c, v[s]), s), v)
         /\ Members(InsertAfter(Delete(q, s), Place(c, v[s]), s)) = Plus(Members(q), s)
<1> DEFINE d == Delete(q, s)
           r == InsertAfter(d, Place(c, v[s]), s)
<1>1. QueueOK(c, d, v) /\ Members(d) = Minus(Members(q), s)
  BY DeleteOK
<1> HIDE DEF d
<1>2. s \notin Members(d)
  BY <1>1 DEF Minus
<1>3. QueueOK(c, r, v) /\ Members(r) = Plus(Members(d), s)
  BY <1>1, <1>2, InsertOK
<1>4. Plus(Members(d), s) = Plus(Members(q), s)
  BY <1>1 DEF Plus, Minus
<1> QED BY <1>3, <1>4 DEF d

-----------------------------------------------------------------------------
(***************************************************************************)
(* The inductive invariant.                                                *)
(***************************************************************************)

\* Sizes that have a cache.
Small(size) == size <= 2048

\* The slabs of every cache.
Slabs == [c \in Cache |-> Members(queue[c])]

TypeOK ==
  /\ free \in Seq(Page)
  /\ slab_ptr \in [Page -> {<< >>} \cup Slab]
  /\ slab_obj_size \in [Page -> Nat]
  /\ data_page \in [Slab -> Page \cup {NoPage}]
  /\ used \in [Slab -> SUBSET Nat]
  /\ queue \in [Cache -> Queues]
  /\ stat \in [Cache -> [allocated : Int, slab_pg : Int, max_pg : Nat]]
  /\ held \subseteq [page : Page, idx : Nat, size : Requests]
  /\ leaked \subseteq Page
  /\ null_deref \in BOOLEAN

QueueInv == \A c \in Cache : QueueOK(c, queue[c], used)

\* A MetaSlab is <<m, 0>>; its slots in use are the headers the chunk caches queue,
\* and it is queued itself while there are any.  The fault of AllocateNoData leaves
\* one slot in use that nobody queues.
MetaInv ==
  /\ \A s \in Slabs[META] : s[2] = 0
  /\ \A m \in Page : used[<<m, 0>>] \subseteq 1 .. MetaSlots
  /\ \A m \in Page : \A k \in 1 .. MetaSlots :
       ~null_deref => (k \in used[<<m, 0>>] <=> \E c \in Chunk : <<m, k>> \in Slabs[c])
  /\ \A c \in Chunk : \A s \in Slabs[c] : s[2] # 0 /\ <<s[1], 0>> \in Slabs[META]

\* The data page of a slab leads back to the slab and to its cache.
DataInv ==
  \A c \in Chunk : \A s \in Slabs[c] :
    /\ data_page[s] \in Page
    /\ slab_ptr[data_page[s]] = s
    /\ slab_obj_size[data_page[s]] = c
    /\ used[s] \subseteq Slots(c)

\* The five roles of a page: free, slab headers, data, large, leaked.
Parts(F, M, D, L, K) ==
  /\ \A p \in Page : p \in F \/ p \in M \/ p \in D \/ p \in L \/ p \in K
  /\ \A p \in F : p \notin M /\ p \notin D /\ p \notin L /\ p \notin K
  /\ \A p \in M : p \notin D /\ p \notin L /\ p \notin K
  /\ \A p \in D : p \notin L /\ p \notin K
  /\ \A p \in L : p \notin K

Metas == {p \in Page : <<p, 0>> \in Slabs[META]}
Datas == {p \in Page : \E c \in Chunk : \E s \in Slabs[c] : data_page[s] = p}
Larges == {p \in Page : \E b \in held : ~Small(b.size) /\ p \in Run(b.page, NrPage(b.size))}

PageInv == Once(free) /\ Parts(ToSet(free), Metas, Datas, Larges, leaked)

\* An object of a slab is one of its slots in use, a large one the first page of a
\* run of its own; a slot in use is held by one client.
SmallOK(b) ==
  /\ slab_obj_size[b.page] = Fit(b.size)
  /\ slab_ptr[b.page] \in Slabs[Fit(b.size)]
  /\ data_page[slab_ptr[b.page]] = b.page
  /\ b.idx \in used[slab_ptr[b.page]]
LargeOK(b) ==
  /\ slab_obj_size[b.page] = NrPage(b.size) * PAGESIZE
  /\ b.idx = 0
  /\ Run(b.page, NrPage(b.size)) \subseteq Page

HeldInv ==
  /\ \A b \in held : Small(b.size) => SmallOK(b)
  /\ \A b \in held : ~Small(b.size) => LargeOK(b)
  /\ \A a, b \in held : a.page = b.page /\ a.idx = b.idx => a = b
  /\ \A a, b \in held : ~Small(a.size) /\ ~Small(b.size) /\ a # b =>
       Run(a.page, NrPage(a.size)) \cap Run(b.page, NrPage(b.size)) = {}
  /\ \A c \in Chunk : \A s \in Slabs[c] : \A o \in used[s] :
       \E b \in held : b.page = data_page[s] /\ b.idx = o

\* The counters st are those of the slabs S with the slots u[s] in use.
ObjsOf(S, u) == UNION {{s} \X u[s] : s \in S}
StatOK(st, S, u) ==
  /\ IsFiniteSet(S) /\ st.slab_pg = Cardinality(S)
  /\ IsFiniteSet(ObjsOf(S, u)) /\ st.allocated = Cardinality(ObjsOf(S, u))

StatInv == \A c \in Cache : StatOK(stat[c], Slabs[c], used)

IInv == TypeOK /\ QueueInv /\ MetaInv /\ DataInv /\ PageInv /\ HeldInv /\ StatInv

-----------------------------------------------------------------------------
(***************************************************************************)
(* What the invariant says about single slabs, objects and pages.          *)
(***************************************************************************)

\* A slab is a pair of a page and a slot.
LEMMA Pairs ==
  /\ \A s \in Slab : s[1] \in Page /\ s[2] \in 0 .. MetaSlots /\ s = <<s[1], s[2]>>
  /\ \A m \in Page : <<m, 0>> \in Slab
  /\ \A m \in Page : \A k \in 1 .. MetaSlots : <<m, k>> \in Slab /\ k # 0
BY HeapAssumption, SMT DEF Slab

LEMMA SlabsAre ==
  ASSUME TypeOK
  PROVE  /\ Slabs \in [Cache -> SUBSET Slab]
         /\ \A c \in Cache : Slabs[c] = Members(queue[c]) /\ queue[c] \in Queues
<1>1. \A c \in Cache : queue[c] \in Queues
  BY DEF TypeOK
<1>2. \A c \in Cache : Slabs[c] = Members(queue[c])
  BY DEF Slabs
<1>3. ASSUME NEW c \in Cache PROVE Members(queue[c]) \subseteq Slab
  <2>1. \A k \in Kind : ToSet(queue[c][k]) \subseteq Slab
    BY <1>1, Elements DEF Queues
  <2> QED BY <2>1, MembersBy
<1>4. Slabs = [c \in Cache |-> Slabs[c]]
  BY DEF Slabs
<1> QED BY <1>1, <1>2, <1>3, <1>4

\* A slab belongs to one cache.
LEMMA OneCache ==
  ASSUME MetaInv, DataInv, NEW c \in Cache, NEW d \in Cache, NEW s \in Slabs[c], s \in Slabs[d]
  PROVE  c = d
<1>1. CASE c \in Chunk /\ d \in Chunk
  BY <1>1 DEF DataInv
<1>2. CASE c = META \/ d = META
  <2>1. ~(c \in Chunk /\ d = META) /\ ~(c = META /\ d \in Chunk)
    <3>1. /\ \A t \in Slabs[META] : t[2] = 0
          /\ \A e \in Chunk : \A t \in Slabs[e] : t[2] # 0
      BY DEF MetaInv
    <3>2. ASSUME c \in Chunk, d = META PROVE FALSE
      BY <3>1, <3>2
    <3>3. ASSUME d \in Chunk, c = META PROVE FALSE
      BY <3>1, <3>3
    <3> QED BY <3>2, <3>3
  <2> QED BY <1>2, <2>1 DEF Cache
<1> QED BY <1>1, <1>2 DEF Cache

\* Allocate's slab, when there is one in the queues.
LEMMA SourceSlab ==
  ASSUME TypeOK, NEW c \in Cache, Source(c) # "new"
  PROVE  queue[c][Source(c)][1] \in Slabs[c] /\ Source(c) \in Kind
<1>1. Source(c) \in Kind /\ queue[c][Source(c)] # << >>
  BY DEF Source, Kind
<1>2. queue[c][Source(c)] \in Seq(Slab)
  BY <1>1, SlabsAre DEF Queues
<1> DEFINE q == queue[c][Source(c)]
<1>3. Len(q) \in Nat /\ Len(q) >= 1 /\ ToSet(q) = {q[j] : j \in 1 .. Len(q)}
  BY <1>1, <1>2, Elements
<1>4. q[1] \in ToSet(q)
  <2> HIDE DEF q
  <2> QED BY <1>3
<1>5. q[1] \in Members(queue[c])
  BY <1>1, <1>4, MembersBy
<1> QED BY <1>1, <1>5, SlabsAre

\* The counters of a cache, field by field.
Counters == [allocated : Int, slab_pg : Int, max_pg : Nat]

\* Allocate and FreeObj move the counters by one.
LEMMA CountedIs ==
  ASSUME TypeOK, NEW c \in Cache
  PROVE  /\ Counted(c) \in Counters
         /\ Counted(c).allocated = stat[c].allocated + 1
         /\ Counted(c).slab_pg = IF Source(c) = "new" THEN stat[c].slab_pg + 1 ELSE stat[c].slab_pg
<1> DEFINE a == stat[c]
           x == a.allocated + 1
           y == IF Source(c) = "new" THEN a.slab_pg + 1 ELSE a.slab_pg
<1>1. a \in Counters
  BY DEF TypeOK, Counters
<1>2. x \in Int /\ y \in Int
  BY <1>1 DEF Counters
<1> DEFINE r == [a EXCEPT !.allocated = x]
<1>3. Counted(c) = [r EXCEPT !.slab_pg = y]
  BY DEF Counted
<1> HIDE DEF a, x, y
<1>4. r \in Counters /\ r.allocated = x
  BY <1>1, <1>2 DEF Counters
<1> HIDE DEF r
<1>5. Counted(c) \in Counters /\ Counted(c).allocated = x /\ Counted(c).slab_pg = y
  BY <1>2, <1>3, <1>4 DEF Counters
<1> QED BY <1>5 DEF a, x, y

LEMMA ReclaimedIs ==
  ASSUME TypeOK, NEW c \in Cache
  PROVE  /\ Reclaimed(c) \in Counters
         /\ Reclaimed(c).allocated = stat[c].allocated - 1
         /\ Reclaimed(c).slab_pg = stat[c].slab_pg - 1
<1> DEFINE a == stat[c]
           x == a.allocated - 1
           y == a.slab_pg - 1
<1>1. a \in Counters
  BY DEF TypeOK, Counters
<1>2. x \in Int /\ y \in Int
  BY <1>1 DEF Counters
<1> DEFINE r == [a EXCEPT !.allocated = x]
<1>3. Reclaimed(c) = [r EXCEPT !.slab_pg = y]
  BY DEF Reclaimed
<1> HIDE DEF a, x, y
<1>4. r \in Counters /\ r.allocated = x
  BY <1>1, <1>2 DEF Counters
<1> HIDE DEF r
<1>5. Reclaimed(c) \in Counters /\ Reclaimed(c).allocated = x /\ Reclaimed(c).slab_pg = y
  BY <1>2, <1>3, <1>4 DEF Counters
<1> QED BY <1>5 DEF a, x, y

\* The cache of a size: its slots, and not the MetaSlabs'.
LEMMA FitCache ==
  ASSUME NEW size \in Requests, Small(size)
  PROVE  /\ Fit(size) \in Chunk /\ Fit(size) \in Cache /\ Fit(size) # META
         /\ size \in Nat /\ size >= 2 /\ size <= Fit(size)
<1>1. size \in Nat /\ 2 <= size
  BY HeapAssumption, SMT
<1>2. Fit(size) \in Chunk /\ size <= Fit(size)
  BY <1>1, FitFacts DEF Small
<1> QED BY <1>1, <1>2, SlotFacts DEF Cache

\* A large object has its run of pages, and the struct Page of the first says so.
LEMMA HeldLarge ==
  ASSUME TypeOK, HeldInv, NEW a \in held, ~Small(a.size)
  PROVE  /\ a.page \in Page /\ a.size \in Nat /\ a.size > 2048 /\ a.idx = 0
         /\ NrPage(a.size) \in Nat /\ NrPage(a.size) >= 1
         /\ slab_obj_size[a.page] = NrPage(a.size) * PAGESIZE
         /\ slab_obj_size[a.page] > 2048 /\ slab_obj_size[a.page] \div PAGESIZE = NrPage(a.size)
         /\ a.size <= NrPage(a.size) * PAGESIZE
         /\ Run(a.page, NrPage(a.size)) \subseteq Page
         /\ a.page \in Run(a.page, NrPage(a.size))
<1>1. a.page \in Page /\ a.size \in Requests
  BY DEF TypeOK
<1>2. a.size \in Nat /\ a.size > 2048
  BY <1>1, HeapAssumption, SMT DEF Small
<1>3. LargeOK(a)
  BY DEF HeldInv
<1>4. a.page \in Int
  BY <1>1 DEF Page
<1>5. NrPage(a.size) \in Nat /\ NrPage(a.size) >= 1
  BY <1>2, NrPageFacts
<1>6. a.page \in Run(a.page, NrPage(a.size))
  BY <1>4, <1>5 DEF Run
<1> QED BY <1>1, <1>2, <1>3, <1>5, <1>6, NrPageFacts DEF LargeOK

\* A small object leads to its slab.
LEMMA HeldSmall ==
  ASSUME TypeOK, HeldInv, NEW a \in held, Small(a.size)
  PROVE  LET c == slab_obj_size[a.page]
             s == slab_ptr[a.page]
         IN  /\ a.page \in Page /\ a.size \in Nat /\ a.size >= 2 /\ a.size <= c
             /\ c = Fit(a.size) /\ c \in Chunk /\ c \in Cache /\ c \in Nat /\ c <= 2048 /\ Fit(c) = c
             /\ s \in Slabs[c] /\ s \in Slab /\ data_page[s] = a.page /\ a.idx \in used[s]
<1>1. a.page \in Page /\ a.size \in Requests
  BY DEF TypeOK
<1>2. SmallOK(a)
  BY DEF HeldInv
<1> DEFINE c == slab_obj_size[a.page]
           s == slab_ptr[a.page]
<1>3. c = Fit(a.size) /\ s \in Slabs[c] /\ data_page[s] = a.page /\ a.idx \in used[s]
  BY <1>2 DEF SmallOK
<1>4. c \in Chunk /\ c \in Cache /\ a.size \in Nat /\ a.size >= 2 /\ a.size <= c
  BY <1>1, <1>3, FitCache
<1> HIDE DEF c, s
<1>5. c \in Nat /\ 2 <= c /\ c <= 2048
  BY <1>4, SlotFacts
<1>6. Fit(c) = c
  BY <1>4, <1>5, FitFacts
<1>7. s \in Slab
  BY <1>3, <1>4, SlabsAre
<1> QED BY <1>1, <1>3, <1>4, <1>5, <1>6, <1>7 DEF c, s

-----------------------------------------------------------------------------
(***************************************************************************)
(* Counting slabs and objects.                                             *)
(***************************************************************************)

LEMMA ObjsBy ==
  ASSUME NEW S, NEW u, NEW e
  PROVE  e \in ObjsOf(S, u) <=> \E s \in S : \E o \in u[s] : e = <<s, o>>
BY DEF ObjsOf

LEMMA StatSame ==
  ASSUME NEW st, NEW S, NEW u, NEW v, StatOK(st, S, u), \A t \in S : v[t] = u[t]
  PROVE  StatOK(st, S, v)
<1>1. \A e : e \in ObjsOf(S, v) <=> e \in ObjsOf(S, u)
  BY ObjsBy
<1>2. ObjsOf(S, v) = ObjsOf(S, u)
  BY <1>1
<1> QED BY <1>2 DEF StatOK

\* One more element.
LEMMA OneMore ==
  ASSUME NEW A, NEW x, IsFiniteSet(A), x \notin A
  PROVE  IsFiniteSet(A \cup {x}) /\ Cardinality(A \cup {x}) = Cardinality(A) + 1
BY FS_AddElement

\* One more object, in a slab there is or in a new one.
LEMMA StatPlus ==
  ASSUME NEW st, NEW S, NEW u, NEW v, NEW s, NEW o, NEW r, StatOK(st, S, u),
         \A t \in S : t # s => v[t] = u[t],
         \/ s \in S /\ o \notin u[s] /\ v[s] = u[s] \cup {o} /\ r.slab_pg = st.slab_pg
         \/ s \notin S /\ v[s] = {o} /\ r.slab_pg = st.slab_pg + 1,
         r.allocated = st.allocated + 1
  PROVE  StatOK(r, S \cup {s}, v)
<1>1. \A e : e \in ObjsOf(S \cup {s}, v) <=> e \in ObjsOf(S, u) \/ e = <<s, o>>
  <2> SUFFICES ASSUME NEW e
               PROVE  e \in ObjsOf(S \cup {s}, v) <=> e \in ObjsOf(S, u) \/ e = <<s, o>>
    OBVIOUS
  <2>1. e \in ObjsOf(S \cup {s}, v) <=> \E t \in S \cup {s} : \E x \in v[t] : e = <<t, x>>
    BY ObjsBy
  <2>2. e \in ObjsOf(S, u) <=> \E t \in S : \E x \in u[t] : e = <<t, x>>
    BY ObjsBy
  <2>3. ASSUME e \in ObjsOf(S \cup {s}, v) PROVE e \in ObjsOf(S, u) \/ e = <<s, o>>
    <3>1. PICK t \in S \cup {s} : \E x \in v[t] : e = <<t, x>>
      BY <2>1, <2>3
    <3>2. PICK x \in v[t] : e = <<t, x>>
      BY <3>1
    <3>3. CASE t = s
      <4>1. x = o \/ (s \in S /\ x \in u[s])
        BY <3>2, <3>3
      <4> QED BY <2>2, <3>2, <3>3, <4>1
    <3>4. CASE t # s
      <4>1. t \in S /\ x \in u[t]
        BY <3>2, <3>4
      <4> QED BY <2>2, <3>2, <4>1
    <3> QED BY <3>3, <3>4
  <2>4. ASSUME e \in ObjsOf(S, u) PROVE e \in ObjsOf(S \cup {s}, v)
    <3>1. PICK t \in S : \E x \in u[t] : e = <<t, x>>
      BY <2>2, <2>4
    <3>2. PICK x \in u[t] : e = <<t, x>>
      BY <3>1
    <3>3. x \in v[t]
      BY <3>2
    <3> QED BY <2>1, <3>2, <3>3
  <2>5. e = <<s, o>> => e \in ObjsOf(S \cup {s}, v)
    <3>1. s \in S \cup {s} /\ o \in v[s]
      OBVIOUS
    <3> QED BY <2>1, <3>1
  <2> QED BY <2>3, <2>4, <2>5
<1>2. <<s, o>> \notin ObjsOf(S, u)
  BY ObjsBy
<1>3. ObjsOf(S \cup {s}, v) = ObjsOf(S, u) \cup {<<s, o>>}
  BY <1>1
<1>4. IsFiniteSet(S \cup {s}) /\ r.slab_pg = Cardinality(S \cup {s})
  BY FS_AddElement DEF StatOK
<1>5. /\ IsFiniteSet(ObjsOf(S, u) \cup {<<s, o>>})
      /\ r.allocated = Cardinality(ObjsOf(S, u) \cup {<<s, o>>})
  <2>1. IsFiniteSet(ObjsOf(S, u)) /\ st.allocated = Cardinality(ObjsOf(S, u))
    BY DEF StatOK
  <2> QED BY ONLY <1>2, <2>1, OneMore, r.allocated = st.allocated + 1
<1> QED BY <1>3, <1>4, <1>5 DEF StatOK

\* One object less.
LEMMA StatMinus ==
  ASSUME NEW st, NEW S, NEW u, NEW v, NEW s \in S, NEW o \in u[s], NEW r, StatOK(st, S, u),
         \A t \in S : t # s => v[t] = u[t], v[s] = u[s] \ {o},
         r.slab_pg = st.slab_pg, r.allocated = st.allocated - 1
  PROVE  StatOK(r, S, v)
<1>1. \A e : e \in ObjsOf(S, v) <=> e \in ObjsOf(S, u) /\ e # <<s, o>>
  <2> SUFFICES ASSUME NEW e
               PROVE  e \in ObjsOf(S, v) <=> e \in ObjsOf(S, u) /\ e # <<s, o>>
    OBVIOUS
  <2>1. e \in ObjsOf(S, v) <=> \E t \in S : \E x \in v[t] : e = <<t, x>>
    BY ObjsBy
  <2>2. e \in ObjsOf(S, u) <=> \E t \in S : \E x \in u[t] : e = <<t, x>>
    BY ObjsBy
  <2> QED BY <2>1, <2>2
<1>2. <<s, o>> \in ObjsOf(S, u)
  BY ObjsBy
<1>3. ObjsOf(S, v) = ObjsOf(S, u) \ {<<s, o>>}
  BY <1>1
<1>4. /\ IsFiniteSet(ObjsOf(S, u) \ {<<s, o>>})
      /\ r.allocated = Cardinality(ObjsOf(S, u) \ {<<s, o>>})
  BY <1>2, FS_RemoveElement DEF StatOK
<1> QED BY <1>3, <1>4 DEF StatOK

\* One object less, and its slab.
LEMMA StatDrop ==
  ASSUME NEW st, NEW S, NEW u, NEW v, NEW s \in S, NEW o, u[s] = {o}, NEW r, StatOK(st, S, u),
         \A t \in S : t # s => v[t] = u[t],
         r.slab_pg = st.slab_pg - 1, r.allocated = st.allocated - 1
  PROVE  StatOK(r, S \ {s}, v)
<1>1. \A e : e \in ObjsOf(S \ {s}, v) <=> e \in ObjsOf(S, u) /\ e # <<s, o>>
  <2> SUFFICES ASSUME NEW e
               PROVE  e \in ObjsOf(S \ {s}, v) <=> e \in ObjsOf(S, u) /\ e # <<s, o>>
    OBVIOUS
  <2>1. e \in ObjsOf(S \ {s}, v) <=> \E t \in S \ {s} : \E x \in v[t] : e = <<t, x>>
    BY ObjsBy
  <2>2. e \in ObjsOf(S, u) <=> \E t \in S : \E x \in u[t] : e = <<t, x>>
    BY ObjsBy
  <2> QED BY <2>1, <2>2
<1>2. <<s, o>> \in ObjsOf(S, u)
  BY ObjsBy
<1>3. ObjsOf(S \ {s}, v) = ObjsOf(S, u) \ {<<s, o>>}
  BY <1>1
<1>4. IsFiniteSet(S \ {s}) /\ r.slab_pg = Cardinality(S \ {s})
  BY FS_RemoveElement DEF StatOK
<1>5. /\ IsFiniteSet(ObjsOf(S, u) \ {<<s, o>>})
      /\ r.allocated = Cardinality(ObjsOf(S, u) \ {<<s, o>>})
  BY <1>2, FS_RemoveElement DEF StatOK
<1> QED BY <1>3, <1>4, <1>5 DEF StatOK

-----------------------------------------------------------------------------
(***************************************************************************)
(* Alloc from a slab of the cache.                                         *)
(***************************************************************************)

\* c is the cache for size.
FitsIn(size, c) == Small(size) /\ c = Fit(size)

\* AllocateQueued keeps the invariant.
LEMMA AllocateQueuedInv ==
  ASSUME IInv, NEW size \in Requests, NEW c, FitsIn(size, c), AllocateQueued(c, size), ~null_deref
  PROVE  IInv'
<1>1. c \in Chunk /\ c \in Cache /\ c # META /\ size \in Nat
  BY FitCache DEF FitsIn
<1>2. PICK s \in Slab : s \in Slabs[c] /\ s = queue[c][Source(c)][1]
  BY <1>1, SourceSlab, SlabsAre DEF AllocateQueued, IInv
<1>3. PICK o \in Slots(c) \ used[s] :
        /\ used' = [used EXCEPT ![s] = @ \cup {o}]
        /\ queue' = [queue EXCEPT ![c] = InsertAfter(Delete(queue[c], s), Place(c, used'[s]), s)]
        /\ held' = held \cup {[page |-> data_page[s], idx |-> o, size |-> size]}
  BY <1>2, Zenon DEF AllocateQueued, Requeue
<1>4. /\ stat' = [stat EXCEPT ![c] = Counted(c)]
      /\ UNCHANGED <<free, slab_ptr, slab_obj_size, data_page, leaked, null_deref>>
  BY DEF AllocateQueued, pages
<1>5. Source(c) # "new"
  BY DEF AllocateQueued
<1>6. /\ used' \in [Slab -> SUBSET Nat]
      /\ used'[s] = used[s] \cup {o}
      /\ \A t \in Slab : t # s => used'[t] = used[t]
  <2>1. o \in Nat
    BY <1>1, <1>3, SlotFacts
  <2> QED BY <1>2, <1>3, <2>1 DEF IInv, TypeOK
<1>7. /\ queue' \in [Cache -> Queues]
      /\ QueueOK(c, queue'[c], used') /\ Members(queue'[c]) = Members(queue[c])
      /\ \A x \in Cache : x # c => queue'[x] = queue[x]
  <2> DEFINE r == InsertAfter(Delete(queue[c], s), Place(c, used'[s]), s)
  <2>1. Members(queue[c]) = Slabs[c] /\ Slabs[c] \subseteq Slab
    BY <1>1, SlabsAre DEF IInv
  <2>2. SameBut(queue[c], s, used, used')
    BY <1>6, <2>1 DEF SameBut
  <2>3. QueueOK(c, queue[c], used)
    BY <1>1 DEF IInv, QueueInv
  <2>4. QueueOK(c, r, used') /\ Members(r) = Plus(Members(queue[c]), s)
    BY <1>2, <2>1, <2>2, <2>3, RequeueOK
  <2>5. Plus(Members(queue[c]), s) = Members(queue[c])
    BY <1>2, <2>1 DEF Plus
  <2> HIDE DEF r
  <2>6. queue' = [queue EXCEPT ![c] = r] /\ queue \in [Cache -> Queues]
    BY <1>3 DEF IInv, TypeOK, r
  <2>7. queue' \in [Cache -> Queues] /\ queue'[c] = r
        /\ \A x \in Cache : x # c => queue'[x] = queue[x]
    BY <1>1, <2>4, <2>6 DEF QueueOK
  <2> QED BY <2>4, <2>5, <2>7
<1>8. Slabs' = Slabs
  <2>1. \A x \in Cache : Members(queue'[x]) = Members(queue[x])
    BY <1>7
  <2> QED BY <2>1 DEF Slabs
<1>9. QueueInv'
  <2> SUFFICES ASSUME NEW x \in Cache PROVE QueueOK(x, queue'[x], used')
    BY DEF QueueInv
  <2>1. CASE x = c
    BY <1>7, <2>1
  <2>2. CASE x # c
    <3>1. QueueOK(x, queue[x], used) /\ queue'[x] = queue[x]
      BY <1>7, <2>2 DEF IInv, QueueInv
    <3>2. \A t \in Members(queue[x]) : used'[t] = used[t]
      <4>1. Members(queue[x]) = Slabs[x] /\ Slabs[x] \subseteq Slab
        BY SlabsAre DEF IInv
      <4>2. s \notin Slabs[x]
        BY <1>1, <1>2, <2>2, OneCache DEF IInv
      <4> QED BY <1>6, <4>1, <4>2
    <3> QED BY <3>1, <3>2, QueueSame
  <2> QED BY <2>1, <2>2
<1>10. data_page[s] \in Page /\ slab_ptr[data_page[s]] = s /\ slab_obj_size[data_page[s]] = c
       /\ used[s] \subseteq Slots(c) /\ s[2] # 0
  <2>1. s[2] # 0
    BY <1>1, <1>2 DEF IInv, MetaInv
  <2> QED BY <1>1, <1>2, <2>1 DEF IInv, DataInv
<1>11. PICK b \in [page : Page, idx : Nat, size : Requests] :
         /\ held' = held \cup {b}
         /\ b.page = data_page[s] /\ b.idx = o /\ b.size = size
  <2> DEFINE b == [page |-> data_page[s], idx |-> o, size |-> size]
  <2>1. o \in Nat
    BY <1>1, <1>3, SlotFacts
  <2>2. b \in [page : Page, idx : Nat, size : Requests]
    BY <1>10, <2>1
  <2> QED BY <1>3, <2>2
<1>12. TypeOK'
  <2>1. stat' \in [Cache -> [allocated : Int, slab_pg : Int, max_pg : Nat]]
    BY <1>1, <1>4, CountedIs DEF IInv, TypeOK, Counters
  <2> QED BY <1>4, <1>6, <1>7, <1>11, <2>1 DEF IInv, TypeOK
<1>13. MetaInv'
  <2>1. \A m \in Page : used'[<<m, 0>>] = used[<<m, 0>>]
    BY <1>6, <1>10, Pairs
  <2> QED BY <1>8, <2>1 DEF IInv, MetaInv
<1>14. DataInv'
  <2> SUFFICES ASSUME NEW x \in Chunk, NEW t \in Slabs[x]
               PROVE  used'[t] \subseteq Slots(x)
    BY <1>4, <1>8 DEF IInv, DataInv
  <2>1. t \in Slab /\ x \in Cache
    BY SlabsAre DEF IInv, Cache
  <2>2. t = s => x = c
    BY <1>1, <1>2, <2>1, OneCache DEF IInv
  <2>3. used[t] \subseteq Slots(x)
    BY DEF IInv, DataInv
  <2> QED BY <1>3, <1>6, <2>1, <2>2, <2>3
<1>15. PageInv'
  <2>1. Metas' = Metas /\ Datas' = Datas
    BY <1>4, <1>8 DEF Metas, Datas
  <2>2. Small(b.size)
    BY <1>11 DEF FitsIn
  <2>3. Larges' = Larges
    BY <1>11, <2>2 DEF Larges
  <2> QED BY <1>4, <2>1, <2>3 DEF IInv, PageInv
<1>16. HeldInv'
  <2>1. b.page = data_page[s] /\ b.idx = o /\ b.size = size /\ Small(b.size)
    BY <1>11 DEF FitsIn
  <2>2. SmallOK(b)'
    <3>1. c = Fit(b.size)
      BY <2>1 DEF FitsIn
    <3> QED BY <1>2, <1>4, <1>6, <1>8, <1>10, <2>1, <3>1 DEF SmallOK
  <2>3. \A a \in held : Small(a.size) => SmallOK(a)'
    <3> SUFFICES ASSUME NEW a \in held, Small(a.size) PROVE a.idx \in used'[slab_ptr[a.page]]
      BY <1>4, <1>8 DEF IInv, HeldInv, SmallOK
    <3>1. slab_ptr[a.page] \in Slab /\ a.idx \in used[slab_ptr[a.page]]
      BY HeldSmall DEF IInv
    <3> QED BY <1>6, <3>1
  <2>4. \A a \in held : ~Small(a.size) => LargeOK(a)'
    BY <1>4 DEF IInv, HeldInv, LargeOK
  <2>5. ASSUME NEW a \in held, a.page = b.page, a.idx = b.idx PROVE FALSE
    <3>1. CASE Small(a.size)
      BY <1>3, <1>10, <2>1, <2>5, <3>1 DEF IInv, HeldInv, SmallOK
    <3>2. CASE ~Small(a.size)
      <4>1. slab_obj_size[a.page] > 2048
        BY <3>2, HeldLarge DEF IInv
      <4> QED BY <1>1, <1>10, <2>1, <2>5, <4>1, SlotFacts
    <3> QED BY <3>1, <3>2
  <2>6. \A a, e \in held' : a.page = e.page /\ a.idx = e.idx => a = e
    BY <1>11, <2>5 DEF IInv, HeldInv
  <2>7. \A a, e \in held' : ~Small(a.size) /\ ~Small(e.size) /\ a # e =>
          Run(a.page, NrPage(a.size)) \cap Run(e.page, NrPage(e.size)) = {}
    BY <1>11, <2>1 DEF IInv, HeldInv
  <2>8. ASSUME NEW x \in Chunk, NEW t \in Slabs[x], NEW i \in used'[t]
        PROVE  \E e \in held' : e.page = data_page[t] /\ e.idx = i
    <3>1. CASE t = s /\ i = o
      BY <1>11, <3>1
    <3>2. CASE ~(t = s /\ i = o)
      <4>1. t \in Slab
        BY SlabsAre DEF IInv, Cache
      <4>2. i \in used[t]
        BY <1>6, <2>8, <3>2, <4>1
      <4> QED BY <1>11, <4>2 DEF IInv, HeldInv
    <3> QED BY <3>1, <3>2
  <2>9. \A a \in held' : (Small(a.size) => SmallOK(a)') /\ (~Small(a.size) => LargeOK(a)')
    BY <1>11, <2>1, <2>2, <2>3, <2>4
  <2> QED BY <1>4, <1>8, <2>6, <2>7, <2>8, <2>9 DEF HeldInv
<1>17. StatInv'
  <2> SUFFICES ASSUME NEW x \in Cache PROVE StatOK(stat'[x], Slabs[x], used')
    BY <1>8 DEF StatInv
  <2>1. StatOK(stat[x], Slabs[x], used) /\ Slabs[x] \subseteq Slab
    BY SlabsAre DEF IInv, StatInv
  <2>2. CASE x = c
    <3>1. stat'[c] = Counted(c)
      BY <1>1, <1>4 DEF IInv, TypeOK
    <3>2. stat'[c].allocated = stat[c].allocated + 1 /\ stat'[c].slab_pg = stat[c].slab_pg
      BY <1>1, <1>5, <3>1, CountedIs DEF IInv
    <3>3. Slabs[c] \cup {s} = Slabs[c]
      BY <1>2
    <3>4. StatOK(stat'[c], Slabs[c] \cup {s}, used')
      BY <1>2, <1>3, <1>6, <2>1, <2>2, <3>2, StatPlus
    <3> QED BY <2>2, <3>3, <3>4
  <2>3. CASE x # c
    <3>1. stat'[x] = stat[x]
      BY <1>4, <2>3 DEF IInv, TypeOK
    <3>2. s \notin Slabs[x]
      BY <1>1, <1>2, <2>3, OneCache DEF IInv
    <3>3. \A t \in Slabs[x] : used'[t] = used[t]
      BY <1>6, <2>1, <3>2
    <3> QED BY <2>1, <3>1, <3>3, StatSame
  <2> QED BY <2>2, <2>3
<1> QED BY <1>9, <1>12, <1>13, <1>14, <1>15, <1>16, <1>17 DEF IInv

-----------------------------------------------------------------------------
(***************************************************************************)
(* Free, when the slab stays.                                              *)
(***************************************************************************)

\* FreeKept keeps the invariant.
LEMMA FreeKeptInv ==
  ASSUME IInv, NEW b \in held, Small(b.size), NEW c \in Chunk, NEW s \in Slabs[c],
         data_page[s] = b.page, b.idx \in used[s],
         FreeKept(b, c, s), held' = held \ {b}, null_deref' = null_deref, ~null_deref
  PROVE  IInv'
<1>1. /\ c \in Chunk /\ c \in Cache /\ s \in Slabs[c] /\ s \in Slab
      /\ data_page[s] = b.page /\ b.idx \in used[s] /\ b.page \in Page
  BY SlabsAre DEF IInv, DataInv, Cache
<1>2. /\ used' = [used EXCEPT ![s] = @ \ {b.idx}]
      /\ queue' = [queue EXCEPT ![c] = InsertAfter(Delete(queue[c], s), Place(c, used'[s]), s)]
  BY Zenon DEF FreeKept, Requeue
<1>3. /\ stat' = [stat EXCEPT ![c] = Freed(c)]
      /\ UNCHANGED <<free, slab_ptr, slab_obj_size, data_page, leaked>>
  BY DEF FreeKept, pages
<1>4. /\ used' \in [Slab -> SUBSET Nat]
      /\ used'[s] = used[s] \ {b.idx}
      /\ \A t \in Slab : t # s => used'[t] = used[t]
  BY <1>1, <1>2 DEF IInv, TypeOK
<1>5. /\ queue' \in [Cache -> Queues]
      /\ QueueOK(c, queue'[c], used') /\ Members(queue'[c]) = Members(queue[c])
      /\ \A x \in Cache : x # c => queue'[x] = queue[x]
  <2> DEFINE r == InsertAfter(Delete(queue[c], s), Place(c, used'[s]), s)
  <2>1. Members(queue[c]) = Slabs[c] /\ Slabs[c] \subseteq Slab
    BY <1>1, SlabsAre DEF IInv
  <2>2. SameBut(queue[c], s, used, used')
    BY <1>4, <2>1 DEF SameBut
  <2>3. QueueOK(c, queue[c], used)
    BY <1>1 DEF IInv, QueueInv
  <2>4. QueueOK(c, r, used') /\ Members(r) = Plus(Members(queue[c]), s)
    <3>1. s \in Slab
      BY <1>1
    <3> QED BY <2>1, <2>2, <2>3, <3>1, RequeueOK
  <2>5. Plus(Members(queue[c]), s) = Members(queue[c])
    BY <1>1, <2>1 DEF Plus
  <2> HIDE DEF r
  <2>6. queue' = [queue EXCEPT ![c] = r] /\ queue \in [Cache -> Queues]
    BY <1>2 DEF IInv, TypeOK, r
  <2>7. queue' \in [Cache -> Queues] /\ queue'[c] = r
        /\ \A x \in Cache : x # c => queue'[x] = queue[x]
    BY <1>1, <2>4, <2>6 DEF QueueOK
  <2> QED BY <2>4, <2>5, <2>7
<1>6. Slabs' = Slabs
  <2>1. \A x \in Cache : Members(queue'[x]) = Members(queue[x])
    BY <1>5
  <2> QED BY <2>1 DEF Slabs
<1>7. QueueInv'
  <2> SUFFICES ASSUME NEW x \in Cache, x # c PROVE QueueOK(x, queue'[x], used')
    BY <1>5 DEF QueueInv
  <2>1. QueueOK(x, queue[x], used) /\ queue'[x] = queue[x]
    BY <1>5 DEF IInv, QueueInv
  <2>2. \A t \in Members(queue[x]) : used'[t] = used[t]
    <3>1. Members(queue[x]) = Slabs[x] /\ Slabs[x] \subseteq Slab
      BY SlabsAre DEF IInv
    <3>2. s \notin Slabs[x]
      BY <1>1, OneCache DEF IInv
    <3> QED BY <1>4, <3>1, <3>2
  <2> QED BY <2>1, <2>2, QueueSame
<1>8. s[2] # 0 /\ used[s] \subseteq Slots(c)
  <2>1. s[2] # 0
    BY <1>1 DEF IInv, MetaInv
  <2> QED BY <1>1, <2>1 DEF IInv, DataInv
<1>9. /\ stat' \in [Cache -> Counters]
      /\ stat'[c].allocated = stat[c].allocated - 1 /\ stat'[c].slab_pg = stat[c].slab_pg
      /\ \A x \in Cache : x # c => stat'[x] = stat[x]
  <2> DEFINE r == [stat[c] EXCEPT !.allocated = @ - 1]
  <2>1. stat \in [Cache -> Counters] /\ stat' = [stat EXCEPT ![c] = r]
    BY <1>3 DEF IInv, TypeOK, Counters, Freed
  <2>2. r \in Counters /\ r.allocated = stat[c].allocated - 1 /\ r.slab_pg = stat[c].slab_pg
    BY <1>1, <2>1 DEF Counters
  <2> HIDE DEF r
  <2> QED BY <1>1, <2>1, <2>2
<1>10. TypeOK'
  BY <1>3, <1>4, <1>5, <1>9 DEF IInv, TypeOK, Counters
<1>11. MetaInv'
  <2>1. \A m \in Page : used'[<<m, 0>>] = used[<<m, 0>>]
    BY <1>4, <1>8, Pairs
  <2> QED BY <1>6, <2>1 DEF IInv, MetaInv
<1>12. DataInv'
  <2> SUFFICES ASSUME NEW x \in Chunk, NEW t \in Slabs[x]
               PROVE  used'[t] \subseteq Slots(x)
    BY <1>3, <1>6 DEF IInv, DataInv
  <2>1. t \in Slab
    BY SlabsAre DEF IInv, Cache
  <2>2. used[t] \subseteq Slots(x)
    BY DEF IInv, DataInv
  <2> QED BY <1>4, <2>1, <2>2
<1>13. PageInv'
  <2>1. Metas' = Metas /\ Datas' = Datas
    BY <1>3, <1>6 DEF Metas, Datas
  <2>2. Larges' = Larges
    BY DEF Larges
  <2> QED BY <1>3, <2>1, <2>2 DEF IInv, PageInv
<1>14. HeldInv'
  <2>1. ASSUME NEW a \in held', Small(a.size) PROVE SmallOK(a)'
    <3>1. a \in held /\ a # b
      OBVIOUS
    <3>2. slab_ptr[a.page] \in Slab /\ data_page[slab_ptr[a.page]] = a.page /\ a.idx \in used[slab_ptr[a.page]]
      BY <2>1, <3>1, HeldSmall DEF IInv
    <3>3. ~(slab_ptr[a.page] = s /\ a.idx = b.idx)
      BY <1>1, <3>1, <3>2 DEF IInv, HeldInv
    <3>4. a.idx \in used'[slab_ptr[a.page]]
      BY <1>4, <3>2, <3>3
    <3> QED BY <1>3, <1>6, <2>1, <3>1, <3>4 DEF IInv, HeldInv, SmallOK
  <2>2. \A a \in held' : ~Small(a.size) => LargeOK(a)'
    BY <1>3 DEF IInv, HeldInv, LargeOK
  <2>3. \A a, e \in held' : a.page = e.page /\ a.idx = e.idx => a = e
    BY DEF IInv, HeldInv
  <2>4. \A a, e \in held' : ~Small(a.size) /\ ~Small(e.size) /\ a # e =>
          Run(a.page, NrPage(a.size)) \cap Run(e.page, NrPage(e.size)) = {}
    BY DEF IInv, HeldInv
  <2>5. ASSUME NEW x \in Chunk, NEW t \in Slabs[x], NEW i \in used'[t]
        PROVE  \E e \in held' : e.page = data_page[t] /\ e.idx = i
    <3>1. t \in Slab
      BY SlabsAre DEF IInv, Cache
    <3>2. i \in used[t] /\ ~(t = s /\ i = b.idx)
      BY <1>4, <2>5, <3>1
    <3>3. PICK e \in held : e.page = data_page[t] /\ e.idx = i
      BY <3>2 DEF IInv, HeldInv
    <3>4. e # b
      <4>1. CASE i = b.idx
        <5>1. t # s /\ slab_ptr[data_page[t]] = t /\ slab_ptr[data_page[s]] = s
          BY <1>1, <3>2, <4>1 DEF IInv, DataInv
        <5> QED BY <1>1, <3>3, <5>1
      <4>2. CASE i # b.idx
        BY <3>3, <4>2
      <4> QED BY <4>1, <4>2
    <3> QED BY <3>3, <3>4
  <2> QED BY <1>3, <1>6, <2>1, <2>2, <2>3, <2>4, <2>5 DEF HeldInv
<1>15. StatInv'
  <2> SUFFICES ASSUME NEW x \in Cache PROVE StatOK(stat'[x], Slabs[x], used')
    BY <1>6 DEF StatInv
  <2>1. StatOK(stat[x], Slabs[x], used) /\ Slabs[x] \subseteq Slab
    BY SlabsAre DEF IInv, StatInv
  <2>2. CASE x = c
    <3>1. \A t \in Slabs[c] : t # s => used'[t] = used[t]
      BY <1>4, <2>1, <2>2
    <3>2. s \in Slabs[c] /\ b.idx \in used[s] /\ used'[s] = used[s] \ {b.idx}
      BY <1>1, <1>4
    <3>3. stat'[c].allocated = stat[c].allocated - 1 /\ stat'[c].slab_pg = stat[c].slab_pg
      BY <1>9
    <3>4. StatOK(stat[c], Slabs[c], used)
      BY <2>1, <2>2
    <3>5. StatOK(stat'[c], Slabs[c], used')
      <4>1. PICK o \in used[s] : o = b.idx
        BY <3>2, Zenon
      <4>2. PICK st, S, r, v : st = stat[c] /\ S = Slabs[c] /\ r = stat'[c] /\ v = used'
        OBVIOUS
      <4>3. StatOK(st, S, used) /\ s \in S /\ v[s] = used[s] \ {o}
            /\ (\A t \in S : t # s => v[t] = used[t])
            /\ r.slab_pg = st.slab_pg /\ r.allocated = st.allocated - 1
        BY <3>1, <3>2, <3>3, <3>4, <4>1, <4>2, Zenon
      <4>4. StatOK(r, S, v)
        BY <4>3, StatMinus
      <4> QED BY <4>2, <4>4, Zenon
    <3> QED BY <2>2, <3>5
  <2>3. CASE x # c
    <3>1. s \notin Slabs[x]
      BY <1>1, <2>3, OneCache DEF IInv
    <3>2. \A t \in Slabs[x] : used'[t] = used[t]
      BY <1>4, <2>1, <3>1
    <3> QED BY <1>9, <2>1, <2>3, <3>2, StatSame
  <2> QED BY <2>2, <2>3
<1> QED BY <1>7, <1>10, <1>11, <1>12, <1>13, <1>14, <1>15 DEF IInv

-----------------------------------------------------------------------------
(***************************************************************************)
(* Alloc with a new slab.                                                  *)
(***************************************************************************)

\* A MetaSlab that is not queued has no slot in use.
LEMMA MetaEmpty ==
  ASSUME TypeOK, MetaInv, ~null_deref, NEW m \in Page, <<m, 0>> \notin Slabs[META]
  PROVE  used[<<m, 0>>] = {}
<1>1. \A k \in used[<<m, 0>>] : k \in 1 .. MetaSlots
  BY DEF MetaInv
<1>2. ASSUME NEW k \in 1 .. MetaSlots, k \in used[<<m, 0>>] PROVE FALSE
  <2>1. PICK c \in Chunk : <<m, k>> \in Slabs[c]
    BY <1>2 DEF MetaInv
  <2>2. <<<<m, k>>[1], 0>> \in Slabs[META]
    BY <2>1 DEF MetaInv
  <2> QED BY <2>2
<1> QED BY <1>1, <1>2

\* What meta_slab_cache.Allocate finds: the page m of a MetaSlab, free before or not.
LEMMA MetaTaken ==
  ASSUME IInv, ~NoMetaPage
  PROVE  /\ MetaPage \in Page
         /\ \/ Source(META) = "new" /\ MetaPage \in ToSet(free)
            \/ Source(META) # "new" /\ <<MetaPage, 0>> \in Slabs[META]
         /\ AfterMeta \in Seq(Page) /\ Once(AfterMeta)
         /\ ToSet(AfterMeta) = ToSet(free) \ {MetaPage}
<1>1. free \in Seq(Page) /\ Once(free) /\ Len(free) \in Nat
  BY Elements DEF IInv, TypeOK, PageInv
<1>2. CASE Source(META) = "new"
  <2>1. MetaPage = Head(free) /\ AfterMeta = Tail(free)
    BY <1>2 DEF MetaPage, AfterMeta
  <2>2. ~(Len(free) <= 1)
    BY <1>2 DEF NoMetaPage, AllocPageNull
  <2>3. free # << >>
    BY <1>1, <2>2
  <2>4. /\ Head(free) \in ToSet(free) /\ Head(free) \in Page
        /\ Tail(free) \in Seq(Page) /\ ToSet(Tail(free)) = ToSet(free) \ {Head(free)} /\ Once(Tail(free))
    BY <1>1, <2>3, TakeHead
  <2> QED BY <1>2, <2>1, <2>4
<1>3. CASE Source(META) # "new"
  <2>1. MetaPage = queue[META][Source(META)][1][1] /\ AfterMeta = free
    BY <1>3 DEF MetaPage, AfterMeta
  <2>2. META \in Cache
    BY DEF Cache
  <2>3. PICK h \in Slab : h \in Slabs[META] /\ h = queue[META][Source(META)][1]
    BY <1>3, <2>2, SourceSlab, SlabsAre DEF IInv
  <2>4. h[2] = 0
    BY <2>3 DEF IInv, MetaInv
  <2>5. MetaPage = h[1] /\ h[1] \in Page /\ <<h[1], 0>> \in Slabs[META]
    BY <2>1, <2>3, <2>4, Pairs
  <2>6. h[1] \in Metas
    BY <2>5 DEF Metas
  <2>7. h[1] \notin ToSet(free)
    BY <2>6 DEF IInv, PageInv, Parts
  <2>8. ToSet(free) = ToSet(free) \ {h[1]}
    BY <2>7
  <2> QED BY <1>1, <1>3, <2>1, <2>5, <2>8
<1> QED BY <1>2, <1>3

\* With AllocPage after it: another page d, free before and not after.
LEMMA NewPages ==
  ASSUME IInv, ~NoMetaPage, ~NoDataPage
  PROVE  /\ MetaPage \in Page /\ Head(AfterMeta) \in ToSet(free) /\ Head(AfterMeta) # MetaPage
         /\ \/ Source(META) = "new" /\ MetaPage \in ToSet(free)
            \/ Source(META) # "new" /\ <<MetaPage, 0>> \in Slabs[META]
         /\ Tail(AfterMeta) \in Seq(Page) /\ Once(Tail(AfterMeta))
         /\ ToSet(Tail(AfterMeta)) = ToSet(free) \ {MetaPage, Head(AfterMeta)}
<1> DEFINE f == AfterMeta
<1>1. /\ f \in Seq(Page) /\ Once(f) /\ ToSet(f) = ToSet(free) \ {MetaPage}
      /\ MetaPage \in Page
      /\ \/ Source(META) = "new" /\ MetaPage \in ToSet(free)
         \/ Source(META) # "new" /\ <<MetaPage, 0>> \in Slabs[META]
  BY MetaTaken
<1>2. ~(Len(f) <= 1)
  BY DEF NoDataPage, AllocPageNull
<1> HIDE DEF f
<1>3. f # << >>
  BY <1>1, <1>2
<1>4. /\ Head(f) \in ToSet(f)
      /\ Tail(f) \in Seq(Page) /\ ToSet(Tail(f)) = ToSet(f) \ {Head(f)} /\ Once(Tail(f))
  BY <1>1, <1>3, TakeHead
<1>5. Head(f) \in ToSet(free) /\ Head(f) # MetaPage /\ ToSet(Tail(f)) = ToSet(free) \ {MetaPage, Head(f)}
  BY <1>1, <1>4
<1> QED BY <1>1, <1>4, <1>5 DEF f

\* Two free pages become slab headers and data.
LEMMA PartsNew ==
  ASSUME NEW F, NEW M, NEW D, NEW L, NEW K, NEW m \in Page, NEW d \in Page, Parts(F, M, D, L, K),
         d \in F, m \in F \/ m \in M, d # m
  PROVE  Parts(F \ {m, d}, M \cup {m}, D \cup {d}, L, K)
BY DEF Parts

\* The pages of what is held.
LEMMA HeldPage ==
  ASSUME IInv, NEW a \in held
  PROVE  a.page \in Page /\ a.page \notin ToSet(free) /\ a.page \notin Metas
<1>1. CASE Small(a.size)
  <2> DEFINE c == slab_obj_size[a.page]
             s == slab_ptr[a.page]
  <2>1. a.page \in Page /\ c \in Chunk /\ s \in Slabs[c] /\ data_page[s] = a.page
    BY <1>1, HeldSmall DEF IInv
  <2> HIDE DEF c, s
  <2>2. a.page \in Datas
    BY <2>1 DEF Datas
  <2> QED BY <2>1, <2>2 DEF IInv, PageInv, Parts
<1>2. CASE ~Small(a.size)
  <2>1. a.page \in Page /\ a.page \in Run(a.page, NrPage(a.size))
    BY <1>2, HeldLarge DEF IInv
  <2>2. a.page \in Larges
    BY <1>2, <2>1 DEF Larges
  <2> QED BY <2>1, <2>2 DEF IInv, PageInv, Parts
<1> QED BY <1>1, <1>2

\* AllocateNew keeps the invariant.
LEMMA AllocateNewInv ==
  ASSUME IInv, NEW size \in Requests, NEW c, FitsIn(size, c), AllocateNew(c, size), ~null_deref
  PROVE  IInv'
<1>1. c \in Chunk /\ c \in Cache /\ c # META /\ META \in Cache /\ c \in Nat
  BY FitCache, SlotFacts DEF Cache, FitsIn
<1>2. PICK m \in Page, d \in Page :
        /\ m = MetaPage /\ d = Head(AfterMeta) /\ d \in ToSet(free) /\ d # m
        /\ \/ Source(META) = "new" /\ m \in ToSet(free)
           \/ Source(META) # "new" /\ <<m, 0>> \in Slabs[META]
        /\ Tail(AfterMeta) \in Seq(Page) /\ Once(Tail(AfterMeta))
        /\ ToSet(Tail(AfterMeta)) = ToSet(free) \ {m, d}
  <2>1. ToSet(free) \subseteq Page
    BY Elements DEF IInv, TypeOK
  <2> QED BY <2>1, NewPages DEF AllocateNew
<1>3. PICK k \in Slots(META) \ used[<<m, 0>>], o \in Slots(c) :
        /\ PageStructs(m, d, <<m, k>>, c)
        /\ data_page' = [data_page EXCEPT ![<<m, k>>] = d]
        /\ used' = [used EXCEPT ![<<m, 0>>] = @ \cup {k}, ![<<m, k>>] = {o}]
        /\ queue' = [queue EXCEPT
             ![META] = InsertAfter(Delete(queue[META], <<m, 0>>), Place(META, used'[<<m, 0>>]), <<m, 0>>),
             ![c] = InsertAfter(@, Place(c, {o}), <<m, k>>)]
        /\ held' = held \cup {[page |-> d, idx |-> o, size |-> size]}
  BY <1>2, Zenon DEF AllocateNew, Requeue
<1>4. PICK h \in Slab, s \in Slab :
        h = <<m, 0>> /\ s = <<m, k>> /\ h # s /\ h[1] = m /\ h[2] = 0 /\ s[1] = m /\ s[2] = k
        /\ k \in 1 .. MetaSlots /\ s[2] # 0
  <2>1. k \in 1 .. MetaSlots
    BY <1>3, SlotFacts
  <2> QED BY <2>1, Pairs
<1>5. /\ free' = Tail(AfterMeta)
      /\ stat' = [stat EXCEPT ![META] = Counted(META), ![c] = Counted(c)]
      /\ leaked' = leaked /\ null_deref' = null_deref /\ Source(c) = "new"
  BY DEF AllocateNew
<1>6. /\ slab_ptr' = [slab_ptr EXCEPT ![m] = h, ![d] = s]
      /\ slab_obj_size' = [slab_obj_size EXCEPT ![m] = 64, ![d] = c]
  BY <1>3, <1>4 DEF PageStructs
<1>7. PICK b \in [page : Page, idx : Nat, size : Requests] :
        held' = held \cup {b} /\ b.page = d /\ b.idx = o /\ b.size = size
  <2>1. o \in Nat
    BY <1>1, <1>3, SlotFacts
  <2> DEFINE b == [page |-> d, idx |-> o, size |-> size]
  <2>2. b \in [page : Page, idx : Nat, size : Requests]
    BY <2>1
  <2> QED BY <1>3, <2>2
\* The state afterwards, value by value.
<1>8. /\ used' \in [Slab -> SUBSET Nat]
      /\ used'[h] = used[h] \cup {k} /\ used'[s] = {o}
      /\ \A t \in Slab : t # h /\ t # s => used'[t] = used[t]
  <2>1. o \in Nat /\ k \in Nat
    BY <1>1, <1>3, SlotFacts
  <2>2. used' = [used EXCEPT ![h] = used[h] \cup {k}, ![s] = {o}]
    BY <1>3, <1>4
  <2> QED BY <1>4, <2>1, <2>2 DEF IInv, TypeOK
<1>9. /\ data_page' \in [Slab -> Page \cup {NoPage}] /\ data_page'[s] = d
      /\ \A t \in Slab : t # s => data_page'[t] = data_page[t]
  BY <1>3, <1>4 DEF IInv, TypeOK
<1>10. /\ slab_ptr' \in [Page -> {<< >>} \cup Slab] /\ slab_ptr'[d] = s
       /\ \A p \in Page : p # m /\ p # d => slab_ptr'[p] = slab_ptr[p]
  BY <1>2, <1>4, <1>6 DEF IInv, TypeOK
<1>11. /\ slab_obj_size' \in [Page -> Nat] /\ slab_obj_size'[d] = c
       /\ \A p \in Page : p # m /\ p # d => slab_obj_size'[p] = slab_obj_size[p]
  BY <1>1, <1>2, <1>6 DEF IInv, TypeOK
<1>12. /\ stat' \in [Cache -> Counters]
       /\ stat'[META] = Counted(META) /\ stat'[c] = Counted(c)
       /\ \A x \in Cache : x # META /\ x # c => stat'[x] = stat[x]
  <2>1. Counted(META) \in Counters /\ Counted(c) \in Counters
    BY <1>1, CountedIs DEF IInv
  <2>2. stat \in [Cache -> Counters]
    BY DEF IInv, TypeOK, Counters
  <2> QED BY <1>1, <1>5, <2>1, <2>2
<1>13. \A x \in Cache : s \notin Slabs[x]
  <2>1. s \notin Slabs[META]
    BY <1>4 DEF IInv, MetaInv
  <2>2. \A x \in Chunk : <<m, k>> \notin Slabs[x]
    BY <1>3, <1>4 DEF IInv, MetaInv
  <2> QED BY <1>4, <2>1, <2>2 DEF Cache
<1>14. \A x \in Chunk : h \notin Slabs[x]
  BY <1>4 DEF IInv, MetaInv
<1>15. /\ queue' \in [Cache -> Queues]
       /\ QueueOK(META, queue'[META], used') /\ Members(queue'[META]) = Members(queue[META]) \cup {h}
       /\ QueueOK(c, queue'[c], used') /\ Members(queue'[c]) = Members(queue[c]) \cup {s}
       /\ \A x \in Cache : x # META /\ x # c => queue'[x] = queue[x]
  <2> DEFINE r == InsertAfter(Delete(queue[META], h), Place(META, used'[h]), h)
             q == InsertAfter(queue[c], Place(c, used'[s]), s)
  <2>1. /\ Members(queue[META]) = Slabs[META]
        /\ Slabs[META] \subseteq Slab
        /\ Members(queue[c]) = Slabs[c] /\ Slabs[c] \subseteq Slab
    BY <1>1, SlabsAre DEF IInv
  <2>2. QueueOK(META, queue[META], used) /\ QueueOK(c, queue[c], used)
    BY <1>1 DEF IInv, QueueInv
  <2>3. SameBut(queue[META], h, used, used')
    BY <1>1, <1>8, <1>13, <2>1 DEF SameBut
  <2>4. QueueOK(META, r, used') /\ Members(r) = Plus(Members(queue[META]), h)
    <3>1. QueueOK(META, queue[META], used)
      BY <2>1, <2>2
    <3> QED BY <2>3, <3>1, RequeueOK
  <2>5. QueueOK(c, queue[c], used')
    <3>1. \A t \in Members(queue[c]) : used'[t] = used[t]
      BY <1>1, <1>8, <1>13, <1>14, <2>1
    <3> QED BY <2>2, <3>1, QueueSame
  <2>6. QueueOK(c, q, used') /\ Members(q) = Plus(Members(queue[c]), s)
    <3>1. s \notin Members(queue[c])
      BY <1>1, <1>13, <2>1
    <3> QED BY <2>5, <3>1, InsertOK
  <2>7. queue' = [queue EXCEPT ![META] = r, ![c] = q]
    BY <1>1, <1>3, <1>4, <1>8
  <2> HIDE DEF r, q
  <2>8. queue \in [Cache -> Queues]
    BY DEF IInv, TypeOK
  <2>9. /\ queue' \in [Cache -> Queues] /\ queue'[META] = r /\ queue'[c] = q
        /\ \A x \in Cache : x # META /\ x # c => queue'[x] = queue[x]
    BY <1>1, <2>4, <2>6, <2>7, <2>8 DEF QueueOK
  <2> QED BY <2>4, <2>6, <2>9 DEF Plus
<1>16. /\ Slabs'[META] = Slabs[META] \cup {h} /\ Slabs'[c] = Slabs[c] \cup {s}
       /\ \A x \in Cache : x # META /\ x # c => Slabs'[x] = Slabs[x]
  <2>1. \A x \in Cache : Slabs'[x] = Members(queue'[x]) /\ Slabs[x] = Members(queue[x])
    BY DEF Slabs
  <2> QED BY <1>1, <1>15, <2>1
<1>17. QueueInv'
  <2> SUFFICES ASSUME NEW x \in Cache, x # META, x # c PROVE QueueOK(x, queue'[x], used')
    BY <1>15 DEF QueueInv
  <2>1. QueueOK(x, queue[x], used) /\ queue'[x] = queue[x]
    BY <1>15 DEF IInv, QueueInv
  <2>2. \A t \in Members(queue[x]) : used'[t] = used[t]
    <3>1. Members(queue[x]) = Slabs[x] /\ Slabs[x] \subseteq Slab /\ x \in Chunk
      BY SlabsAre DEF IInv, Cache
    <3> QED BY <1>8, <1>13, <1>14, <3>1
  <2> QED BY <2>1, <2>2, QueueSame
<1>18. TypeOK'
  BY <1>2, <1>5, <1>7, <1>8, <1>9, <1>10, <1>11, <1>12, <1>15 DEF IInv, TypeOK, Counters
<1>19. \A x \in Chunk : \A t \in Slabs'[x] : (t = s /\ x = c) \/ t \in Slabs[x]
  <2>1. \A x \in Chunk : x \in Cache /\ x # META
    BY SlotFacts DEF Cache
  <2> QED BY <1>16, <2>1
<1>20. \A x \in Chunk : \A t \in Slabs[x] : t \in Slabs'[x] /\ t \in Slab /\ t # s /\ t # h /\ x \in Cache
  <2>1. \A x \in Chunk : x \in Cache /\ x # META
    BY SlotFacts DEF Cache
  <2> QED BY <1>13, <1>14, <1>16, <2>1, SlabsAre DEF IInv
<1>21. ASSUME NEW x \in Chunk, NEW t \in Slabs[x]
       PROVE  data_page[t] \in Page /\ data_page[t] # m /\ data_page[t] # d
  <2>1. data_page[t] \in Page
    BY DEF IInv, DataInv
  <2>2. data_page[t] \in Datas
    BY <2>1 DEF Datas
  <2>3. m \in ToSet(free) \/ m \in Metas
    BY <1>2 DEF Metas
  <2> QED BY <1>2, <2>1, <2>2, <2>3 DEF IInv, PageInv, Parts
<1>22. MetaInv'
  <2>1. \A t \in Slabs'[META] : t[2] = 0
    BY <1>4, <1>16 DEF IInv, MetaInv
  <2>2. ASSUME NEW n \in Page PROVE used'[<<n, 0>>] \subseteq 1 .. MetaSlots
    <3>1. used[<<n, 0>>] \subseteq 1 .. MetaSlots
      BY DEF IInv, MetaInv
    <3>2. CASE n = m
      BY <1>4, <1>8, <3>1, <3>2
    <3>3. CASE n # m
      <4>1. <<n, 0>> \in Slab /\ <<n, 0>> # h /\ <<n, 0>> # s
        BY <1>4, <3>3, Pairs
      <4> QED BY <1>8, <3>1, <4>1
    <3> QED BY <3>2, <3>3
  <2>3. ASSUME NEW n \in Page, NEW i \in 1 .. MetaSlots
        PROVE  i \in used'[<<n, 0>>] <=> \E x \in Chunk : <<n, i>> \in Slabs'[x]
    <3>1. i \in used[<<n, 0>>] <=> \E x \in Chunk : <<n, i>> \in Slabs[x]
      BY DEF IInv, MetaInv
    <3>2. CASE n = m /\ i = k
      <4>1. i \in used'[<<n, 0>>]
        BY <1>4, <1>8, <3>2
      <4>2. <<n, i>> \in Slabs'[c]
        BY <1>4, <1>16, <3>2
      <4> QED BY <1>1, <4>1, <4>2
    <3>3. CASE ~(n = m /\ i = k)
      <4>1. <<n, i>> # s
        BY <1>4, <3>3
      <4>2. (\E x \in Chunk : <<n, i>> \in Slabs'[x]) <=> (\E x \in Chunk : <<n, i>> \in Slabs[x])
        BY <1>19, <1>20, <4>1
      <4>3. i \in used'[<<n, 0>>] <=> i \in used[<<n, 0>>]
        <5>1. CASE n = m
          BY <1>4, <1>8, <3>3, <5>1
        <5>2. CASE n # m
          <6>1. <<n, 0>> \in Slab /\ <<n, 0>> # h /\ <<n, 0>> # s
            BY <1>4, <5>2, Pairs
          <6> QED BY <1>8, <6>1
        <5> QED BY <5>1, <5>2
      <4> QED BY <3>1, <4>2, <4>3
    <3> QED BY <3>2, <3>3
  <2>4. ASSUME NEW x \in Chunk, NEW t \in Slabs'[x]
        PROVE  t[2] # 0 /\ <<t[1], 0>> \in Slabs'[META]
    <3>1. CASE t = s
      BY <1>4, <1>16, <3>1
    <3>2. CASE t # s
      <4>1. t \in Slabs[x]
        BY <1>19, <3>2
      <4>2. t[2] # 0 /\ <<t[1], 0>> \in Slabs[META]
        BY <4>1 DEF IInv, MetaInv
      <4> QED BY <1>16, <4>2
    <3> QED BY <3>1, <3>2
  <2> QED BY <2>1, <2>2, <2>3, <2>4 DEF MetaInv
<1>23. DataInv'
  <2> SUFFICES ASSUME NEW x \in Chunk, NEW t \in Slabs'[x]
               PROVE  /\ data_page'[t] \in Page /\ slab_ptr'[data_page'[t]] = t
                      /\ slab_obj_size'[data_page'[t]] = x /\ used'[t] \subseteq Slots(x)
    BY DEF DataInv
  <2>1. CASE t = s /\ x = c
    BY <1>3, <1>8, <1>9, <1>10, <1>11, <2>1
  <2>2. CASE t \in Slabs[x]
    <3>1. t \in Slab /\ t # s /\ t # h
      BY <1>20, <2>2
    <3>2. /\ data_page[t] \in Page /\ slab_ptr[data_page[t]] = t
          /\ slab_obj_size[data_page[t]] = x /\ used[t] \subseteq Slots(x)
      BY <2>2 DEF IInv, DataInv
    <3>3. data_page[t] # m /\ data_page[t] # d
      BY <1>21, <2>2
    <3> QED BY <1>8, <1>9, <1>10, <1>11, <3>1, <3>2, <3>3
  <2> QED BY <1>19, <2>1, <2>2
<1>24. PageInv'
  <2>1. Metas' = Metas \cup {m}
    <3>1. \A p \in Page : <<p, 0>> \in Slabs'[META] <=> <<p, 0>> \in Slabs[META] \/ p = m
      BY <1>4, <1>16
    <3> QED BY <3>1 DEF Metas
  <2>2. Datas' = Datas \cup {d}
    <3>1. ASSUME NEW p \in Page, NEW x \in Chunk, NEW t \in Slabs'[x], data_page'[t] = p
          PROVE  p = d \/ p \in Datas
      <4>1. CASE t = s
        BY <1>9, <3>1, <4>1
      <4>2. CASE t # s
        BY <1>9, <1>19, <1>20, <3>1, <4>2 DEF Datas
      <4> QED BY <4>1, <4>2
    <3>2. ASSUME NEW p \in Page, NEW x \in Chunk, NEW t \in Slabs[x], data_page[t] = p
          PROVE  p \in Datas'
      <4>1. t \in Slabs'[x] /\ data_page'[t] = p
        BY <1>9, <1>20, <3>2
      <4> QED BY <4>1 DEF Datas
    <3>3. d \in Datas'
      <4>1. s \in Slabs'[c] /\ data_page'[s] = d
        BY <1>9, <1>16
      <4> QED BY <1>1, <4>1 DEF Datas
    <3>4. Datas' \subseteq Datas \cup {d}
      BY <3>1 DEF Datas
    <3>5. Datas \subseteq Datas'
      BY <3>2 DEF Datas
    <3> QED BY <3>3, <3>4, <3>5
  <2>3. Larges' = Larges
    <3>1. Small(b.size)
      BY <1>7 DEF FitsIn
    <3> QED BY <1>7, <3>1 DEF Larges
  <2>4. Parts(ToSet(free), Metas, Datas, Larges, leaked)
    BY DEF IInv, PageInv
  <2>5. m \in ToSet(free) \/ m \in Metas
    BY <1>2 DEF Metas
  <2>6. Parts(ToSet(free) \ {m, d}, Metas \cup {m}, Datas \cup {d}, Larges, leaked)
    BY <1>2, <2>4, <2>5, PartsNew
  <2> QED BY <1>2, <1>5, <2>1, <2>2, <2>3, <2>6 DEF PageInv
<1>25. \A a \in held : a.page \in Page /\ a.page # m /\ a.page # d
  <2>1. m \in ToSet(free) \/ m \in Metas
    BY <1>2 DEF Metas
  <2> QED BY <1>2, <2>1, HeldPage
<1>26. HeldInv'
  <2>1. Small(b.size) /\ c = Fit(b.size)
    BY <1>7 DEF FitsIn
  <2>2. SmallOK(b)'
    BY <1>7, <1>8, <1>9, <1>10, <1>11, <1>16, <2>1 DEF SmallOK
  <2>3. ASSUME NEW a \in held, Small(a.size) PROVE SmallOK(a)'
    <3> DEFINE x == slab_obj_size[a.page]
               t == slab_ptr[a.page]
    <3>1. x = Fit(a.size) /\ x \in Chunk /\ t \in Slabs[x] /\ data_page[t] = a.page /\ a.idx \in used[t]
      BY <2>3, HeldSmall DEF IInv
    <3>2. slab_obj_size'[a.page] = x /\ slab_ptr'[a.page] = t
      BY <1>10, <1>11, <1>25
    <3> HIDE DEF x, t
    <3>3. t \in Slabs'[x] /\ t \in Slab /\ t # s /\ t # h
      BY <1>20, <3>1
    <3>4. data_page'[t] = a.page /\ a.idx \in used'[t]
      BY <1>8, <1>9, <3>1, <3>3
    <3> QED BY <3>1, <3>2, <3>3, <3>4 DEF SmallOK
  <2>4. ASSUME NEW a \in held, ~Small(a.size) PROVE LargeOK(a)'
    <3>1. LargeOK(a)
      BY <2>4 DEF IInv, HeldInv
    <3>2. slab_obj_size'[a.page] = slab_obj_size[a.page]
      BY <1>11, <1>25
    <3> QED BY <3>1, <3>2 DEF LargeOK
  <2>5. \A a \in held' : (Small(a.size) => SmallOK(a)') /\ (~Small(a.size) => LargeOK(a)')
    BY <1>7, <2>1, <2>2, <2>3, <2>4
  <2>6. \A a, e \in held' : a.page = e.page /\ a.idx = e.idx => a = e
    BY <1>7, <1>25 DEF IInv, HeldInv
  <2>7. \A a, e \in held' : ~Small(a.size) /\ ~Small(e.size) /\ a # e =>
          Run(a.page, NrPage(a.size)) \cap Run(e.page, NrPage(e.size)) = {}
    BY <1>7, <2>1 DEF IInv, HeldInv
  <2>8. ASSUME NEW x \in Chunk, NEW t \in Slabs'[x], NEW i \in used'[t]
        PROVE  \E e \in held' : e.page = data_page'[t] /\ e.idx = i
    <3>1. CASE t = s
      BY <1>7, <1>8, <1>9, <2>8, <3>1
    <3>2. CASE t # s
      <4>1. t \in Slabs[x]
        BY <1>19, <3>2
      <4>2. t \in Slab /\ t # h
        BY <1>20, <4>1
      <4>3. i \in used[t] /\ data_page'[t] = data_page[t]
        BY <1>8, <1>9, <2>8, <3>2, <4>2
      <4>4. PICK e \in held : e.page = data_page[t] /\ e.idx = i
        BY <4>1, <4>3 DEF IInv, HeldInv
      <4> QED BY <1>7, <4>3, <4>4
    <3> QED BY <3>1, <3>2
  <2> QED BY <2>5, <2>6, <2>7, <2>8 DEF HeldInv
<1>27. StatInv'
  <2> SUFFICES ASSUME NEW x \in Cache PROVE StatOK(stat'[x], Slabs'[x], used')
    BY DEF StatInv
  <2>1. StatOK(stat[x], Slabs[x], used) /\ Slabs[x] \subseteq Slab
    BY SlabsAre DEF IInv, StatInv
  <2>2. CASE x = c
    <3>1. stat'[c].allocated = stat[c].allocated + 1 /\ stat'[c].slab_pg = stat[c].slab_pg + 1
      BY <1>1, <1>5, <1>12, CountedIs DEF IInv
    <3>2. s \notin Slabs[c] /\ (\A t \in Slabs[c] : t # s => used'[t] = used[t]) /\ used'[s] = {o}
      BY <1>1, <1>8, <1>20
    <3>3. StatOK(stat[c], Slabs[c], used)
      BY <2>1, <2>2
    <3>4. StatOK(stat'[c], Slabs[c] \cup {s}, used')
      BY <3>1, <3>2, <3>3, StatPlus
    <3> QED BY <1>16, <2>2, <3>4
  <2>3. CASE x = META
    <3>1. StatOK(stat[META], Slabs[META], used)
      BY <2>1, <2>3
    <3>2. \A t \in Slabs[META] : t # h => used'[t] = used[t]
      BY <1>8, <1>13, <2>1, <2>3
    <3>3. /\ stat'[META].allocated = stat[META].allocated + 1
          /\ stat'[META].slab_pg =
               IF Source(META) = "new" THEN stat[META].slab_pg + 1 ELSE stat[META].slab_pg
      BY <1>1, <1>12, CountedIs DEF IInv
    <3>4. CASE Source(META) = "new"
      <4>1. m \in ToSet(free)
        BY <1>2, <3>4
      <4>2. m \notin Metas
        BY <4>1 DEF IInv, PageInv, Parts
      <4>3. h \notin Slabs[META]
        BY <1>4, <4>2 DEF Metas
      <4>4. used[h] = {}
        BY <1>4, <4>3, MetaEmpty DEF IInv
      <4>5. used'[h] = {k} /\ stat'[META].slab_pg = stat[META].slab_pg + 1
        BY <1>8, <3>3, <3>4, <4>4
      <4>6. StatOK(stat'[META], Slabs[META] \cup {h}, used')
        BY <3>1, <3>2, <3>3, <4>3, <4>5, StatPlus
      <4> QED BY <1>16, <2>3, <4>6
    <3>5. CASE Source(META) # "new"
      <4>1. h \in Slabs[META] /\ k \notin used[h] /\ used'[h] = used[h] \cup {k}
        BY <1>2, <1>3, <1>4, <1>8, <3>5
      <4>2. stat'[META].slab_pg = stat[META].slab_pg /\ stat'[META].allocated = stat[META].allocated + 1
        BY <3>3, <3>5
      <4>3. StatOK(stat'[META], Slabs[META] \cup {h}, used')
        BY <3>1, <3>2, <4>1, <4>2, StatPlus
      <4> QED BY <1>16, <2>3, <4>3
    <3> QED BY <3>4, <3>5
  <2>4. CASE x # c /\ x # META
    <3>1. x \in Chunk /\ stat'[x] = stat[x] /\ Slabs'[x] = Slabs[x]
      BY <1>12, <1>16, <2>4 DEF Cache
    <3>2. \A t \in Slabs[x] : used'[t] = used[t]
      BY <1>8, <1>20, <3>1
    <3>3. StatOK(stat[x], Slabs[x], used')
      BY <2>1, <3>2, StatSame
    <3> QED BY <3>1, <3>3
  <2> QED BY <2>2, <2>3, <2>4
<1> QED BY <1>17, <1>18, <1>22, <1>23, <1>24, <1>26, <1>27 DEF IInv

\* One page becomes slab headers, or was so before.
LEMMA PartsMeta ==
  ASSUME NEW F, NEW M, NEW D, NEW L, NEW K, NEW m \in Page, Parts(F, M, D, L, K), m \in F \/ m \in M
  PROVE  Parts(F \ {m}, M \cup {m}, D, L, K)
BY DEF Parts

\* AllocateNoData keeps the invariant: what it has taken from meta_slab_cache is
\* accounted for when the kernel faults.
LEMMA AllocateNoDataInv ==
  ASSUME IInv, NEW c, AllocateNoData(c), ~null_deref
  PROVE  IInv'
<1>1. META \in Cache /\ (\A x \in Chunk : x \in Cache /\ x # META)
  BY SlotFacts DEF Cache
<1>2. PICK m \in Page :
        /\ m = MetaPage
        /\ \/ Source(META) = "new" /\ m \in ToSet(free)
           \/ Source(META) # "new" /\ <<m, 0>> \in Slabs[META]
        /\ AfterMeta \in Seq(Page) /\ Once(AfterMeta)
        /\ ToSet(AfterMeta) = ToSet(free) \ {m}
  BY MetaTaken DEF AllocateNoData
<1>3. PICK k \in Slots(META) \ used[<<m, 0>>] :
        /\ slab_ptr' = [slab_ptr EXCEPT ![m] = <<m, 0>>]
        /\ slab_obj_size' = [slab_obj_size EXCEPT ![m] = 64]
        /\ used' = [used EXCEPT ![<<m, 0>>] = @ \cup {k}]
        /\ queue' = [queue EXCEPT
             ![META] = InsertAfter(Delete(queue[META], <<m, 0>>), Place(META, used'[<<m, 0>>]), <<m, 0>>)]
  BY <1>2, Zenon DEF AllocateNoData, Requeue
<1>4. PICK h \in Slab : h = <<m, 0>> /\ h[1] = m /\ h[2] = 0 /\ k \in 1 .. MetaSlots
  <2>1. k \in 1 .. MetaSlots
    BY <1>3, SlotFacts
  <2> QED BY <2>1, Pairs
<1>5. /\ free' = AfterMeta /\ stat' = [stat EXCEPT ![META] = Counted(META)]
      /\ data_page' = data_page /\ held' = held /\ leaked' = leaked /\ null_deref' = TRUE
  BY DEF AllocateNoData
<1>6. /\ used' \in [Slab -> SUBSET Nat] /\ used'[h] = used[h] \cup {k}
      /\ \A t \in Slab : t # h => used'[t] = used[t]
  <2>1. used' = [used EXCEPT ![h] = used[h] \cup {k}] /\ k \in Nat
    BY <1>3, <1>4
  <2> QED BY <1>4, <2>1 DEF IInv, TypeOK
<1>7. /\ slab_ptr' \in [Page -> {<< >>} \cup Slab] /\ slab_obj_size' \in [Page -> Nat]
      /\ \A p \in Page : p # m => slab_ptr'[p] = slab_ptr[p] /\ slab_obj_size'[p] = slab_obj_size[p]
  BY <1>3, <1>4 DEF IInv, TypeOK
<1>8. /\ stat' \in [Cache -> Counters] /\ stat'[META] = Counted(META)
      /\ \A x \in Cache : x # META => stat'[x] = stat[x]
  <2>1. Counted(META) \in Counters
    BY <1>1, CountedIs DEF IInv
  <2>2. stat \in [Cache -> Counters]
    BY DEF IInv, TypeOK, Counters
  <2> QED BY <1>1, <1>5, <2>1, <2>2
<1>9. \A x \in Chunk : h \notin Slabs[x]
  BY <1>4 DEF IInv, MetaInv
<1>10. /\ queue' \in [Cache -> Queues]
       /\ QueueOK(META, queue'[META], used') /\ Members(queue'[META]) = Members(queue[META]) \cup {h}
       /\ \A x \in Cache : x # META => queue'[x] = queue[x]
  <2> DEFINE r == InsertAfter(Delete(queue[META], h), Place(META, used'[h]), h)
  <2>1. Members(queue[META]) = Slabs[META] /\ Slabs[META] \subseteq Slab
    BY <1>1, SlabsAre DEF IInv
  <2>2. QueueOK(META, queue[META], used)
    BY <1>1 DEF IInv, QueueInv
  <2>3. SameBut(queue[META], h, used, used')
    BY <1>1, <1>6, <2>1 DEF SameBut
  <2>4. QueueOK(META, r, used') /\ Members(r) = Plus(Members(queue[META]), h)
    BY <2>2, <2>3, RequeueOK
  <2>5. queue' = [queue EXCEPT ![META] = r]
    BY <1>3, <1>4
  <2> HIDE DEF r
  <2>6. queue \in [Cache -> Queues]
    BY DEF IInv, TypeOK
  <2>7. /\ queue' \in [Cache -> Queues] /\ queue'[META] = r
        /\ \A x \in Cache : x # META => queue'[x] = queue[x]
    BY <1>1, <2>4, <2>5, <2>6 DEF QueueOK
  <2> QED BY <2>4, <2>7 DEF Plus
<1>11. Slabs'[META] = Slabs[META] \cup {h} /\ \A x \in Chunk : Slabs'[x] = Slabs[x]
  <2>1. \A x \in Cache : Slabs'[x] = Members(queue'[x]) /\ Slabs[x] = Members(queue[x])
    BY DEF Slabs
  <2> QED BY <1>1, <1>10, <2>1
<1>12. ASSUME NEW x \in Chunk, NEW t \in Slabs[x]
       PROVE  t \in Slab /\ used'[t] = used[t] /\ data_page[t] \in Page /\ data_page[t] # m
  <2>1. t \in Slab /\ t # h
    BY <1>1, <1>9, SlabsAre DEF IInv
  <2>2. data_page[t] \in Page
    BY DEF IInv, DataInv
  <2>3. data_page[t] \in Datas
    BY <2>2 DEF Datas
  <2>4. m \in ToSet(free) \/ m \in Metas
    BY <1>2 DEF Metas
  <2>5. data_page[t] # m
    BY <2>3, <2>4 DEF IInv, PageInv, Parts
  <2> QED BY <1>6, <2>1, <2>2, <2>5
<1>13. QueueInv'
  <2> SUFFICES ASSUME NEW x \in Cache, x # META PROVE QueueOK(x, queue'[x], used')
    BY <1>10 DEF QueueInv
  <2>1. QueueOK(x, queue[x], used) /\ queue'[x] = queue[x]
    BY <1>10 DEF IInv, QueueInv
  <2>2. \A t \in Members(queue[x]) : used'[t] = used[t]
    <3>1. Members(queue[x]) = Slabs[x] /\ x \in Chunk
      BY SlabsAre DEF IInv, Cache
    <3> QED BY <1>12, <3>1
  <2> QED BY <2>1, <2>2, QueueSame
<1>14. TypeOK'
  <2>1. null_deref' \in BOOLEAN
    BY <1>5, Zenon
  <2> QED BY <1>2, <1>5, <1>6, <1>7, <1>8, <1>10, <2>1 DEF IInv, TypeOK, Counters
<1>15. MetaInv'
  <2>1. \A t \in Slabs'[META] : t[2] = 0
    BY <1>4, <1>11 DEF IInv, MetaInv
  <2>2. ASSUME NEW n \in Page PROVE used'[<<n, 0>>] \subseteq 1 .. MetaSlots
    <3>1. used[<<n, 0>>] \subseteq 1 .. MetaSlots
      BY DEF IInv, MetaInv
    <3>2. CASE n = m
      BY <1>4, <1>6, <3>1, <3>2
    <3>3. CASE n # m
      <4>1. <<n, 0>> \in Slab /\ <<n, 0>> # h
        BY <1>4, <3>3, Pairs
      <4> QED BY <1>6, <3>1, <4>1
    <3> QED BY <3>2, <3>3
  <2>3. \A x \in Chunk : \A t \in Slabs'[x] : t[2] # 0 /\ <<t[1], 0>> \in Slabs'[META]
    BY <1>11 DEF IInv, MetaInv
  <2> QED BY <1>5, <2>1, <2>2, <2>3 DEF MetaInv
<1>16. DataInv'
  <2> SUFFICES ASSUME NEW x \in Chunk, NEW t \in Slabs[x]
               PROVE  /\ data_page[t] \in Page /\ slab_ptr'[data_page[t]] = t
                      /\ slab_obj_size'[data_page[t]] = x /\ used'[t] \subseteq Slots(x)
    BY <1>5, <1>11 DEF DataInv
  <2>1. /\ data_page[t] \in Page /\ slab_ptr[data_page[t]] = t
        /\ slab_obj_size[data_page[t]] = x /\ used[t] \subseteq Slots(x)
    BY DEF IInv, DataInv
  <2> QED BY <1>7, <1>12, <2>1
<1>17. PageInv'
  <2>1. Metas' = Metas \cup {m}
    <3>1. \A p \in Page : <<p, 0>> \in Slabs'[META] <=> <<p, 0>> \in Slabs[META] \/ p = m
      BY <1>4, <1>11
    <3> QED BY <3>1 DEF Metas
  <2>2. Datas' = Datas
    BY <1>5, <1>11 DEF Datas
  <2>3. Larges' = Larges
    BY <1>5 DEF Larges
  <2>4. Parts(ToSet(free), Metas, Datas, Larges, leaked)
    BY DEF IInv, PageInv
  <2>5. m \in ToSet(free) \/ m \in Metas
    BY <1>2 DEF Metas
  <2>6. Parts(ToSet(free) \ {m}, Metas \cup {m}, Datas, Larges, leaked)
    BY <2>4, <2>5, PartsMeta
  <2> QED BY <1>2, <1>5, <2>1, <2>2, <2>3, <2>6 DEF PageInv
<1>18. \A a \in held : a.page \in Page /\ a.page # m
  <2>1. m \in ToSet(free) \/ m \in Metas
    BY <1>2 DEF Metas
  <2> QED BY <2>1, HeldPage
<1>19. HeldInv'
  <2>1. ASSUME NEW a \in held, Small(a.size) PROVE SmallOK(a)'
    <3> DEFINE x == slab_obj_size[a.page]
               t == slab_ptr[a.page]
    <3>1. x = Fit(a.size) /\ x \in Chunk /\ t \in Slabs[x] /\ data_page[t] = a.page /\ a.idx \in used[t]
      BY <2>1, HeldSmall DEF IInv
    <3>2. slab_obj_size'[a.page] = x /\ slab_ptr'[a.page] = t
      BY <1>7, <1>18
    <3> HIDE DEF x, t
    <3>3. t \in Slabs'[x] /\ data_page'[t] = a.page /\ a.idx \in used'[t]
      BY <1>5, <1>11, <1>12, <3>1
    <3> QED BY <3>1, <3>2, <3>3 DEF SmallOK
  <2>2. ASSUME NEW a \in held, ~Small(a.size) PROVE LargeOK(a)'
    <3>1. LargeOK(a)
      BY <2>2 DEF IInv, HeldInv
    <3>2. slab_obj_size'[a.page] = slab_obj_size[a.page]
      BY <1>7, <1>18
    <3> QED BY <3>1, <3>2 DEF LargeOK
  <2>3. ASSUME NEW x \in Chunk, NEW t \in Slabs'[x], NEW i \in used'[t]
        PROVE  \E e \in held : e.page = data_page'[t] /\ e.idx = i
    <3>1. t \in Slabs[x] /\ i \in used[t] /\ data_page'[t] = data_page[t]
      BY <1>5, <1>11, <1>12
    <3> QED BY <3>1 DEF IInv, HeldInv
  <2>4. /\ \A a, e \in held : a.page = e.page /\ a.idx = e.idx => a = e
        /\ \A a, e \in held : ~Small(a.size) /\ ~Small(e.size) /\ a # e =>
             Run(a.page, NrPage(a.size)) \cap Run(e.page, NrPage(e.size)) = {}
    BY DEF IInv, HeldInv
  <2> QED BY <1>5, <2>1, <2>2, <2>3, <2>4 DEF HeldInv
<1>20. StatInv'
  <2> SUFFICES ASSUME NEW x \in Cache PROVE StatOK(stat'[x], Slabs'[x], used')
    BY DEF StatInv
  <2>1. StatOK(stat[x], Slabs[x], used) /\ Slabs[x] \subseteq Slab
    BY SlabsAre DEF IInv, StatInv
  <2>2. CASE x = META
    <3>1. StatOK(stat[META], Slabs[META], used)
      BY <2>1, <2>2
    <3>2. \A t \in Slabs[META] : t # h => used'[t] = used[t]
      BY <1>6, <2>1, <2>2
    <3>3. /\ stat'[META].allocated = stat[META].allocated + 1
          /\ stat'[META].slab_pg =
               IF Source(META) = "new" THEN stat[META].slab_pg + 1 ELSE stat[META].slab_pg
      BY <1>1, <1>8, CountedIs DEF IInv
    <3>4. CASE Source(META) = "new"
      <4>1. m \in ToSet(free)
        BY <1>2, <3>4
      <4>2. m \notin Metas
        BY <4>1 DEF IInv, PageInv, Parts
      <4>3. h \notin Slabs[META]
        BY <1>4, <4>2 DEF Metas
      <4>4. used[h] = {}
        BY <1>4, <4>3, MetaEmpty DEF IInv
      <4>5. used'[h] = {k} /\ stat'[META].slab_pg = stat[META].slab_pg + 1
        BY <1>6, <3>3, <3>4, <4>4
      <4>6. StatOK(stat'[META], Slabs[META] \cup {h}, used')
        BY <3>1, <3>2, <3>3, <4>3, <4>5, StatPlus
      <4> QED BY <1>11, <2>2, <4>6
    <3>5. CASE Source(META) # "new"
      <4>1. h \in Slabs[META] /\ k \notin used[h] /\ used'[h] = used[h] \cup {k}
        BY <1>2, <1>3, <1>4, <1>6, <3>5
      <4>2. stat'[META].slab_pg = stat[META].slab_pg /\ stat'[META].allocated = stat[META].allocated + 1
        BY <3>3, <3>5
      <4>3. StatOK(stat'[META], Slabs[META] \cup {h}, used')
        BY <3>1, <3>2, <4>1, <4>2, StatPlus
      <4> QED BY <1>11, <2>2, <4>3
    <3> QED BY <3>4, <3>5
  <2>3. CASE x # META
    <3>1. x \in Chunk /\ stat'[x] = stat[x] /\ Slabs'[x] = Slabs[x]
      BY <1>8, <1>11, <2>3 DEF Cache
    <3>2. \A t \in Slabs[x] : used'[t] = used[t]
      BY <1>12, <3>1
    <3>3. StatOK(stat[x], Slabs[x], used')
      BY <2>1, <3>2, StatSame
    <3> QED BY <3>1, <3>3
  <2> QED BY <2>2, <2>3
<1> QED BY <1>13, <1>14, <1>15, <1>16, <1>17, <1>19, <1>20 DEF IInv

-----------------------------------------------------------------------------
(***************************************************************************)
(* Free, when the slab goes.                                               *)
(***************************************************************************)

\* A data page is leaked, and the page of a MetaSlab is freed.
LEMMA PartsLeak ==
  ASSUME NEW F, NEW M, NEW D, NEW L, NEW K, NEW p \in D, Parts(F, M, D, L, K)
  PROVE  Parts(F, M, D \ {p}, L, K \cup {p})
BY DEF Parts

LEMMA PartsFree ==
  ASSUME NEW F, NEW M, NEW D, NEW L, NEW K, NEW m \in M, Parts(F, M, D, L, K)
  PROVE  Parts(F \cup {m}, M \ {m}, D, L, K)
BY DEF Parts

\* FreeReclaimed keeps the invariant.
LEMMA FreeReclaimedInv ==
  ASSUME IInv, NEW b \in held, Small(b.size), NEW c \in Chunk, NEW s \in Slabs[c],
         data_page[s] = b.page, b.idx \in used[s],
         FreeReclaimed(b, c, s), held' = held \ {b}, null_deref' = null_deref, ~null_deref
  PROVE  IInv'
<1>1. /\ c \in Cache /\ META \in Cache /\ c # META /\ s \in Slab
      /\ b.page \in Page /\ slab_ptr[b.page] = s
  <2>1. c \in Cache /\ META \in Cache /\ c # META
    BY SlotFacts DEF Cache
  <2> QED BY <2>1, SlabsAre DEF IInv, DataInv
<1>2. PICK m \in Page, k \in 1 .. MetaSlots, h \in Slab :
        /\ s = <<m, k>> /\ s[1] = m /\ s[2] = k /\ h = <<m, 0>> /\ h[1] = m /\ h[2] = 0 /\ h # s
        /\ h \in Slabs[META] /\ k \in used[h] /\ k # 0
  <2> DEFINE h == <<s[1], 0>>
  <2>1. s[2] # 0 /\ h \in Slabs[META]
    BY DEF IInv, MetaInv
  <2>2. s[1] \in Page /\ s[2] \in 1 .. MetaSlots /\ s = <<s[1], s[2]>> /\ h \in Slab
    BY <1>1, <2>1, Pairs
  <2>3. s[2] \in used[h]
    BY <2>2 DEF IInv, MetaInv
  <2> QED BY <2>1, <2>2, <2>3
<1>3. PICK gone \in BOOLEAN : gone <=> MetaFreed(m, used[h] \ {k})
  OBVIOUS
<1>4. gone => used[h] = {k}
  BY <1>2, <1>3 DEF MetaFreed
<1>5. used[s] = {b.idx}
  <2>1. Place(c, used[s] \ {b.idx}) = "empty"
    BY DEF FreeReclaimed
  <2>2. used[s] \ {b.idx} = {}
    BY <2>1 DEF Place
  <2> QED BY <2>2
<1>6. /\ used' = [used EXCEPT ![s] = {}, ![h] = used[h] \ {k}]
      /\ leaked' = leaked \cup {b.page}
      /\ data_page' = [data_page EXCEPT ![s] = NoPage]
      /\ slab_ptr' = slab_ptr /\ slab_obj_size' = slab_obj_size
  BY <1>2 DEF FreeReclaimed
<1>7. queue' = [queue EXCEPT
        ![c] = Delete(queue[c], s),
        ![META] = IF gone THEN Delete(queue[META], h)
                  ELSE InsertAfter(Delete(queue[META], h), Place(META, used[h] \ {k}), h)]
  BY <1>1, <1>2, <1>3 DEF FreeReclaimed, Requeue
<1>8. /\ stat' \in [Cache -> Counters]
      /\ stat'[c].allocated = stat[c].allocated - 1 /\ stat'[c].slab_pg = stat[c].slab_pg - 1
      /\ stat'[META].allocated = stat[META].allocated - 1
      /\ stat'[META].slab_pg = IF gone THEN stat[META].slab_pg - 1 ELSE stat[META].slab_pg
      /\ \A x \in Cache : x # META /\ x # c => stat'[x] = stat[x]
  <2> DEFINE q == [stat[META] EXCEPT !.allocated = @ - 1]
             r == IF MetaFreed(s[1], used[<<s[1], 0>>] \ {s[2]}) THEN Reclaimed(META) ELSE q
  <2>1. stat' = [stat EXCEPT ![c] = Reclaimed(c), ![META] = r]
    BY Zenon DEF FreeReclaimed, Freed
  <2>2. MetaFreed(s[1], used[<<s[1], 0>>] \ {s[2]}) <=> gone
    BY <1>2, <1>3
  <2>3. stat \in [Cache -> Counters]
    BY DEF IInv, TypeOK, Counters
  <2>4. q \in Counters /\ q.allocated = stat[META].allocated - 1 /\ q.slab_pg = stat[META].slab_pg
    BY <1>1, <2>3 DEF Counters
  <2> HIDE DEF q
  <2>5. /\ r \in Counters /\ r.allocated = stat[META].allocated - 1
        /\ r.slab_pg = IF gone THEN stat[META].slab_pg - 1 ELSE stat[META].slab_pg
    BY <1>1, <2>2, <2>4, ReclaimedIs DEF IInv
  <2>6. /\ Reclaimed(c) \in Counters /\ Reclaimed(c).allocated = stat[c].allocated - 1
        /\ Reclaimed(c).slab_pg = stat[c].slab_pg - 1
    BY <1>1, ReclaimedIs DEF IInv
  <2> HIDE DEF r
  <2>7. /\ stat' \in [Cache -> Counters] /\ stat'[c] = Reclaimed(c) /\ stat'[META] = r
        /\ \A x \in Cache : x # META /\ x # c => stat'[x] = stat[x]
    BY <1>1, <2>1, <2>3, <2>5, <2>6
  <2> QED BY <2>5, <2>6, <2>7
<1>9. free' = IF gone THEN <<m>> \o free ELSE free
  BY <1>2, <1>3 DEF FreeReclaimed
\* The state afterwards, value by value.
<1>10. /\ used' \in [Slab -> SUBSET Nat]
       /\ used'[h] = used[h] \ {k} /\ used'[s] = {}
       /\ \A t \in Slab : t # h /\ t # s => used'[t] = used[t]
  BY <1>1, <1>2, <1>6 DEF IInv, TypeOK
<1>11. /\ data_page' \in [Slab -> Page \cup {NoPage}]
       /\ \A t \in Slab : t # s => data_page'[t] = data_page[t]
  BY <1>1, <1>6 DEF IInv, TypeOK
<1>12. \A x \in Cache : s \in Slabs[x] => x = c
  BY <1>1, OneCache DEF IInv
<1>13. \A x \in Chunk : h \notin Slabs[x]
  BY <1>2 DEF IInv, MetaInv
<1>14. /\ queue' \in [Cache -> Queues]
       /\ QueueOK(META, queue'[META], used')
       /\ Members(queue'[META]) = IF gone THEN Members(queue[META]) \ {h} ELSE Members(queue[META])
       /\ QueueOK(c, queue'[c], used') /\ Members(queue'[c]) = Members(queue[c]) \ {s}
       /\ \A x \in Cache : x # META /\ x # c => queue'[x] = queue[x]
  <2> DEFINE q == Delete(queue[c], s)
             r == InsertAfter(Delete(queue[META], h), Place(META, used'[h]), h)
             e == Delete(queue[META], h)
             z == IF gone THEN e ELSE r
  <2>1. /\ Members(queue[META]) = Slabs[META] /\ Slabs[META] \subseteq Slab
        /\ Members(queue[c]) = Slabs[c] /\ Slabs[c] \subseteq Slab
    BY <1>1, SlabsAre DEF IInv
  <2>2. QueueOK(META, queue[META], used) /\ QueueOK(c, queue[c], used)
    BY <1>1 DEF IInv, QueueInv
  <2>3. SameBut(queue[META], h, used, used') /\ SameBut(queue[c], s, used, used')
    BY <1>1, <1>10, <1>12, <1>13, <2>1 DEF SameBut
  <2>4. QueueOK(c, q, used') /\ Members(q) = Minus(Members(queue[c]), s)
    BY <2>2, <2>3, DeleteOK
  <2>5. QueueOK(META, e, used') /\ Members(e) = Minus(Members(queue[META]), h)
    BY <2>2, <2>3, DeleteOK
  <2>6. QueueOK(META, r, used') /\ Members(r) = Plus(Members(queue[META]), h)
    BY <2>2, <2>3, RequeueOK
  <2>7. queue' = [queue EXCEPT ![c] = q, ![META] = z]
    BY <1>7, <1>10
  <2> HIDE DEF q, r, e
  <2>8. /\ QueueOK(META, z, used')
        /\ Members(z) = IF gone THEN Members(queue[META]) \ {h} ELSE Members(queue[META])
    <3>1. CASE gone
      BY <2>5, <3>1 DEF Minus
    <3>2. CASE ~gone
      BY <1>2, <2>1, <2>6, <3>2 DEF Plus
    <3> QED BY <3>1, <3>2
  <2> HIDE DEF z
  <2>9. queue \in [Cache -> Queues] /\ q \in Queues /\ z \in Queues
    BY <2>4, <2>8 DEF IInv, TypeOK, QueueOK
  <2>10. /\ queue' \in [Cache -> Queues] /\ queue'[META] = z /\ queue'[c] = q
         /\ \A x \in Cache : x # META /\ x # c => queue'[x] = queue[x]
    BY <1>1, <2>7, <2>9
  <2> QED BY <2>4, <2>8, <2>10 DEF Minus
<1>15. /\ Slabs'[META] = IF gone THEN Slabs[META] \ {h} ELSE Slabs[META]
       /\ Slabs'[c] = Slabs[c] \ {s}
       /\ \A x \in Cache : x # META /\ x # c => Slabs'[x] = Slabs[x]
  <2>1. \A x \in Cache : Slabs'[x] = Members(queue'[x]) /\ Slabs[x] = Members(queue[x])
    BY DEF Slabs
  <2> QED BY <1>1, <1>14, <2>1
<1>16. QueueInv'
  <2> SUFFICES ASSUME NEW x \in Cache, x # META, x # c PROVE QueueOK(x, queue'[x], used')
    BY <1>14 DEF QueueInv
  <2>1. QueueOK(x, queue[x], used) /\ queue'[x] = queue[x]
    BY <1>14 DEF IInv, QueueInv
  <2>2. \A t \in Members(queue[x]) : used'[t] = used[t]
    <3>1. Members(queue[x]) = Slabs[x] /\ Slabs[x] \subseteq Slab /\ x \in Chunk
      BY SlabsAre DEF IInv, Cache
    <3> QED BY <1>10, <1>12, <1>13, <3>1
  <2> QED BY <2>1, <2>2, QueueSame
<1>17. /\ free' \in Seq(Page) /\ Once(free')
       /\ ToSet(free') = IF gone THEN ToSet(free) \cup {m} ELSE ToSet(free)
  <2>1. free \in Seq(Page) /\ Once(free)
    BY DEF IInv, TypeOK, PageInv
  <2>2. m \notin ToSet(free)
    <3>1. m \in Metas
      BY <1>2 DEF Metas
    <3> QED BY <3>1 DEF IInv, PageInv, Parts
  <2>3. CASE gone
    BY <1>9, <2>1, <2>2, <2>3, Prepend
  <2>4. CASE ~gone
    BY <1>9, <2>1, <2>4
  <2> QED BY <2>3, <2>4
<1>18. TypeOK'
  BY <1>1, <1>6, <1>8, <1>10, <1>11, <1>14, <1>17 DEF IInv, TypeOK, Counters
\* The slabs of the chunk caches that are left.
<1>19. /\ \A x \in Chunk : \A t \in Slabs'[x] : t \in Slabs[x] /\ t \in Slab /\ t # s /\ t # h
       /\ \A x \in Chunk : \A t \in Slabs[x] : t # s => t \in Slabs'[x]
  <2>1. \A x \in Chunk : x \in Cache /\ x # META
    BY SlotFacts DEF Cache
  <2>2. ASSUME NEW x \in Chunk, NEW t \in Slabs'[x] PROVE t \in Slabs[x] /\ t # s
    <3>1. CASE x = c
      BY <1>15, <3>1
    <3>2. CASE x # c
      BY <1>12, <1>15, <2>1, <3>2
    <3> QED BY <3>1, <3>2
  <2>3. \A x \in Chunk : \A t \in Slabs[x] : t \in Slab /\ t # h
    BY <1>13, <2>1, SlabsAre DEF IInv
  <2>4. ASSUME NEW x \in Chunk, NEW t \in Slabs[x], t # s PROVE t \in Slabs'[x]
    <3>1. CASE x = c
      BY <1>15, <2>4, <3>1
    <3>2. CASE x # c
      BY <1>15, <2>1, <3>2
    <3> QED BY <3>1, <3>2
  <2> QED BY <2>2, <2>3, <2>4
<1>20. MetaInv'
  <2>1. \A t \in Slabs'[META] : t[2] = 0
    BY <1>15 DEF IInv, MetaInv
  <2>2. ASSUME NEW n \in Page
        PROVE  used'[<<n, 0>>] = IF n = m THEN used[<<n, 0>>] \ {k} ELSE used[<<n, 0>>]
    <3>1. CASE n = m
      BY <1>2, <1>10, <3>1
    <3>2. CASE n # m
      <4>1. <<n, 0>> \in Slab /\ <<n, 0>> # h /\ <<n, 0>> # s
        BY <1>2, <3>2, Pairs
      <4> QED BY <1>10, <3>2, <4>1
    <3> QED BY <3>1, <3>2
  <2>3. ASSUME NEW n \in Page PROVE used'[<<n, 0>>] \subseteq 1 .. MetaSlots
    <3>1. used[<<n, 0>>] \subseteq 1 .. MetaSlots
      BY DEF IInv, MetaInv
    <3> QED BY <2>2, <3>1
  <2>4. ASSUME NEW n \in Page, NEW i \in 1 .. MetaSlots
        PROVE  i \in used'[<<n, 0>>] <=> \E x \in Chunk : <<n, i>> \in Slabs'[x]
    <3>1. i \in used[<<n, 0>>] <=> \E x \in Chunk : <<n, i>> \in Slabs[x]
      BY DEF IInv, MetaInv
    <3>2. CASE n = m /\ i = k
      <4>1. i \notin used'[<<n, 0>>]
        BY <2>2, <3>2
      <4>2. <<n, i>> = s
        BY <1>2, <3>2
      <4> QED BY <1>19, <4>1, <4>2
    <3>3. CASE ~(n = m /\ i = k)
      <4>1. <<n, i>> # s
        BY <1>2, <3>3
      <4>2. (\E x \in Chunk : <<n, i>> \in Slabs'[x]) <=> (\E x \in Chunk : <<n, i>> \in Slabs[x])
        BY <1>19, <4>1
      <4>3. i \in used'[<<n, 0>>] <=> i \in used[<<n, 0>>]
        BY <2>2, <3>3
      <4> QED BY <3>1, <4>2, <4>3
    <3> QED BY <3>2, <3>3
  <2>5. ASSUME NEW x \in Chunk, NEW t \in Slabs'[x]
        PROVE  t[2] # 0 /\ <<t[1], 0>> \in Slabs'[META]
    <3>1. t \in Slabs[x] /\ t \in Slab /\ t # s
      BY <1>19
    <3>2. t[2] # 0 /\ <<t[1], 0>> \in Slabs[META]
      BY <3>1 DEF IInv, MetaInv
    <3>3. CASE ~gone
      BY <1>15, <3>2, <3>3
    <3>4. CASE gone
      <4>1. t[1] \in Page /\ t[2] \in 1 .. MetaSlots /\ t = <<t[1], t[2]>>
        BY <3>1, <3>2, Pairs
      <4>2. t[2] \in used[<<t[1], 0>>]
        BY <3>1, <4>1 DEF IInv, MetaInv
      <4>3. t[1] # m
        <5> SUFFICES ASSUME t[1] = m PROVE FALSE
          OBVIOUS
        <5>1. t[2] = k
          BY <1>2, <1>4, <3>4, <4>2
        <5> QED BY <1>2, <3>1, <4>1, <5>1
      <4>4. <<t[1], 0>> # h
        BY <1>2, <4>3
      <4> QED BY <1>15, <3>2, <3>4, <4>4
    <3> QED BY <3>2, <3>3, <3>4
  <2> QED BY <2>1, <2>3, <2>4, <2>5 DEF MetaInv
<1>21. DataInv'
  <2> SUFFICES ASSUME NEW x \in Chunk, NEW t \in Slabs'[x]
               PROVE  /\ data_page'[t] \in Page /\ slab_ptr'[data_page'[t]] = t
                      /\ slab_obj_size'[data_page'[t]] = x /\ used'[t] \subseteq Slots(x)
    BY DEF DataInv
  <2>1. t \in Slabs[x] /\ t \in Slab /\ t # s /\ t # h
    BY <1>19
  <2>2. /\ data_page[t] \in Page /\ slab_ptr[data_page[t]] = t
        /\ slab_obj_size[data_page[t]] = x /\ used[t] \subseteq Slots(x)
    BY <2>1 DEF IInv, DataInv
  <2> QED BY <1>6, <1>10, <1>11, <2>1, <2>2
<1>22. PageInv'
  <2>1. Metas' = IF gone THEN Metas \ {m} ELSE Metas
    <3>1. \A p \in Page : <<p, 0>> \in Slabs'[META] <=> <<p, 0>> \in Slabs[META] /\ ~(gone /\ p = m)
      BY <1>2, <1>15
    <3>2. \A p : p \in Metas' <=> p \in Metas /\ ~(gone /\ p = m)
      BY <3>1 DEF Metas
    <3> QED BY <3>2
  <2>2. Datas' = Datas \ {b.page}
    <3>1. ASSUME NEW p \in Page, NEW x \in Chunk, NEW t \in Slabs'[x], data_page'[t] = p
          PROVE  p # b.page /\ p \in Datas
      <4>1. t \in Slabs[x] /\ t \in Slab /\ t # s
        BY <1>19
      <4>2. data_page[t] = p
        BY <1>11, <3>1, <4>1
      <4>3. slab_ptr[p] = t
        BY <4>1, <4>2 DEF IInv, DataInv
      <4> QED BY <1>1, <4>1, <4>2, <4>3 DEF Datas
    <3>2. ASSUME NEW p \in Page, NEW x \in Chunk, NEW t \in Slabs[x], data_page[t] = p, p # b.page
          PROVE  p \in Datas'
      <4>1. t # s
        BY <3>2
      <4>2. t \in Slabs'[x]
        BY <1>19, <4>1
      <4>3. data_page'[t] = p
        BY <1>11, <1>19, <3>2, <4>1, <4>2
      <4> QED BY <4>2, <4>3 DEF Datas
    <3>3. Datas' \subseteq Datas \ {b.page}
      BY <3>1 DEF Datas
    <3>4. Datas \ {b.page} \subseteq Datas'
      BY <3>2 DEF Datas
    <3> QED BY <3>3, <3>4
  <2>3. Larges' = Larges
    BY DEF Larges
  <2>4. Parts(ToSet(free), Metas, Datas, Larges, leaked)
    BY DEF IInv, PageInv
  <2>5. b.page \in Datas
    BY <1>1 DEF Datas
  <2>6. Parts(ToSet(free), Metas, Datas \ {b.page}, Larges, leaked \cup {b.page})
    BY <2>4, <2>5, PartsLeak
  <2>7. m \in Metas
    BY <1>2 DEF Metas
  <2>8. Parts(ToSet(free) \cup {m}, Metas \ {m}, Datas \ {b.page}, Larges, leaked \cup {b.page})
    BY <2>6, <2>7, PartsFree
  <2>9. Parts(ToSet(free)', Metas', Datas', Larges', leaked')
    <3>1. CASE gone
      BY <1>6, <1>17, <2>1, <2>2, <2>3, <2>8, <3>1
    <3>2. CASE ~gone
      BY <1>6, <1>17, <2>1, <2>2, <2>3, <2>6, <3>2
    <3> QED BY <3>1, <3>2
  <2> QED BY <1>17, <2>9 DEF PageInv
<1>23. HeldInv'
  <2>1. ASSUME NEW a \in held', Small(a.size) PROVE SmallOK(a)'
    <3> DEFINE x == slab_obj_size[a.page]
               t == slab_ptr[a.page]
    <3>1. a \in held /\ a # b
      OBVIOUS
    <3>2. x = Fit(a.size) /\ x \in Chunk /\ t \in Slabs[x] /\ data_page[t] = a.page /\ a.idx \in used[t]
      BY <2>1, <3>1, HeldSmall DEF IInv
    <3>3. slab_obj_size'[a.page] = x /\ slab_ptr'[a.page] = t
      BY <1>6
    <3> HIDE DEF x, t
    <3>4. t # s
      <4> SUFFICES ASSUME t = s PROVE FALSE
        OBVIOUS
      <4>1. a.page = b.page /\ a.idx = b.idx
        BY <1>5, <3>2
      <4> QED BY <3>1, <4>1 DEF IInv, HeldInv
    <3>5. t \in Slabs'[x] /\ t \in Slab /\ t # h
      BY <1>19, <3>2, <3>4
    <3>6. data_page'[t] = a.page /\ a.idx \in used'[t]
      BY <1>10, <1>11, <3>2, <3>4, <3>5
    <3> QED BY <3>2, <3>3, <3>5, <3>6 DEF SmallOK
  <2>2. \A a \in held' : ~Small(a.size) => LargeOK(a)'
    BY <1>6 DEF IInv, HeldInv, LargeOK
  <2>3. \A a, e \in held' : a.page = e.page /\ a.idx = e.idx => a = e
    BY DEF IInv, HeldInv
  <2>4. \A a, e \in held' : ~Small(a.size) /\ ~Small(e.size) /\ a # e =>
          Run(a.page, NrPage(a.size)) \cap Run(e.page, NrPage(e.size)) = {}
    BY DEF IInv, HeldInv
  <2>5. ASSUME NEW x \in Chunk, NEW t \in Slabs'[x], NEW i \in used'[t]
        PROVE  \E e \in held' : e.page = data_page'[t] /\ e.idx = i
    <3>1. t \in Slabs[x] /\ t \in Slab /\ t # s /\ t # h
      BY <1>19
    <3>2. i \in used[t] /\ data_page'[t] = data_page[t]
      BY <1>10, <1>11, <2>5, <3>1
    <3>3. PICK e \in held : e.page = data_page[t] /\ e.idx = i
      BY <3>1, <3>2 DEF IInv, HeldInv
    <3>4. slab_ptr[data_page[t]] = t
      BY <3>1 DEF IInv, DataInv
    <3>5. e # b
      BY <1>1, <3>1, <3>3, <3>4
    <3> QED BY <3>2, <3>3, <3>5
  <2> QED BY <2>1, <2>2, <2>3, <2>4, <2>5 DEF HeldInv
<1>24. StatInv'
  <2> SUFFICES ASSUME NEW x \in Cache PROVE StatOK(stat'[x], Slabs'[x], used')
    BY DEF StatInv
  <2>1. StatOK(stat[x], Slabs[x], used) /\ Slabs[x] \subseteq Slab
    BY SlabsAre DEF IInv, StatInv
  <2>2. CASE x = c
    <3>1. \A t \in Slabs[c] : t # s => used'[t] = used[t]
      BY <1>10, <1>13, <2>1, <2>2
    <3>2. stat'[c].allocated = stat[c].allocated - 1 /\ stat'[c].slab_pg = stat[c].slab_pg - 1
      BY <1>8
    <3>3. StatOK(stat[c], Slabs[c], used) /\ used[s] = {b.idx}
      BY <1>5, <2>1, <2>2
    <3>4. PICK o : used[s] = {o}
      BY <3>3
    <3> DEFINE st == stat[c]
               r == stat'[c]
               S == Slabs[c]
    <3>5. r.allocated = st.allocated - 1 /\ r.slab_pg = st.slab_pg - 1
      BY <3>2
    <3>6. StatOK(st, S, used) /\ s \in S /\ \A t \in S : t # s => used'[t] = used[t]
      BY <3>1, <3>3
    <3> HIDE DEF st, r, S
    <3>7. StatOK(r, S \ {s}, used')
      BY <3>4, <3>5, <3>6, StatDrop
    <3> QED BY <1>15, <2>2, <3>7 DEF r, S
  <2>3. CASE x = META
    <3>1. StatOK(stat[META], Slabs[META], used) /\ h \in Slabs[META]
      BY <1>2, <2>1, <2>3
    <3>2. \A t \in Slabs[META] : t # h => used'[t] = used[t]
      BY <1>1, <1>10, <1>12, <2>1, <2>3
    <3>3. CASE gone
      <4> DEFINE st == stat[META]
                 r == stat'[META]
                 S == Slabs[META]
      <4>0. PICK o : used[h] = {o}
        BY <1>4, <3>3
      <4>1. r.allocated = st.allocated - 1 /\ r.slab_pg = st.slab_pg - 1
        BY <1>8, <3>3
      <4>2. StatOK(st, S, used) /\ h \in S /\ \A t \in S : t # h => used'[t] = used[t]
        BY <3>1, <3>2
      <4> HIDE DEF st, r, S
      <4>3. StatOK(r, S \ {h}, used')
        BY <4>0, <4>1, <4>2, StatDrop
      <4> QED BY <1>15, <2>3, <3>3, <4>3 DEF r, S
    <3>4. CASE ~gone
      <4>1. /\ stat'[META].allocated = stat[META].allocated - 1
            /\ stat'[META].slab_pg = stat[META].slab_pg
        BY <1>8, <3>4
      <4>2. k \in used[h] /\ used'[h] = used[h] \ {k}
        BY <1>2, <1>10
      <4>3. StatOK(stat'[META], Slabs[META], used')
        BY <3>1, <3>2, <4>1, <4>2, StatMinus
      <4> QED BY <1>15, <2>3, <3>4, <4>3
    <3> QED BY <3>3, <3>4
  <2>4. CASE x # c /\ x # META
    <3>1. x \in Chunk /\ stat'[x] = stat[x] /\ Slabs'[x] = Slabs[x]
      BY <1>8, <1>15, <2>4 DEF Cache
    <3>2. \A t \in Slabs[x] : used'[t] = used[t]
      BY <1>10, <1>12, <1>13, <2>1, <2>4, <3>1
    <3>3. StatOK(stat[x], Slabs[x], used')
      BY <2>1, <3>2, StatSame
    <3> QED BY <3>1, <3>3
  <2> QED BY <2>2, <2>3, <2>4
<1> QED BY <1>16, <1>18, <1>20, <1>21, <1>22, <1>23, <1>24 DEF IInv

-----------------------------------------------------------------------------
(***************************************************************************)
(* Whole pages.                                                            *)
(***************************************************************************)

LEMMA PartsTake ==
  ASSUME NEW F, NEW M, NEW D, NEW L, NEW K, NEW R, R \subseteq F, Parts(F, M, D, L, K)
  PROVE  Parts(F \ R, M, D, L \cup R, K)
BY DEF Parts

LEMMA PartsGive ==
  ASSUME NEW F, NEW M, NEW D, NEW L, NEW K, NEW R, R \subseteq L, Parts(F, M, D, L, K)
  PROVE  Parts(F \cup R, M, D, L \ R, K)
BY DEF Parts

\* What AllocPages takes was free.
LEMMA TakesFree ==
  ASSUME NEW p \in Page, p \in ToSet(free), NEW n \in Nat, n >= 1, Takes(p, n)
  PROVE  Run(p, n) \subseteq ToSet(free) /\ p \in Run(p, n)
<1>1. p \in Int
  BY DEF Page
<1>2. p \in Run(p, n)
  BY <1>1 DEF Run
<1>3. CASE n = 1
  <2>1. \A x \in Run(p, n) : x = p
    BY <1>1, <1>3 DEF Run
  <2> QED BY <1>2, <2>1
<1>4. CASE n # 1
  BY <1>2, <1>4 DEF Takes
<1> QED BY <1>3, <1>4

\* The pages of a large object are counted as such.
LEMMA RunLarges ==
  ASSUME TypeOK, HeldInv, NEW a \in held, ~Small(a.size)
  PROVE  Run(a.page, NrPage(a.size)) \subseteq Larges
<1>1. Run(a.page, NrPage(a.size)) \subseteq Page
  BY HeldLarge
<1> QED BY <1>1 DEF Larges

\* AllocLarge keeps the invariant.
LEMMA AllocLargeInv ==
  ASSUME IInv, NEW size \in Requests, ~Small(size), AllocLarge(size)
  PROVE  IInv'
<1>1. PICK n \in Nat : n = NrPage(size) /\ n >= 1 /\ n * PAGESIZE \in Nat
  <2>1. size \in Nat /\ size > 2048
    BY HeapAssumption, SMT DEF Small
  <2> QED BY <2>1, NrPageFacts
<1>2. PICK p \in ToSet(free) :
        /\ Takes(p, n)
        /\ free' = Without(free, Run(p, n))
        /\ slab_obj_size' = [slab_obj_size EXCEPT ![p] = n * PAGESIZE]
        /\ held' = held \cup {[page |-> p, idx |-> 0, size |-> size]}
  BY <1>1, Zenon DEF AllocLarge
<1>3. UNCHANGED <<slab_ptr, data_page, used, queue, stat, leaked, null_deref>>
  BY DEF AllocLarge
<1>4. p \in Page
  BY Elements DEF IInv, TypeOK
<1>5. PICK R : R = Run(p, n)
  OBVIOUS
<1>6. R \subseteq ToSet(free) /\ p \in R
  BY <1>1, <1>2, <1>4, <1>5, TakesFree
<1>7. R \subseteq Page
  <2>1. ToSet(free) \subseteq Page
    BY Elements DEF IInv, TypeOK
  <2> QED BY <1>6, <2>1
<1>8. free' \in Seq(Page) /\ Once(free') /\ ToSet(free') = ToSet(free) \ R
  <2>1. free \in Seq(Page) /\ Once(free)
    BY DEF IInv, TypeOK, PageInv
  <2>2. free' = Without(free, R)
    BY <1>2, <1>5
  <2> QED BY <2>1, <2>2, Kept
<1>9. PICK b \in [page : Page, idx : Nat, size : Requests] :
        held' = held \cup {b} /\ b.page = p /\ b.idx = 0 /\ b.size = size
  <2> DEFINE b == [page |-> p, idx |-> 0, size |-> size]
  <2>1. b \in [page : Page, idx : Nat, size : Requests]
    BY <1>4
  <2> QED BY <1>2, <2>1
<1>10. /\ slab_obj_size' \in [Page -> Nat] /\ slab_obj_size'[p] = n * PAGESIZE
       /\ \A q \in Page : q # p => slab_obj_size'[q] = slab_obj_size[q]
  BY <1>1, <1>2, <1>4 DEF IInv, TypeOK
<1>11. Slabs' = Slabs
  BY <1>3 DEF Slabs
<1>12. QueueInv' /\ MetaInv' /\ StatInv'
  <2>1. QueueInv'
    BY <1>3 DEF IInv, QueueInv
  <2>2. MetaInv'
    BY <1>3, <1>11 DEF IInv, MetaInv
  <2>3. StatInv'
    BY <1>3, <1>11 DEF IInv, StatInv
  <2> QED BY <2>1, <2>2, <2>3
<1>13. TypeOK'
  BY <1>3, <1>8, <1>9, <1>10 DEF IInv, TypeOK
<1>14. DataInv'
  <2> SUFFICES ASSUME NEW x \in Chunk, NEW t \in Slabs[x]
               PROVE  slab_obj_size'[data_page[t]] = x
    BY <1>3, <1>11 DEF IInv, DataInv
  <2>1. data_page[t] \in Page /\ slab_obj_size[data_page[t]] = x
    BY DEF IInv, DataInv
  <2>2. data_page[t] \in Datas
    BY <2>1 DEF Datas
  <2>3. data_page[t] \notin ToSet(free)
    BY <2>2 DEF IInv, PageInv, Parts
  <2> QED BY <1>2, <1>10, <2>1, <2>3
<1>15. ~Small(b.size) /\ Run(b.page, NrPage(b.size)) = R
  BY <1>1, <1>5, <1>9
<1>16. PageInv'
  <2>1. Metas' = Metas /\ Datas' = Datas
    BY <1>3, <1>11 DEF Metas, Datas
  <2>2. \A q : q \in Larges' <=> q \in Larges \/ q \in R
    BY <1>7, <1>9, <1>15 DEF Larges
  <2>3. Larges' = Larges \cup R
    BY <2>2
  <2>4. Parts(ToSet(free) \ R, Metas, Datas, Larges \cup R, leaked)
    BY <1>6, PartsTake DEF IInv, PageInv
  <2> QED BY <1>3, <1>8, <2>1, <2>3, <2>4 DEF PageInv
<1>17. \A a \in held : a.page \in Page /\ a.page # p
  BY <1>2, HeldPage
<1>18. HeldInv'
  <2>1. LargeOK(b)'
    BY <1>1, <1>7, <1>9, <1>10, <1>15 DEF LargeOK
  <2>2. \A a \in held : slab_obj_size'[a.page] = slab_obj_size[a.page]
    BY <1>10, <1>17
  <2>3. \A a \in held : Small(a.size) => SmallOK(a)'
    BY <1>3, <1>11, <2>2 DEF IInv, HeldInv, SmallOK
  <2>4. \A a \in held : ~Small(a.size) => LargeOK(a)'
    BY <2>2 DEF IInv, HeldInv, LargeOK
  <2>5. \A a \in held' : (Small(a.size) => SmallOK(a)') /\ (~Small(a.size) => LargeOK(a)')
    BY <1>9, <1>15, <2>1, <2>3, <2>4
  <2>6. \A a, e \in held' : a.page = e.page /\ a.idx = e.idx => a = e
    BY <1>9, <1>17 DEF IInv, HeldInv
  <2>7. ASSUME NEW a \in held, ~Small(a.size) PROVE Run(a.page, NrPage(a.size)) \cap R = {}
    <3>1. Run(a.page, NrPage(a.size)) \subseteq Larges
      BY <2>7, RunLarges DEF IInv
    <3>2. \A q \in Larges : q \notin ToSet(free)
      BY DEF IInv, PageInv, Parts
    <3> QED BY <1>6, <3>1, <3>2
  <2>8. \A a, e \in held' : ~Small(a.size) /\ ~Small(e.size) /\ a # e =>
          Run(a.page, NrPage(a.size)) \cap Run(e.page, NrPage(e.size)) = {}
    BY <1>9, <1>15, <2>7 DEF IInv, HeldInv
  <2>9. \A x \in Chunk : \A t \in Slabs[x] : \A i \in used[t] :
          \E e \in held' : e.page = data_page[t] /\ e.idx = i
    BY <1>9 DEF IInv, HeldInv
  <2> QED BY <1>3, <1>11, <2>5, <2>6, <2>8, <2>9 DEF HeldInv
<1> QED BY <1>12, <1>13, <1>14, <1>16, <1>18 DEF IInv

\* FreeLarge keeps the invariant.
LEMMA FreeLargeInv ==
  ASSUME IInv, NEW b \in held, ~Small(b.size),
         FreeLarge(b), held' = held \ {b}, null_deref' = null_deref
  PROVE  IInv'
<1>1. PICK p \in Page, n \in Nat, R \in SUBSET Page :
        /\ p = b.page /\ n = NrPage(b.size) /\ n = slab_obj_size[b.page] \div PAGESIZE
        /\ R = Run(p, n) /\ R \subseteq Page
  BY HeldLarge DEF IInv
<1>2. /\ free' = [k \in 1 .. n |-> p + n - k] \o free
      /\ UNCHANGED <<slab_ptr, slab_obj_size, data_page, used, queue, stat, leaked>>
  BY <1>1 DEF FreeLarge
<1>3. R \subseteq Larges
  BY <1>1, RunLarges DEF IInv
<1>4. free' \in Seq(Page) /\ Once(free') /\ ToSet(free') = ToSet(free) \cup R
  <2>1. free \in Seq(Page) /\ Once(free)
    BY DEF IInv, TypeOK, PageInv
  <2>2. p \in Nat /\ n \in Nat
    BY <1>1 DEF Page
  <2>3. \A q \in Larges : q \notin ToSet(free)
    BY DEF IInv, PageInv, Parts
  <2>4. (\A x \in Run(p, n) : x \notin ToSet(free)) /\ Run(p, n) \subseteq Page
    BY <1>1, <1>3, <2>3
  <2>5. free' = Linked(p, n, free)
    BY <1>2 DEF Linked
  <2>6. free' \in Seq(Page) /\ Once(free') /\ \A x : x \in ToSet(free') <=> x \in ToSet(free) \/ x \in Run(p, n)
    BY <2>1, <2>2, <2>4, <2>5, PrependRun
  <2> QED BY <1>1, <2>6
<1>5. Slabs' = Slabs
  BY <1>2 DEF Slabs
<1>6. QueueInv' /\ MetaInv' /\ DataInv' /\ StatInv'
  <2>1. QueueInv'
    BY <1>2 DEF IInv, QueueInv
  <2>2. MetaInv'
    BY <1>2, <1>5 DEF IInv, MetaInv
  <2>3. StatInv'
    BY <1>2, <1>5 DEF IInv, StatInv
  <2>4. DataInv'
    BY <1>2, <1>5 DEF IInv, DataInv
  <2> QED BY <2>1, <2>2, <2>3, <2>4
<1>7. TypeOK'
  BY <1>2, <1>4 DEF IInv, TypeOK
<1>8. PageInv'
  <2>1. Metas' = Metas /\ Datas' = Datas
    BY <1>2, <1>5 DEF Metas, Datas
  <2>2. ASSUME NEW q \in Larges' PROVE q \in Larges /\ q \notin R
    <3>1. PICK a \in held' : ~Small(a.size) /\ q \in Run(a.page, NrPage(a.size)) /\ q \in Page
      BY DEF Larges
    <3>2. Run(a.page, NrPage(a.size)) \cap Run(b.page, NrPage(b.size)) = {}
      BY <3>1 DEF IInv, HeldInv
    <3> QED BY <1>1, <3>1, <3>2 DEF Larges
  <2>3. ASSUME NEW q \in Larges, q \notin R PROVE q \in Larges'
    <3>1. PICK a \in held : ~Small(a.size) /\ q \in Run(a.page, NrPage(a.size)) /\ q \in Page
      BY DEF Larges
    <3>2. a # b
      BY <1>1, <2>3, <3>1
    <3> QED BY <3>1, <3>2 DEF Larges
  <2>4. Larges' = Larges \ R
    BY <2>2, <2>3
  <2>5. Parts(ToSet(free) \cup R, Metas, Datas, Larges \ R, leaked)
    BY <1>3, PartsGive DEF IInv, PageInv
  <2> QED BY <1>2, <1>4, <2>1, <2>4, <2>5 DEF PageInv
<1>9. HeldInv'
  <2>1. \A a \in held' : Small(a.size) => SmallOK(a)'
    BY <1>2, <1>5 DEF IInv, HeldInv, SmallOK
  <2>2. \A a \in held' : ~Small(a.size) => LargeOK(a)'
    BY <1>2 DEF IInv, HeldInv, LargeOK
  <2>3. \A a, e \in held' : a.page = e.page /\ a.idx = e.idx => a = e
    BY DEF IInv, HeldInv
  <2>4. \A a, e \in held' : ~Small(a.size) /\ ~Small(e.size) /\ a # e =>
          Run(a.page, NrPage(a.size)) \cap Run(e.page, NrPage(e.size)) = {}
    BY DEF IInv, HeldInv
  <2>5. ASSUME NEW x \in Chunk, NEW t \in Slabs[x], NEW i \in used[t]
        PROVE  \E e \in held' : e.page = data_page[t] /\ e.idx = i
    <3>1. PICK e \in held : e.page = data_page[t] /\ e.idx = i
      BY DEF IInv, HeldInv
    <3>2. slab_obj_size[e.page] = x
      BY <3>1 DEF IInv, DataInv
    <3>3. e # b
      <4>1. slab_obj_size[b.page] > 2048
        BY HeldLarge DEF IInv
      <4>2. x <= 2048 /\ x \in Nat
        BY SlotFacts
      <4> QED BY <3>2, <4>1, <4>2, SMT
    <3> QED BY <3>1, <3>3
  <2> QED BY <1>2, <1>5, <2>1, <2>2, <2>3, <2>4, <2>5 DEF HeldInv
<1> QED BY <1>6, <1>7, <1>8, <1>9 DEF IInv

-----------------------------------------------------------------------------
(***************************************************************************)
(* The invariant holds at the start and every step keeps it.               *)
(***************************************************************************)

\* The kernel faults, or a step outside the heap: nothing else happens.
LEMMA NullInv ==
  ASSUME IInv, null_deref' \in BOOLEAN, ~null_deref' => ~null_deref,
         UNCHANGED <<free, slab_ptr, slab_obj_size, data_page, used, queue, stat, held, leaked>>
  PROVE  IInv'
<1>1. Slabs' = Slabs
  BY DEF Slabs
<1>2. TypeOK'
  BY Zenon DEF IInv, TypeOK
<1>3. QueueInv' /\ StatInv'
  BY <1>1 DEF IInv, QueueInv, StatInv
<1>4. MetaInv' /\ DataInv'
  BY <1>1 DEF IInv, MetaInv, DataInv
<1>5. Metas' = Metas /\ Datas' = Datas /\ Larges' = Larges
  BY <1>1 DEF Metas, Datas, Larges
<1>6. PageInv'
  BY <1>5 DEF IInv, PageInv
<1>7. HeldInv'
  BY <1>1 DEF IInv, HeldInv, SmallOK, LargeOK
<1> QED BY <1>2, <1>3, <1>4, <1>6, <1>7 DEF IInv

LEMMA InitInv ==
  ASSUME Init
  PROVE  IInv
<1>1. free \in Seq(Page) /\ Once(free) /\ ToSet(free) = Page
  <2>1. NrPages \in Nat
    BY HeapAssumption
  <2>2. free = [k \in 1 .. NrPages |-> k - 1]
    BY DEF Init
  <2>3. \A k \in 1 .. NrPages : k - 1 \in Page
    BY <2>1 DEF Page
  <2>4. free \in Seq(Page) /\ Len(free) = NrPages
    BY <2>1, <2>2, <2>3
  <2>5. \A k \in 1 .. NrPages : free[k] = k - 1
    BY <2>2
  <2>6. Once(free)
    BY <2>1, <2>4, <2>5 DEF Once
  <2>7. ToSet(free) = {free[j] : j \in 1 .. NrPages}
    BY <2>4, Elements
  <2>8. ASSUME NEW p \in Page PROVE p \in ToSet(free)
    <3>1. p + 1 \in 1 .. NrPages /\ (p + 1) - 1 = p
      BY <2>1 DEF Page
    <3> QED BY <2>5, <2>7, <3>1
  <2>9. ToSet(free) \subseteq Page
    BY <2>3, <2>5, <2>7
  <2> QED BY <2>4, <2>6, <2>8, <2>9
<1>2. \A c \in Cache : queue[c] = [k \in Kind |-> << >>]
  BY DEF Init
<1>3. \A c \in Cache : \A k \in Kind : queue[c][k] = << >>
  BY <1>2
<1>4. ToSet(<< >>) = {} /\ << >> \in Seq(Slab) /\ Once(<< >>)
  BY DEF ToSet, Once
<1>5. queue \in [Cache -> Queues]
  BY <1>4, Zenon DEF Init, Queues
<1>6. \A c \in Cache : Slabs[c] = {}
  <2> SUFFICES ASSUME NEW c \in Cache, NEW s \in Slabs[c] PROVE FALSE
    OBVIOUS
  <2>1. s \in Members(queue[c])
    BY DEF Slabs
  <2>2. PICK k \in Kind : s \in ToSet(queue[c][k])
    BY <2>1, MembersBy
  <2> QED BY <1>3, <1>4, <2>2
<1>7. QueueInv
  <2> SUFFICES ASSUME NEW c \in Cache, NEW k \in Kind
               PROVE  Once(queue[c][k]) /\ ToSet(queue[c][k]) = {}
    BY <1>5 DEF QueueInv, QueueOK
  <2> QED BY <1>3, <1>4
<1>8. TypeOK
  <2>1. slab_ptr \in [Page -> {<< >>} \cup Slab]
    BY Zenon DEF Init
  <2>2. slab_obj_size \in [Page -> Nat]
    BY DEF Init
  <2>3. data_page \in [Slab -> Page \cup {NoPage}] /\ used \in [Slab -> SUBSET Nat]
    BY Zenon DEF Init
  <2>4. stat \in [Cache -> [allocated : Int, slab_pg : Int, max_pg : Nat]]
    <3>1. PICK m \in 0 .. MaxPg :
            stat = [c \in Cache |-> [allocated |-> 0, slab_pg |-> 0, max_pg |-> m]]
      BY DEF Init
    <3>2. m \in Nat
      BY HeapAssumption
    <3> QED BY <3>1, <3>2
  <2>5. held = {} /\ leaked = {} /\ null_deref = FALSE
    BY Zenon DEF Init
  <2>6. null_deref \in BOOLEAN
    BY <2>5, Zenon
  <2>7. held \subseteq [page : Page, idx : Nat, size : Requests] /\ leaked \subseteq Page
    BY <2>5, Zenon
  <2> QED BY <1>1, <1>5, <2>1, <2>2, <2>3, <2>4, <2>6, <2>7, Zenon DEF TypeOK
<1>9. META \in Cache /\ \A c \in Chunk : c \in Cache
  BY DEF Cache
<1>10. MetaInv
  <2>1. \A m \in Page : used[<<m, 0>>] = {}
    BY Pairs DEF Init
  <2> QED BY <1>6, <1>9, <2>1 DEF MetaInv
<1>11. DataInv
  BY <1>6, <1>9 DEF DataInv
<1>12. held = {} /\ leaked = {}
  BY DEF Init
<1>13. PageInv
  <2>1. Metas = {} /\ Datas = {} /\ Larges = {}
    BY <1>6, <1>9, <1>12 DEF Metas, Datas, Larges
  <2> QED BY <1>1, <1>12, <2>1 DEF PageInv, Parts
<1>14. HeldInv
  BY <1>6, <1>9, <1>12 DEF HeldInv
<1>15. StatInv
  <2> SUFFICES ASSUME NEW c \in Cache PROVE StatOK(stat[c], {}, used)
    BY <1>6 DEF StatInv
  <2>1. \A e : e \notin ObjsOf({}, used)
    BY ObjsBy
  <2>2. ObjsOf({}, used) = {}
    BY <2>1
  <2>3. stat[c].slab_pg = 0 /\ stat[c].allocated = 0
    BY DEF Init
  <2>4. IsFiniteSet({}) /\ Cardinality({}) = 0
    BY FS_EmptySet
  <2> QED BY <2>2, <2>3, <2>4 DEF StatOK
<1> QED BY <1>7, <1>8, <1>10, <1>11, <1>13, <1>14, <1>15 DEF IInv

\* What Alloc does, by the size.
LEMMA AllocCases ==
  ASSUME NEW size \in Requests, Alloc(size)
  PROVE  /\ \A c : FitsIn(size, c) =>
               \/ AllocateQueued(c, size) \/ AllocateNew(c, size)
               \/ AllocateNoMeta(c) \/ AllocateNoData(c)
         /\ ~null_deref
         /\ ~Small(size) => AllocLarge(size) \/ AllocLargeNull(size)
<1>1. ASSUME NEW c, FitsIn(size, c)
      PROVE  \/ AllocateQueued(c, size) \/ AllocateNew(c, size)
             \/ AllocateNoMeta(c) \/ AllocateNoData(c)
  <2>1. size \in Nat /\ ~(size > 2048)
    BY <1>1, HeapAssumption, SMT DEF FitsIn, Small
  <2>2. \/ AllocateQueued(Fit(size), size) \/ AllocateNew(Fit(size), size)
        \/ AllocateNoMeta(Fit(size)) \/ AllocateNoData(Fit(size))
    BY <2>1, SMT DEF Alloc
  <2>3. c = Fit(size)
    BY <1>1 DEF FitsIn
  <2> QED BY <2>2, <2>3, Zenon
<1>2. ~Small(size) => AllocLarge(size) \/ AllocLargeNull(size)
  BY SMT DEF Alloc, Small
<1>3. ~null_deref
  BY DEF Alloc
<1> QED BY <1>1, <1>2, <1>3

LEMMA AllocInv ==
  ASSUME IInv, NEW size \in Requests, Alloc(size)
  PROVE  IInv'
<1>1. CASE Small(size)
  <2>1. PICK c : FitsIn(size, c)
    BY <1>1 DEF FitsIn
  <2>2. /\ \/ AllocateQueued(c, size) \/ AllocateNew(c, size)
           \/ AllocateNoMeta(c) \/ AllocateNoData(c)
        /\ ~null_deref
    BY <2>1, AllocCases
  <2>3. CASE AllocateQueued(c, size)
    BY <2>1, <2>2, <2>3, AllocateQueuedInv
  <2>4. CASE AllocateNew(c, size)
    BY <2>1, <2>2, <2>4, AllocateNewInv
  <2>5. CASE AllocateNoMeta(c)
    BY <2>5, NullInv DEF AllocateNoMeta, pages
  <2>6. CASE AllocateNoData(c)
    BY <2>2, <2>6, AllocateNoDataInv
  <2> QED BY <2>2, <2>3, <2>4, <2>5, <2>6
<1>2. CASE ~Small(size)
  <2>1. AllocLarge(size) \/ AllocLargeNull(size)
    BY <1>2, AllocCases
  <2>2. CASE AllocLarge(size)
    BY <1>2, <2>2, AllocLargeInv
  <2>3. CASE AllocLargeNull(size)
    BY <2>3, NullInv DEF AllocLargeNull, pages
  <2> QED BY <2>1, <2>2, <2>3
<1> QED BY <1>1, <1>2

\* What Free does, by what it finds in the struct Page: the cache and the slab
\* the object came from.
LEMMA FreeCases ==
  ASSUME IInv, NEW b \in held, Free(b)
  PROVE  /\ held' = held \ {b} /\ null_deref' = null_deref /\ ~null_deref
         /\ \/ ~Small(b.size) /\ FreeLarge(b)
            \/ /\ Small(b.size)
               /\ \E c \in Chunk : \E s \in Slabs[c] :
                    /\ data_page[s] = b.page /\ b.idx \in used[s]
                    /\ FreeKept(b, c, s) \/ FreeReclaimed(b, c, s)
<1>1. held' = held \ {b} /\ null_deref' = null_deref /\ ~null_deref
  BY DEF Free
<1>2. CASE ~Small(b.size)
  <2>1. slab_obj_size[b.page] > 2048 /\ slab_obj_size[b.page] \in Nat
    BY <1>2, HeldLarge DEF IInv, TypeOK
  <2>2. FreeLarge(b)
    BY <2>1, SMT DEF Free
  <2> QED BY <1>1, <1>2, <2>2
<1>3. CASE Small(b.size)
  <2>1. PICK c \in Chunk, s \in Slab :
          /\ c = slab_obj_size[b.page] /\ s = slab_ptr[b.page] /\ Small(c) /\ c \in Nat /\ Fit(c) = c
          /\ s \in Slabs[c] /\ data_page[s] = b.page /\ b.idx \in used[s]
    BY <1>3, HeldSmall DEF IInv, Small
  <2>2. ~(c > 2048)
    BY <2>1, SMT DEF Small
  <2>3. FreeKept(b, c, s) \/ FreeReclaimed(b, c, s)
    BY <2>1, <2>2 DEF Free
  <2> QED BY <1>1, <1>3, <2>1, <2>3
<1> QED BY <1>2, <1>3

LEMMA FreeInv ==
  ASSUME IInv, NEW b \in held, Free(b)
  PROVE  IInv'
<1>1. held' = held \ {b} /\ null_deref' = null_deref /\ ~null_deref
  BY FreeCases
<1>2. CASE ~Small(b.size) /\ FreeLarge(b)
  BY <1>1, <1>2, FreeLargeInv
<1>3. CASE ~(~Small(b.size) /\ FreeLarge(b))
  <2>1. PICK c \in Chunk : \E s \in Slabs[c] :
          /\ Small(b.size) /\ data_page[s] = b.page /\ b.idx \in used[s]
          /\ FreeKept(b, c, s) \/ FreeReclaimed(b, c, s)
    BY <1>3, FreeCases
  <2>2. PICK s \in Slabs[c] :
          /\ Small(b.size) /\ data_page[s] = b.page /\ b.idx \in used[s]
          /\ FreeKept(b, c, s) \/ FreeReclaimed(b, c, s)
    BY <2>1
  <2>3. CASE FreeKept(b, c, s)
    BY <1>1, <2>2, <2>3, FreeKeptInv
  <2>4. CASE FreeReclaimed(b, c, s)
    BY <1>1, <2>2, <2>4, FreeReclaimedInv
  <2> QED BY <2>2, <2>3, <2>4
<1> QED BY <1>2, <1>3

\* The state of the heap is as IInv says, whatever the sizes asked for and the order
\* of the calls of Alloc and Free (kern/mm/uslab.cc).
THEOREM Inductive == Spec => []IInv
<1>1. Init => IInv
  BY InitInv
<1>2. IInv /\ [Next]_vars => IInv'
  <2> SUFFICES ASSUME IInv, [Next]_vars PROVE IInv'
    OBVIOUS
  <2>1. CASE \E size \in Requests : Alloc(size)
    BY <2>1, AllocInv
  <2>2. CASE \E b \in held : Free(b)
    BY <2>2, FreeInv
  <2>3. CASE UNCHANGED vars
    <3>1. /\ UNCHANGED <<free, slab_ptr, slab_obj_size, data_page, used, queue, stat, held, leaked>>
          /\ null_deref' = null_deref
      BY <2>3 DEF vars, pages
    <3>2. null_deref' \in BOOLEAN
      BY <3>1, Zenon DEF IInv, TypeOK
    <3> QED BY <3>1, <3>2, NullInv
  <2> QED BY <2>1, <2>2, <2>3 DEF Next
<1> QED BY <1>1, <1>2, PTL DEF Spec

-----------------------------------------------------------------------------
(***************************************************************************)
(* The invariants of the heap.                                             *)
(***************************************************************************)

\* Queued, MetaPages and LargePages, as the invariant has them.
LEMMA QueuedIs ==
  ASSUME TypeOK, NEW c \in Cache
  PROVE  Queued(c) = Slabs[c]
BY SlabsAre DEF Queued, Members

LEMMA MetaPagesAre ==
  ASSUME IInv, NEW p \in Page
  PROVE  p \in MetaPages <=> p \in Metas
<1>1. META \in Cache
  BY DEF Cache
<1>2. MetaPages = {s[1] : s \in Slabs[META]}
  BY <1>1, QueuedIs DEF MetaPages, IInv
<1>3. ASSUME NEW s \in Slabs[META] PROVE s = <<s[1], 0>>
  <2>1. s[2] = 0 /\ s \in Slab
    BY <1>1, SlabsAre DEF IInv, MetaInv
  <2> QED BY <2>1, Pairs
<1>4. ASSUME p \in MetaPages PROVE <<p, 0>> \in Slabs[META]
  <2>1. PICK s \in Slabs[META] : p = s[1]
    BY <1>2, <1>4
  <2> QED BY <1>3, <2>1
<1>5. ASSUME <<p, 0>> \in Slabs[META] PROVE p \in MetaPages
  <2>1. <<p, 0>>[1] = p
    OBVIOUS
  <2> QED BY <1>2, <1>5, <2>1
<1> QED BY <1>4, <1>5 DEF Metas

LEMMA LargePagesAre ==
  ASSUME IInv, NEW p \in Page
  PROVE  p \in LargePages <=> p \in Larges
<1>1. ASSUME NEW b \in held, slab_obj_size[b.page] > 2048 PROVE ~Small(b.size)
  <2>1. Small(b.size) => slab_obj_size[b.page] <= 2048 /\ slab_obj_size[b.page] \in Nat
    BY HeldSmall DEF IInv
  <2> QED BY <1>1, <2>1, SMT
<1>2. ASSUME NEW b \in held, ~Small(b.size)
      PROVE  slab_obj_size[b.page] > 2048 /\ slab_obj_size[b.page] \div PAGESIZE = NrPage(b.size)
  BY <1>2, HeldLarge DEF IInv
<1>3. p \in LargePages <=>
        \E b \in held : slab_obj_size[b.page] > 2048 /\ p \in Run(b.page, slab_obj_size[b.page] \div PAGESIZE)
  BY DEF LargePages
<1>4. ASSUME NEW b \in held
      PROVE  slab_obj_size[b.page] > 2048 /\ p \in Run(b.page, slab_obj_size[b.page] \div PAGESIZE)
               <=> ~Small(b.size) /\ p \in Run(b.page, NrPage(b.size))
  <2>1. CASE Small(b.size)
    BY <1>1, <2>1
  <2>2. CASE ~Small(b.size)
    BY <1>2, <2>2
  <2> QED BY <2>1, <2>2
<1> QED BY <1>3, <1>4 DEF Larges

\* The queues say how full their slabs are, and the MetaSlabs which headers the
\* chunk caches have (AdjustSlab, MetaSlab::AllocObj).
THEOREM QueuesAlwaysMatch == Spec => []QueuesMatch
<1>1. IInv => QueuesMatch
  <2> SUFFICES ASSUME IInv PROVE QueuesMatch
    OBVIOUS
  <2>1. ASSUME NEW c \in Cache, NEW k \in Kind, NEW j \in 1 .. Len(queue[c][k])
        PROVE  /\ Place(c, used[queue[c][k][j]]) = k
               /\ \A l \in 1 .. Len(queue[c][k]) : queue[c][k][l] = queue[c][k][j] => l = j
    <3>1. QueueOK(c, queue[c], used)
      BY DEF IInv, QueueInv
    <3>2. /\ queue[c][k] \in Seq(Slab) /\ Once(queue[c][k])
          /\ \A s \in ToSet(queue[c][k]) : Place(c, used[s]) = k
      BY <3>1 DEF QueueOK, Queues
    <3>3. queue[c][k][j] \in ToSet(queue[c][k])
      BY <3>2, Elements
    <3> QED BY <3>2, <3>3 DEF Once
  <2>2. META \in Cache /\ \A c \in Chunk : c \in Cache
    BY DEF Cache
  <2>3. ASSUME ~null_deref, NEW s \in Queued(META)
        PROVE  used[s] = {k \in Slots(META) : \E c \in Chunk : <<s[1], k>> \in Queued(c)}
    <3>1. s \in Slabs[META] /\ s \in Slab /\ s[2] = 0
      BY <2>2, QueuedIs, SlabsAre DEF IInv, MetaInv
    <3>2. s = <<s[1], 0>> /\ s[1] \in Page
      BY <3>1, Pairs
    <3>3. /\ used[s] \subseteq 1 .. MetaSlots
          /\ \A k \in 1 .. MetaSlots : k \in used[s] <=> \E c \in Chunk : <<s[1], k>> \in Slabs[c]
      BY <2>3, <3>2 DEF IInv, MetaInv
    <3>4. \A c \in Chunk : Queued(c) = Slabs[c]
      BY <2>2, QueuedIs DEF IInv
    <3>5. Slots(META) = 1 .. MetaSlots
      BY SlotFacts
    <3> QED BY <3>3, <3>4, <3>5
  <2> QED BY <2>1, <2>3 DEF QueuesMatch
<1> QED BY <1>1, Inductive, PTL

\* slab_pg and allocated, which ReclaimEmptySlab and PrintStat go by, are exact.
THEOREM StatAlwaysExact == Spec => []StatExact
<1>1. IInv => StatExact
  <2> SUFFICES ASSUME IInv, NEW c \in Cache
               PROVE  stat[c].slab_pg = Cardinality(Queued(c)) /\ stat[c].allocated = Cardinality(Objects(c))
    BY DEF StatExact
  <2>1. StatOK(stat[c], Slabs[c], used)
    BY DEF IInv, StatInv
  <2>2. Queued(c) = Slabs[c] /\ Objects(c) = ObjsOf(Slabs[c], used)
    BY QueuedIs DEF IInv, Objects, ObjsOf
  <2> QED BY <2>1, <2>2 DEF StatOK
<1> QED BY <1>1, Inductive, PTL

\* Free finds the slab and the cache an object came from through the struct Page.
THEOREM HeldAlwaysFound == Spec => []HeldFound
<1>1. IInv => HeldFound
  <2> SUFFICES ASSUME IInv PROVE HeldFound
    OBVIOUS
  <2>1. \A c \in Chunk : c \in Cache /\ Queued(c) = Slabs[c]
    BY QueuedIs DEF IInv, Cache
  <2>2. ASSUME NEW b \in held, slab_obj_size[b.page] <= 2048
        PROVE  /\ slab_ptr[b.page] \in Queued(Fit(slab_obj_size[b.page]))
               /\ data_page[slab_ptr[b.page]] = b.page /\ b.idx \in used[slab_ptr[b.page]]
    <3>1. Small(b.size)
      <4>1. ~Small(b.size) => slab_obj_size[b.page] > 2048 /\ slab_obj_size[b.page] \in Nat
        BY HeldLarge DEF IInv, TypeOK
      <4> QED BY <2>2, <4>1, SMT
    <3> DEFINE c == slab_obj_size[b.page]
               s == slab_ptr[b.page]
    <3>2. c \in Chunk /\ Fit(c) = c /\ s \in Slabs[c] /\ data_page[s] = b.page /\ b.idx \in used[s]
      BY <3>1, HeldSmall DEF IInv
    <3> QED BY <2>1, <3>2
  <2>3. \A c \in Chunk : \A s \in Queued(c) : \A o \in used[s] :
          \E b \in held : b.page = data_page[s] /\ b.idx = o
    BY <2>1 DEF IInv, HeldInv
  <2> QED BY <2>2, <2>3 DEF HeldFound
<1> QED BY <1>1, Inductive, PTL

\* A page has one role at a time: none is lost but the data pages
\* BaseSlab::FreeSlab leaks, none is used twice.
THEOREM PagesAlwaysAccounted == Spec => []PagesAccounted
<1>1. IInv => PagesAccounted
  <2> SUFFICES ASSUME IInv, NEW p \in Page
               PROVE  LET roles == {r \in {"free", "meta", "large", "leaked"} :
                                      p \in CASE r = "free" -> ToSet(free)
                                             [] r = "meta" -> MetaPages
                                             [] r = "large" -> LargePages
                                             [] r = "leaked" -> leaked}
                          slabs == UNION {{c} \X {s \in Queued(c) : data_page[s] = p} : c \in Chunk}
                      IN  Cardinality(roles) + Cardinality(slabs) = 1
    BY DEF PagesAccounted
  <2> DEFINE roles == {r \in {"free", "meta", "large", "leaked"} :
                         p \in CASE r = "free" -> ToSet(free)
                                [] r = "meta" -> MetaPages
                                [] r = "large" -> LargePages
                                [] r = "leaked" -> leaked}
             slabs == UNION {{c} \X {s \in Queued(c) : data_page[s] = p} : c \in Chunk}
  <2>1. \A r : r \in roles <=> \/ r = "free" /\ p \in ToSet(free)
                               \/ r = "meta" /\ p \in MetaPages
                               \/ r = "large" /\ p \in LargePages
                               \/ r = "leaked" /\ p \in leaked
    OBVIOUS
  <2>2. \A r : r \in roles <=> \/ r = "free" /\ p \in ToSet(free)
                               \/ r = "meta" /\ p \in Metas
                               \/ r = "large" /\ p \in Larges
                               \/ r = "leaked" /\ p \in leaked
    BY <2>1, MetaPagesAre, LargePagesAre
  <2>3. \A e : e \in slabs <=> \E c \in Chunk : \E s \in Slabs[c] : data_page[s] = p /\ e = <<c, s>>
    <3>1. \A c \in Chunk : Queued(c) = Slabs[c]
      BY QueuedIs DEF IInv, Cache
    <3>2. \A e : e \in slabs <=> \E c \in Chunk : \E s \in Queued(c) : data_page[s] = p /\ e = <<c, s>>
      OBVIOUS
    <3> QED BY <3>1, <3>2
  <2>4. p \notin Datas => slabs = {}
    BY <2>3 DEF Datas
  <2>5. ASSUME p \in Datas PROVE slabs = {<<slab_obj_size[p], slab_ptr[p]>>}
    <3>1. \A c \in Chunk : \A s \in Slabs[c] : data_page[s] = p => c = slab_obj_size[p] /\ s = slab_ptr[p]
      BY DEF IInv, DataInv
    <3>2. \E c \in Chunk : \E s \in Slabs[c] : data_page[s] = p
      BY <2>5 DEF Datas
    <3> QED BY <2>3, <3>1, <3>2
  <2> HIDE DEF roles, slabs
  <2>6. Parts(ToSet(free), Metas, Datas, Larges, leaked)
    BY DEF IInv, PageInv
  <2>7. \A e : Cardinality({e}) = 1
    BY FS_Singleton
  <2>8. Cardinality({}) = 0
    BY FS_EmptySet
  <2>9. ASSUME p \in Datas PROVE Cardinality(roles) = 0 /\ Cardinality(slabs) = 1
    <3>1. roles = {}
      BY <2>2, <2>6, <2>9 DEF Parts
    <3> QED BY <2>5, <2>7, <2>8, <2>9, <3>1
  <2>10. ASSUME p \notin Datas PROVE Cardinality(roles) = 1 /\ Cardinality(slabs) = 0
    <3>1. \E e : roles = {e}
      <4>1. CASE p \in ToSet(free)
        <5>1. roles = {"free"}
          BY <2>2, <2>6, <4>1 DEF Parts
        <5> QED BY <5>1
      <4>2. CASE p \in Metas
        <5>1. roles = {"meta"}
          BY <2>2, <2>6, <4>2 DEF Parts
        <5> QED BY <5>1
      <4>3. CASE p \in Larges
        <5>1. roles = {"large"}
          BY <2>2, <2>6, <4>3 DEF Parts
        <5> QED BY <5>1
      <4>4. CASE p \in leaked
        <5>1. roles = {"leaked"}
          BY <2>2, <2>6, <4>4 DEF Parts
        <5> QED BY <5>1
      <4> QED BY <2>6, <2>10, <4>1, <4>2, <4>3, <4>4 DEF Parts
    <3> QED BY <2>4, <2>7, <2>8, <2>10, <3>1
  <2>11. Cardinality(roles) + Cardinality(slabs) = 1
    BY <2>9, <2>10
  <2> QED BY <2>11 DEF roles, slabs
<1> QED BY <1>1, Inductive, PTL

-----------------------------------------------------------------------------
(***************************************************************************)
(* The heap implements ObjHeap.                                            *)
(***************************************************************************)

\* The pages an object keeps others out of, counted from its own.
Count(b) == IF Small(b.size) THEN 1 ELSE NrPage(b.size)

\* r lies in the n pages from p on.
Within(r, p, n) ==
  /\ r.start \in Nat /\ r.size \in Nat /\ r.size >= 1
  /\ p * PAGESIZE <= r.start /\ r.start + r.size <= (p + n) * PAGESIZE

LEMMA RegionIs ==
  ASSUME NEW f, NEW b
  PROVE  Region(f, b).start = b.page * PAGESIZE + b.idx * f[b.page] /\ Region(f, b).size = b.size
BY DEF Region

\* An object lies in its pages, which exist.
LEMMA RegionWithin ==
  ASSUME IInv, NEW b \in held
  PROVE  /\ Within(Region(slab_obj_size, b), b.page, Count(b))
         /\ b.page \in Nat /\ Count(b) \in Nat /\ Count(b) >= 1 /\ b.page + Count(b) <= NrPages
         /\ b.size \in Requests
<1>1. b.page \in Page /\ b.size \in Requests /\ b.idx \in Nat
  BY DEF IInv, TypeOK
<1>2. b.page \in Nat /\ b.page + 1 <= NrPages /\ NrPages \in Nat
  BY <1>1, HeapAssumption DEF Page
<1>3. CASE Small(b.size)
  <2>1. PICK c \in Chunk, s \in Slab :
          s \in Slabs[c] /\ c = slab_obj_size[b.page] /\ b.idx \in used[s] /\ b.size \in Nat /\ b.size >= 2 /\ b.size <= c
    BY <1>3, HeldSmall DEF IInv
  <2>2. b.idx \in Slots(c)
    BY <2>1 DEF IInv, DataInv
  <2>3. c \in Nat /\ b.idx * c \in Nat /\ (b.idx + 1) * c <= PAGESIZE
    BY <2>2, SlotFacts
  <2>4. ASSUME NEW i \in Nat, NEW p \in Nat, NEW z \in Nat, NEW d \in Nat, i * d \in Nat,
               (i + 1) * d <= PAGESIZE, z <= d
        PROVE  /\ p * PAGESIZE + i * d \in Nat /\ p * PAGESIZE <= p * PAGESIZE + i * d
               /\ p * PAGESIZE + i * d + z <= (p + 1) * PAGESIZE
    <3>1. (i + 1) * d = i * d + d
      OBVIOUS
    <3> QED BY <2>4, <3>1, SMT DEF PAGESIZE
  <2>5. Count(b) = 1
    BY <1>3 DEF Count
  <2>6. PICK r : r = Region(slab_obj_size, b)
    OBVIOUS
  <2>7. r.start = b.page * PAGESIZE + b.idx * c /\ r.size = b.size
    BY <2>1, <2>6, RegionIs
  <2>8. /\ b.page * PAGESIZE + b.idx * c \in Nat
        /\ b.page * PAGESIZE <= b.page * PAGESIZE + b.idx * c
        /\ b.page * PAGESIZE + b.idx * c + b.size <= (b.page + 1) * PAGESIZE
    <3>1. b.idx \in Nat /\ b.page \in Nat /\ b.size \in Nat /\ c \in Nat /\ b.size <= c
      BY <1>1, <1>2, <2>1, <2>3
    <3> QED BY <2>3, <2>4, <3>1, Zenon
  <2>9. b.size \in Nat /\ b.size >= 1
    BY <2>1
  <2>10. Within(r, b.page, 1)
    BY <2>7, <2>8, <2>9, Zenon DEF Within
  <2> QED BY <1>1, <1>2, <2>5, <2>6, <2>10
<1>4. CASE ~Small(b.size)
  <2> DEFINE n == NrPage(b.size)
  <2>1. /\ b.size \in Nat /\ b.size > 2048 /\ b.idx = 0 /\ n \in Nat /\ n >= 1
        /\ b.size <= n * PAGESIZE /\ Run(b.page, n) \subseteq Page
    BY <1>4, HeldLarge DEF IInv
  <2>2. Count(b) = n
    BY <1>4 DEF Count
  <2> HIDE DEF n
  <2>3. b.page + n - 1 \in Run(b.page, n)
    BY <1>2, <2>1 DEF Run
  <2>4. b.page + n <= NrPages
    BY <1>2, <2>1, <2>3 DEF Page
  <2>5. slab_obj_size[b.page] \in Nat
    BY <1>1 DEF IInv, TypeOK
  <2>6. Region(slab_obj_size, b).start = b.page * PAGESIZE /\ Region(slab_obj_size, b).size = b.size
    <3>1. b.idx * slab_obj_size[b.page] = 0
      BY <2>1, <2>5
    <3>2. b.page * PAGESIZE + 0 = b.page * PAGESIZE
      BY <1>2, SMT DEF PAGESIZE
    <3> QED BY <3>1, <3>2, RegionIs
  <2>7. ASSUME NEW p \in Nat, NEW z \in Nat, z <= n * PAGESIZE
        PROVE  p * PAGESIZE \in Nat /\ p * PAGESIZE + z <= (p + n) * PAGESIZE
    BY <2>1, <2>7, SMT DEF PAGESIZE
  <2>8. b.size >= 1
    BY <2>1, SMT
  <2> QED BY <1>1, <1>2, <2>1, <2>2, <2>4, <2>6, <2>7, <2>8 DEF Within
<1> QED BY <1>3, <1>4

\* Objects of different pages have no page in common.
LEMMA PagesApart ==
  ASSUME IInv, NEW a \in held, NEW b \in held, a.page # b.page
  PROVE  a.page + Count(a) <= b.page \/ b.page + Count(b) <= a.page
<1>1. /\ a.page \in Nat /\ Count(a) \in Nat /\ Count(a) >= 1
      /\ b.page \in Nat /\ Count(b) \in Nat /\ Count(b) >= 1
  BY RegionWithin
<1>2. ASSUME NEW x \in held, NEW y \in held, Small(x.size), ~Small(y.size)
      PROVE  x.page \notin Run(y.page, Count(y))
  <2>1. x.page \in Datas
    <3>1. PICK c \in Chunk, s \in Slab : s \in Slabs[c] /\ data_page[s] = x.page /\ x.page \in Page
      BY <1>2, HeldSmall DEF IInv
    <3> QED BY <3>1 DEF Datas
  <2>2. Run(y.page, Count(y)) \subseteq Larges
    BY <1>2, RunLarges DEF IInv, Count
  <2> QED BY <2>1, <2>2 DEF IInv, PageInv, Parts
<1>3. CASE Small(a.size) /\ Small(b.size)
  <2>1. Count(a) = 1 /\ Count(b) = 1
    BY <1>3 DEF Count
  <2> QED BY <1>1, <2>1
<1>4. CASE Small(a.size) /\ ~Small(b.size)
  <2>1. Count(a) = 1 /\ a.page \notin Run(b.page, Count(b))
    BY <1>2, <1>4 DEF Count
  <2> QED BY <1>1, <2>1 DEF Run
<1>5. CASE ~Small(a.size) /\ Small(b.size)
  <2>1. Count(b) = 1 /\ b.page \notin Run(a.page, Count(a))
    BY <1>2, <1>5 DEF Count
  <2> QED BY <1>1, <2>1 DEF Run
<1>6. CASE ~Small(a.size) /\ ~Small(b.size)
  <2>1. Run(a.page, Count(a)) \cap Run(b.page, Count(b)) = {}
    BY <1>6 DEF IInv, HeldInv, Count
  <2>2. a.page \in Run(a.page, Count(a)) /\ b.page \in Run(b.page, Count(b))
    BY <1>1 DEF Run
  <2>3. a.page \notin Run(b.page, Count(b)) /\ b.page \notin Run(a.page, Count(a))
    BY <2>1, <2>2
  <2> QED BY <1>1, <2>3 DEF Run
<1> QED BY <1>3, <1>4, <1>5, <1>6

\* Objects are in memory and have no byte in common.
RegionsApart ==
  \A a \in held :
    /\ a.size \in Requests /\ Region(slab_obj_size, a).size = a.size
    /\ Region(slab_obj_size, a).start \in Nat /\ Region(slab_obj_size, a).size >= 1
    /\ Region(slab_obj_size, a).size \in Nat
    /\ Region(slab_obj_size, a).start + Region(slab_obj_size, a).size <= NrPages * PAGESIZE
    /\ \A b \in held : a # b => OH!Apart(Region(slab_obj_size, a), Region(slab_obj_size, b))

LEMMA ApartInv == IInv => RegionsApart
<1> SUFFICES ASSUME IInv, NEW a \in held
             PROVE  /\ a.size \in Requests /\ Region(slab_obj_size, a).size = a.size
                    /\ Region(slab_obj_size, a).start \in Nat /\ Region(slab_obj_size, a).size >= 1
                    /\ Region(slab_obj_size, a).size \in Nat
                    /\ Region(slab_obj_size, a).start + Region(slab_obj_size, a).size <= NrPages * PAGESIZE
                    /\ \A b \in held : a # b =>
                         OH!Apart(Region(slab_obj_size, a), Region(slab_obj_size, b))
  BY DEF RegionsApart
<1>1. ASSUME NEW p \in Nat, NEW q \in Nat, p <= q PROVE p * PAGESIZE <= q * PAGESIZE
  BY <1>1, SMT DEF PAGESIZE
<1>2. PICK r : r = Region(slab_obj_size, a)
  OBVIOUS
<1>3. /\ Within(r, a.page, Count(a)) /\ a.page \in Nat /\ Count(a) \in Nat
      /\ a.page + Count(a) <= NrPages /\ a.size \in Requests
  BY <1>2, RegionWithin
<1>4. r.start + r.size <= NrPages * PAGESIZE
  <2>1. NrPages \in Nat /\ a.page + Count(a) \in Nat
    BY <1>3, HeapAssumption
  <2>2. (a.page + Count(a)) * PAGESIZE <= NrPages * PAGESIZE
    BY <1>1, <1>3, <2>1
  <2> QED BY <1>3, <2>1, <2>2, SMT DEF Within, PAGESIZE
<1>5. ASSUME NEW b \in held, a # b PROVE OH!Apart(r, Region(slab_obj_size, b))
  <2>1. PICK s : s = Region(slab_obj_size, b)
    OBVIOUS
  <2>2. Within(s, b.page, Count(b)) /\ b.page \in Nat /\ Count(b) \in Nat
    BY <2>1, RegionWithin
  <2>3. CASE a.page # b.page
    <3>1. a.page + Count(a) <= b.page \/ b.page + Count(b) <= a.page
      BY <2>3, PagesApart
    <3>2. r.start + r.size <= s.start \/ s.start + s.size <= r.start
      BY <1>3, <2>2, <3>1, SMT DEF Within, PAGESIZE
    <3> QED BY <2>1, <3>2 DEF OH!Apart
  <2>4. CASE a.page = b.page
    <3>1. a.idx # b.idx
      BY <1>5, <2>4 DEF IInv, HeldInv
    <3>2. Small(a.size) /\ Small(b.size)
      <4>1. ASSUME NEW x \in held, NEW y \in held, x.page = y.page, x.idx # y.idx PROVE Small(x.size)
        <5> SUFFICES ASSUME ~Small(x.size) PROVE FALSE
          OBVIOUS
        <5>1. slab_obj_size[x.page] > 2048 /\ slab_obj_size[x.page] \in Nat /\ x.idx = 0
          BY HeldLarge DEF IInv, TypeOK
        <5>2. CASE Small(y.size)
          <6>1. slab_obj_size[y.page] <= 2048
            BY <5>2, HeldSmall DEF IInv
          <6> QED BY <4>1, <5>1, <6>1, SMT
        <5>3. CASE ~Small(y.size)
          <6>1. y.idx = 0
            BY <5>3, HeldLarge DEF IInv
          <6> QED BY <4>1, <5>1, <6>1
        <5> QED BY <5>2, <5>3
      <4> QED BY <2>4, <3>1, <4>1
    <3>3. PICK c \in Nat : c = slab_obj_size[a.page] /\ a.size \in Nat /\ a.size <= c
      BY <3>2, HeldSmall DEF IInv
    <3>4. b.size \in Nat /\ b.size <= c
      BY <2>4, <3>2, <3>3, HeldSmall DEF IInv
    <3>5. a.idx \in Nat /\ b.idx \in Nat
      BY DEF IInv, TypeOK
    <3>6. /\ r.start = a.page * PAGESIZE + a.idx * c /\ r.size = a.size
          /\ s.start = a.page * PAGESIZE + b.idx * c /\ s.size = b.size
      BY <1>2, <2>1, <2>4, <3>3, RegionIs
    <3>7. ASSUME NEW i \in Nat, NEW j \in Nat, NEW d \in Nat, NEW z \in Nat, NEW p \in Nat,
                 i < j, z <= d
          PROVE  p * PAGESIZE + i * d + z <= p * PAGESIZE + j * d
      <4>1. PICK k \in Nat : j = i + 1 + k
        <5>1. j - i - 1 \in Nat /\ j = i + 1 + (j - i - 1)
          BY <3>7
        <5> QED BY <5>1
      <4>2. j * d = i * d + d + k * d /\ k * d \in Nat /\ i * d \in Nat
        BY <4>1
      <4>3. p * PAGESIZE \in Nat
        BY SMT DEF PAGESIZE
      <4> QED BY <3>7, <4>2, <4>3
    <3>8. a.idx < b.idx \/ b.idx < a.idx
      BY <3>1, <3>5
    <3>9. /\ a.idx < b.idx => a.page * PAGESIZE + a.idx * c + a.size <= a.page * PAGESIZE + b.idx * c
          /\ b.idx < a.idx => a.page * PAGESIZE + b.idx * c + b.size <= a.page * PAGESIZE + a.idx * c
      <4>1. a.page \in Nat /\ a.size \in Nat /\ a.size <= c /\ c \in Nat
        BY <1>3, <3>3
      <4> QED BY <3>4, <3>5, <3>7, <4>1, Zenon
    <3>10. r.start + r.size <= s.start \/ s.start + s.size <= r.start
      BY <3>6, <3>8, <3>9, Zenon
    <3> QED BY <2>1, <3>10 DEF OH!Apart
  <2> QED BY <2>3, <2>4
<1> QED BY <1>2, <1>3, <1>4, <1>5, RegionIs DEF Within

\* What Alloc does to what clients hold: it stays, and there is one more or not.
LEMMA AllocHeld ==
  ASSUME IInv, NEW size \in Requests, Alloc(size)
  PROVE  /\ \/ held' = held
            \/ \E b : held' = held \cup {b}
         /\ \A a \in held : slab_obj_size'[a.page] = slab_obj_size[a.page]
<1>1. CASE \E c : AllocateQueued(c, size)
  BY <1>1 DEF AllocateQueued, pages
<1>2. CASE \E c : FitsIn(size, c) /\ AllocateNew(c, size)
  <2>1. PICK c : FitsIn(size, c) /\ AllocateNew(c, size)
    BY <1>2
  <2>2. \E b : held' = held \cup {b}
    BY <2>1 DEF AllocateNew
  <2>3. /\ MetaPage \in Page /\ Head(AfterMeta) \in ToSet(free)
        /\ MetaPage \in ToSet(free) \/ MetaPage \in Metas
    <3>1. ~NoMetaPage /\ ~NoDataPage
      BY <2>1 DEF AllocateNew
    <3>2. /\ MetaPage \in Page /\ Head(AfterMeta) \in ToSet(free)
          /\ MetaPage \in ToSet(free) \/ <<MetaPage, 0>> \in Slabs[META]
      BY <3>1, NewPages
    <3> QED BY <3>2 DEF Metas
  <2>4. slab_obj_size' = [slab_obj_size EXCEPT ![MetaPage] = 64, ![Head(AfterMeta)] = c]
    BY <2>1 DEF AllocateNew, PageStructs
  <2>5. \A a \in held : a.page \in Page /\ a.page # MetaPage /\ a.page # Head(AfterMeta)
    BY <2>3, HeldPage
  <2>6. slab_obj_size \in [Page -> Nat]
    BY DEF IInv, TypeOK
  <2> QED BY <2>2, <2>4, <2>5, <2>6
<1>3. CASE AllocLarge(size)
  <2>1. PICK p \in ToSet(free) :
          /\ slab_obj_size' = [slab_obj_size EXCEPT ![p] = NrPage(size) * PAGESIZE]
          /\ held' = held \cup {[page |-> p, idx |-> 0, size |-> size]}
    BY <1>3, Zenon DEF AllocLarge
  <2>2. \A a \in held : a.page \in Page /\ a.page # p
    BY HeldPage
  <2>3. slab_obj_size \in [Page -> Nat]
    BY DEF IInv, TypeOK
  <2> QED BY <2>1, <2>2, <2>3
<1>4. CASE AllocLargeNull(size) \/ \E c : AllocateNoMeta(c)
  BY <1>4 DEF AllocLargeNull, AllocateNoMeta, pages
<1>7. CASE \E c : AllocateNoData(c)
  <2>1. PICK c : AllocateNoData(c)
    BY <1>7
  <2>2. /\ held' = held /\ ~NoMetaPage
        /\ slab_obj_size' = [slab_obj_size EXCEPT ![MetaPage] = 64]
    BY <2>1 DEF AllocateNoData
  <2>3. MetaPage \in Page /\ (MetaPage \in ToSet(free) \/ <<MetaPage, 0>> \in Slabs[META])
    BY <2>2, MetaTaken
  <2>4. MetaPage \in ToSet(free) \/ MetaPage \in Metas
    BY <2>3 DEF Metas
  <2>5. \A a \in held : a.page \in Page /\ a.page # MetaPage
    BY <2>4, HeldPage
  <2>6. slab_obj_size \in [Page -> Nat]
    BY DEF IInv, TypeOK
  <2> QED BY <2>2, <2>5, <2>6
<1>5. CASE Small(size)
  <2>1. PICK c : FitsIn(size, c)
    BY <1>5 DEF FitsIn
  <2>2. /\ \/ AllocateQueued(c, size) \/ AllocateNew(c, size)
           \/ AllocateNoMeta(c) \/ AllocateNoData(c)
        /\ ~null_deref
    BY <2>1, AllocCases
  <2> QED BY <1>1, <1>2, <1>4, <1>7, <2>1, <2>2
<1>6. CASE ~Small(size)
  BY <1>3, <1>4, <1>6, AllocCases
<1> QED BY <1>5, <1>6

\* A step of the heap is a step of ObjHeap, or none.
LEMMA StepRefines == IInv /\ RegionsApart /\ RegionsApart' /\ [Next]_vars => [OH!Next]_Regions
<1> SUFFICES ASSUME IInv, RegionsApart, RegionsApart', [Next]_vars
             PROVE  OH!Next \/ Regions' = Regions
  OBVIOUS
<1>1. /\ Regions = {Region(slab_obj_size, a) : a \in held}
      /\ Regions' = {Region(slab_obj_size', a) : a \in held'}
  BY DEF Regions
<1>2. CASE \E size \in Requests : Alloc(size)
  <2>1. PICK size \in Requests : Alloc(size)
    BY <1>2
  <2>2. \A a \in held : Region(slab_obj_size', a) = Region(slab_obj_size, a)
    BY <2>1, AllocHeld DEF Region
  <2>3. CASE held' = held
    BY <1>1, <2>2, <2>3
  <2>4. CASE \E b : held' = held \cup {b}
    <3>1. PICK b : held' = held \cup {b}
      BY <2>4
    <3>2. CASE b \in held
      BY <1>1, <2>2, <3>1, <3>2
    <3>3. CASE b \notin held
      <4>1. PICK r : r = Region(slab_obj_size', b)
        OBVIOUS
      <4>2. Regions' = Regions \cup {r}
        BY <1>1, <2>2, <3>1, <4>1
      <4>3. /\ r.size \in Requests /\ r.size \in Nat /\ r.start \in Nat /\ r.size >= 1
            /\ r.start + r.size <= NrPages * PAGESIZE
            /\ \A a \in held : OH!Apart(r, Region(slab_obj_size, a))
        BY <2>2, <3>1, <3>3, <4>1 DEF RegionsApart
      <4>4. \A q \in Regions : OH!Apart(r, q)
        BY <1>1, <4>3
      <4>5. r \notin Regions
        <5>1. ~OH!Apart(r, r)
          BY <4>3 DEF OH!Apart
        <5> QED BY <4>4, <5>1
      <4>6. OH!Alloc
        <5>1. r \in Regions' \ Regions
          BY <4>2, <4>5
        <5>2. r.start >= 0
          BY <4>3
        <5> QED BY <4>2, <4>3, <4>4, <5>1, <5>2 DEF OH!Alloc
      <4> QED BY <4>6 DEF OH!Next
    <3> QED BY <3>2, <3>3
  <2> QED BY <2>1, <2>3, <2>4, AllocHeld
<1>3. CASE \E b \in held : Free(b)
  <2>1. PICK b \in held : Free(b)
    BY <1>3
  <2>2. held' = held \ {b} /\ slab_obj_size' = slab_obj_size
    BY <2>1, FreeCases DEF FreeLarge, FreeKept, FreeReclaimed, pages
  <2>3. PICK r : r = Region(slab_obj_size, b)
    OBVIOUS
  <2>4. r \in Regions
    BY <1>1, <2>3
  <2>5. \A a \in held : a # b => Region(slab_obj_size, a) # r
    <3> SUFFICES ASSUME NEW a \in held, a # b, Region(slab_obj_size, a) = r PROVE FALSE
      OBVIOUS
    <3>1. OH!Apart(r, r) /\ r.start \in Nat /\ r.size \in Nat /\ r.size >= 1
      BY <2>3 DEF RegionsApart
    <3> QED BY <3>1 DEF OH!Apart
  <2>6. Regions' = Regions \ {r}
    BY <1>1, <2>2, <2>3, <2>5
  <2> QED BY <2>4, <2>6 DEF OH!Next, OH!Free
<1>4. CASE UNCHANGED vars
  BY <1>4 DEF vars, pages, Regions
<1> QED BY <1>2, <1>3, <1>4 DEF Next

\* Alloc and Free (kern/mm/uslab.cc) implement ObjHeap: an object has room for what
\* was asked, is apart from all others, and stays until it is freed.
THEOREM HeapRefinement == Spec => ImplementsHeap
<1>1. Init => OH!Init
  BY DEF Init, OH!Init, Regions
<1>2. Spec => []IInv
  BY Inductive
<1>3. Spec => OH!Spec
  BY <1>1, <1>2, ApartInv, StepRefines, PTL DEF Spec, OH!Spec
<1> QED BY <1>3 DEF ImplementsHeap
=============================================================================
