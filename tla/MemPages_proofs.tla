-------------------------- MODULE MemPages_proofs --------------------------
EXTENDS MemPages, TLAPS

(***************************************************************************)
(* The intrusive list, for any pointer fields nx and pv over D, any set L  *)
(* of listed elements and any head h outside it.                           *)
(***************************************************************************)

\* Unlinking d (AllocPage, AllocPages) keeps the other fields inverse.
LEMMA UnlinkInverse ==
  ASSUME NEW D, NEW nx \in [D -> D \cup {NULL}], NEW pv \in [D -> D \cup {NULL}],
         NEW L \in SUBSET D, NEW h \in D \ L, NEW d \in L,
         Inverse(nx, pv, L \cup {h})
  PROVE  Inverse([nx EXCEPT ![pv[d]] = nx[d]], [pv EXCEPT ![nx[d]] = pv[d]],
                 (L \ {d}) \cup {h})
BY DEF Inverse

\* Unlinking d keeps every remaining element on the way to the head.
LEMMA UnlinkLeaves ==
  ASSUME NEW D, NEW nx \in [D -> D \cup {NULL}], NEW pv \in [D -> D \cup {NULL}],
         NEW L \in SUBSET D, NEW h \in D \ L, NEW d \in L,
         Inverse(nx, pv, L \cup {h}), Leaves(nx, L)
  PROVE  Leaves([nx EXCEPT ![pv[d]] = nx[d]], L \ {d})
<1> DEFINE nx2 == [nx EXCEPT ![pv[d]] = nx[d]]
<1> SUFFICES ASSUME NEW S \in SUBSET (L \ {d}), S # {}
             PROVE  \E p \in S : nx2[p] \notin S
  BY DEF Leaves
<1>1. CASE pv[d] \notin S
  BY <1>1 DEF Leaves
<1>2. CASE pv[d] \in S /\ nx[d] \notin S
  BY <1>2
<1>3. CASE pv[d] \in S /\ nx[d] \in S
  <2>1. PICK p \in S \cup {d} : nx[p] \notin S \cup {d}
    BY DEF Leaves
  <2>2. p \in S /\ p # pv[d]
    BY <1>3, <2>1 DEF Inverse
  <2> QED BY <2>1, <2>2
<1> QED BY <1>1, <1>2, <1>3

\* Linking pg behind the head (FreePage, FreePages).
LEMMA LinkFrontInverse ==
  ASSUME NEW D, NEW nx \in [D -> D \cup {NULL}], NEW pv \in [D -> D \cup {NULL}],
         NEW L \in SUBSET D, NEW h \in D \ L, NEW pg \in D, pg \notin L, pg # h,
         Inverse(nx, pv, L \cup {h})
  PROVE  Inverse([nx EXCEPT ![pg] = nx[h], ![h] = pg],
                 [pv EXCEPT ![nx[h]] = pg, ![pg] = h], (L \cup {pg}) \cup {h})
BY DEF Inverse

\* A page linked behind the head (FreePage, FreePages) leads back to it, as before.
LEMMA LinkFrontLeaves ==
  ASSUME NEW D, NEW nx \in [D -> D \cup {NULL}], NEW pv \in [D -> D \cup {NULL}],
         NEW L \in SUBSET D, NEW h \in D \ L, NEW pg \in D, pg \notin L, pg # h,
         Inverse(nx, pv, L \cup {h}), Leaves(nx, L)
  PROVE  Leaves([nx EXCEPT ![pg] = nx[h], ![h] = pg], L \cup {pg})
<1> DEFINE nx2 == [nx EXCEPT ![pg] = nx[h], ![h] = pg]
<1> SUFFICES ASSUME NEW S \in SUBSET (L \cup {pg}), S # {}
             PROVE  \E p \in S : nx2[p] \notin S
  BY DEF Leaves
<1>1. CASE S \ {pg} = {}
  BY <1>1 DEF Inverse
<1>2. CASE S \ {pg} # {}
  <2>1. PICK p \in S \ {pg} : nx[p] \notin S \ {pg}
    BY <1>2 DEF Leaves
  <2>2. p \in L /\ nx[p] # pg
    BY <2>1 DEF Inverse
  <2> QED BY <2>1, <2>2
<1> QED BY <1>1, <1>2

\* Linking pg before the head (CollectAvailable).
LEMMA LinkTailInverse ==
  ASSUME NEW D, NEW nx \in [D -> D \cup {NULL}], NEW pv \in [D -> D \cup {NULL}],
         NEW L \in SUBSET D, NEW h \in D \ L, NEW pg \in D, pg \notin L, pg # h,
         Inverse(nx, pv, L \cup {h})
  PROVE  Inverse([nx EXCEPT ![pg] = h, ![pv[h]] = pg],
                 [pv EXCEPT ![pg] = pv[h], ![h] = pg], (L \cup {pg}) \cup {h})
BY DEF Inverse

\* A page linked before the head (CollectAvailable) leads back to it, as before.
LEMMA LinkTailLeaves ==
  ASSUME NEW D, NEW nx \in [D -> D \cup {NULL}], NEW pv \in [D -> D \cup {NULL}],
         NEW L \in SUBSET D, NEW h \in D \ L, NEW pg \in D, pg \notin L, pg # h,
         Inverse(nx, pv, L \cup {h}), Leaves(nx, L)
  PROVE  Leaves([nx EXCEPT ![pg] = h, ![pv[h]] = pg], L \cup {pg})
<1> DEFINE nx2 == [nx EXCEPT ![pg] = h, ![pv[h]] = pg]
<1> SUFFICES ASSUME NEW S \in SUBSET (L \cup {pg}), S # {}
             PROVE  \E p \in S : nx2[p] \notin S
  BY DEF Leaves
<1>1. CASE pg \in S
  BY <1>1 DEF Inverse
<1>2. CASE pg \notin S
  <2>1. PICK p \in S : nx[p] \notin S
    BY <1>2 DEF Leaves
  <2> QED BY <1>2, <2>1
<1> QED BY <1>1, <1>2

-----------------------------------------------------------------------------
(***************************************************************************)
(* The inductive invariant.                                                *)
(***************************************************************************)

\* The head of the list is no page, and NULL is no node.
LEMMA NodeFacts ==
  /\ page_head \in Node /\ page_head \notin Page
  /\ Page \subseteq Node
  /\ NULL \notin Node
  /\ \A p \in Page : p \in Int /\ 0 <= p /\ p < NrPageStructs
BY MemPagesAssumption DEF Node, Page, page_head, NULL

\* The memory map names at least one usable page, and only page structs.
LEMMA BootFacts ==
  /\ Len(BootPages) \in Nat \ {0}
  /\ \A k \in 1 .. Len(BootPages) : BootPages[k] \in Page
BY MemPagesAssumption

\* The zeroed page structs, before CollectAvailable, satisfy the invariant.
LEMMA InitIInv == Init => IInv
<1> SUFFICES ASSUME Init PROVE IInv
  OBVIOUS
<1> USE DEF Init
<1>1. TypeOK
  BY MemPagesAssumption, NodeFacts DEF TypeOK
<1>2. DoublyLinked /\ OneRing
  BY DEF DoublyLinked, OneRing, Collected, Leaves
<1>3. Accounted /\ ScanInv /\ UnlinkInv /\ LinkInv /\ BlocksFit
  BY DEF Accounted, ScanInv, UnlinkInv, LinkInv, BlocksFit
<1>4. CollectInv
  BY BootFacts DEF CollectInv
<1> QED BY <1>1, <1>2, <1>3, <1>4 DEF IInv

\* One iteration of CollectAvailable.
LEMMA CollectPageIInv == IInv /\ CollectPage => IInv'
<1> SUFFICES ASSUME IInv, CollectPage PROVE IInv'
  OBVIOUS
<1> DEFINE pg == BootPages[i]
<1>1. /\ pc = "collect" /\ pc' = "collect"
      /\ i \in 1 .. Len(BootPages) /\ i' = i + 1
      /\ is_in_list = {BootPages[k] : k \in 1 .. (i - 1)}
      /\ blocks = {} /\ blocks' = {}
      /\ is_free = is_in_list
      /\ is_free' = is_in_list \cup {pg}
      /\ is_in_list' = is_in_list \cup {pg}
      /\ UNCHANGED <<n, start, ret>>
  BY DEF IInv, CollectInv, CollectPage, Accounted, SetFlags
<1>2. /\ alloc_next \in [Node -> Node \cup {NULL}]
      /\ alloc_prev \in [Node -> Node \cup {NULL}]
      /\ is_in_list \in SUBSET Page
  BY DEF IInv, TypeOK
<1>3. pg \in Page /\ pg \notin is_in_list
  BY <1>1, BootFacts, MemPagesAssumption
<1>4. last_page \in Node
  BY <1>1, BootFacts, NodeFacts DEF last_page
<1>5. /\ alloc_next' = [alloc_next EXCEPT ![pg] = page_head, ![last_page] = pg]
      /\ alloc_prev' = [alloc_prev EXCEPT ![pg] = last_page, ![page_head] = pg]
  BY DEF CollectPage
<1>6. TypeOK'
  BY <1>1, <1>2, <1>3, <1>4, <1>5, NodeFacts DEF IInv, TypeOK
<1>7. DoublyLinked' /\ OneRing'
  <2>1. CASE i = 1
    <3>1. is_in_list = {} /\ last_page = page_head
      BY <1>1, <2>1 DEF last_page
    <3>2. /\ alloc_next'[page_head] = pg /\ alloc_next'[pg] = page_head
          /\ alloc_prev'[page_head] = pg /\ alloc_prev'[pg] = page_head
      BY <1>2, <1>3, <1>5, <3>1, NodeFacts
    <3>3. is_in_list' = {pg} /\ pg # page_head
      BY <1>1, <1>3, <3>1, NodeFacts
    <3> QED BY <3>2, <3>3 DEF DoublyLinked, OneRing, Inverse, Leaves
  <2>2. CASE i # 1
    <3>1. last_page = alloc_prev[page_head]
      BY <1>1, <2>2 DEF IInv, CollectInv, last_page
    <3>2. BootPages[1] \in is_in_list
      BY <1>1, <2>2
    <3>3. /\ Inverse(alloc_next, alloc_prev, is_in_list \cup {page_head})
          /\ Leaves(alloc_next, is_in_list)
      BY <3>2 DEF IInv, DoublyLinked, OneRing, Collected
    <3>4. /\ is_in_list \in SUBSET Node /\ page_head \in Node \ is_in_list
          /\ pg \in Node /\ pg # page_head
      BY <1>2, <1>3, NodeFacts
    <3>5. Inverse(alloc_next', alloc_prev', is_in_list' \cup {page_head})
      BY <1>1, <1>2, <1>3, <1>5, <3>1, <3>3, <3>4, LinkTailInverse
    <3>6. Leaves(alloc_next', is_in_list')
      BY <1>1, <1>2, <1>3, <1>5, <3>1, <3>3, <3>4, LinkTailLeaves
    <3> QED BY <3>5, <3>6 DEF DoublyLinked, OneRing
  <2> QED BY <2>1, <2>2
<1>8. Accounted'
  BY <1>1 DEF Accounted
<1>9. CollectInv'
  <2>1. is_in_list' = {BootPages[k] : k \in 1 .. (i' - 1)}
    BY <1>1
  <2>2. alloc_prev'[page_head] = BootPages[i' - 1]
    BY <1>1, <1>2, <1>5, NodeFacts
  <2> QED BY <1>1, <2>1, <2>2 DEF CollectInv
<1>10. ScanInv' /\ UnlinkInv' /\ LinkInv' /\ BlocksFit'
  BY <1>1 DEF ScanInv, UnlinkInv, LinkInv, BlocksFit
<1> QED BY <1>6, <1>7, <1>8, <1>9, <1>10 DEF IInv

\* The end of CollectAvailable: every usable page is linked and free.
LEMMA CollectDoneIInv == IInv /\ CollectDone => IInv'
<1> SUFFICES ASSUME IInv, CollectDone PROVE IInv'
  OBVIOUS
<1>1. /\ pc = "collect" /\ pc' = "idle" /\ n' = 0 /\ i' = 0 /\ start' = -1
      /\ UNCHANGED <<alloc_next, alloc_prev, is_free, is_in_list, blocks, ret>>
      /\ i \in 1 .. (Len(BootPages) + 1) /\ i > Len(BootPages)
      /\ is_in_list = {BootPages[k] : k \in 1 .. (i - 1)}
      /\ blocks = {} /\ is_free = is_in_list
  BY DEF IInv, CollectInv, CollectDone, Return, links, flags, Accounted
<1>2. is_in_list = Usable /\ is_in_list # {}
  BY <1>1, BootFacts DEF Usable
<1>3. TypeOK'
  BY <1>1, MemPagesAssumption DEF IInv, TypeOK
<1>4. DoublyLinked' /\ OneRing'
  BY <1>1, <1>2 DEF IInv, DoublyLinked, OneRing, Collected
<1>5. Accounted'
  BY <1>1, <1>2 DEF Accounted
<1>6. CollectInv' /\ ScanInv' /\ UnlinkInv' /\ LinkInv' /\ BlocksFit'
  BY <1>1 DEF CollectInv, ScanInv, UnlinkInv, LinkInv, BlocksFit
<1> QED BY <1>3, <1>4, <1>5, <1>6 DEF IInv

-----------------------------------------------------------------------------
(***************************************************************************)
(* The list outside boot: what unlinking and linking one page does.        *)
(***************************************************************************)

\* Once collected, the list is a ring and its pages are the free ones.
LEMMA ListFacts ==
  ASSUME IInv, pc # "collect"
  PROVE  /\ Inverse(alloc_next, alloc_prev, is_in_list \cup {page_head})
         /\ Leaves(alloc_next, is_in_list)
         /\ alloc_next \in [Node -> Node \cup {NULL}]
         /\ alloc_prev \in [Node -> Node \cup {NULL}]
         /\ is_in_list \in SUBSET Page /\ is_in_list \in SUBSET Node
         /\ page_head \in Node \ is_in_list
         /\ is_free = is_in_list
BY NodeFacts DEF IInv, DoublyLinked, OneRing, Collected, TypeOK, Accounted

\* Taking a listed page out keeps the ring (AllocPage and AllocPages).
LEMMA UnlinkList ==
  ASSUME IInv, pc # "collect", NEW d \in is_in_list,
         alloc_next' = [alloc_next EXCEPT ![alloc_prev[d]] = alloc_next[d]],
         alloc_prev' = [alloc_prev EXCEPT ![alloc_next[d]] = alloc_prev[d]],
         ClearFlags({d})
  PROVE  /\ DoublyLinked' /\ OneRing'
         /\ alloc_next' \in [Node -> Node \cup {NULL}]
         /\ alloc_prev' \in [Node -> Node \cup {NULL}]
         /\ is_in_list' = is_in_list \ {d} /\ is_free' = is_in_list \ {d}
<1>1. is_in_list' = is_in_list \ {d} /\ is_free' = is_in_list \ {d}
  BY ListFacts DEF ClearFlags
<1>2. Inverse(alloc_next', alloc_prev', is_in_list' \cup {page_head})
  BY <1>1, ListFacts, UnlinkInverse
<1>3. Leaves(alloc_next', is_in_list')
  BY <1>1, ListFacts, UnlinkLeaves
<1>4. /\ alloc_next' \in [Node -> Node \cup {NULL}]
      /\ alloc_prev' \in [Node -> Node \cup {NULL}]
  BY ListFacts
<1> QED BY <1>1, <1>2, <1>3, <1>4 DEF DoublyLinked, OneRing

\* Putting a page in front keeps the ring (FreePage and FreePages).
LEMMA LinkList ==
  ASSUME IInv, pc # "collect", NEW pg \in Page, pg \notin is_in_list, LinkFront(pg)
  PROVE  /\ DoublyLinked' /\ OneRing'
         /\ alloc_next' \in [Node -> Node \cup {NULL}]
         /\ alloc_prev' \in [Node -> Node \cup {NULL}]
         /\ is_in_list' = is_in_list \cup {pg} /\ is_free' = is_in_list \cup {pg}
<1>1. is_in_list' = is_in_list \cup {pg} /\ is_free' = is_in_list \cup {pg}
  BY ListFacts DEF LinkFront, SetFlags
<1>2. pg \in Node /\ pg # page_head
  BY NodeFacts
<1>3. /\ alloc_next' = [alloc_next EXCEPT ![pg] = alloc_next[page_head], ![page_head] = pg]
      /\ alloc_prev' = [alloc_prev EXCEPT ![alloc_next[page_head]] = pg, ![pg] = page_head]
  BY DEF LinkFront
<1>4. Inverse(alloc_next', alloc_prev', is_in_list' \cup {page_head})
  BY <1>1, <1>2, <1>3, ListFacts, LinkFrontInverse
<1>5. Leaves(alloc_next', is_in_list')
  BY <1>1, <1>2, <1>3, ListFacts, LinkFrontLeaves
<1>6. /\ alloc_next' \in [Node -> Node \cup {NULL}]
      /\ alloc_prev' \in [Node -> Node \cup {NULL}]
  BY <1>2, <1>3, ListFacts
<1> QED BY <1>1, <1>4, <1>5, <1>6 DEF DoublyLinked, OneRing

\* AllocPage's test: a list of two pages or more has different ends.
LEMMA TakeFacts ==
  ASSUME IInv, pc # "collect", ~NothingToTake
  PROVE  /\ alloc_next[page_head] \in is_in_list
         /\ alloc_prev[alloc_next[page_head]] = page_head
         /\ is_in_list # {alloc_next[page_head]}
BY ListFacts DEF NothingToTake, Inverse

\* AllocPage's test: equal ends mean at most one page.
LEMMA NullFacts ==
  ASSUME IInv, pc # "collect", NothingToTake
  PROVE  \A p, q \in is_in_list : p = q
<1> DEFINE d == alloc_next[page_head]
<1> SUFFICES ASSUME NEW p \in is_in_list, NEW q \in is_in_list, p # q PROVE FALSE
  OBVIOUS
<1> DEFINE S == is_in_list \ {d}
<1>1. S # {}
  OBVIOUS
<1>2. PICK x \in S : alloc_next[x] \notin S
  BY <1>1, ListFacts DEF Leaves
<1>3. alloc_next[x] \in {d, page_head}
  BY <1>2, ListFacts DEF Inverse
<1>4. alloc_prev[alloc_next[x]] = x /\ alloc_prev[d] = page_head
  BY <1>2, ListFacts DEF Inverse
<1>5. alloc_prev[page_head] = d
  BY DEF NothingToTake
<1> QED BY <1>2, <1>3, <1>4, <1>5, ListFacts

-----------------------------------------------------------------------------
(***************************************************************************)
(* Calls that take effect at once.                                         *)
(***************************************************************************)

\* Between calls the parts of the invariant about the loops say nothing.
LEMMA IdleIInv ==
  ASSUME pc' = "idle"
  PROVE  CollectInv' /\ ScanInv' /\ UnlinkInv' /\ LinkInv'
BY DEF CollectInv, ScanInv, UnlinkInv, LinkInv

\* AllocPage's early return NULL changes nothing.
LEMMA AllocPageNullIInv == IInv /\ AllocPageNull => IInv'
<1> SUFFICES ASSUME IInv, AllocPageNull PROVE IInv'
  OBVIOUS
<1>1. /\ pc = "idle" /\ pc' = "idle" /\ ret' = [n |-> 1, page |-> NULL]
      /\ UNCHANGED <<alloc_next, alloc_prev, is_free, is_in_list, blocks, n, i, start>>
  BY DEF AllocPageNull, links, flags, locals
<1>2. TypeOK' /\ BlocksFit'
  BY <1>1, MemPagesAssumption DEF IInv, TypeOK, BlocksFit
<1>3. DoublyLinked' /\ OneRing' /\ Accounted'
  BY <1>1 DEF IInv, DoublyLinked, OneRing, Accounted, Collected, Moved
<1> QED BY <1>1, <1>2, <1>3, IdleIInv DEF IInv

\* AllocPage takes the first page of the list and gives it to its caller.
LEMMA AllocPageIInv == IInv /\ AllocPage => IInv'
<1> SUFFICES ASSUME IInv, AllocPage PROVE IInv'
  OBVIOUS
<1> DEFINE pg == alloc_next[page_head]
           b1 == [start |-> pg, n |-> 1]
<1>1. /\ pc = "idle" /\ pc' = "idle" /\ ret' = [n |-> 1, page |-> pg] /\ UNCHANGED <<n, i, start>>
      /\ blocks' = blocks \cup {b1}
  BY DEF AllocPage, locals
<1>2. pg \in is_in_list /\ alloc_prev[pg] = page_head
  BY <1>1, TakeFacts DEF AllocPage
<1>3. /\ alloc_next' = [alloc_next EXCEPT ![alloc_prev[pg]] = alloc_next[pg]]
      /\ alloc_prev' = [alloc_prev EXCEPT ![alloc_next[pg]] = alloc_prev[pg]]
      /\ ClearFlags({pg})
  BY <1>2 DEF AllocPage
<1>4. /\ DoublyLinked' /\ OneRing'
      /\ alloc_next' \in [Node -> Node \cup {NULL}]
      /\ alloc_prev' \in [Node -> Node \cup {NULL}]
      /\ is_in_list' = is_in_list \ {pg} /\ is_free' = is_in_list \ {pg}
  BY <1>1, <1>2, <1>3, UnlinkList
<1>5. pg \in Page /\ is_in_list \in SUBSET Page /\ is_free = is_in_list
  BY <1>1, <1>2, ListFacts
<1>6. b1 \in Block /\ Pages(b1) = {pg} /\ b1.start + b1.n <= NrPageStructs
  BY <1>5, NodeFacts, MemPagesAssumption DEF Block, Pages, Run
<1>7. TypeOK' /\ BlocksFit'
  BY <1>1, <1>4, <1>5, <1>6, MemPagesAssumption DEF IInv, TypeOK, BlocksFit
<1>8. Accounted'
  <2>1. \A b \in blocks : pg \notin Pages(b)
    BY <1>1, <1>2, <1>5 DEF IInv, Accounted
  <2>2. \A b, c \in blocks' : \A p \in Pages(b) \cap Pages(c) : b = c
    BY <1>1, <1>6, <2>1 DEF IInv, Accounted
  <2>3. \A b \in blocks' : Pages(b) \cap is_free' = {}
    BY <1>1, <1>4, <1>5, <1>6 DEF IInv, Accounted
  <2>4. \A p \in Page : p \in Usable <=> \/ p \in is_free'
                                         \/ \E b \in blocks' : p \in Pages(b)
    <3>1. \A p \in Page : p \in Usable <=> \/ p \in is_free
                                           \/ \E b \in blocks : p \in Pages(b)
      BY <1>1 DEF IInv, Accounted
    <3> HIDE DEF pg, b1
    <3> QED BY <3>1, <1>1, <1>2, <1>4, <1>5, <1>6
  <2> QED BY <1>1, <1>4, <2>2, <2>3, <2>4 DEF Accounted
<1> QED BY <1>1, <1>4, <1>7, <1>8, IdleIInv DEF IInv

\* FreePage puts one page back in front of the list.
LEMMA FreePageIInv == ASSUME NEW pg \in Page PROVE IInv /\ FreePage(pg) => IInv'
<1> SUFFICES ASSUME IInv, FreePage(pg) PROVE IInv'
  OBVIOUS
<1> DEFINE b1 == [start |-> pg, n |-> 1]
<1>1. /\ pc = "idle" /\ pc' = "idle" /\ UNCHANGED <<n, i, start, ret>>
      /\ b1 \in blocks /\ blocks' = blocks \ {b1}
      /\ LinkFront(pg)
  BY DEF FreePage, locals
<1>2. Pages(b1) = {pg}
  BY NodeFacts DEF Pages, Run
<1>3. pg \notin is_in_list /\ is_free = is_in_list
  BY <1>1, <1>2 DEF IInv, Accounted
<1>4. /\ DoublyLinked' /\ OneRing'
      /\ alloc_next' \in [Node -> Node \cup {NULL}]
      /\ alloc_prev' \in [Node -> Node \cup {NULL}]
      /\ is_in_list' = is_in_list \cup {pg} /\ is_free' = is_in_list \cup {pg}
  BY <1>1, <1>3, LinkList
<1>5. TypeOK' /\ BlocksFit'
  BY <1>1, <1>4 DEF IInv, TypeOK, BlocksFit
<1>6. Accounted'
  <2>1. \A b \in blocks' : pg \notin Pages(b)
    BY <1>1, <1>2 DEF IInv, Accounted
  <2>2. \A b, c \in blocks' : \A p \in Pages(b) \cap Pages(c) : b = c
    BY <1>1 DEF IInv, Accounted
  <2>3. \A b \in blocks' : Pages(b) \cap is_free' = {}
    BY <1>1, <1>3, <1>4, <2>1 DEF IInv, Accounted
  <2>4. \A p \in Page : p \in Usable <=> \/ p \in is_free'
                                         \/ \E b \in blocks' : p \in Pages(b)
    <3>1. \A p \in Page : p \in Usable <=> \/ p \in is_free
                                           \/ \E b \in blocks : p \in Pages(b)
      BY <1>1 DEF IInv, Accounted
    <3> HIDE DEF b1
    <3> QED BY <3>1, <1>1, <1>2, <1>3, <1>4
  <2> QED BY <1>1, <1>4, <2>2, <2>3, <2>4 DEF Accounted
<1> QED BY <1>1, <1>4, <1>5, <1>6, IdleIInv DEF IInv

-----------------------------------------------------------------------------
(***************************************************************************)
(* AllocPages: the scan, then one page unlinked per step.                  *)
(***************************************************************************)

\* Steps that move no page and stay outside the two moving loops.
LEMMA StillIInv ==
  ASSUME IInv, pc \in {"idle", "scan"}, pc' \in {"idle", "scan"},
         UNCHANGED <<alloc_next, alloc_prev, is_free, is_in_list, blocks>>
  PROVE  DoublyLinked' /\ OneRing' /\ Accounted' /\ BlocksFit'
         /\ CollectInv' /\ UnlinkInv' /\ LinkInv'
BY DEF IInv, DoublyLinked, OneRing, Accounted, Collected, Moved, BlocksFit,
       CollectInv, UnlinkInv, LinkInv

\* The call of AllocPages starts the scan at page struct 0 with no run found.
LEMMA AllocPagesIInv ==
  ASSUME NEW k \in 2 .. MaxBlock PROVE IInv /\ AllocPages(k) => IInv'
<1> SUFFICES ASSUME IInv, AllocPages(k) PROVE IInv'
  OBVIOUS
<1>1. /\ pc = "idle" /\ pc' = "scan" /\ n' = k /\ i' = 0 /\ start' = -1
      /\ UNCHANGED <<alloc_next, alloc_prev, is_free, is_in_list, blocks, ret>>
  BY DEF AllocPages, links, flags
<1>2. TypeOK'
  BY <1>1, MemPagesAssumption DEF IInv, TypeOK
<1>3. ScanInv'
  <2>1. \A t \in is_free : ~(t < 0)
    BY NodeFacts DEF IInv, TypeOK
  <2> QED BY <1>1, <2>1, MemPagesAssumption DEF ScanInv
<1> QED BY <1>1, <1>2, <1>3, StillIInv DEF IInv

\* The scan forgets its run at a page that is not free.
LEMMA ScanUsedIInv == IInv /\ ScanUsed => IInv'
<1> SUFFICES ASSUME IInv, ScanUsed PROVE IInv'
  OBVIOUS
<1>1. /\ pc = "scan" /\ pc' = "scan" /\ start' = -1 /\ i' = i + 1
      /\ i \in Nat /\ i < NrPageStructs /\ i \notin is_free
      /\ UNCHANGED <<alloc_next, alloc_prev, is_free, is_in_list, blocks, n, ret>>
  BY DEF IInv, TypeOK, ScanUsed, links, flags
<1>2. TypeOK'
  BY <1>1, MemPagesAssumption DEF IInv, TypeOK
<1>3. ScanInv'
  <2>1. /\ n \in 2 .. MaxBlock
        /\ start # -1 => start < i /\ i < start + n
        /\ start \in Int
        /\ \A t \in is_free :
             t < (IF start = -1 THEN i ELSE start) => ~(Run(t, n) \subseteq is_free)
    BY <1>1, NodeFacts DEF IInv, ScanInv, TypeOK
  <2>2. ASSUME NEW t \in is_free, t < i + 1
        PROVE  ~(Run(t, n) \subseteq is_free)
    <3>1. t \in Int /\ t # i /\ n \in Int /\ n >= 2
      BY <1>1, <2>1, NodeFacts, MemPagesAssumption DEF IInv, TypeOK
    <3>2. CASE t < (IF start = -1 THEN i ELSE start)
      BY <2>1, <3>2
    <3>3. CASE ~(t < (IF start = -1 THEN i ELSE start))
      <4>1. i \in Run(t, n)
        BY <1>1, <2>1, <2>2, <3>1, <3>3 DEF Run
      <4> QED BY <1>1, <4>1
    <3> QED BY <3>2, <3>3
  <2> QED BY <1>1, <2>1, <2>2, MemPagesAssumption DEF ScanInv
<1> QED BY <1>1, <1>2, <1>3, StillIInv DEF IInv

\* Where there is no room left, no run of n free pages exists.
LEMMA NoRunLeft ==
  ASSUME IInv, pc = "scan", (i \in is_free /\ NoRoom) \/ i = NrPageStructs
  PROVE  start = -1 /\ \A t \in is_free : ~(Run(t, n) \subseteq is_free)
<1>1. /\ n \in Int /\ n >= 2 /\ i \in Int /\ NrPageStructs \in Int
      /\ is_free \subseteq Page /\ start \in Int
  BY MemPagesAssumption, NodeFacts DEF IInv, ScanInv, TypeOK
<1>2. start = -1
  BY <1>1 DEF IInv, ScanInv, NoRoom
<1>3. i > NrPageStructs - n
  BY <1>1 DEF NoRoom
<1>4. ASSUME NEW t \in is_free, Run(t, n) \subseteq is_free PROVE FALSE
  <2>1. t \in Int /\ t + n - 1 \in Run(t, n)
    BY <1>1, NodeFacts DEF Run
  <2>2. t + n - 1 < NrPageStructs
    BY <1>1, <1>4, <2>1, NodeFacts
  <2>3. t < i
    BY <1>1, <1>3, <2>1, <2>2
  <2> QED BY <1>2, <1>4, <2>3 DEF IInv, ScanInv
<1> QED BY <1>2, <1>4

\* The scan gives up only with no run found, and returns NULL.
LEMMA ScanNoRoomIInv == IInv /\ (ScanNoRoom \/ ScanEnd) => IInv'
<1> SUFFICES ASSUME IInv, ScanNoRoom \/ ScanEnd PROVE IInv'
  OBVIOUS
<1>1. pc = "scan" /\ start = -1
  BY NoRunLeft DEF ScanNoRoom, ScanEnd
<1>2. /\ pc' = "idle" /\ n' = 0 /\ i' = 0 /\ start' = -1
      /\ ret' = [n |-> n, page |-> NULL]
      /\ UNCHANGED <<alloc_next, alloc_prev, is_free, is_in_list, blocks>>
  BY <1>1 DEF ScanNoRoom, ScanEnd, LeaveScan, Return, links, flags
<1>3. TypeOK'
  BY <1>2, MemPagesAssumption DEF IInv, TypeOK
<1>4. ScanInv'
  BY <1>2, IdleIInv
<1> QED BY <1>1, <1>2, <1>3, <1>4, StillIInv DEF IInv

\* The scan extends its run at a free page, and goes on to unlink a complete one.
LEMMA ScanFreeIInv == IInv /\ ScanFree => IInv'
<1> SUFFICES ASSUME IInv, ScanFree PROVE IInv'
  OBVIOUS
<1>1. /\ pc = "scan" /\ i < NrPageStructs /\ i \in is_free /\ ~NoRoom
      /\ UNCHANGED <<alloc_next, alloc_prev, is_free, is_in_list, blocks>>
  BY DEF ScanFree, links, flags
<1>2. /\ i \in Nat /\ n \in 2 .. MaxBlock /\ n \in Nat /\ n >= 2 /\ NrPageStructs \in Nat
      /\ is_free \subseteq Page /\ start \in Page \cup {-1} /\ start \in Int
  BY <1>1, MemPagesAssumption, NodeFacts DEF IInv, TypeOK, ScanInv
<1>3. /\ RunStart \in Page /\ RunStart \in Int /\ RunStart # -1
      /\ RunStart <= i /\ i < RunStart + n
      /\ RunStart + n <= NrPageStructs
      /\ RunStart .. i \subseteq is_free
      /\ \A t \in is_free : t < RunStart => ~(Run(t, n) \subseteq is_free)
  <2>1. CASE start = -1
    BY <1>1, <1>2, <2>1, NodeFacts DEF RunStart, NoRoom, IInv, ScanInv
  <2>2. CASE start # -1
    BY <1>1, <1>2, <2>2, NodeFacts DEF RunStart, IInv, ScanInv
  <2> QED BY <2>1, <2>2
<1>4. CASE i = RunStart + n - 1
  <2>1. pc' = "unlink" /\ i' = RunStart /\ start' = RunStart /\ UNCHANGED <<n, ret>>
    BY <1>3, <1>4 DEF ScanFree, LeaveScan
  <2>2. TypeOK'
    BY <1>1, <1>3, <2>1, NodeFacts, MemPagesAssumption DEF IInv, TypeOK
  <2>3. Moved' = {}
    BY <2>1, <1>3 DEF Moved
  <2>4. DoublyLinked' /\ OneRing' /\ BlocksFit' /\ CollectInv' /\ ScanInv' /\ LinkInv'
    BY <1>1, <2>1 DEF IInv, DoublyLinked, OneRing, Collected, BlocksFit, CollectInv,
                      ScanInv, LinkInv
  <2>5. Accounted'
    BY <1>1, <2>1, <2>3 DEF IInv, Accounted
  <2>6. UnlinkInv'
    <3>1. Run(RunStart, n) = RunStart .. i /\ RunStart \in Run(RunStart, n)
      BY <1>2, <1>3, <1>4 DEF Run
    <3>2. \A b \in blocks : Pages(b) \cap is_free = {}
      BY <1>1 DEF IInv, Accounted
    <3>3. AbsFree' = is_free
      BY <1>1, <2>1, <2>3 DEF AbsFree
    <3>4. PA!FirstRun(AbsFree, start, n)'
      BY <1>3, <2>1, <3>1, <3>3 DEF PA!FirstRun, PA!Run, Run
    <3> QED BY <1>1, <1>2, <1>3, <1>4, <2>1, <2>3, <3>1, <3>2, <3>4 DEF UnlinkInv
  <2> QED BY <2>2, <2>4, <2>5, <2>6 DEF IInv
<1>5. CASE i # RunStart + n - 1
  <2>1. pc' = "scan" /\ i' = i + 1 /\ start' = RunStart /\ UNCHANGED <<n, ret>>
    BY <1>1, <1>5 DEF ScanFree
  <2>2. TypeOK'
    BY <1>1, <1>2, <1>3, <2>1 DEF IInv, TypeOK
  <2>3. ScanInv'
    <3>1. /\ start' < i' /\ i' < start' + n' /\ start' + n' <= NrPageStructs
          /\ n' \in 2 .. MaxBlock /\ i' \in 0 .. NrPageStructs
      BY <1>1, <1>2, <1>3, <1>5, <2>1
    <3>2. start' .. (i' - 1) \subseteq is_free'
      BY <1>1, <1>2, <1>3, <2>1
    <3>3. \A t \in is_free' : t < start' => ~(Run(t, n') \subseteq is_free')
      BY <1>1, <1>3, <2>1
    <3> QED BY <1>3, <2>1, <3>1, <3>2, <3>3 DEF ScanInv
  <2> QED BY <1>1, <2>1, <2>2, <2>3, StillIInv DEF IInv
<1> QED BY <1>4, <1>5

\* One iteration of the loop that unlinks the run found by the scan.
LEMMA UnlinkPageIInv == IInv /\ UnlinkPage => IInv'
<1> SUFFICES ASSUME IInv, UnlinkPage PROVE IInv'
  OBVIOUS
<1> DEFINE b1 == [start |-> start, n |-> n]
<1>1. /\ pc = "unlink"
      /\ n \in 2 .. MaxBlock /\ n \in Nat /\ n >= 2
      /\ start \in Page /\ start \in Nat /\ start + n <= NrPageStructs
      /\ i \in Nat /\ start <= i /\ i < start + n /\ i \in Page
      /\ i .. (start + n - 1) \subseteq is_free
      /\ (start .. (i - 1)) \cap is_free = {}
      /\ \A b \in blocks : Pages(b) \cap Run(start, n) = {}
      /\ is_free = is_in_list /\ is_free \subseteq Page /\ NrPageStructs \in Nat
  BY MemPagesAssumption, NodeFacts
     DEF IInv, UnlinkInv, UnlinkPage, Run, Moved, TypeOK, Accounted
<1>2. /\ i \in is_in_list /\ i \in Page /\ is_free = is_in_list
      /\ pc = "unlink" /\ Moved = start .. (i - 1)
  BY <1>1 DEF Moved
<1>3. /\ DoublyLinked' /\ OneRing'
      /\ alloc_next' \in [Node -> Node \cup {NULL}]
      /\ alloc_prev' \in [Node -> Node \cup {NULL}]
      /\ is_in_list' = is_in_list \ {i} /\ is_free' = is_in_list \ {i}
  BY <1>1, <1>2, UnlinkList DEF UnlinkPage
<1>4. \A p \in Page : p \in Usable <=> \/ p \in is_free
                                       \/ \E b \in blocks : p \in Pages(b)
                                       \/ p \in start .. (i - 1)
  BY <1>2 DEF IInv, Accounted
<1>5. \A b \in blocks : Pages(b) \cap is_free = {}
  BY <1>2 DEF IInv, Accounted
<1>6. \A b, c \in blocks : \A p \in Pages(b) \cap Pages(c) : b = c
  BY DEF IInv, Accounted
<1>7. CASE LastOfRun
  <2>1. /\ pc' = "idle" /\ n' = 0 /\ i' = 0 /\ start' = -1
        /\ blocks' = blocks \cup {b1} /\ ret' = [n |-> n, page |-> start]
    BY <1>7 DEF UnlinkPage, Return
  <2>2. /\ b1 \in Block /\ b1.start + b1.n <= NrPageStructs
        /\ Pages(b1) = Run(start, n) /\ Run(start, n) = (start .. (i - 1)) \cup {i}
    BY <1>1, <1>7 DEF LastOfRun, Block, Pages, Run
  <2>3. TypeOK' /\ BlocksFit'
    BY <1>1, <1>3, <2>1, <2>2, MemPagesAssumption DEF IInv, TypeOK, BlocksFit
  <2>4. Accounted'
    <3> HIDE DEF b1
    <3>1. \A b, c \in blocks' : \A p \in Pages(b) \cap Pages(c) : b = c
      BY <1>1, <1>6, <2>1, <2>2
    <3>2. \A b \in blocks' : Pages(b) \cap is_free' = {}
      BY <1>1, <1>3, <1>5, <2>1, <2>2
    <3>3. \A p \in Page : p \in Usable <=> \/ p \in is_free'
                                           \/ \E b \in blocks' : p \in Pages(b)
      <4> SUFFICES ASSUME NEW p \in Page
                   PROVE p \in Usable <=> \/ p \in is_free'
                                          \/ \E b \in blocks' : p \in Pages(b)
        OBVIOUS
      <4>1. (\E b \in blocks' : p \in Pages(b)) <=>
              \/ \E b \in blocks : p \in Pages(b)
              \/ p \in start .. (i - 1) \/ p = i
        BY <2>1, <2>2
      <4> QED BY <1>2, <1>3, <1>4, <4>1
    <3> QED BY <1>3, <2>1, <3>1, <3>2, <3>3 DEF Accounted
  <2> QED BY <1>3, <2>1, <2>3, <2>4, IdleIInv DEF IInv
<1>8. CASE ~LastOfRun
  <2>1. /\ i' = i + 1 /\ pc' = "unlink" /\ UNCHANGED <<n, start, blocks, ret>>
    BY <1>1, <1>8 DEF UnlinkPage
  <2>2. i + 1 < start + n /\ i + 1 \in Page
    BY <1>1, <1>8 DEF LastOfRun, Page
  <2>3. Moved' = Moved \cup {i}
    BY <1>1, <1>2, <2>1 DEF Moved
  <2>4. TypeOK' /\ BlocksFit'
    BY <1>1, <1>3, <2>1, <2>2 DEF IInv, TypeOK, BlocksFit
  <2>5. Accounted'
    <3>1. \A p \in Page : p \in Usable <=> \/ p \in is_free'
                                           \/ \E b \in blocks' : p \in Pages(b)
                                           \/ p \in Moved'
      BY <1>2, <1>3, <1>4, <2>1, <2>3
    <3>2. \A b \in blocks' : Pages(b) \cap is_free' = {}
      BY <1>2, <1>3, <1>5, <2>1
    <3> QED BY <1>3, <1>6, <2>1, <3>1, <3>2 DEF Accounted
  <2>6. UnlinkInv'
    <3>1. AbsFree = is_free \cup Moved
      BY <1>1 DEF AbsFree
    <3>2. AbsFree' = is_free' \cup Moved'
      BY <2>1 DEF AbsFree
    <3>3. AbsFree' = AbsFree
      BY <1>2, <1>3, <2>3, <3>1, <3>2
    <3>4. PA!FirstRun(AbsFree, start, n)'
      <4>1. PA!FirstRun(AbsFree, start, n)
        BY <1>1 DEF IInv, UnlinkInv
      <4> QED BY <4>1, <2>1, <3>3 DEF PA!FirstRun, PA!Run
    <3>5. i' .. (start + n - 1) \subseteq is_free' /\ Moved' \cap is_free' = {}
      BY <1>1, <1>2, <1>3, <2>1, <2>3
    <3>6. i' \in Run(start, n)
      BY <1>1, <2>1, <2>2 DEF Run
    <3> QED BY <1>1, <2>1, <3>4, <3>5, <3>6 DEF UnlinkInv
  <2>7. CollectInv' /\ ScanInv' /\ LinkInv'
    BY <2>1 DEF CollectInv, ScanInv, LinkInv
  <2> QED BY <1>3, <2>4, <2>5, <2>6, <2>7 DEF IInv
<1> QED BY <1>7, <1>8

-----------------------------------------------------------------------------
(***************************************************************************)
(* FreePages: one page put back per step.                                  *)
(***************************************************************************)

\* The call of FreePages takes a block its caller holds.
LEMMA FreePagesIInv == ASSUME NEW b \in blocks PROVE IInv /\ FreePages(b) => IInv'
<1> SUFFICES ASSUME IInv, FreePages(b) PROVE IInv'
  OBVIOUS
<1>1. /\ pc = "idle" /\ pc' = "link" /\ n' = b.n /\ i' = b.start /\ start' = b.start
      /\ b.n > 1
      /\ UNCHANGED <<alloc_next, alloc_prev, is_free, is_in_list, blocks, ret>>
  BY DEF FreePages, links, flags
<1>2. /\ b = [start |-> b.start, n |-> b.n] /\ b.start \in Page /\ b.start \in Int
      /\ b.n \in 1 .. MaxBlock /\ b.n \in Nat
  BY MemPagesAssumption, NodeFacts DEF IInv, TypeOK, Block
<1>3. Moved' = {}
  BY <1>1, <1>2 DEF Moved
<1>4. TypeOK'
  BY <1>1, <1>2, NodeFacts, MemPagesAssumption DEF IInv, TypeOK
<1>5. DoublyLinked' /\ OneRing' /\ BlocksFit' /\ CollectInv' /\ ScanInv' /\ UnlinkInv'
  BY <1>1 DEF IInv, DoublyLinked, OneRing, Collected, BlocksFit, CollectInv, ScanInv,
              UnlinkInv
<1>6. Accounted'
  BY <1>1, <1>3 DEF IInv, Accounted
<1>7. LinkInv'
  <2>1. Pages(b) \cap is_free = {}
    BY <1>1 DEF IInv, Accounted
  <2>2. Pages(b) = b.start .. (b.start + b.n - 1) /\ b.start \in Run(b.start, b.n)
    BY <1>1, <1>2 DEF Pages, Run
  <2> QED BY <1>1, <1>2, <1>3, <2>1, <2>2 DEF LinkInv
<1> QED BY <1>4, <1>5, <1>6, <1>7 DEF IInv

\* One iteration of the loop of FreePages that links the block's pages.
LEMMA LinkPageIInv == IInv /\ LinkPage => IInv'
<1> SUFFICES ASSUME IInv, LinkPage PROVE IInv'
  OBVIOUS
<1> DEFINE b1 == [start |-> start, n |-> n]
<1>1. /\ pc = "link" /\ LinkFront(i) /\ ret' = ret
      /\ n \in 2 .. MaxBlock /\ n \in Nat /\ n >= 2
      /\ b1 \in blocks
      /\ start \in Page /\ start \in Nat /\ start + n <= NrPageStructs
      /\ i \in Nat /\ start <= i /\ i < start + n /\ i \in Page
      /\ (i .. (start + n - 1)) \cap is_free = {}
      /\ start .. (i - 1) \subseteq is_free
      /\ is_free = is_in_list /\ is_free \subseteq Page /\ NrPageStructs \in Nat
  <2>1. /\ pc = "link" /\ LinkFront(i) /\ ret' = ret /\ b1 \in blocks
        /\ n \in 2 .. MaxBlock /\ i \in Run(start, n)
        /\ (i .. (start + n - 1)) \cap is_free = {} /\ Moved \subseteq is_free
        /\ i \in Page /\ is_free = is_in_list /\ is_free \subseteq Page
    BY DEF IInv, LinkInv, LinkPage, TypeOK, Accounted
  <2>2. b1.start \in Page /\ b1.start + b1.n <= NrPageStructs
    BY <2>1 DEF IInv, TypeOK, Block, BlocksFit
  <2>3. start \in Page /\ start \in Nat /\ NrPageStructs \in Nat /\ n \in Nat /\ i \in Nat
    BY <2>1, <2>2, MemPagesAssumption DEF Page
  <2>4. Moved = start .. (i - 1)
    BY <2>1 DEF Moved
  <2>5. start <= i /\ i < start + n /\ n >= 2
    BY <2>1, <2>3, MemPagesAssumption DEF Run
  <2> QED BY <2>1, <2>2, <2>3, <2>4, <2>5
<1>2. i \notin is_in_list
  BY <1>1
<1>3. /\ DoublyLinked' /\ OneRing'
      /\ alloc_next' \in [Node -> Node \cup {NULL}]
      /\ alloc_prev' \in [Node -> Node \cup {NULL}]
      /\ is_in_list' = is_in_list \cup {i} /\ is_free' = is_in_list \cup {i}
  BY <1>1, <1>2, LinkList
<1>4. /\ \A b, c \in blocks : \A p \in Pages(b) \cap Pages(c) : b = c
      /\ \A b \in blocks : \A p \in Pages(b) \cap is_free : p \in start .. (i - 1)
      /\ \A p \in Page : p \in Usable <=> \/ p \in is_free
                                          \/ \E b \in blocks : p \in Pages(b)
  BY <1>1 DEF IInv, Accounted, Moved
<1>5. Pages(b1) = start .. (start + n - 1)
  BY DEF Pages, Run
<1>6. CASE LastOfRun
  <2>1. /\ pc' = "idle" /\ n' = 0 /\ i' = 0 /\ start' = -1
        /\ blocks' = blocks \ {b1}
    BY <1>6 DEF LinkPage, Return
  <2>2. Pages(b1) = (start .. (i - 1)) \cup {i}
    BY <1>1, <1>5, <1>6 DEF LastOfRun
  <2>3. TypeOK' /\ BlocksFit'
    BY <1>1, <1>3, <2>1, MemPagesAssumption DEF IInv, TypeOK, BlocksFit
  <2>4. Accounted'
    <3> HIDE DEF b1
    <3>1. \A b \in blocks' : Pages(b) \cap Pages(b1) = {}
      BY <1>1, <1>4, <2>1
    <3>2. \A b \in blocks' : Pages(b) \cap is_free' = {}
      BY <1>1, <1>3, <1>4, <2>1, <2>2, <3>1
    <3>3. \A p \in Page : p \in Usable <=> \/ p \in is_free'
                                           \/ \E b \in blocks' : p \in Pages(b)
      BY <1>1, <1>3, <1>4, <2>1, <2>2
    <3> QED BY <1>3, <1>4, <2>1, <3>2, <3>3 DEF Accounted
  <2> QED BY <1>3, <2>1, <2>3, <2>4, IdleIInv DEF IInv
<1>7. CASE ~LastOfRun
  <2>1. /\ i' = i + 1 /\ pc' = "link" /\ UNCHANGED <<n, start, blocks>>
    BY <1>1, <1>7 DEF LinkPage
  <2>2. i + 1 < start + n /\ i + 1 \in Page
    BY <1>1, <1>7 DEF LastOfRun, Page
  <2>3. Moved' = (start .. (i - 1)) \cup {i}
    BY <1>1, <2>1 DEF Moved
  <2>4. TypeOK' /\ BlocksFit'
    BY <1>1, <1>3, <2>1, <2>2 DEF IInv, TypeOK, BlocksFit
  <2>5. Accounted'
    <3>1. i \in Pages(b1)
      BY <1>1, <1>5
    <3>2. \A b \in blocks' : \A p \in Pages(b) \cap is_free' : p \in Moved'
      BY <1>1, <1>3, <1>4, <2>1, <2>3
    <3>3. \A p \in Page : p \in Usable <=> \/ p \in is_free'
                                           \/ \E b \in blocks' : p \in Pages(b)
      BY <1>1, <1>3, <1>4, <2>1, <3>1
    <3> QED BY <1>3, <1>4, <2>1, <3>2, <3>3 DEF Accounted
  <2>6. LinkInv'
    <3>1. (i' .. (start + n - 1)) \cap is_free' = {} /\ Moved' \subseteq is_free'
      BY <1>1, <1>3, <2>1, <2>3
    <3>2. i' \in Run(start, n)
      BY <1>1, <2>1, <2>2 DEF Run
    <3> QED BY <1>1, <2>1, <3>1, <3>2 DEF LinkInv
  <2>7. CollectInv' /\ ScanInv' /\ UnlinkInv'
    BY <2>1 DEF CollectInv, ScanInv, UnlinkInv
  <2> QED BY <1>3, <2>4, <2>5, <2>6, <2>7 DEF IInv
<1> QED BY <1>6, <1>7

-----------------------------------------------------------------------------
(***************************************************************************)
(* The theorems.                                                           *)
(***************************************************************************)

\* A stuttering step keeps the invariant.
LEMMA StutterIInv == IInv /\ UNCHANGED vars => IInv'
<1> SUFFICES ASSUME IInv, UNCHANGED vars PROVE IInv'
  OBVIOUS
<1>1. UNCHANGED <<alloc_next, alloc_prev, is_free, is_in_list, blocks, pc, n, i, start, ret>>
  BY DEF vars, links, flags, locals
<1>2. AbsFree' = AbsFree /\ Moved' = Moved
  BY <1>1 DEF AbsFree, Moved
<1>3. TypeOK' /\ DoublyLinked' /\ OneRing' /\ Accounted'
  BY <1>1, <1>2 DEF IInv, TypeOK, DoublyLinked, OneRing, Accounted, Collected
<1>4. CollectInv' /\ ScanInv' /\ LinkInv' /\ BlocksFit'
  BY <1>1, <1>2 DEF IInv, CollectInv, ScanInv, LinkInv, BlocksFit
<1>5. UnlinkInv'
  <2>1. PA!FirstRun(AbsFree, start, n) => PA!FirstRun(AbsFree, start, n)'
    BY <1>1, <1>2 DEF PA!FirstRun, PA!Run
  <2> QED BY <1>1, <1>2, <2>1 DEF IInv, UnlinkInv
<1> QED BY <1>3, <1>4, <1>5 DEF IInv

\* Every operation of MemPages preserves the inductive invariant, whatever the
\* number of page structs, the memory map and the length of the runs asked for.
LEMMA NextIInv == IInv /\ [Next]_vars => IInv'
<1> SUFFICES ASSUME IInv, [Next]_vars PROVE IInv'
  OBVIOUS
<1>1. CASE Collect
  BY <1>1, CollectPageIInv, CollectDoneIInv DEF Collect
<1>2. CASE Call
  <2>1. CASE AllocPageNull \/ AllocPage
    BY <2>1, AllocPageNullIInv, AllocPageIInv
  <2>2. CASE \E pg \in Page : FreePage(pg)
    BY <2>2, FreePageIInv
  <2>3. CASE \E k \in 2 .. MaxBlock : AllocPages(k)
    BY <2>3, AllocPagesIInv
  <2>4. CASE \E b \in blocks : FreePages(b)
    BY <2>4, FreePagesIInv
  <2> QED BY <1>2, <2>1, <2>2, <2>3, <2>4 DEF Call
<1>3. CASE Step
  BY <1>3, ScanUsedIInv, ScanNoRoomIInv, ScanFreeIInv, UnlinkPageIInv, LinkPageIInv
     DEF Step
<1> QED BY <1>1, <1>2, <1>3, StutterIInv DEF Next

\* IInv holds in every state of every run of the allocator.
LEMMA Invariance == Spec => []IInv
BY InitIInv, NextIInv, PTL DEF Spec

\* The type invariant: the loops of allocator.cc never index page_structs past
\* its end, and what a call returns is a page struct or NULL.
THEOREM TypeCorrect == Spec => []TypeOK
<1>1. IInv => TypeOK
  BY DEF IInv
<1> QED BY Invariance, <1>1, PTL

\* The free list stays doubly linked through page_head, in every state of every
\* loop of CollectAvailable, AllocPages and FreePages.
THEOREM ListDoublyLinked == Spec => []DoublyLinked
<1>1. IInv => DoublyLinked
  BY DEF IInv
<1> QED BY Invariance, <1>1, PTL

\* The free list stays one ring: no free page is ever cut off from page_head.
THEOREM ListIsOneRing == Spec => []OneRing
<1>1. IInv => OneRing
  BY DEF IInv
<1> QED BY Invariance, <1>1, PTL

\* No page is handed out twice, none in use is on the free list, and none is
\* lost: AllocPage, AllocPages, FreePage and FreePages only move pages.
THEOREM PagesAccounted == Spec => []Accounted
<1>1. IInv => Accounted
  BY DEF IInv
<1> QED BY Invariance, <1>1, PTL

-----------------------------------------------------------------------------
(***************************************************************************)
(* The refinement: a call takes effect on the abstract set of free pages   *)
(* in its last step.                                                       *)
(***************************************************************************)

\* The free pages as a caller sees them, by where the allocator is.
LEMMA AbsFreeFacts ==
  /\ pc = "collect" => AbsFree = Usable
  /\ pc = "unlink" => AbsFree = is_free \cup (start .. (i - 1))
  /\ pc = "link" => AbsFree = is_free \ (start .. (i - 1))
  /\ pc \in {"idle", "scan"} => AbsFree = is_free
BY DEF AbsFree, Moved

\* The same of the next state.
LEMMA AbsFreeFactsPrime ==
  /\ pc' = "collect" => AbsFree' = Usable
  /\ pc' = "unlink" => AbsFree' = is_free' \cup (start' .. (i' - 1))
  /\ pc' = "link" => AbsFree' = is_free' \ (start' .. (i' - 1))
  /\ pc' \in {"idle", "scan"} => AbsFree' = is_free'
BY DEF AbsFree, Moved

\* The initial states of the allocator are initial states of PageAlloc.
LEMMA InitAbs == Init => PA!Init
BY AbsFreeFacts DEF Init, PA!Init, PA!NULL, NULL

\* CollectAvailable is invisible to a caller.
LEMMA CollectAbs == IInv /\ Collect => UNCHANGED PA!absvars
<1> SUFFICES ASSUME IInv, Collect PROVE UNCHANGED PA!absvars
  OBVIOUS
<1>1. UNCHANGED <<blocks, ret>> /\ AbsFree = Usable
  BY AbsFreeFacts DEF Collect, CollectPage, CollectDone
<1>2. CASE CollectPage
  BY <1>1, <1>2, AbsFreeFactsPrime DEF CollectPage, PA!absvars
<1>3. CASE CollectDone
  <2>1. /\ pc' = "idle" /\ is_free' = is_in_list
        /\ is_in_list = {BootPages[k] : k \in 1 .. (i - 1)}
        /\ i \in 1 .. (Len(BootPages) + 1) /\ i > Len(BootPages)
    BY <1>3 DEF CollectDone, Return, flags, IInv, CollectInv, Accounted
  <2>2. is_in_list = Usable
    BY <2>1, BootFacts DEF Usable
  <2>3. AbsFree' = Usable
    BY <2>1, <2>2, AbsFreeFactsPrime
  <2> QED BY <1>1, <2>3 DEF PA!absvars
<1> QED BY <1>2, <1>3 DEF Collect

\* AllocPage and FreePage are the calls of PageAlloc, the start of a loop a stutter.
LEMMA CallAbs == IInv /\ Call => PA!Next \/ UNCHANGED PA!absvars
<1> SUFFICES ASSUME IInv, Call PROVE PA!Next \/ UNCHANGED PA!absvars
  OBVIOUS
<1>1. pc = "idle" /\ AbsFree = is_free /\ is_free = is_in_list
  BY ListFacts, AbsFreeFacts
     DEF Call, AllocPageNull, AllocPage, FreePage, AllocPages, FreePages
<1>2. CASE AllocPageNull
  <2>1. /\ ret' = [n |-> 1, page |-> PA!NULL] /\ AbsFree' = AbsFree /\ UNCHANGED blocks
        /\ \A p, q \in AbsFree : p = q
    BY <1>1, <1>2, NullFacts, AbsFreeFactsPrime
       DEF AllocPageNull, flags, locals, PA!NULL, NULL
  <2>2. PA!AllocFail(1)
    BY <2>1 DEF PA!AllocFail
  <2> QED BY <2>2, MemPagesAssumption DEF PA!Next
<1>3. CASE AllocPage
  <2> DEFINE pg == alloc_next[page_head]
  <2>1. /\ pg \in AbsFree /\ AbsFree # {pg}
        /\ AbsFree' = AbsFree \ {pg}
        /\ blocks' = blocks \cup {[start |-> pg, n |-> 1]} /\ ret' = [n |-> 1, page |-> pg]
    BY <1>1, <1>3, TakeFacts, AbsFreeFactsPrime DEF AllocPage, ClearFlags, locals
  <2>2. PA!AllocOne
    BY <2>1 DEF PA!AllocOne
  <2> QED BY <2>2 DEF PA!Next
<1>4. CASE \E pg \in Page : FreePage(pg)
  <2>1. PICK pg \in Page : FreePage(pg)
    BY <1>4
  <2> DEFINE b1 == [start |-> pg, n |-> 1]
  <2>2. b1 \in blocks /\ blocks' = blocks \ {b1} /\ UNCHANGED ret
    BY <2>1 DEF FreePage
  <2>3. AbsFree' = AbsFree \cup {pg}
    BY <1>1, <2>1, AbsFreeFactsPrime DEF FreePage, LinkFront, SetFlags, locals
  <2>4. PA!Run(b1.start, b1.n) = {pg}
    BY NodeFacts DEF PA!Run
  <2>5. PA!Release(b1)
    BY <2>2, <2>3, <2>4 DEF PA!Release
  <2> QED BY <2>2, <2>5 DEF PA!Next
<1>5. CASE \E k \in 2 .. MaxBlock : AllocPages(k)
  BY <1>1, <1>5, AbsFreeFactsPrime DEF AllocPages, flags, PA!absvars
<1>6. CASE \E b \in blocks : FreePages(b)
  <2>1. PICK b \in blocks : FreePages(b)
    BY <1>6
  <2>2. b.start \in Int
    BY NodeFacts DEF IInv, TypeOK, Block
  <2>3. pc' = "link" /\ is_free' = is_free /\ start' .. (i' - 1) = {}
    BY <2>1, <2>2 DEF FreePages, flags
  <2>4. AbsFree' = AbsFree
    BY <1>1, <2>3, AbsFreeFactsPrime
  <2> QED BY <2>1, <2>4 DEF FreePages, PA!absvars
<1> QED BY <1>2, <1>3, <1>4, <1>5, <1>6 DEF Call

\* The scan is invisible until it answers that there is no run of n free pages.
LEMMA ScanAbs ==
  IInv /\ (ScanUsed \/ ScanNoRoom \/ ScanFree \/ ScanEnd) => PA!Next \/ UNCHANGED PA!absvars
<1> SUFFICES ASSUME IInv, ScanUsed \/ ScanNoRoom \/ ScanFree \/ ScanEnd
             PROVE  PA!Next \/ UNCHANGED PA!absvars
  OBVIOUS
<1>1. /\ pc = "scan" /\ AbsFree = is_free /\ UNCHANGED <<is_free, blocks>>
      /\ n \in 2 .. MaxBlock /\ i \in Int /\ start \in Int /\ n \in Int
  BY AbsFreeFacts, NodeFacts, MemPagesAssumption
     DEF ScanUsed, ScanNoRoom, ScanFree, ScanEnd, flags, IInv, ScanInv, TypeOK
<1>2. CASE ScanUsed
  BY <1>1, <1>2, AbsFreeFactsPrime DEF ScanUsed, PA!absvars
<1>3. CASE ScanNoRoom \/ ScanEnd
  <2>1. start = -1 /\ \A t \in is_free : ~(Run(t, n) \subseteq is_free)
    BY <1>1, <1>3, NoRunLeft DEF ScanNoRoom, ScanEnd
  <2>2. ret' = [n |-> n, page |-> NULL] /\ pc' = "idle"
    BY <1>3, <2>1 DEF ScanNoRoom, ScanEnd, LeaveScan, Return
  <2>3. AbsFree' = AbsFree
    BY <1>1, <2>2, AbsFreeFactsPrime
  <2>4. PA!AllocFail(n)
    BY <1>1, <2>1, <2>2, <2>3 DEF PA!AllocFail, PA!Run, Run, PA!NULL, NULL
  <2>5. n \in 1 .. MaxBlock
    BY <1>1, MemPagesAssumption
  <2> QED BY <2>4, <2>5 DEF PA!Next
<1>4. CASE ScanFree
  <2>1. CASE i = RunStart + n - 1
    <3>1. RunStart # -1 /\ RunStart \in Int
      BY <1>1, <1>4 DEF ScanFree, RunStart, IInv, TypeOK
    <3>2. pc' = "unlink" /\ start' = RunStart /\ i' = RunStart /\ ret' = ret
      BY <1>4, <2>1, <3>1 DEF ScanFree, LeaveScan
    <3>3. start' .. (i' - 1) = {}
      BY <3>1, <3>2
    <3> QED BY <1>1, <3>2, <3>3, AbsFreeFactsPrime DEF PA!absvars
  <2>2. CASE i # RunStart + n - 1
    BY <1>1, <1>4, <2>2, AbsFreeFactsPrime DEF ScanFree, PA!absvars
  <2> QED BY <2>1, <2>2
<1> QED BY <1>2, <1>3, <1>4

\* The last iteration of the unlinking loop is PageAlloc's allocation of the block.
LEMMA UnlinkAbs == IInv /\ UnlinkPage => PA!Next \/ UNCHANGED PA!absvars
<1> SUFFICES ASSUME IInv, UnlinkPage PROVE PA!Next \/ UNCHANGED PA!absvars
  OBVIOUS
<1>1. /\ pc = "unlink" /\ n \in 2 .. MaxBlock /\ n \in Nat /\ start \in Nat /\ i \in Nat
      /\ start <= i /\ i < start + n
      /\ i .. (start + n - 1) \subseteq is_free
      /\ (start .. (i - 1)) \cap is_free = {}
      /\ is_free' = is_free \ {i}
  BY MemPagesAssumption, NodeFacts
     DEF IInv, UnlinkInv, UnlinkPage, Run, Moved, TypeOK, ClearFlags
<1>2. AbsFree = is_free \cup (start .. (i - 1))
  BY <1>1, AbsFreeFacts
<1>3. CASE LastOfRun
  <2>1. /\ pc' = "idle" /\ ret' = [n |-> n, page |-> start]
        /\ blocks' = blocks \cup {[start |-> start, n |-> n]}
    BY <1>3 DEF UnlinkPage, Return
  <2>2. PA!Run(start, n) = (start .. (i - 1)) \cup {i}
    BY <1>1, <1>3 DEF PA!Run, LastOfRun
  <2>3. AbsFree' = AbsFree \ PA!Run(start, n)
    BY <1>1, <1>2, <2>1, <2>2, AbsFreeFactsPrime
  <2>4. PA!FirstRun(AbsFree, start, n)
    BY <1>1 DEF IInv, UnlinkInv
  <2>5. start \in AbsFree
    BY <1>1, <1>2
  <2>6. PA!AllocRun(n)
    BY <2>1, <2>3, <2>4, <2>5 DEF PA!AllocRun
  <2> QED BY <1>1, <2>6 DEF PA!Next
<1>4. CASE ~LastOfRun
  <2>1. pc' = "unlink" /\ i' = i + 1 /\ UNCHANGED <<start, blocks, ret>>
    BY <1>1, <1>4 DEF UnlinkPage
  <2>2. AbsFree' = AbsFree
    BY <1>1, <1>2, <2>1, AbsFreeFactsPrime
  <2> QED BY <2>1, <2>2 DEF PA!absvars
<1> QED BY <1>3, <1>4

\* The last iteration of the linking loop is PageAlloc's return of the block.
LEMMA LinkAbs == IInv /\ LinkPage => PA!Next \/ UNCHANGED PA!absvars
<1> SUFFICES ASSUME IInv, LinkPage PROVE PA!Next \/ UNCHANGED PA!absvars
  OBVIOUS
<1> DEFINE b1 == [start |-> start, n |-> n]
<1>1. /\ pc = "link" /\ n \in 2 .. MaxBlock /\ b1 \in blocks /\ i \in Run(start, n)
      /\ (i .. (start + n - 1)) \cap is_free = {} /\ Moved \subseteq is_free
      /\ is_free' = is_free \cup {i} /\ ret' = ret
  BY DEF IInv, LinkInv, LinkPage, LinkFront, SetFlags
<1>2. start \in Nat /\ n \in Nat /\ i \in Nat
  BY <1>1, MemPagesAssumption DEF IInv, TypeOK, Block, Page
<1>3. start <= i /\ i < start + n
  BY <1>1, <1>2 DEF Run
<1>4. Moved = start .. (i - 1)
  BY <1>1 DEF Moved
<1>5. AbsFree = is_free \ (start .. (i - 1))
  BY <1>1, AbsFreeFacts
<1>6. CASE LastOfRun
  <2>1. pc' = "idle" /\ blocks' = blocks \ {b1}
    BY <1>6 DEF LinkPage, Return
  <2>2. PA!Run(start, n) = (start .. (i - 1)) \cup {i}
    BY <1>2, <1>3, <1>6 DEF PA!Run, LastOfRun
  <2>3. AbsFree' = AbsFree \cup PA!Run(start, n)
    BY <1>1, <1>4, <1>5, <2>1, <2>2, AbsFreeFactsPrime
  <2>4. PA!Release(b1)
    BY <1>1, <2>1, <2>3 DEF PA!Release
  <2> QED BY <1>1, <2>4 DEF PA!Next
<1>7. CASE ~LastOfRun
  <2>1. pc' = "link" /\ i' = i + 1 /\ UNCHANGED <<start, blocks>>
    BY <1>1, <1>7 DEF LinkPage
  <2>2. i \notin is_free
    BY <1>1, <1>2, <1>3
  <2>3. AbsFree' = AbsFree
    BY <1>1, <1>2, <1>3, <1>5, <2>1, <2>2, AbsFreeFactsPrime
  <2> QED BY <1>1, <2>1, <2>3 DEF PA!absvars
<1> QED BY <1>6, <1>7

\* Every step of the allocator is a step of PageAlloc or changes nothing in it.
LEMMA NextAbs == IInv /\ [Next]_vars => [PA!Next]_(PA!absvars)
<1> SUFFICES ASSUME IInv, [Next]_vars PROVE PA!Next \/ UNCHANGED PA!absvars
  OBVIOUS
<1>1. CASE Collect
  BY <1>1, CollectAbs
<1>2. CASE Call
  BY <1>2, CallAbs
<1>3. CASE Step
  BY <1>3, ScanAbs, UnlinkAbs, LinkAbs DEF Step
<1>4. CASE UNCHANGED vars
  <2>1. UNCHANGED <<is_free, blocks, pc, i, start, ret>>
    BY <1>4 DEF vars, flags, locals
  <2>2. AbsFree' = AbsFree
    BY <2>1 DEF AbsFree, Moved
  <2> QED BY <2>1, <2>2 DEF PA!absvars
<1> QED BY <1>1, <1>2, <1>3, <1>4 DEF Next

\* The linked list of allocator.cc implements the abstract allocator: AllocPage
\* answers NULL exactly when at most one page is free, AllocPages returns the
\* first run that fits or NULL when none does, and the two release calls give
\* back exactly the block.
THEOREM Refinement == Spec => ImplementsPageAlloc
<1>1. Spec => PA!Spec
  BY InitAbs, NextAbs, Invariance, PTL DEF Spec, PA!Spec
<1> QED BY <1>1 DEF ImplementsPageAlloc
=============================================================================
