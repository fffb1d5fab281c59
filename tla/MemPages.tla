------------------------------ MODULE MemPages ------------------------------
(***************************************************************************)
(* kern/mm/allocator.{h,cc}: the physical page allocator.                  *)
(*                                                                         *)
(* The page structs are the numbers 0 .. NrPageStructs-1 (the index into   *)
(* page_structs), &page_head is -1.  The free list is kept exactly as      *)
(* the code keeps it: two pointer fields per struct and two flags.  The    *)
(* two loops of AllocPages and the loop of FreePages run one iteration per *)
(* step; nothing else runs meanwhile (the allocator is called with         *)
(* interrupts off, on one CPU).                                            *)
(***************************************************************************)
EXTENDS Integers, Sequences

CONSTANTS NrPageStructs,  \* nr_page_structs
          BootPages,      \* the pages CollectAvailable links, in the order it meets them
          MaxBlock        \* bound: the longest run a client asks for

Page == 0 .. (NrPageStructs - 1)

\* A page met twice (two available entries sharing a page) is excluded here;
\* n <= nr_page_structs keeps the u64 difference nr_page_structs - n from wrapping.
ASSUME MemPagesAssumption ==
  /\ NrPageStructs \in Nat \ {0}
  /\ BootPages \in Seq(Page)
  /\ BootPages # << >>
  /\ \A j, k \in 1 .. Len(BootPages) : BootPages[j] = BootPages[k] => j = k
  /\ MaxBlock \in 1 .. NrPageStructs

VARIABLES alloc_next,     \* alloc_next of every page struct and of page_head
          alloc_prev,     \* alloc_prev, likewise
          is_free,        \* the pages whose is_free flag is set
          is_in_list,     \* the pages whose is_in_list flag is set
          blocks,         \* the blocks in the hands of clients, [start, n]
          pc,             \* the loop in progress, "idle" between calls
          n, i, start,    \* the locals of that loop
          ret             \* the last answer: the number of pages asked for, and the page

links == <<alloc_next, alloc_prev>>
flags == <<is_free, is_in_list>>
locals == <<pc, n, i, start>>
vars == <<links, flags, blocks, locals, ret>>

page_head == -1           \* &page_head
NULL == -2
Node == Page \cup {page_head}
Usable == {BootPages[k] : k \in 1 .. Len(BootPages)}
Run(s, k) == s .. (s + k - 1)
Block == [start : Page, n : 1 .. MaxBlock]
Pages(b) == Run(b.start, b.n)

\* A return to the caller: the locals are gone.
Return == pc' = "idle" /\ n' = 0 /\ i' = 0 /\ start' = -1

SetFlags(S) ==
  /\ is_free' = is_free \cup S
  /\ is_in_list' = is_in_list \cup S

\* is_free stays set when a page leaves the list.
ClearFlagsHalf(S) ==
  /\ is_in_list' = is_in_list \ S
  /\ UNCHANGED is_free

ClearFlags(S) ==
  /\ is_free' = is_free \ S
  /\ is_in_list' = is_in_list \ S

-----------------------------------------------------------------------------
(* MemPages::CollectAvailable: memset of the structs, then one iteration   *)
(* per page that is outside the kernel image and the page structs.         *)

Init ==
  /\ alloc_next = [x \in Node |-> NULL]
  /\ alloc_prev = [x \in Node |-> NULL]
  /\ is_free = {}
  /\ is_in_list = {}
  /\ blocks = {}
  /\ pc = "collect" /\ n = 0 /\ i = 1 /\ start = -1
  /\ ret = [n |-> 0, page |-> NULL]

last_page == IF i = 1 THEN page_head ELSE BootPages[i - 1]

CollectPage ==
  /\ pc = "collect"
  /\ i <= Len(BootPages)
  /\ LET pg == BootPages[i]
     IN  /\ alloc_next' = [alloc_next EXCEPT ![pg] = page_head, ![last_page] = pg]
         /\ alloc_prev' = [alloc_prev EXCEPT ![pg] = last_page, ![page_head] = pg]
         /\ SetFlags({pg})
  /\ i' = i + 1
  /\ UNCHANGED <<blocks, pc, n, start, ret>>

CollectDone ==
  /\ pc = "collect"
  /\ i > Len(BootPages)
  /\ Return
  /\ UNCHANGED <<links, flags, blocks, ret>>

-----------------------------------------------------------------------------
(* AllocPage and FreePage: one end of the list, no loop.                   *)

\* The test AllocPage makes; it also holds of a list of one page.
NothingToTake == alloc_next[page_head] = alloc_prev[page_head]

AllocPageNull ==
  /\ pc = "idle"
  /\ NothingToTake
  /\ ret' = [n |-> 1, page |-> NULL]
  /\ UNCHANGED <<links, flags, blocks, locals>>

AllocPage ==
  /\ pc = "idle"
  /\ ~NothingToTake
  /\ LET pg == alloc_next[page_head]
         nx == alloc_next[pg]
     IN  /\ alloc_next' = [alloc_next EXCEPT ![page_head] = nx]
         /\ alloc_prev' = [alloc_prev EXCEPT ![nx] = page_head]
         /\ ClearFlags({pg})
         /\ blocks' = blocks \cup {[start |-> pg, n |-> 1]}
         /\ ret' = [n |-> 1, page |-> pg]
  /\ UNCHANGED locals

\* The body of LinkFront without the store to the old first page's alloc_prev.
LinkFrontOneWay(pg) ==
  /\ alloc_next' = [alloc_next EXCEPT ![pg] = alloc_next[page_head], ![page_head] = pg]
  /\ alloc_prev' = [alloc_prev EXCEPT ![pg] = page_head]
  /\ SetFlags({pg})

\* The page becomes a list of its own and never joins the free list.
LinkFrontSelf(pg) ==
  /\ alloc_next' = [alloc_next EXCEPT ![pg] = pg]
  /\ alloc_prev' = [alloc_prev EXCEPT ![pg] = pg]
  /\ SetFlags({pg})

\* pg goes to the front of the list: the body of FreePage and of FreePages' loop.
LinkFront(pg) ==
  /\ alloc_next' = [alloc_next EXCEPT ![pg] = alloc_next[page_head], ![page_head] = pg]
  /\ alloc_prev' = [alloc_prev EXCEPT ![alloc_next[page_head]] = pg, ![pg] = page_head]
  /\ SetFlags({pg})

FreePage(pg) ==
  /\ pc = "idle"
  /\ [start |-> pg, n |-> 1] \in blocks
  /\ LinkFront(pg)
  /\ blocks' = blocks \ {[start |-> pg, n |-> 1]}
  /\ UNCHANGED <<locals, ret>>

-----------------------------------------------------------------------------
(* AllocPages: scan page_structs for n consecutive free pages, then unlink *)
(* them one by one.  AllocPages(1) is AllocPage.                           *)

AllocPages(k) ==
  /\ pc = "idle"
  /\ pc' = "scan" /\ n' = k /\ i' = 0 /\ start' = -1
  /\ UNCHANGED <<links, flags, blocks, ret>>

\* What follows the scanning loop, left with the given value of start.
LeaveScan(s) ==
  IF s = -1
    THEN Return /\ ret' = [n |-> n, page |-> NULL]
    ELSE pc' = "unlink" /\ i' = s /\ start' = s /\ UNCHANGED <<n, ret>>

\* continue before i++: the scan never gets past a page in use.
ScanUsedStuck ==
  /\ pc = "scan" /\ i < NrPageStructs
  /\ i \notin is_free
  /\ start' = -1
  /\ UNCHANGED <<links, flags, blocks, pc, n, i, ret>>

ScanUsed ==
  /\ pc = "scan" /\ i < NrPageStructs
  /\ i \notin is_free
  /\ start' = -1
  /\ i' = i + 1
  /\ UNCHANGED <<links, flags, blocks, pc, n, ret>>

\* i >= nr_page_structs - n: gives up on the last place that would fit.
NoRoomEarly == start = -1 /\ i >= NrPageStructs - n

\* i > nr_page_structs - n + 1: a run may start one page too late to fit.
NoRoomLate == start = -1 /\ i > NrPageStructs - n + 1

NoRoom == start = -1 /\ i > NrPageStructs - n

ScanNoRoom ==
  /\ pc = "scan" /\ i < NrPageStructs
  /\ i \in is_free
  /\ NoRoom
  /\ LeaveScan(-1)
  /\ UNCHANGED <<links, flags, blocks>>

RunStart == IF start = -1 THEN i ELSE start

ScanFree ==
  /\ pc = "scan" /\ i < NrPageStructs
  /\ i \in is_free
  /\ ~NoRoom
  /\ IF i = RunStart + n - 1
       THEN LeaveScan(RunStart)
       ELSE /\ start' = RunStart
            /\ i' = i + 1
            /\ UNCHANGED <<pc, n, ret>>
  /\ UNCHANGED <<links, flags, blocks>>

ScanEnd ==
  /\ pc = "scan" /\ i = NrPageStructs
  /\ LeaveScan(start)
  /\ UNCHANGED <<links, flags, blocks>>

LastOfRun == i + 1 = start + n

UnlinkPage ==
  /\ pc = "unlink"
  /\ alloc_next' = [alloc_next EXCEPT ![alloc_prev[i]] = alloc_next[i]]
  /\ alloc_prev' = [alloc_prev EXCEPT ![alloc_next[i]] = alloc_prev[i]]
  /\ ClearFlags({i})
  /\ IF LastOfRun
       THEN /\ Return
            /\ blocks' = blocks \cup {[start |-> start, n |-> n]}
            /\ ret' = [n |-> n, page |-> start]
       ELSE /\ i' = i + 1
            /\ UNCHANGED <<pc, n, start, blocks, ret>>

(* FreePages: every page of the block to the front of the list.            *)
FreePages(b) ==
  /\ pc = "idle"
  /\ b.n > 1
  /\ pc' = "link" /\ n' = b.n /\ i' = b.start /\ start' = b.start
  /\ UNCHANGED <<links, flags, blocks, ret>>

LinkPage ==
  /\ pc = "link"
  /\ LinkFront(i)
  /\ IF LastOfRun
       THEN /\ Return
            /\ blocks' = blocks \ {[start |-> start, n |-> n]}
       ELSE /\ i' = i + 1
            /\ UNCHANGED <<pc, n, start, blocks>>
  /\ UNCHANGED ret

Collect == CollectPage \/ CollectDone
Step == ScanUsed \/ ScanNoRoom \/ ScanFree \/ ScanEnd \/ UnlinkPage \/ LinkPage
Call ==
  \/ AllocPageNull
  \/ AllocPage
  \/ \E pg \in Page : FreePage(pg)
  \/ \E k \in 2 .. MaxBlock : AllocPages(k)
  \/ \E b \in blocks : FreePages(b)

Next == Collect \/ Call \/ Step

Spec == Init /\ [][Next]_vars

\* The code runs to the end of a call it has begun; callers owe nothing.
FairSpec == Spec /\ WF_vars(Collect) /\ WF_vars(Step)

-----------------------------------------------------------------------------
(* Properties *)

\* nx and pv are inverse to each other on R.
Inverse(nx, pv, R) ==
  \A x \in R : /\ nx[x] \in R /\ pv[x] \in R
               /\ pv[nx[x]] = x
               /\ nx[pv[x]] = x

\* Following nx from any element of L leaves every subset of L.
Leaves(nx, L) == \A S \in SUBSET L : S # {} => \E p \in S : nx[p] \notin S

Collected == pc # "collect" \/ is_in_list # {}

\* The pages of the block in progress that the loop has already moved.
Moved == IF pc \in {"unlink", "link"} THEN start .. (i - 1) ELSE {}

\* Type invariant: the fields hold page structs, and the locals stay in the
\* range of their loop (page_structs is never indexed past its end).
TypeOK ==
  /\ alloc_next \in [Node -> Node \cup {NULL}]
  /\ alloc_prev \in [Node -> Node \cup {NULL}]
  /\ is_free \in SUBSET Page
  /\ is_in_list \in SUBSET Page
  /\ blocks \in SUBSET Block
  /\ pc \in {"collect", "idle", "scan", "unlink", "link"}
  /\ n \in 0 .. MaxBlock
  /\ i \in Nat
  /\ pc \in {"idle", "scan"} => i <= NrPageStructs
  /\ pc \in {"unlink", "link"} => i \in Page
  /\ start \in Page \cup {-1}
  /\ ret \in [n : 0 .. MaxBlock, page : Page \cup {NULL}]

\* alloc_next and alloc_prev of the listed pages and of page_head are inverse
\* to each other and stay among them: no call leaves a half-linked page, and no
\* listed page points at one that has been handed out.
DoublyLinked ==
  Collected => Inverse(alloc_next, alloc_prev, is_in_list \cup {page_head})

\* The listed pages form one ring through page_head: every set of listed pages
\* has a page whose alloc_next leaves the set, so following alloc_next from any
\* listed page reaches page_head and no free page is cut off from it.
OneRing == Leaves(alloc_next, is_in_list)

\* The two flags agree, no page is in two hands, a page on the free list is in
\* nobody's hands, and no usable page is lost, also half-way through the loops
\* of AllocPages and FreePages.
Accounted ==
  /\ is_free = is_in_list
  /\ \A b, c \in blocks : \A p \in Pages(b) \cap Pages(c) : b = c
  /\ \A b \in blocks : \A p \in Pages(b) \cap is_free : pc = "link" /\ p \in Moved
  /\ pc # "collect" =>
       \A p \in Page :
         p \in Usable <=> \/ p \in is_free
                          \/ \E b \in blocks : p \in Pages(b)
                          \/ pc = "unlink" /\ p \in Moved

\* The free pages as a caller sees them: a call takes effect when it returns.
AbsFree ==
  CASE pc = "collect" -> Usable
    [] pc = "unlink"  -> is_free \cup Moved
    [] pc = "link"    -> is_free \ Moved
    [] OTHER          -> is_free

PA == INSTANCE PageAlloc WITH free <- AbsFree

\* The linked list and the scanning loop implement the page allocator of
\* PageAlloc: the last page is withheld from AllocPage, AllocPages returns the
\* first run that fits, and NULL is returned only when there is none.
ImplementsPageAlloc == PA!Spec

\* Every call returns: the loops of AllocPages and FreePages end.
CallsReturn == (pc # "idle") ~> (pc = "idle")

-----------------------------------------------------------------------------
(* The inductive invariant: what each loop has established so far.         *)

CollectInv ==
  pc = "collect" =>
    /\ i \in 1 .. (Len(BootPages) + 1)
    /\ is_in_list = {BootPages[k] : k \in 1 .. (i - 1)}
    /\ blocks = {}
    /\ i > 1 => alloc_prev[page_head] = BootPages[i - 1]

\* No run starts before the one being counted, which is free so far.
ScanInv ==
  pc = "scan" =>
    /\ n \in 2 .. MaxBlock
    /\ i \in 0 .. NrPageStructs
    /\ start # -1 =>
         /\ start < i /\ i < start + n /\ start + n <= NrPageStructs
         /\ start .. (i - 1) \subseteq is_free
    /\ \A t \in is_free :
         t < (IF start = -1 THEN i ELSE start) => ~(Run(t, n) \subseteq is_free)

UnlinkInv ==
  pc = "unlink" =>
    /\ n \in 2 .. MaxBlock
    /\ start \in Page /\ start + n <= NrPageStructs
    /\ i \in Run(start, n)
    /\ i .. (start + n - 1) \subseteq is_free
    /\ Moved \cap is_free = {}
    /\ \A b \in blocks : Pages(b) \cap Run(start, n) = {}
    /\ PA!FirstRun(AbsFree, start, n)

LinkInv ==
  pc = "link" =>
    /\ n \in 2 .. MaxBlock
    /\ [start |-> start, n |-> n] \in blocks
    /\ i \in Run(start, n)
    /\ (i .. (start + n - 1)) \cap is_free = {}
    /\ Moved \subseteq is_free

BlocksFit == \A b \in blocks : b.start + b.n <= NrPageStructs

IInv ==
  /\ TypeOK /\ DoublyLinked /\ OneRing /\ Accounted
  /\ CollectInv /\ ScanInv /\ UnlinkInv /\ LinkInv /\ BlocksFit
=============================================================================
