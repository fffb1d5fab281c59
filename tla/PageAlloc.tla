----------------------------- MODULE PageAlloc -----------------------------
(***************************************************************************)
(* What MemPages (kern/mm/allocator.h) promises its callers, without the   *)
(* intrusive list: a set of free pages and the blocks handed out.          *)
(*                                                                         *)
(*   - a single page is handed out only while at least two pages are free: *)
(*     AllocPage compares alloc_next with alloc_prev of the list head, and *)
(*     they are equal for a list of one page as well as for an empty list; *)
(*   - a run of k >= 2 pages is the first run of k consecutive free pages; *)
(*   - NULL is returned exactly when the request cannot be met;            *)
(*   - a block comes back whole.                                           *)
(***************************************************************************)
EXTENDS Integers

CONSTANTS Usable,     \* the pages that are free once memory is collected
          MaxBlock    \* bound on the length of a run a client asks for

VARIABLES free,       \* pages that can be handed out
          blocks,     \* blocks in the hands of clients, [start, n]
          ret         \* the last answer: how many pages were asked for, and the page

absvars == <<free, blocks, ret>>

NULL == -2

Run(s, k) == s .. (s + k - 1)

\* The first place where k consecutive pages are free.
FirstRun(F, s, k) ==
  /\ Run(s, k) \subseteq F
  /\ \A t \in F : t < s => ~(Run(t, k) \subseteq F)

Init ==
  /\ free = Usable
  /\ blocks = {}
  /\ ret = [n |-> 0, page |-> NULL]

AllocOne ==
  \E p \in free :
    /\ free # {p}
    /\ free' = free \ {p}
    /\ blocks' = blocks \cup {[start |-> p, n |-> 1]}
    /\ ret' = [n |-> 1, page |-> p]

AllocRun(k) ==
  \E s \in free :
    /\ FirstRun(free, s, k)
    /\ free' = free \ Run(s, k)
    /\ blocks' = blocks \cup {[start |-> s, n |-> k]}
    /\ ret' = [n |-> k, page |-> s]

AllocFail(k) ==
  /\ IF k = 1
       THEN \A p, q \in free : p = q
       ELSE \A s \in free : ~(Run(s, k) \subseteq free)
  /\ ret' = [n |-> k, page |-> NULL]
  /\ UNCHANGED <<free, blocks>>

Release(b) ==
  /\ free' = free \cup Run(b.start, b.n)
  /\ blocks' = blocks \ {b}
  /\ UNCHANGED ret

Next ==
  \/ AllocOne
  \/ \E k \in 2 .. MaxBlock : AllocRun(k)
  \/ \E k \in 1 .. MaxBlock : AllocFail(k)
  \/ \E b \in blocks : Release(b)

Spec == Init /\ [][Next]_absvars
=============================================================================
