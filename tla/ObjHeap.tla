------------------------------ MODULE ObjHeap -------------------------------
(***************************************************************************)
(* What Alloc and Free of kern/mm/uslab.h promise their callers: memory of *)
(* the size asked for that nobody else has, where it was until it is       *)
(* freed.  That Alloc may fail is a step that changes nothing.             *)
(***************************************************************************)
EXTENDS Integers

CONSTANTS MemSize,    \* bytes of memory
          Sizes       \* sizes that are asked for

VARIABLE regions      \* what callers hold: [start, size]

Apart(r, q) == r.start + r.size <= q.start \/ q.start + q.size <= r.start

Init == regions = {}

Alloc ==
  \E r \in regions' \ regions :
    /\ regions' = regions \cup {r}
    /\ r.size \in Sizes
    /\ r.start >= 0 /\ r.start + r.size <= MemSize
    /\ \A q \in regions : Apart(r, q)

Free == \E r \in regions : regions' = regions \ {r}

Next == Alloc \/ Free

Spec == Init /\ [][Next]_regions
=============================================================================
