------------------------------ MODULE SlabHeap ------------------------------
(***************************************************************************)
(* kern/mm/uslab.cc: Alloc and Free, the chunk caches, and the cache of    *)
(* slab headers behind them.                                               *)
(*                                                                         *)
(* A MetaSlab is a page whose slots 1 .. MetaSlots are slab headers; it is *)
(* named <<page, 0>> and the header in its slot k <<page, k>>.  A header   *)
(* in use owns a data page with the objects.  The pages come from the free *)
(* list of MemPages, and inside a slab objects are picked as in            *)
(* SlabObjs.  Calls do not interleave: one CPU, interrupts off.            *)
(***************************************************************************)
EXTENDS Integers, Sequences, SequencesExt, FiniteSets, FiniteSetsExt

CONSTANTS NrPages,    \* pages the heap may use: 0 .. NrPages-1
          MetaSlots,  \* headers in a MetaSlab: 63
          Requests,   \* sizes a client asks for
          MaxPg       \* bound: max_pg of a cache is 0 .. MaxPg (0 in the kernel)

\* No size has its clz(0) asked, and the pages of the largest fit slab_obj_size, an int.
ASSUME HeapAssumption ==
  /\ NrPages \in Nat /\ MetaSlots \in Nat \ {0} /\ MaxPg \in Nat
  /\ \A size \in Requests : size \in Nat /\ 2 <= size /\ size <= 2147479552

VARIABLES free,          \* the pages on MemPages' list, in list order
          slab_ptr,      \* of every struct Page
          slab_obj_size, \* of every struct Page
          data_page,     \* of every slab header in use
          used,          \* slots of a slab in use, for every slab that exists
          queue,         \* slab_queue of every cache
          stat,          \* stat of every cache
          held,          \* what clients hold: [page, idx, size]
          leaked,        \* data pages whose header was given back
          null_deref     \* a NULL Page was dereferenced: the kernel faults

pages == <<free, slab_ptr, slab_obj_size>>
vars == <<pages, data_page, used, queue, stat, held, leaked, null_deref>>

PAGESIZE == 4096
Page == 0 .. (NrPages - 1)
Slab == Page \X (0 .. MetaSlots)
META == 0                                  \* meta_slab_cache
Chunk == {16, 32, 64, 128, 256, 512, 1024, 2048}   \* chunk16_cache .. chunk2048_cache
Cache == Chunk \cup {META}
Kind == {"full", "half", "empty"}
NoPage == -2

\* 1 << b
Bit == [b \in 0 .. 31 |-> 2 ^ b]

\* floor(log2): one cache too small for a size between two powers.
FitLow(size) ==
  LET len == CHOOSE b \in 0 .. 30 : Bit[b] <= size /\ size < Bit[b + 1]
  IN  16 * Bit[IF len < 4 THEN 0 ELSE len - 4]

\* FitGlobalMemCache: idx = 32 - clz(size - 1) - 4, at least 0; clz(0) is not asked.
Fit(size) ==
  LET len == CHOOSE b \in 0 .. 31 : size - 1 < Bit[b] /\ (b = 0 \/ Bit[b - 1] <= size - 1)
  IN  16 * Bit[IF len < 4 THEN 0 ELSE len - 4]

\* (obj_size - 1) / PAGESIZE + 1
NrPage(size) == (size - 1) \div PAGESIZE + 1

\* Objects of a slab: BitmapSlab has a usable bit for half of its page.
Slots(c) ==
  IF c = META THEN 1 .. MetaSlots
  ELSE 0 .. ((IF c <= 64 THEN PAGESIZE \div 2 ELSE PAGESIZE) \div c - 1)

Init ==
  /\ free = [k \in 1 .. NrPages |-> k - 1]
  /\ slab_ptr = [p \in Page |-> << >>]
  /\ slab_obj_size = [p \in Page |-> 0]
  /\ data_page = [s \in Slab |-> NoPage]
  /\ used = [s \in Slab |-> {}]
  /\ queue = [c \in Cache |-> [k \in Kind |-> << >>]]
  /\ \E m \in 0 .. MaxPg :
       stat = [c \in Cache |-> [allocated |-> 0, slab_pg |-> 0, max_pg |-> m]]
  /\ held = {}
  /\ leaked = {}
  /\ null_deref = FALSE

-----------------------------------------------------------------------------
(* MemCache: the queues.                                                   *)

\* The queue is kept as it is: the slab stays where it was.
DeleteNothing(q, s) == q

\* slab->list_node()->Delete()
Delete(q, s) == [k \in Kind |-> RemoveFirst(q[k], s)]

InsertAfter(q, k, s) == [q EXCEPT ![k] = <<s>> \o @]

\* ReclaimEmptySlab returns false.
KeepsEmpty(c) == stat[c].slab_pg <= stat[c].max_pg

\* Where AdjustSlab puts a slab of cache c with the slots u in use.
Place(c, u) ==
  IF u = Slots(c) THEN "full" ELSE IF u = {} THEN "empty" ELSE "half"

\* What Allocate does about a slab: from a queue, or a new one.
Source(c) ==
  IF queue[c]["half"] # << >> THEN "half"
  ELSE IF queue[c]["empty"] # << >> THEN "empty" ELSE "new"

\* q with s in the queue of its new fill u, after Delete.
Requeue(c, s, u) == InsertAfter(Delete(queue[c], s), Place(c, u), s)

\* Allocate's counters, with a new slab or not.
Counted(c) ==
  [stat[c] EXCEPT !.allocated = @ + 1, !.slab_pg = IF Source(c) = "new" THEN @ + 1 ELSE @]

\* MemPages::AllocPage takes the first page of the list, but never the last one.
AllocPageNull(F) == Len(F) <= 1

-----------------------------------------------------------------------------
(* Alloc(size) for size <= 2048.                                           *)

\* From a slab of the cache.
AllocateQueued(c, size) ==
  /\ Source(c) # "new"
  /\ LET s == queue[c][Source(c)][1]
     IN  \E o \in Slots(c) \ used[s] :
           /\ used' = [used EXCEPT ![s] = @ \cup {o}]
           /\ queue' = [queue EXCEPT ![c] = Requeue(c, s, used'[s])]
           /\ held' = held \cup {[page |-> data_page[s], idx |-> o, size |-> size]}
  /\ stat' = [stat EXCEPT ![c] = Counted(c)]
  /\ UNCHANGED <<pages, data_page, leaked, null_deref>>

\* meta_slab_cache.Allocate takes a header from the MetaSlab it has queued, or
\* makes one of the first free page.
MetaPage ==
  IF Source(META) = "new" THEN Head(free) ELSE queue[META][Source(META)][1][1]

\* The page of the MetaSlab is handed out a second time.
AfterMetaShared == free

\* The free list after that.
AfterMeta == IF Source(META) = "new" THEN Tail(free) ELSE free

\* The struct Page of the data page is not told about its slab.
PageStructsMetaOnly(m, d, s, c) ==
  /\ slab_ptr' = [slab_ptr EXCEPT ![m] = <<m, 0>>]
  /\ slab_obj_size' = [slab_obj_size EXCEPT ![m] = 64, ![d] = c]

\* slab_ptr and slab_obj_size as MetaSlab::AllocSlab and BaseSlab::AllocSlab set them.
PageStructs(m, d, s, c) ==
  /\ slab_ptr' = [slab_ptr EXCEPT ![m] = <<m, 0>>, ![d] = s]
  /\ slab_obj_size' = [slab_obj_size EXCEPT ![m] = 64, ![d] = c]

\* No page for the MetaSlab, or none for the data.
NoMetaPage == Source(META) = "new" /\ AllocPageNull(free)
NoDataPage == AllocPageNull(AfterMeta)

\* From a new slab: a header of meta_slab_cache and a data page.
AllocateNew(c, size) ==
  /\ Source(c) = "new"
  /\ ~NoMetaPage /\ ~NoDataPage
  /\ LET m == MetaPage
         d == Head(AfterMeta)
     IN  \E k \in Slots(META) \ used[<<m, 0>>], o \in Slots(c) :
           /\ PageStructs(m, d, <<m, k>>, c)
           /\ data_page' = [data_page EXCEPT ![<<m, k>>] = d]
           /\ used' = [used EXCEPT ![<<m, 0>>] = @ \cup {k}, ![<<m, k>>] = {o}]
           /\ queue' = [queue EXCEPT ![META] = Requeue(META, <<m, 0>>, used'[<<m, 0>>]),
                                     ![c] = InsertAfter(@, Place(c, {o}), <<m, k>>)]
           /\ held' = held \cup {[page |-> d, idx |-> o, size |-> size]}
  /\ free' = Tail(AfterMeta)
  /\ stat' = [stat EXCEPT ![META] = Counted(META), ![c] = Counted(c)]
  /\ UNCHANGED <<leaked, null_deref>>

\* MetaSlab::AllocSlab stores through the NULL of AllocPage before anything changed.
AllocateNoMeta(c) ==
  /\ Source(c) = "new"
  /\ NoMetaPage
  /\ null_deref' = TRUE
  /\ UNCHANGED <<pages, data_page, used, queue, stat, held, leaked>>

\* BaseSlab::AllocSlab does so when it has taken the header: no cache queues it and
\* no page is its data, but its MetaSlab counts it.
AllocateNoData(c) ==
  /\ Source(c) = "new"
  /\ ~NoMetaPage /\ NoDataPage
  /\ LET m == MetaPage
     IN  \E k \in Slots(META) \ used[<<m, 0>>] :
           /\ slab_ptr' = [slab_ptr EXCEPT ![m] = <<m, 0>>]
           /\ slab_obj_size' = [slab_obj_size EXCEPT ![m] = 64]
           /\ used' = [used EXCEPT ![<<m, 0>>] = @ \cup {k}]
           /\ queue' = [queue EXCEPT ![META] = Requeue(META, <<m, 0>>, used'[<<m, 0>>])]
  /\ free' = AfterMeta
  /\ stat' = [stat EXCEPT ![META] = Counted(META)]
  /\ null_deref' = TRUE
  /\ UNCHANGED <<data_page, held, leaked>>

(* Alloc(size) for size > 2048: whole pages.                               *)

Run(p, n) == p .. (p + n - 1)

\* AllocPages(n): the first of the list for one page, else the first run by address.
Takes(p, n) ==
  IF n = 1 THEN ~AllocPageNull(free) /\ p = Head(free)
  ELSE /\ Run(p, n) \subseteq ToSet(free)
       /\ \A q \in ToSet(free) : q < p => ~(Run(q, n) \subseteq ToSet(free))

\* F without the pages of R, in its order.
Without(F, R) ==
  LET kept == {k \in DOMAIN F : F[k] \notin R}
      rank(k) == Cardinality({j \in kept : j <= k})
  IN  [n \in 1 .. Cardinality(kept) |-> F[CHOOSE k \in kept : rank(k) = n]]

AllocLarge(size) ==
  /\ \E p \in ToSet(free) :
       /\ Takes(p, NrPage(size))
       /\ free' = Without(free, Run(p, NrPage(size)))
       /\ slab_obj_size' = [slab_obj_size EXCEPT ![p] = NrPage(size) * PAGESIZE]
       /\ held' = held \cup {[page |-> p, idx |-> 0, size |-> size]}
  /\ UNCHANGED <<slab_ptr, data_page, used, queue, stat, leaked, null_deref>>

AllocLargeNull(size) ==
  /\ ~\E p \in ToSet(free) : Takes(p, NrPage(size))
  /\ null_deref' = TRUE
  /\ UNCHANGED <<pages, data_page, used, queue, stat, held, leaked>>

Alloc(size) ==
  /\ ~null_deref
  /\ \/ size > 2048 /\ (AllocLarge(size) \/ AllocLargeNull(size))
     \/ size <= 2048 /\ \/ AllocateQueued(Fit(size), size)
                        \/ AllocateNew(Fit(size), size)
                        \/ AllocateNoMeta(Fit(size))
                        \/ AllocateNoData(Fit(size))

-----------------------------------------------------------------------------
(* Free(ptr), with the cache and the slab found through the struct Page.   *)

\* FreeObj's counter, when the slab stays.
Freed(c) == [stat[c] EXCEPT !.allocated = @ - 1]

\* The slab stays in the cache, in the queue of its new fill.
FreeKept(b, c, s) ==
  /\ Place(c, used[s] \ {b.idx}) = "empty" => KeepsEmpty(c)
  /\ used' = [used EXCEPT ![s] = @ \ {b.idx}]
  /\ queue' = [queue EXCEPT ![c] = Requeue(c, s, used'[s])]
  /\ stat' = [stat EXCEPT ![c] = Freed(c)]
  /\ UNCHANGED <<pages, data_page, leaked>>

\* The MetaSlab of the header given back: kept, or its page freed.
MetaFreed(m, u) == u = {} /\ ~KeepsEmpty(META)

\* The counter is forgotten when the slab goes.
ReclaimedUncounted(c) == Freed(c)

Reclaimed(c) == [stat[c] EXCEPT !.allocated = @ - 1, !.slab_pg = @ - 1]

\* The slab is reclaimed: its header goes back to meta_slab_cache; nobody
\* gives its data page back to MemPages.
FreeReclaimed(b, c, s) ==
  LET m == s[1]
      u == used[<<m, 0>>] \ {s[2]}
  IN  /\ Place(c, used[s] \ {b.idx}) = "empty" /\ ~KeepsEmpty(c)
      /\ used' = [used EXCEPT ![s] = {}, ![<<m, 0>>] = u]
      /\ leaked' = leaked \cup {data_page[s]}
      /\ data_page' = [data_page EXCEPT ![s] = NoPage]
      /\ queue' = [queue EXCEPT ![c] = Delete(@, s),
                                ![META] = IF MetaFreed(m, u) THEN Delete(@, <<m, 0>>)
                                          ELSE Requeue(META, <<m, 0>>, u)]
      /\ stat' = [stat EXCEPT ![c] = Reclaimed(c),
                              ![META] = IF MetaFreed(m, u) THEN Reclaimed(META)
                                        ELSE Freed(META)]
      /\ free' = IF MetaFreed(m, u) THEN <<m>> \o free ELSE free
      /\ UNCHANGED <<slab_ptr, slab_obj_size>>

\* FreePages links the n pages in front, the last one foremost.
FreeLarge(b) ==
  LET n == slab_obj_size[b.page] \div PAGESIZE
  IN  /\ free' = [k \in 1 .. n |-> b.page + n - k] \o free
      /\ UNCHANGED <<slab_ptr, slab_obj_size, data_page, used, queue, stat, leaked>>

Free(b) ==
  /\ ~null_deref
  /\ held' = held \ {b}
  /\ UNCHANGED null_deref
  /\ LET size == slab_obj_size[b.page]
         s == slab_ptr[b.page]
     IN  \/ size > 2048 /\ FreeLarge(b)
         \/ size <= 2048 /\ (FreeKept(b, Fit(size), s) \/ FreeReclaimed(b, Fit(size), s))

Next ==
  \/ \E size \in Requests : Alloc(size)
  \/ \E b \in held : Free(b)

Spec == Init /\ [][Next]_vars

-----------------------------------------------------------------------------
(* Properties *)

Queued(c) == UNION {ToSet(queue[c][k]) : k \in Kind}
Objects(c) == UNION {{s} \X used[s] : s \in Queued(c)}
MetaPages == {s[1] : s \in Queued(META)}
LargePages ==
  UNION {Run(b.page, slab_obj_size[b.page] \div PAGESIZE) :
           b \in {x \in held : slab_obj_size[x.page] > 2048}}

\* A page has exactly one role: free, slab headers, the data of one slab of one
\* cache, part of a large allocation, or leaked by BaseSlab::FreeSlab.
PagesAccounted ==
  \A p \in Page :
    LET roles == {r \in {"free", "meta", "large", "leaked"} :
                    p \in CASE r = "free" -> ToSet(free)
                           [] r = "meta" -> MetaPages
                           [] r = "large" -> LargePages
                           [] r = "leaked" -> leaked}
        slabs == UNION {{c} \X {s \in Queued(c) : data_page[s] = p} : c \in Chunk}
    IN  Cardinality(roles) + Cardinality(slabs) = 1

\* Every slab is in one queue of its cache, the one that says how full it is,
\* once; and a slab header is queued exactly while its MetaSlab counts it, up to
\* the fault that leaves one header without a data page.
QueuesMatch ==
  /\ \A c \in Cache : \A k \in Kind : \A j \in 1 .. Len(queue[c][k]) :
       LET s == queue[c][k][j]
       IN  /\ Place(c, used[s]) = k
           /\ \A l \in 1 .. Len(queue[c][k]) : queue[c][k][l] = s => l = j
  /\ ~null_deref => \A s \in Queued(META) :
       used[s] = {k \in Slots(META) : \E c \in Chunk : <<s[1], k>> \in Queued(c)}

\* stat.slab_pg and stat.allocated, which ReclaimEmptySlab and PrintStat go by,
\* are the slabs and the objects there are.
StatExact ==
  \A c \in Cache :
    /\ stat[c].slab_pg = Cardinality(Queued(c))
    /\ stat[c].allocated = Cardinality(Objects(c))

\* Free finds its way back: the struct Page of a held object leads to the slab
\* that handed it out, in the cache that handed it out, with the slot in use;
\* and every slot in use is held by somebody.
HeldFound ==
  /\ \A b \in {x \in held : slab_obj_size[x.page] <= 2048} :
       LET s == slab_ptr[b.page]
           c == Fit(slab_obj_size[b.page])
       IN  s \in Queued(c) /\ data_page[s] = b.page /\ b.idx \in used[s]
  /\ \A c \in Chunk : \A s \in Queued(c) : \A o \in used[s] :
       \E b \in held : b.page = data_page[s] /\ b.idx = o

\* A held object begins at its slot of the page.
Region(sizes, b) == [start |-> b.page * PAGESIZE + b.idx * sizes[b.page], size |-> b.size]
Regions == {Region(slab_obj_size, b) : b \in held}

OH == INSTANCE ObjHeap WITH MemSize <- NrPages * PAGESIZE, Sizes <- Requests, regions <- Regions

\* The heap implements ObjHeap: every object has room for what was asked of Alloc, is
\* apart from all others of whatever cache, and does not move or vanish when
\* others are allocated or freed and slabs come and go.
ImplementsHeap == OH!Spec
=============================================================================
