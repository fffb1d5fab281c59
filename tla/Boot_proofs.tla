---------------------------- MODULE Boot_proofs ----------------------------
(***************************************************************************)
(* The invariants of Boot for every memory map of whole pages,             *)
(* any kernel image and any size of the tables: what CollectAvailable      *)
(* links, that the tables are a tree of pages of their own, and what they  *)
(* translate.                                                              *)
(***************************************************************************)
EXTENDS Boot, SequenceTheorems, TLAPS

MapEntry == [addr : Nat, len : Nat, type : {"available", "reserved", "acpi", "bad"}]
TheMap == info[MemoryMap(info)].entries

Early == {"kernel_main", "tags", "init"}               \* no page is collected yet
Mapping == {"entries", "map", "installed"}             \* the tables are built or in use
Stopped == {"panic", "fault", "null", "refused", "scribble"}

\* What the boot loader passes lists memory of whole pages.
GoodInfos == {tags \in Infos : WholePages(tags)}

TypeOK ==
  /\ info \in GoodInfos
  /\ pc \in Early \cup {"collect", "done"} \cup Mapping \cup Stopped
  /\ boot_mem_map \in Seq(MapEntry)
  /\ max_kern_mem \in Nat /\ max_phy \in Nat /\ nr_page_structs \in Nat
  /\ i \in Nat /\ i >= 1 /\ paddr \in Int
  /\ list \in Seq(Nat)

\* The memory map of tag k, or none, is the latest of the first n - 1 tags.
Latest(k, n) ==
  /\ k < n
  /\ IF k = 0 THEN boot_mem_map = << >>
     ELSE info[k].type = "mmap" /\ boot_mem_map = info[k].entries
  /\ \A j \in 1 .. Len(info) : k < j /\ j < n => info[j].type # "mmap"

ParseInv ==
  /\ pc = "kernel_main" => boot_mem_map = << >>
  /\ pc = "tags" => \E k \in 0 .. Len(info) : Latest(k, i)
  /\ pc \notin {"kernel_main", "tags"} => MemoryMap(info) \in 1 .. Len(info) /\ boot_mem_map = TheMap

\* max_kern_mem is the end of the highest usable memory, of what was looked at.
SizeInv ==
  /\ nr_page_structs = PGNUM(max_kern_mem)
  /\ pc \in {"kernel_main", "tags"} => max_kern_mem = 0
  /\ max_kern_mem = 0 \/ \E k \in DOMAIN boot_mem_map :
                           Usable(boot_mem_map[k]) /\ End(boot_mem_map[k]) = max_kern_mem
  /\ pc \notin {"kernel_main", "tags"} =>
       \A k \in DOMAIN boot_mem_map : (pc = "init" => k < i) =>
         /\ Usable(boot_mem_map[k]) => End(boot_mem_map[k]) <= max_kern_mem
         /\ End(boot_mem_map[k]) <= max_phy

\* What CollectAvailable is to link of entry k.
Linkable(p, k) ==
  Usable(boot_mem_map[k]) /\ Within(p, boot_mem_map[k]) /\ ~InKernel(First(p))

\* CollectAvailable is past page p of entry k.
Past(p, k) == k < i \/ (k = i /\ paddr # -1 /\ First(p) < paddr)

\* In the loop over an entry.
EntryInv ==
  pc = "collect" /\ paddr # -1 =>
    /\ i \in DOMAIN boot_mem_map /\ Usable(boot_mem_map[i])
    /\ paddr >= boot_mem_map[i].addr /\ paddr % PAGESIZE = 0

\* The list has the pages that the loop is past, each once.
CollectInv ==
  /\ pc \in Early => list = << >> /\ paddr = -1
  /\ IsInjective(list)
  /\ pc = "collect" =>
       /\ \A n \in DOMAIN list : \E k \in DOMAIN boot_mem_map : Linkable(list[n], k) /\ Past(list[n], k)
       /\ \A p \in Nat : \A k \in DOMAIN boot_mem_map :
            Linkable(p, k) /\ Past(p, k) => \E n \in DOMAIN list : list[n] = p
  /\ pc = "done" =>
       \A p \in Nat : \A k \in DOMAIN boot_mem_map :
         Linkable(p, k) => \E n \in DOMAIN list : list[n] = p

\* The pages that may be on the list or be tables.
Room == {p \in Nat : \E k \in DOMAIN boot_mem_map : Linkable(p, k)}

\* What a walk works on is in order: tables are functions from Idx, and the list
\* has none of them; the root and the links lead to tables, each by a way of its
\* own; and all of them are pages of room.
Sound(free, tab, root, room) ==
  /\ DOMAIN tab = Page
  /\ \A p \in Page : tab[p] = << >> \/ DOMAIN tab[p] = Idx
  /\ \A p \in Page : \A x \in Idx : tab[p] # << >> => tab[p][x].kind \in {"none", "table", "leaf"}
  /\ free \in Seq(room) /\ IsInjective(free)
  /\ \A n \in DOMAIN free : free[n] \in Page => tab[free[n]] = << >>
  /\ \A p \in Page : tab[p] # << >> => p \in room
  /\ root.kind = "none" \/ (root.kind = "table" /\ root.page \in Page /\ tab[root.page] # << >>)
  /\ \A p \in Page : \A x \in Idx : tab[p] # << >> /\ tab[p][x].kind = "table" =>
       /\ tab[p][x].page \in Page /\ tab[tab[p][x].page] # << >>
       /\ root.kind = "table" => tab[p][x].page # root.page
  /\ \A p, q \in Page : \A x, y \in Idx :
       /\ tab[p] # << >> /\ tab[p][x].kind = "table" /\ tab[q] # << >> /\ tab[q][y].kind = "table"
       /\ tab[p][x].page = tab[q][y].page
       => p = q /\ x = y

TableInv ==
  /\ Sound(list, table, kern_entry, Room)
  /\ pc \notin Mapping \cup Stopped => table = [p \in Page |-> << >>] /\ kern_entry = PT!None

\* The pages the loops of InitKernelPageTable ask for are within the tables' reach.
ReachInv ==
  /\ pc \in Mapping => max_phy <= PT!KERN_MAX_MEMORY
  /\ pc = "map" => i \in DOMAIN boot_mem_map /\ addr \in Nat

IInv == TypeOK /\ ParseInv /\ SizeInv /\ EntryInv /\ CollectInv /\ TableInv /\ ReachInv

-----------------------------------------------------------------------------
(* The tables.                                                             *)

\* PageTable's constants are those of BootInfo.
LEMMA SameNames ==
  /\ PT!Page = Page /\ PT!Idx = Idx /\ PT!KERN_MAX_MEMORY = Fan * (Fan * (Fan * 16))
  /\ PT!Empty = [x \in Idx |-> PT!None]
BY DEF PT!Page, Page, PT!Idx, Idx, PT!KERN_MAX_MEMORY, PT!HUGEPAGESIZE, PT!LARGEPAGESIZE, PT!PAGESIZE, PT!Empty

LEMMA FanFacts ==
  /\ Fan \in Nat /\ Fan >= 1 /\ Fan * Fan \in Nat /\ Fan * Fan >= 1 /\ Fan * Fan * Fan \in Nat
  /\ 0 \in Idx
<1>1. Fan \in Nat /\ Fan >= 1
  BY BootAssumption
<1>2. \A m, n \in Nat : m * n \in Nat /\ (m >= 1 /\ n >= 1 => m * n >= 1)
  OBVIOUS
<1> QED BY <1>1, <1>2 DEF Idx

\* The quotient and the remainder of division by any n.
LEMMA Division ==
  ASSUME NEW m \in Nat, NEW n \in Nat, n >= 1
  PROVE  /\ m \div n \in Nat /\ m % n \in Nat /\ m % n < n
         /\ m = n * (m \div n) + (m % n)
OBVIOUS

LEMMA Quotient ==
  ASSUME NEW m \in Nat, NEW n \in Nat, n >= 1, NEW k \in Nat, m < n * k
  PROVE  m \div n \in Nat /\ m \div n < k
<1>1. PICK q \in Nat : q = m \div n
  BY Division
<1>2. n * q <= m
  BY <1>1, Division
<1>3. ASSUME q >= k PROVE FALSE
  <2>1. n * q >= n * k
    BY <1>3
  <2> QED BY <1>2, <2>1
<1> QED BY <1>1, <1>3

\* The indexes of a page's entries.
LEMMA Indexes ==
  ASSUME NEW p \in Page
  PROVE  PT!PdptIdx(p) \in Idx /\ PT!PdIdx(p) \in Idx /\ PT!PtIdx(p) \in Idx
<1>1. p \in Nat /\ p < Fan * Fan * Fan
  BY FanFacts DEF Page
<1>2. PICK n \in Nat : n = Fan * Fan
  BY FanFacts
<1>3. p \div n \in Nat /\ p \div n < Fan
  BY <1>1, <1>2, FanFacts, Quotient
<1>4. p \div Fan \in Nat /\ p % Fan \in Nat /\ p % Fan < Fan
  BY <1>1, FanFacts, Division
<1>5. (p \div Fan) % Fan \in Nat /\ (p \div Fan) % Fan < Fan
  BY <1>4, FanFacts, Division
<1> QED BY <1>2, <1>3, <1>4, <1>5, FanFacts DEF PT!PdptIdx, PT!PdIdx, PT!PtIdx, Idx

\* An entry of a table is written; a link leads to a table nothing else leads to.
LEMMA SetEntry ==
  ASSUME NEW f, NEW tab, NEW root, NEW room, Sound(f, tab, root, room),
         NEW p \in Page, tab[p] # << >>, NEW x \in Idx, NEW en,
         en.kind \in {"none", "table", "leaf"},
         en.kind = "table" =>
           /\ en.page \in Page /\ tab[en.page] # << >>
           /\ root.kind = "table" => en.page # root.page
           /\ \A q \in Page : \A y \in Idx :
                tab[q] # << >> /\ tab[q][y].kind = "table" => tab[q][y].page # en.page
  PROVE  /\ Sound(f, [tab EXCEPT ![p][x] = en], root, room)
         /\ \A q \in Page : [tab EXCEPT ![p][x] = en][q] = << >> <=> tab[q] = << >>
<1> DEFINE new == [tab EXCEPT ![p][x] = en]
<1>1. /\ DOMAIN tab = Page /\ DOMAIN tab[p] = Idx
      /\ \A q \in Page : tab[q] = << >> \/ DOMAIN tab[q] = Idx
  BY DEF Sound
<1>2. DOMAIN new = Page /\ \A q \in Page : q # p => new[q] = tab[q]
  BY <1>1
<1>3. DOMAIN new[p] = Idx /\ new[p][x] = en /\ \A y \in Idx : y # x => new[p][y] = tab[p][y]
  BY <1>1
<1>4. new[p] # << >>
  BY <1>3, FanFacts
<1> HIDE DEF new
<1>5. \A q \in Page : new[q] = << >> <=> tab[q] = << >>
  BY <1>2, <1>4
<1>6. \A q \in Page : new[q] = << >> \/ DOMAIN new[q] = Idx
  BY <1>1, <1>2, <1>3
<1>7. \A q \in Page : \A y \in Idx : new[q] # << >> =>
        \/ q = p /\ y = x /\ new[q][y] = en
        \/ (q # p \/ y # x) /\ new[q][y] = tab[q][y]
  BY <1>2, <1>3
<1>8. Sound(f, new, root, room)
  BY <1>2, <1>5, <1>6, <1>7 DEF Sound
<1> QED BY <1>5, <1>8 DEF new

\* Page h becomes an empty table, and the other pages stay what they are.
Cleared(tab, new, h) ==
  /\ h \in Page /\ tab[h] = << >> /\ new[h] # << >>
  /\ \A q \in Page : q # h => new[q] = tab[q]
  /\ \A x \in Idx : new[h][x].kind = "none"

\* A page is taken from the list and cleared.
LEMMA NewTable ==
  ASSUME NEW f, NEW tab, NEW root, NEW room, Sound(f, tab, root, room), room \subseteq Page, f # << >>
  PROVE  /\ Sound(Tail(f), [tab EXCEPT ![Head(f)] = PT!Empty], root, room)
         /\ Cleared(tab, [tab EXCEPT ![Head(f)] = PT!Empty], Head(f))
<1> DEFINE h == Head(f)
           new == [tab EXCEPT ![h] = PT!Empty]
           g == Tail(f)
<1>1. f \in Seq(room) /\ IsInjective(f) /\ DOMAIN tab = Page
  BY DEF Sound
<1>2. /\ h = f[1] /\ 1 \in DOMAIN f /\ h \in room
      /\ g \in Seq(room) /\ \A n \in DOMAIN g : n + 1 \in DOMAIN f /\ g[n] = f[n + 1] /\ n \in Nat /\ n >= 1
  BY <1>1
<1>3. h \in Page /\ tab[h] = << >>
  BY <1>2 DEF Sound
<1>4. /\ DOMAIN new = Page /\ new[h] = PT!Empty
      /\ \A q \in Page : q # h => new[q] = tab[q]
  BY <1>1, <1>3
<1>5. DOMAIN PT!Empty = Idx /\ PT!Empty # << >> /\ \A x \in Idx : PT!Empty[x].kind = "none"
  BY SameNames, FanFacts DEF PT!None
<1>6. IsInjective(g) /\ \A n \in DOMAIN g : g[n] # h
  <2>1. \A m, n \in DOMAIN f : f[m] = f[n] => m = n
    BY <1>1 DEF IsInjective
  <2>2. \A m, n \in DOMAIN g : g[m] = g[n] => m = n
    BY <1>2, <2>1
  <2>3. \A n \in DOMAIN g : g[n] # h
    BY <1>2, <2>1
  <2> QED BY <2>2, <2>3 DEF IsInjective
<1> HIDE DEF new, g, h
<1>7. \A n \in DOMAIN g : g[n] \in Page => new[g[n]] = << >>
  BY <1>2, <1>4, <1>6 DEF Sound
<1>8. \A q \in Page : new[q] = << >> \/ DOMAIN new[q] = Idx
  BY <1>4, <1>5 DEF Sound
<1>9. \A q \in Page : \A x \in Idx : new[q] # << >> =>
        /\ new[q][x].kind \in {"none", "table", "leaf"}
        /\ new[q][x].kind = "table" => q # h /\ tab[q] # << >> /\ new[q][x] = tab[q][x]
  BY <1>4, <1>5 DEF Sound
<1>10. \A q \in Page : tab[q] # << >> => new[q] # << >>
  BY <1>3, <1>4
<1>11. \A q \in Page : new[q] # << >> => q \in room
  BY <1>2, <1>4 DEF Sound
<1>12. Sound(g, new, root, room)
  <2>1. \A p \in Page : \A x \in Idx : new[p] # << >> /\ new[p][x].kind = "table" =>
          /\ new[p][x].page \in Page /\ new[new[p][x].page] # << >>
          /\ root.kind = "table" => new[p][x].page # root.page
    BY <1>9, <1>10 DEF Sound
  <2>2. \A p, q \in Page : \A x, y \in Idx :
          /\ new[p] # << >> /\ new[p][x].kind = "table" /\ new[q] # << >> /\ new[q][y].kind = "table"
          /\ new[p][x].page = new[q][y].page
          => p = q /\ x = y
    BY <1>9 DEF Sound
  <2>3. root.kind = "none" \/ (root.kind = "table" /\ root.page \in Page /\ new[root.page] # << >>)
    BY <1>10 DEF Sound
  <2> QED BY <1>2, <1>4, <1>6, <1>7, <1>8, <1>9, <1>11, <2>1, <2>2, <2>3 DEF Sound
<1>13. Cleared(tab, new, h)
  BY <1>3, <1>4, <1>5 DEF Cleared
<1> QED BY <1>12, <1>13 DEF new, g, h

-----------------------------------------------------------------------------
(* The walks.                                                              *)

Ends == {"ok", "null", "fault", "refused", "scribble"}

\* A walk over sound tables.
Good(w, room) ==
  /\ w = [free |-> w.free, table |-> w.table, root |-> w.root, end |-> w.end]
  /\ w.end \in Ends
  /\ Sound(w.free, w.table, w.root, room)

\* Nothing leads to page h.
Unlinked(tab, root, h) ==
  /\ root.kind = "table" => root.page # h
  /\ \A q \in Page : \A y \in Idx :
       tab[q] # << >> /\ tab[q][y].kind = "table" => tab[q][y].page # h

\* The tables of old are as they were.
Keeps(old, new) == \A q \in Page : old[q] # << >> => new[q] = old[q]

\* AllocPage's page becomes a table that nothing leads to; or the walk ends.
LEMMA AllocatedGood ==
  ASSUME NEW room, room \subseteq Page, NEW w, Good(w, room), w.end = "ok", NEW v, v = PT!Allocated(w)
  PROVE  /\ Good(v, room) /\ v.root = w.root
         /\ v.end = "ok" =>
              /\ Head(w.free) \in Page /\ v.table[Head(w.free)] # << >>
              /\ Unlinked(v.table, v.root, Head(w.free))
              /\ Keeps(w.table, v.table)
<1> DEFINE h == Head(w.free)
<1>1. Sound(w.free, w.table, w.root, room)
      /\ w = [free |-> w.free, table |-> w.table, root |-> w.root, end |-> w.end]
  BY DEF Good
<1>2. CASE v = [w EXCEPT !.end = "null"] \/ v = [w EXCEPT !.end = "fault"]
  <2>1. /\ v.free = w.free /\ v.table = w.table /\ v.root = w.root /\ v.end \in {"null", "fault"}
        /\ v = [free |-> v.free, table |-> v.table, root |-> v.root, end |-> v.end]
    BY <1>1, <1>2
  <2> QED BY <1>1, <2>1 DEF Good, Ends
<1>3. CASE Len(w.free) > 1 /\ v = [w EXCEPT !.free = Tail(w.free), !.table[h] = PT!Empty]
  <2>1. /\ v.free = Tail(w.free) /\ v.table = [w.table EXCEPT ![h] = PT!Empty] /\ v.root = w.root
        /\ v.end = "ok"
        /\ v = [free |-> v.free, table |-> v.table, root |-> v.root, end |-> v.end]
    BY <1>1, <1>3
  <2>2. w.free # << >>
    BY <1>3
  <2>3. /\ Sound(v.free, v.table, w.root, room)
        /\ h \in Page /\ w.table[h] = << >> /\ v.table[h] # << >>
        /\ \A q \in Page : q # h => v.table[q] = w.table[q]
        /\ \A x \in Idx : v.table[h][x].kind = "none"
    <3>1. /\ Sound(Tail(w.free), [w.table EXCEPT ![h] = PT!Empty], w.root, room)
          /\ Cleared(w.table, [w.table EXCEPT ![h] = PT!Empty], h)
      BY <1>1, <2>2, NewTable
    <3> QED BY <2>1, <3>1 DEF Cleared
  <2>4. Unlinked(v.table, v.root, h)
    BY <1>1, <2>1, <2>3 DEF Sound, Unlinked
  <2> QED BY <2>1, <2>3, <2>4 DEF Good, Ends, Keeps
<1>4. Len(w.free) \in Nat
  BY <1>1 DEF Sound
<1> QED BY <1>2, <1>3, <1>4 DEF PT!Allocated

LEMMA NewRoot ==
  ASSUME NEW f, NEW tab, NEW root, NEW room, Sound(f, tab, root, room), root.kind = "none",
         NEW h \in Page, tab[h] # << >>, Unlinked(tab, root, h)
  PROVE  Sound(f, tab, PT!Table(h), room)
<1>1. PT!Table(h).kind = "table" /\ PT!Table(h).page = h
  BY DEF PT!Table
<1> QED BY <1>1 DEF Sound, Unlinked

\* The root is a table, or the walk ends.
LEMMA PresentRootGood ==
  ASSUME NEW room, room \subseteq Page, NEW w, Good(w, room), w.end = "ok", NEW v, v = PT!PresentRoot(w)
  PROVE  /\ Good(v, room)
         /\ v.end = "ok" => v.root.kind = "table" /\ v.root.page \in Page /\ v.table[v.root.page] # << >>
<1>1. CASE w.root.kind # "none"
  BY <1>1 DEF PT!PresentRoot, Good, Sound
<1>2. CASE w.root.kind = "none"
  <2>1. PICK u : u = PT!Allocated(w)
    OBVIOUS
  <2>2. /\ Good(u, room) /\ u.root = w.root
        /\ u.end = "ok" =>
              /\ Head(w.free) \in Page /\ u.table[Head(w.free)] # << >>
              /\ Unlinked(u.table, u.root, Head(w.free))
    BY <2>1, AllocatedGood
  <2>3. CASE u.end # "ok"
    BY <1>2, <2>1, <2>2, <2>3 DEF PT!PresentRoot
  <2>4. CASE u.end = "ok"
    <3>1. v = [u EXCEPT !.root = PT!Table(Head(w.free))]
      BY <1>2, <2>1, <2>4 DEF PT!PresentRoot
    <3>2. /\ v.free = u.free /\ v.table = u.table /\ v.root = PT!Table(Head(w.free)) /\ v.end = u.end
          /\ v = [free |-> v.free, table |-> v.table, root |-> v.root, end |-> v.end]
      BY <2>2, <3>1 DEF Good
    <3>3. Sound(v.free, v.table, v.root, room)
      BY <1>2, <2>2, <2>4, <3>2, NewRoot DEF Good
    <3>4. v.root.kind = "table" /\ v.root.page = Head(w.free)
      BY <3>2 DEF PT!Table
    <3> QED BY <2>2, <2>4, <3>2, <3>3, <3>4 DEF Good
  <2> QED BY <2>3, <2>4
<1> QED BY <1>1, <1>2

\* Tables stay tables, and their entries what they are, other than entry x of p.
Only(old, new, p, x) ==
  /\ \A q \in Page : old[q] # << >> => new[q] # << >>
  /\ \A q \in Page : \A y \in Idx :
       old[q] # << >> /\ (q # p \/ y # x) => new[q][y] = old[q][y]

\* Entry x of table p is present, or the walk ends.
LEMMA PresentGood ==
  ASSUME NEW room, room \subseteq Page, NEW w, Good(w, room),
         NEW p \in Page, w.table[p] # << >>, NEW x \in Idx, NEW v, v = PT!Present(w, p, x)
  PROVE  /\ Good(v, room) /\ v.root = w.root
         /\ v.end = "ok" => v.table[p][x].kind \in {"table", "leaf"}
         /\ Only(w.table, v.table, p, x)
<1>1. CASE w.end # "ok" \/ w.table[p][x].kind # "none"
  <2>1. v = w
    BY <1>1 DEF PT!Present
  <2>2. w.table[p][x].kind \in {"none", "table", "leaf"}
    BY DEF Good, Sound
  <2> QED BY <1>1, <2>1, <2>2 DEF Only
<1>2. CASE w.end = "ok" /\ w.table[p][x].kind = "none"
  <2>1. PICK u : u = PT!Allocated(w)
    OBVIOUS
  <2>0. PICK h : h = Head(w.free)
    OBVIOUS
  <2>2. /\ Good(u, room) /\ u.root = w.root
        /\ u.end = "ok" =>
              /\ h \in Page /\ u.table[h] # << >>
              /\ Unlinked(u.table, u.root, h)
              /\ \A q \in Page : w.table[q] # << >> => u.table[q] = w.table[q]
    <3>1. w.end = "ok"
      BY <1>2
    <3>2. /\ Good(u, room) /\ u.root = w.root
          /\ u.end = "ok" =>
                /\ Head(w.free) \in Page /\ u.table[Head(w.free)] # << >>
                /\ Unlinked(u.table, u.root, Head(w.free))
                /\ Keeps(w.table, u.table)
      BY <2>1, <3>1, AllocatedGood
    <3> QED BY <2>0, <3>2 DEF Keeps
  <2>3. CASE u.end # "ok"
    <3>1. v = u
      BY <1>2, <2>1, <2>3 DEF PT!Present
    <3>2. u.table = w.table
      BY <2>1, <2>3, <1>2 DEF PT!Allocated, Good
    <3> QED BY <2>2, <2>3, <3>1, <3>2 DEF Only
  <2>4. CASE u.end = "ok"
    <3>1. v = [u EXCEPT !.table[p][x] = PT!Table(h)]
      BY <1>2, <2>0, <2>1, <2>4 DEF PT!Present
    <3>2. /\ v.free = u.free /\ v.table = [u.table EXCEPT ![p][x] = PT!Table(h)] /\ v.root = u.root
          /\ v.end = u.end
          /\ v = [free |-> v.free, table |-> v.table, root |-> v.root, end |-> v.end]
      BY <2>2, <3>1 DEF Good
    <3>3. PT!Table(h).kind = "table" /\ PT!Table(h).page = h
      BY DEF PT!Table
    <3>4. u.table[p] # << >> /\ Sound(u.free, u.table, u.root, room)
      BY <2>2, <2>4 DEF Good
    <3>5. /\ Sound(v.free, v.table, v.root, room)
          /\ \A q \in Page : v.table[q] = << >> <=> u.table[q] = << >>
      <4>1. PICK en, t : en = PT!Table(h) /\ t = u.table
        OBVIOUS
      <4>2. /\ en.kind = "table" /\ en.page = h /\ h \in Page /\ t[h] # << >> /\ t[p] # << >>
            /\ u.root.kind = "table" => u.root.page # h
            /\ \A q \in Page : \A y \in Idx : t[q] # << >> /\ t[q][y].kind = "table" => t[q][y].page # h
        BY <2>2, <2>4, <3>3, <3>4, <4>1 DEF Unlinked
      <4>3. /\ Sound(u.free, [t EXCEPT ![p][x] = en], u.root, room)
            /\ \A q \in Page : [t EXCEPT ![p][x] = en][q] = << >> <=> t[q] = << >>
        BY <3>4, <4>1, <4>2, SetEntry
      <4> QED BY <3>2, <4>1, <4>3
    <3>6. DOMAIN u.table = Page /\ DOMAIN u.table[p] = Idx
      BY <3>4 DEF Sound
    <3>7. /\ v.table[p][x] = PT!Table(h)
          /\ \A q \in Page : \A y \in Idx : (q # p \/ y # x) => v.table[q][y] = u.table[q][y]
      BY <3>2, <3>6
    <3> QED BY <2>2, <2>4, <3>2, <3>3, <3>5, <3>7 DEF Good, Only
  <2> QED BY <2>3, <2>4
<1> QED BY <1>1, <1>2

\* The entry leads to a table when the walk enters it.
LEMMA EnterGood ==
  ASSUME NEW room, NEW w, Good(w, room), NEW p \in Page, w.table[p] # << >>, NEW x \in Idx,
         w.end = "ok" => w.table[p][x].kind \in {"table", "leaf"},
         NEW e \in {"refused", "scribble"}, NEW v, v = PT!Enter(w, p, x, e)
  PROVE  /\ Good(v, room) /\ v.root = w.root /\ v.table = w.table
         /\ v.end = "ok" =>
              /\ v.table[p][x].kind = "table" /\ v.table[p][x].page \in Page
              /\ v.table[v.table[p][x].page] # << >>
<1>1. CASE w.end = "ok" /\ w.table[p][x].kind = "leaf"
  <2>1. v = [w EXCEPT !.end = e]
    BY <1>1 DEF PT!Enter
  <2>2. /\ v.free = w.free /\ v.table = w.table /\ v.root = w.root /\ v.end = e
        /\ v = [free |-> v.free, table |-> v.table, root |-> v.root, end |-> v.end]
    BY <2>1 DEF Good
  <2> QED BY <2>2 DEF Good, Ends
<1>2. CASE ~(w.end = "ok" /\ w.table[p][x].kind = "leaf")
  <2>1. v = w
    BY <1>2 DEF PT!Enter
  <2> QED BY <1>2, <2>1 DEF Good, Sound
<1> QED BY <1>1, <1>2

\* A leaf is stored in a table.
LEMMA StoreGood ==
  ASSUME NEW room, NEW w, Good(w, room),
         NEW p \in Page, w.table[p] # << >>, NEW x \in Idx,
         NEW en, en.kind = "leaf", NEW v, v = PT!Store(w, p, x, en)
  PROVE  Good(v, room)
<1>1. CASE w.end # "ok"
  BY <1>1 DEF PT!Store
<1>2. CASE w.end = "ok"
  <2>1. v = [w EXCEPT !.table[p][x] = en]
    BY <1>2 DEF PT!Store
  <2>2. /\ v.free = w.free /\ v.table = [w.table EXCEPT ![p][x] = en] /\ v.root = w.root /\ v.end = w.end
        /\ v = [free |-> v.free, table |-> v.table, root |-> v.root, end |-> v.end]
    BY <2>1 DEF Good
  <2>3. Sound(v.free, v.table, v.root, room)
    BY <1>2, <2>2, SetEntry DEF Good
  <2> QED BY <2>2, <2>3 DEF Good
<1> QED BY <1>1, <1>2

\* A huge page is mapped.
LEMMA MapHugeGood ==
  ASSUME NEW room, room \subseteq Page, NEW w, Good(w, room), w.end = "ok",
         NEW p \in Page, NEW en, en.kind = "leaf", NEW v, v = PT!MapHuge(w, p, en)
  PROVE  Good(v, room)
<1>1. PICK u : u = PT!PresentRoot(w)
  OBVIOUS
<1>2. /\ Good(u, room)
      /\ u.end = "ok" => u.root.kind = "table" /\ u.root.page \in Page /\ u.table[u.root.page] # << >>
  BY <1>1, PresentRootGood
<1>3. CASE u.end # "ok"
  BY <1>1, <1>2, <1>3 DEF PT!MapHuge
<1>4. CASE u.end = "ok"
  <2>1. v = PT!Store(u, u.root.page, PT!PdptIdx(p), en)
    BY <1>1, <1>4 DEF PT!MapHuge
  <2> QED BY <1>2, <1>4, <2>1, Indexes, StoreGood
<1> QED BY <1>3, <1>4

\* The walk has arrived at a page directory.
AtPd(v, p) ==
  /\ v.root.kind = "table" /\ v.root.page \in Page /\ v.table[v.root.page] # << >>
  /\ v.table[v.root.page][PT!PdptIdx(p)].kind = "table"
  /\ PT!PdOf(v, p) \in Page /\ v.table[PT!PdOf(v, p)] # << >>

LEMMA WalkToPdGood ==
  ASSUME NEW room, room \subseteq Page, NEW w, Good(w, room), w.end = "ok",
         NEW p \in Page, NEW v, v = PT!WalkToPd(w, p)
  PROVE  Good(v, room) /\ (v.end = "ok" => AtPd(v, p))
<1>1. PICK u : u = PT!PresentRoot(w)
  OBVIOUS
<1>2. /\ Good(u, room)
      /\ u.end = "ok" => u.root.kind = "table" /\ u.root.page \in Page /\ u.table[u.root.page] # << >>
  BY <1>1, PresentRootGood
<1>3. CASE u.end # "ok"
  BY <1>1, <1>2, <1>3 DEF PT!WalkToPd
<1>4. CASE u.end = "ok"
  <2>1. PICK x, r : x = PT!PdptIdx(p) /\ r = u.root.page
    OBVIOUS
  <2>2. PICK z : z = PT!Present(u, r, x)
    OBVIOUS
  <2>3. x \in Idx /\ r \in Page /\ u.table[r] # << >>
    BY <1>2, <1>4, <2>1, Indexes
  <2>4. /\ Good(z, room) /\ z.root = u.root /\ Only(u.table, z.table, r, x)
        /\ z.end = "ok" => z.table[r][x].kind \in {"table", "leaf"}
    BY <1>2, <2>2, <2>3, PresentGood
  <2>5. z.table[r] # << >>
    BY <2>3, <2>4 DEF Only
  <2>6. v = PT!Enter(z, r, x, "scribble")
    BY <1>1, <1>4, <2>1, <2>2 DEF PT!WalkToPd
  <2>7. /\ Good(v, room) /\ v.root = z.root /\ v.table = z.table
        /\ v.end = "ok" =>
             /\ v.table[r][x].kind = "table" /\ v.table[r][x].page \in Page
             /\ v.table[v.table[r][x].page] # << >>
    BY <2>3, <2>4, <2>5, <2>6, EnterGood
  <2> QED BY <1>2, <1>4, <2>1, <2>3, <2>4, <2>5, <2>7 DEF AtPd, PT!PdOf
<1> QED BY <1>3, <1>4

\* A large page is mapped.
LEMMA MapLargeGood ==
  ASSUME NEW room, room \subseteq Page, NEW w, Good(w, room), w.end = "ok",
         NEW p \in Page, NEW en, en.kind = "leaf", NEW v, v = PT!MapLarge(w, p, en)
  PROVE  Good(v, room)
<1>1. PICK u : u = PT!WalkToPd(w, p)
  OBVIOUS
<1>2. Good(u, room) /\ (u.end = "ok" => AtPd(u, p))
  BY <1>1, WalkToPdGood
<1>3. CASE u.end # "ok"
  BY <1>1, <1>2, <1>3 DEF PT!MapLarge
<1>4. CASE u.end = "ok"
  <2>1. v = PT!Store(u, PT!PdOf(u, p), PT!PdIdx(p), en)
    BY <1>1, <1>4 DEF PT!MapLarge
  <2> QED BY <1>2, <1>4, <2>1, Indexes, StoreGood DEF AtPd
<1> QED BY <1>3, <1>4

\* A page is mapped.
LEMMA MapSmallGood ==
  ASSUME NEW room, room \subseteq Page, NEW w, Good(w, room), w.end = "ok",
         NEW p \in Page, NEW en, en.kind = "leaf", NEW v, v = PT!MapSmall(w, p, en)
  PROVE  Good(v, room)
<1>1. PICK u : u = PT!WalkToPd(w, p)
  OBVIOUS
<1>2. Good(u, room) /\ (u.end = "ok" => AtPd(u, p))
  BY <1>1, WalkToPdGood
<1>3. CASE u.end # "ok"
  BY <1>1, <1>2, <1>3 DEF PT!MapSmall
<1>4. CASE u.end = "ok"
  <2>1. PICK d, x : d = PT!PdOf(u, p) /\ x = PT!PdIdx(p)
    OBVIOUS
  <2>2. PICK z : z = PT!Present(u, d, x)
    OBVIOUS
  <2>3. PICK e : e = PT!Enter(z, d, x, "refused")
    OBVIOUS
  <2>4. x \in Idx /\ d \in Page /\ u.table[d] # << >> /\ AtPd(u, p)
    BY <1>2, <1>4, <2>1, Indexes DEF AtPd
  <2>5. /\ Good(z, room) /\ z.root = u.root /\ Only(u.table, z.table, d, x)
        /\ z.end = "ok" => z.table[d][x].kind \in {"table", "leaf"}
    BY <1>2, <2>2, <2>4, PresentGood
  <2>6. z.table[d] # << >>
    BY <2>4, <2>5 DEF Only
  <2>7. /\ Good(e, room) /\ e.root = z.root /\ e.table = z.table
        /\ e.end = "ok" =>
             /\ e.table[d][x].kind = "table" /\ e.table[d][x].page \in Page
             /\ e.table[e.table[d][x].page] # << >>
    BY <2>3, <2>4, <2>5, <2>6, EnterGood
  <2>8. CASE e.end # "ok"
    <3>1. v = e
      BY <1>1, <1>4, <2>1, <2>2, <2>3, <2>8 DEF PT!MapSmall
    <3> QED BY <2>7, <3>1
  <2>9. CASE e.end = "ok"
    <3>1. v = PT!Store(e, e.table[PT!PdOf(e, p)][x].page, PT!PtIdx(p), en)
      BY <1>1, <1>4, <2>1, <2>2, <2>3, <2>9 DEF PT!MapSmall
    <3>2. PT!PdOf(e, p) = d
      <4>1. PICK r, y : r = u.root.page /\ y = PT!PdptIdx(p)
        OBVIOUS
      <4>2. r \in Page /\ y \in Idx /\ u.table[r] # << >> /\ u.table[r][y].kind = "table"
            /\ u.root.kind = "table" /\ u.table[r][y].page = d
        BY <2>1, <2>4, <4>1, Indexes DEF AtPd, PT!PdOf
      <4>3. d # r
        BY <1>2, <4>1, <4>2 DEF Good, Sound
      <4>4. z.table[r][y] = u.table[r][y]
        BY <2>5, <4>2, <4>3 DEF Only
      <4> QED BY <2>5, <2>7, <4>1, <4>2, <4>4 DEF PT!PdOf
    <3> QED BY <2>7, <2>9, <3>1, <3>2, Indexes, StoreGood
  <2> QED BY <2>8, <2>9
<1> QED BY <1>3, <1>4

-----------------------------------------------------------------------------
(* The memory map.                                                         *)

LEMMA MaxIs ==
  ASSUME NEW S \in SUBSET Nat, NEW x \in S, \A y \in S : x >= y
  PROVE  Max(S) = x
<1>1. \A z \in S : (\A y \in S : z >= y) => z = x
  OBVIOUS
<1> QED BY <1>1 DEF Max

\* The tags' memory map is that of the last tag that has one.
LEMMA LastMap ==
  ASSUME NEW tags, tags \in Seq(Tag), NEW k \in 0 .. Len(tags),
         k # 0 => tags[k].type = "mmap",
         \A j \in 1 .. Len(tags) : k < j => tags[j].type # "mmap"
  PROVE  MemoryMap(tags) = k
<1> DEFINE S == {j \in 1 .. Len(tags) : tags[j].type = "mmap"}
<1>1. MemoryMap(tags) = IF S # {} THEN Max(S) ELSE 0
  BY DEF MemoryMap, SelectLastInSeq
<1>2. Len(tags) \in Nat
  OBVIOUS
<1>3. S \in SUBSET Nat
  BY <1>2
<1>4. CASE k = 0
  <2>1. S = {}
    BY <1>2, <1>4
  <2> QED BY <1>1, <1>4, <2>1
<1>5. CASE k # 0
  <2>1. k \in S /\ \A y \in S : k >= y
    BY <1>2, <1>5
  <2>2. Max(S) = k
    <3> HIDE DEF S
    <3> QED BY <1>3, <2>1, MaxIs
  <2> QED BY <1>1, <2>1, <2>2
<1> QED BY <1>4, <1>5

\* What BootAssumption and WholePages say of the memory map.
MapOK(m) ==
  /\ m \in Seq(MapEntry)
  /\ \A j, k \in DOMAIN m : j # k => End(m[j]) <= m[k].addr \/ End(m[k]) <= m[j].addr
  /\ \A k \in DOMAIN m : End(m[k]) \in Nat
  /\ \A k \in DOMAIN m : Usable(m[k]) => m[k].addr % 16 = 0
  /\ \A j, k \in DOMAIN m :
       Usable(m[j]) /\ Usable(m[k]) /\ m[j].addr < m[k].addr => End(m[j]) % 16 = 0

LEMMA InfoMap ==
  ASSUME NEW tags \in GoodInfos
  PROVE  /\ tags \in Seq(Tag) /\ MemoryMap(tags) # 0
         /\ MemoryMap(tags) \in 1 .. Len(tags) => MapOK(tags[MemoryMap(tags)].entries)
<1>1. tags \in Seq(Tag) /\ MemoryMap(tags) # 0
  BY BootAssumption DEF GoodInfos
<1>2. ASSUME MemoryMap(tags) \in 1 .. Len(tags)
      PROVE  MapOK(tags[MemoryMap(tags)].entries)
  <2>1. PICK m : m = tags[MemoryMap(tags)].entries
    OBVIOUS
  <2>2. tags[MemoryMap(tags)] \in Tag
    BY <1>1, <1>2
  <2>3. m \in Seq(MapEntry)
    BY <2>1, <2>2 DEF Tag, MapEntry
  <2>4. /\ tags \in Infos
        /\ \A j, k \in DOMAIN m : j # k => End(m[j]) <= m[k].addr \/ End(m[k]) <= m[j].addr
        /\ \A x, y \in ToSet(m) :
             /\ x.type = "available" => x.addr % PAGESIZE = 0
             /\ x.type = "available" /\ y.type = "available" /\ x.addr # 0 /\ x.addr < y.addr
                  => End(x) % PAGESIZE = 0
    BY <2>1, BootAssumption DEF GoodInfos, WholePages
  <2>5. \A k \in DOMAIN m : m[k] \in ToSet(m) /\ m[k] \in MapEntry
    BY <2>3 DEF ToSet
  <2>6. \A k \in DOMAIN m : End(m[k]) \in Nat
    BY <2>5 DEF End, MapEntry
  <2>7. \A k \in DOMAIN m : Usable(m[k]) => m[k].addr % 16 = 0
    BY <2>4, <2>5 DEF Usable, PAGESIZE
  <2>8. \A j, k \in DOMAIN m :
          Usable(m[j]) /\ Usable(m[k]) /\ m[j].addr < m[k].addr => End(m[j]) % 16 = 0
    BY <2>4, <2>5 DEF Usable, PAGESIZE
  <2> QED BY <2>1, <2>3, <2>4, <2>6, <2>7, <2>8 DEF MapOK
<1> QED BY <1>1, <1>2

\* Once the tags are parsed, boot_mem_map is a memory map.
LEMMA ParsedMap ==
  ASSUME TypeOK, ParseInv, pc \notin {"kernel_main", "tags"}
  PROVE  MapOK(boot_mem_map)
<1>1. PICK tags \in GoodInfos : tags = info
  BY DEF TypeOK
<1>2. MemoryMap(tags) \in 1 .. Len(tags) /\ boot_mem_map = tags[MemoryMap(tags)].entries
  BY <1>1 DEF ParseInv, TheMap
<1> QED BY <1>2, InfoMap

-----------------------------------------------------------------------------
(* Before the tables are built there are none.                             *)

LEMMA SoundList ==
  ASSUME NEW f, NEW room, f \in Seq(room), IsInjective(f)
  PROVE  Sound(f, [p \in Page |-> << >>], PT!None, room)
<1>1. PT!None.kind = "none"
  BY DEF PT!None
<1> QED BY <1>1 DEF Sound

LEMMA Empty ==
  IsInjective(<< >>) /\ (\A room : << >> \in Seq(room)) /\ \A n \in DOMAIN << >> : FALSE
BY DEF IsInjective

\* In the first phases the list is empty.
LEMMA EarlyTables ==
  ASSUME pc \notin Mapping \cup Stopped, list = << >>,
         table = [p \in Page |-> << >>] /\ kern_entry = PT!None
  PROVE  TableInv
BY SoundList, Empty DEF TableInv

LEMMA InitInv == BootInit /\ WholePages(info) => IInv
<1> SUFFICES ASSUME BootInit, WholePages(info) PROVE IInv
  OBVIOUS
<1> USE DEF BootInit, Init, PT!Init
<1>1. TypeOK
  BY DEF TypeOK, GoodInfos, Early
<1>2. ParseInv
  BY DEF ParseInv
<1>3. SizeInv
  BY DEF SizeInv, PGNUM, PAGESIZE
<1>4. EntryInv
  BY DEF EntryInv
<1>5. CollectInv
  BY Empty DEF CollectInv
<1>6. TableInv
  BY SameNames, EarlyTables DEF Mapping, Stopped
<1>7. ReachInv
  BY DEF ReachInv, Mapping
<1> QED BY <1>1, <1>2, <1>3, <1>4, <1>5, <1>6, <1>7 DEF IInv

-----------------------------------------------------------------------------
(* The steps.                                                              *)

\* A large page more is mapped at KERN_OFFSET.
LEMMA InitBootPageTableStep ==
  ASSUME IInv, PT!InitBootPageTable, UNCHANGED <<info, max_kern_mem, nr_page_structs, paddr>>
  PROVE  IInv'
<1>1. /\ pc = "kernel_main" /\ pc' \in {"kernel_main", "tags"}
      /\ pc' = "tags" => i' = 1
      /\ i' \in Nat /\ i' >= 1
      /\ UNCHANGED <<info, boot_mem_map, max_kern_mem, max_phy, nr_page_structs, paddr, list, table, kern_entry>>
  BY DEF PT!InitBootPageTable, PT!tables, IInv, TypeOK
<1>2. boot_mem_map = << >> /\ list = << >> /\ paddr = -1 /\ max_kern_mem = 0
      /\ table = [p \in Page |-> << >>] /\ kern_entry = PT!None
  BY <1>1 DEF IInv, ParseInv, CollectInv, SizeInv, TableInv, Early, Mapping, Stopped
<1>3. TypeOK'
  BY <1>1 DEF IInv, TypeOK, Early
<1>4. ParseInv'
  <2>1. pc' = "tags" => Latest(0, i)'
    BY <1>1, <1>2 DEF Latest
  <2>2. Len(info') \in Nat
    BY <1>1, InfoMap DEF IInv, TypeOK
  <2> QED BY <1>1, <1>2, <2>1, <2>2 DEF ParseInv
<1>5. SizeInv'
  BY <1>1 DEF IInv, SizeInv, PGNUM
<1>6. EntryInv' /\ ReachInv'
  BY <1>1 DEF EntryInv, ReachInv, Mapping
<1>7. CollectInv'
  BY <1>1, <1>2, Empty DEF CollectInv
<1>8. TableInv'
  <2>1. list' = << >> /\ table' = [p \in Page |-> << >>] /\ kern_entry' = PT!None
        /\ pc' \notin Mapping \cup Stopped
    BY <1>1, <1>2 DEF Mapping, Stopped
  <2> QED BY <2>1, SoundList, Empty DEF TableInv
<1> QED BY <1>3, <1>4, <1>5, <1>6, <1>7, <1>8 DEF IInv

\* The last memory map so far is kept.
LEMMA ParseTagStep ==
  ASSUME IInv, ParseTag, UNCHANGED tables
  PROVE  IInv'
<1>1. /\ pc = "tags" /\ i <= Len(info)
      /\ boot_mem_map' = IF info[i].type = "mmap" THEN info[i].entries ELSE boot_mem_map
      /\ i' = i + 1
      /\ UNCHANGED <<info, pc, max_kern_mem, max_phy, nr_page_structs, paddr, list, table, kern_entry>>
  BY DEF ParseTag, sizes, tables
<1>2. list = << >> /\ paddr = -1 /\ max_kern_mem = 0
      /\ table = [p \in Page |-> << >>] /\ kern_entry = PT!None
  BY <1>1 DEF IInv, CollectInv, SizeInv, TableInv, Early, Mapping, Stopped
<1>3. info \in Seq(Tag) /\ i \in 1 .. Len(info)
  BY <1>1, InfoMap DEF IInv, TypeOK
<1>4. info[i].entries \in Seq(MapEntry)
  <2>1. PICK tag \in Tag : tag = info[i]
    BY <1>3
  <2> QED BY <2>1 DEF Tag, MapEntry
<1>5. TypeOK'
  BY <1>1, <1>4 DEF IInv, TypeOK
<1>6. ParseInv'
  <2>1. PICK k \in 0 .. Len(info) : Latest(k, i)
    BY <1>1 DEF IInv, ParseInv
  <2>2. CASE info[i].type = "mmap"
    <3>1. PICK n : n = i
      OBVIOUS
    <3>2. Latest(n, i)'
      BY <1>1, <1>3, <2>2, <3>1 DEF Latest
    <3> QED BY <1>1, <1>3, <3>1, <3>2 DEF ParseInv
  <2>3. CASE info[i].type # "mmap"
    <3>1. Latest(k, i)'
      BY <1>1, <1>3, <2>1, <2>3 DEF Latest
    <3> QED BY <1>1, <1>3, <3>1 DEF ParseInv
  <2> QED BY <2>2, <2>3
<1>7. SizeInv'
  BY <1>1, <1>2 DEF IInv, SizeInv, PGNUM
<1>8. EntryInv' /\ ReachInv'
  BY <1>1 DEF EntryInv, ReachInv, Mapping
<1>9. CollectInv'
  BY <1>1, <1>2, Empty DEF CollectInv
<1>10. TableInv'
  <2>1. list' = << >> /\ table' = [p \in Page |-> << >>] /\ kern_entry' = PT!None
        /\ pc' \notin Mapping \cup Stopped
    BY <1>1, <1>2 DEF Mapping, Stopped
  <2> QED BY <2>1, SoundList, Empty DEF TableInv
<1> QED BY <1>5, <1>6, <1>7, <1>8, <1>9, <1>10 DEF IInv

\* The memory map is that of the last tag with one.
LEMMA TagsDoneStep ==
  ASSUME IInv, TagsDone, UNCHANGED tables
  PROVE  IInv'
<1>1. /\ pc = "tags" /\ i > Len(info) /\ pc' = "init" /\ i' = 1
      /\ UNCHANGED <<info, boot_mem_map, max_kern_mem, max_phy, nr_page_structs, paddr, list, table, kern_entry>>
  BY DEF TagsDone, sizes, tables
<1>2. list = << >> /\ paddr = -1 /\ max_kern_mem = 0
      /\ table = [p \in Page |-> << >>] /\ kern_entry = PT!None
  BY <1>1 DEF IInv, CollectInv, SizeInv, TableInv, Early, Mapping, Stopped
<1>3. TypeOK'
  BY <1>1 DEF IInv, TypeOK, Early
<1>4. ParseInv'
  <2>1. PICK tags \in GoodInfos : tags = info
    BY DEF IInv, TypeOK
  <2>2. PICK k \in 0 .. Len(tags) : Latest(k, i)
    BY <1>1, <2>1 DEF IInv, ParseInv
  <2>3. tags \in Seq(Tag) /\ MemoryMap(tags) # 0 /\ Len(tags) \in Nat
    BY InfoMap
  <2>4. /\ k # 0 => tags[k].type = "mmap" /\ boot_mem_map = tags[k].entries
        /\ \A j \in 1 .. Len(tags) : k < j => tags[j].type # "mmap"
    BY <1>1, <2>1, <2>2, <2>3 DEF Latest, IInv, TypeOK
  <2>5. MemoryMap(tags) = k
    BY <2>3, <2>4, LastMap
  <2>6. k \in 1 .. Len(tags) /\ boot_mem_map = tags[k].entries
    BY <2>3, <2>4, <2>5
  <2>7. info' = tags /\ boot_mem_map' = boot_mem_map
    BY <1>1, <2>1
  <2> QED BY <1>1, <2>5, <2>6, <2>7 DEF ParseInv, TheMap
<1>5. SizeInv'
  BY <1>1, <1>2 DEF IInv, SizeInv, PGNUM, TypeOK
<1>6. EntryInv' /\ ReachInv'
  BY <1>1 DEF EntryInv, ReachInv, Mapping
<1>7. CollectInv'
  BY <1>1, <1>2, Empty DEF CollectInv
<1>8. TableInv'
  <2>1. list' = << >> /\ table' = [p \in Page |-> << >>] /\ kern_entry' = PT!None
        /\ pc' \notin Mapping \cup Stopped
    BY <1>1, <1>2 DEF Mapping, Stopped
  <2> QED BY <2>1, SoundList, Empty DEF TableInv
<1> QED BY <1>3, <1>4, <1>5, <1>6, <1>7, <1>8 DEF IInv

LEMMA MaxOfTwo ==
  ASSUME NEW a \in Nat, NEW b \in Nat
  PROVE  Max({a, b}) \in Nat /\ Max({a, b}) >= a /\ Max({a, b}) >= b
<1>1. PICK c \in {a, b} : c >= a /\ c >= b
  OBVIOUS
<1>2. Max({a, b}) = c
  BY <1>1, MaxIs
<1> QED BY <1>1, <1>2

\* An entry more is looked at.
LEMMA InitEntryStep ==
  ASSUME IInv, InitEntry, UNCHANGED tables
  PROVE  IInv'
<1>1. /\ pc = "init" /\ i <= Len(boot_mem_map)
      /\ max_kern_mem' = HighestEnd(boot_mem_map[i])
      /\ max_phy' = Max({max_phy, End(boot_mem_map[i])})
      /\ nr_page_structs' = PGNUM(HighestEnd(boot_mem_map[i]))
      /\ i' = i + 1
      /\ UNCHANGED <<info, boot_mem_map, pc, paddr, list, table, kern_entry>>
  BY DEF InitEntry, tables
<1>2. list = << >> /\ paddr = -1
      /\ table = [p \in Page |-> << >>] /\ kern_entry = PT!None
  BY <1>1 DEF IInv, CollectInv, TableInv, Early, Mapping, Stopped
<1>3. PICK m : m = boot_mem_map
  OBVIOUS
<1>4. MapOK(m) /\ i \in DOMAIN m /\ i \in Nat /\ max_kern_mem \in Nat /\ max_phy \in Nat
  BY <1>1, <1>3, ParsedMap DEF IInv, TypeOK
<1>5. End(m[i]) \in Nat
  BY <1>4 DEF MapOK
<1>6. /\ max_kern_mem' \in Nat /\ max_kern_mem' >= max_kern_mem
      /\ Usable(m[i]) => max_kern_mem' >= End(m[i])
      /\ max_kern_mem' = max_kern_mem \/ (Usable(m[i]) /\ max_kern_mem' = End(m[i]))
  BY <1>1, <1>3, <1>4, <1>5 DEF HighestEnd, Usable
<1>7. max_phy' \in Nat /\ max_phy' >= max_phy /\ max_phy' >= End(m[i])
  BY <1>1, <1>3, <1>4, <1>5, MaxOfTwo
<1>8. TypeOK'
  <2>1. nr_page_structs' \in Nat
    BY <1>1, <1>6 DEF PGNUM, PAGESIZE
  <2> QED BY <1>1, <1>4, <1>6, <1>7, <2>1 DEF IInv, TypeOK
<1>9. ParseInv'
  BY <1>1 DEF IInv, ParseInv, TheMap
<1>10. SizeInv'
  <2>1. nr_page_structs' = PGNUM(max_kern_mem')
    BY <1>1
  <2>2. max_kern_mem' = 0 \/ \E k \in DOMAIN m : Usable(m[k]) /\ End(m[k]) = max_kern_mem'
    BY <1>3, <1>4, <1>6 DEF IInv, SizeInv
  <2>3. \A k \in DOMAIN m : End(m[k]) \in Nat /\ k \in Nat
    BY <1>4 DEF MapOK
  <2>4. \A k \in DOMAIN m : k < i =>
          /\ Usable(m[k]) => End(m[k]) <= max_kern_mem
          /\ End(m[k]) <= max_phy
    BY <1>1, <1>3 DEF IInv, SizeInv
  <2>5. \A k \in DOMAIN m : k < i' =>
          /\ Usable(m[k]) => End(m[k]) <= max_kern_mem'
          /\ End(m[k]) <= max_phy'
    <3> SUFFICES ASSUME NEW k \in DOMAIN m, k < i'
                 PROVE  /\ Usable(m[k]) => End(m[k]) <= max_kern_mem'
                        /\ End(m[k]) <= max_phy'
      OBVIOUS
    <3>1. CASE k = i
      BY <1>6, <1>7, <3>1
    <3>2. CASE k # i
      <4>1. k < i
        BY <1>1, <1>4, <2>3, <3>2
      <4> QED BY <1>4, <1>6, <1>7, <2>3, <2>4, <4>1
    <3> QED BY <3>1, <3>2
  <2>6. boot_mem_map' = m /\ pc' = "init"
    BY <1>1, <1>3
  <2> QED BY <2>1, <2>2, <2>5, <2>6 DEF SizeInv, PGNUM
<1>11. EntryInv' /\ ReachInv'
  BY <1>1 DEF EntryInv, ReachInv, Mapping
<1>12. CollectInv'
  BY <1>1, <1>2, Empty DEF CollectInv
<1>13. TableInv'
  <2>1. list' = << >> /\ table' = [p \in Page |-> << >>] /\ kern_entry' = PT!None
        /\ pc' \notin Mapping \cup Stopped
    BY <1>1, <1>2 DEF Mapping, Stopped
  <2> QED BY <2>1, SoundList, Empty DEF TableInv
<1> QED BY <1>8, <1>9, <1>10, <1>11, <1>12, <1>13 DEF IInv

\* From the sizes on, neither the memory map nor the sizes change.
LEMMA SizesKept ==
  ASSUME IInv, pc \notin {"kernel_main", "tags"}, pc' \notin {"kernel_main", "tags", "init"},
         pc = "init" => i > Len(boot_mem_map),
         UNCHANGED <<info, boot_mem_map, max_kern_mem, max_phy, nr_page_structs>>
  PROVE  ParseInv' /\ SizeInv' /\ Room' = Room /\ \A p, k : Linkable(p, k)' = Linkable(p, k)
<1>1. ParseInv'
  BY DEF IInv, ParseInv, TheMap
<1>2. \A k \in DOMAIN boot_mem_map : pc = "init" => k < i
  BY DEF IInv, TypeOK
<1>3. SizeInv'
  BY <1>2 DEF IInv, SizeInv, PGNUM
<1>4. \A p, k : Linkable(p, k)' = Linkable(p, k)
  BY DEF Linkable, InKernel, struct_tot_sz
<1>5. Room' = Room
  BY DEF Room, Linkable, InKernel, struct_tot_sz
<1> QED BY <1>1, <1>3, <1>4, <1>5

\* The page structs are cleared, or are not mapped.
LEMMA ClearStructsStep ==
  ASSUME IInv, ClearStructs, UNCHANGED tables
  PROVE  IInv'
<1>1. /\ pc = "init" /\ i > Len(boot_mem_map) /\ pc' \in {"collect", "fault"} /\ i' = 1
      /\ UNCHANGED <<info, boot_mem_map, max_kern_mem, max_phy, nr_page_structs, paddr, list, table, kern_entry>>
  BY DEF ClearStructs, sizes, tables
<1>2. list = << >> /\ paddr = -1
      /\ table = [p \in Page |-> << >>] /\ kern_entry = PT!None
  BY <1>1 DEF IInv, CollectInv, TableInv, Early, Mapping, Stopped
<1>3. ParseInv' /\ SizeInv'
  BY <1>1, SizesKept
<1>4. TypeOK'
  BY <1>1 DEF IInv, TypeOK, Stopped
<1>5. EntryInv' /\ ReachInv'
  BY <1>1, <1>2 DEF EntryInv, ReachInv, Mapping
<1>6. CollectInv'
  <2>1. \A k \in DOMAIN boot_mem_map : \A p : ~Past(p, k)'
    BY <1>1, <1>2 DEF Past, IInv, TypeOK
  <2>2. list' = << >> /\ pc' \notin Early \cup {"done"} /\ boot_mem_map' = boot_mem_map
    BY <1>1, <1>2 DEF Early
  <2> QED BY <2>1, <2>2, Empty DEF CollectInv
<1>7. TableInv'
  <2>1. list' = << >> /\ table' = [p \in Page |-> << >>] /\ kern_entry' = PT!None
    BY <1>1, <1>2
  <2> QED BY <2>1, SoundList, Empty DEF TableInv
<1> QED BY <1>3, <1>4, <1>5, <1>6, <1>7 DEF IInv

-----------------------------------------------------------------------------
(* CollectAvailable.                                                       *)

LEMMA PageOf ==
  ASSUME NEW a \in Nat, a % 16 = 0
  PROVE  PGNUM(a) \in Nat /\ First(PGNUM(a)) = a
BY DEF PGNUM, First, PAGESIZE

\* Every page that the loop is past is on the list, and only those.
Collected ==
  /\ \A n \in DOMAIN list : \E k \in DOMAIN boot_mem_map : Linkable(list[n], k) /\ Past(list[n], k)
  /\ \A p \in Nat : \A k \in DOMAIN boot_mem_map :
       Linkable(p, k) /\ Past(p, k) => \E n \in DOMAIN list : list[n] = p

LEMMA CollectStart ==
  ASSUME IInv, pc = "collect"
  PROVE  /\ MapOK(boot_mem_map) /\ Collected /\ IsInjective(list) /\ i \in Nat /\ list \in Seq(Nat)
         /\ \A k \in DOMAIN boot_mem_map : k \in Nat /\ 1 <= k /\ k <= Len(boot_mem_map)
         /\ table = [p \in Page |-> << >>] /\ kern_entry = PT!None
BY ParsedMap DEF IInv, CollectInv, Collected, TypeOK, TableInv, Mapping, Stopped

\* A step of CollectAvailable leaves the rest in order.
LEMMA CollectFrame ==
  ASSUME IInv, pc = "collect", pc' \in {"collect", "done", "panic"},
         UNCHANGED <<info, boot_mem_map, max_kern_mem, max_phy, nr_page_structs, table, kern_entry>>,
         TypeOK', EntryInv', CollectInv', pc' # "collect" => UNCHANGED list
  PROVE  IInv'
<1>1. ParseInv' /\ SizeInv' /\ Room' = Room /\ \A p, k : Linkable(p, k)' = Linkable(p, k)
  BY SizesKept
<1>2. table = [p \in Page |-> << >>] /\ kern_entry = PT!None /\ Sound(list, table, kern_entry, Room)
  BY DEF IInv, TableInv, Mapping, Stopped
<1>3. Sound(list', table', kern_entry', Room')
  <2>1. CASE pc' = "collect"
    <3>1. \A n \in DOMAIN list' : \E k \in DOMAIN boot_mem_map' : Linkable(list'[n], k)
      BY <1>1, <2>1 DEF CollectInv
    <3>2. list' \in Seq(Nat) /\ IsInjective(list')
      BY DEF TypeOK, CollectInv
    <3>3. \A n \in DOMAIN list' : list'[n] \in Room
      BY <3>1, <3>2 DEF Room
    <3>4. list' \in Seq(Room)
      <4>1. PICK f : f = list'
        OBVIOUS
      <4>2. PICK room : room = Room
        OBVIOUS
      <4>3. f \in Seq(Nat) /\ \A n \in DOMAIN f : f[n] \in room
        BY <3>2, <3>3, <4>1, <4>2
      <4>4. f \in Seq(room)
        BY <4>3
      <4> QED BY <4>1, <4>2, <4>4
    <3> QED BY <1>1, <1>2, <3>2, <3>4, SoundList
  <2>2. CASE pc' # "collect"
    BY <1>1, <1>2, <2>2
  <2> QED BY <2>1, <2>2
<1>4. TableInv'
  BY <1>2, <1>3 DEF TableInv
<1>5. ReachInv'
  BY DEF ReachInv, Mapping
<1> QED BY <1>1, <1>4, <1>5 DEF IInv

LEMMA SkipEntryStep ==
  ASSUME IInv, SkipEntry, UNCHANGED tables
  PROVE  IInv'
<1>1. /\ pc = "collect" /\ i <= Len(boot_mem_map) /\ paddr = -1 /\ ~Usable(boot_mem_map[i]) /\ i' = i + 1
      /\ UNCHANGED <<info, boot_mem_map, max_kern_mem, max_phy, nr_page_structs, pc, paddr, list, table, kern_entry>>
  BY DEF SkipEntry, sizes, tables
<1>2. TypeOK' /\ EntryInv'
  BY <1>1 DEF IInv, TypeOK, EntryInv
<1>3. \A p \in Nat : \A k \in DOMAIN boot_mem_map :
        (Linkable(p, k) /\ Past(p, k)) <=> (Linkable(p, k)' /\ Past(p, k)')
  <2>1. \A p, k : Linkable(p, k)' = Linkable(p, k)
    BY <1>1, SizesKept
  <2>2. \A p, k : Linkable(p, k) => k # i
    BY <1>1 DEF Linkable
  <2>3. \A p : \A k \in DOMAIN boot_mem_map : k # i => (Past(p, k) <=> Past(p, k)')
    BY <1>1, CollectStart DEF Past
  <2> QED BY <2>1, <2>2, <2>3
<1>4. CollectInv'
  BY <1>1, <1>3, CollectStart DEF CollectInv, Collected, Early
<1> QED BY <1>1, <1>2, <1>4, CollectFrame

LEMMA EnterEntryStep ==
  ASSUME IInv, EnterEntry, UNCHANGED tables
  PROVE  IInv'
<1>1. /\ pc = "collect" /\ i <= Len(boot_mem_map) /\ paddr = -1 /\ Usable(boot_mem_map[i])
      /\ paddr' = boot_mem_map[i].addr
      /\ UNCHANGED <<info, boot_mem_map, max_kern_mem, max_phy, nr_page_structs, pc, i, list, table, kern_entry>>
  BY DEF EnterEntry, sizes, tables
<1>2. i \in DOMAIN boot_mem_map /\ boot_mem_map[i].addr \in Nat /\ boot_mem_map[i].addr % 16 = 0
  <2>1. i \in DOMAIN boot_mem_map /\ boot_mem_map \in Seq(MapEntry)
    BY <1>1 DEF IInv, TypeOK
  <2>2. boot_mem_map[i] \in MapEntry
    BY <2>1
  <2>3. boot_mem_map[i].addr \in Nat
    BY <2>2 DEF MapEntry
  <2> QED BY <1>1, <2>1, <2>3, CollectStart DEF MapOK
<1>3. TypeOK' /\ EntryInv'
  BY <1>1, <1>2 DEF IInv, TypeOK, EntryInv, PAGESIZE
<1>4. \A p \in Nat : \A k \in DOMAIN boot_mem_map :
        (Linkable(p, k) /\ Past(p, k)) <=> (Linkable(p, k)' /\ Past(p, k)')
  <2>1. \A p, k : Linkable(p, k)' = Linkable(p, k)
    BY <1>1, SizesKept
  <2>2. \A p \in Nat : Linkable(p, i) => ~(First(p) < boot_mem_map[i].addr)
    BY <1>1, <1>2 DEF Linkable, Within, First, PAGESIZE
  <2>3. \A p \in Nat : \A k \in DOMAIN boot_mem_map : Linkable(p, k) => (Past(p, k) <=> Past(p, k)')
    BY <1>1, <1>2, <2>2, CollectStart DEF Past
  <2> QED BY <2>1, <2>3
<1>5. CollectInv'
  <2>1. list' = list /\ boot_mem_map' = boot_mem_map /\ pc' = "collect" /\ Collected /\ IsInjective(list)
    BY <1>1, CollectStart
  <2>2. \A n \in DOMAIN list : list[n] \in Nat
    BY <1>1, CollectStart
  <2>3. Collected'
    BY <1>4, <2>1, <2>2 DEF Collected
  <2> QED BY <2>1, <2>3 DEF CollectInv, Collected, Early
<1> QED BY <1>1, <1>3, <1>5, CollectFrame

LEMMA NoStructStep ==
  ASSUME IInv, NoStruct, UNCHANGED tables
  PROVE  IInv'
<1>1. /\ pc = "collect" /\ pc' = "panic"
      /\ UNCHANGED <<info, boot_mem_map, max_kern_mem, max_phy, nr_page_structs, i, paddr, list, table, kern_entry>>
  BY DEF NoStruct, sizes, tables
<1>2. TypeOK' /\ EntryInv' /\ CollectInv'
  BY <1>1 DEF IInv, TypeOK, EntryInv, CollectInv, Stopped, Early
<1> QED BY <1>1, <1>2, CollectFrame

LEMMA LeaveEntryStep ==
  ASSUME IInv, LeaveEntry, UNCHANGED tables
  PROVE  IInv'
<1>1. /\ pc = "collect" /\ paddr # -1 /\ ~(paddr < End(boot_mem_map[i])) /\ paddr' = -1 /\ i' = i + 1
      /\ UNCHANGED <<info, boot_mem_map, max_kern_mem, max_phy, nr_page_structs, pc, list, table, kern_entry>>
  BY DEF LeaveEntry, More, sizes, tables
<1>2. TypeOK' /\ EntryInv'
  BY <1>1 DEF IInv, TypeOK, EntryInv
<1>3. \A p \in Nat : \A k \in DOMAIN boot_mem_map :
        (Linkable(p, k) /\ Past(p, k)) <=> (Linkable(p, k)' /\ Past(p, k)')
  <2>1. \A p, k : Linkable(p, k)' = Linkable(p, k)
    BY <1>1, SizesKept
  <2>2. i \in DOMAIN boot_mem_map /\ End(boot_mem_map[i]) \in Nat /\ paddr \in Int
    BY <1>1, CollectStart DEF IInv, EntryInv, TypeOK, MapOK
  <2>3. \A p \in Nat : Linkable(p, i) => First(p) < paddr
    BY <1>1, <2>2 DEF Linkable, Within, First, PAGESIZE
  <2>4. \A p \in Nat : \A k \in DOMAIN boot_mem_map : Linkable(p, k) => (Past(p, k) <=> Past(p, k)')
    BY <1>1, <2>2, <2>3, CollectStart DEF Past
  <2> QED BY <2>1, <2>4
<1>4. CollectInv'
  BY <1>1, <1>3, CollectStart DEF CollectInv, Collected, Early
<1> QED BY <1>1, <1>2, <1>4, CollectFrame

LEMMA CollectDoneStep ==
  ASSUME IInv, CollectDone, UNCHANGED tables
  PROVE  IInv'
<1>1. /\ pc = "collect" /\ i > Len(boot_mem_map) /\ pc' = "done"
      /\ UNCHANGED <<info, boot_mem_map, max_kern_mem, max_phy, nr_page_structs, i, paddr, list, table, kern_entry>>
  BY DEF CollectDone, sizes, tables
<1>2. TypeOK' /\ EntryInv'
  BY <1>1 DEF IInv, TypeOK, EntryInv
<1>3. CollectInv'
  <2>1. \A p, k : Linkable(p, k)' = Linkable(p, k)
    BY <1>1, SizesKept
  <2>2. \A p : \A k \in DOMAIN boot_mem_map : Past(p, k)
    BY <1>1, CollectStart DEF Past
  <2> QED BY <1>1, <2>1, <2>2, CollectStart DEF CollectInv, Collected, Early
<1> QED BY <1>1, <1>2, <1>3, CollectFrame

\* A page of the loop is within its entry, even if memory ends inside a page, and
\* no page of another entry.
LEMMA WholePage ==
  ASSUME NEW m, MapOK(m), NEW j \in DOMAIN m, Usable(m[j]),
         NEW a \in Nat, a % 16 = 0, m[j].addr <= a, a < End(m[j]),
         NEW max \in Nat, End(m[j]) <= max, \E k \in DOMAIN m : Usable(m[k]) /\ End(m[k]) = max,
         PGNUM(a) < PGNUM(max)
  PROVE  /\ Within(PGNUM(a), m[j])
         /\ \A k \in DOMAIN m : Within(PGNUM(a), m[k]) => k = j
<1>1. PICK k \in DOMAIN m : Usable(m[k]) /\ End(m[k]) = max
  OBVIOUS
<1>2. \A n \in DOMAIN m : m[n].addr \in Nat /\ End(m[n]) \in Nat
  <2>1. \A n \in DOMAIN m : m[n] \in MapEntry /\ End(m[n]) \in Nat
    BY DEF MapOK
  <2> QED BY <2>1 DEF MapEntry
<1>3. a + 16 <= max
  BY DEF PGNUM, PAGESIZE
<1>4. a + 16 <= End(m[j])
  <2>1. CASE k = j
    BY <1>1, <1>3, <2>1
  <2>2. CASE k # j
    <3>1. End(m[j]) <= m[k].addr \/ End(m[k]) <= m[j].addr
      BY <2>2 DEF MapOK
    <3>2. m[j].addr < m[k].addr
      BY <1>1, <1>2, <3>1
    <3>3. End(m[j]) % 16 = 0
      BY <1>1, <3>2 DEF MapOK
    <3>4. PICK e \in Nat : e = End(m[j])
      BY <1>2
    <3> QED BY <3>3, <3>4
  <2> QED BY <2>1, <2>2
<1>5. First(PGNUM(a)) = a /\ First(PGNUM(a) + 1) = a + 16
  BY PageOf DEF First, PAGESIZE
<1>6. Within(PGNUM(a), m[j])
  BY <1>4, <1>5 DEF Within
<1>7. ASSUME NEW n \in DOMAIN m, Within(PGNUM(a), m[n]), n # j PROVE FALSE
  <2>1. m[n].addr <= a /\ a + 16 <= End(m[n])
    BY <1>5, <1>7 DEF Within
  <2>2. End(m[j]) <= m[n].addr \/ End(m[n]) <= m[j].addr
    BY <1>7 DEF MapOK
  <2> QED BY <1>2, <1>4, <2>1, <2>2
<1> QED BY <1>6, <1>7

\* A page that is not the kernel's is linked.
LEMMA CollectStep ==
  ASSUME IInv, Collect, UNCHANGED tables
  PROVE  IInv'
<1>1. /\ pc = "collect" /\ paddr # -1 /\ paddr < End(boot_mem_map[i]) /\ PGNUM(paddr) < nr_page_structs
      /\ list' = IF InKernel(paddr) THEN list ELSE Append(list, PGNUM(paddr))
      /\ paddr' = paddr + 16
      /\ UNCHANGED <<info, boot_mem_map, max_kern_mem, max_phy, nr_page_structs, pc, i, table, kern_entry>>
  BY DEF Collect, More, sizes, tables, PAGESIZE
<1>2. PICK m, a, j : m = boot_mem_map /\ a = paddr /\ j = i
  OBVIOUS
<1>3. MapOK(m) /\ j \in DOMAIN m /\ Usable(m[j]) /\ m[j].addr \in Nat /\ End(m[j]) \in Nat
  <2>1. MapOK(m)
    BY <1>1, <1>2, CollectStart
  <2>2. j \in DOMAIN m /\ Usable(m[j])
    BY <1>1, <1>2 DEF IInv, EntryInv
  <2>3. m[j] \in MapEntry /\ End(m[j]) \in Nat
    BY <2>1, <2>2 DEF MapOK
  <2> QED BY <2>1, <2>2, <2>3 DEF MapEntry
<1>4. a \in Nat /\ a % 16 = 0 /\ m[j].addr <= a /\ a < End(m[j])
  BY <1>1, <1>2, <1>3 DEF IInv, EntryInv, TypeOK, PAGESIZE
<1>5. PICK q \in Nat : q = PGNUM(a) /\ First(q) = a
  BY <1>4, PageOf
<1>6. /\ Within(q, m[j])
      /\ \A k \in DOMAIN m : Within(q, m[k]) => k = j
  <2>1. PICK max \in Nat : max = max_kern_mem
    BY DEF IInv, TypeOK
  <2>2. End(m[j]) <= max /\ nr_page_structs = PGNUM(max)
    BY <1>1, <1>2, <1>3, <2>1 DEF IInv, SizeInv
  <2>3. max # 0
    BY <1>3, <1>4, <2>2
  <2>4. \E k \in DOMAIN m : Usable(m[k]) /\ End(m[k]) = max
    BY <1>2, <2>1, <2>3 DEF IInv, SizeInv
  <2>5. PGNUM(a) < PGNUM(max)
    BY <1>1, <1>2, <2>2
  <2> QED BY <1>3, <1>4, <1>5, <2>2, <2>4, <2>5, WholePage
<1>7. /\ list \in Seq(Nat) /\ IsInjective(list) /\ Collected
      /\ \A k \in DOMAIN m : k \in Nat /\ j \in Nat
  BY <1>1, <1>2, CollectStart
<1>8. list' \in Seq(Nat)
  BY <1>1, <1>2, <1>5, <1>7
<1>9. TypeOK' /\ EntryInv'
  <2>1. TypeOK'
    BY <1>1, <1>2, <1>4, <1>8 DEF IInv, TypeOK
  <2>2. paddr' % 16 = 0 /\ paddr' >= m[j].addr
    BY <1>1, <1>2, <1>3, <1>4
  <2> QED BY <1>1, <1>2, <1>3, <2>1, <2>2 DEF EntryInv, PAGESIZE
<1>10. \A p, k : Linkable(p, k)' = Linkable(p, k)
  BY <1>1, SizesKept
\* Of the pages that are linked, q is the one that the loop is past now.
<1>11. \A p \in Nat : \A k \in DOMAIN m :
         Past(p, k)' <=> (Past(p, k) \/ (k = j /\ p = q))
  <2> SUFFICES ASSUME NEW p \in Nat, NEW k \in DOMAIN m
               PROVE  Past(p, k)' <=> (Past(p, k) \/ (k = j /\ p = q))
    OBVIOUS
  <2>1. First(p) < a + 16 <=> First(p) < a \/ p = q
    BY <1>4, <1>5 DEF First, PAGESIZE
  <2>2. a + 16 # -1 /\ a # -1
    BY <1>4
  <2> QED BY <1>1, <1>2, <1>7, <2>1, <2>2 DEF Past
<1>12. Linkable(q, j) <=> ~InKernel(paddr)
  BY <1>2, <1>3, <1>5, <1>6 DEF Linkable
<1>13. \A k \in DOMAIN m : Linkable(q, k) => k = j /\ ~Past(q, k)
  <2>1. ~Past(q, j)
    <3>1. j \in Nat /\ ~(j < i) /\ ~(First(q) < paddr)
      BY <1>2, <1>3, <1>4, <1>5, <1>7
    <3> QED BY <3>1 DEF Past
  <2> QED BY <1>2, <1>6, <2>1 DEF Linkable
<1>14. IsInjective(list') /\ Collected'
  <2>1. CASE InKernel(paddr)
    <3>1. list' = list /\ ~Linkable(q, j)
      BY <1>1, <1>12, <2>1
    <3>2. \A n \in DOMAIN list : list[n] \in Nat
      BY <1>7
    <3>3. \A p \in Nat : \A k \in DOMAIN m : (Linkable(p, k) /\ Past(p, k)) <=> (Linkable(p, k)' /\ Past(p, k)')
      BY <1>10, <1>11, <1>13, <3>1
    <3>4. boot_mem_map' = m /\ boot_mem_map = m
      BY <1>1, <1>2
    <3> QED BY <1>7, <3>1, <3>2, <3>3, <3>4 DEF Collected
  <2>2. CASE ~InKernel(paddr)
    <3>1. list' = Append(list, q) /\ Linkable(q, j)
      BY <1>1, <1>2, <1>5, <1>12, <2>2
    <3>2. PICK f, g : f = list /\ g = list'
      OBVIOUS
    <3>3. /\ f \in Seq(Nat) /\ g = Append(f, q) /\ DOMAIN g = 1 .. Len(f) + 1 /\ DOMAIN f = 1 .. Len(f)
          /\ Len(f) \in Nat /\ g[Len(f) + 1] = q /\ \A n \in DOMAIN f : n \in DOMAIN g /\ g[n] = f[n] /\ f[n] \in Nat
      BY <1>5, <1>7, <3>1, <3>2
    <3>4. boot_mem_map' = m /\ boot_mem_map = m
      BY <1>1, <1>2
    <3>5. \A n \in DOMAIN f : f[n] # q
      BY <1>7, <1>13, <3>2, <3>4 DEF Collected
    <3>6. \A n \in DOMAIN g : n \in DOMAIN f \/ n = Len(f) + 1
      BY <3>3
    <3>7. IsInjective(g)
      <4>1. \A b, c \in DOMAIN f : f[b] = f[c] => b = c
        BY <1>7, <3>2 DEF IsInjective
      <4> QED BY <3>3, <3>5, <3>6, <4>1 DEF IsInjective
    <3>8. \A n \in DOMAIN g : \E k \in DOMAIN m : Linkable(g[n], k)' /\ Past(g[n], k)'
      <4> SUFFICES ASSUME NEW n \in DOMAIN g PROVE \E k \in DOMAIN m : Linkable(g[n], k)' /\ Past(g[n], k)'
        OBVIOUS
      <4>1. CASE n = Len(f) + 1
        <5>1. g[n] = q
          BY <3>3, <4>1
        <5> QED BY <1>3, <1>10, <1>11, <3>1, <5>1
      <4>2. CASE n \in DOMAIN f
        <5>1. PICK k \in DOMAIN m : Linkable(f[n], k) /\ Past(f[n], k)
          BY <1>7, <3>2, <3>4, <4>2 DEF Collected
        <5>2. Linkable(f[n], k)' /\ Past(f[n], k)'
          BY <1>10, <1>11, <3>3, <4>2, <5>1
        <5> QED BY <3>3, <4>2, <5>2
      <4> QED BY <3>6, <4>1, <4>2
    <3>9. \A p \in Nat : \A k \in DOMAIN m :
            Linkable(p, k)' /\ Past(p, k)' => \E n \in DOMAIN g : g[n] = p
      <4> SUFFICES ASSUME NEW p \in Nat, NEW k \in DOMAIN m, Linkable(p, k)', Past(p, k)'
                   PROVE  \E n \in DOMAIN g : g[n] = p
        OBVIOUS
      <4>1. CASE p = q
        BY <3>3, <4>1
      <4>2. CASE Past(p, k)
        <5>1. Linkable(p, k)
          BY <1>10
        <5>2. \E n \in DOMAIN f : f[n] = p
          BY <1>7, <3>2, <3>4, <4>2, <5>1 DEF Collected
        <5> QED BY <3>3, <5>2
      <4> QED BY <1>11, <4>1, <4>2
    <3>10. list' = g
      BY <3>2
    <3> QED BY <3>4, <3>7, <3>8, <3>9, <3>10 DEF Collected
  <2> QED BY <2>1, <2>2
<1>15. CollectInv'
  BY <1>1, <1>14 DEF CollectInv, Collected, Early
<1> QED BY <1>1, <1>9, <1>15, CollectFrame

-----------------------------------------------------------------------------
(* InitKernelPageTable and MapPage.                                        *)

LEMMA Reach ==
  /\ PT!KERN_MAX_MEMORY \in Nat /\ PT!HUGEPAGESIZE \in Nat /\ PT!LARGEPAGESIZE \in Nat
  /\ \A a \in Nat : a < PT!KERN_MAX_MEMORY => a \div 16 \in Page
  /\ \A p \in Nat : First(p + 1) <= PT!KERN_MAX_MEMORY => p \in Page
<1>1. PICK n \in Nat : n = Fan * Fan * Fan
  BY FanFacts
<1>2. Page = 0 .. (n - 1)
  BY <1>1 DEF Page
<1>3. Fan * (Fan * (Fan * 16)) = n * 16
  BY <1>1, FanFacts
<1>4. PT!KERN_MAX_MEMORY = n * 16
  BY <1>3, SameNames
<1>5. PT!HUGEPAGESIZE \in Nat /\ PT!LARGEPAGESIZE \in Nat
  <2>1. Fan * 16 \in Nat
    BY FanFacts
  <2>2. \A k \in Nat : Fan * k \in Nat
    BY FanFacts
  <2> QED BY <2>1, <2>2 DEF PT!HUGEPAGESIZE, PT!LARGEPAGESIZE, PT!PAGESIZE
<1>6. \A a \in Nat : a < n * 16 => a \div 16 \in 0 .. (n - 1)
  OBVIOUS
<1>7. \A p \in Nat : First(p + 1) <= n * 16 => p \in 0 .. (n - 1)
  BY DEF First, PAGESIZE
<1> QED BY <1>2, <1>4, <1>5, <1>6, <1>7

\* The list's pages have tables' entries.
LEMMA RoomInPage ==
  ASSUME IInv, pc \in Mapping
  PROVE  Room \subseteq Page
<1> SUFFICES ASSUME NEW p \in Room PROVE p \in Page
  OBVIOUS
<1>1. PICK k \in DOMAIN boot_mem_map : Linkable(p, k)
  BY DEF Room
<1>2. p \in Nat /\ First(p + 1) <= End(boot_mem_map[k])
  BY <1>1 DEF Room, Linkable, Within
<1>3. End(boot_mem_map[k]) \in Nat
  BY ParsedMap DEF IInv, MapOK, Mapping
<1>4. End(boot_mem_map[k]) <= max_phy /\ max_phy <= PT!KERN_MAX_MEMORY /\ max_phy \in Nat
  BY DEF IInv, SizeInv, ReachInv, Mapping, TypeOK
<1>5. First(p + 1) <= PT!KERN_MAX_MEMORY
  BY <1>2, <1>3, <1>4, Reach DEF First, PAGESIZE
<1> QED BY <1>2, <1>5, Reach

\* A step of InitKernelPageTable leaves the rest in order.
LEMMA MappingFrame ==
  ASSUME IInv, pc \in Mapping \cup {"done"}, pc' \in Mapping \cup Stopped,
         UNCHANGED <<info, boot_mem_map, max_kern_mem, max_phy, nr_page_structs, paddr>>,
         i' \in Nat, i' >= 1, Sound(list', table', kern_entry', Room), ReachInv'
  PROVE  IInv'
<1>1. /\ pc \notin Early \cup {"collect"} /\ pc' \notin Early \cup {"collect", "done"}
      /\ pc' \in Early \cup {"collect", "done"} \cup Mapping \cup Stopped
  BY DEF Early, Mapping, Stopped
<1>2. ParseInv' /\ SizeInv' /\ Room' = Room
  BY <1>1, SizesKept DEF Early
<1>3. PICK room : room = Room
  OBVIOUS
<1>4. list' \in Seq(room) /\ IsInjective(list')
  BY <1>3 DEF Sound
<1>5. \A p \in room : p \in Nat
  BY <1>3 DEF Room
<1>6. list' \in Seq(Nat)
  BY <1>4, <1>5
<1>7. TypeOK'
  BY <1>1, <1>6 DEF IInv, TypeOK
<1>8. EntryInv' /\ CollectInv'
  BY <1>1, <1>4 DEF EntryInv, CollectInv
<1>9. TableInv'
  BY <1>2 DEF TableInv
<1> QED BY <1>2, <1>7, <1>8, <1>9 DEF IInv

LEMMA CheckMemoryStep ==
  ASSUME IInv, PT!CheckMemory, UNCHANGED <<info, max_kern_mem, nr_page_structs, paddr>>
  PROVE  IInv'
<1>1. /\ pc = "done" /\ pc' = (IF max_phy > PT!KERN_MAX_MEMORY THEN "panic" ELSE "entries") /\ i' = 1
      /\ UNCHANGED <<info, boot_mem_map, max_kern_mem, max_phy, nr_page_structs, paddr, list, table, kern_entry>>
  BY DEF PT!CheckMemory, PT!tables
<1>2. pc' \in Mapping \cup Stopped
  BY <1>1 DEF Mapping, Stopped
<1>3. ReachInv'
  BY <1>1, Reach DEF ReachInv, Mapping, IInv, TypeOK
<1>4. Sound(list', table', kern_entry', Room)
  BY <1>1 DEF IInv, TableInv
<1> QED BY <1>1, <1>2, <1>3, <1>4, MappingFrame

LEMMA NextEntryStep ==
  ASSUME IInv, PT!NextEntry, UNCHANGED <<info, max_kern_mem, nr_page_structs, paddr>>
  PROVE  IInv'
<1>1. /\ pc = "entries" /\ i <= Len(boot_mem_map)
      /\ \/ pc' = "entries" /\ i' = i + 1
         \/ pc' = "map" /\ addr' = boot_mem_map[i].addr /\ i' = i
      /\ UNCHANGED <<info, boot_mem_map, max_kern_mem, max_phy, nr_page_structs, paddr, list, table, kern_entry>>
  BY DEF PT!NextEntry, PT!Entry
<1>2. i \in DOMAIN boot_mem_map /\ boot_mem_map[i].addr \in Nat /\ i' \in Nat /\ i' >= 1
  <2>1. i \in DOMAIN boot_mem_map /\ boot_mem_map \in Seq(MapEntry) /\ i \in Nat /\ i >= 1
    BY <1>1 DEF IInv, TypeOK
  <2>2. boot_mem_map[i] \in MapEntry
    BY <2>1
  <2>3. boot_mem_map[i].addr \in Nat
    BY <2>2 DEF MapEntry
  <2> QED BY <1>1, <2>1, <2>3
<1>3. pc \in Mapping /\ pc' \in Mapping
  BY <1>1 DEF Mapping
<1>4. ReachInv'
  BY <1>1, <1>2, <1>3 DEF ReachInv, IInv
<1>5. Sound(list', table', kern_entry', Room)
  BY <1>1 DEF IInv, TableInv
<1> QED BY <1>1, <1>2, <1>3, <1>4, <1>5, MappingFrame

LEMMA MapDoneStep ==
  ASSUME IInv, PT!MapDone, UNCHANGED <<info, max_kern_mem, nr_page_structs, paddr>>
  PROVE  IInv'
<1>1. /\ pc = "map" /\ pc' = "entries" /\ i' = i + 1
      /\ UNCHANGED <<info, boot_mem_map, max_kern_mem, max_phy, nr_page_structs, paddr, list, table, kern_entry>>
  BY DEF PT!MapDone, PT!tables
<1>2. pc \in Mapping /\ pc' \in Mapping /\ i' \in Nat /\ i' >= 1
  BY <1>1 DEF Mapping, IInv, TypeOK
<1>3. ReachInv'
  BY <1>1, <1>2 DEF ReachInv, IInv
<1>4. Sound(list', table', kern_entry', Room)
  BY <1>1 DEF IInv, TableInv
<1> QED BY <1>1, <1>2, <1>3, <1>4, MappingFrame

LEMMA InstallStep ==
  ASSUME IInv, PT!Install, UNCHANGED <<info, max_kern_mem, nr_page_structs, paddr>>
  PROVE  IInv'
<1>1. /\ pc = "entries" /\ pc' = "installed"
      /\ UNCHANGED <<info, boot_mem_map, max_kern_mem, max_phy, nr_page_structs, i, paddr, list, table, kern_entry>>
  BY DEF PT!Install
<1>2. pc \in Mapping /\ pc' \in Mapping /\ i' \in Nat /\ i' >= 1
  BY <1>1 DEF Mapping, IInv, TypeOK
<1>3. ReachInv'
  BY <1>1, <1>2 DEF ReachInv, IInv
<1>4. Sound(list', table', kern_entry', Room)
  BY <1>1 DEF IInv, TableInv
<1> QED BY <1>1, <1>2, <1>3, <1>4, MappingFrame

\* What is mapped is a leaf.
LEMMA LeafKind ==
  \A p, huge, wt, cd : PT!Leaf(p, huge, wt, cd).kind = "leaf"
BY DEF PT!Leaf

\* A walk from here leaves sound tables behind.
LEMMA WalkStep ==
  ASSUME IInv, pc \in Mapping, NEW p \in Page, NEW en, en.kind = "leaf",
         NEW next \in Mapping, NEW v,
         \/ v = PT!MapHuge(PT!Here, p, en)
         \/ v = PT!MapLarge(PT!Here, p, en)
         \/ v = PT!MapSmall(PT!Here, p, en),
         list' = v.free /\ table' = v.table /\ kern_entry' = v.root,
         pc' = IF v.end = "ok" THEN next ELSE v.end
  PROVE  Sound(list', table', kern_entry', Room) /\ pc' \in {next} \cup Stopped
<1>1. PICK room : room = Room /\ room \subseteq Page
  BY RoomInPage
<1>2. PICK w : w = PT!Here
  OBVIOUS
<1>3. Good(w, room) /\ w.end = "ok"
  <2>1. w.free = list /\ w.table = table /\ w.root = kern_entry /\ w.end = "ok"
        /\ w = [free |-> w.free, table |-> w.table, root |-> w.root, end |-> w.end]
    BY <1>2 DEF PT!Here
  <2> QED BY <1>1, <2>1 DEF Good, Ends, IInv, TableInv
<1>4. v = PT!MapHuge(w, p, en) \/ v = PT!MapLarge(w, p, en) \/ v = PT!MapSmall(w, p, en)
  BY <1>2
<1>5. Good(v, room)
  <2>1. CASE v = PT!MapHuge(w, p, en)
    BY <1>1, <1>3, <2>1, MapHugeGood
  <2>2. CASE v = PT!MapLarge(w, p, en)
    BY <1>1, <1>3, <2>2, MapLargeGood
  <2>3. CASE v = PT!MapSmall(w, p, en)
    BY <1>1, <1>3, <2>3, MapSmallGood
  <2> QED BY <1>4, <2>1, <2>2, <2>3
<1> QED BY <1>1, <1>5 DEF Good, Ends, Stopped

\* A page of an entry is mapped.
LEMMA MapStepStep ==
  ASSUME IInv, PT!MapStep, UNCHANGED <<info, max_kern_mem, nr_page_structs, paddr>>
  PROVE  IInv'
<1>1. /\ pc = "map" /\ addr < End(boot_mem_map[i])
      /\ UNCHANGED <<info, boot_mem_map, max_kern_mem, max_phy, nr_page_structs, i, paddr>>
  BY DEF PT!MapStep, PT!Entry, PT!End, End
<1>2. PICK p, wt : p = addr \div PT!PAGESIZE /\ wt = ~PT!Avail
  OBVIOUS
<1>3. pc \in Mapping /\ i \in DOMAIN boot_mem_map /\ addr \in Nat
  BY <1>1 DEF Mapping, IInv, ReachInv
<1>4. p \in Page
  <2>1. End(boot_mem_map[i]) \in Nat
    BY <1>1, <1>3, ParsedMap DEF IInv, MapOK
  <2>2. End(boot_mem_map[i]) <= max_phy /\ max_phy <= PT!KERN_MAX_MEMORY /\ max_phy \in Nat
    BY <1>1, <1>3 DEF IInv, SizeInv, ReachInv, TypeOK
  <2>3. addr < PT!KERN_MAX_MEMORY
    BY <1>1, <1>3, <2>1, <2>2, Reach
  <2> QED BY <1>2, <1>3, <2>3, Reach DEF PT!PAGESIZE
<1>5. PICK en, v :
        /\ en.kind = "leaf"
        /\ \/ v = PT!MapHuge(PT!Here, p, en)
           \/ v = PT!MapLarge(PT!Here, p, en)
           \/ v = PT!MapSmall(PT!Here, p, en)
        /\ list' = v.free /\ table' = v.table /\ kern_entry' = v.root
        /\ pc' = IF v.end = "ok" THEN "map" ELSE v.end
        /\ addr' \in Nat
  <2>1. \/ PT!Take(PT!MapHuge(PT!Here, p, PT!Leaf(p, TRUE, wt, FALSE)), "map") /\ addr' = addr + PT!HUGEPAGESIZE
        \/ PT!Take(PT!MapLarge(PT!Here, p, PT!Leaf(p, TRUE, wt, FALSE)), "map") /\ addr' = addr + PT!LARGEPAGESIZE
        \/ PT!Take(PT!MapSmall(PT!Here, p, PT!Leaf(p, FALSE, wt, FALSE)), "map") /\ addr' = addr + PT!PAGESIZE
    BY <1>2, Zenon DEF PT!MapStep
  <2>2. addr' \in Nat
    <3>1. PICK d : d \in {PT!HUGEPAGESIZE, PT!LARGEPAGESIZE, PT!PAGESIZE} /\ addr' = addr + d
      BY <2>1, Zenon
    <3>2. d \in Nat
      BY <3>1, Reach DEF PT!PAGESIZE
    <3> QED BY <1>3, <3>1, <3>2
  <2>3. PICK huge, large :
          /\ huge = PT!Leaf(p, TRUE, wt, FALSE) /\ large = PT!Leaf(p, FALSE, wt, FALSE)
    OBVIOUS
  <2>4. huge.kind = "leaf" /\ large.kind = "leaf"
    BY <2>3, LeafKind
  <2> QED BY <2>1, <2>2, <2>3, <2>4 DEF PT!Take
<1>6. "map" \in Mapping
  BY DEF Mapping
<1>7. Sound(list', table', kern_entry', Room) /\ pc' \in {"map"} \cup Stopped
  BY <1>3, <1>4, <1>5, <1>6, WalkStep
<1>8. i' \in Nat /\ i' >= 1 /\ pc' \in Mapping \cup Stopped
  BY <1>1, <1>6, <1>7 DEF IInv, TypeOK
<1>9. ReachInv'
  BY <1>1, <1>3, <1>5 DEF ReachInv, IInv
<1> QED BY <1>1, <1>3, <1>7, <1>8, <1>9, MappingFrame

\* A device page is mapped.
LEMMA MapPageStep ==
  ASSUME IInv, NEW p \in Devices, PT!MapPage(p), UNCHANGED <<info, max_kern_mem, nr_page_structs, paddr>>
  PROVE  IInv'
<1>1. /\ pc = "installed" /\ PT!Take(PT!MapSmall(PT!Here, p, PT!Leaf(p, FALSE, FALSE, TRUE)), "installed")
      /\ UNCHANGED <<info, boot_mem_map, max_kern_mem, max_phy, nr_page_structs, i, paddr, addr>>
  BY DEF PT!MapPage
<1>2. p \in Page
  BY BootAssumption
<1>3. PICK en : en = PT!Leaf(p, FALSE, FALSE, TRUE) /\ en.kind = "leaf"
  BY LeafKind
<1>4. PICK v :
        /\ v = PT!MapSmall(PT!Here, p, en)
        /\ list' = v.free /\ table' = v.table /\ kern_entry' = v.root
        /\ pc' = IF v.end = "ok" THEN "installed" ELSE v.end
  BY <1>1, <1>3 DEF PT!Take
<1>5. "installed" \in Mapping /\ pc \in Mapping
  BY <1>1 DEF Mapping
<1>6. Sound(list', table', kern_entry', Room) /\ pc' \in {"installed"} \cup Stopped
  BY <1>2, <1>3, <1>4, <1>5, WalkStep
<1>7. i' \in Nat /\ i' >= 1 /\ pc' \in Mapping \cup Stopped
  BY <1>1, <1>5, <1>6 DEF IInv, TypeOK
<1>8. ReachInv'
  BY <1>1, <1>5, <1>6 DEF ReachInv, IInv, Stopped
<1> QED BY <1>1, <1>5, <1>6, <1>7, <1>8, MappingFrame

-----------------------------------------------------------------------------
(* The invariants.                                                         *)

LEMMA StepInv == IInv /\ [BootNext]_vars => IInv'
<1> SUFFICES ASSUME IInv, [BootNext]_vars PROVE IInv'
  OBVIOUS
<1>1. CASE Next /\ UNCHANGED tables
  BY <1>1, ParseTagStep, TagsDoneStep, InitEntryStep, ClearStructsStep, SkipEntryStep, EnterEntryStep,
     NoStructStep, CollectStep, LeaveEntryStep, CollectDoneStep DEF Next, CollectAvailable
<1>2. CASE PT!Next /\ UNCHANGED <<info, max_kern_mem, nr_page_structs, paddr>>
  BY <1>2, InitBootPageTableStep, CheckMemoryStep, NextEntryStep, MapStepStep, MapDoneStep,
     InstallStep, MapPageStep DEF PT!Next
<1>3. CASE UNCHANGED vars
  <2>1. /\ UNCHANGED <<info, boot_mem_map, max_kern_mem, max_phy, nr_page_structs, pc, i, paddr, list>>
        /\ UNCHANGED <<table, kern_entry, addr>>
    BY <1>3 DEF vars, sizes, tables
  <2>2. TypeOK' /\ ParseInv' /\ EntryInv'
    BY <2>1 DEF IInv, TypeOK, ParseInv, Latest, TheMap, EntryInv
  <2>3. SizeInv'
    BY <2>1 DEF IInv, SizeInv, PGNUM
  <2>4. \A p, k : Linkable(p, k)' = Linkable(p, k) /\ Past(p, k)' = Past(p, k)
    BY <2>1 DEF Linkable, InKernel, struct_tot_sz, Past
  <2>5. Room' = Room
    BY <2>1 DEF Room, Linkable, InKernel, struct_tot_sz
  <2>6. CollectInv'
    BY <2>1, <2>4 DEF IInv, CollectInv
  <2>7. TableInv' /\ ReachInv'
    BY <2>1, <2>5 DEF IInv, TableInv, ReachInv
  <2> QED BY <2>2, <2>3, <2>6, <2>7 DEF IInv
<1> QED BY <1>1, <1>2, <1>3 DEF BootNext

\* Sizes, list and tables are in order whatever memory of whole pages the boot
\* loader lists.
THEOREM BootInvariant == BootSpec /\ WholePages(info) => []IInv
BY InitInv, StepInv, PTL DEF BootSpec

\* A page that is linked is available memory without anything of the kernel's.
LEMMA RoomKept ==
  ASSUME IInv, pc \notin Early, NEW p \in Room
  PROVE  ~Overlaps(p, load_start, kend_pg + struct_tot_sz) /\ \E x \in Available : Within(p, x)
<1>1. PICK k \in DOMAIN boot_mem_map : Linkable(p, k)
  BY DEF Room
<1>2. p \in Nat /\ Usable(boot_mem_map[k]) /\ Within(p, boot_mem_map[k]) /\ ~InKernel(First(p))
  BY <1>1 DEF Room, Linkable
<1>3. boot_mem_map[k] \in Available
  BY <1>2 DEF IInv, ParseInv, Early, Available, Entries, TheMap, ToSet, Usable
<1>4. load_start \in Nat /\ kstart_pg <= load_start /\ kstart_pg \in Nat /\ kstart_pg % 16 = 0
  BY BootAssumption DEF kstart_pg, PG, PGNUM, PAGESIZE
<1>5. PICK top : top = kend_pg + struct_tot_sz
  OBVIOUS
<1>6. top \in Int
  <2>1. bss_end \in Nat /\ kBootLoaderSkipPages \in Nat /\ StructSize \in Nat /\ nr_page_structs \in Nat
    BY BootAssumption DEF IInv, TypeOK
  <2>2. StructSize * nr_page_structs \in Nat
    BY <2>1
  <2>3. kend_pg \in Int
    BY <2>1 DEF kend_pg, PGALIGN, PG, PGNUM, PAGESIZE
  <2> QED BY <1>5, <2>2, <2>3 DEF struct_tot_sz
<1>7. ~(First(p) >= kstart_pg /\ First(p) < top)
  BY <1>2, <1>5 DEF InKernel
<1>8. ~(load_start < First(p + 1) /\ First(p) < top)
  BY <1>2, <1>4, <1>6, <1>7 DEF First, PAGESIZE
<1> QED BY <1>2, <1>3, <1>5, <1>8 DEF Overlaps

\* Neither AllocPage nor the tables ever touch the kernel's image, its bss, the boot
\* loader's data or the page structs: MemPages::CollectAvailable leaves them out of
\* whatever memory of whole pages it is given, even where the highest ends inside
\* a page.
THEOREM KernelIsKept == BootSpec /\ WholePages(info) => []KernelKept
<1>1. IInv => KernelKept
  <2> SUFFICES ASSUME IInv, NEW p \in ToSet(list) \cup Tables
               PROVE  ~Overlaps(p, load_start, kend_pg + struct_tot_sz) /\ \E x \in Available : Within(p, x)
    BY DEF KernelKept
  <2>1. Sound(list, table, kern_entry, Room)
    BY DEF IInv, TableInv
  <2>2. p \in Room
    <3>1. CASE p \in ToSet(list)
      BY <2>1, <3>1 DEF ToSet, Sound
    <3>2. CASE p \in Tables
      BY <2>1, <3>2 DEF Tables, Sound
    <3> QED BY <3>1, <3>2
  <2>3. pc \notin Early
    <3> SUFFICES ASSUME pc \in Early PROVE FALSE
      OBVIOUS
    <3>1. list = << >> /\ table = [q \in Page |-> << >>]
      BY DEF IInv, CollectInv, TableInv, Early, Mapping, Stopped
    <3> QED BY <3>1 DEF ToSet, Tables
  <2> QED BY <2>2, <2>3, RoomKept
<1> QED BY <1>1, BootInvariant, PTL

\* CollectAvailable's list is complete when it is done: every page of available memory
\* that the kernel does not take is on it once, whatever the order of the entries.
THEOREM EveryPageCollected == BootSpec /\ WholePages(info) => []NoPageLost
<1>1. IInv => NoPageLost
  <2> SUFFICES ASSUME IInv, pc = "done", NEW p \in FreePages
               PROVE  IsInjective(list) /\ p \in ToSet(list)
    BY DEF NoPageLost, IInv, CollectInv
  <2>1. PICK x \in Available : Within(p, x)
    BY DEF FreePages
  <2>2. PICK m : m = boot_mem_map /\ m = info[MemoryMap(info)].entries
    BY DEF IInv, ParseInv, TheMap
  <2>3. Entries = {m[k] : k \in DOMAIN m}
    BY <2>2 DEF Entries, ToSet
  <2>4. PICK k \in DOMAIN m : m[k] = x /\ Usable(m[k])
    BY <2>1, <2>3 DEF Available, Usable
  <2>5. p \in Nat /\ ~Overlaps(p, kstart_pg, StructsEnd)
    BY FanFacts DEF FreePages, Page
  <2>6. MapOK(m) /\ max_kern_mem \in Nat
    BY <2>2, ParsedMap DEF IInv, TypeOK
  <2>7. Max({End(y) : y \in Available}) = max_kern_mem
    <3> DEFINE S == {End(y) : y \in Available}
    <3>1. \A y : y \in Available <=> \E j \in DOMAIN m : y = m[j] /\ Usable(m[j])
      BY <2>3 DEF Available, Usable
    <3>2. \A e : e \in S <=> \E j \in DOMAIN m : Usable(m[j]) /\ e = End(m[j])
      BY <3>1
    <3>3. \A j \in DOMAIN m : End(m[j]) \in Nat
      BY <2>6 DEF MapOK
    <3>4. S \in SUBSET Nat
      BY <3>2, <3>3
    <3>5. \A j \in DOMAIN m : Usable(m[j]) => End(m[j]) <= max_kern_mem
      BY <2>2 DEF IInv, SizeInv
    <3>6. max_kern_mem \in S
      <4>1. max_kern_mem # 0
        <5>1. First(p + 1) <= End(m[k])
          BY <2>1, <2>4 DEF Within
        <5> QED BY <2>4, <2>5, <2>6, <3>3, <3>5, <5>1 DEF First, PAGESIZE
      <4>2. \E j \in DOMAIN m : Usable(m[j]) /\ End(m[j]) = max_kern_mem
        BY <2>2, <4>1 DEF IInv, SizeInv
      <4> QED BY <3>2, <4>2
    <3>7. \A e \in S : max_kern_mem >= e
      BY <3>2, <3>3, <3>5, <2>6
    <3> HIDE DEF S
    <3>8. PICK t : t = max_kern_mem
      OBVIOUS
    <3>9. Max(S) = t
      BY <3>4, <3>6, <3>7, <3>8, MaxIs
    <3> QED BY <3>8, <3>9 DEF S
  <2>8. StructsEnd = kend_pg + struct_tot_sz
    BY <2>7 DEF StructsEnd, struct_tot_sz, IInv, SizeInv
  <2>9. ~InKernel(First(p))
    <3>1. PICK top : top = kend_pg + struct_tot_sz
      OBVIOUS
    <3>2. kstart_pg \in Nat
      BY BootAssumption DEF kstart_pg, PG, PGNUM, PAGESIZE
    <3>3. ~(kstart_pg < First(p + 1) /\ First(p) < top)
      BY <2>5, <2>8, <3>1 DEF Overlaps
    <3>4. First(p) >= kstart_pg => kstart_pg < First(p + 1)
      BY <2>5, <3>2 DEF First, PAGESIZE
    <3> QED BY <3>1, <3>3, <3>4 DEF InKernel
  <2>10. Linkable(p, k)
    BY <2>1, <2>2, <2>4, <2>9 DEF Linkable
  <2>11. IsInjective(list) /\ \E n \in DOMAIN list : list[n] = p
    BY <2>2, <2>5, <2>10 DEF IInv, CollectInv
  <2> QED BY <2>11 DEF ToSet
<1> QED BY <1>1, BootInvariant, PTL

\* AllocateOrPresent never gives a page to two entries, and no table is on the list:
\* what CommonBaseEntry::Allocate clears and links was nobody's.
THEOREM TablesAreApart == BootSpec /\ WholePages(info) => []TablesApart
<1>1. IInv => TablesApart
  <2> SUFFICES ASSUME IInv PROVE TablesApart
    OBVIOUS
  <2>1. Sound(list, table, kern_entry, Room)
    BY DEF IInv, TableInv
  <2>2. \A l, k \in Links : table[l[1]][l[2]].page = table[k[1]][k[2]].page => l = k
    <3> SUFFICES ASSUME NEW l \in Links, NEW k \in Links, table[l[1]][l[2]].page = table[k[1]][k[2]].page
                 PROVE  l = k
      OBVIOUS
    <3>1. /\ l \in Tables \X Idx /\ table[l[1]][l[2]].kind = "table"
          /\ k \in Tables \X Idx /\ table[k[1]][k[2]].kind = "table"
      BY DEF Links
    <3>2. /\ l[1] \in Page /\ table[l[1]] # << >> /\ l[2] \in Idx /\ l = <<l[1], l[2]>>
          /\ k[1] \in Page /\ table[k[1]] # << >> /\ k[2] \in Idx /\ k = <<k[1], k[2]>>
      BY <3>1 DEF Tables
    <3>3. l[1] = k[1] /\ l[2] = k[2]
      BY <2>1, <3>1, <3>2 DEF Sound
    <3> QED BY <3>2, <3>3
  <2>3. ToSet(list) \cap Tables = {}
    BY <2>1 DEF ToSet, Tables, Sound
  <2> QED BY <2>2, <2>3 DEF TablesApart
<1> QED BY <1>1, BootInvariant, PTL

-----------------------------------------------------------------------------
(* What the tables translate.                                              *)

\* The entries on the way of page q, and the leaf that it meets, with its level.
D1(root, tab, q) == tab[root.page][PT!PdptIdx(q)]
D2(root, tab, q) == tab[D1(root, tab, q).page][PT!PdIdx(q)]
D3(root, tab, q) == tab[D2(root, tab, q).page][PT!PtIdx(q)]
Shown(level, e) == IF e.kind = "leaf" THEN <<level, e>> ELSE << >>
Seen(root, tab, q) ==
  IF root.kind # "table" THEN << >>
  ELSE IF D1(root, tab, q).kind # "table" THEN Shown(1, D1(root, tab, q))
  ELSE IF D2(root, tab, q).kind # "table" THEN Shown(2, D2(root, tab, q))
  ELSE Shown(3, D3(root, tab, q))

SameHuge(p, q) == PT!PdptIdx(p) = PT!PdptIdx(q)
SameLarge(p, q) == SameHuge(p, q) /\ PT!PdIdx(p) = PT!PdIdx(q)

\* There are three levels, and every table is on the way of a page of S.
Full(root, tab, S) ==
  root.kind = "table" =>
    \A q \in Page : D1(root, tab, q).kind = "table" =>
      /\ \E s \in S : SameHuge(q, s)
      /\ D2(root, tab, q).kind = "table" =>
           /\ \E s \in S : SameLarge(q, s)
           /\ D3(root, tab, q).kind # "table"

\* The way of a page is its own as far as its indexes are.
LEMMA Paths ==
  ASSUME NEW f, NEW tab, NEW root, NEW room, Sound(f, tab, root, room), root.kind = "table"
  PROVE  /\ root.page \in Page /\ tab[root.page] # << >>
         /\ \A q \in Page : D1(root, tab, q).kind = "table" =>
              /\ D1(root, tab, q).page \in Page /\ tab[D1(root, tab, q).page] # << >>
              /\ D1(root, tab, q).page # root.page
         /\ \A q \in Page : D1(root, tab, q).kind = "table" /\ D2(root, tab, q).kind = "table" =>
              /\ D2(root, tab, q).page \in Page /\ tab[D2(root, tab, q).page] # << >>
              /\ D2(root, tab, q).page # root.page
         /\ \A p, q \in Page :
              /\ D1(root, tab, p).kind = "table" /\ D1(root, tab, q).kind = "table"
              /\ D1(root, tab, p).page = D1(root, tab, q).page
              => SameHuge(p, q)
         /\ \A p, q \in Page :
              D1(root, tab, p).kind = "table" /\ D1(root, tab, q).kind = "table" /\ D2(root, tab, q).kind = "table"
              => D2(root, tab, q).page # D1(root, tab, p).page
         /\ \A p, q \in Page :
              /\ D1(root, tab, p).kind = "table" /\ D1(root, tab, q).kind = "table"
              /\ D2(root, tab, p).kind = "table" /\ D2(root, tab, q).kind = "table"
              /\ D2(root, tab, p).page = D2(root, tab, q).page
              => SameLarge(p, q)
<1> DEFINE r == root.page
<1>1. r \in Page /\ tab[r] # << >>
  BY DEF Sound
<1>2. \A p \in Page : \A x \in Idx : tab[p] # << >> /\ tab[p][x].kind = "table" =>
        tab[p][x].page \in Page /\ tab[tab[p][x].page] # << >> /\ tab[p][x].page # r
  BY DEF Sound
<1>3. \A p, q \in Page : \A x, y \in Idx :
       /\ tab[p] # << >> /\ tab[p][x].kind = "table" /\ tab[q] # << >> /\ tab[q][y].kind = "table"
       /\ tab[p][x].page = tab[q][y].page
       => p = q /\ x = y
  BY DEF Sound
<1>4. \A q \in Page : PT!PdptIdx(q) \in Idx /\ PT!PdIdx(q) \in Idx
  BY Indexes
<1>5. \A q \in Page : D1(root, tab, q).kind = "table" =>
              /\ D1(root, tab, q).page \in Page /\ tab[D1(root, tab, q).page] # << >>
              /\ D1(root, tab, q).page # r
  BY <1>1, <1>2, <1>4 DEF D1
<1>6. \A q \in Page : D1(root, tab, q).kind = "table" /\ D2(root, tab, q).kind = "table" =>
              /\ D2(root, tab, q).page \in Page /\ tab[D2(root, tab, q).page] # << >>
              /\ D2(root, tab, q).page # r
  BY <1>2, <1>4, <1>5 DEF D2
<1>7. \A p, q \in Page :
              /\ D1(root, tab, p).kind = "table" /\ D1(root, tab, q).kind = "table"
              /\ D1(root, tab, p).page = D1(root, tab, q).page
              => SameHuge(p, q)
  BY <1>1, <1>3, <1>4 DEF D1, SameHuge
<1>8. \A p, q \in Page :
              D1(root, tab, p).kind = "table" /\ D1(root, tab, q).kind = "table" /\ D2(root, tab, q).kind = "table"
              => D2(root, tab, q).page # D1(root, tab, p).page
  BY <1>1, <1>3, <1>4, <1>5 DEF D2, D1
<1>9. \A p, q \in Page :
              /\ D1(root, tab, p).kind = "table" /\ D1(root, tab, q).kind = "table"
              /\ D2(root, tab, p).kind = "table" /\ D2(root, tab, q).kind = "table"
              /\ D2(root, tab, p).page = D2(root, tab, q).page
              => SameLarge(p, q)
  <2> SUFFICES ASSUME NEW p \in Page, NEW q \in Page,
                      D1(root, tab, p).kind = "table" /\ D1(root, tab, q).kind = "table",
                      D2(root, tab, p).kind = "table" /\ D2(root, tab, q).kind = "table",
                      D2(root, tab, p).page = D2(root, tab, q).page
               PROVE  SameLarge(p, q)
    OBVIOUS
  <2>1. PICK a, b : a = D1(root, tab, p).page /\ b = D1(root, tab, q).page
    OBVIOUS
  <2>2. a \in Page /\ b \in Page /\ tab[a] # << >> /\ tab[b] # << >>
    BY <1>5, <2>1
  <2>3. a = b /\ PT!PdIdx(p) = PT!PdIdx(q)
    BY <1>3, <1>4, <2>1, <2>2 DEF D2
  <2> QED BY <1>7, <2>1, <2>3 DEF SameLarge
<1> QED BY <1>1, <1>5, <1>6, <1>7, <1>8, <1>9

\* A page that was free becomes an empty table, behind entry x of p.
Grown(old, new, p, x, h) ==
  /\ old[p][x].kind = "none" /\ old[h] = << >>
  /\ new[p][x].kind = "table" /\ new[p][x].page = h
  /\ \A y \in Idx : new[h][y].kind = "none"

LEMMA PresentShape ==
  ASSUME NEW room, room \subseteq Page, NEW w, Good(w, room), w.end = "ok",
         NEW p \in Page, w.table[p] # << >>, NEW x \in Idx, NEW v, v = PT!Present(w, p, x)
  PROVE  /\ v.end \in {"ok", "null", "fault"}
         /\ v.end = "ok" => v = w \/ \E h \in Page : Grown(w.table, v.table, p, x, h)
<1>1. CASE w.table[p][x].kind # "none"
  BY <1>1 DEF PT!Present
<1>2. CASE w.table[p][x].kind = "none"
  <2>1. PICK u, h : u = PT!Allocated(w) /\ h = Head(w.free)
    OBVIOUS
  <2>2. u.end \in {"ok", "null", "fault"}
    BY <2>1 DEF PT!Allocated, Good
  <2>3. CASE u.end # "ok"
    BY <1>2, <2>1, <2>2, <2>3 DEF PT!Present
  <2>4. CASE u.end = "ok"
    <3>1. Len(w.free) > 1 /\ u = [w EXCEPT !.free = Tail(w.free), !.table[h] = PT!Empty]
      BY <2>1, <2>4 DEF PT!Allocated, Good, Sound
    <3>2. Sound(w.free, w.table, w.root, room) /\ w.free # << >>
      BY <3>1 DEF Good
    <3>3. Cleared(w.table, [w.table EXCEPT ![h] = PT!Empty], h)
      BY <2>1, <3>2, NewTable
    <3>4. u.table = [w.table EXCEPT ![h] = PT!Empty]
      BY <3>1 DEF Good
    <3>5. v = [u EXCEPT !.table[p][x] = PT!Table(h)] /\ u = [free |-> u.free, table |-> u.table, root |-> u.root, end |-> u.end]
      BY <1>2, <2>1, <2>4, <3>1 DEF PT!Present, Good
    <3>6. v.table = [u.table EXCEPT ![p][x] = PT!Table(h)] /\ v.end = u.end
      BY <3>5
    <3>7. h \in Page /\ w.table[h] = << >> /\ h # p /\ u.table[p] = w.table[p] /\ \A y \in Idx : u.table[h][y].kind = "none"
      BY <3>3, <3>4 DEF Cleared
    <3>8. DOMAIN u.table = Page /\ DOMAIN u.table[p] = Idx
      BY <3>2, <3>4, <3>7 DEF Sound
    <3>9. v.table[h] = u.table[h] /\ v.table[p][x] = PT!Table(h)
      BY <3>6, <3>7, <3>8
    <3>10. Grown(w.table, v.table, p, x, h)
      BY <1>2, <3>7, <3>9 DEF Grown, PT!Table
    <3> QED BY <2>4, <3>6, <3>7, <3>10
  <2> QED BY <2>3, <2>4
<1> QED BY <1>1, <1>2

\* The same pages are translated as before.
Unseen(root, old, new) == \A q \in Page : Seen(root, new, q) = Seen(root, old, q)

\* A new root translates nothing.
LEMMA RootSeen ==
  ASSUME NEW room, room \subseteq Page, NEW w, Good(w, room), w.end = "ok", NEW S,
         Full(w.root, w.table, S), NEW v, v = PT!PresentRoot(w)
  PROVE  /\ v.end \in {"ok", "null", "fault"}
         /\ v.end = "ok" =>
              /\ Full(v.root, v.table, S)
              /\ \A q \in Page : Seen(v.root, v.table, q) = Seen(w.root, w.table, q)
<1>1. CASE w.root.kind # "none"
  BY <1>1 DEF PT!PresentRoot
<1>2. CASE w.root.kind = "none"
  <2>1. PICK u, h : u = PT!Allocated(w) /\ h = Head(w.free)
    OBVIOUS
  <2>2. u.end \in {"ok", "null", "fault"}
    BY <2>1 DEF PT!Allocated, Good
  <2>3. CASE u.end # "ok"
    BY <1>2, <2>1, <2>2, <2>3 DEF PT!PresentRoot
  <2>4. CASE u.end = "ok"
    <3>1. Len(w.free) > 1 /\ u = [w EXCEPT !.free = Tail(w.free), !.table[h] = PT!Empty]
      BY <2>1, <2>4 DEF PT!Allocated, Good, Sound
    <3>2. Sound(w.free, w.table, w.root, room) /\ w.free # << >>
      BY <3>1 DEF Good
    <3>3. Cleared(w.table, [w.table EXCEPT ![h] = PT!Empty], h)
      BY <2>1, <3>2, NewTable
    <3>4. u.table = [w.table EXCEPT ![h] = PT!Empty]
      BY <3>1 DEF Good
    <3>5. v = [u EXCEPT !.root = PT!Table(h)] /\ u = [free |-> u.free, table |-> u.table, root |-> u.root, end |-> u.end]
      BY <1>2, <2>1, <2>4, <3>1 DEF PT!PresentRoot, Good
    <3>6. v.table = u.table /\ v.root = PT!Table(h) /\ v.end = u.end
      BY <3>5
    <3>7. v.root.kind = "table" /\ v.root.page = h /\ \A y \in Idx : v.table[h][y].kind = "none"
      BY <3>3, <3>4, <3>6 DEF Cleared, PT!Table
    <3>8. \A q \in Page : D1(v.root, v.table, q).kind = "none"
      BY <3>7, Indexes DEF D1
    <3>9. \A q \in Page : Seen(v.root, v.table, q) = << >> /\ Seen(w.root, w.table, q) = << >>
      BY <1>2, <3>7, <3>8 DEF Seen, Shown
    <3>10. Full(v.root, v.table, S)
      BY <3>8 DEF Full
    <3> QED BY <2>4, <3>6, <3>9, <3>10
  <2> QED BY <2>3, <2>4
<1> QED BY <1>1, <1>2

\* A new page directory, or a new page table, on the way of p translates nothing.
LEMMA GrownHuge ==
  ASSUME NEW f, NEW old, NEW root, NEW room, Sound(f, old, root, room), root.kind = "table",
         NEW new, NEW p \in Page, Only(old, new, root.page, PT!PdptIdx(p)),
         NEW h \in Page, Grown(old, new, root.page, PT!PdptIdx(p), h),
         NEW S, Full(root, old, S)
  PROVE  Unseen(root, old, new) /\ Full(root, new, S \cup {p})
<1> DEFINE r == root.page
<1>1. r \in Page /\ old[r] # << >>
  BY Paths
<1>2. \A q \in Page : PT!PdptIdx(q) \in Idx /\ PT!PdIdx(q) \in Idx /\ PT!PtIdx(q) \in Idx
  BY Indexes
<1>3. ASSUME NEW q \in Page, SameHuge(p, q)
      PROVE  /\ Seen(root, new, q) = Seen(root, old, q)
             /\ D1(root, new, q).kind = "table" /\ D2(root, new, q).kind = "none"
  <2>1. D1(root, old, q).kind = "none"
    BY <1>3 DEF D1, Grown, SameHuge
  <2>2. D1(root, new, q).kind = "table" /\ D1(root, new, q).page = h
    BY <1>3 DEF D1, Grown, SameHuge
  <2>3. D2(root, new, q).kind = "none"
    BY <1>2, <2>2 DEF D2, Grown
  <2> QED BY <2>1, <2>2, <2>3 DEF Seen, Shown
<1>4. ASSUME NEW q \in Page, ~SameHuge(p, q)
      PROVE  /\ Seen(root, new, q) = Seen(root, old, q)
             /\ D1(root, new, q) = D1(root, old, q)
             /\ D1(root, old, q).kind = "table" => D2(root, new, q) = D2(root, old, q)
             /\ D1(root, old, q).kind = "table" /\ D2(root, old, q).kind = "table" =>
                  D3(root, new, q) = D3(root, old, q)
  <2>1. D1(root, new, q) = D1(root, old, q)
    BY <1>1, <1>2, <1>4 DEF D1, Only, SameHuge
  <2>2. D1(root, old, q).kind = "table" => D2(root, new, q) = D2(root, old, q)
    BY <1>2, <2>1, Paths DEF D2, Only
  <2>3. D1(root, old, q).kind = "table" /\ D2(root, old, q).kind = "table" => D3(root, new, q) = D3(root, old, q)
    BY <1>2, <2>1, <2>2, Paths DEF D3, Only
  <2> QED BY <2>1, <2>2, <2>3 DEF Seen
<1>5. Unseen(root, old, new)
  BY <1>3, <1>4 DEF Unseen
<1>6. Full(root, new, S \cup {p})
  <2>1. \A q \in Page : SameHuge(p, q) => SameHuge(q, p)
    BY DEF SameHuge
  <2> QED BY <1>3, <1>4, <2>1 DEF Full
<1> QED BY <1>5, <1>6

LEMMA GrownLarge ==
  ASSUME NEW f, NEW old, NEW root, NEW room, Sound(f, old, root, room), root.kind = "table",
         NEW new, NEW p \in Page, D1(root, old, p).kind = "table",
         NEW d, d = D1(root, old, p).page, Only(old, new, d, PT!PdIdx(p)),
         NEW h \in Page, Grown(old, new, d, PT!PdIdx(p), h),
         NEW S, Full(root, old, S)
  PROVE  Unseen(root, old, new) /\ Full(root, new, S \cup {p})
<1> DEFINE r == root.page
<1>1. r \in Page /\ old[r] # << >> /\ d \in Page /\ old[d] # << >> /\ d # r
  BY Paths
<1>2. \A q \in Page : PT!PdptIdx(q) \in Idx /\ PT!PdIdx(q) \in Idx /\ PT!PtIdx(q) \in Idx
  BY Indexes
<1>3. \A q \in Page : D1(root, new, q) = D1(root, old, q)
  BY <1>1, <1>2 DEF D1, Only
<1>4. ASSUME NEW q \in Page, SameLarge(p, q)
      PROVE  /\ Seen(root, new, q) = Seen(root, old, q)
             /\ D2(root, new, q).kind = "table" /\ D3(root, new, q).kind = "none"
  <2>1. D1(root, old, q) = D1(root, old, p)
    BY <1>4 DEF D1, SameHuge, SameLarge
  <2>2. D2(root, old, q).kind = "none"
    BY <1>4, <2>1 DEF D2, Grown, SameLarge
  <2>3. D2(root, new, q).kind = "table" /\ D2(root, new, q).page = h
    BY <1>3, <1>4, <2>1 DEF D2, Grown, SameLarge
  <2>4. D3(root, new, q).kind = "none"
    BY <1>2, <2>3 DEF D3, Grown
  <2> QED BY <1>3, <2>1, <2>2, <2>3, <2>4 DEF Seen, Shown
<1>5. ASSUME NEW q \in Page, ~SameLarge(p, q)
      PROVE  /\ Seen(root, new, q) = Seen(root, old, q)
             /\ D1(root, old, q).kind = "table" => D2(root, new, q) = D2(root, old, q)
             /\ D1(root, old, q).kind = "table" /\ D2(root, old, q).kind = "table" =>
                  D3(root, new, q) = D3(root, old, q)
  <2>1. D1(root, old, q).kind = "table" => D2(root, new, q) = D2(root, old, q)
    <3> SUFFICES ASSUME D1(root, old, q).kind = "table" PROVE D2(root, new, q) = D2(root, old, q)
      OBVIOUS
    <3>1. PICK e : e = D1(root, old, q).page
      OBVIOUS
    <3>2. e \in Page /\ old[e] # << >> /\ (e = d => SameHuge(p, q))
      BY <3>1, Paths
    <3>3. e # d \/ PT!PdIdx(q) # PT!PdIdx(p)
      BY <1>5, <3>2 DEF SameLarge
    <3>4. new[e][PT!PdIdx(q)] = old[e][PT!PdIdx(q)]
      BY <1>2, <3>2, <3>3 DEF Only
    <3> QED BY <1>3, <3>1, <3>4 DEF D2
  <2>2. D1(root, old, q).kind = "table" /\ D2(root, old, q).kind = "table" => D3(root, new, q) = D3(root, old, q)
    <3> SUFFICES ASSUME D1(root, old, q).kind = "table", D2(root, old, q).kind = "table"
                 PROVE  D3(root, new, q) = D3(root, old, q)
      OBVIOUS
    <3>1. PICK e : e = D2(root, old, q).page
      OBVIOUS
    <3>2. e \in Page /\ old[e] # << >> /\ e # d
      BY <3>1, Paths
    <3>3. new[e][PT!PtIdx(q)] = old[e][PT!PtIdx(q)]
      BY <1>2, <3>2 DEF Only
    <3> QED BY <2>1, <3>1, <3>3 DEF D3
  <2> QED BY <1>3, <2>1, <2>2 DEF Seen
<1>6. Unseen(root, old, new)
  BY <1>4, <1>5 DEF Unseen
<1>7. Full(root, new, S \cup {p})
  <2>1. \A q \in Page : SameLarge(p, q) => SameLarge(q, p) /\ SameHuge(q, p)
    BY DEF SameHuge, SameLarge
  <2>2. \A q \in Page : D1(root, new, q).kind = "table" => \E s \in S : SameHuge(q, s)
    BY <1>3 DEF Full
  <2> QED BY <1>3, <1>4, <1>5, <2>1, <2>2 DEF Full
<1> QED BY <1>6, <1>7

LEMMA QuotientIs ==
  ASSUME NEW m \in Nat, NEW n \in Nat, n >= 1, NEW k \in Nat, NEW r \in Nat, r < n, m = n * k + r
  PROVE  m \div n = k
<1>1. PICK q \in Nat, s \in Nat : q = m \div n /\ s < n /\ m = n * q + s
  BY Division
<1>2. ASSUME q < k PROVE FALSE
  <2>1. n * k >= n * (q + 1)
    BY <1>2
  <2>2. n * (q + 1) = n * q + n
    OBVIOUS
  <2>3. n * q \in Nat /\ n * k \in Nat
    OBVIOUS
  <2> QED BY <1>1, <2>1, <2>2, <2>3
<1>3. ASSUME k < q PROVE FALSE
  <2>1. n * q >= n * (k + 1)
    BY <1>3
  <2>2. n * (k + 1) = n * k + n
    OBVIOUS
  <2>3. n * q \in Nat /\ n * k \in Nat
    OBVIOUS
  <2> QED BY <1>1, <2>1, <2>2, <2>3
<1> QED BY <1>1, <1>2, <1>3

LEMMA Distributes ==
  ASSUME NEW x \in Nat, NEW y \in Nat, NEW z \in Nat
  PROVE  x * (x * y + z) = x * x * y + x * z
OBVIOUS

\* A page's indexes are its digits.
LEMMA Digits ==
  ASSUME NEW p \in Page
  PROVE  /\ p = Fan * (p \div Fan) + PT!PtIdx(p) /\ p \div Fan \in Nat
         /\ p \div Fan = Fan * PT!PdptIdx(p) + PT!PdIdx(p)
<1>1. p \in Nat /\ Fan \in Nat /\ Fan >= 1
  BY FanFacts DEF Page
<1>2. PICK b \in Nat, c \in Nat : b = p \div Fan /\ c = p % Fan /\ c < Fan /\ p = Fan * b + c
  BY <1>1, Division
<1>3. PICK a \in Nat, e \in Nat : a = b \div Fan /\ e = b % Fan /\ e < Fan /\ b = Fan * a + e
  <2>1. b \div Fan \in Nat /\ b % Fan \in Nat /\ b % Fan < Fan /\ b = Fan * (b \div Fan) + (b % Fan)
    BY <1>1, Division
  <2> QED BY <2>1
<1>4. p \div (Fan * Fan) = a
  <2>1. PICK n \in Nat : n = Fan * Fan /\ n >= 1
    BY FanFacts
  <2>2. PICK r \in Nat : r = Fan * e + c
    BY <1>1, <1>2, <1>3
  <2>3. r < n
    <3>1. Fan * e <= Fan * (Fan - 1)
      BY <1>1, <1>3
    <3>2. Fan * (Fan - 1) = Fan * Fan - Fan
      BY <1>1
    <3>3. Fan * e \in Nat
      BY <1>1, <1>3
    <3> QED BY <1>1, <1>2, <2>1, <2>2, <3>1, <3>2, <3>3
  <2>4. p = n * a + r
    <3>1. p = Fan * (Fan * a + e) + c
      BY <1>2, <1>3
    <3>2. Fan * (Fan * a + e) = Fan * Fan * a + Fan * e
      BY <1>1, Distributes
    <3>3. Fan * Fan * a = n * a /\ n * a \in Nat /\ Fan * e \in Nat
      BY <1>1, <2>1
    <3>4. PICK u \in Nat, t \in Nat : u = n * a /\ t = Fan * e
      BY <3>3
    <3>5. p = (u + t) + c /\ r = t + c
      BY <2>2, <3>1, <3>2, <3>3, <3>4
    <3>6. p = u + r
      BY <3>4, <3>5, <1>2
    <3> QED BY <3>4, <3>6
  <2> QED BY <1>1, <2>1, <2>2, <2>3, <2>4, QuotientIs
<1> QED BY <1>2, <1>3, <1>4 DEF PT!PdptIdx, PT!PdIdx, PT!PtIdx

LEMMA SamePage ==
  ASSUME NEW p \in Page, NEW q \in Page
  PROVE  /\ SameLarge(p, q) <=> p \div Fan = q \div Fan
         /\ SameLarge(p, q) /\ PT!PtIdx(p) = PT!PtIdx(q) => p = q
<1>1. SameLarge(p, q) => p \div Fan = q \div Fan
  BY Digits DEF SameLarge, SameHuge
<1>2. ASSUME p \div Fan = q \div Fan PROVE SameLarge(p, q)
  <2>1. PT!PdIdx(p) = PT!PdIdx(q)
    BY <1>2 DEF PT!PdIdx
  <2>2. PICK b, x, y, e :
          b = p \div Fan /\ x = PT!PdptIdx(p) /\ y = PT!PdptIdx(q) /\ e = PT!PdIdx(p)
    OBVIOUS
  <2>3. b = Fan * x + e /\ b \in Nat
    BY <2>2, Digits
  <2>4. b = Fan * y + e
    BY <1>2, <2>1, <2>2, Digits
  <2>5. x \in Nat /\ y \in Nat /\ e \in Nat /\ e < Fan
    BY <2>2, Indexes, FanFacts DEF Idx
  <2>6. b \div Fan = x
    BY <2>3, <2>5, FanFacts, QuotientIs
  <2>7. b \div Fan = y
    BY <2>3, <2>4, <2>5, FanFacts, QuotientIs
  <2> QED BY <2>1, <2>2, <2>6, <2>7 DEF SameLarge, SameHuge
<1>3. SameLarge(p, q) /\ PT!PtIdx(p) = PT!PtIdx(q) => p = q
  BY <1>1, Digits
<1> QED BY <1>1, <1>2, <1>3

\* The pages of p's huge page have the leaf en, and the others what they had.
HugeSeen(root, old, new, p, en) ==
  \A q \in Page : Seen(root, new, q) = IF SameHuge(p, q) THEN <<1, en>> ELSE Seen(root, old, q)

\* A leaf is stored for p's huge page, its large page, or the page itself.
LEMMA LeafHuge ==
  ASSUME NEW f, NEW old, NEW root, NEW room, Sound(f, old, root, room), root.kind = "table",
         NEW new, NEW p \in Page, Only(old, new, root.page, PT!PdptIdx(p)),
         NEW en, en.kind = "leaf", new[root.page][PT!PdptIdx(p)] = en,
         NEW S, Full(root, old, S)
  PROVE  /\ Full(root, new, S)
         /\ HugeSeen(root, old, new, p, en)
<1>1. root.page \in Page /\ old[root.page] # << >>
  BY Paths
<1>2. \A q \in Page : PT!PdptIdx(q) \in Idx /\ PT!PdIdx(q) \in Idx /\ PT!PtIdx(q) \in Idx
  BY Indexes
<1>3. ASSUME NEW q \in Page, SameHuge(p, q)
      PROVE  Seen(root, new, q) = <<1, en>> /\ D1(root, new, q).kind = "leaf"
  <2>1. D1(root, new, q) = en
    BY <1>3 DEF D1, SameHuge
  <2> QED BY <2>1 DEF Seen, Shown
<1>4. ASSUME NEW q \in Page, ~SameHuge(p, q)
      PROVE  /\ Seen(root, new, q) = Seen(root, old, q)
             /\ D1(root, new, q) = D1(root, old, q)
             /\ D1(root, old, q).kind = "table" => D2(root, new, q) = D2(root, old, q)
             /\ D1(root, old, q).kind = "table" /\ D2(root, old, q).kind = "table" =>
                  D3(root, new, q) = D3(root, old, q)
  <2>1. D1(root, new, q) = D1(root, old, q)
    BY <1>1, <1>2, <1>4 DEF D1, Only, SameHuge
  <2>2. D1(root, old, q).kind = "table" => D2(root, new, q) = D2(root, old, q)
    BY <1>2, <2>1, Paths DEF D2, Only
  <2>3. D1(root, old, q).kind = "table" /\ D2(root, old, q).kind = "table" => D3(root, new, q) = D3(root, old, q)
    BY <1>2, <2>1, <2>2, Paths DEF D3, Only
  <2> QED BY <2>1, <2>2, <2>3 DEF Seen
<1>5. Full(root, new, S)
  BY <1>3, <1>4 DEF Full
<1> QED BY <1>3, <1>4, <1>5 DEF HugeSeen

LEMMA LeafLarge ==
  ASSUME NEW f, NEW old, NEW root, NEW room, Sound(f, old, root, room), root.kind = "table",
         NEW new, NEW p \in Page, D1(root, old, p).kind = "table",
         NEW d, d = D1(root, old, p).page, Only(old, new, d, PT!PdIdx(p)),
         NEW en, en.kind = "leaf", new[d][PT!PdIdx(p)] = en,
         NEW S, Full(root, old, S)
  PROVE  /\ Full(root, new, S)
         /\ \A q \in Page : Seen(root, new, q) = IF SameLarge(p, q) THEN <<2, en>> ELSE Seen(root, old, q)
<1>1. root.page \in Page /\ old[root.page] # << >> /\ d \in Page /\ old[d] # << >> /\ d # root.page
  BY Paths
<1>2. \A q \in Page : PT!PdptIdx(q) \in Idx /\ PT!PdIdx(q) \in Idx /\ PT!PtIdx(q) \in Idx
  BY Indexes
<1>3. \A q \in Page : D1(root, new, q) = D1(root, old, q)
  BY <1>1, <1>2 DEF D1, Only
<1>4. ASSUME NEW q \in Page, SameLarge(p, q)
      PROVE  Seen(root, new, q) = <<2, en>> /\ D2(root, new, q).kind = "leaf"
  <2>1. D1(root, old, q) = D1(root, old, p)
    BY <1>4 DEF D1, SameHuge, SameLarge
  <2>2. D2(root, new, q) = en
    BY <1>3, <1>4, <2>1 DEF D2, SameLarge
  <2> QED BY <1>3, <2>1, <2>2 DEF Seen, Shown
<1>5. ASSUME NEW q \in Page, ~SameLarge(p, q)
      PROVE  /\ Seen(root, new, q) = Seen(root, old, q)
             /\ D1(root, old, q).kind = "table" => D2(root, new, q) = D2(root, old, q)
             /\ D1(root, old, q).kind = "table" /\ D2(root, old, q).kind = "table" =>
                  D3(root, new, q) = D3(root, old, q)
  <2>1. D1(root, old, q).kind = "table" => D2(root, new, q) = D2(root, old, q)
    <3> SUFFICES ASSUME D1(root, old, q).kind = "table" PROVE D2(root, new, q) = D2(root, old, q)
      OBVIOUS
    <3>1. PICK e : e = D1(root, old, q).page
      OBVIOUS
    <3>2. e \in Page /\ old[e] # << >> /\ (e = d => SameHuge(p, q))
      BY <3>1, Paths
    <3>3. e # d \/ PT!PdIdx(q) # PT!PdIdx(p)
      BY <1>5, <3>2 DEF SameLarge
    <3>4. new[e][PT!PdIdx(q)] = old[e][PT!PdIdx(q)]
      BY <1>2, <3>2, <3>3 DEF Only
    <3> QED BY <1>3, <3>1, <3>4 DEF D2
  <2>2. D1(root, old, q).kind = "table" /\ D2(root, old, q).kind = "table" => D3(root, new, q) = D3(root, old, q)
    <3> SUFFICES ASSUME D1(root, old, q).kind = "table", D2(root, old, q).kind = "table"
                 PROVE  D3(root, new, q) = D3(root, old, q)
      OBVIOUS
    <3>1. PICK e : e = D2(root, old, q).page
      OBVIOUS
    <3>2. e \in Page /\ old[e] # << >> /\ e # d
      BY <3>1, Paths
    <3>3. new[e][PT!PtIdx(q)] = old[e][PT!PtIdx(q)]
      BY <1>2, <3>2 DEF Only
    <3> QED BY <2>1, <3>1, <3>3 DEF D3
  <2> QED BY <1>3, <2>1, <2>2 DEF Seen
<1>6. Full(root, new, S)
  BY <1>3, <1>4, <1>5 DEF Full
<1> QED BY <1>4, <1>5, <1>6

LEMMA LeafSmall ==
  ASSUME NEW f, NEW old, NEW root, NEW room, Sound(f, old, root, room), root.kind = "table",
         NEW new, NEW p \in Page, D1(root, old, p).kind = "table", D2(root, old, p).kind = "table",
         NEW g, g = D2(root, old, p).page, Only(old, new, g, PT!PtIdx(p)),
         NEW en, en.kind = "leaf", new[g][PT!PtIdx(p)] = en,
         NEW S, Full(root, old, S)
  PROVE  /\ Full(root, new, S)
         /\ \A q \in Page : Seen(root, new, q) = IF q = p THEN <<3, en>> ELSE Seen(root, old, q)
<1>1. /\ root.page \in Page /\ old[root.page] # << >> /\ g \in Page /\ old[g] # << >> /\ g # root.page
      /\ \A q \in Page : D1(root, old, q).kind = "table" =>
           D1(root, old, q).page \in Page /\ old[D1(root, old, q).page] # << >> /\ D1(root, old, q).page # g
  BY Paths
<1>2. \A q \in Page : PT!PdptIdx(q) \in Idx /\ PT!PdIdx(q) \in Idx /\ PT!PtIdx(q) \in Idx
  BY Indexes
<1>3. \A q \in Page : D1(root, new, q) = D1(root, old, q)
  BY <1>1, <1>2 DEF D1, Only
<1>4. \A q \in Page : D1(root, old, q).kind = "table" => D2(root, new, q) = D2(root, old, q)
  BY <1>1, <1>2, <1>3 DEF D2, Only
<1>5. D3(root, new, p) = en
  BY <1>4 DEF D3
<1>6. ASSUME NEW q \in Page, q # p, D1(root, old, q).kind = "table", D2(root, old, q).kind = "table"
      PROVE  D3(root, new, q) = D3(root, old, q)
  <2>1. PICK e : e = D2(root, old, q).page
    OBVIOUS
  <2>2. e \in Page /\ old[e] # << >> /\ (e = g => SameLarge(p, q))
    BY <1>6, <2>1, Paths
  <2>3. e # g \/ PT!PtIdx(q) # PT!PtIdx(p)
    BY <1>6, <2>2, SamePage
  <2>4. new[e][PT!PtIdx(q)] = old[e][PT!PtIdx(q)]
    BY <1>2, <2>2, <2>3 DEF Only
  <2> QED BY <1>4, <1>6, <2>1, <2>4 DEF D3
<1>7. Seen(root, new, p) = <<3, en>>
  BY <1>3, <1>4, <1>5 DEF Seen, Shown
<1>8. \A q \in Page : q # p => Seen(root, new, q) = Seen(root, old, q)
  BY <1>3, <1>4, <1>6 DEF Seen
<1>9. Full(root, new, S)
  BY <1>3, <1>4, <1>5, <1>6 DEF Full
<1> QED BY <1>7, <1>8, <1>9

\* No leaf of the level is in the way of page p.
Clear(root, tab, p, level) == \A e : Seen(root, tab, p) # <<level, e>>

LEMMA ClearOne ==
  ASSUME NEW root, NEW tab, NEW p, root.kind = "table"
  PROVE  /\ Clear(root, tab, p, 1) => D1(root, tab, p).kind # "leaf"
         /\ Clear(root, tab, p, 2) /\ D1(root, tab, p).kind = "table" => D2(root, tab, p).kind # "leaf"
BY DEF Clear, Seen, Shown

LEMMA StoreShape ==
  ASSUME NEW room, NEW w, Good(w, room), w.end = "ok", NEW p \in Page, w.table[p] # << >>, NEW x \in Idx,
         NEW en, NEW v, v = PT!Store(w, p, x, en)
  PROVE  v.root = w.root /\ v.end = "ok" /\ Only(w.table, v.table, p, x) /\ v.table[p][x] = en
<1>1. v = [w EXCEPT !.table[p][x] = en]
  BY DEF PT!Store
<1>2. v.table = [w.table EXCEPT ![p][x] = en] /\ v.root = w.root /\ v.end = w.end
  BY <1>1 DEF Good
<1>3. DOMAIN w.table = Page /\ DOMAIN w.table[p] = Idx
  BY DEF Good, Sound
<1>4. /\ v.table[p][x] = en /\ DOMAIN v.table[p] = Idx
      /\ \A q \in Page : q # p => v.table[q] = w.table[q]
      /\ \A y \in Idx : y # x => v.table[p][y] = w.table[p][y]
  BY <1>2, <1>3
<1>5. v.table[p] # << >>
  BY <1>4, FanFacts
<1> QED BY <1>2, <1>4, <1>5 DEF Only

\* What a walk that ends well has done: every table leads to S, the pages of B have
\* the leaf en at the level, and the others what they had.
Mapped(w, v, S, B, level, en) ==
  /\ Full(v.root, v.table, S)
  /\ \A q \in Page : Seen(v.root, v.table, q) =
       IF q \in B THEN <<level, en>> ELSE Seen(w.root, w.table, q)
HugeOf(p) == {q \in Page : SameHuge(p, q)}
LargeOf(p) == {q \in Page : SameLarge(p, q)}

\* MapHuge translates the pages of a huge page, and leaves the others alone.
LEMMA MapHugeSeen ==
  ASSUME NEW room, room \subseteq Page, NEW w, Good(w, room), w.end = "ok",
         NEW S, Full(w.root, w.table, S),
         NEW p \in Page, NEW en, en.kind = "leaf", NEW v, v = PT!MapHuge(w, p, en)
  PROVE  /\ v.end \in {"ok", "null", "fault"}
         /\ v.end = "ok" => Mapped(w, v, S, HugeOf(p), 1, en)
<1>1. PICK u : u = PT!PresentRoot(w)
  OBVIOUS
<1>2. /\ Good(u, room)
      /\ u.end = "ok" => u.root.kind = "table" /\ u.root.page \in Page /\ u.table[u.root.page] # << >>
  BY <1>1, PresentRootGood
<1>3. /\ u.end \in {"ok", "null", "fault"}
      /\ u.end = "ok" =>
           /\ Full(u.root, u.table, S)
           /\ \A q \in Page : Seen(u.root, u.table, q) = Seen(w.root, w.table, q)
  BY <1>1, RootSeen
<1>4. CASE u.end # "ok"
  BY <1>1, <1>3, <1>4 DEF PT!MapHuge
<1>5. CASE u.end = "ok"
  <2>1. PICK r, x : r = u.root.page /\ x = PT!PdptIdx(p)
    OBVIOUS
  <2>2. v = PT!Store(u, r, x, en) /\ r \in Page /\ u.table[r] # << >> /\ x \in Idx
    BY <1>1, <1>2, <1>5, <2>1, Indexes DEF PT!MapHuge
  <2>3. v.root = u.root /\ v.end = "ok" /\ Only(u.table, v.table, r, x) /\ v.table[r][x] = en
    BY <1>2, <1>5, <2>2, StoreShape
  <2>4. PICK f, old, new, root : f = u.free /\ old = u.table /\ new = v.table /\ root = u.root
    OBVIOUS
  <2>5. /\ Sound(f, old, root, room) /\ root.kind = "table" /\ Only(old, new, root.page, PT!PdptIdx(p))
        /\ new[root.page][PT!PdptIdx(p)] = en /\ Full(root, old, S)
    BY <1>2, <1>3, <1>5, <2>1, <2>3, <2>4 DEF Good
  <2>6. Full(root, new, S) /\ HugeSeen(root, old, new, p, en)
    BY <2>5, LeafHuge
  <2> QED BY <1>3, <1>5, <2>3, <2>4, <2>6 DEF HugeSeen, Mapped, HugeOf
<1> QED BY <1>4, <1>5

LEMMA WalkToPdSeen ==
  ASSUME NEW room, room \subseteq Page, NEW w, Good(w, room), w.end = "ok",
         NEW S, Full(w.root, w.table, S),
         NEW p \in Page, Clear(w.root, w.table, p, 1), NEW v, v = PT!WalkToPd(w, p)
  PROVE  /\ v.end \in {"ok", "null", "fault"}
         /\ v.end = "ok" =>
              /\ Full(v.root, v.table, S \cup {p})
              /\ \A q \in Page : Seen(v.root, v.table, q) = Seen(w.root, w.table, q)
<1>1. PICK u : u = PT!PresentRoot(w)
  OBVIOUS
<1>2. /\ Good(u, room)
      /\ u.end = "ok" => u.root.kind = "table" /\ u.root.page \in Page /\ u.table[u.root.page] # << >>
  BY <1>1, PresentRootGood
<1>3. /\ u.end \in {"ok", "null", "fault"}
      /\ u.end = "ok" =>
           /\ Full(u.root, u.table, S)
           /\ \A q \in Page : Seen(u.root, u.table, q) = Seen(w.root, w.table, q)
  BY <1>1, RootSeen
<1>4. CASE u.end # "ok"
  BY <1>1, <1>3, <1>4 DEF PT!WalkToPd
<1>5. CASE u.end = "ok"
  <2>1. PICK x, r : x = PT!PdptIdx(p) /\ r = u.root.page
    OBVIOUS
  <2>2. PICK z : z = PT!Present(u, r, x)
    OBVIOUS
  <2>3. x \in Idx /\ r \in Page /\ u.table[r] # << >>
    BY <1>2, <1>5, <2>1, Indexes
  <2>4. Good(z, room) /\ z.root = u.root /\ Only(u.table, z.table, r, x)
    BY <1>2, <2>2, <2>3, PresentGood
  <2>5. /\ z.end \in {"ok", "null", "fault"}
        /\ z.end = "ok" => z = u \/ \E h \in Page : Grown(u.table, z.table, r, x, h)
    BY <1>2, <1>5, <2>2, <2>3, PresentShape
  <2>6. v = PT!Enter(z, r, x, "scribble")
    BY <1>1, <1>5, <2>1, <2>2 DEF PT!WalkToPd
  <2>7. CASE z.end # "ok"
    BY <2>5, <2>6, <2>7 DEF PT!Enter
  <2>8. CASE z.end = "ok"
    <3>1. PICK root, old, new : root = u.root /\ old = u.table /\ new = z.table
      OBVIOUS
    <3>2. root.kind = "table" /\ Sound(u.free, old, root, room) /\ Full(root, old, S)
      BY <1>2, <1>3, <1>5, <3>1 DEF Good
    <3>3. /\ Unseen(root, old, new) /\ Full(root, new, S \cup {p})
      <4>1. CASE z = u
        <5>1. Unseen(root, old, new)
          BY <3>1, <4>1 DEF Unseen
        <5>2. Full(root, new, S \cup {p})
          BY <3>1, <3>2, <4>1 DEF Full
        <5> QED BY <5>1, <5>2
      <4>2. ASSUME NEW h \in Page, Grown(u.table, z.table, r, x, h)
            PROVE  Unseen(root, old, new) /\ Full(root, new, S \cup {p})
        <5>1. Only(old, new, root.page, PT!PdptIdx(p)) /\ Grown(old, new, root.page, PT!PdptIdx(p), h)
          BY <2>1, <2>4, <3>1, <4>2
        <5> QED BY <3>2, <5>1, GrownHuge
      <4> QED BY <2>5, <2>8, <4>1, <4>2
    <3>4. z.table[r][x].kind # "leaf"
      <4>1. Clear(root, new, p, 1)
        BY <1>3, <1>5, <3>1, <3>3 DEF Clear, Unseen
      <4>2. D1(root, new, p).kind # "leaf"
        BY <3>2, <4>1, ClearOne
      <4> QED BY <2>1, <3>1, <4>2 DEF D1
    <3>5. v = z
      BY <2>6, <3>4 DEF PT!Enter
    <3> QED BY <1>3, <1>5, <2>4, <2>8, <3>1, <3>3, <3>5 DEF Unseen
  <2> QED BY <2>7, <2>8
<1> QED BY <1>4, <1>5

\* MapLarge translates the pages of a large page, and leaves the others alone.
LEMMA MapLargeSeen ==
  ASSUME NEW room, room \subseteq Page, NEW w, Good(w, room), w.end = "ok",
         NEW S, Full(w.root, w.table, S), NEW p \in Page, Clear(w.root, w.table, p, 1),
         NEW en, en.kind = "leaf", NEW v, v = PT!MapLarge(w, p, en)
  PROVE  /\ v.end \in {"ok", "null", "fault"}
         /\ v.end = "ok" => Mapped(w, v, S \cup {p}, LargeOf(p), 2, en)
<1>1. PICK u : u = PT!WalkToPd(w, p)
  OBVIOUS
<1>2. Good(u, room) /\ (u.end = "ok" => AtPd(u, p))
  BY <1>1, WalkToPdGood
<1>3. /\ u.end \in {"ok", "null", "fault"}
      /\ u.end = "ok" =>
           /\ Full(u.root, u.table, S \cup {p})
           /\ \A q \in Page : Seen(u.root, u.table, q) = Seen(w.root, w.table, q)
  BY <1>1, WalkToPdSeen
<1>4. CASE u.end # "ok"
  BY <1>1, <1>3, <1>4 DEF PT!MapLarge
<1>5. CASE u.end = "ok"
  <2>1. PICK d, x : d = PT!PdOf(u, p) /\ x = PT!PdIdx(p)
    OBVIOUS
  <2>2. v = PT!Store(u, d, x, en) /\ d \in Page /\ u.table[d] # << >> /\ x \in Idx
    BY <1>1, <1>2, <1>5, <2>1, Indexes DEF PT!MapLarge, AtPd
  <2>3. v.root = u.root /\ v.end = "ok" /\ Only(u.table, v.table, d, x) /\ v.table[d][x] = en
    BY <1>2, <1>5, <2>2, StoreShape
  <2>4. PICK old, new, root, T : old = u.table /\ new = v.table /\ root = u.root /\ T = S \cup {p}
    OBVIOUS
  <2>5. /\ Sound(u.free, old, root, room) /\ root.kind = "table" /\ Only(old, new, d, PT!PdIdx(p))
        /\ new[d][PT!PdIdx(p)] = en /\ Full(root, old, T)
        /\ D1(root, old, p).kind = "table" /\ d = D1(root, old, p).page
    BY <1>2, <1>3, <1>5, <2>1, <2>3, <2>4 DEF Good, AtPd, PT!PdOf, D1
  <2>6. /\ Full(root, new, T)
        /\ \A q \in Page : Seen(root, new, q) = IF SameLarge(p, q) THEN <<2, en>> ELSE Seen(root, old, q)
    BY <2>5, LeafLarge
  <2> QED BY <1>3, <1>5, <2>3, <2>4, <2>6 DEF Mapped, LargeOf
<1> QED BY <1>4, <1>5

\* MapSmall translates its page, and leaves the others alone.
LEMMA MapSmallSeen ==
  ASSUME NEW room, room \subseteq Page, NEW w, Good(w, room), w.end = "ok",
         NEW S, Full(w.root, w.table, S),
         NEW p \in Page, Clear(w.root, w.table, p, 1), Clear(w.root, w.table, p, 2),
         NEW en, en.kind = "leaf", NEW v, v = PT!MapSmall(w, p, en)
  PROVE  /\ v.end \in {"ok", "null", "fault"}
         /\ v.end = "ok" => Mapped(w, v, S \cup {p}, {p}, 3, en)
<1>1. PICK u, T : u = PT!WalkToPd(w, p) /\ T = S \cup {p}
  OBVIOUS
<1>2. Good(u, room) /\ (u.end = "ok" => AtPd(u, p))
  BY <1>1, WalkToPdGood
<1>3. /\ u.end \in {"ok", "null", "fault"}
      /\ u.end = "ok" =>
           /\ Full(u.root, u.table, T)
           /\ \A q \in Page : Seen(u.root, u.table, q) = Seen(w.root, w.table, q)
  BY <1>1, WalkToPdSeen
<1>4. CASE u.end # "ok"
  BY <1>1, <1>3, <1>4 DEF PT!MapSmall
<1>5. CASE u.end = "ok"
  <2>1. PICK d, x : d = PT!PdOf(u, p) /\ x = PT!PdIdx(p)
    OBVIOUS
  <2>2. PICK z : z = PT!Present(u, d, x)
    OBVIOUS
  <2>3. PICK e : e = PT!Enter(z, d, x, "refused")
    OBVIOUS
  <2>4. x \in Idx /\ d \in Page /\ u.table[d] # << >> /\ AtPd(u, p)
    BY <1>2, <1>5, <2>1, Indexes DEF AtPd
  <2>5. /\ Good(z, room) /\ z.root = u.root /\ Only(u.table, z.table, d, x)
        /\ z.end = "ok" => z.table[d][x].kind \in {"table", "leaf"}
    BY <1>2, <2>2, <2>4, PresentGood
  <2>6. /\ z.end \in {"ok", "null", "fault"}
        /\ z.end = "ok" => z = u \/ \E h \in Page : Grown(u.table, z.table, d, x, h)
    BY <1>2, <1>5, <2>2, <2>4, PresentShape
  <2>7. PICK root, old, new : root = u.root /\ old = u.table /\ new = z.table
    OBVIOUS
  <2>8. /\ root.kind = "table" /\ Sound(u.free, old, root, room) /\ Full(root, old, T)
        /\ D1(root, old, p).kind = "table" /\ d = D1(root, old, p).page
    BY <1>2, <1>3, <1>5, <2>1, <2>4, <2>7 DEF Good, AtPd, D1, PT!PdOf
  <2>9. CASE z.end # "ok"
    <3>1. e = z
      BY <2>3, <2>9 DEF PT!Enter
    <3>2. v = z
      BY <1>1, <1>5, <2>1, <2>2, <2>3, <2>9, <3>1 DEF PT!MapSmall
    <3> QED BY <2>6, <2>9, <3>2
  <2>10. CASE z.end = "ok"
    <3>1. Unseen(root, old, new) /\ Full(root, new, T)
      <4>1. CASE z = u
        BY <2>7, <2>8, <4>1 DEF Unseen
      <4>2. ASSUME NEW h \in Page, Grown(u.table, z.table, d, x, h)
            PROVE  Unseen(root, old, new) /\ Full(root, new, T)
        <5>1. Only(old, new, d, PT!PdIdx(p)) /\ Grown(old, new, d, PT!PdIdx(p), h)
          BY <2>1, <2>5, <2>7, <4>2
        <5>2. Unseen(root, old, new) /\ Full(root, new, T \cup {p})
          BY <2>8, <5>1, GrownLarge
        <5>3. T \cup {p} = T
          BY <1>1
        <5> QED BY <5>2, <5>3
      <4> QED BY <2>6, <2>10, <4>1, <4>2
    <3>2. D1(root, new, p) = D1(root, old, p)
      <4>1. root.page \in Page /\ old[root.page] # << >> /\ root.page # d
        BY <2>8, Paths
      <4> QED BY <2>1, <2>5, <2>7, <4>1, Indexes DEF D1, Only
    <3>3. z.table[d][x].kind = "table"
      <4>1. Clear(root, new, p, 2)
        BY <1>3, <1>5, <2>7, <3>1 DEF Clear, Unseen
      <4>2. D2(root, new, p).kind # "leaf"
        BY <2>8, <3>2, <4>1, ClearOne
      <4>3. z.table[d][x] = D2(root, new, p)
        BY <2>1, <2>7, <2>8, <3>2 DEF D2
      <4> QED BY <2>5, <2>10, <4>2, <4>3
    <3>4. e = z
      BY <2>3, <3>3 DEF PT!Enter
    <3>5. PICK g, y : g = z.table[d][x].page /\ y = PT!PtIdx(p)
      OBVIOUS
    <3>6. v = PT!Store(z, g, y, en)
      <4>1. PT!PdOf(z, p) = d
        BY <2>5, <2>7, <2>8, <3>2 DEF PT!PdOf, D1
      <4> QED BY <1>1, <1>5, <2>1, <2>2, <2>3, <2>10, <3>4, <3>5, <4>1 DEF PT!MapSmall
    <3>7. /\ D1(root, new, p).kind = "table" /\ D2(root, new, p).kind = "table" /\ g = D2(root, new, p).page
          /\ Sound(z.free, new, root, room)
      BY <2>1, <2>5, <2>7, <2>8, <3>2, <3>3, <3>5 DEF D2, Good
    <3>8. g \in Page /\ z.table[g] # << >> /\ y \in Idx
      BY <2>7, <2>8, <3>5, <3>7, Paths, Indexes
    <3>9. v.root = z.root /\ v.end = "ok" /\ Only(z.table, v.table, g, y) /\ v.table[g][y] = en
      BY <2>5, <2>10, <3>6, <3>8, StoreShape
    <3>10. PICK last : last = v.table
      OBVIOUS
    <3>11. Only(new, last, g, PT!PtIdx(p)) /\ last[g][PT!PtIdx(p)] = en
      BY <2>7, <3>5, <3>9, <3>10
    <3>12. /\ Full(root, last, T)
           /\ \A q \in Page : Seen(root, last, q) = IF q = p THEN <<3, en>> ELSE Seen(root, new, q)
      BY <2>8, <3>1, <3>7, <3>11, LeafSmall
    <3> QED BY <1>1, <1>3, <1>5, <2>5, <2>7, <3>1, <3>9, <3>10, <3>12 DEF Unseen, Mapped
  <2> QED BY <2>9, <2>10
<1> QED BY <1>4, <1>5

-----------------------------------------------------------------------------
(* The pages that are mapped.                                              *)

\* Page q begins in entry k of the map, which InitKernelPageTable does not skip.
Of(m, q, k) == m[k].addr % 16 = 0 /\ m[k].addr <= First(q) /\ First(q) < End(m[k])
AvailIn(m, q) == \E k \in DOMAIN m : Of(m, q, k) /\ m[k].type = "available"

\* The pages of the entries before the j-th, and those of it below address a.
DonePages(m, j, a) ==
  {q \in Page : \E k \in DOMAIN m : Of(m, q, k) /\ (k < j \/ (k = j /\ First(q) < a))}

\* The page that a leaf on the way of q has.
Base(level, q) ==
  IF level = 1 THEN Fan * Fan * (q \div (Fan * Fan)) ELSE IF level = 2 THEN Fan * (q \div Fan) ELSE q

\* Page q is translated to itself, with the attributes it should have; larger pages
\* are used for available memory only.
Right(m, dev, q, s) ==
  /\ s = <<s[1], s[2]>> /\ s[1] \in 1 .. 3
  /\ s[2].kind = "leaf" /\ s[2].page = Base(s[1], q) /\ (s[2].huge <=> s[1] # 3)
  /\ s[2].cache_disabled <=> q \in dev
  /\ s[2].write_through <=> ~AvailIn(m, q) /\ q \notin dev
  /\ s[1] # 3 => AvailIn(m, q) /\ q \notin dev

\* The pages done and the device pages are translated, and no others.
View(m, j, a, dev, root, tab) ==
  /\ Full(root, tab, DonePages(m, j, a) \cup dev)
  /\ \A q \in Page :
       IF q \in DonePages(m, j, a) \cup dev THEN Right(m, dev, q, Seen(root, tab, q))
       ELSE Seen(root, tab, q) = << >>

At == IF pc = "map" THEN addr ELSE 0

MapInv ==
  /\ pc \notin {"refused", "scribble"}
  /\ mapped \subseteq Devices
  /\ pc \notin Stopped \cup {"installed"} => mapped = {}
  /\ pc \in Mapping => View(boot_mem_map, i, At, mapped, kern_entry, table)
  /\ pc = "map" => addr % 16 = 0 /\ boot_mem_map[i].addr % 16 = 0 /\ addr >= boot_mem_map[i].addr
  /\ pc = "installed" => i > Len(boot_mem_map)

\* An entry's page is no other entry's.
LEMMA OneEntry ==
  ASSUME NEW m, MapOK(m), NEW q \in Nat, NEW j \in DOMAIN m, NEW k \in DOMAIN m,
         m[j].addr <= First(q), First(q) < End(m[j]), m[k].addr <= First(q), First(q) < End(m[k])
  PROVE  j = k
<1>1. m[j].addr \in Nat /\ m[k].addr \in Nat /\ End(m[j]) \in Nat /\ End(m[k]) \in Nat
  <2>1. m[j] \in MapEntry /\ m[k] \in MapEntry
    BY DEF MapOK
  <2> QED BY <2>1 DEF MapOK, MapEntry
<1>2. First(q) \in Nat
  BY DEF First, PAGESIZE
<1> QED BY <1>1, <1>2 DEF MapOK

LEMMA EntryFacts ==
  ASSUME NEW m, MapOK(m)
  PROVE  \A k \in DOMAIN m : k \in Nat /\ 1 <= k /\ k <= Len(m) /\ m[k].addr \in Nat /\ End(m[k]) \in Nat
<1>1. \A k \in DOMAIN m : k \in Nat /\ 1 <= k /\ k <= Len(m) /\ m[k] \in MapEntry /\ End(m[k]) \in Nat
  BY DEF MapOK
<1> QED BY <1>1 DEF MapEntry

LEMMA PageFacts == \A q \in Page : q \in Nat /\ First(q) \in Nat /\ First(q) = 16 * q
BY FanFacts DEF Page, First, PAGESIZE

\* The pages done as the loops go on.
LEMMA DoneSkip ==
  ASSUME NEW m, MapOK(m), NEW j \in DOMAIN m, m[j].addr % 16 # 0
  PROVE  DonePages(m, j + 1, 0) = DonePages(m, j, 0)
<1>1. \A k \in DOMAIN m : \A q \in Page : Of(m, q, k) => k # j
  BY DEF Of
<1>2. \A k \in DOMAIN m : k \in Nat /\ j \in Nat
  BY EntryFacts
<1>3. \A q \in Page : First(q) \in Nat
  BY PageFacts
<1>4. \A k \in DOMAIN m : \A q \in Page : Of(m, q, k) =>
        ((k < j \/ (k = j /\ First(q) < 0)) <=> (k < j + 1 \/ (k = j + 1 /\ First(q) < 0)))
  BY <1>1, <1>2, <1>3
<1> QED BY <1>4 DEF DonePages

LEMMA DoneEnter ==
  ASSUME NEW m, MapOK(m), NEW j \in DOMAIN m
  PROVE  DonePages(m, j, m[j].addr) = DonePages(m, j, 0)
<1>1. \A q \in Page : First(q) \in Nat
  BY PageFacts
<1>2. m[j].addr \in Nat
  BY EntryFacts
<1>3. \A k \in DOMAIN m : \A q \in Page : Of(m, q, k) =>
        ((k < j \/ (k = j /\ First(q) < m[j].addr)) <=> (k < j \/ (k = j /\ First(q) < 0)))
  BY <1>1, <1>2 DEF Of
<1> QED BY <1>3 DEF DonePages

LEMMA DoneLeave ==
  ASSUME NEW m, MapOK(m), NEW j \in DOMAIN m, NEW a \in Nat, a >= End(m[j])
  PROVE  DonePages(m, j + 1, 0) = DonePages(m, j, a)
<1>1. \A q \in Page : First(q) \in Nat
  BY PageFacts
<1>2. \A k \in DOMAIN m : k \in Nat /\ j \in Nat /\ End(m[j]) \in Nat
  BY EntryFacts
<1>3. \A k \in DOMAIN m : \A q \in Page : Of(m, q, k) =>
        ((k < j \/ (k = j /\ First(q) < a)) <=> (k < j + 1 \/ (k = j + 1 /\ First(q) < 0)))
  BY <1>1, <1>2 DEF Of
<1> QED BY <1>3 DEF DonePages

\* The pages of a step of the loop: they are of the entry, and new.
LEMMA DoneGrow ==
  ASSUME NEW m, MapOK(m), NEW j \in DOMAIN m, m[j].addr % 16 = 0,
         NEW a \in Nat, a >= m[j].addr, NEW b \in Nat, b > a,
         \A q \in Page : a <= First(q) /\ First(q) < b => First(q) < End(m[j])
  PROVE  \A q \in Page :
           /\ q \in DonePages(m, j, b) <=> q \in DonePages(m, j, a) \/ (a <= First(q) /\ First(q) < b)
           /\ a <= First(q) /\ First(q) < b =>
                q \notin DonePages(m, j, a) /\ (AvailIn(m, q) <=> m[j].type = "available")
<1> SUFFICES ASSUME NEW q \in Page
             PROVE  /\ q \in DonePages(m, j, b) <=> q \in DonePages(m, j, a) \/ (a <= First(q) /\ First(q) < b)
                    /\ a <= First(q) /\ First(q) < b =>
                         q \notin DonePages(m, j, a) /\ (AvailIn(m, q) <=> m[j].type = "available")
  OBVIOUS
<1>1. First(q) \in Nat /\ q \in Nat
  BY PageFacts
<1>2. \A k \in DOMAIN m : k \in Nat /\ j \in Nat /\ m[k].addr \in Nat /\ End(m[k]) \in Nat
  BY EntryFacts
<1>3. CASE a <= First(q) /\ First(q) < b
  <2>1. Of(m, q, j)
    BY <1>1, <1>2, <1>3 DEF Of
  <2>2. \A k \in DOMAIN m : Of(m, q, k) => k = j
    BY <1>1, <2>1, OneEntry DEF Of
  <2>3. q \in DonePages(m, j, b)
    BY <1>3, <2>1 DEF DonePages
  <2>4. q \notin DonePages(m, j, a)
    BY <1>1, <1>2, <1>3, <2>2 DEF DonePages
  <2>5. AvailIn(m, q) <=> m[j].type = "available"
    BY <2>1, <2>2 DEF AvailIn
  <2> QED BY <1>3, <2>3, <2>4, <2>5
<1>4. CASE ~(a <= First(q) /\ First(q) < b)
  <2>1. First(q) < a <=> First(q) < b
    BY <1>1, <1>4
  <2> QED BY <1>4, <2>1 DEF DonePages
<1> QED BY <1>3, <1>4

\* The pages of a block of n pages.
LEMMA Block ==
  ASSUME NEW n \in Nat, n >= 1, NEW p \in Nat, p % n = 0, NEW q \in Nat
  PROVE  /\ q \div n = p \div n <=> p <= q /\ q < p + n
         /\ n * (p \div n) = p
<1>1. PICK k \in Nat : k = p \div n /\ p = n * k
  <2>1. p \div n \in Nat /\ p = n * (p \div n) + (p % n)
    BY Division
  <2>2. PICK k \in Nat : k = p \div n
    BY <2>1
  <2>3. n * k \in Nat /\ p = n * k + 0
    BY <2>1, <2>2
  <2> QED BY <2>2, <2>3
<1>2. PICK l \in Nat, r \in Nat : l = q \div n /\ r < n /\ q = n * l + r
  <2>1. q \div n \in Nat /\ q % n \in Nat /\ q % n < n /\ q = n * (q \div n) + (q % n)
    BY Division
  <2> QED BY <2>1
<1>3. l = k => p <= q /\ q < p + n
  BY <1>1, <1>2
<1>4. ASSUME p <= q, q < p + n PROVE l = k
  <2>1. q = n * k + (q - p) /\ q - p \in Nat /\ q - p < n
    BY <1>1, <1>4
  <2>2. PICK s \in Nat : s = q - p
    BY <2>1
  <2>3. q \div n = k
    BY <2>1, <2>2, QuotientIs
  <2> QED BY <1>2, <2>3
<1> QED BY <1>1, <1>2, <1>3, <1>4

LEMMA FullMono ==
  ASSUME NEW root, NEW tab, NEW S, NEW T, S \subseteq T, Full(root, tab, S)
  PROVE  Full(root, tab, T)
BY DEF Full

\* The pages from address a to b, the block of p, are of entry j and have got the
\* leaf en of the level.
Paint(m, j, a, b, p, level, en, root, tab, new, last) ==
  /\ level \in 1 .. 3 /\ (level # 3 => m[j].type = "available")
  /\ en.kind = "leaf" /\ en.page = p /\ (en.huge <=> level # 3)
  /\ ~en.cache_disabled /\ (en.write_through <=> m[j].type # "available")
  /\ p \in Page /\ First(p) = a
  /\ \A q \in Page : a <= First(q) /\ First(q) < b => First(q) < End(m[j])
  /\ \A q \in Page : a <= First(q) /\ First(q) < b => Base(level, q) = p
  /\ Full(new, last, DonePages(m, j, a) \cup {p})
  /\ \A q \in Page : Seen(new, last, q) =
       IF a <= First(q) /\ First(q) < b THEN <<level, en>> ELSE Seen(root, tab, q)

LEMMA Painted ==
  ASSUME NEW m, MapOK(m), NEW j \in DOMAIN m, m[j].addr % 16 = 0,
         NEW a \in Nat, a >= m[j].addr, NEW b \in Nat, b > a,
         NEW root, NEW tab, View(m, j, a, {}, root, tab),
         NEW p, NEW level, NEW en, NEW new, NEW last,
         Paint(m, j, a, b, p, level, en, root, tab, new, last)
  PROVE  View(m, j, b, {}, new, last)
<1> USE DEF Paint
<1>1. \A q \in Page :
        /\ q \in DonePages(m, j, b) <=> q \in DonePages(m, j, a) \/ (a <= First(q) /\ First(q) < b)
        /\ a <= First(q) /\ First(q) < b =>
             q \notin DonePages(m, j, a) /\ (AvailIn(m, q) <=> m[j].type = "available")
  BY DoneGrow
<1>2. PICK S, T : S = DonePages(m, j, a) /\ T = DonePages(m, j, b)
  OBVIOUS
<1>3. S \subseteq Page /\ T \subseteq Page /\ p \in T
  <2>1. a <= First(p) /\ First(p) < b
    OBVIOUS
  <2>2. p \in T
    BY <1>1, <1>2, <2>1
  <2> QED BY <1>2, <2>2 DEF DonePages
<1>4. Full(new, last, T)
  <2>1. S \cup {p} \subseteq T
    BY <1>1, <1>2, <1>3
  <2> QED BY <1>2, <2>1, FullMono
<1>5. ASSUME NEW q \in Page, a <= First(q) /\ First(q) < b
      PROVE  q \in T /\ Right(m, {}, q, Seen(new, last, q))
  <2>1. PICK s : s = <<level, en>>
    OBVIOUS
  <2>2. s[1] = level /\ s[2] = en /\ s = <<s[1], s[2]>>
    BY <2>1
  <2>3. Seen(new, last, q) = s /\ Base(level, q) = p
    BY <1>5, <2>1
  <2>4. AvailIn(m, q) <=> m[j].type = "available"
    BY <1>1, <1>5
  <2>5. Right(m, {}, q, s)
    BY <2>2, <2>3, <2>4 DEF Right
  <2> QED BY <1>1, <1>2, <1>5, <2>3, <2>5
<1>6. ASSUME NEW q \in Page, ~(a <= First(q) /\ First(q) < b)
      PROVE  IF q \in T THEN Right(m, {}, q, Seen(new, last, q)) ELSE Seen(new, last, q) = << >>
  <2>1. (q \in T <=> q \in S) /\ Seen(new, last, q) = Seen(root, tab, q)
    BY <1>1, <1>2, <1>6
  <2> QED BY <1>2, <2>1 DEF View
<1>7. \A q \in Page : IF q \in T THEN Right(m, {}, q, Seen(new, last, q)) ELSE Seen(new, last, q) = << >>
  BY <1>5, <1>6
<1>8. T \cup {} = T
  OBVIOUS
<1> QED BY <1>2, <1>4, <1>7, <1>8 DEF View

\* A device page has got the leaf en.
LEMMA Added ==
  ASSUME NEW m, NEW j, NEW dev, NEW root, NEW tab, View(m, j, 0, dev, root, tab), NEW p \in Page,
         NEW en, en.kind = "leaf", en.page = p, ~en.huge, en.cache_disabled, ~en.write_through,
         NEW new, NEW last, Full(new, last, DonePages(m, j, 0) \cup dev \cup {p}),
         \A q \in Page : Seen(new, last, q) = IF q = p THEN <<3, en>> ELSE Seen(root, tab, q)
  PROVE  View(m, j, 0, dev \cup {p}, new, last)
<1>1. PICK S, d : S = DonePages(m, j, 0) /\ d = dev \cup {p}
  OBVIOUS
<1>2. Full(new, last, S \cup d)
  <2>1. DonePages(m, j, 0) \cup dev \cup {p} \subseteq S \cup d
    BY <1>1
  <2> QED BY <2>1, FullMono
<1>3. Right(m, d, p, Seen(new, last, p)) /\ p \in d
  <2>1. PICK s : s = <<3, en>>
    OBVIOUS
  <2>2. s[1] = 3 /\ s[2] = en /\ s = <<s[1], s[2]>>
    BY <2>1
  <2>3. p \in d /\ Base(3, p) = p
    BY <1>1 DEF Base
  <2>4. Right(m, d, p, s)
    BY <2>2, <2>3 DEF Right
  <2> QED BY <2>1, <2>3, <2>4
<1>4. ASSUME NEW q \in Page, q # p
      PROVE  IF q \in S \cup d THEN Right(m, d, q, Seen(new, last, q)) ELSE Seen(new, last, q) = << >>
  <2>1. (q \in d <=> q \in dev) /\ Seen(new, last, q) = Seen(root, tab, q)
    BY <1>1, <1>4
  <2>2. IF q \in S \cup dev THEN Right(m, dev, q, Seen(root, tab, q)) ELSE Seen(root, tab, q) = << >>
    BY <1>1 DEF View
  <2>3. Right(m, dev, q, Seen(root, tab, q)) => Right(m, d, q, Seen(root, tab, q))
    BY <2>1 DEF Right
  <2> QED BY <2>1, <2>2, <2>3
<1>5. \A q \in Page : IF q \in S \cup d THEN Right(m, d, q, Seen(new, last, q)) ELSE Seen(new, last, q) = << >>
  BY <1>3, <1>4
<1> QED BY <1>1, <1>2, <1>5 DEF View

\* The loop's huge page, large page or page, as the addresses have it.
LEMMA Blocks ==
  ASSUME NEW a \in Nat, NEW p \in Page, p = a \div 16, a % 16 = 0
  PROVE  /\ First(p) = a
         /\ \A q \in Page : q = p <=> a <= First(q) /\ First(q) < a + 16
         /\ a % PT!LARGEPAGESIZE = 0 =>
              \A q \in Page :
                /\ SameLarge(p, q) <=> a <= First(q) /\ First(q) < a + PT!LARGEPAGESIZE
                /\ SameLarge(p, q) => Base(2, q) = p
         /\ a % PT!HUGEPAGESIZE = 0 =>
              \A q \in Page :
                /\ SameHuge(p, q) <=> a <= First(q) /\ First(q) < a + PT!HUGEPAGESIZE
                /\ SameHuge(p, q) => Base(1, q) = p
<1>1. a = 16 * p /\ p \in Nat /\ First(p) = a
  BY PageFacts
<1>2. \A q \in Page : q \in Nat /\ First(q) = 16 * q
  BY PageFacts
<1>3. \A q \in Page : q = p <=> a <= First(q) /\ First(q) < a + 16
  BY <1>1, <1>2
<1>4. ASSUME NEW n \in Nat, n >= 1, a % (n * 16) = 0 PROVE p % n = 0
  <2>1. PICK k \in Nat : a = (n * 16) * k
    <3>1. PICK l \in Nat : l = n * 16 /\ l >= 1
      BY <1>4
    <3>2. a \div l \in Nat /\ a = l * (a \div l) + (a % l) /\ a % l = 0
      BY <1>4, <3>1, Division
    <3>3. PICK k \in Nat : k = a \div l
      BY <3>2
    <3>4. a = l * k
      BY <3>2, <3>3
    <3> QED BY <3>1, <3>4
  <2>2. (n * 16) * k = 16 * (n * k)
    BY <1>4
  <2>3. p = n * k /\ n * k \in Nat
    BY <1>1, <2>1, <2>2
  <2>4. p \div n = k
    <3>1. p = n * k + 0
      BY <2>3
    <3> QED BY <1>1, <1>4, <3>1, QuotientIs
  <2>5. p = n * (p \div n) + (p % n) /\ p % n \in Nat
    BY <1>1, <1>4, Division
  <2>6. PICK r \in Nat : r = p % n
    BY <2>5
  <2>7. p = n * k + r
    BY <2>4, <2>5, <2>6
  <2> QED BY <2>3, <2>6, <2>7
<1>5. ASSUME a % PT!LARGEPAGESIZE = 0, NEW q \in Page
      PROVE  /\ SameLarge(p, q) <=> a <= First(q) /\ First(q) < a + PT!LARGEPAGESIZE
             /\ SameLarge(p, q) => Base(2, q) = p
  <2>1. PT!LARGEPAGESIZE = Fan * 16
    BY DEF PT!LARGEPAGESIZE, PT!PAGESIZE
  <2>2. p % Fan = 0
    BY <1>4, <1>5, <2>1, FanFacts
  <2>3. /\ q \div Fan = p \div Fan <=> p <= q /\ q < p + Fan
        /\ Fan * (p \div Fan) = p
    BY <1>1, <1>2, <2>2, FanFacts, Block
  <2>4. p <= q /\ q < p + Fan <=> a <= First(q) /\ First(q) < a + Fan * 16
    BY <1>1, <1>2, FanFacts
  <2> QED BY <2>1, <2>3, <2>4, SamePage DEF Base
<1>6. ASSUME a % PT!HUGEPAGESIZE = 0, NEW q \in Page
      PROVE  /\ SameHuge(p, q) <=> a <= First(q) /\ First(q) < a + PT!HUGEPAGESIZE
             /\ SameHuge(p, q) => Base(1, q) = p
  <2>1. PICK n \in Nat : n = Fan * Fan /\ n >= 1
    BY FanFacts
  <2>2. PT!HUGEPAGESIZE = n * 16
    <3>1. Fan * (Fan * 16) = (Fan * Fan) * 16
      BY FanFacts
    <3> QED BY <2>1, <3>1 DEF PT!HUGEPAGESIZE, PT!LARGEPAGESIZE, PT!PAGESIZE
  <2>3. p % n = 0
    BY <1>4, <1>6, <2>1, <2>2
  <2>4. /\ q \div n = p \div n <=> p <= q /\ q < p + n
        /\ n * (p \div n) = p
    BY <1>1, <1>2, <2>1, <2>3, Block
  <2>5. p <= q /\ q < p + n <=> a <= First(q) /\ First(q) < a + n * 16
    BY <1>1, <1>2, <2>1
  <2>6. SameHuge(p, q) <=> q \div n = p \div n
    BY <2>1 DEF SameHuge, PT!PdptIdx
  <2>7. Base(1, q) = n * (q \div n)
    BY <2>1 DEF Base
  <2> QED BY <2>2, <2>4, <2>5, <2>6, <2>7
<1> QED BY <1>1, <1>3, <1>5, <1>6

-----------------------------------------------------------------------------
(* The steps again.                                                        *)

LEMMA InitMap == BootInit => MapInv
BY DEF BootInit, Init, PT!Init, MapInv, Stopped, Mapping

\* Until the tables are begun nothing is mapped.
LEMMA EarlyMap ==
  ASSUME MapInv, pc \notin Mapping \cup Stopped, mapped' = mapped,
         pc' \in Early \cup {"collect", "done", "fault", "panic"}
  PROVE  MapInv'
<1>1. mapped = {}
  BY DEF MapInv, Mapping
<1>2. pc' \notin {"refused", "scribble", "map", "installed"} /\ pc' \notin Mapping
  BY DEF Early, Mapping
<1> QED BY <1>1, <1>2 DEF MapInv

LEMMA MemMap ==
  ASSUME IInv, MapInv, Next, UNCHANGED tables
  PROVE  MapInv'
<1>1. mapped' = mapped
  BY DEF tables
<1>2. pc \notin Mapping \cup Stopped /\ pc' \in Early \cup {"collect", "done", "fault", "panic"}
  BY DEF Next, CollectAvailable, ParseTag, TagsDone, InitEntry, ClearStructs, SkipEntry, EnterEntry,
         NoStruct, Collect, LeaveEntry, CollectDone, Mapping, Stopped, Early
<1> QED BY <1>1, <1>2, EarlyMap

LEMMA InitBootPageTableMap ==
  ASSUME IInv, MapInv, PT!InitBootPageTable
  PROVE  MapInv'
<1>1. mapped' = mapped
  BY DEF PT!InitBootPageTable, PT!tables
<1>2. pc \notin Mapping \cup Stopped /\ pc' \in Early \cup {"collect", "done", "fault", "panic"}
  BY DEF PT!InitBootPageTable, Mapping, Stopped, Early
<1> QED BY <1>1, <1>2, EarlyMap

LEMMA CheckMemoryMap ==
  ASSUME IInv, MapInv, PT!CheckMemory
  PROVE  MapInv'
<1>1. /\ pc = "done" /\ pc' \in {"panic", "entries"} /\ i' = 1
      /\ UNCHANGED <<boot_mem_map, table, kern_entry, mapped>>
  BY DEF PT!CheckMemory, PT!tables
<1>2. mapped = {} /\ kern_entry = PT!None
  BY <1>1 DEF MapInv, IInv, TableInv, Mapping, Stopped
<1>3. PICK m : m = boot_mem_map /\ MapOK(m)
  BY <1>1, ParsedMap DEF IInv
<1>4. DonePages(m, 1, 0) = {}
  <2>1. \A k \in DOMAIN m : k \in Nat /\ 1 <= k
    BY <1>3, EntryFacts
  <2>2. \A q \in Page : First(q) \in Nat
    BY PageFacts
  <2> QED BY <2>1, <2>2 DEF DonePages
<1>5. kern_entry'.kind = "none" /\ mapped' = {}
  BY <1>1, <1>2 DEF PT!None
<1>6. View(m, 1, 0, {}, kern_entry', table')
  <2>1. \A q \in Page : Seen(kern_entry', table', q) = << >>
    BY <1>5 DEF Seen
  <2>2. Full(kern_entry', table', {})
    BY <1>5 DEF Full
  <2>3. DonePages(m, 1, 0) \cup {} = {}
    BY <1>4
  <2> QED BY <2>1, <2>2, <2>3 DEF View
<1>7. At' = 0 /\ boot_mem_map' = m
  BY <1>1, <1>3 DEF At
<1> QED BY <1>1, <1>5, <1>6, <1>7 DEF MapInv, Stopped

\* In the loops, in the terms of the lemmas above.
LEMMA Looping ==
  ASSUME IInv, MapInv, pc \in {"entries", "map"}
  PROVE  /\ MapOK(boot_mem_map) /\ mapped = {} /\ View(boot_mem_map, i, At, {}, kern_entry, table)
         /\ i \in Nat /\ i >= 1 /\ Len(boot_mem_map) \in Nat
<1>1. MapOK(boot_mem_map)
  BY ParsedMap DEF IInv
<1>2. mapped = {}
  BY DEF MapInv, Stopped
<1>3. View(boot_mem_map, i, At, mapped, kern_entry, table)
  BY DEF MapInv, Mapping
<1> QED BY <1>1, <1>2, <1>3 DEF IInv, TypeOK

LEMMA NextEntryMap ==
  ASSUME IInv, MapInv, PT!NextEntry
  PROVE  MapInv'
<1>1. /\ pc = "entries" /\ i <= Len(boot_mem_map)
      /\ \/ boot_mem_map[i].addr % 16 # 0 /\ pc' = "entries" /\ i' = i + 1
         \/ boot_mem_map[i].addr % 16 = 0 /\ pc' = "map" /\ addr' = boot_mem_map[i].addr /\ i' = i
      /\ UNCHANGED <<boot_mem_map, table, kern_entry, mapped>>
  BY DEF PT!NextEntry, PT!Entry, PT!PAGESIZE
<1>2. PICK m, j : m = boot_mem_map /\ j = i
  OBVIOUS
<1>3. MapOK(m) /\ mapped = {} /\ View(m, j, 0, {}, kern_entry, table) /\ j \in DOMAIN m
  <2>1. At = 0
    BY <1>1 DEF At
  <2>2. j \in DOMAIN m
    BY <1>1, <1>2, Looping DEF IInv, TypeOK
  <2> QED BY <1>1, <1>2, <2>1, <2>2, Looping
<1>4. CASE m[j].addr % 16 # 0 /\ pc' = "entries" /\ i' = i + 1
  <2>1. DonePages(m, j + 1, 0) = DonePages(m, j, 0)
    BY <1>3, <1>4, DoneSkip
  <2>2. View(m, j + 1, 0, {}, kern_entry, table)
    BY <1>3, <2>1 DEF View
  <2>3. At' = 0 /\ i' = j + 1
    BY <1>2, <1>4 DEF At
  <2> QED BY <1>1, <1>2, <1>3, <1>4, <2>2, <2>3 DEF MapInv, Stopped
<1>5. CASE m[j].addr % 16 = 0 /\ pc' = "map" /\ addr' = m[j].addr /\ i' = i
  <2>1. DonePages(m, j, m[j].addr) = DonePages(m, j, 0)
    BY <1>3, DoneEnter
  <2>2. View(m, j, m[j].addr, {}, kern_entry, table)
    BY <1>3, <2>1 DEF View
  <2>3. At' = m[j].addr /\ i' = j /\ m[j].addr \in Nat
    BY <1>2, <1>3, <1>5, EntryFacts DEF At
  <2> QED BY <1>1, <1>2, <1>3, <1>5, <2>2, <2>3 DEF MapInv, Stopped
<1> QED BY <1>1, <1>2, <1>4, <1>5

LEMMA MapDoneMap ==
  ASSUME IInv, MapInv, PT!MapDone
  PROVE  MapInv'
<1>1. /\ pc = "map" /\ addr >= End(boot_mem_map[i]) /\ pc' = "entries" /\ i' = i + 1
      /\ UNCHANGED <<boot_mem_map, table, kern_entry, mapped>>
  BY DEF PT!MapDone, PT!tables, PT!Entry, PT!End, End
<1>2. PICK m, j, a : m = boot_mem_map /\ j = i /\ a = addr
  OBVIOUS
<1>3. MapOK(m) /\ mapped = {} /\ View(m, j, a, {}, kern_entry, table) /\ j \in DOMAIN m /\ a \in Nat
  <2>1. At = a
    BY <1>1, <1>2 DEF At
  <2>2. j \in DOMAIN m /\ a \in Nat
    BY <1>1, <1>2 DEF IInv, ReachInv
  <2> QED BY <1>1, <1>2, <2>1, <2>2, Looping
<1>4. DonePages(m, j + 1, 0) = DonePages(m, j, a)
  BY <1>1, <1>2, <1>3, DoneLeave
<1>5. View(m, j + 1, 0, {}, kern_entry, table)
  BY <1>3, <1>4 DEF View
<1>6. At' = 0 /\ i' = j + 1
  BY <1>1, <1>2 DEF At
<1> QED BY <1>1, <1>2, <1>3, <1>5, <1>6 DEF MapInv, Stopped

LEMMA InstallMap ==
  ASSUME IInv, MapInv, PT!Install
  PROVE  MapInv'
<1>1. /\ pc = "entries" /\ i > Len(boot_mem_map) /\ pc' = "installed"
      /\ UNCHANGED <<boot_mem_map, i, table, kern_entry, mapped>>
  BY DEF PT!Install
<1>2. mapped = {} /\ View(boot_mem_map, i, 0, mapped, kern_entry, table)
  BY <1>1, Looping DEF At
<1>3. At' = 0
  BY <1>1 DEF At
<1> QED BY <1>1, <1>2, <1>3 DEF MapInv, Stopped

\* A walk from here, in the terms of the lemmas above.
LEMMA Hence ==
  ASSUME IInv, MapInv, pc \in Mapping
  PROVE  \E room, w :
           /\ room \subseteq Page /\ w = PT!Here /\ Good(w, room) /\ w.end = "ok"
           /\ w.root = kern_entry /\ w.table = table
           /\ Full(w.root, w.table, DonePages(boot_mem_map, i, At) \cup mapped)
<1>1. PICK room : room = Room /\ room \subseteq Page
  BY RoomInPage
<1>2. PICK w : w = PT!Here
  OBVIOUS
<1>3. w.free = list /\ w.table = table /\ w.root = kern_entry /\ w.end = "ok"
      /\ w = [free |-> w.free, table |-> w.table, root |-> w.root, end |-> w.end]
  BY <1>2 DEF PT!Here
<1>4. Good(w, room)
  BY <1>1, <1>3 DEF Good, Ends, IInv, TableInv
<1>5. Full(w.root, w.table, DonePages(boot_mem_map, i, At) \cup mapped)
  BY <1>3 DEF MapInv, View
<1> QED BY <1>1, <1>2, <1>3, <1>4, <1>5

\* A device page is mapped.
LEMMA MapPageMap ==
  ASSUME IInv, MapInv, NEW p \in Devices, PT!MapPage(p)
  PROVE  MapInv'
<1>1. /\ pc = "installed" /\ PT!Take(PT!MapSmall(PT!Here, p, PT!Leaf(p, FALSE, FALSE, TRUE)), "installed")
      /\ mapped' = mapped \cup {p} /\ UNCHANGED <<boot_mem_map, i>>
  BY DEF PT!MapPage
<1>2. p \in Page
  BY BootAssumption
<1>3. PICK en : en = PT!Leaf(p, FALSE, FALSE, TRUE)
  OBVIOUS
<1>4. en.kind = "leaf" /\ en.page = p /\ en.huge = FALSE /\ en.write_through = FALSE /\ en.cache_disabled = TRUE
  BY <1>3 DEF PT!Leaf
<1>5. PICK v :
        /\ v = PT!MapSmall(PT!Here, p, en)
        /\ list' = v.free /\ table' = v.table /\ kern_entry' = v.root
        /\ pc' = IF v.end = "ok" THEN "installed" ELSE v.end
  BY <1>1, <1>3 DEF PT!Take
<1>6. PICK m, j, dev, S :
        m = boot_mem_map /\ j = i /\ dev = mapped /\ S = DonePages(m, j, 0) \cup dev
  OBVIOUS
<1>7. pc \in Mapping /\ At = 0
  BY <1>1 DEF Mapping, At
<1>8. PICK room, w :
        /\ room \subseteq Page /\ w = PT!Here /\ Good(w, room) /\ w.end = "ok"
        /\ w.root = kern_entry /\ w.table = table
        /\ Full(w.root, w.table, S)
  BY <1>6, <1>7, Hence
<1>9. View(m, j, 0, dev, w.root, w.table)
  BY <1>6, <1>7, <1>8 DEF MapInv
<1>10. Clear(w.root, w.table, p, 1) /\ Clear(w.root, w.table, p, 2)
  <2>1. ~AvailIn(m, p)
    <3> SUFFICES ASSUME NEW k \in DOMAIN m, Of(m, p, k), m[k].type = "available" PROVE FALSE
      BY DEF AvailIn
    <3>1. MapOK(m)
      BY <1>1, <1>6, ParsedMap DEF IInv
    <3>2. p \in Covered(m[k])
      <4>1. m[k].addr \in Nat /\ End(m[k]) \in Nat
        BY <3>1, EntryFacts
      <4>2. p \in Nat /\ p * 16 = First(p) /\ (p + 1) * 16 = First(p) + 16 /\ First(p) \in Nat
        BY <1>2, PageFacts
      <4> QED BY <1>2, <4>1, <4>2 DEF Covered, Of, PAGESIZE
    <3>3. PICK tags \in Infos : tags = info
      BY DEF IInv, TypeOK, GoodInfos
    <3>4. m = tags[MemoryMap(tags)].entries
      BY <1>1, <1>6, <3>3 DEF IInv, ParseInv, TheMap
    <3>5. m[k] \in ToSet(m)
      BY DEF ToSet
    <3>6. Covered(m[k]) \cap Devices = {}
      BY <3>4, <3>5, BootAssumption
    <3> QED BY <3>2, <3>6
  <2>2. PICK s : s = Seen(w.root, w.table, p)
    OBVIOUS
  <2>3. CASE s = << >>
    BY <2>2, <2>3 DEF Clear
  <2>4. CASE Right(m, dev, p, s)
    <3>1. s = <<s[1], s[2]>> /\ s[1] = 3
      BY <2>1, <2>4 DEF Right
    <3> QED BY <2>2, <3>1 DEF Clear
  <2> QED BY <1>2, <1>9, <2>2, <2>3, <2>4 DEF View
<1>11. v = PT!MapSmall(w, p, en)
  BY <1>5, <1>8
<1>12. /\ v.end \in {"ok", "null", "fault"}
       /\ v.end = "ok" => Mapped(w, v, S \cup {p}, {p}, 3, en)
  BY <1>2, <1>4, <1>8, <1>10, <1>11, MapSmallSeen
<1>13. mapped' \subseteq Devices
  BY <1>1 DEF MapInv
<1>14. CASE v.end = "ok"
  <2>1. PICK root, tab, new, last : root = w.root /\ tab = w.table /\ new = v.root /\ last = v.table
    OBVIOUS
  <2>2. /\ Full(new, last, DonePages(m, j, 0) \cup dev \cup {p})
        /\ \A q \in Page : Seen(new, last, q) = IF q = p THEN <<3, en>> ELSE Seen(root, tab, q)
    BY <1>6, <1>12, <1>14, <2>1 DEF Mapped
  <2>3. View(m, j, 0, dev \cup {p}, new, last)
    <3>1. View(m, j, 0, dev, root, tab)
      BY <1>9, <2>1
    <3>2. ~en.huge /\ en.cache_disabled /\ ~en.write_through
      BY <1>4
    <3> QED BY <1>2, <1>4, <2>2, <3>1, <3>2, Added
  <2>4. pc' = "installed" /\ At' = 0
    BY <1>5, <1>14 DEF At
  <2>5. View(boot_mem_map', i', At', mapped', kern_entry', table')
    BY <1>1, <1>5, <1>6, <2>1, <2>3, <2>4
  <2>6. i' > Len(boot_mem_map')
    BY <1>1 DEF MapInv
  <2> QED BY <1>13, <2>4, <2>5, <2>6 DEF MapInv
<1>15. CASE v.end # "ok"
  <2>1. pc' \in {"null", "fault"}
    BY <1>5, <1>12, <1>15
  <2> QED BY <1>13, <2>1 DEF MapInv, Mapping, Stopped
<1> QED BY <1>14, <1>15

\* A step of the loop from address a by d bytes: it maps B, the pages of a block of
\* p, at the level, and v is what it leaves of w.
Stride(m, j, a, d, p, B, level, en, w, v) ==
  /\ d \in Nat /\ d > 0 /\ d % 16 = 0
  /\ level \in 1 .. 3 /\ (level # 3 => m[j].type = "available")
  /\ en.kind = "leaf" /\ en.page = p /\ (en.huge <=> level # 3)
  /\ ~en.cache_disabled /\ (en.write_through <=> m[j].type # "available")
  /\ p \in Page /\ First(p) = a
  /\ \A q \in Page : q \in B <=> a <= First(q) /\ First(q) < a + d
  /\ \A q \in Page : q \in B => First(q) < End(m[j])
  /\ \A q \in Page : q \in B => Base(level, q) = p
  /\ v.end \in {"ok", "null", "fault"}
  /\ v.end = "ok" => Mapped(w, v, DonePages(m, j, a) \cup {p}, B, level, en)

LEMMA StepDone ==
  ASSUME IInv, MapInv, pc = "map", UNCHANGED <<boot_mem_map, i, mapped>>,
         NEW d, NEW p, NEW B, NEW level, NEW en, NEW w, NEW v,
         Stride(boot_mem_map, i, addr, d, p, B, level, en, w, v), addr' = addr + d,
         w.root = kern_entry, w.table = table,
         table' = v.table, kern_entry' = v.root, pc' = IF v.end = "ok" THEN "map" ELSE v.end
  PROVE  MapInv'
<1>1. PICK m, j, a, b : m = boot_mem_map /\ j = i /\ a = addr /\ b = a + d
  OBVIOUS
<1>2. /\ MapOK(m) /\ mapped = {} /\ View(m, j, a, {}, kern_entry, table) /\ j \in DOMAIN m
      /\ a \in Nat /\ a % 16 = 0 /\ m[j].addr % 16 = 0 /\ a >= m[j].addr /\ b \in Nat /\ b > a
  <2>1. At = a
    BY <1>1 DEF At
  <2>2. j \in DOMAIN m /\ a \in Nat
    BY <1>1 DEF IInv, ReachInv
  <2>3. a % 16 = 0 /\ m[j].addr % 16 = 0 /\ a >= m[j].addr
    BY <1>1 DEF MapInv
  <2>4. b \in Nat /\ b > a
    BY <1>1, <2>2 DEF Stride
  <2> QED BY <1>1, <2>1, <2>2, <2>3, <2>4, Looping
<1>3. Stride(m, j, a, d, p, B, level, en, w, v) /\ d \in Nat /\ d % 16 = 0
      /\ v.end \in {"ok", "null", "fault"}
  <2>1. Stride(m, j, a, d, p, B, level, en, w, v)
    BY <1>1
  <2> QED BY <2>1 DEF Stride
<1>4. mapped' \subseteq Devices /\ mapped' = {}
  BY <1>2
<1>5. CASE v.end = "ok"
  <2>1. PICK root, tab, new, last : root = w.root /\ tab = w.table /\ new = v.root /\ last = v.table
    OBVIOUS
  <2>2. /\ Full(new, last, DonePages(m, j, a) \cup {p})
        /\ \A q \in Page : Seen(new, last, q) = IF q \in B THEN <<level, en>> ELSE Seen(root, tab, q)
    BY <1>3, <1>5, <2>1 DEF Mapped, Stride
  <2>3. Paint(m, j, a, b, p, level, en, root, tab, new, last)
    <3>1. \A q \in Page : q \in B <=> a <= First(q) /\ First(q) < b
      BY <1>1, <1>3 DEF Stride
    <3>2. \A q \in Page : Seen(new, last, q) =
            IF a <= First(q) /\ First(q) < b THEN <<level, en>> ELSE Seen(root, tab, q)
      BY <2>2, <3>1
    <3>3. /\ \A q \in Page : a <= First(q) /\ First(q) < b => First(q) < End(m[j])
          /\ \A q \in Page : a <= First(q) /\ First(q) < b => Base(level, q) = p
      BY <1>3, <3>1 DEF Stride
    <3> QED BY <1>3, <2>2, <3>2, <3>3 DEF Paint, Stride
  <2>4. View(m, j, a, {}, root, tab)
    BY <1>2, <2>1
  <2>6. View(m, j, b, {}, new, last)
    BY <1>2, <2>3, <2>4, Painted
  <2>7. pc' = "map" /\ At' = b
    BY <1>1, <1>5 DEF At
  <2>8. View(boot_mem_map', i', At', mapped', kern_entry', table')
    BY <1>1, <1>4, <2>1, <2>6, <2>7
  <2>9. addr' % 16 = 0 /\ addr' >= m[j].addr
    <3>1. m[j].addr \in Nat
      BY <1>2, EntryFacts
    <3> QED BY <1>1, <1>2, <1>3, <3>1
  <2>10. boot_mem_map' = m /\ i' = j
    BY <1>1
  <2> QED BY <1>2, <1>4, <2>7, <2>8, <2>9, <2>10 DEF MapInv
<1>6. CASE v.end # "ok"
  <2>1. pc' \in {"null", "fault"}
    BY <1>3, <1>6
  <2> QED BY <1>4, <2>1 DEF MapInv, Mapping, Stopped
<1> QED BY <1>5, <1>6

\* An iteration of MapPagesToPageTable.
LEMMA MapStepMap ==
  ASSUME IInv, MapInv, PT!MapStep
  PROVE  MapInv'
<1>1. /\ pc = "map" /\ addr < End(boot_mem_map[i])
      /\ UNCHANGED <<boot_mem_map, i, mapped>>
  BY DEF PT!MapStep, PT!Entry, PT!End, End
<1>2. PICK p : p = addr \div PT!PAGESIZE
  OBVIOUS
<1>3. pc \in Mapping /\ i \in DOMAIN boot_mem_map /\ addr \in Nat /\ addr % 16 = 0
      /\ End(boot_mem_map[i]) \in Nat
  <2>1. End(boot_mem_map[i]) \in Nat
    BY <1>1, ParsedMap DEF IInv, MapOK, ReachInv
  <2> QED BY <1>1, <2>1 DEF Mapping, IInv, ReachInv, MapInv
<1>4. p \in Page /\ p = addr \div 16
  <2>1. End(boot_mem_map[i]) <= max_phy /\ max_phy <= PT!KERN_MAX_MEMORY /\ max_phy \in Nat
    BY <1>1, <1>3 DEF IInv, SizeInv, ReachInv, TypeOK
  <2>2. addr < PT!KERN_MAX_MEMORY
    BY <1>1, <1>3, <2>1, Reach
  <2> QED BY <1>2, <1>3, <2>2, Reach DEF PT!PAGESIZE
<1>5. First(p) = addr /\ \A q \in Page : q = p <=> addr <= First(q) /\ First(q) < addr + 16
  BY <1>3, <1>4, Blocks
<1>6. PICK S : S = DonePages(boot_mem_map, i, addr)
  OBVIOUS
<1>7. View(boot_mem_map, i, addr, {}, kern_entry, table) /\ mapped = {} /\ MapOK(boot_mem_map)
  BY <1>1, Looping DEF At
<1>8. PICK room, w :
        /\ room \subseteq Page /\ w = PT!Here /\ Good(w, room) /\ w.end = "ok"
        /\ w.root = kern_entry /\ w.table = table
        /\ Full(w.root, w.table, S)
  <2>1. DonePages(boot_mem_map, i, At) \cup mapped = S
    BY <1>1, <1>6, <1>7 DEF At
  <2> QED BY <1>3, <2>1, Hence
<1>15. PT!Avail <=> boot_mem_map[i].type = "available"
  BY DEF PT!Avail, PT!Entry
\* The page is new.
<1>9. p \notin S
  <2>1. PICK m, j, a : m = boot_mem_map /\ j = i /\ a = addr
    OBVIOUS
  <2>2. \A k \in DOMAIN m : k \in Nat /\ j \in Nat
    BY <1>3, <1>7, <2>1, EntryFacts
  <2>3. m[j].addr <= First(p) /\ First(p) < End(m[j])
    BY <1>1, <1>3, <1>5, <1>7, <2>1, EntryFacts DEF MapInv
  <2>4. \A k \in DOMAIN m : Of(m, p, k) => k = j
    BY <1>3, <1>4, <1>7, <2>1, <2>3, OneEntry, PageFacts DEF Of
  <2> QED BY <1>3, <1>5, <1>6, <2>1, <2>2, <2>4 DEF DonePages
<1>10. Clear(w.root, w.table, p, 1) /\ Clear(w.root, w.table, p, 2)
  <2>1. Seen(w.root, w.table, p) = << >>
    BY <1>4, <1>6, <1>7, <1>8, <1>9 DEF View
  <2> QED BY <2>1 DEF Clear
<1>11. \/ /\ PT!Avail /\ addr % PT!HUGEPAGESIZE = 0 /\ addr + PT!HUGEPAGESIZE <= End(boot_mem_map[i])
          /\ PT!Take(PT!MapHuge(PT!Here, p, PT!Leaf(p, TRUE, ~PT!Avail, FALSE)), "map")
          /\ addr' = addr + PT!HUGEPAGESIZE
       \/ /\ PT!Avail /\ addr % PT!LARGEPAGESIZE = 0 /\ addr + PT!LARGEPAGESIZE <= End(boot_mem_map[i])
          /\ PT!Take(PT!MapLarge(PT!Here, p, PT!Leaf(p, TRUE, ~PT!Avail, FALSE)), "map")
          /\ addr' = addr + PT!LARGEPAGESIZE
       \/ /\ PT!Take(PT!MapSmall(PT!Here, p, PT!Leaf(p, FALSE, ~PT!Avail, FALSE)), "map")
          /\ addr' = addr + PT!PAGESIZE
  BY <1>2, Zenon DEF PT!MapStep, PT!Fits, PT!Entry, PT!End, End
<1>12. CASE /\ PT!Avail /\ addr % PT!HUGEPAGESIZE = 0 /\ addr + PT!HUGEPAGESIZE <= End(boot_mem_map[i])
            /\ PT!Take(PT!MapHuge(PT!Here, p, PT!Leaf(p, TRUE, ~PT!Avail, FALSE)), "map")
            /\ addr' = addr + PT!HUGEPAGESIZE
  <2>1. PICK en : en = PT!Leaf(p, TRUE, ~PT!Avail, FALSE)
    OBVIOUS
  <2>2. en.kind = "leaf" /\ en.page = p /\ en.huge /\ ~en.cache_disabled /\ (en.write_through <=> ~PT!Avail)
    BY <2>1 DEF PT!Leaf
  <2>3. PICK v :
          /\ v = PT!MapHuge(PT!Here, p, en)
          /\ table' = v.table /\ kern_entry' = v.root
          /\ pc' = IF v.end = "ok" THEN "map" ELSE v.end
    BY <1>12, <2>1 DEF PT!Take
  <2>4. v = PT!MapHuge(w, p, en)
    BY <1>8, <2>3
  <2>5. v.end \in {"ok", "null", "fault"} /\ (v.end = "ok" => Mapped(w, v, S, HugeOf(p), 1, en))
    BY <1>4, <1>8, <2>2, <2>4, MapHugeSeen
  <2>6. v.end = "ok" => Mapped(w, v, S \cup {p}, HugeOf(p), 1, en)
    <3>1. S \subseteq S \cup {p}
      OBVIOUS
    <3> QED BY <2>5, <3>1, FullMono DEF Mapped
  <2>7. PICK d, B : d = PT!HUGEPAGESIZE /\ B = HugeOf(p)
    OBVIOUS
  <2>8. d \in Nat /\ d > 0 /\ d % 16 = 0
    <3>1. PICK n \in Nat : n = Fan * Fan /\ n >= 1
      BY FanFacts
    <3>2. Fan * (Fan * 16) = (Fan * Fan) * 16
      BY FanFacts
    <3>3. d = n * 16
      BY <2>7, <3>1, <3>2 DEF PT!HUGEPAGESIZE, PT!LARGEPAGESIZE, PT!PAGESIZE
    <3> QED BY <3>1, <3>3
  <2>9. \A q \in Page :
          /\ q \in B <=> addr <= First(q) /\ First(q) < addr + d
          /\ q \in B => Base(1, q) = p
    BY <1>3, <1>4, <1>12, <2>7, Blocks DEF HugeOf
  <2>10. \A q \in Page : q \in B => First(q) < End(boot_mem_map[i])
    BY <1>3, <1>12, <2>7, <2>8, <2>9, PageFacts
  <2>11. addr' = addr + d /\ (v.end = "ok" => Mapped(w, v, DonePages(boot_mem_map, i, addr) \cup {p}, B, 1, en))
    BY <1>6, <1>12, <2>6, <2>7
  <2>12. /\ \A q \in Page : q \in B <=> addr <= First(q) /\ First(q) < addr + d
         /\ \A q \in Page : q \in B => Base(1, q) = p
         /\ 1 \in 1 .. 3 /\ (1 # 3 => PT!Avail) /\ (en.huge <=> 1 # 3)
    BY <1>12, <2>2, <2>9
  <2>13. Stride(boot_mem_map, i, addr, d, p, B, 1, en, w, v)
    BY <1>4, <1>5, <1>15, <2>2, <2>5, <2>8, <2>10, <2>11, <2>12 DEF Stride
  <2> QED BY <1>1, <1>8, <2>3, <2>11, <2>13, StepDone
<1>13. CASE /\ PT!Avail /\ addr % PT!LARGEPAGESIZE = 0 /\ addr + PT!LARGEPAGESIZE <= End(boot_mem_map[i])
            /\ PT!Take(PT!MapLarge(PT!Here, p, PT!Leaf(p, TRUE, ~PT!Avail, FALSE)), "map")
            /\ addr' = addr + PT!LARGEPAGESIZE
  <2>1. PICK en : en = PT!Leaf(p, TRUE, ~PT!Avail, FALSE)
    OBVIOUS
  <2>2. en.kind = "leaf" /\ en.page = p /\ en.huge /\ ~en.cache_disabled /\ (en.write_through <=> ~PT!Avail)
    BY <2>1 DEF PT!Leaf
  <2>3. PICK v :
          /\ v = PT!MapLarge(PT!Here, p, en)
          /\ table' = v.table /\ kern_entry' = v.root
          /\ pc' = IF v.end = "ok" THEN "map" ELSE v.end
    BY <1>13, <2>1 DEF PT!Take
  <2>4. v = PT!MapLarge(w, p, en)
    BY <1>8, <2>3
  <2>5. v.end \in {"ok", "null", "fault"} /\ (v.end = "ok" => Mapped(w, v, S \cup {p}, LargeOf(p), 2, en))
    BY <1>4, <1>8, <1>10, <2>2, <2>4, MapLargeSeen
  <2>7. PICK d, B : d = PT!LARGEPAGESIZE /\ B = LargeOf(p)
    OBVIOUS
  <2>8. d \in Nat /\ d > 0 /\ d % 16 = 0
    BY <2>7, FanFacts DEF PT!LARGEPAGESIZE, PT!PAGESIZE
  <2>9. \A q \in Page :
          /\ q \in B <=> addr <= First(q) /\ First(q) < addr + d
          /\ q \in B => Base(2, q) = p
    BY <1>3, <1>4, <1>13, <2>7, Blocks DEF LargeOf
  <2>10. \A q \in Page : q \in B => First(q) < End(boot_mem_map[i])
    BY <1>3, <1>13, <2>7, <2>8, <2>9, PageFacts
  <2>11. addr' = addr + d /\ (v.end = "ok" => Mapped(w, v, DonePages(boot_mem_map, i, addr) \cup {p}, B, 2, en))
    BY <1>6, <1>13, <2>5, <2>7
  <2>12. /\ \A q \in Page : q \in B <=> addr <= First(q) /\ First(q) < addr + d
         /\ \A q \in Page : q \in B => Base(2, q) = p
         /\ 2 \in 1 .. 3 /\ (2 # 3 => PT!Avail) /\ (en.huge <=> 2 # 3)
    BY <1>13, <2>2, <2>9
  <2>13. Stride(boot_mem_map, i, addr, d, p, B, 2, en, w, v)
    BY <1>4, <1>5, <1>15, <2>2, <2>5, <2>8, <2>10, <2>11, <2>12 DEF Stride
  <2> QED BY <1>1, <1>8, <2>3, <2>11, <2>13, StepDone
<1>14. CASE /\ PT!Take(PT!MapSmall(PT!Here, p, PT!Leaf(p, FALSE, ~PT!Avail, FALSE)), "map")
            /\ addr' = addr + PT!PAGESIZE
  <2>1. PICK en : en = PT!Leaf(p, FALSE, ~PT!Avail, FALSE)
    OBVIOUS
  <2>2. en.kind = "leaf" /\ en.page = p /\ ~en.huge /\ ~en.cache_disabled /\ (en.write_through <=> ~PT!Avail)
    BY <2>1 DEF PT!Leaf
  <2>3. PICK v :
          /\ v = PT!MapSmall(PT!Here, p, en)
          /\ table' = v.table /\ kern_entry' = v.root
          /\ pc' = IF v.end = "ok" THEN "map" ELSE v.end
    BY <1>14, <2>1 DEF PT!Take
  <2>4. v = PT!MapSmall(w, p, en)
    BY <1>8, <2>3
  <2>5. v.end \in {"ok", "null", "fault"} /\ (v.end = "ok" => Mapped(w, v, S \cup {p}, {p}, 3, en))
    BY <1>4, <1>8, <1>10, <2>2, <2>4, MapSmallSeen
  <2>7. PICK d, B : d = 16 /\ B = {p}
    OBVIOUS
  <2>8. d \in Nat /\ d > 0 /\ d % 16 = 0
    BY <2>7
  <2>10. \A q \in Page : q \in B => First(q) < End(boot_mem_map[i])
    BY <1>1, <1>5, <2>7
  <2>11. addr' = addr + d /\ (v.end = "ok" => Mapped(w, v, DonePages(boot_mem_map, i, addr) \cup {p}, B, 3, en))
    BY <1>6, <1>14, <2>5, <2>7 DEF PT!PAGESIZE
  <2>12. /\ \A q \in Page : q \in B <=> addr <= First(q) /\ First(q) < addr + d
         /\ \A q \in Page : q \in B => Base(3, q) = p
         /\ 3 \in 1 .. 3 /\ (3 # 3 => PT!Avail) /\ (en.huge <=> 3 # 3)
    BY <1>5, <2>2, <2>7 DEF Base
  <2>13. Stride(boot_mem_map, i, addr, d, p, B, 3, en, w, v)
    BY <1>4, <1>5, <1>15, <2>2, <2>5, <2>8, <2>10, <2>11, <2>12 DEF Stride
  <2> QED BY <1>1, <1>8, <2>3, <2>11, <2>13, StepDone
<1> QED BY <1>11, <1>12, <1>13, <1>14

LEMMA StepMap == IInv /\ MapInv /\ [BootNext]_vars => MapInv'
<1> SUFFICES ASSUME IInv, MapInv, [BootNext]_vars PROVE MapInv'
  OBVIOUS
<1>1. CASE Next /\ UNCHANGED tables
  BY <1>1, MemMap
<1>2. CASE PT!Next /\ UNCHANGED <<info, max_kern_mem, nr_page_structs, paddr>>
  BY <1>2, InitBootPageTableMap, CheckMemoryMap, NextEntryMap, MapStepMap, MapDoneMap, InstallMap,
     MapPageMap DEF PT!Next
<1>3. CASE UNCHANGED vars
  <2>1. UNCHANGED <<boot_mem_map, pc, i, table, kern_entry, addr, mapped>>
    BY <1>3 DEF vars, tables
  <2>2. At' = At
    BY <2>1 DEF At
  <2> QED BY <2>1, <2>2 DEF MapInv
<1> QED BY <1>1, <1>2, <1>3 DEF BootNext

\* At every step of the loops the tables translate what they have passed, as it should
\* be, and nothing else.
THEOREM MappingInvariant == BootSpec /\ WholePages(info) => []MapInv
BY InitMap, StepMap, BootInvariant, PTL DEF BootSpec

\* What is seen is what the CPU's walk finds.
LEMMA WalkSeen ==
  ASSUME NEW f, NEW tab, NEW root, NEW room, Sound(f, tab, root, room), NEW S, Full(root, tab, S),
         NEW q \in Page
  PROVE  /\ Seen(root, tab, q) = << >> => PT!Walk(root, tab, q).kind = "none"
         /\ \A l, e : Seen(root, tab, q) = <<l, e>> =>
              PT!Walk(root, tab, q) = e /\ (l = 1 <=> D1(root, tab, q).kind = "leaf")
<1>1. \A l, e : <<l, e>> # << >>
  OBVIOUS
<1>2. \A k, l, d, e : <<k, d>> = <<l, e>> => k = l /\ d = e
  OBVIOUS
<1>3. CASE root.kind # "table"
  <2>1. root.kind = "none"
    BY <1>3 DEF Sound
  <2>2. PT!Walk(root, tab, q) = PT!None /\ Seen(root, tab, q) = << >>
    BY <1>3, <2>1 DEF PT!Walk, Seen
  <2> QED BY <1>1, <2>2 DEF PT!None
<1>4. CASE root.kind = "table"
  <2>1. PICK d, g, t : d = D1(root, tab, q) /\ g = D2(root, tab, q) /\ t = D3(root, tab, q)
    OBVIOUS
  <2>2. d.kind \in {"none", "table", "leaf"}
    BY <1>4, <2>1, Indexes DEF Sound, D1
  <2>3. d.kind = "table" => g.kind \in {"none", "table", "leaf"}
    <3>1. d.kind = "table" => d.page \in Page /\ tab[d.page] # << >>
      BY <1>4, <2>1, Paths
    <3> QED BY <2>1, <3>1, Indexes DEF Sound, D2
  <2>4. d.kind = "table" /\ g.kind = "table" => t.kind \in {"none", "leaf"}
    <3>1. d.kind = "table" /\ g.kind = "table" => g.page \in Page /\ tab[g.page] # << >>
      BY <1>4, <2>1, Paths
    <3>2. d.kind = "table" /\ g.kind = "table" => t.kind \in {"none", "table", "leaf"}
      BY <2>1, <3>1, Indexes DEF Sound, D3
    <3>3. d.kind = "table" /\ g.kind = "table" => t.kind # "table"
      BY <1>4, <2>1 DEF Full
    <3> QED BY <3>2, <3>3
  <2>5. PT!Walk(root, tab, q) = IF d.kind # "table" THEN d ELSE IF g.kind # "table" THEN g ELSE t
    BY <1>4, <2>1 DEF PT!Walk, D1, D2, D3
  <2>6. Seen(root, tab, q) =
          IF d.kind # "table" THEN Shown(1, d) ELSE IF g.kind # "table" THEN Shown(2, g) ELSE Shown(3, t)
    BY <1>4, <2>1 DEF Seen
  <2>7. CASE d.kind # "table"
    BY <1>1, <1>2, <2>1, <2>2, <2>5, <2>6, <2>7 DEF Shown
  <2>8. CASE d.kind = "table" /\ g.kind # "table"
    BY <1>1, <1>2, <2>1, <2>3, <2>5, <2>6, <2>8 DEF Shown
  <2>9. CASE d.kind = "table" /\ g.kind = "table"
    BY <1>1, <1>2, <2>1, <2>4, <2>5, <2>6, <2>9 DEF Shown
  <2> QED BY <2>7, <2>8, <2>9
<1> QED BY <1>3, <1>4

\* The loops have been over every entry.
LEMMA AllDone ==
  ASSUME IInv, MapInv, pc = "installed", NEW q \in Page
  PROVE  q \in DonePages(boot_mem_map, i, 0) <=> \E k \in DOMAIN boot_mem_map : Of(boot_mem_map, q, k)
<1>1. MapOK(boot_mem_map)
  BY ParsedMap DEF IInv
<1>2. \A k \in DOMAIN boot_mem_map : k < i
  <2>1. i > Len(boot_mem_map) /\ i \in Nat
    BY DEF MapInv, IInv, TypeOK
  <2>2. \A k \in DOMAIN boot_mem_map : k \in Nat /\ k <= Len(boot_mem_map) /\ Len(boot_mem_map) \in Nat
    BY <1>1 DEF MapOK
  <2> QED BY <2>1, <2>2
<1> QED BY <1>2 DEF DonePages

\* The translation of a page when the tables are installed.
LEMMA Translated ==
  ASSUME IInv, MapInv, pc = "installed", NEW q \in Page
  PROVE  IF q \in mapped \/ \E k \in DOMAIN boot_mem_map : Of(boot_mem_map, q, k)
           THEN /\ Walk(q).kind = "leaf" /\ Target(q) = q
                /\ Walk(q).cache_disabled <=> q \in mapped
                /\ Walk(q).write_through <=> ~AvailIn(boot_mem_map, q) /\ q \notin mapped
           ELSE Walk(q).kind = "none"
<1>1. PICK m, dev, root, tab, room :
        m = boot_mem_map /\ dev = mapped /\ root = kern_entry /\ tab = table /\ room = Room
  OBVIOUS
<1>2. PICK S : S = DonePages(m, i, 0) \cup dev
  OBVIOUS
<1>3. View(m, i, 0, dev, root, tab)
  <2>1. At = 0
    BY DEF At
  <2> QED BY <1>1, <2>1 DEF MapInv, Mapping
<1>4. q \in S <=> q \in dev \/ \E k \in DOMAIN m : Of(m, q, k)
  BY <1>1, <1>2, AllDone
<1>5. Full(root, tab, S) /\ IF q \in S THEN Right(m, dev, q, Seen(root, tab, q)) ELSE Seen(root, tab, q) = << >>
  BY <1>2, <1>3 DEF View
<1>6. Sound(list, tab, root, room)
  BY <1>1 DEF IInv, TableInv
<1>7. PICK e : e = Walk(q) /\ e = PT!Walk(root, tab, q)
  BY <1>1 DEF Walk
<1>8. /\ Seen(root, tab, q) = << >> => e.kind = "none"
      /\ \A l, x : Seen(root, tab, q) = <<l, x>> => e = x /\ (l = 1 <=> D1(root, tab, q).kind = "leaf")
  <2>1. PICK f : f = list
    OBVIOUS
  <2>2. Sound(f, tab, root, room)
    BY <1>6, <2>1
  <2> QED BY <1>5, <1>7, <2>2, WalkSeen
<1>9. CASE q \notin S
  BY <1>1, <1>4, <1>5, <1>7, <1>8, <1>9
<1>10. CASE q \in S
  <2>1. PICK s : s = Seen(root, tab, q)
    OBVIOUS
  <2>2. Right(m, dev, q, s)
    BY <1>5, <1>10, <2>1
  <2>3. PICK l, x : s = <<l, x>> /\ l = s[1] /\ x = s[2]
    BY <2>2 DEF Right
  <2>4. e = x /\ (l = 1 <=> D1(root, tab, q).kind = "leaf")
    BY <1>8, <2>1, <2>3
  <2>5. /\ e.kind = "leaf" /\ e.page = Base(l, q) /\ (e.huge <=> l # 3) /\ l \in 1 .. 3
        /\ e.cache_disabled <=> q \in dev
        /\ e.write_through <=> ~AvailIn(m, q) /\ q \notin dev
    BY <2>2, <2>3, <2>4 DEF Right
  <2>6. Target(q) = e.page + (q % IF l = 1 THEN Fan * Fan ELSE IF l = 2 THEN Fan ELSE 1)
    BY <1>1, <1>7, <2>4, <2>5 DEF Target, D1
  <2>7. q \in Nat
    BY PageFacts
  <2>8. PICK n \in Nat : n = (IF l = 1 THEN Fan * Fan ELSE IF l = 2 THEN Fan ELSE 1) /\ n >= 1
    BY FanFacts
  <2>9. q = n * (q \div n) + (q % n)
    BY <2>7, <2>8, Division
  <2>10. Base(l, q) = n * (q \div n)
    <3>1. l = 1 \/ l = 2 \/ l = 3
      BY <2>5
    <3>2. CASE l = 3
      <4>1. n = 1 /\ q \div 1 = q
        BY <2>7, <2>8, <3>2
      <4> QED BY <2>7, <3>2, <4>1 DEF Base
    <3> QED BY <2>8, <3>1, <3>2 DEF Base
  <2>11. Target(q) = q
    BY <2>5, <2>6, <2>8, <2>9, <2>10
  <2> QED BY <1>1, <1>4, <1>7, <1>10, <2>5, <2>11
<1> QED BY <1>9, <1>10

\* The pages of the entries as the memory map has them.
LEMMA InMapIs ==
  ASSUME IInv, pc = "installed", NEW q \in Page, NEW types
  PROVE  q \in InMap(types) <=>
           \E k \in DOMAIN boot_mem_map : Of(boot_mem_map, q, k) /\ boot_mem_map[k].type \in types
<1>1. PICK m : m = boot_mem_map /\ m = info[MemoryMap(info)].entries /\ MapOK(m)
  BY ParsedMap DEF IInv, ParseInv, TheMap
<1>2. Entries = {m[k] : k \in DOMAIN m}
  BY <1>1 DEF Entries, ToSet
<1>3. q \in Nat /\ First(q) = 16 * q
  BY PageFacts
<1>4. \A k \in DOMAIN m : m[k].addr % 16 = 0 => (q \in Covered(m[k]) <=> Of(m, q, k))
  <2> SUFFICES ASSUME NEW k \in DOMAIN m, m[k].addr % 16 = 0
               PROVE  q \in Covered(m[k]) <=> Of(m, q, k)
    OBVIOUS
  <2>1. PICK a \in Nat : a = m[k].addr
    BY <1>1, EntryFacts
  <2>2. a < (q + 1) * 16 <=> a <= 16 * q
    BY <1>3, <2>1
  <2>3. q \in Covered(m[k]) <=> q * 16 < End(m[k]) /\ m[k].addr < (q + 1) * 16
    BY DEF Covered, PAGESIZE
  <2>4. q * 16 = First(q)
    BY <1>3
  <2> QED BY <1>3, <2>1, <2>2, <2>3, <2>4 DEF Of
<1>5. \A k \in DOMAIN m : Of(m, q, k) => m[k].addr % 16 = 0
  BY DEF Of
<1>6. q \in InMap(types) <=>
        \E x \in Entries : x.type \in types /\ x.addr % 16 = 0 /\ q \in Covered(x)
  BY DEF InMap, PAGESIZE
<1>7. q \in InMap(types) <=>
        \E k \in DOMAIN m : m[k].type \in types /\ m[k].addr % 16 = 0 /\ q \in Covered(m[k])
  BY <1>2, <1>6
<1> QED BY <1>1, <1>4, <1>5, <1>7

\* The walks of InitKernelPageTable and of PageTable::MapPage never step into a huge
\* page and never meet a large one: the entries are disjoint, a larger page stays
\* within its entry, and device pages are in none that is available.
THEOREM NoLeafIsInTheWay == BootSpec /\ WholePages(info) => []NoLeafInTheWay
<1>1. MapInv => NoLeafInTheWay
  BY DEF MapInv, NoLeafInTheWay
<1> QED BY <1>1, MappingInvariant, PTL

\* PageTable::Install puts in force a table that maps the memory map's pages and the
\* device pages, each to itself and with its attributes, and MapPage keeps it so.
THEOREM MemoryIsMapped == BootSpec /\ WholePages(info) => []MapsMemory
<1>1. IInv /\ MapInv => MapsMemory
  <2> SUFFICES ASSUME IInv, MapInv, pc = "installed", NEW p \in Page
               PROVE  LET avail    == InMap({"available"})
                          reserved == InMap(NotAvailable) \ avail
                          leaf     == Walk(p)
                      IN  IF p \in avail \cup reserved \cup mapped
                            THEN /\ leaf.kind = "leaf" /\ Target(p) = p
                                 /\ leaf.cache_disabled <=> p \in mapped
                                 /\ leaf.write_through <=> p \in reserved \ mapped
                            ELSE leaf.kind = "none"
    BY DEF MapsMemory
  <2>1. PICK avail, other : avail = InMap({"available"}) /\ other = InMap(NotAvailable)
    OBVIOUS
  <2>2. PICK m : m = boot_mem_map /\ MapOK(m)
    BY ParsedMap DEF IInv
  <2>3. p \in avail <=> AvailIn(m, p)
    BY <2>1, <2>2, InMapIs DEF AvailIn
  <2>4. \A k \in DOMAIN m : m[k].type = "available" \/ m[k].type \in NotAvailable
    <3>1. \A k \in DOMAIN m : m[k] \in MapEntry
      BY <2>2 DEF MapOK
    <3> QED BY <3>1 DEF MapEntry, NotAvailable
  <2>5. p \in other <=> \E k \in DOMAIN m : Of(m, p, k) /\ m[k].type \in NotAvailable
    BY <2>1, <2>2, InMapIs
  <2>6. p \in avail \/ p \in other <=> \E k \in DOMAIN m : Of(m, p, k)
    BY <2>3, <2>4, <2>5 DEF AvailIn
  <2>7. IF p \in mapped \/ p \in avail \/ p \in other
          THEN /\ Walk(p).kind = "leaf" /\ Target(p) = p
               /\ Walk(p).cache_disabled <=> p \in mapped
               /\ Walk(p).write_through <=> p \notin avail /\ p \notin mapped
          ELSE Walk(p).kind = "none"
    BY <2>2, <2>3, <2>6, Translated
  <2> QED BY <2>1, <2>7
<1> QED BY <1>1, BootInvariant, MappingInvariant, PTL

\* Page 0 is never handed out, and the new tables have it as ordinary memory at
\* KERN_OFFSET: the IDT that boot.asm points the CPU to stays where it is.
THEOREM IdtIsKept == BootSpec /\ WholePages(info) => []IdtKept
<1>1. 0 \in Page /\ First(0) = 0
  BY FanFacts DEF Page, First, PAGESIZE
<1>2. IInv => 0 \notin ToSet(list) \cup Tables
  <2> SUFFICES ASSUME IInv, 0 \in ToSet(list) \cup Tables PROVE FALSE
    OBVIOUS
  <2>1. 0 \in Room
    BY DEF IInv, TableInv, Sound, ToSet, Tables
  <2>2. PICK k \in DOMAIN boot_mem_map : Linkable(0, k)
    BY <2>1 DEF Room
  <2>3. boot_mem_map[k].addr \in Nat /\ boot_mem_map[k].addr # 0 /\ boot_mem_map[k].addr <= 0
    <3>1. boot_mem_map[k] \in MapEntry
      BY DEF IInv, TypeOK
    <3>2. boot_mem_map[k].addr # 0 /\ boot_mem_map[k].addr <= 0
      BY <1>1, <2>2 DEF Linkable, Usable, Within
    <3> QED BY <3>1, <3>2 DEF MapEntry
  <2> QED BY <2>3
<1>3. IInv /\ MapInv /\ pc = "installed" => Walk(0).kind = "leaf" /\ Target(0) = 0 /\ ~Walk(0).cache_disabled
  <2> SUFFICES ASSUME IInv, MapInv, pc = "installed"
               PROVE  Walk(0).kind = "leaf" /\ Target(0) = 0 /\ ~Walk(0).cache_disabled
    OBVIOUS
  <2>1. PICK m : m = boot_mem_map /\ m = info[MemoryMap(info)].entries /\ MapOK(m)
    BY ParsedMap DEF IInv, ParseInv, TheMap
  <2>2. PICK k \in DOMAIN m : m[k].addr = 0 /\ m[k].len > 0
    <3>1. PICK tags \in Infos : tags = info
      BY DEF IInv, TypeOK, GoodInfos
    <3>2. \E k \in DOMAIN tags[MemoryMap(tags)].entries :
            tags[MemoryMap(tags)].entries[k].addr = 0 /\ tags[MemoryMap(tags)].entries[k].len > 0
      BY BootAssumption, Zenon
    <3> QED BY <2>1, <3>1, <3>2
  <2>3. Of(m, 0, k)
    <3>1. m[k].len \in Nat
      <4>1. m[k] \in MapEntry
        BY <2>1 DEF MapOK
      <4> QED BY <4>1 DEF MapEntry
    <3> QED BY <1>1, <2>2, <3>1 DEF Of, End
  <2>4. 0 \notin mapped
    BY BootAssumption DEF MapInv
  <2> QED BY <1>1, <2>1, <2>3, <2>4, Translated
<1>4. IInv /\ MapInv => IdtKept
  BY <1>2, <1>3 DEF IdtKept
<1> QED BY <1>4, BootInvariant, MappingInvariant, PTL

\* Where a huge or a large page is about to be stored the entry is empty: no table,
\* and with it no page of the allocator's, is lost.
NothingReplaced ==
  pc = "map" /\ addr < End(boot_mem_map[i]) /\ kern_entry.kind = "table" =>
    LET p == addr \div PAGESIZE
    IN  /\ PT!Fits(HUGEPAGESIZE) => D1(kern_entry, table, p).kind = "none"
        /\ PT!Fits(LARGEPAGESIZE) /\ D1(kern_entry, table, p).kind = "table" =>
             D2(kern_entry, table, p).kind = "none"

\* The pages from a to b of entry j are not yet seen and lead to no table.
LEMMA Fresh ==
  ASSUME NEW m, MapOK(m), NEW j \in DOMAIN m, m[j].addr % 16 = 0,
         NEW a \in Nat, a >= m[j].addr, NEW b \in Nat, b > a, b <= End(m[j]),
         NEW root, NEW tab, View(m, j, a, {}, root, tab), root.kind = "table",
         NEW p \in Page, a <= First(p), First(p) < b
  PROVE  /\ Seen(root, tab, p) = << >>
         /\ (\A q \in Page : SameHuge(p, q) => a <= First(q) /\ First(q) < b) =>
              D1(root, tab, p).kind # "table"
         /\ (\A q \in Page : SameLarge(p, q) => a <= First(q) /\ First(q) < b) =>
              (D1(root, tab, p).kind = "table" => D2(root, tab, p).kind # "table")
<1>1. \A q \in Page : First(q) \in Nat
  BY PageFacts
<1>2. End(m[j]) \in Nat
  BY EntryFacts
<1>3. PICK S : S = DonePages(m, j, a)
  OBVIOUS
<1>4. \A q \in Page : a <= First(q) /\ First(q) < b => q \notin S
  <2>1. \A q \in Page : a <= First(q) /\ First(q) < b => First(q) < End(m[j])
    BY <1>1, <1>2
  <2> QED BY <1>3, <2>1, DoneGrow
<1>5. S \subseteq Page /\ S \cup {} = S
  BY <1>3 DEF DonePages
<1>6. Full(root, tab, S) /\ (p \notin S => Seen(root, tab, p) = << >>)
  BY <1>3, <1>5 DEF View
<1>7. D1(root, tab, p).kind = "table" => \E s \in S : SameHuge(p, s)
  BY <1>6 DEF Full
<1>8. D1(root, tab, p).kind = "table" /\ D2(root, tab, p).kind = "table" => \E s \in S : SameLarge(p, s)
  BY <1>6 DEF Full
<1> QED BY <1>4, <1>5, <1>6, <1>7, <1>8

\* A huge or a large page that MapPagesToPageTable stores overwrites no entry: no
\* table, and with it no page and no mapping, is lost.
THEOREM NoTableIsLost == BootSpec /\ WholePages(info) => []NothingReplaced
<1>1. IInv /\ MapInv => NothingReplaced
  <2> SUFFICES ASSUME IInv, MapInv, pc = "map", addr < End(boot_mem_map[i]), kern_entry.kind = "table",
                      NEW p, p = addr \div 16
               PROVE  /\ PT!Fits(HUGEPAGESIZE) => D1(kern_entry, table, p).kind = "none"
                      /\ PT!Fits(LARGEPAGESIZE) /\ D1(kern_entry, table, p).kind = "table" =>
                           D2(kern_entry, table, p).kind = "none"
    BY DEF NothingReplaced, PAGESIZE
  <2>1. PICK m, j, a, root, tab : m = boot_mem_map /\ j = i /\ a = addr /\ root = kern_entry /\ tab = table
    OBVIOUS
  <2>2. /\ MapOK(m) /\ j \in DOMAIN m /\ a \in Nat /\ a % 16 = 0 /\ m[j].addr % 16 = 0 /\ a >= m[j].addr
        /\ View(m, j, a, {}, root, tab) /\ a < End(m[j]) /\ End(m[j]) \in Nat
    <3>1. j \in DOMAIN m /\ a \in Nat
      BY <2>1 DEF IInv, ReachInv
    <3>2. a % 16 = 0 /\ m[j].addr % 16 = 0 /\ a >= m[j].addr
      BY <2>1 DEF MapInv
    <3>3. MapOK(m) /\ View(m, j, a, {}, root, tab)
      BY <2>1, Looping DEF At
    <3> QED BY <2>1, <3>1, <3>2, <3>3, EntryFacts
  <2>3. p \in Page
    <3>1. End(boot_mem_map[i]) <= max_phy /\ max_phy <= PT!KERN_MAX_MEMORY /\ max_phy \in Nat
      BY <2>1, <2>2 DEF IInv, SizeInv, ReachInv, TypeOK, Mapping
    <3>2. addr < PT!KERN_MAX_MEMORY
      BY <2>1, <2>2, <3>1, Reach
    <3> QED BY <2>1, <2>2, <3>2, Reach
  <2>4. First(p) = a
    BY <2>1, <2>2, <2>3, Blocks
  <2>5. ASSUME NEW d \in Nat, d >= 1, a + d <= End(m[j])
        PROVE  /\ Seen(root, tab, p) = << >>
               /\ (\A q \in Page : SameHuge(p, q) => a <= First(q) /\ First(q) < a + d) =>
                    D1(root, tab, p).kind # "table"
               /\ (\A q \in Page : SameLarge(p, q) => a <= First(q) /\ First(q) < a + d) =>
                    (D1(root, tab, p).kind = "table" => D2(root, tab, p).kind # "table")
    <3>1. PICK b \in Nat : b = a + d /\ b > a
      BY <2>2, <2>5
    <3>2. b <= End(m[j]) /\ a <= First(p) /\ First(p) < b /\ root.kind = "table"
      BY <2>1, <2>2, <2>4, <2>5, <3>1
    <3> QED BY <2>2, <2>3, <3>1, <3>2, Fresh
  <2>6. Sound(list, tab, root, Room) /\ root.kind = "table"
    BY <2>1 DEF IInv, TableInv
  <2>7. /\ D1(root, tab, p).kind \in {"none", "table", "leaf"}
        /\ D1(root, tab, p).kind = "table" => D2(root, tab, p).kind \in {"none", "table", "leaf"}
    <3>1. D1(root, tab, p).kind = "table" => D1(root, tab, p).page \in Page /\ tab[D1(root, tab, p).page] # << >>
      BY <2>3, <2>6, Paths
    <3> QED BY <2>3, <2>6, <3>1, Indexes DEF Sound, D1, D2
  <2>8. Seen(root, tab, p) = << >> =>
          /\ D1(root, tab, p).kind # "leaf"
          /\ D1(root, tab, p).kind = "table" => D2(root, tab, p).kind # "leaf"
    BY <2>6 DEF Seen, Shown
  <2>9. ASSUME PT!Fits(HUGEPAGESIZE) PROVE D1(root, tab, p).kind = "none"
    <3>1. PICK d \in Nat : d = PT!HUGEPAGESIZE /\ d >= 1
      <4>1. Fan * 16 \in Nat /\ Fan * 16 >= 1
        BY FanFacts
      <4>2. \A x, y \in Nat : x >= 1 /\ y >= 1 => x * y \in Nat /\ x * y >= 1
        OBVIOUS
      <4> QED BY <4>1, <4>2, FanFacts DEF PT!HUGEPAGESIZE, PT!LARGEPAGESIZE, PT!PAGESIZE
    <3>2. a % d = 0 /\ a + d <= End(m[j])
      BY <2>1, <2>9, <3>1 DEF PT!Fits, PT!Entry, PT!End, End, HUGEPAGESIZE, LARGEPAGESIZE, PAGESIZE,
         PT!HUGEPAGESIZE, PT!LARGEPAGESIZE, PT!PAGESIZE
    <3>3. \A q \in Page : SameHuge(p, q) => a <= First(q) /\ First(q) < a + d
      BY <2>1, <2>2, <2>3, <3>1, <3>2, Blocks
    <3> QED BY <2>5, <2>7, <2>8, <3>1, <3>2, <3>3
  <2>10. ASSUME PT!Fits(LARGEPAGESIZE), D1(root, tab, p).kind = "table" PROVE D2(root, tab, p).kind = "none"
    <3>1. PICK d \in Nat : d = PT!LARGEPAGESIZE /\ d >= 1
      BY FanFacts DEF PT!LARGEPAGESIZE, PT!PAGESIZE
    <3>2. a % d = 0 /\ a + d <= End(m[j])
      BY <2>1, <2>10, <3>1 DEF PT!Fits, PT!Entry, PT!End, End, LARGEPAGESIZE, PAGESIZE,
         PT!LARGEPAGESIZE, PT!PAGESIZE
    <3>3. \A q \in Page : SameLarge(p, q) => a <= First(q) /\ First(q) < a + d
      BY <2>1, <2>2, <2>3, <3>1, <3>2, Blocks
    <3> QED BY <2>5, <2>7, <2>8, <2>10, <3>1, <3>2, <3>3
  <2> QED BY <2>1, <2>9, <2>10
<1> QED BY <1>1, BootInvariant, MappingInvariant, PTL
=============================================================================
