----------------------------- MODULE PageTable -----------------------------
(***************************************************************************)
(* kern/page-table.{h,cc}: InitBootPageTable completes the boot mapping;   *)
(* InitKernelPageTable builds the mapping of physical memory at            *)
(* KERN_OFFSET and installs it; PageTable::MapPage adds device pages to it *)
(* afterwards.                                                             *)
(*                                                                         *)
(* A table has Fan entries instead of 512, so a large page is Fan pages    *)
(* and a huge one Fan * Fan.  Tables live in pages of MemPages, taken as   *)
(* AllocPage takes them and cleared through the mapping in force.  The     *)
(* code walks into a PdptEntry without asking is_huge (operator[] asks it  *)
(* of a PdEntry only); such a walk scribbles over the memory of the page.  *)
(***************************************************************************)
EXTENDS BootInfo

VARIABLES mm,          \* the memory map
          max_phy,     \* MemPages::max_physical_addr()
          free,        \* the pages on MemPages' list, in list order
          boot,        \* the large pages mapped at KERN_OFFSET until Install
          table,       \* what a page holds when it is read as a table
          kern_entry,  \* the Pml4Entry being built, then the one installed
          pc, i, addr, \* the loops over the entries and over an entry
          mapped       \* the device pages that MapPage has mapped

tables == <<table, kern_entry, addr, mapped>>

KERN_MAX_MEMORY == Fan * HUGEPAGESIZE

None == [kind |-> "none"]
Table(p) == [kind |-> "table", page |-> p]
Leaf(p, huge, wt, cd) ==
  [kind |-> "leaf", page |-> p, huge |-> huge, write_through |-> wt, cache_disabled |-> cd]
Empty == [x \in Idx |-> None]

\* The indexes that operator[] takes from an address.
PdptIdx(p) == p \div (Fan * Fan)
PdIdx(p) == (p \div Fan) % Fan
PtIdx(p) == p % Fan

Init ==
  /\ table = [p \in Page |-> << >>]
  /\ kern_entry = None
  /\ addr = -1
  /\ mapped = {}

\* The walk of the CPU through the new tables: the leaf that translates page p.
Walk(root, t, p) ==
  IF root.kind = "none" THEN None
  ELSE LET d == t[root.page][PdptIdx(p)]
       IN  IF d.kind # "table" THEN d
           ELSE LET g == t[d.page][PdIdx(p)]
                IN  IF g.kind # "table" THEN g ELSE t[g.page][PtIdx(p)]

\* Page p can be written to.
Writable(p) ==
  IF pc = "installed" THEN Walk(kern_entry, table, p).kind = "leaf" ELSE p \div Fan \in boot

-----------------------------------------------------------------------------
(* A walk is a record of what it works on: the allocator's list, the       *)
(* tables, the root entry, and how it ended: "ok", "null" when AllocPage's *)
(* NULL is dereferenced, "fault" when the page it returned is not mapped   *)
(* (what follows is not looked at), "refused" by the panic about a large   *)
(* page in the way, "scribble" for a huge one.                             *)

Here == [free |-> free, table |-> table, root |-> kern_entry, end |-> "ok"]

\* The page is not taken off the list.
AllocatedShared(w) ==
  IF Len(w.free) <= 1 THEN [w EXCEPT !.end = "null"]
  ELSE IF ~Writable(Head(w.free)) THEN [w EXCEPT !.end = "fault"]
  ELSE [w EXCEPT !.table[Head(w.free)] = Empty]

\* CommonBaseEntry::Allocate takes AllocPage's page and clears it.
Allocated(w) ==
  IF Len(w.free) <= 1 THEN [w EXCEPT !.end = "null"]
  ELSE IF ~Writable(Head(w.free)) THEN [w EXCEPT !.end = "fault"]
  ELSE [w EXCEPT !.free = Tail(w.free), !.table[Head(w.free)] = Empty]

\* AllocateOrPresent of the root.
PresentRoot(w) ==
  IF w.root.kind # "none" THEN w
  ELSE LET v == Allocated(w)
       IN  IF v.end # "ok" THEN v ELSE [v EXCEPT !.root = Table(Head(w.free))]

\* A second table for an entry that has one.
PresentAlways(w, p, x) ==
  IF w.end # "ok" THEN w
  ELSE LET v == Allocated(w)
       IN  IF v.end # "ok" THEN v ELSE [v EXCEPT !.table[p][x] = Table(Head(w.free))]

\* AllocateOrPresent of entry x of the table in page p.
Present(w, p, x) ==
  IF w.end # "ok" \/ w.table[p][x].kind # "none" THEN w
  ELSE LET v == Allocated(w)
       IN  IF v.end # "ok" THEN v ELSE [v EXCEPT !.table[p][x] = Table(Head(w.free))]

\* The table behind entry x of page p is entered, unless a leaf is in the way.
Enter(w, p, x, in_the_way) ==
  IF w.end = "ok" /\ w.table[p][x].kind = "leaf" THEN [w EXCEPT !.end = in_the_way] ELSE w

Store(w, p, x, entry) == IF w.end # "ok" THEN w ELSE [w EXCEPT !.table[p][x] = entry]

\* kern_entry.AllocateOrPresent()[vaddr] = entry
MapHuge(w, p, entry) ==
  LET v == PresentRoot(w)
  IN  IF v.end # "ok" THEN v ELSE Store(v, v.root.page, PdptIdx(p), entry)

\* As far as the page directory: the walk, which then knows that table's page.
WalkToPd(w, p) ==
  LET v == PresentRoot(w)
  IN  IF v.end # "ok" THEN v
      ELSE Enter(Present(v, v.root.page, PdptIdx(p)), v.root.page, PdptIdx(p), "scribble")
PdOf(w, p) == w.table[w.root.page][PdptIdx(p)].page

MapLarge(w, p, entry) ==
  LET v == WalkToPd(w, p)
  IN  IF v.end # "ok" THEN v ELSE Store(v, PdOf(v, p), PdIdx(p), entry)

MapSmall(w, p, entry) ==
  LET v == WalkToPd(w, p)
      u == IF v.end # "ok" THEN v
           ELSE Enter(Present(v, PdOf(v, p), PdIdx(p)), PdOf(v, p), PdIdx(p), "refused")
  IN  IF u.end # "ok" THEN u
      ELSE Store(u, u.table[PdOf(u, p)][PdIdx(p)].page, PtIdx(p), entry)

\* What a walk leaves behind; one that does not end well ends the run.
Take(walk, next) ==
  \E w \in {walk} :
    /\ free' = w.free
    /\ table' = w.table
    /\ kern_entry' = w.root
    /\ pc' = IF w.end = "ok" THEN next ELSE w.end

-----------------------------------------------------------------------------
(* InitBootPageTable: one large page of the loop.                          *)

InitBootPageTable ==
  /\ pc = "kernel_main"
  /\ boot' = boot \cup {i - 1}
  /\ IF i = Fan THEN pc' = "tags" /\ i' = 1 ELSE i' = i + 1 /\ UNCHANGED pc
  /\ UNCHANGED <<mm, max_phy, free, tables>>

(* InitKernelPageTable, when MemPages is initialised.                      *)

CheckMemory ==
  /\ pc = "done"
  /\ pc' = IF max_phy > KERN_MAX_MEMORY THEN "panic" ELSE "entries"
  /\ i' = 1
  /\ UNCHANGED <<mm, max_phy, free, boot, tables>>

Entry == mm[i]
Avail == Entry.type = "available"

NextEntry ==
  /\ pc = "entries" /\ i <= Len(mm)
  /\ IF Entry.addr % PAGESIZE # 0
       THEN i' = i + 1 /\ UNCHANGED <<pc, addr>>
       ELSE pc' = "map" /\ addr' = Entry.addr /\ UNCHANGED i
  /\ UNCHANGED <<mm, max_phy, free, boot, table, kern_entry, mapped>>

\* An aligned large page is used even where it sticks out of the entry.
FitsNoEnd(size) == Avail /\ addr % size = 0

\* skip && addr % size == 0 && addr + size <= start_addr + len
Fits(size) == Avail /\ addr % size = 0 /\ addr + size <= End(Entry)

\* One iteration of MapPagesToPageTable; only memory that is not available is
\* mapped write-through.
MapStep ==
  /\ pc = "map" /\ addr < End(Entry)
  /\ LET p == addr \div PAGESIZE
         wt == ~Avail
     IN  IF Fits(HUGEPAGESIZE)
           THEN Take(MapHuge(Here, p, Leaf(p, TRUE, wt, FALSE)), "map") /\ addr' = addr + HUGEPAGESIZE
         ELSE IF Fits(LARGEPAGESIZE)
           THEN Take(MapLarge(Here, p, Leaf(p, TRUE, wt, FALSE)), "map") /\ addr' = addr + LARGEPAGESIZE
         ELSE Take(MapSmall(Here, p, Leaf(p, FALSE, wt, FALSE)), "map") /\ addr' = addr + PAGESIZE
  /\ UNCHANGED <<mm, max_phy, boot, i, mapped>>

MapDone ==
  /\ pc = "map" /\ addr >= End(Entry)
  /\ pc' = "entries" /\ i' = i + 1
  /\ UNCHANGED <<mm, max_phy, free, boot, tables>>

\* The low mapping is cleared, kernel_pgt[KERN_OFFSET] = kern_entry, Install().
Install ==
  /\ pc = "entries" /\ i > Len(mm)
  /\ pc' = "installed" /\ addr' = -1
  /\ UNCHANGED <<mm, max_phy, free, boot, table, kern_entry, i, mapped>>

\* PageTable::MapPage(paddr, false, true), as Acpi, LocalApic and IoApic call it.
MapPage(p) ==
  /\ pc = "installed"
  /\ Take(MapSmall(Here, p, Leaf(p, FALSE, FALSE, TRUE)), "installed")
  /\ mapped' = mapped \cup {p}
  /\ UNCHANGED <<mm, max_phy, boot, i, addr>>

Next ==
  \/ InitBootPageTable \/ CheckMemory
  \/ NextEntry \/ MapStep \/ MapDone \/ Install
  \/ \E p \in Devices : MapPage(p)
=============================================================================
