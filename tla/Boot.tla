-------------------------------- MODULE Boot --------------------------------
(***************************************************************************)
(* KernelMain from the boot loader's information to the installed page     *)
(* tables: BootMem and PageTable on one state.  The list that              *)
(* CollectAvailable links is the one the tables are taken from, and the    *)
(* new tables have to map what the allocator will hand out.                *)
(***************************************************************************)
EXTENDS BootMem

VARIABLES table, kern_entry, addr, mapped

PT == INSTANCE PageTable WITH mm <- boot_mem_map, free <- list

tables == <<table, kern_entry, addr, mapped>>
vars == <<info, boot, boot_mem_map, sizes, pc, i, paddr, list, tables>>

BootInit == Init /\ PT!Init

BootNext ==
  \/ Next /\ UNCHANGED tables
  \/ PT!Next /\ UNCHANGED <<info, max_kern_mem, nr_page_structs, paddr>>

\* The boot CPU runs.
BootSpec == BootInit /\ [][BootNext]_vars /\ WF_vars(BootNext)

-----------------------------------------------------------------------------
(* The memory, as the memory map gives it.                                 *)

Entries == ToSet(info[MemoryMap(info)].entries)
Available == {x \in Entries : x.type = "available" /\ x.addr # 0}
First(p) == p * PAGESIZE
Within(p, x) == x.addr <= First(p) /\ First(p + 1) <= End(x)
Overlaps(p, from, to) == from < First(p + 1) /\ First(p) < to

\* Where the page structs end that the highest memory calls for.
StructsEnd == kend_pg + StructSize * PGNUM(Max({End(x) : x \in Available}))

\* The pages that are left to allocate.
FreePages ==
  {p \in Page : (\E x \in Available : Within(p, x)) /\ ~Overlaps(p, kstart_pg, StructsEnd)}

\* The pages of the entries that InitKernelPageTable does not skip.
InMap(types) ==
  UNION {Covered(x) : x \in {y \in Entries : y.type \in types /\ y.addr % PAGESIZE = 0}}
NotAvailable == {"reserved", "acpi", "bad"}
InMemory == InMap({"available"} \cup NotAvailable)

\* The block of n pages around p is available as a whole, and mapped as one.
AsOne(p, n) ==
  \E x \in Entries : x.type = "available" /\ \A q \in Page : q \div n = p \div n => Within(q, x)

\* The tables that a mapping of the memory needs.
Needed ==
  LET cut    == {p \in InMemory : ~AsOne(p, Fan * Fan)}
      single == {p \in cut : ~AsOne(p, Fan)}
  IN  1 + Cardinality({p \div (Fan * Fan) : p \in cut}) + Cardinality({p \div Fan : p \in single})

Ascending ==
  LET m == info[MemoryMap(info)].entries
  IN  \A j, k \in DOMAIN m : j < k /\ {m[j], m[k]} \subseteq Available => m[j].addr < m[k].addr

-----------------------------------------------------------------------------
(* Properties.                                                             *)

Tables == {p \in Page : table[p] # << >>}

\* "kernel image, bss, bootloader data or page of pages ... won't be allocated":
\* no page on the list, and no table, holds any of them, and every one is
\* available memory.
KernelKept ==
  LET mem == Available
      top == kend_pg + struct_tot_sz
  IN  \A p \in ToSet(list) \cup Tables :
        ~Overlaps(p, load_start, top) /\ \E x \in mem : Within(p, x)

\* The comment at allocator.cc:85: an address "in kernel image, bss, bootloader data
\* or page of pages" is ignored, "and therefore they won't be allocated".  The test
\* is on the address, the page is linked: with memory that begins inside a page,
\* the page the page structs end in is linked.
KernelNotListed ==
  \A p \in ToSet(list) : ~Overlaps(p, load_start, kend_pg + struct_tot_sz)

\* When CollectAvailable is done, every other available page is on the list, and
\* only once, in whatever order the boot loader lists the memory.
NoPageLost == pc = "done" => IsInjective(list) /\ FreePages \subseteq ToSet(list)

\* The CPU's translation of page p by the new tables.
Walk(p) == PT!Walk(kern_entry, table, p)

\* The page that p is translated to, given the size of the leaf's page.
Target(p) ==
  LET d == table[kern_entry.page][PT!PdptIdx(p)]
      size == IF d.kind = "leaf" THEN Fan * Fan ELSE IF Walk(p).huge THEN Fan ELSE 1
  IN  Walk(p).page + (p % size)

\* The installed table maps exactly the pages of the memory map and the device
\* pages, each to itself, device pages uncached, reserved ones write-through.
MapsMemory ==
  pc = "installed" =>
    LET avail    == InMap({"available"})
        reserved == InMap(NotAvailable) \ avail
    IN  \A p \in Page :
          LET leaf == Walk(p)
          IN  IF p \in avail \cup reserved \cup mapped
                THEN /\ leaf.kind = "leaf" /\ Target(p) = p
                     /\ leaf.cache_disabled <=> p \in mapped
                     /\ leaf.write_through <=> p \in reserved \ mapped
                ELSE leaf.kind = "none"

Links == {l \in Tables \X Idx : table[l[1]][l[2]].kind = "table"}

\* A table is reached through one entry only and is not on the free list.
TablesApart ==
  /\ \A l, k \in Links : table[l[1]][l[2]].page = table[k[1]][k[2]].page => l = k
  /\ ToSet(list) \cap Tables = {}

\* No walk meets a leaf of a larger page: huge pages are never entered as if
\* they were directories, and MapPage does not panic.
NoLeafInTheWay == pc \notin {"scribble", "refused"}

\* The IDT that boot.asm points the CPU to is at KERN_OFFSET, in page 0, which
\* belongs to nobody: the page is never free or a table, and the new mapping has
\* it as ordinary memory.
IdtKept ==
  /\ 0 \notin ToSet(list) \cup Tables
  /\ pc = "installed" => Walk(0).kind = "leaf" /\ Target(0) = 0 /\ ~Walk(0).cache_disabled

\* Memory of whole pages that the boot loader lists in ascending order, with room
\* for the page structs and the tables in the first huge page.
Bootable ==
  /\ \A x \in Available : End(x) % PAGESIZE = 0
  /\ \A x \in Entries : End(x) <= PT!KERN_MAX_MEMORY
  /\ Ascending
  /\ StructsEnd <= HUGEPAGESIZE
  /\ Cardinality({p \in FreePages : p < Fan * Fan}) > Needed

\* Such memory is enough: no assertion, no NULL from AllocPage and no write outside
\* the boot mapping keeps the kernel from installing its tables.
Boots == (IF pc = "tags" THEN Bootable ELSE FALSE) ~> pc = "installed"
=============================================================================
