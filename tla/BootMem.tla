------------------------------ MODULE BootMem -------------------------------
(***************************************************************************)
(* From the boot loader's information to the list of free pages:           *)
(* ParseMultibootInfo (kern/main.cc), MemPages::Init and CollectAvailable  *)
(* (kern/mm/allocator.{h,cc}).  What CollectAvailable links becomes the    *)
(* constant BootPages of MemPages.                                         *)
(*                                                                         *)
(* The kernel reports the memory it finds; of the totals only those that   *)
(* are used are kept.  Before this, KernelMain calls InitBootPageTable,    *)
(* and after it InitKernelPageTable: see PageTable, and Boot for both.     *)
(***************************************************************************)
EXTENDS BootInfo, FiniteSetsExt

PGNUM(a) == a \div PAGESIZE
PG(a) == PGNUM(a) * PAGESIZE
PGALIGN(a) == PG(a - 1) + PAGESIZE

VARIABLES info,       \* the tags
          boot,       \* the large pages mapped at KERN_OFFSET until Install
          boot_mem_map,
          max_kern_mem, max_phy, nr_page_structs,
          pc, i,      \* the loop over the tags, then over the entries
          paddr,      \* the loop over an entry, -1 outside it
          list        \* the pages linked from page_head, in order

sizes == <<max_kern_mem, max_phy, nr_page_structs>>

Init ==
  /\ info \in Infos
  /\ boot_mem_map = << >>
  /\ max_kern_mem = 0 /\ max_phy = 0 /\ nr_page_structs = 0
  /\ pc = "kernel_main" /\ i = 1 /\ paddr = -1
  /\ list = << >>
  /\ boot = 0 .. (BootLarge - 1)

-----------------------------------------------------------------------------
(* ParseMultibootInfo: the last memory map counts.                         *)

ParseTag ==
  /\ pc = "tags" /\ i <= Len(info)
  /\ boot_mem_map' = IF info[i].type = "mmap" THEN info[i].entries ELSE boot_mem_map
  /\ i' = i + 1
  /\ UNCHANGED <<info, boot, sizes, pc, paddr, list>>

TagsDone ==
  /\ pc = "tags" /\ i > Len(info)
  /\ pc' = "init" /\ i' = 1
  /\ UNCHANGED <<info, boot, boot_mem_map, sizes, paddr, list>>

-----------------------------------------------------------------------------
(* MemPages::Init.                                                         *)

HighestEnd(x) ==
  IF x.type = "available" /\ x.addr # 0 /\ max_kern_mem < End(x) THEN End(x) ELSE max_kern_mem

InitEntry ==
  /\ pc = "init" /\ i <= Len(boot_mem_map)
  /\ LET x == boot_mem_map[i]
     IN  /\ max_kern_mem' = HighestEnd(x)
         /\ max_phy' = Max({max_phy, End(x)})
         /\ nr_page_structs' = PGNUM(HighestEnd(x))
  /\ i' = i + 1
  /\ UNCHANGED <<info, boot, boot_mem_map, pc, paddr, list>>

-----------------------------------------------------------------------------
(* MemPages::CollectAvailable.                                             *)

kstart_pg == PG(load_start)
kend_pg == PGALIGN(bss_end) + kBootLoaderSkipPages * PAGESIZE
struct_tot_sz == StructSize * nr_page_structs

\* The page structs are taken to end with the page they begin in.
InKernelImage(a) == a >= kstart_pg /\ a < kend_pg + PAGESIZE

\* All that lies below the end of the page structs is taken for the kernel's.
BelowKernelEnd(a) == a < kend_pg + struct_tot_sz

InKernel(a) == a >= kstart_pg /\ a < kend_pg + struct_tot_sz

\* memset(page_structs) goes through the mapping there is.
StructsMapped ==
  \A p \in PGNUM(kend_pg) .. PGNUM(kend_pg + struct_tot_sz - 1) : p \div Fan \in boot

ClearStructs ==
  /\ pc = "init" /\ i > Len(boot_mem_map)
  /\ pc' = IF StructsMapped THEN "collect" ELSE "fault"
  /\ i' = 1
  /\ UNCHANGED <<info, boot, boot_mem_map, sizes, paddr, list>>

\* Low memory is not told apart.
UsableLow(x) == x.type = "available"

Usable(x) == x.type = "available" /\ x.addr # 0

\* An entry that is not available, or low memory, is skipped.
SkipEntry ==
  /\ pc = "collect" /\ i <= Len(boot_mem_map) /\ paddr = -1
  /\ ~Usable(boot_mem_map[i])
  /\ i' = i + 1
  /\ UNCHANGED <<info, boot, boot_mem_map, sizes, pc, paddr, list>>

EnterEntry ==
  /\ pc = "collect" /\ i <= Len(boot_mem_map) /\ paddr = -1
  /\ Usable(boot_mem_map[i])
  /\ paddr' = boot_mem_map[i].addr
  /\ UNCHANGED <<info, boot, boot_mem_map, sizes, pc, i, list>>

More == paddr < End(boot_mem_map[i])

\* kassert(PGNUM(paddr) < nr_page_structs) panics.
NoStruct ==
  /\ pc = "collect" /\ paddr # -1 /\ More
  /\ PGNUM(paddr) >= nr_page_structs
  /\ pc' = "panic"
  /\ UNCHANGED <<info, boot, boot_mem_map, sizes, i, paddr, list>>

Collect ==
  /\ pc = "collect" /\ paddr # -1 /\ More
  /\ PGNUM(paddr) < nr_page_structs
  /\ list' = IF InKernel(paddr) THEN list ELSE Append(list, PGNUM(paddr))
  /\ paddr' = paddr + PAGESIZE
  /\ UNCHANGED <<info, boot, boot_mem_map, sizes, pc, i>>

LeaveEntry ==
  /\ pc = "collect" /\ paddr # -1 /\ ~More
  /\ paddr' = -1 /\ i' = i + 1
  /\ UNCHANGED <<info, boot, boot_mem_map, sizes, pc, list>>

CollectDone ==
  /\ pc = "collect" /\ i > Len(boot_mem_map)
  /\ pc' = "done"
  /\ UNCHANGED <<info, boot, boot_mem_map, sizes, i, paddr, list>>

CollectAvailable ==
  ClearStructs \/ SkipEntry \/ EnterEntry \/ NoStruct \/ Collect \/ LeaveEntry \/ CollectDone

Next ==
  \/ ParseTag \/ TagsDone
  \/ InitEntry
  \/ CollectAvailable
=============================================================================
