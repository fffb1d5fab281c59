------------------------------ MODULE BootInfo ------------------------------
(***************************************************************************)
(* What the kernel finds when it is started: the tags of the boot loader   *)
(* with the memory map, its own image, and the machine's page tables.      *)
(* Addresses are in units of 1/16 of a page, physical, or offsets from     *)
(* KERN_OFFSET.                                                            *)
(***************************************************************************)
EXTENDS Integers, Sequences, SequencesExt, FiniteSets

CONSTANTS Infos,      \* what boot loaders pass: sequences of tags
          load_start, bss_end,
          kBootLoaderSkipPages,
          StructSize, \* sizeof(Page)
          Fan,        \* entries of a page table: 512
          BootLarge,  \* large pages that boot.asm maps: 4
          Devices     \* pages that MapPage is asked for: ACPI tables and APICs

PAGESIZE == 16
LARGEPAGESIZE == Fan * PAGESIZE
HUGEPAGESIZE == Fan * LARGEPAGESIZE
Page == 0 .. (Fan * Fan * Fan - 1)
Idx == 0 .. (Fan - 1)

Tag == [type : {"mmap", "vbe", "framebuffer", "other"},
        entries : Seq([addr : Nat, len : Nat, type : {"available", "reserved", "acpi", "bad"}])]
End(x) == x.addr + x.len
Covered(x) == {p \in Page : p * PAGESIZE < End(x) /\ x.addr < (p + 1) * PAGESIZE}

\* The last memory map that is passed counts; 0 if there is none.
MemoryMap(tags) == SelectLastInSeq(tags, LAMBDA tag : tag.type = "mmap")

\* A memory map is passed; its entries are disjoint, and some entry holds
\* page 0.  Devices are not in available memory, and not in page 0, which has the
\* real mode's vectors and the BIOS data.
ASSUME BootAssumption ==
  /\ {load_start, bss_end, kBootLoaderSkipPages, StructSize, Fan, BootLarge} \subseteq Nat \ {0}
  /\ BootLarge <= Fan
  /\ Devices \subseteq Page \ {0}
  /\ \A tags \in Infos :
       /\ tags \in Seq(Tag)
       /\ MemoryMap(tags) # 0
       /\ LET m == tags[MemoryMap(tags)].entries
          IN  /\ \E k \in DOMAIN m : m[k].addr = 0 /\ m[k].len > 0
              /\ \A j, k \in DOMAIN m : j # k => End(m[j]) <= m[k].addr \/ End(m[k]) <= m[j].addr
              /\ \A x \in ToSet(m) : x.type = "available" => Covered(x) \cap Devices = {}

\* Available memory begins at a page, and ends with one unless it is low memory or
\* the highest.  The code does not test it; boot loaders may pass other memory.
WholePages(tags) ==
  \A x, y \in ToSet(tags[MemoryMap(tags)].entries) :
    /\ x.type = "available" => x.addr % PAGESIZE = 0
    /\ x.type = "available" /\ y.type = "available" /\ x.addr # 0 /\ x.addr < y.addr
         => End(x) % PAGESIZE = 0
=============================================================================
