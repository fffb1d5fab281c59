# Chestnut-64 in TLA+

Chestnut-64 is a small x86-64 kernel in C++ that boots under KVM, takes over
physical memory, builds an object allocator on it, maps memory, finds the
interrupt controllers through ACPI and enables interrupts. It has no tests. This
project keeps TLA+ models of its core beside the code: modules translated from
the source, TLC runs on small instances, and TLAPS proofs for all instances.

Paths below are relative to `src/kern/`.

## The system

| Part | State | Operations | Interacts with |
|---|---|---|---|
| Page allocator `mm/allocator.*` | `page_structs` with `alloc_next/alloc_prev`, `is_free`, `is_in_list`; `page_head` | `CollectAvailable`, `AllocPage(s)`, `FreePage(s)` | called by the slabs, the page tables, `Alloc` |
| Slabs `mm/uslab.cc` | a bitmap or a stack of indexes per slab | `Init`, `Alloc`, `Free`, `is_full`, `is_empty` | queued by `MemCache` |
| Object heap `mm/uslab.*` | three slab queues and counters per cache; `slab_ptr`, `slab_obj_size` in struct `Page`; `MetaSlab` pages of slab headers | `Alloc`, `Free`, `Allocate`, `AdjustSlab`, `ReclaimEmptySlab` | takes pages, and recursively headers from `meta_slab_cache` |
| KVM clock `kvm-clock.*` | `time_info` (written by the host), `last_boot_time` | `BootTime`, `BootClock` | the hypervisor; `LocalApic::InitCpu` |
| Page tables `page-table.*` | four levels of tables in allocated pages; the boot mapping of 1 GB before | `InitBootPageTable`, `InitKernelPageTable`, `MapPage` | page allocator, ACPI, APICs |
| ACPI and APICs `acpi.*`, `apic.*` | lists of CPUs and IO APICs, device registers | table parsing, `IoApic::Init`, `LocalApic::InitCpu`, `BootSmp` | `KernelMain` |
| Interrupts `irqs.*` | IDT, handler chains | `Setup`, `InstallChainHandler`, `InterruptWrapper` | local APIC |
| Console `console.*`, `terminal.*` | chain of sources | `AddSource`, `vprintf`, `WriteByte` | everything prints, every interrupt included |
| Threads `thread.*`, `scheduler.*` | ready, waiting and exit queues | `AddThread`, `RoundRobin`, `ExitCurrentThread` | not compiled |
| Library `libc/` | - | `Vector`, `ListNode`, `memmove` | everything |

What is hard about it. One CPU runs with interrupts off until the end of
`KernelMain`, and no interrupt handler allocates, so the allocators are
sequential; their difficulty is in long sequences of calls on intrusive linked
structures, in boundaries (the last page, the last run, a full row, a shift at
the width of an int) and in memory running out half-way through an operation.
Concurrency is in the clock: the host rewrites `time_info` between any two
loads, and `last_boot_time` is advanced by compare-and-swap. Ordering matters at
boot: tables are built with pages of an allocator that they must map, cleared
through a mapping that covers only the first GB, pins are unmasked one by one, and gates are written while interrupts are pending. Once
interrupts are enabled they come between any two stores, an NMI comes inside
another handler, and every one of them prints. `PROJECT.json` lists the hazards with their lines.

## Modules

`PageAlloc` (abstract) and `MemPages`. `MemPages` keeps the list as the code
does, two pointer fields per struct and two flags; page structs are numbers and
`&page_head` is -1. `CollectPage`, `ScanUsed`/`ScanNoRoom`/`ScanFree`/`ScanEnd`,
`UnlinkPage` and `LinkPage` are one iteration each of the loops of
`CollectAvailable`, `AllocPages` and `FreePages`; `AllocPage` and `FreePage` are
one step. `blocks` is what clients hold; a client frees only what it holds.
`PageAlloc` says what callers may rely on: `AllocPage` takes a page unless one
or none is left, `AllocPages(n)` the lowest run of n free pages and NULL only if
there is none. The refinement maps `free` to `AbsFree`: a call takes effect when
it returns.

`SlabObjs` (abstract), `BitmapSlab`, `FreeListSlab`, on the constants of
`SlabSizes`. A pool of objects: an
object handed out is not in use, and one freed can be handed out again.
`BitmapSlab` keeps words as sets of bits and models the two places where the
result depends on the build: `1 << idx` as an int of `IntBits`, and
`__builtin_ctzl(0)`, which is `CtzZero`. `Objects` are all slots of the page, one
per bit; `LowerHalf` are those that `1 << idx` reaches. `FreeListSlab` keeps `free_stack`,
`nr_free` and `nr_total` with u8 arithmetic.

`ObjHeap` (abstract) and `SlabHeap`. `Alloc(size)` and `Free(ptr)` as a whole: the cache for a size,
the slab from the half-full or the empty queue or a new one, whose header comes
from `meta_slab_cache` (with a MetaSlab of its own page if it has none) and whose
data is another page, re-queueing, reclaiming, whole pages above 2048 bytes.
The free list is a sequence in list order (what `MemPages` is shown to keep);
the object inside a slab is any free one (what the slabs are shown to do). When
`AllocPage` returns NULL the code dereferences it: `null_deref` ends the run,
at the MetaSlab's page (`AllocateNoMeta`) or at the data page, with the header, and
perhaps a new MetaSlab, already taken and counted (`AllocateNoData`).
Pages whose slab was reclaimed stay in `leaked`, since nobody frees them.
`ObjHeap` says what callers rely on: disjoint regions of at least the size asked
for that stay where they are. The refinement computes an object's region from
the struct `Page` of its page, as `Free` does, so a page that changes hands under
an object moves it.

`KvmClock`. `BootTime` with one step per load: `v1`, the fields in the order of
`Loads` (`tsc_shift` is loaded each time it is tested or used), `v2`, the version
once more for the parity test; then the stable path or the
compare-and-swap loop. The host (external) makes the version odd, writes the
fields in any order, makes it even. A field holds the number of the update that
wrote it. The time computed from a snapshot is arbitrary.

`BootInfo`, `BootMem`, `PageTable` and their composition `Boot`: `KernelMain`
from the boot loader's tags to the installed tables. `BootInfo` has the constants
and what is assumed of a memory map: that entries are disjoint, one begins at 0, and
devices lie outside available memory (`BootAssumption`). That available entries begin
at a page (`WholePages`) is not assumed: it is the hypothesis of the theorems and holds
of the maps of the run `boot`; `unaligned_memory` has others. `BootMem` is `ParseMultibootInfo`,
`MemPages::Init` and `CollectAvailable`, one tag, entry or page per step; its
`list` is what `MemPages` takes as `BootPages`: there the links are modelled, here
the choice of the pages. `PageTable` is `InitBootPageTable`, the check of
`KERN_MAX_MEMORY`, `InitKernelPageTable`, one page of any size per step,
`Install`, and `MapPage` of device pages. `Boot` puts them on one state: tables
are taken from the head of `list`. Tables have `Fan` entries instead of 512, and
addresses a granularity of 1/16 page. The ways a boot can end badly end the run: an
assertion or the check (`panic`), a write outside the mapping in force to the
page structs or a new table (`fault`), a NULL from `AllocPage` (`null`), a large
page in the way of a walk (`refused`) or a huge one, which would be used as if
its memory were a table (`scribble`).

`ApicInit`. The RSDP scan, `ParseRSDP`, the tables, the MADT entries, the panic
without IO APICs, the assertions on `rsdt_addr` and `localApicAddr`
(`AssertionFails`), `IoApic::Init` register by register with `Write`'s u8
parameters, and `KernelMain`'s choice of `irq_vector_base`. Firmware is taken to
give IO APICs addresses and global interrupts of their own (`MachinesAssumption`).
The device's registers after reset and the meaning of an entry's bits are external.

`ApicTimer`. `LocalApic::InitCpu` on CPU 0, one step per register access, with
`U32`, the length of the calibration and the timer's divisor as constants. Time
passes between any two steps (up to `Pause`): a virtual CPU can be descheduled.
The timer of the device (external) counts down by the machine's rate. `Pause` is
any positive number, as nothing in the code bounds it. That the clock does not go back
is assumed: `InitCpu` calls `BootTime(true)`, which with the host's stable bit returns
the snapshot's time, and `KvmClock` shows monotony only for answers through
`last_boot_time`.

`Interrupts`. `KernelMain` from `Setup` on, one gate per step of
`HandlerInstaller`, then the `lidt`; the two stores of
`InstallChainHandler`; the frames of `InterruptWrapper` as a stack, each walking
its chain, then EOI, then `iretq`. The local APIC and the CPU (external) raise
and deliver device interrupts by priority class, spurious interrupts and NMIs.
NMIs come from the `lidt` on: before it the CPU has no table, and an NMI resets the
machine whatever gates are written (`apic.cc:40` and `:137` keep NMIs off meanwhile).
The 8259s are masked by `Setup` and do not appear.

`Console`. `vprintf` byte by byte: the directives of a format, the digits pushed
to `buf` and popped, `WriteByte` over the sources, and `OutB` in two steps. The
activations are a stack: `KernelMain`'s last message, a wrapper that interrupts
it, an NMI's wrapper inside. The kernel is built with a red zone, so an interrupt
between the two steps of `OutB` overwrites its parameters; `lost` says which
byte of which activation did not reach which source. A directive carries its argument; numbers keep the
bases, the character table and the cut to an unsigned int (`UInt`).

`Vector`. Two vectors in blocks of a small heap, with `memcpy` and `memmove`
element by element. What the code does wrong stays in: a `Remove` that moves
several elements marks its vector as `spoilt`, a store at NULL after a move and
`PopBack` end the run. There are more blocks than vectors, so that one is free when
a vector grows: `Vector` does not look at what `Alloc` returns, and memory running
out is `SlabHeap`'s matter. Nothing destroys a vector: the class has no destructor,
and one that went out of scope would leak its block.

`*_proofs` hold the theorems of their module (`Slabs_proofs` those of both slabs,
`Clocks_proofs` those of `KvmClock` and `ApicTimer`, `Library_proofs` those of
`Vector` and `Console`), `MC_*` the constants of the runs.

## Runs

| Run | Instance | Shows |
|---|---|---|
| `mem_pages` | 6 page structs, boot order 4 5 0 1 2 (page 3 is the kernel's), runs up to 3 | the list is doubly linked and one ring, no page lost or shared, `PageAlloc` implemented, every call returns |
| `slabs` | a `BitmapSlab` of 4 words of 6 bits, int of 3, tzcnt; or a `FreeListSlab` of 5 objects in an array of 6 | objects unique, the stack stays in its array, its queries and the bitmap's `is_empty` exact, the bitmap's `is_full` once the lower half is in use |
| `slab_heap` | 6 pages, 2 headers a MetaSlab, sizes 1024 and 1025, or 1025 and 4097, at most 6 objects held, `max_pg` 1 | pages have one role, queues and counters match, `Free` finds its slab, `ObjHeap` implemented |
| `kvm_clock` | 2 callers, 2 times, 1 update | consistent snapshots, time never back, both loops end |
| `boot` | tables of 4 entries, 64 pages, 147 memory maps in three orders, 3 device pages | the list has every free page once and nothing of the kernel's, exact mapping, tables apart, no page overwritten as a table, the IDT's page left alone; ordinary memory boots |
| `unaligned_memory` | the same with memory that begins inside a page | violation: a page in which the page structs lie is on the free list |
| `apics` | 960 machines; or `U32` 256, 4 rates, pauses up to 2 of 8 units | vectors distinct throughout, every pin routed; the bus frequency is right within the pauses' error, the calibration ends |
| `apic_timer_masked` | the same | violation: the timer's pin is not masked |
| `irq_base` | the same | violation: interrupts are enabled though the IO APICs' bases differ |
| `timer_stopped` | one rate, pauses up to 7 units, a count that can last 6 | violation: the timer has run out before it is made periodic |
| `interrupts` | vectors 32, 33 and 49, 2 handlers, 3 events | every interrupt goes through a gate, runs its chain once and in order, is not re-entered, is served |
| `library` | 2 vectors, 3 blocks, up to 3 elements, first capacity 1; or messages of up to 3 directives, 3 interrupts | contents, stores within the block, one owner per block; every message is rendered whoever interrupts it, but for bytes lost in `OutB`, and all is printed in the end |

`slabs`, `apics` and `library` have two specifications each; a behaviour is one of
either.

Why the bounds are enough. `mem_pages`: runs of 3 have an inner page, the boot
order is not the address order, and page 3 splits memory so that a run can be
too long for one side; any other size is covered by the proofs. Slabs: several
rows and the bits below, at and above the int's top bit exist. `slab_heap`: objects of two
caches, or of one cache and runs of two pages, compete for six pages, so memory runs
out and pages change roles; two headers a MetaSlab make it fill and empty, and two
MetaSlabs exist at a time, also both half full. `kvm_clock`: one update can fall between any two loads, and two callers
are what a race needs; proofs cover the rest. `boot`: huge, large and small pages
occur in one map, maps end inside a page, the page structs end inside the
kernel's memory or at its end, the highest memory comes first, third or last,
memory lies inside and outside the boot mapping, and tables run out. `apics`:
two IO APICs in either order, with and without global interrupt 0.
`interrupts`: two vectors share a class and one is above; three events make an
interrupt, an NMI inside it and one more at its EOI. The timer in `apics`: the slowest
machine is below the minimum count and the fastest near the overflow; pauses are
below the calibration's length. `timer_stopped`: one pause is longer than the count.
`library`: a vector grows from 1 to 2 to 4 while elements are inserted in front; digits
are half written when an interrupt comes, and two NMIs can come inside one irq's
wrapper.

Deadlock is not checked where the program really stops: at a panic or a NULL
dereference (`slab_heap`, `boot`, `apics`, `library`), when the modelled code has ended
(`apics`), and where only outside events are left and their bound is reached
(`interrupts` and `library`, where the CPU halts; in `boot` all devices are mapped);
the runs that show violations go with these.

Fairness. `MemPages`: weak fairness of the loops, because the CPU runs the call
to its end with interrupts off; clients owe nothing. `KvmClock`: each caller
keeps running, and the host ends an update it has begun; it need not begin one.
`Boot`: the boot CPU keeps running. `ApicTimer`: it does, and time passes.
`Interrupts` and `Console`: the CPU executes what it can; devices owe nothing.
`ApicInit` has no liveness property and assumes none.

## Proofs

All proofs are for arbitrary constants under the modules' `ASSUME`s.

- `MemPages_proofs`: `IInv` adds to the four invariants what each loop has
  established: which boot pages are linked (`CollectInv`), that no run starts
  before the one being counted and that it is free so far (`ScanInv`), which
  pages of the run are still listed (`UnlinkInv`, `LinkInv`), and that blocks lie
  inside memory. Without `ScanInv` the unlinking loop could meet an unlisted page,
  and the run returned would not be known to be the first. Type correctness, the
  double linking, the single ring, the accounting and the refinement of
  `PageAlloc` follow.
- `Slabs_proofs`: for `BitmapSlab`, under `CtzZero = WordBits`, `BitsAgree` ties
  each bit below the int's top bit to its object and the top bit with all above it
  to one object; the int shift is thus harmless for uniqueness, and costs half the
  page: objects in use are in `LowerHalf`, `is_empty` is exact over all objects, and
  `is_full` holds exactly if `LowerHalf` is in use (`SlabQueries`). For `FreeListSlab` the stack holds every object not in use exactly once,
  and `nr_free` is their number. Its queries are exact. Both slabs refine `SlabObjs`.
- `SlabHeap_proofs`: any number of pages, headers per MetaSlab and `max_pg`, any
  sizes from 2 bytes up to what the int `slab_obj_size` can hold in whole pages (a
  request of 1 byte asks for `clz(0)`, which has no value). `IInv` has six parts
  beside the types, none of which is inductive alone: a slab is once on one queue,
  the one its slots in use call for (`QueueInv`); the slots in use of a MetaSlab are
  the headers the chunk caches queue (`MetaInv`); a slab's data page leads back to
  the slab and to its cache (`DataInv`); the free list, the MetaSlabs, the data
  pages, the large runs and the leaked pages partition memory (`PageInv`); what a
  client holds is a slot in use or a run of its own, and a slot in use is held
  (`HeldInv`); the counters are cardinalities (`StatInv`). `FreeReclaimed` needs all
  of them: that the slab it takes off a queue was there, that its header's MetaSlab
  is queued, that no other slab has its data page. When the data page is missing the
  header is a slot in use of a MetaSlab that no cache queues; `MetaInv` and the second
  half of `QueuesMatch` hold up to that fault, the other parts at it too. The four invariants of the run
  follow, and with them the refinement of `ObjHeap`: regions of different objects
  are apart because pages are, or slots are, and an object fits its slot because
  `Fit` chooses a cache that is large enough (`FitFacts`, by the 32 values of the
  shift). Lemmas on `RemoveFirst` (what `Delete` does to a queue that has a slab
  once) are stated at the beginning.
- `Clocks_proofs`, the KVM clock: `HostInv` (between updates all fields are of the last one),
  `ReaderInv` (a snapshot begun on the current even version has only its tag) and
  `FloorInv` (what a caller must not go below is at most `last_boot_time`) give
  consistent snapshots and monotonic answers for any number of callers.
- `ApicInit_proofs`: any tables, any number of IO APICs. `Found` says that every
  IO APIC entry the parser has passed is in `io_apics`, `Listed` that nothing else
  is; `Routed` says which halves of which entries the loops have written, and
  `Wired` that a pin is as it was out of reset or has the vector of its own global
  interrupt, which is why vectors stay distinct half-way through too. An MADT may
  list one IO APIC twice. The proof needs that `Write`'s u8 offset reaches every
  pin: beyond 128 pins the entries of the first ones would be written again
  (`MachinesAssumption`; an IO APIC's index register ends at pin 119).
- `Clocks_proofs`, the timer: `Armed(n)` (in `TimerInv`) relates the count to the moment `n` at which the
  timer was started, `LastStep` bounds how late each step of `InitCpu` is; so the
  count read is that of between `Wait - Pause` and `Wait + 3 * Pause` units. `Accurate`
  holds for machines whose frequency fits the u32 `bus_freq` and for pauses below
  `Wait` (`FreqFits`, which the constants of the run satisfy): others are the overflow
  listed below. `TimerAssumption` only says that the constants are positive.
- `Interrupts_proofs`: any device vectors, handlers and number of events. `Linked`
  says that the pointers of a chain lead through the handlers in reverse order of
  installation, `Pending` that a handler whose first store is done is on no chain
  yet, `Walking` that a frame has run exactly the handlers above the one it points
  to, and `Nested` that above a frame there is at most one, an NMI's. `ChainRun`
  follows from `Walking` though a chain may grow under the frame that walks it,
  `NotReentrant` from `Nested`.
- `Boot_proofs`: any boot information that `BootAssumption` admits and whose
  available entries are whole pages (the theorems are of `BootSpec /\ WholePages(info)`),
  any place and size of the kernel, any `Fan`. `ParseInv` says that the memory map is the last one
  passed, `SizeInv` that `max_kern_mem` is the highest end of usable memory,
  `CollectInv` that the list has the pages of the usable entries that the loop is
  past, each once, and `TableInv` (`Sound`) that the tables are a tree of pages off
  the list. A page of the loop lies within its entry because of the assertion on
  `nr_page_structs` if the entry is the highest, and because it ends with a page if
  it is not (`WholePage`). No page is linked twice as entries are disjoint; the proof
  showed that this has to be said of entries by their place in the map, since an
  entry that is listed twice would be collected twice. Lemmas on the walks
  (`PresentGood` to `MapSmallGood`) carry `Sound` through `MapStep` and `MapPage`.

  What the tables translate is a second invariant, `MapInv`. `Seen` is the leaf on
  the way of a page, with its level. `View` says that at every step of the loops the
  leaf of each page passed so far, and of each device page, is `Right` (the page
  itself or the block around it, attributes by the entry it is in, larger pages for
  available memory only) and that no other page has one; `Full` that there are no
  more than three levels, so that a walk ends with what is seen (`WalkSeen`), and that
  a table is only on the way of a page that is mapped, so that no block that is new
  has one: a huge or large page never replaces a table (`NothingReplaced`, stated with
  the proofs and checked by TLC on the run's instance). The walks store one leaf, which
  changes what is seen for exactly the pages of its block (`Mapped`); a block
  lies within its entry, entries are disjoint and no available one has a device page,
  so no walk meets a leaf (`NoLeafInTheWay`). When the loops are done the pages passed
  are those of all the entries: `MapsMemory` follows, by `WalkSeen` and the division of
  a page's number by the size of its leaf, then `IdtKept`. The
  proof of `IdtKept` showed what it depends on: that page 0 is nobody's device page,
  or `MapPage` would make it uncached. `BootAssumption` now says so.

- `Library_proofs`, vectors: any number of vectors, elements and blocks, any first
  capacity. `MoveIs` says when a function of the number of elements
  moved so far is the loop of `memmove`, and `MovedUp`, `MovedDown` and `Copied` what
  is in each place after any number of them: moving up by one is right, moving down by
  one leaves the last element everywhere, which is right for one element only, and
  only then is a vector not `spoilt` by `Remove`. `Inserted` and `Removed` put
  that together. `VectorInv` adds to the invariants that a vector's block is at least
  as large as its `capacity` (`Fitting`) and that a block in use has exactly one
  vector (`Owned`): without the second no block need be free in `EnsureSpace`,
  without the first the shift of an `Insert` could leave the block. `Contents`,
  `WithinBlock` and `OneOwner` follow.
- `Library_proofs`, the console: any formats, any callers, sources and number of
  interrupts, for numbers that fit `buf` (as every unsigned long does in 32 digits).
  `NumberText` shows that the loop that pushes the remainders and the one that pops
  them write the shortest numeral; `Flattened` and `PosIs` where each directive's text
  begins in all that an activation prints. `StackInv` then says of every activation on
  the stack, the interrupted ones too, that it has written as many bytes as its place
  in its format says (`Placed`), that its `buf` holds the digits still to come
  (`Stored`), that the byte being written is the right one (`Writing`), and that all
  before it is with every source or in `lost` (`Sent`). An interrupt changes none of
  this but the step of `OutB` it came into, as each activation has a `buf` of its own.
  With `Faithful`, `Ordered` and `Complete`, the same of what is out, `Rendered` follows.

Inductions over numbers (the digits, the elements moved, the directives before a
place) are done by a least counterexample, from the well-foundedness of the naturals
(`NatLeast`), since the induction rules themselves cannot be instantiated here.

Only model-checked is liveness (`CallsReturn`, `Returns`, `Boots`, `Served`,
`Calibrated`, `Printed`), which is out of the prover's reach. Every safety property
of the passing runs has a theorem.

## What the models show to be wrong

Refuted by a run:

- `IoApicRegistersAccessor::Write` takes a u8 (`apic.h:213`): the timer's mask
  bit and every patched id are cut off, against the comment at `apic.cc:141`
  (`apic_timer_masked`).
- `main.cc:82` takes base 0 for "none yet", so the assertion below it, that all IO
  APICs have one base, is skipped on a machine with bases 0 and 24; `Setup` then
  writes the gates from physical address 24 on, while the IDT of `boot.asm:264`
  begins at 0 (`irq_base`).
- `InitCpu` starts the timer before it makes it periodic (`apic.cc:94` to `:96`). A
  CPU that is away in between for longer than the count lasts leaves a timer that
  never ticks (`timer_stopped`). With 32 interrupts a second the pause needed is some
  30 ms, or less where 0x1000 is the count.
- `CollectAvailable` tests an unaligned address and links the page around it: if
  available memory begins inside a page, the page where the page structs end is linked
  (`unaligned_memory`), against the comment at `mm/allocator.cc:85`. The pages of such
  an entry are also skipped by `page-table.cc:86`, so they are listed and not mapped.

Part of the models, which keep what the code does, and excluded by the
precondition of a property or by an assumption:

- A full row on a CPU without BMI1 hands out an object in use
  (`mm/uslab.cc:81`): `CtzZero = 0` instead of `WordBits` refutes
  `ImplementsPool`.
- The int shift at `mm/uslab.cc:87` clears the upper half of a word together with bit
  31, so that slots nobody got read as in use, against the comment at
  `mm/uslab.cc:28`. Half of each small-object page is never used, and `is_full` goes by
  the other half: `SlabQueries` says so. The slots that are left are handed out
  properly (`ImplementsPool`).
- `AllocPage` withholds the last page (part of `PageAlloc`).
- `BaseSlab::FreeSlab` leaks the data page (`leaked`).
- A snapshot of `time_info` begun on an odd version can be accepted torn (the
  precondition of `SnapshotConsistent`).
- The bus frequency is calculated in a u32 (`apic.cc:80`): if the virtual CPU
  loses some 30 ms during the calibration it wraps. `Pause = 4` instead of 2
  refutes `Accurate`.
- An available entry that ends inside the highest page stops the boot at the
  assertion `mm/allocator.cc:82` (`NoStruct`, the precondition of `Boots`).
- Until `Install` only 1 GB is mapped. Page structs that do not fit in it, or a
  memory map whose first entry lies above it, fault in `memset`
  (`mm/allocator.cc:73`, `page-table.h:53`), and a reserved entry above 512 GB stops
  the boot, for `max_phy_` counts it (`page-table.cc:74`): preconditions of `Boots`.
- Nothing reserves physical page 0, where the IDT is, but the test for `addr == 0`
  that is about low memory (`IdtKept`).
- A byte whose `OutB` is interrupted is lost (`CMakeLists.txt:8` lacks
  `-mno-red-zone`; `lost` in `Console`).
- `memmove` garbles a `Remove` of more than one element, `PopBack` removes beyond
  the end and a vector moved from stores at NULL (`spoilt`, `crashed` in `Vector`).
- The EOI of an NMI's wrapper ends the service of the interrupt it came into;
  `NotReentrant` says that this does no harm.

## Not modelled

The assembly (`smp-boot.asm`, context switches, the saving of registers in
`InterruptWrapper`, `boot.asm` but for the boot mapping and the place of the IDT;
also the operands of the `mov` before the `lidt` at `irqs.cc:153`, which are the wrong way
round: `LoadIdt` loads the table that is meant),
exceptions and their error codes, what follows a panic after an NMI, the UART's
set-up and FIFO, the TLB and PCI access. The boot loader's information is taken
to lie in the pages that `kBootLoaderSkipPages` spares. A memory map with
overlapping entries is left out. `BootSmp` is never called
and the code it starts does not count itself in. `CreateNew`, `BootClock`,
`CopyFrom`, `Compact` and `IsInterruptsEnabled` (`cpu.h:95`, which compares bit 9
with 1 and is never true) are never called; `VGABuffer`, and with it `Terminal`, is
never used. `scheduler.cc` and `thread.cc` are not in `CMakeLists.txt` and do not
compile: they use members (`ready.ready_head`) that no header declares.

## Plan

The modules were written in this order: the page allocator and its abstract
specification, the slabs and theirs, the heap, the clock, the page tables, the
interrupt controllers, interrupts, the timer, boot memory and vectors; then the
composition of the boot, the console, and the abstract heap. Proofs came in the
order allocator, slabs, clock, interrupts, heap with its refinement, timer, IO
APICs, boot memory, the mapping, vectors, the console. What is left is liveness,
which is out of the prover's reach.
