------------------------------ MODULE ApicInit ------------------------------
(***************************************************************************)
(* From the ACPI tables to enabled interrupts: Acpi::Init and the parsers  *)
(* below it (kern/acpi.cc), IoApic::Init (kern/apic.{h,cc}), and the loop  *)
(* of KernelMain that picks the base of the interrupt vectors.             *)
(*                                                                         *)
(* A machine has the RSDP candidates the scan meets, each with the tables  *)
(* of its RSDT, and the IO APICs' registers at their addresses.  A table   *)
(* is the sequence of what ParseTableAPIC meets in it: of a MADT the       *)
(* header, then the entries; of another kind nothing.                      *)
(* Interrupts are off, so nothing interleaves with the register writes.    *)
(***************************************************************************)
EXTENDS Integers, Sequences, SequencesExt

CONSTANT Machines   \* the machines to boot on

\* What the code relies on the firmware for: IO APICs at addresses of their own,
\* with global interrupts of their own that fit above the exception vectors, and
\* no more pins than the u8 offset of IoApicRegistersAccessor::Write reaches.
List(s) == s \in Seq(ToSet(s))
IoApicEntries(p) ==
  {x \in UNION {ToSet(p.tables[k]) : k \in 1 .. Len(p.tables)} : x.type = "IO_APIC"}
Gsis(m, x) == x.gsi .. (x.gsi + m.hw[x.addr].max)

ASSUME MachinesAssumption ==
  \A m \in Machines :
    /\ \A z \in DOMAIN m.hw : m.hw[z].max \in 0 .. 127
    /\ List(m.rsdps)
    /\ \A p \in ToSet(m.rsdps) :
         /\ List(p.tables)
         /\ \A s \in ToSet(p.tables) : List(s)
         /\ \A x, y \in IoApicEntries(p) :
              /\ x.addr \in DOMAIN m.hw /\ x.gsi \in Nat
              /\ x # y => x.addr # y.addr /\ Gsis(m, x) \cap Gsis(m, y) = {}
              /\ \A g \in Gsis(m, x) : g < 224

VARIABLES machine,
          regs,             \* the registers of every IO APIC, by address
          io_apics,         \* Acpi::io_apics_
          cpu_count,
          pc,
          r, t, e,          \* the RSDP candidate, the table and the MADT entry
          a, i, hi,         \* the IO APIC, the pin and which half of its entry
          irq_vector_base,
          idt               \* where InstallIrqFunction put the gates, NoIdt before

tables == <<io_apics, cpu_count, r, t, e>>
program == <<regs, a, i, hi>>
vectors == <<irq_vector_base, idt>>
vars == <<machine, tables, program, vectors, pc>>

NoIdt == -1
ID == 0
VER == 1
REDTBL == 16
kIntMasked == 65536
kIRQOffset == 32
u8(x) == x % 256

\* An entry's fields, as the IO APIC reads them.
Masked(lo) == (lo \div 65536) % 2 = 1
Vector(lo) == lo % 256

\* Out of reset every pin is masked.
Reset(h) ==
  [n \in {ID, VER} \cup (REDTBL .. (REDTBL + 2 * h.max + 1)) |->
     IF n = ID THEN h.id * 16777216
     ELSE IF n = VER THEN h.max * 65536 + 17
     ELSE IF n % 2 = 0 THEN kIntMasked ELSE 0]

Init ==
  /\ machine \in Machines
  /\ regs = [x \in DOMAIN machine.hw |-> Reset(machine.hw[x])]
  /\ io_apics = << >>
  /\ cpu_count = 0
  /\ pc = "scan"
  /\ r = 1 /\ t = 1 /\ e = 1
  /\ a = 1 /\ i = 0 /\ hi = FALSE
  /\ irq_vector_base = 0
  /\ idt = NoIdt

-----------------------------------------------------------------------------
(* Acpi::Init.                                                             *)

\* ParseRSDP takes the address of the RSDT out of the candidate.
GoodRsdp(p) == p.sum = 0 /\ p.rev \in {0, 2}

\* The two assertions on what the tables hold.
NoRsdt(p) == GoodRsdp(p) /\ p.rsdt_addr = 0
NoLocalApic(x) == x.type = "MADT" /\ x.localApicAddr = 0

AssertionFails ==
  /\ \/ /\ pc = "scan" /\ r <= Len(machine.rsdps)
        /\ NoRsdt(machine.rsdps[r])
     \/ /\ pc = "tables" /\ t <= Len(machine.rsdps[r].tables)
        /\ e <= Len(machine.rsdps[r].tables[t])
        /\ NoLocalApic(machine.rsdps[r].tables[t][e])
  /\ pc' = "panic"
  /\ UNCHANGED <<machine, tables, program, vectors>>

ScanRsdp ==
  /\ pc = "scan" /\ r <= Len(machine.rsdps) /\ ~NoRsdt(machine.rsdps[r])
  /\ IF GoodRsdp(machine.rsdps[r]) THEN pc' = "tables" /\ UNCHANGED r
     ELSE r' = r + 1 /\ UNCHANGED pc
  /\ UNCHANGED <<machine, io_apics, cpu_count, t, e, program, vectors>>

\* ParseTableAPIC, one entry of the MADT, or its header.
ParseEntry ==
  /\ pc = "tables" /\ t <= Len(machine.rsdps[r].tables)
  /\ e <= Len(machine.rsdps[r].tables[t])
  /\ LET x == machine.rsdps[r].tables[t][e]
     IN  /\ ~NoLocalApic(x)
         /\ io_apics' = IF x.type = "IO_APIC"
                          THEN Append(io_apics, [id |-> x.id, addr |-> x.addr, base |-> x.gsi])
                          ELSE io_apics
         /\ cpu_count' = IF x.type = "LOCAL_APIC" THEN cpu_count + 1 ELSE cpu_count
  /\ e' = e + 1
  /\ UNCHANGED <<machine, r, t, program, vectors, pc>>

\* ParseRSDT goes to its next table; ParseDT ignores one that is no MADT.
NextTable ==
  /\ pc = "tables" /\ t <= Len(machine.rsdps[r].tables)
  /\ e > Len(machine.rsdps[r].tables[t])
  /\ t' = t + 1 /\ e' = 1
  /\ UNCHANGED <<machine, io_apics, cpu_count, r, program, vectors, pc>>

\* The end of Init: the panic, or InitIoApics.
Parsed ==
  /\ \/ pc = "scan" /\ r > Len(machine.rsdps)
     \/ pc = "tables" /\ t > Len(machine.rsdps[r].tables)
  /\ pc' = IF io_apics = << >> THEN "panic" ELSE "id"
  /\ UNCHANGED <<machine, tables, program, vectors>>

-----------------------------------------------------------------------------
(* IoApic::Init for io_apics[a].                                           *)

apic == io_apics[a]
Read(reg) == regs[apic.addr][reg]
max_value == (Read(VER) \div 65536) % 256

\* IoApicRegistersAccessor::Write: both the offset and the value are u8.
Write(reg, reg_offset, value) ==
  regs' = [regs EXCEPT ![apic.addr][reg + u8(reg_offset)] = u8(value)]

\* Patch the id if it is another one, then the assertions on the number of pins.
InitId ==
  /\ pc = "id" /\ a <= Len(io_apics)
  /\ IF (Read(ID) \div 16777216) % 16 # apic.id
       THEN Write(ID, 0, apic.id * 16777216)
       ELSE UNCHANGED regs
  /\ pc' = IF max_value = 0 \/ max_value + 1 >= 256 THEN "panic" ELSE "pins"
  /\ i' = 0 /\ hi' = FALSE
  /\ UNCHANGED <<machine, tables, a, vectors>>

\* The global interrupt base is left out of the vector.
EntryNoBase == kIRQOffset + i

\* What SetEntry is given for pin i: the timer's entry, or EnableIrq's.
Entry ==
  IF apic.base = 0 /\ i = 0 THEN kIntMasked + kIRQOffset + i
  ELSE kIRQOffset + i + apic.base

\* i < max_value: the last pin is forgotten.
LastPinEarly == i = max_value - 1

LastPin == i = max_value

SetEntryLo ==
  /\ pc = "pins" /\ ~hi
  /\ Write(REDTBL, i * 2, Entry)
  /\ hi' = TRUE
  /\ UNCHANGED <<machine, tables, a, i, vectors, pc>>

\* The upper half: data >> 32 is 0 for every entry.
SetEntryHi ==
  /\ pc = "pins" /\ hi
  /\ Write(REDTBL, i * 2 + 1, 0)
  /\ hi' = FALSE
  /\ IF LastPin THEN a' = a + 1 /\ pc' = "id" /\ UNCHANGED i
                ELSE i' = i + 1 /\ UNCHANGED <<a, pc>>
  /\ UNCHANGED <<machine, tables, vectors>>

IoApicsDone ==
  /\ pc = "id" /\ a > Len(io_apics)
  /\ a' = 1 /\ pc' = "base"
  /\ UNCHANGED <<machine, tables, regs, i, hi, vectors>>

-----------------------------------------------------------------------------
(* KernelMain: one round of the loop over io_apics, then IrqVector::Setup. *)

PickBase ==
  /\ pc = "base" /\ a <= Len(io_apics)
  /\ IF irq_vector_base # 0 /\ irq_vector_base # apic.base
       THEN pc' = "panic" /\ UNCHANGED <<irq_vector_base, a>>
       ELSE irq_vector_base' = apic.base /\ a' = a + 1 /\ UNCHANGED pc
  /\ UNCHANGED <<machine, tables, regs, i, hi, idt>>

\* Setup(irq_vector_base), then EnableInterrupts.
Setup ==
  /\ pc = "base" /\ a > Len(io_apics)
  /\ idt' = irq_vector_base
  /\ pc' = "running"
  /\ UNCHANGED <<machine, tables, program, irq_vector_base>>

Next ==
  \/ AssertionFails \/ ScanRsdp \/ ParseEntry \/ NextTable \/ Parsed
  \/ InitId \/ SetEntryLo \/ SetEntryHi \/ IoApicsDone
  \/ PickBase \/ Setup

Spec == Init /\ [][Next]_vars

-----------------------------------------------------------------------------
(* Properties *)

Pins(x) == 0 .. machine.hw[x].max
Lo(x, p) == regs[x][REDTBL + 2 * p]
Live == {s \in (DOMAIN machine.hw) \X (0 .. 255) : s[2] \in Pins(s[1]) /\ ~Masked(Lo(s[1], s[2]))}

\* Also while the tables are being programmed, no two pins that can interrupt
\* share a vector, and none has the vector of an exception.
VectorsDistinct ==
  /\ \A s \in Live : Vector(Lo(s[1], s[2])) >= 32
  /\ \A s, u \in Live : s # u => Vector(Lo(s[1], s[2])) # Vector(Lo(u[1], u[2]))

\* When interrupts are enabled, every pin of every IO APIC the MADT lists
\* interrupts with the vector of its global interrupt, the timer's pin aside.
RoutedByGsi ==
  pc = "running" =>
    \A x \in IoApicEntries(machine.rsdps[r]) :
      \A p \in Pins(x.addr) :
        x.gsi + p # 0 => /\ ~Masked(Lo(x.addr, p))
                         /\ Vector(Lo(x.addr, p)) = kIRQOffset + x.gsi + p
                         /\ regs[x.addr][REDTBL + 2 * p + 1] = 0

\* apic.cc: "Mask timer (timer doesn't go through IOAPIC)".
TimerMasked ==
  pc = "running" => \A k \in 1 .. Len(io_apics) :
    io_apics[k].base = 0 => Masked(Lo(io_apics[k].addr, 0))

\* main.cc: kassert(irq_vector_base == io_apic->interrupt_base_address()) in the
\* loop over the IO APICs: when interrupts are enabled, they all have the base
\* that Setup was given.
BasesAgree ==
  pc = "running" => \A k \in DOMAIN io_apics : io_apics[k].base = irq_vector_base
=============================================================================
