-------------------------- MODULE ApicInit_proofs --------------------------
(***************************************************************************)
(* VectorsDistinct and RoutedByGsi for every machine the assumption on     *)
(* Machines allows: any tables, any number of IO APICs with any pins.      *)
(***************************************************************************)
EXTENDS ApicInit, TLAPS

Pcs == {"scan", "tables", "id", "pins", "base", "running", "panic"}

\* The registers an IO APIC has, and what it reports in the one named VER.
Registers(h) == {ID, VER} \cup (REDTBL .. (REDTBL + 2 * h.max + 1))
Version(h) == h.max * 65536 + 17

TypeOK ==
  /\ machine \in Machines /\ pc \in Pcs
  /\ r \in Nat /\ r >= 1 /\ t \in Nat /\ t >= 1 /\ e \in Nat /\ e >= 1
  /\ a \in Nat /\ a >= 1 /\ i \in Nat /\ hi \in BOOLEAN
  /\ DOMAIN regs = DOMAIN machine.hw
  /\ \A z \in DOMAIN machine.hw :
       /\ DOMAIN regs[z] = Registers(machine.hw[z])
       /\ regs[z][VER] = Version(machine.hw[z])

\* What the MADT entry of an IO APIC becomes in io_apics.
Attached(x) == [id |-> x.id, addr |-> x.addr, base |-> x.gsi]
Entries == IF r <= Len(machine.rsdps) THEN IoApicEntries(machine.rsdps[r]) ELSE {}

\* Only the entries of the RSDP that was chosen are attached.
Listed ==
  /\ pc = "scan" => io_apics = << >>
  /\ pc \notin {"scan", "panic"} => r <= Len(machine.rsdps)
  /\ io_apics \in Seq({Attached(x) : x \in Entries})

\* The parser has passed entry m of table k.
Passed(k, m) == k < t \/ (k = t /\ m < e)

\* No entry is forgotten.
Found ==
  /\ pc = "tables" =>
       \A k \in 1 .. Len(machine.rsdps[r].tables) :
         \A m \in 1 .. Len(machine.rsdps[r].tables[k]) :
           Passed(k, m) /\ machine.rsdps[r].tables[k][m].type = "IO_APIC" =>
             \E n \in 1 .. Len(io_apics) : io_apics[n] = Attached(machine.rsdps[r].tables[k][m])
  /\ pc \in {"id", "pins", "base", "running"} =>
       \A x \in Entries : \E n \in 1 .. Len(io_apics) : io_apics[n] = Attached(x)

\* A pin is as it was out of reset, or has the vector of its global interrupt.
Wired ==
  /\ pc \in {"scan", "tables"} =>
       \A z \in DOMAIN machine.hw : \A p \in Pins(z) : Lo(z, p) = kIntMasked
  /\ \A z \in DOMAIN machine.hw : \A p \in Pins(z) :
       \/ Lo(z, p) = kIntMasked
       \/ \E x \in Entries : x.addr = z /\ Lo(z, p) = kIRQOffset + x.gsi + p

LoSet(n, p) == Lo(io_apics[n].addr, p) = kIRQOffset + io_apics[n].base + p
HiSet(n, p) == regs[io_apics[n].addr][REDTBL + 2 * p + 1] = 0

\* IoApic::Init is through with pin p of io_apics[n].
Through(n, p) ==
  \/ pc \in {"base", "running"}
  \/ pc \in {"id", "pins"} /\ n < a
  \/ pc = "pins" /\ n = a /\ p < i

\* The pins the loop is through with are routed.
Routed ==
  \A n \in 1 .. Len(io_apics) : \A p \in Pins(io_apics[n].addr) :
    /\ Through(n, p) => LoSet(n, p) /\ HiSet(n, p)
    /\ pc = "pins" /\ hi /\ n = a /\ p = i => LoSet(n, p)

\* The pin that is being set is one of the IO APIC's.
AtPin == pc = "pins" => a <= Len(io_apics) /\ i \in Pins(io_apics[a].addr)

\* Where the loops start.
Start == (pc = "scan" => t = 1 /\ e = 1) /\ (pc \in {"scan", "tables"} => a = 1)

IInv == TypeOK /\ Start /\ Listed /\ Found /\ Wired /\ Routed /\ AtPin

-----------------------------------------------------------------------------
(* The machine *)

LEMMA Pieces ==
  ASSUME machine \in Machines, r \in Nat, r >= 1
  PROVE  /\ Len(machine.rsdps) \in Nat
         /\ r <= Len(machine.rsdps) =>
              /\ machine.rsdps[r] \in ToSet(machine.rsdps)
              /\ Len(machine.rsdps[r].tables) \in Nat
              /\ \A k \in 1 .. Len(machine.rsdps[r].tables) : Len(machine.rsdps[r].tables[k]) \in Nat
<1>1. machine.rsdps \in Seq(ToSet(machine.rsdps))
  BY MachinesAssumption DEF List
<1>2. Len(machine.rsdps) \in Nat /\ DOMAIN machine.rsdps = 1 .. Len(machine.rsdps)
  BY <1>1
<1>3. ASSUME r <= Len(machine.rsdps)
      PROVE  /\ machine.rsdps[r] \in ToSet(machine.rsdps)
             /\ Len(machine.rsdps[r].tables) \in Nat
             /\ \A k \in 1 .. Len(machine.rsdps[r].tables) : Len(machine.rsdps[r].tables[k]) \in Nat
  <2>1. machine.rsdps[r] \in ToSet(machine.rsdps)
    BY <1>2, <1>3 DEF ToSet
  <2> DEFINE T == machine.rsdps[r].tables
  <2>2. T \in Seq(ToSet(T)) /\ \A s \in ToSet(T) : s \in Seq(ToSet(s))
    BY <2>1, MachinesAssumption DEF List
  <2> HIDE DEF T
  <2>3. Len(T) \in Nat /\ DOMAIN T = 1 .. Len(T)
    BY <2>2
  <2>4. \A k \in 1 .. Len(T) : T[k] \in ToSet(T)
    BY <2>3 DEF ToSet
  <2>5. \A k \in 1 .. Len(T) : Len(T[k]) \in Nat
    BY <2>2, <2>4
  <2> QED BY <2>1, <2>3, <2>5 DEF T
<1> QED BY <1>2, <1>3

\* An entry of a table the parser meets is one of Entries, and the other way round.
LEMMA EntryOfTable ==
  ASSUME machine \in Machines, r \in Nat, r >= 1, r <= Len(machine.rsdps)
  PROVE  /\ \A k \in 1 .. Len(machine.rsdps[r].tables) :
              \A m \in 1 .. Len(machine.rsdps[r].tables[k]) :
                machine.rsdps[r].tables[k][m].type = "IO_APIC" => machine.rsdps[r].tables[k][m] \in Entries
         /\ \A x \in Entries :
              \E k \in 1 .. Len(machine.rsdps[r].tables) :
                \E m \in 1 .. Len(machine.rsdps[r].tables[k]) :
                  x = machine.rsdps[r].tables[k][m] /\ x.type = "IO_APIC"
<1> DEFINE T == machine.rsdps[r].tables
<1>1. \A k \in 1 .. Len(T) : DOMAIN T[k] = 1 .. Len(T[k])
  <2>1. machine.rsdps[r] \in ToSet(machine.rsdps)
    BY Pieces
  <2>2. T \in Seq(ToSet(T)) /\ \A s \in ToSet(T) : s \in Seq(ToSet(s))
    BY <2>1, MachinesAssumption DEF List
  <2> HIDE DEF T
  <2>3. \A k \in 1 .. Len(T) : T[k] \in ToSet(T)
    BY <2>2 DEF ToSet
  <2> QED BY <2>2, <2>3
<1>2. Entries = {x \in UNION {ToSet(T[k]) : k \in 1 .. Len(T)} : x.type = "IO_APIC"}
  BY DEF Entries, IoApicEntries
<1> HIDE DEF T
<1>3. \A k \in 1 .. Len(T) : \A m \in 1 .. Len(T[k]) : T[k][m] \in ToSet(T[k])
  BY <1>1 DEF ToSet
<1>4. \A k \in 1 .. Len(T) : \A x \in ToSet(T[k]) : \E m \in 1 .. Len(T[k]) : x = T[k][m]
  BY <1>1 DEF ToSet
<1>5. \A k \in 1 .. Len(T) : \A m \in 1 .. Len(T[k]) : T[k][m].type = "IO_APIC" => T[k][m] \in Entries
  BY <1>2, <1>3
<1>6. \A x \in Entries : \E k \in 1 .. Len(T) : \E m \in 1 .. Len(T[k]) : x = T[k][m] /\ x.type = "IO_APIC"
  <2> SUFFICES ASSUME NEW x \in Entries
               PROVE  \E k \in 1 .. Len(T) : \E m \in 1 .. Len(T[k]) : x = T[k][m] /\ x.type = "IO_APIC"
    OBVIOUS
  <2>1. x.type = "IO_APIC" /\ x \in UNION {ToSet(T[k]) : k \in 1 .. Len(T)}
    BY <1>2
  <2>2. PICK k \in 1 .. Len(T) : x \in ToSet(T[k])
    BY <2>1
  <2> QED BY <1>4, <2>1, <2>2
<1> QED BY <1>5, <1>6 DEF T

LEMMA EntryFacts ==
  ASSUME machine \in Machines, r \in Nat, r >= 1, NEW x \in Entries
  PROVE  /\ x.addr \in DOMAIN machine.hw /\ x.gsi \in Nat
         /\ machine.hw[x.addr].max \in Nat /\ machine.hw[x.addr].max <= 127
         /\ \A p \in Pins(x.addr) : x.gsi + p < 224
         /\ \A y \in Entries : x.addr = y.addr => x = y
         /\ \A y \in Entries : x # y =>
              \A p \in Pins(x.addr), q \in Pins(y.addr) : x.gsi + p # y.gsi + q
<1>1. r <= Len(machine.rsdps) /\ Entries = IoApicEntries(machine.rsdps[r])
  BY DEF Entries
<1>2. machine.rsdps[r] \in ToSet(machine.rsdps)
  BY <1>1, Pieces
<1>3. \A y \in Entries :
        /\ y.addr \in DOMAIN machine.hw /\ y.gsi \in Nat
        /\ x # y => x.addr # y.addr /\ Gsis(machine, x) \cap Gsis(machine, y) = {}
        /\ \A g \in Gsis(machine, y) : g < 224
  BY <1>1, <1>2, MachinesAssumption
<1>4. \A z \in DOMAIN machine.hw : machine.hw[z].max \in 0 .. 127
  BY MachinesAssumption
<1>5. \A y \in Entries : \A p \in Pins(y.addr) : y.gsi + p \in Gsis(machine, y)
  <2> SUFFICES ASSUME NEW y \in Entries, NEW p \in Pins(y.addr)
               PROVE  y.gsi + p \in Gsis(machine, y)
    OBVIOUS
  <2>1. y.gsi \in Nat /\ machine.hw[y.addr].max \in 0 .. 127
    BY <1>3, <1>4
  <2>2. p \in 0 .. machine.hw[y.addr].max
    BY DEF Pins
  <2> QED BY <2>1, <2>2 DEF Gsis
<1>6. \A y \in Entries : x # y =>
        \A p \in Pins(x.addr), q \in Pins(y.addr) : x.gsi + p # y.gsi + q
  BY <1>3, <1>5
<1> QED BY <1>3, <1>4, <1>5, <1>6

\* What the code reads as the number of the last pin.
LEMMA MaxValue ==
  ASSUME TypeOK, NEW z \in DOMAIN machine.hw
  PROVE  (regs[z][VER] \div 65536) % 256 = machine.hw[z].max
<1>1. machine.hw[z].max \in 0 .. 127
  BY MachinesAssumption DEF TypeOK
<1>2. \A n \in 0 .. 127 : ((n * 65536 + 17) \div 65536) % 256 = n
  BY SMT
<1> QED BY <1>1, <1>2, SMT DEF TypeOK, Version

\* The IO APIC in io_apics[n] is that of an entry.
LEMMA ApicFacts ==
  ASSUME TypeOK, Listed, NEW n \in 1 .. Len(io_apics)
  PROVE  /\ io_apics[n].addr \in DOMAIN machine.hw /\ io_apics[n].base \in Nat
         /\ machine.hw[io_apics[n].addr].max \in Nat /\ machine.hw[io_apics[n].addr].max <= 127
         /\ \A p \in Pins(io_apics[n].addr) : io_apics[n].base + p < 224
         /\ \E x \in Entries : x.addr = io_apics[n].addr /\ x.gsi = io_apics[n].base
         /\ \A m \in 1 .. Len(io_apics) : io_apics[m].addr = io_apics[n].addr =>
                                         io_apics[m].base = io_apics[n].base
<1>1. \A m \in 1 .. Len(io_apics) : \E x \in Entries : io_apics[m] = Attached(x)
  BY DEF Listed
<1>2. \A m \in 1 .. Len(io_apics) :
        \E x \in Entries : x.addr = io_apics[m].addr /\ x.gsi = io_apics[m].base
  <2>1. \A x : Attached(x).addr = x.addr /\ Attached(x).base = x.gsi
    BY DEF Attached
  <2> QED BY <1>1, <2>1
<1>3. PICK x \in Entries : x.addr = io_apics[n].addr /\ x.gsi = io_apics[n].base
  BY <1>2
<1>4. \A y \in Entries : x.addr = y.addr => x = y
  BY EntryFacts DEF TypeOK
<1>5. \A m \in 1 .. Len(io_apics) : io_apics[m].addr = io_apics[n].addr =>
                                  io_apics[m].base = io_apics[n].base
  BY <1>2, <1>3, <1>4
<1>6. /\ x.addr \in DOMAIN machine.hw /\ x.gsi \in Nat
      /\ machine.hw[x.addr].max \in Nat /\ machine.hw[x.addr].max <= 127
      /\ \A p \in Pins(x.addr) : x.gsi + p < 224
  BY EntryFacts DEF TypeOK
<1> QED BY <1>2, <1>3, <1>5, <1>6

-----------------------------------------------------------------------------
(* Invariance *)

LEMMA ResetFacts ==
  ASSUME NEW h
  PROVE  /\ DOMAIN Reset(h) = Registers(h)
         /\ Reset(h)[VER] = Version(h)
         /\ \A n \in REDTBL .. (REDTBL + 2 * h.max + 1) :
              n % 2 = 0 /\ n # ID /\ n # VER => Reset(h)[n] = kIntMasked
<1>1. DOMAIN Reset(h) = Registers(h)
  BY SMT DEF Reset, Registers
<1>2. VER \in Registers(h) /\ VER # ID
  BY DEF Registers, VER, ID
<1>3. Reset(h)[VER] = Version(h)
  BY <1>2, SMT DEF Reset, Registers, Version
<1>4. ASSUME NEW n \in REDTBL .. (REDTBL + 2 * h.max + 1), n % 2 = 0, n # ID, n # VER
      PROVE  Reset(h)[n] = kIntMasked
  BY <1>4, SMT DEF Reset
<1> QED BY <1>1, <1>3, <1>4

LEMMA InitIInv == ASSUME Init PROVE IInv
<1>1. machine \in Machines /\ r = 1 /\ t = 1 /\ e = 1 /\ a = 1 /\ i = 0 /\ hi = FALSE
      /\ pc = "scan" /\ io_apics = << >>
  BY DEF Init
<1>2. \A z \in DOMAIN machine.hw : machine.hw[z].max \in 0 .. 127
  BY <1>1, MachinesAssumption
<1>3. DOMAIN regs = DOMAIN machine.hw /\ \A z \in DOMAIN machine.hw : regs[z] = Reset(machine.hw[z])
  BY DEF Init
<1>4. \A z \in DOMAIN machine.hw :
        /\ DOMAIN regs[z] = Registers(machine.hw[z])
        /\ regs[z][VER] = Version(machine.hw[z])
  BY <1>3, ResetFacts
<1>5. \A z \in DOMAIN machine.hw : \A p \in Pins(z) : Lo(z, p) = kIntMasked
  <2> SUFFICES ASSUME NEW z \in DOMAIN machine.hw, NEW p \in Pins(z)
               PROVE  regs[z][REDTBL + 2 * p] = kIntMasked
    BY DEF Lo
  <2>1. p \in Nat /\ p <= machine.hw[z].max /\ machine.hw[z].max \in Nat
    BY <1>2 DEF Pins
  <2>2. REDTBL + 2 * p \in REDTBL .. (REDTBL + 2 * machine.hw[z].max + 1)
    BY <2>1 DEF REDTBL
  <2>3. (REDTBL + 2 * p) % 2 = 0 /\ REDTBL + 2 * p # ID /\ REDTBL + 2 * p # VER
    BY <2>1 DEF REDTBL, ID, VER
  <2> QED BY <1>3, <2>2, <2>3, ResetFacts
<1>6. TypeOK
  <2>1. hi \in BOOLEAN /\ pc \in Pcs
    BY <1>1, Zenon DEF Pcs
  <2> QED BY <1>1, <1>3, <1>4, <2>1 DEF TypeOK
<1>7. Listed /\ Found /\ AtPin
  BY <1>1 DEF Listed, Found, AtPin
<1>8. Wired
  BY <1>1, <1>5 DEF Wired
<1>9. Routed /\ Start
  BY <1>1 DEF Routed, Through, Start
<1> QED BY <1>6, <1>7, <1>8, <1>9 DEF IInv

\* The scan for the RSDP.
LEMMA ScanRsdpInv == ASSUME IInv, ScanRsdp PROVE IInv'
<1>1. /\ pc = "scan" /\ r <= Len(machine.rsdps) /\ io_apics = << >> /\ t = t' /\ e = e'
      /\ machine' = machine /\ io_apics' = io_apics /\ regs' = regs /\ a' = a /\ i' = i /\ hi' = hi
  BY DEF ScanRsdp, IInv, Listed, program
<1>2. (pc' = "tables" /\ r' = r) \/ (pc' = "scan" /\ r' = r + 1)
  <2>1. CASE GoodRsdp(machine.rsdps[r])
    BY <2>1 DEF ScanRsdp
  <2>2. CASE ~GoodRsdp(machine.rsdps[r])
    BY <1>1, <2>2 DEF ScanRsdp
  <2> QED BY <2>1, <2>2
<1>3. TypeOK'
  <2>1. pc' \in Pcs /\ r' \in Nat /\ r' >= 1
    BY <1>2 DEF IInv, TypeOK, Pcs
  <2> QED BY <1>1, <2>1 DEF IInv, TypeOK
<1>4. Listed'
  BY <1>1, <1>2 DEF Listed
<1>5. Found'
  <2> SUFFICES ASSUME pc' = "tables"
               PROVE  \A k \in 1 .. Len(machine.rsdps[r].tables) :
                        \A m \in 1 .. Len(machine.rsdps[r].tables[k]) : ~Passed(k, m)'
    BY <1>1, <1>2 DEF Found
  <2>1. t' = 1 /\ e' = 1
    BY <1>1 DEF IInv, Start
  <2>2. Len(machine.rsdps[r].tables) \in Nat
    BY <1>1, Pieces DEF IInv, TypeOK
  <2>3. \A k \in 1 .. Len(machine.rsdps[r].tables) : Len(machine.rsdps[r].tables[k]) \in Nat
    BY <1>1, Pieces DEF IInv, TypeOK
  <2> QED BY <2>1, <2>2, <2>3 DEF Passed
<1>6. Wired'
  <2>1. \A z \in DOMAIN machine.hw : \A p \in Pins(z) : Lo(z, p) = kIntMasked
    BY <1>1 DEF IInv, Wired
  <2> QED BY <1>1, <1>2, <2>1 DEF Wired, Pins, Lo
<1>7. Routed' /\ AtPin' /\ Start'
  BY <1>1, <1>2 DEF IInv, Start, Routed, Through, AtPin
<1> QED BY <1>3, <1>4, <1>5, <1>6, <1>7 DEF IInv

\* The entries that were found are not lost again.
LEMMA ParseEntryInv == ASSUME IInv, ParseEntry PROVE IInv'
<1> DEFINE T == machine.rsdps[r].tables
           x == T[t][e]
<1>1. /\ pc = "tables" /\ pc' = pc /\ r' = r /\ t' = t /\ e' = e + 1 /\ machine' = machine
      /\ regs' = regs /\ a' = a /\ i' = i /\ hi' = hi
      /\ t <= Len(T) /\ e <= Len(T[t])
  BY DEF ParseEntry, program
<1>2. io_apics' = IF x.type = "IO_APIC" THEN Append(io_apics, Attached(x)) ELSE io_apics
  BY DEF ParseEntry, Attached
<1>3. r <= Len(machine.rsdps) /\ r \in Nat /\ r >= 1 /\ machine \in Machines
      /\ t \in Nat /\ t >= 1 /\ e \in Nat /\ e >= 1
  BY <1>1 DEF IInv, Listed, TypeOK
<1>4. Len(T) \in Nat /\ \A k \in 1 .. Len(T) : Len(T[k]) \in Nat
  BY <1>3, Pieces
<1>5. x.type = "IO_APIC" => x \in Entries
  BY <1>1, <1>3, <1>4, EntryOfTable
<1>6. Entries' = Entries
  BY <1>1 DEF Entries
<1>7. PICK S : S = {Attached(y) : y \in Entries}
  OBVIOUS
<1>8. io_apics \in Seq(S)
  BY <1>7 DEF IInv, Listed
<1>9. x.type = "IO_APIC" => Attached(x) \in S
  BY <1>5, <1>7
<1> HIDE DEF x
<1>10. /\ io_apics' \in Seq(S)
       /\ \A n \in 1 .. Len(io_apics) : n \in 1 .. Len(io_apics') /\ io_apics'[n] = io_apics[n]
       /\ x.type = "IO_APIC" => \E n \in 1 .. Len(io_apics') : io_apics'[n] = Attached(x)
  <2>1. CASE x.type = "IO_APIC"
    <3>1. io_apics' = Append(io_apics, Attached(x)) /\ Attached(x) \in S
      BY <1>2, <1>9, <2>1
    <3>2. PICK y : y = Attached(x)
      OBVIOUS
    <3>3. /\ io_apics' \in Seq(S) /\ Len(io_apics) \in Nat /\ Len(io_apics') = Len(io_apics) + 1
          /\ \A n \in 1 .. Len(io_apics) : io_apics'[n] = io_apics[n]
          /\ io_apics'[Len(io_apics) + 1] = y
      BY <1>8, <3>1, <3>2
    <3> QED BY <3>2, <3>3
  <2>2. CASE x.type # "IO_APIC"
    BY <1>2, <1>8, <2>2
  <2> QED BY <2>1, <2>2
<1>11. TypeOK'
  BY <1>1, <1>3 DEF IInv, TypeOK
<1>12. Listed'
  BY <1>1, <1>3, <1>6, <1>7, <1>10 DEF Listed
<1>13. Found'
  <2> SUFFICES ASSUME NEW k \in 1 .. Len(T), NEW m \in 1 .. Len(T[k]), Passed(k, m)', T[k][m].type = "IO_APIC"
               PROVE  \E n \in 1 .. Len(io_apics') : io_apics'[n] = Attached(T[k][m])
    BY <1>1 DEF Found
  <2>1. CASE Passed(k, m)
    <3>1. PICK n \in 1 .. Len(io_apics) : io_apics[n] = Attached(T[k][m])
      BY <1>1, <2>1 DEF IInv, Found
    <3> QED BY <1>10, <3>1
  <2>2. CASE ~Passed(k, m)
    <3>1. k = t /\ m = e
      BY <1>1, <1>3, <1>4, <2>2 DEF Passed
    <3>2. x = T[k][m]
      BY <3>1 DEF x
    <3> QED BY <1>10, <3>2
  <2> QED BY <2>1, <2>2
<1>14. Wired'
  BY <1>1, <1>6 DEF IInv, Wired, Pins, Lo
<1>15. Routed' /\ AtPin' /\ Start'
  BY <1>1 DEF IInv, Start, Routed, Through, AtPin
<1> QED BY <1>11, <1>12, <1>13, <1>14, <1>15 DEF IInv

\* A table is left when its entries are passed.
LEMMA NextTableInv == ASSUME IInv, NextTable PROVE IInv'
<1> DEFINE T == machine.rsdps[r].tables
<1>1. /\ pc = "tables" /\ pc' = pc /\ r' = r /\ t' = t + 1 /\ e' = 1 /\ machine' = machine
      /\ regs' = regs /\ a' = a /\ i' = i /\ hi' = hi /\ io_apics' = io_apics
      /\ t <= Len(T) /\ e > Len(T[t])
  BY DEF NextTable, program
<1>2. r <= Len(machine.rsdps) /\ r \in Nat /\ r >= 1 /\ machine \in Machines
      /\ t \in Nat /\ t >= 1 /\ e \in Nat /\ e >= 1
  BY <1>1 DEF IInv, Listed, TypeOK
<1>3. Len(T) \in Nat /\ \A k \in 1 .. Len(T) : Len(T[k]) \in Nat
  BY <1>2, Pieces
<1>4. TypeOK'
  BY <1>1, <1>2 DEF IInv, TypeOK
<1>5. Listed'
  BY <1>1 DEF IInv, Listed, Entries
<1>6. Found'
  <2>1. ASSUME NEW k \in 1 .. Len(T), NEW m \in 1 .. Len(T[k]), Passed(k, m)'
        PROVE  Passed(k, m)
    BY <1>1, <1>2, <1>3, <2>1 DEF Passed
  <2> QED BY <1>1, <2>1 DEF IInv, Found
<1>7. Wired'
  BY <1>1 DEF IInv, Wired, Pins, Lo, Entries
<1>8. Routed' /\ AtPin' /\ Start'
  BY <1>1 DEF IInv, Start, Routed, Through, AtPin
<1> QED BY <1>4, <1>5, <1>6, <1>7, <1>8 DEF IInv

\* A failed assertion changes nothing the invariant asks of a panic.
LEMMA AssertionFailsInv == ASSUME IInv, AssertionFails PROVE IInv'
<1>1. /\ machine' = machine /\ r' = r /\ t' = t /\ e' = e /\ io_apics' = io_apics
      /\ regs' = regs /\ a' = a /\ i' = i /\ hi' = hi /\ pc' = "panic"
  BY DEF AssertionFails, tables, program
<1>2. TypeOK' /\ Listed' /\ Start'
  BY <1>1 DEF IInv, TypeOK, Pcs, Listed, Entries, Start
<1>3. Found' /\ AtPin'
  BY <1>1 DEF Found, AtPin
<1>4. Wired'
  BY <1>1 DEF IInv, Wired, Pins, Lo, Entries
<1>5. Routed'
  BY <1>1 DEF Routed, Through
<1> QED BY <1>2, <1>3, <1>4, <1>5 DEF IInv

\* InitIoApics starts with every entry found, and with the first IO APIC.
LEMMA ParsedInv == ASSUME IInv, Parsed PROVE IInv'
<1>1. /\ machine' = machine /\ r' = r /\ t' = t /\ e' = e /\ io_apics' = io_apics
      /\ regs' = regs /\ a' = a /\ i' = i /\ hi' = hi
  BY DEF Parsed, tables, program
<1>2. pc' = IF io_apics = << >> THEN "panic" ELSE "id"
  BY DEF Parsed
<1>3. pc = "scan" => io_apics = << >>
  BY DEF IInv, Listed
<1>4. pc' = "id" => pc = "tables" /\ t > Len(machine.rsdps[r].tables) /\ r <= Len(machine.rsdps)
  BY <1>2, <1>3 DEF Parsed, IInv, Listed
<1>5. TypeOK'
  BY <1>1, <1>2 DEF IInv, TypeOK, Pcs
<1>6. Listed'
  BY <1>1, <1>2, <1>4 DEF IInv, Listed, Entries
<1>7. Found'
  <2> SUFFICES ASSUME pc' = "id", NEW x \in Entries
               PROVE  \E n \in 1 .. Len(io_apics) : io_apics[n] = Attached(x)
    BY <1>1, <1>2 DEF Found, Entries
  <2>1. PICK k \in 1 .. Len(machine.rsdps[r].tables) :
          \E m \in 1 .. Len(machine.rsdps[r].tables[k]) :
            x = machine.rsdps[r].tables[k][m] /\ x.type = "IO_APIC"
    BY <1>4, EntryOfTable DEF IInv, TypeOK
  <2>2. PICK m \in 1 .. Len(machine.rsdps[r].tables[k]) :
          x = machine.rsdps[r].tables[k][m] /\ x.type = "IO_APIC"
    BY <2>1
  <2>3. Passed(k, m)
    <3>1. Len(machine.rsdps[r].tables) \in Nat /\ t \in Nat
      BY <1>4, Pieces DEF IInv, TypeOK
    <3> QED BY <1>4, <3>1 DEF Passed
  <2> QED BY <1>4, <2>2, <2>3 DEF IInv, Found
<1>8. Wired'
  BY <1>1, <1>2 DEF IInv, Wired, Pins, Lo, Entries
<1>9. AtPin' /\ Start'
  BY <1>2 DEF AtPin, Start
<1>10. Routed'
  <2>1. pc' # "panic" => a' = 1
    BY <1>1, <1>2, <1>4 DEF IInv, Start
  <2> QED BY <1>2, <2>1 DEF Routed, Through
<1> QED BY <1>5, <1>6, <1>7, <1>8, <1>9, <1>10 DEF IInv

\* A write changes one register of one IO APIC.
LEMMA WriteFacts ==
  ASSUME TypeOK, machine' = machine, NEW z \in DOMAIN machine.hw,
         NEW n \in Registers(machine.hw[z]), NEW v, regs' = [regs EXCEPT ![z][n] = v]
  PROVE  /\ DOMAIN regs' = DOMAIN machine.hw
         /\ \A y \in DOMAIN machine.hw : DOMAIN regs'[y] = Registers(machine.hw[y])
         /\ regs'[z][n] = v
         /\ \A y \in DOMAIN machine.hw : \A m \in Registers(machine.hw[y]) :
              y # z \/ m # n => regs'[y][m] = regs[y][m]
  BY DEF TypeOK

\* A pin has two registers, and none of another pin's.
LEMMA PinRegisters ==
  ASSUME TypeOK, NEW z \in DOMAIN machine.hw, NEW p \in Pins(z)
  PROVE  /\ p \in Nat /\ p <= machine.hw[z].max /\ machine.hw[z].max \in Nat /\ machine.hw[z].max <= 127
         /\ REDTBL + 2 * p \in Registers(machine.hw[z])
         /\ REDTBL + 2 * p + 1 \in Registers(machine.hw[z])
         /\ VER \in Registers(machine.hw[z]) /\ ID \in Registers(machine.hw[z])
         /\ ID # VER /\ REDTBL + 2 * p \notin {ID, VER} /\ REDTBL + 2 * p + 1 \notin {ID, VER}
         /\ \A q \in Pins(z) : q # p =>
              REDTBL + 2 * q # REDTBL + 2 * p /\ REDTBL + 2 * q + 1 # REDTBL + 2 * p + 1
         /\ \A q \in Pins(z) :
              REDTBL + 2 * q # REDTBL + 2 * p + 1 /\ REDTBL + 2 * q + 1 # REDTBL + 2 * p
<1>1. machine.hw[z].max \in 0 .. 127
  BY MachinesAssumption DEF TypeOK
<1>2. PICK M : M = machine.hw[z].max
  OBVIOUS
<1>3. Registers(machine.hw[z]) = {ID, VER} \cup (REDTBL .. (REDTBL + 2 * M + 1))
  BY <1>2 DEF Registers
<1>4. /\ M \in Nat /\ M <= 127 /\ \A q \in Pins(z) : q \in Nat /\ q <= M
  <2>1. Pins(z) = 0 .. M
    BY <1>2 DEF Pins
  <2>2. M \in 0 .. 127
    BY <1>1, <1>2
  <2> QED BY <2>1, <2>2
<1>5. /\ REDTBL + 2 * p \in REDTBL .. (REDTBL + 2 * M + 1)
      /\ REDTBL + 2 * p + 1 \in REDTBL .. (REDTBL + 2 * M + 1)
  BY <1>4 DEF REDTBL
<1>6. ID # VER /\ REDTBL + 2 * p \notin {ID, VER} /\ REDTBL + 2 * p + 1 \notin {ID, VER}
  BY <1>4 DEF REDTBL, ID, VER
<1>7. \A q \in Pins(z) : q # p =>
        REDTBL + 2 * q # REDTBL + 2 * p /\ REDTBL + 2 * q + 1 # REDTBL + 2 * p + 1
  BY <1>4 DEF REDTBL
<1>8. \A q \in Pins(z) :
        REDTBL + 2 * q # REDTBL + 2 * p + 1 /\ REDTBL + 2 * q + 1 # REDTBL + 2 * p
  BY <1>4 DEF REDTBL
<1> QED BY <1>2, <1>3, <1>4, <1>5, <1>6, <1>7, <1>8

\* The id is patched.
LEMMA InitIdInv == ASSUME IInv, InitId PROVE IInv'
<1>1. /\ pc = "id" /\ a <= Len(io_apics) /\ machine' = machine /\ io_apics' = io_apics
      /\ r' = r /\ t' = t /\ e' = e /\ a' = a /\ i' = 0 /\ hi' = FALSE
  BY DEF InitId, tables
<1>2. pc' \in {"panic", "pins"}
  BY DEF InitId
<1>3. a \in Nat /\ a >= 1 /\ Len(io_apics) \in Nat /\ TypeOK /\ Listed
  BY DEF IInv, TypeOK, Listed
<1>4. PICK z : z = io_apics[a].addr
  OBVIOUS
<1>5. a \in 1 .. Len(io_apics)
  BY <1>1, <1>3
<1>6. z \in DOMAIN machine.hw /\ machine.hw[z].max \in Nat
  BY <1>3, <1>4, <1>5, ApicFacts
<1>7. ID \in Registers(machine.hw[z]) /\ ID # VER /\ VER \in Registers(machine.hw[z])
  BY DEF Registers, ID, VER
<1>8. (\E v : regs' = [regs EXCEPT ![z][ID] = v]) \/ regs' = regs
  <2>1. ID + u8(0) = ID
    BY DEF ID, u8
  <2>2. CASE (Read(ID) \div 16777216) % 16 # apic.id
    <3>1. Write(ID, 0, apic.id * 16777216)
      BY <2>2, SMT DEF InitId
    <3>2. PICK v : v = u8(apic.id * 16777216)
      OBVIOUS
    <3>3. regs' = [regs EXCEPT ![z][ID] = v]
      <4>1. regs' = [regs EXCEPT ![apic.addr][ID + u8(0)] = v]
        BY <3>1, <3>2, SMT DEF Write
      <4>2. apic.addr = z
        BY <1>4 DEF apic
      <4> QED BY <2>1, <4>1, <4>2, Zenon
    <3> QED BY <3>3
  <2>3. CASE ~((Read(ID) \div 16777216) % 16 # apic.id)
    BY <2>3, SMT DEF InitId
  <2> QED BY <2>2, <2>3, SMT
<1>9. /\ DOMAIN regs' = DOMAIN machine.hw
      /\ \A y \in DOMAIN machine.hw : DOMAIN regs'[y] = Registers(machine.hw[y])
      /\ \A y \in DOMAIN machine.hw : \A m \in Registers(machine.hw[y]) :
           m # ID => regs'[y][m] = regs[y][m]
  <2>1. CASE regs' = regs
    BY <1>3, <2>1 DEF TypeOK
  <2>2. ASSUME NEW v, regs' = [regs EXCEPT ![z][ID] = v]
        PROVE  <1>9!:
    BY <1>1, <1>3, <1>6, <1>7, <2>2, WriteFacts
  <2> QED BY <1>8, <2>1, <2>2
<1>10. TypeOK'
  <2>1. \A y \in DOMAIN machine.hw : VER \in Registers(machine.hw[y])
    BY DEF Registers, ID, VER
  <2>2. hi' \in BOOLEAN /\ pc' \in Pcs
    BY <1>1, <1>2, Zenon DEF Pcs
  <2> QED BY <1>1, <1>3, <1>7, <1>9, <2>1, <2>2 DEF TypeOK
<1>11. Listed' /\ Found' /\ Start'
  BY <1>1, <1>2 DEF IInv, Listed, Found, Start, Entries
<1>12. \A y \in DOMAIN machine.hw : \A p \in Pins(y) :
         /\ regs'[y][REDTBL + 2 * p] = regs[y][REDTBL + 2 * p]
         /\ regs'[y][REDTBL + 2 * p + 1] = regs[y][REDTBL + 2 * p + 1]
  BY <1>3, <1>9, PinRegisters
<1>13. Wired'
  BY <1>1, <1>2, <1>12 DEF IInv, Wired, Pins, Lo, Entries
<1>14. Routed'
  <2> SUFFICES ASSUME NEW n \in 1 .. Len(io_apics), NEW p \in Pins(io_apics[n].addr), Through(n, p)'
               PROVE  (LoSet(n, p) /\ HiSet(n, p))'
    BY <1>1 DEF Routed, Pins
  <2>1. Through(n, p)
    <3>1. p \in Nat
      BY <1>3, ApicFacts DEF Pins
    <3> QED BY <1>1, <1>2, <1>3, <3>1 DEF Through
  <2>2. LoSet(n, p) /\ HiSet(n, p)
    BY <2>1 DEF IInv, Routed
  <2>3. io_apics[n].addr \in DOMAIN machine.hw
    BY <1>3, ApicFacts
  <2> QED BY <1>1, <1>12, <2>2, <2>3 DEF LoSet, HiSet, Lo
<1>15. AtPin'
  BY <1>1, <1>2, <1>4, <1>6 DEF AtPin, Pins
<1> QED BY <1>10, <1>11, <1>13, <1>14, <1>15 DEF IInv

\* The two halves of a pin's entry.
LEMMA SetEntryLoInv == ASSUME IInv, SetEntryLo PROVE IInv'
<1>1. /\ pc = "pins" /\ pc' = pc /\ machine' = machine /\ io_apics' = io_apics
      /\ r' = r /\ t' = t /\ e' = e /\ a' = a /\ i' = i /\ hi' = TRUE
  BY DEF SetEntryLo, tables
<1>2. a \in Nat /\ a >= 1 /\ Len(io_apics) \in Nat /\ TypeOK /\ Listed /\ a \in 1 .. Len(io_apics)
  BY <1>1 DEF IInv, TypeOK, Listed, AtPin
<1>3. PICK z : z = io_apics[a].addr
  OBVIOUS
<1>4. PICK g : g = io_apics[a].base
  OBVIOUS
<1>5. PICK p : p = i
  OBVIOUS
<1>6. p \in Pins(z) /\ z \in DOMAIN machine.hw /\ g \in Nat /\ g + p < 224
  BY <1>1, <1>2, <1>3, <1>4, <1>5, ApicFacts DEF IInv, AtPin
<1>7. /\ p \in Nat /\ p <= 127
      /\ REDTBL + 2 * p \in Registers(machine.hw[z]) /\ REDTBL + 2 * p \notin {ID, VER}
  BY <1>2, <1>6, PinRegisters
<1>8. PICK n : n = REDTBL + 2 * p
  OBVIOUS
<1>9. PICK v : v = kIRQOffset + g + p
  OBVIOUS
<1>10. regs' = [regs EXCEPT ![z][n] = v]
  <2>1. REDTBL + u8(i * 2) = n
    BY <1>5, <1>7, <1>8 DEF u8, REDTBL
  <2>2. u8(Entry) = v
    BY <1>4, <1>5, <1>6, <1>7, <1>9, SMT DEF u8, Entry, kIRQOffset, kIntMasked, apic
  <2>3. apic.addr = z
    BY <1>3 DEF apic
  <2>4. regs' = [regs EXCEPT ![apic.addr][REDTBL + u8(i * 2)] = u8(Entry)]
    BY DEF SetEntryLo, Write
  <2> QED BY <2>1, <2>2, <2>3, <2>4, Zenon
<1>11. /\ DOMAIN regs' = DOMAIN machine.hw
       /\ \A y \in DOMAIN machine.hw : DOMAIN regs'[y] = Registers(machine.hw[y])
       /\ regs'[z][n] = v
       /\ \A y \in DOMAIN machine.hw : \A m \in Registers(machine.hw[y]) :
            y # z \/ m # n => regs'[y][m] = regs[y][m]
  <2>1. n \in Registers(machine.hw[z])
    BY <1>7, <1>8
  <2> QED BY <1>1, <1>2, <1>6, <1>10, <2>1, WriteFacts
<1>12. TypeOK'
  <2>1. \A y \in DOMAIN machine.hw : VER \in Registers(machine.hw[y])
    BY DEF Registers
  <2>2. hi' \in BOOLEAN /\ n # VER
    BY <1>1, <1>7, <1>8, Zenon
  <2>3. \A y \in DOMAIN machine.hw : regs'[y][VER] = Version(machine.hw[y])
    BY <1>2, <1>11, <2>1, <2>2 DEF TypeOK
  <2> QED BY <1>1, <1>2, <1>11, <2>2, <2>3 DEF TypeOK
<1>13. Listed' /\ Found' /\ Start' /\ AtPin'
  BY <1>1 DEF IInv, Listed, Found, Start, Entries, AtPin, Pins
<1>14. \A y \in DOMAIN machine.hw : \A q \in Pins(y) :
         /\ y # z \/ q # p => regs'[y][REDTBL + 2 * q] = regs[y][REDTBL + 2 * q]
         /\ regs'[y][REDTBL + 2 * q + 1] = regs[y][REDTBL + 2 * q + 1]
  <2> SUFFICES ASSUME NEW y \in DOMAIN machine.hw, NEW q \in Pins(y)
               PROVE  /\ y # z \/ q # p => regs'[y][REDTBL + 2 * q] = regs[y][REDTBL + 2 * q]
                      /\ regs'[y][REDTBL + 2 * q + 1] = regs[y][REDTBL + 2 * q + 1]
    OBVIOUS
  <2>1. /\ REDTBL + 2 * q \in Registers(machine.hw[y])
        /\ REDTBL + 2 * q + 1 \in Registers(machine.hw[y])
    BY <1>2, PinRegisters
  <2>2. /\ y = z => REDTBL + 2 * q + 1 # n
        /\ y = z /\ q # p => REDTBL + 2 * q # n
    BY <1>2, <1>6, <1>8, PinRegisters
  <2> QED BY <1>11, <2>1, <2>2
<1>15. Wired'
  <2>1. PICK x \in Entries : x.addr = z /\ x.gsi = g
    BY <1>2, <1>3, <1>4, ApicFacts
  <2>2. \A y \in DOMAIN machine.hw : \A q \in Pins(y) :
          \/ regs'[y][REDTBL + 2 * q] = kIntMasked
          \/ \E s \in Entries : s.addr = y /\ regs'[y][REDTBL + 2 * q] = kIRQOffset + s.gsi + q
    <3> SUFFICES ASSUME NEW y \in DOMAIN machine.hw, NEW q \in Pins(y)
                 PROVE  \/ regs'[y][REDTBL + 2 * q] = kIntMasked
                        \/ \E s \in Entries : s.addr = y /\ regs'[y][REDTBL + 2 * q] = kIRQOffset + s.gsi + q
      OBVIOUS
    <3>1. CASE y = z /\ q = p
      BY <1>8, <1>9, <1>11, <2>1, <3>1
    <3>2. CASE ~(y = z /\ q = p)
      BY <1>14, <3>2 DEF IInv, Wired, Lo
    <3> QED BY <3>1, <3>2
  <2> QED BY <1>1, <2>2 DEF Wired, Lo, Pins, Entries
<1>16. Routed'
  <2> SUFFICES ASSUME NEW m \in 1 .. Len(io_apics), NEW q \in Pins(io_apics[m].addr)
               PROVE  /\ Through(m, q)' => (LoSet(m, q) /\ HiSet(m, q))'
                      /\ m = a /\ q = i => LoSet(m, q)'
    BY <1>1 DEF Routed, Pins
  <2>1. io_apics[m].addr \in DOMAIN machine.hw
    BY <1>2, ApicFacts
  <2>2. io_apics[m].addr = z => io_apics[m].base = g
    BY <1>2, <1>3, <1>4, ApicFacts
  <2>3. Through(m, q)' => Through(m, q)
    BY <1>1 DEF Through
  <2>4. Through(m, q) => LoSet(m, q) /\ HiSet(m, q)
    BY DEF IInv, Routed
  <2>5. CASE io_apics[m].addr = z /\ q = p
    <3>1. LoSet(m, q)'
      BY <1>1, <1>8, <1>9, <1>11, <2>2, <2>5 DEF LoSet, Lo
    <3>2. HiSet(m, q) => HiSet(m, q)'
      BY <1>1, <1>14, <2>1 DEF HiSet
    <3> QED BY <2>3, <2>4, <3>1, <3>2
  <2>6. CASE ~(io_apics[m].addr = z /\ q = p)
    <3>1. LoSet(m, q) => LoSet(m, q)'
      BY <1>1, <1>14, <2>1, <2>6 DEF LoSet, Lo
    <3>2. HiSet(m, q) => HiSet(m, q)'
      BY <1>1, <1>14, <2>1 DEF HiSet
    <3>3. ~(m = a /\ q = i)
      BY <1>3, <1>5, <2>6
    <3> QED BY <2>3, <2>4, <3>1, <3>2, <3>3
  <2> QED BY <2>5, <2>6
<1> QED BY <1>12, <1>13, <1>15, <1>16 DEF IInv

LEMMA SetEntryHiInv == ASSUME IInv, SetEntryHi PROVE IInv'
<1>1. /\ pc = "pins" /\ machine' = machine /\ io_apics' = io_apics
      /\ r' = r /\ t' = t /\ e' = e /\ hi' = FALSE
  BY DEF SetEntryHi, tables
<1>2. a \in Nat /\ a >= 1 /\ Len(io_apics) \in Nat /\ TypeOK /\ Listed /\ a \in 1 .. Len(io_apics)
  BY <1>1 DEF IInv, TypeOK, Listed, AtPin
<1>3. PICK z : z = io_apics[a].addr
  OBVIOUS
<1>4. PICK p : p = i
  OBVIOUS
<1>5. p \in Pins(z) /\ z \in DOMAIN machine.hw
  BY <1>1, <1>2, <1>3, <1>4, ApicFacts DEF IInv, AtPin
<1>6. /\ p \in Nat /\ p <= 127 /\ p <= machine.hw[z].max /\ machine.hw[z].max \in Nat
      /\ REDTBL + 2 * p + 1 \in Registers(machine.hw[z]) /\ REDTBL + 2 * p + 1 \notin {ID, VER}
  BY <1>2, <1>5, PinRegisters
<1>7. PICK n : n = REDTBL + 2 * p + 1
  OBVIOUS
<1>8. regs' = [regs EXCEPT ![z][n] = 0]
  <2>1. REDTBL + u8(i * 2 + 1) = n
    BY <1>4, <1>6, <1>7 DEF u8, REDTBL
  <2>2. u8(0) = 0
    BY DEF u8
  <2>3. apic.addr = z
    BY <1>3 DEF apic
  <2>4. regs' = [regs EXCEPT ![apic.addr][REDTBL + u8(i * 2 + 1)] = u8(0)]
    BY DEF SetEntryHi, Write
  <2> QED BY <2>1, <2>2, <2>3, <2>4, Zenon
<1>9. /\ DOMAIN regs' = DOMAIN machine.hw
      /\ \A y \in DOMAIN machine.hw : DOMAIN regs'[y] = Registers(machine.hw[y])
      /\ regs'[z][n] = 0
      /\ \A y \in DOMAIN machine.hw : \A m \in Registers(machine.hw[y]) :
           y # z \/ m # n => regs'[y][m] = regs[y][m]
  <2>1. n \in Registers(machine.hw[z])
    BY <1>6, <1>7
  <2> QED BY <1>1, <1>2, <1>5, <1>8, <2>1, WriteFacts
<1>10. \/ p = machine.hw[z].max /\ a' = a + 1 /\ pc' = "id" /\ i' = i
       \/ p # machine.hw[z].max /\ a' = a /\ pc' = "pins" /\ i' = i + 1
  <2>1. max_value = machine.hw[z].max
    BY <1>2, <1>3, <1>5, MaxValue DEF max_value, Read, apic
  <2>2. CASE LastPin
    <3>1. a' = a + 1 /\ pc' = "id" /\ i' = i
      BY <2>2 DEF SetEntryHi
    <3>2. p = machine.hw[z].max
      BY <1>4, <2>1, <2>2 DEF LastPin
    <3> QED BY <3>1, <3>2
  <2>3. CASE ~LastPin
    <3>1. a' = a /\ pc' = pc /\ i' = i + 1
      BY <2>3 DEF SetEntryHi
    <3>2. p # machine.hw[z].max
      BY <1>4, <2>1, <2>3 DEF LastPin
    <3> QED BY <1>1, <3>1, <3>2
  <2> QED BY <2>2, <2>3
<1>11. TypeOK'
  <2>1. \A y \in DOMAIN machine.hw : VER \in Registers(machine.hw[y])
    BY DEF Registers
  <2>2. hi' \in BOOLEAN /\ n # VER
    BY <1>1, <1>6, <1>7, Zenon
  <2>3. \A y \in DOMAIN machine.hw : regs'[y][VER] = Version(machine.hw[y])
    BY <1>2, <1>9, <2>1, <2>2 DEF TypeOK
  <2>4. a' \in Nat /\ a' >= 1 /\ i' \in Nat /\ pc' \in Pcs
    BY <1>2, <1>4, <1>6, <1>10 DEF Pcs
  <2> QED BY <1>1, <1>2, <1>9, <2>2, <2>3, <2>4 DEF TypeOK
<1>12. Listed' /\ Found' /\ Start'
  BY <1>1, <1>10 DEF IInv, Listed, Found, Start, Entries
<1>13. AtPin'
  <2>1. p + 1 \in 0 .. machine.hw[z].max \/ p = machine.hw[z].max
    BY <1>6
  <2> QED BY <1>1, <1>2, <1>3, <1>4, <1>10, <2>1 DEF AtPin, Pins
<1>14. \A y \in DOMAIN machine.hw : \A q \in Pins(y) :
         /\ regs'[y][REDTBL + 2 * q] = regs[y][REDTBL + 2 * q]
         /\ y # z \/ q # p => regs'[y][REDTBL + 2 * q + 1] = regs[y][REDTBL + 2 * q + 1]
  <2> SUFFICES ASSUME NEW y \in DOMAIN machine.hw, NEW q \in Pins(y)
               PROVE  /\ regs'[y][REDTBL + 2 * q] = regs[y][REDTBL + 2 * q]
                      /\ y # z \/ q # p => regs'[y][REDTBL + 2 * q + 1] = regs[y][REDTBL + 2 * q + 1]
    OBVIOUS
  <2>1. /\ REDTBL + 2 * q \in Registers(machine.hw[y])
        /\ REDTBL + 2 * q + 1 \in Registers(machine.hw[y])
    BY <1>2, PinRegisters
  <2>2. /\ y = z => REDTBL + 2 * q # n
        /\ y = z /\ q # p => REDTBL + 2 * q + 1 # n
    BY <1>2, <1>5, <1>7, PinRegisters
  <2> QED BY <1>9, <2>1, <2>2
<1>15. Wired'
  BY <1>1, <1>10, <1>14 DEF IInv, Wired, Lo, Pins, Entries
<1>16. Routed'
  <2> SUFFICES ASSUME NEW m \in 1 .. Len(io_apics), NEW q \in Pins(io_apics[m].addr), Through(m, q)'
               PROVE  (LoSet(m, q) /\ HiSet(m, q))'
    BY <1>1 DEF Routed, Pins
  <2>1. io_apics[m].addr \in DOMAIN machine.hw
    BY <1>2, ApicFacts
  <2>2. q \in Nat /\ q <= machine.hw[io_apics[m].addr].max /\ machine.hw[io_apics[m].addr].max \in Nat
    BY <1>2, <2>1, PinRegisters
  <2>3. Through(m, q) \/ (m = a /\ q = p)
    BY <1>1, <1>2, <1>3, <1>4, <1>6, <1>10, <2>2 DEF Through
  <2>4. /\ LoSet(m, q)
        /\ HiSet(m, q) \/ (m = a /\ q = p)
    <3>1. Through(m, q) => LoSet(m, q) /\ HiSet(m, q)
      BY DEF IInv, Routed
    <3>2. m = a /\ q = p => LoSet(m, q)
      BY <1>1, <1>4 DEF IInv, Routed, SetEntryHi
    <3> QED BY <2>3, <3>1, <3>2
  <2>5. LoSet(m, q)'
    BY <1>1, <1>14, <2>1, <2>4 DEF LoSet, Lo
  <2>6. CASE io_apics[m].addr = z /\ q = p
    <3>1. HiSet(m, q)'
      BY <1>1, <1>7, <1>9, <2>6 DEF HiSet
    <3> QED BY <2>5, <3>1
  <2>7. CASE ~(io_apics[m].addr = z /\ q = p)
    <3>1. HiSet(m, q)
      BY <1>3, <2>4, <2>7
    <3>2. HiSet(m, q)'
      BY <1>1, <1>14, <2>1, <2>7, <3>1 DEF HiSet
    <3> QED BY <2>5, <3>2
  <2> QED BY <2>6, <2>7
<1> QED BY <1>11, <1>12, <1>13, <1>15, <1>16 DEF IInv

\* From the loop over the IO APICs to the enabled interrupts: no register is written.
LEMMA FinishInv == ASSUME IInv, IoApicsDone \/ PickBase \/ Setup PROVE IInv'
<1>1. /\ machine' = machine /\ regs' = regs /\ io_apics' = io_apics
      /\ r' = r /\ t' = t /\ e' = e /\ i' = i /\ hi' = hi /\ pc' \in {"base", "running", "panic"}
  <2>1. CASE IoApicsDone
    BY <2>1 DEF IoApicsDone, tables
  <2>2. CASE PickBase
    BY <2>2 DEF PickBase, tables
  <2>3. CASE Setup
    BY <2>3 DEF Setup, tables, program
  <2> QED BY <2>1, <2>2, <2>3
<1>2. a' \in Nat /\ a' >= 1
  BY DEF IInv, TypeOK, IoApicsDone, PickBase, Setup, program
<1>3. /\ pc = "base" \/ (pc = "id" /\ \A n \in 1 .. Len(io_apics) : n < a)
      /\ a \in Nat /\ Len(io_apics) \in Nat
  BY DEF IInv, TypeOK, Listed, IoApicsDone, PickBase, Setup
<1>4. TypeOK'
  BY <1>1, <1>2 DEF IInv, TypeOK, Pcs
<1>5. Listed' /\ Found' /\ Start' /\ AtPin'
  BY <1>1, <1>3 DEF IInv, Listed, Found, Start, Entries, AtPin
<1>6. Wired'
  BY <1>1, <1>3 DEF IInv, Wired, Lo, Pins, Entries
<1>7. Routed'
  <2> SUFFICES ASSUME NEW m \in 1 .. Len(io_apics), NEW q \in Pins(io_apics[m].addr)
               PROVE  (LoSet(m, q) /\ HiSet(m, q))'
    BY <1>1 DEF Routed, Pins
  <2>1. Through(m, q)
    BY <1>3 DEF Through
  <2> QED BY <1>1, <2>1 DEF IInv, Routed, LoSet, HiSet, Lo
<1> QED BY <1>4, <1>5, <1>6, <1>7 DEF IInv

LEMMA NextIInv == ASSUME IInv, [Next]_vars PROVE IInv'
<1>1. CASE UNCHANGED vars
  BY <1>1 DEF vars, tables, program, vectors, IInv, TypeOK, Start, Listed, Found, Passed, Wired, Routed,
              Through, LoSet, HiSet, Lo, AtPin, Pins, Entries
<1>2. CASE Next
  BY <1>2, AssertionFailsInv, ScanRsdpInv, ParseEntryInv, NextTableInv, ParsedInv, InitIdInv, SetEntryLoInv,
     SetEntryHiInv, FinishInv DEF Next
<1> QED BY <1>1, <1>2

\* The invariant behind the two theorems: what the parser has passed is attached,
\* and what IoApic::Init is through with is routed.
THEOREM Inductive == Spec => []IInv
<1>1. Init => IInv
  BY InitIInv
<1>2. IInv /\ [Next]_vars => IInv'
  BY NextIInv
<1> QED BY <1>1, <1>2, PTL DEF Spec

-----------------------------------------------------------------------------
(* Properties *)

\* What a live pin's vector is: that of its own global interrupt.
LEMMA LiveFacts ==
  ASSUME IInv, NEW s \in Live
  PROVE  \E x \in Entries : /\ x.addr = s[1] /\ s[2] \in Pins(s[1])
                            /\ Vector(Lo(s[1], s[2])) = 32 + x.gsi + s[2]
<1>1. PICK z : z = s[1]
  OBVIOUS
<1>2. PICK p : p = s[2]
  OBVIOUS
<1>3. z \in DOMAIN machine.hw /\ p \in Pins(z) /\ ~Masked(Lo(z, p))
  BY <1>1, <1>2 DEF Live
<1>4. Masked(kIntMasked)
  BY SMT DEF Masked, kIntMasked
<1>5. PICK x \in Entries : x.addr = z /\ Lo(z, p) = kIRQOffset + x.gsi + p
  BY <1>3, <1>4 DEF IInv, Wired
<1>6. x.gsi \in Nat /\ x.gsi + p < 224 /\ p \in Nat
  BY <1>3, <1>5, EntryFacts, PinRegisters DEF IInv, TypeOK
<1>7. Vector(Lo(z, p)) = 32 + x.gsi + p
  <2>1. PICK v : v = kIRQOffset + x.gsi + p
    OBVIOUS
  <2>2. v \in Nat /\ v < 256 /\ v = 32 + x.gsi + p
    BY <1>6, <2>1 DEF kIRQOffset
  <2>3. Vector(v) = v
    BY <2>2 DEF Vector
  <2>4. Lo(z, p) = v
    BY <1>5, <2>1
  <2> QED BY <2>2, <2>3, <2>4
<1> QED BY <1>1, <1>2, <1>3, <1>5, <1>7

\* Also while the tables are being programmed, two pins that can interrupt have
\* vectors of their own above the exceptions, on every machine (IoApic::Init).
THEOREM AlwaysDistinct == Spec => []VectorsDistinct
<1>1. ASSUME IInv
      PROVE  VectorsDistinct
  <2>1. ASSUME NEW s \in Live
        PROVE  Vector(Lo(s[1], s[2])) >= 32
    <3>1. PICK x \in Entries : /\ x.addr = s[1] /\ s[2] \in Pins(s[1])
                               /\ Vector(Lo(s[1], s[2])) = 32 + x.gsi + s[2]
      BY <1>1, LiveFacts
    <3>2. x.gsi \in Nat /\ s[2] \in Nat
      BY <1>1, <3>1, EntryFacts DEF IInv, TypeOK, Pins
    <3> QED BY <3>1, <3>2
  <2>2. ASSUME NEW s \in Live, NEW u \in Live, s # u
        PROVE  Vector(Lo(s[1], s[2])) # Vector(Lo(u[1], u[2]))
    <3>1. PICK x \in Entries : /\ x.addr = s[1] /\ s[2] \in Pins(s[1])
                               /\ Vector(Lo(s[1], s[2])) = 32 + x.gsi + s[2]
      BY <1>1, LiveFacts
    <3>2. PICK y \in Entries : /\ y.addr = u[1] /\ u[2] \in Pins(u[1])
                               /\ Vector(Lo(u[1], u[2])) = 32 + y.gsi + u[2]
      BY <1>1, LiveFacts
    <3>3. x.gsi \in Nat /\ s[2] \in Nat /\ y.gsi \in Nat /\ u[2] \in Nat
      BY <1>1, <3>1, <3>2, EntryFacts DEF IInv, TypeOK, Pins
    <3>4. x.gsi + s[2] # y.gsi + u[2]
      <4>1. CASE x = y
        <5>1. s[1] = u[1]
          BY <3>1, <3>2, <4>1
        <5>2. s = <<s[1], s[2]>> /\ u = <<u[1], u[2]>>
          BY DEF Live
        <5>3. s[2] # u[2]
          BY <2>2, <5>1, <5>2
        <5> QED BY <3>3, <4>1, <5>3
      <4>2. CASE x # y
        BY <1>1, <3>1, <3>2, <4>2, EntryFacts DEF IInv, TypeOK
      <4> QED BY <4>1, <4>2
    <3>5. 32 + x.gsi + s[2] # 32 + y.gsi + u[2]
      <4>1. \A k, l, m, n \in Nat : k + l # m + n => 32 + k + l # 32 + m + n
        OBVIOUS
      <4> QED BY <3>3, <3>4, <4>1
    <3>6. Vector(Lo(s[1], s[2])) = 32 + x.gsi + s[2] /\ Vector(Lo(u[1], u[2])) = 32 + y.gsi + u[2]
      BY <3>1, <3>2
    <3> QED BY <3>5, <3>6
  <2> QED BY <2>1, <2>2 DEF VectorsDistinct
<1> QED BY <1>1, Inductive, PTL

\* When interrupts are enabled, every pin of every IO APIC in the MADT has the
\* vector of its global interrupt, on every machine (Acpi::Init, IoApic::Init).
THEOREM AlwaysRouted == Spec => []RoutedByGsi
<1>1. ASSUME IInv
      PROVE  RoutedByGsi
  <2> SUFFICES ASSUME pc = "running", NEW x \in IoApicEntries(machine.rsdps[r]), NEW p \in Pins(x.addr)
               PROVE  /\ ~Masked(Lo(x.addr, p))
                      /\ Vector(Lo(x.addr, p)) = kIRQOffset + x.gsi + p
                      /\ regs[x.addr][REDTBL + 2 * p + 1] = 0
    BY DEF RoutedByGsi
  <2>1. x \in Entries
    BY <1>1 DEF IInv, Listed, Entries
  <2>2. PICK n \in 1 .. Len(io_apics) : io_apics[n] = Attached(x)
    BY <1>1, <2>1 DEF IInv, Found
  <2>3. io_apics[n].addr = x.addr /\ io_apics[n].base = x.gsi
    BY <2>2 DEF Attached
  <2>4. LoSet(n, p) /\ HiSet(n, p)
    BY <1>1, <2>3 DEF IInv, Routed, Through
  <2>5. Lo(x.addr, p) = kIRQOffset + x.gsi + p /\ regs[x.addr][REDTBL + 2 * p + 1] = 0
    BY <2>3, <2>4 DEF LoSet, HiSet
  <2>6. x.gsi \in Nat /\ x.gsi + p < 224 /\ p \in Nat
    BY <1>1, <2>1, EntryFacts DEF IInv, TypeOK, Pins
  <2>7. PICK v : v = kIRQOffset + x.gsi + p
    OBVIOUS
  <2>8. v \in Nat /\ v < 256
    BY <2>6, <2>7 DEF kIRQOffset
  <2>9. ~Masked(v) /\ Vector(v) = v
    BY <2>8, SMT DEF Masked, Vector
  <2> QED BY <2>5, <2>7, <2>9
<1> QED BY <1>1, Inductive, PTL
=============================================================================
