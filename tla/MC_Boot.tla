------------------------------ MODULE MC_Boot -------------------------------
(* Tables of four entries: 64 pages, of which 16 make a huge page.  Low    *)
(* memory that may end inside a page, a hole behind it, the memory of the  *)
(* kernel, which ends in the first, second or third huge page, memory of   *)
(* the firmware that may begin inside a page, and more memory, in three    *)
(* orders; the highest may end inside a page, and there may be reserved    *)
(* memory beyond what the tables can map.  An older memory map or tags of  *)
(* other kinds may come before.  The devices are a page of the hole and    *)
(* two above the memory.  MC_Boot_Unaligned.cfg has memory that begins     *)
(* inside a page.                                                          *)
EXTENDS Boot

\* From and to in quarter pages.
Entry(lo, hi, t) == [addr |-> 4 * lo, len |-> 4 * (hi - lo), type |-> t]
MMap(entries) == [type |-> "mmap", entries |-> entries]
Other(t) == [type |-> t, entries |-> << >>]

Map(o, l, h, k, f, s) ==
  LET low  == Entry(0, l, "available")
      hole == Entry(l, h, "reserved")
      kern == Entry(8, k, "available")
      fw   == Entry(k + f, k + 4, IF f = 0 THEN "acpi" ELSE "bad")
      high == Entry(k + 4, k + 4 + s, "available")
  IN  CASE o = 1 -> <<low, hole, kern, fw, high>>
        [] o = 2 -> <<high, low, kern, hole, fw>>
        [] o = 3 -> <<fw, kern, high, hole, low>>

Maps ==
  {Map(o, 4, h, k, f, s) :
     o \in 1 .. 3, h \in {6, 8}, k \in {56, 60, 92, 132}, f \in {0, 1}, s \in {8, 18, 68}}

Older == <<Other("vbe"), MMap(<<Entry(0, 20, "available")>>), Other("framebuffer")>>
Beyond == Entry(256, 260, "reserved")

MCInfos ==
  {<<MMap(m)>> : m \in Maps}
    \cup {Older \o <<MMap(Map(1, 3, 8, 92, f, 96)), Other("other")>> : f \in {0, 1}}
    \cup {<<MMap(Append(Map(1, 4, 8, 60, 0, 8), Beyond))>>}

\* The memory of the kernel begins a quarter into a page.
MCUnaligned ==
  {<<MMap(<<Entry(0, 4, "available"), Entry(4, 9, "reserved"), Entry(9, 60, "available"),
            Entry(60, 64, "acpi"), Entry(64, 64 + s, "available")>>)>> : s \in {4, 8, 18}}

MCDevices == {1, 62, 63}
=============================================================================
