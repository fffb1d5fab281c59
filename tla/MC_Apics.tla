----------------------------- MODULE MC_Apics -------------------------------
(* kern/apic.cc: either ACPI's tables are parsed and the IO APICs are      *)
(* programmed, or InitCpu calibrates the local APIC's timer.               *)
(*                                                                         *)
(* Machines with a refused RSDP candidate or none, without the address of  *)
(* the RSDT or of the local APIC, a foreign table before the MADT or not,  *)
(* no IO APIC, one, or two in either order, the ids right or in need of a  *)
(* patch, an IO APIC of one pin, and a CPU entry.                          *)
(*                                                                         *)
(* The timer with a u32 of 8 bits: the product of the fastest rate still   *)
(* fits with pauses of two units, and no longer does with pauses of four.  *)
(* A second is two calibrations; the slowest rate gets the minimum count,  *)
(* the others more.  In MC_Apics_Stopped.cfg a pause may be longer than a  *)
(* period of the timer, six units.                                         *)
EXTENDS ApicInit, ApicTimer

Header(addr) == [type |-> "MADT", localApicAddr |-> addr]
Cpu == [type |-> "LOCAL_APIC"]
Other == [type |-> "INTERRUPT_OVERRIDE"]
Io(id, addr, gsi) == [type |-> "IO_APIC", id |-> id, addr |-> addr, gsi |-> gsi]

Madts ==
  {<<Cpu, Io(1, "x", 0), Other>>, <<Io(1, "x", 0), Io(2, "y", 24)>>,
   <<Io(2, "y", 24), Cpu, Io(1, "x", 0)>>, <<Io(2, "y", 30), Io(1, "x", 26)>>, <<Cpu>>}

MCMachines ==
  {[rsdps |-> bad \o <<[sum |-> 0, rev |-> rev, rsdt_addr |-> rsdt,
                      tables |-> before \o << <<Header(lapic)>> \o madt>>]>>,
    hw |-> [x \in {"x", "y"} |-> [id |-> hwid, max |-> IF x = "x" THEN pins ELSE 2]]] :
     bad \in {<< >>, <<[sum |-> 1, rev |-> 0, rsdt_addr |-> 0, tables |-> << >>]>>},
     rev \in {0, 1, 2}, before \in {<< >>, << << >> >>}, madt \in Madts,
     hwid \in {1, 2}, pins \in {0, 3}, rsdt \in {0, 1}, lapic \in {0, 1}}

VARIABLE part   \* which of the two is watched

all == <<part, vars, timer_vars>>

\* What is not watched has one initial state.
MCInit ==
  /\ Init /\ TimerInit
  /\ \/ part = "Acpi" /\ rate = CHOOSE x \in Rates : TRUE
     \/ part = "InitCpu" /\ machine = CHOOSE m \in Machines : TRUE

InitCpuStep(A) == part = "InitCpu" /\ A /\ UNCHANGED <<part, vars>>

MCNext ==
  \/ part = "Acpi" /\ Next /\ UNCHANGED <<part, timer_vars>>
  \/ InitCpuStep(TimerNext)

MCSpec ==
  /\ MCInit /\ [][MCNext]_all
  /\ WF_all(InitCpuStep(InitCpu)) /\ WF_all(InitCpuStep(Tick))
=============================================================================
