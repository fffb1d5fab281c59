----------------------------- MODULE Interrupts -----------------------------
(***************************************************************************)
(* kern/irqs.{h,cc} with the end of KernelMain: the gates of the IDT, the  *)
(* chains of handlers, and interrupts arriving at the one CPU while it     *)
(* boots, installs a handler, or runs the handlers of another interrupt.   *)
(*                                                                         *)
(* The wrapper's frames on the stack are a sequence, the running one last. *)
(* Saving and restoring the registers is taken for granted; exceptions are *)
(* not raised.  Devices raise interrupts from the start: the IO APICs were *)
(* programmed before Setup.                                                *)
(***************************************************************************)
EXTENDS Integers, Sequences, SequencesExt

CONSTANTS Device,      \* the vectors devices raise
          Handler,     \* the IrqHandlers drivers install
          MaxEvents    \* bound: interrupts raised, of all kinds

kMaxInterrupt == 256
NMI == 2
SPURIOUS == 255
NULL == "null"
Wild == "wild"         \* a pointer to no handler

ASSUME InterruptsAssumption ==
  /\ Device \subseteq 32 .. (SPURIOUS - 1)
  /\ {NULL, Wild} \cap Handler = {}
  /\ MaxEvents \in Nat

VARIABLES pc,          \* of KernelMain: setup, gates, lidt, sti, idle
          gates,       \* gates installed: the vectors below
          iflag,       \* the CPU's interrupt flag
          irr, isr,    \* vectors requested and in service, in the local APIC
          frames,      \* of InterruptWrapper: [vec, p, ran, eoi, iflag]
          handlers, next,
          new,         \* the handler being installed: [vec, h], h NULL if none
          installed,   \* the handlers installed, by vector, in order
          events       \* counts up to MaxEvents

apic == <<irr, isr>>
chains == <<handlers, next, new, installed>>
vars == <<pc, gates, iflag, apic, frames, chains, events>>

Vec == Device \cup {0, 1, NMI, SPURIOUS}
NoNew == [vec |-> 0, h |-> NULL]

Init ==
  /\ pc = "setup" /\ gates = 0 /\ iflag = FALSE
  /\ irr = {} /\ isr = {} /\ frames = << >>
  /\ handlers = [v \in Vec |-> NULL] /\ next = [h \in Handler |-> NULL]
  /\ new = NoNew /\ installed = [v \in Vec |-> << >>] /\ events = 0

-----------------------------------------------------------------------------
(* KernelMain, when no interrupt is being handled.                         *)

Main(from, to) == frames = << >> /\ pc = from /\ pc' = to

\* Setup up to the gates.  memset clears the first pointer only; the last
\* entry of gExceptionIrq is stored past the end of gIsInterruptException, into
\* whatever the linker put there: padding, or handlers[1] of the static vec.
Setup ==
  /\ Main("setup", "gates")
  /\ \E hit \in {handlers[1], Wild} :
       handlers' = [handlers EXCEPT ![0] = NULL, ![1] = hit]
  /\ UNCHANGED <<gates, iflag, apic, frames, next, new, installed, events>>

\* HandlerInstaller<0xFF>: the gates from 0 up, then Setup goes on.
HandlerInstaller == Main("gates", IF gates + 1 = kMaxInterrupt THEN "lidt" ELSE "gates")

\* One gate, as a whole: no vector is used before the lidt.
InstallIrqFunction ==
  /\ HandlerInstaller
  /\ gates' = gates + 1
  /\ UNCHANGED <<iflag, apic, frames, chains, events>>

\* The end of Setup: the CPU uses the gates from here on.  (The operands of the
\* mov before it are taken the way they are meant.)
LoadIdt ==
  /\ Main("lidt", "sti")
  /\ UNCHANGED <<gates, iflag, apic, frames, chains, events>>

EnableInterrupts ==
  /\ Main("sti", "idle")
  /\ iflag' = TRUE
  /\ UNCHANGED <<gates, apic, frames, chains, events>>

\* A driver passes a handler of its own, on no chain yet.
Fresh(h) == new = NoNew /\ \A v \in Vec : h \notin ToSet(installed[v])

\* InstallChainHandler: p->next = handlers[irq_number], then the head.
LinkNext(v, h) ==
  /\ Main("idle", "idle") /\ Fresh(h)
  /\ new' = [vec |-> v, h |-> h]
  /\ next' = [next EXCEPT ![h] = handlers[v]]
  /\ UNCHANGED <<gates, iflag, apic, frames, handlers, installed, events>>

LinkHead ==
  /\ Main("idle", "idle") /\ new # NoNew
  /\ handlers' = [handlers EXCEPT ![new.vec] = new.h]
  /\ installed' = [installed EXCEPT ![new.vec] = Append(@, new.h)]
  /\ new' = NoNew
  /\ UNCHANGED <<gates, iflag, apic, frames, next, events>>

\* The two stores the other way round: the head first, then p->next.
SwappedStores ==
  /\ Main("idle", "idle")
  /\ \/ \E v \in Vec \ {0, 1}, h \in Handler :
          /\ Fresh(h)
          /\ new' = [vec |-> v, h |-> h]
          /\ handlers' = [handlers EXCEPT ![v] = h]
          /\ UNCHANGED <<next, installed>>
     \/ /\ new # NoNew /\ new' = NoNew
        /\ installed' = [installed EXCEPT ![new.vec] = Append(@, new.h)]
        /\ next' = [next EXCEPT ![new.h] =
             IF installed[new.vec] = << >> THEN NULL ELSE Last(installed[new.vec])]
        /\ UNCHANGED handlers
  /\ UNCHANGED <<gates, iflag, apic, frames, events>>

InstallChainHandler ==
  \/ \E v \in Vec \ {0, 1}, h \in Handler : LinkNext(v, h)
  \/ LinkHead

-----------------------------------------------------------------------------
(* The local APIC and the CPU.                                             *)

Class(v) == v \div 16

Event == events < MaxEvents /\ events' = events + 1

Raise(v) ==
  /\ Event
  /\ irr' = irr \cup {v}
  /\ UNCHANGED <<pc, gates, iflag, isr, frames, chains>>

\* The type of the gates InstallIrqFunction writes by default, and one that
\* leaves interrupts on.
TrapGate == 143
type == 142

\* Through an interrupt gate the CPU clears the flag, and iretq restores it.
Enter(v) ==
  /\ frames' = Append(frames, [vec |-> v, p |-> handlers[v], ran |-> << >>,
                               eoi |-> FALSE, iflag |-> iflag])
  /\ iflag' = (iflag /\ type % 16 # 14)

\* The APIC offers the highest request, if its class is above what is in service.
Deliver(v) ==
  /\ iflag /\ v \in irr /\ \A u \in irr : u <= v
  /\ \A u \in isr : Class(u) < Class(v)
  /\ irr' = irr \ {v} /\ isr' = isr \cup {v}
  /\ Enter(v)
  /\ UNCHANGED <<pc, gates, chains, events>>

\* The spurious vector is not put in service.
Spurious ==
  /\ Event /\ iflag /\ Enter(SPURIOUS)
  /\ UNCHANGED <<pc, gates, apic, chains>>

\* An NMI ignores the flag; another waits for the iretq of its handler.  IoApic::Init
\* and InitCpu mask the pins it comes from; one sent as a message still arrives.
\* Before the lidt the CPU has no table to take it through and resets, whatever
\* Setup has written by then: such a run has no further step.
Nmi ==
  /\ Event /\ pc \in {"sti", "idle"}
  /\ \A k \in DOMAIN frames : frames[k].vec # NMI
  /\ Enter(NMI)
  /\ UNCHANGED <<pc, gates, apic, chains>>

-----------------------------------------------------------------------------
(* InterruptWrapper, in the running frame.                                 *)

Top == Last(frames)
Return(f) == frames' = Append(Front(frames), f)

\* InvokeChainHandlers: p->Run(f, saved_ctx); p = p->next.
Run ==
  /\ frames # << >> /\ Top.p # NULL
  /\ Return([Top EXCEPT !.ran = Append(@, Top.p), !.p = next[Top.p]])
  /\ UNCHANGED <<pc, gates, iflag, apic, chains, events>>

\* Whatever the vector: the APIC takes the highest vector out of service.
EOI ==
  /\ frames # << >> /\ Top.p = NULL /\ ~Top.eoi
  /\ Return([Top EXCEPT !.eoi = TRUE])
  /\ isr' = {u \in isr : \E w \in isr : u < w}
  /\ UNCHANGED <<pc, gates, iflag, irr, chains, events>>

\* A return that leaves the flag as the gate set it.
RetKeepsFlag ==
  /\ frames # << >> /\ Top.eoi
  /\ frames' = Front(frames)
  /\ UNCHANGED <<pc, gates, iflag, apic, chains, events>>

Iretq ==
  /\ frames # << >> /\ Top.eoi
  /\ frames' = Front(frames)
  /\ iflag' = Top.iflag
  /\ UNCHANGED <<pc, gates, apic, chains, events>>

InterruptWrapper == Run \/ EOI \/ Iretq

Cpu ==
  \/ Setup
  \/ InstallIrqFunction
  \/ LoadIdt
  \/ EnableInterrupts
  \/ InstallChainHandler
  \/ \E v \in Device : Deliver(v)
  \/ InterruptWrapper

Next ==
  \/ Cpu
  \/ \E v \in Device : Raise(v)
  \/ Spurious
  \/ Nmi

\* The CPU executes instructions for ever; devices owe it nothing.
Spec == Init /\ [][Next]_vars /\ WF_vars(Cpu)

-----------------------------------------------------------------------------
(* Properties.                                                             *)

\* An interrupt, pending perhaps from before Setup, goes through a gate that
\* InstallIrqFunction has written, and when its chain has been walked, every handler
\* installed for the vector has run exactly once, the last one installed first,
\* also if the interrupt came between the two stores of InstallChainHandler.
ChainRun ==
  \A k \in DOMAIN frames :
    /\ frames[k].vec < gates
    /\ frames[k].p = NULL => frames[k].ran = Reverse(installed[frames[k].vec])

\* No handler is interrupted by a second instance of itself, although the
\* wrapper of an NMI takes the interrupt below it out of service too early.
NotReentrant ==
  \A j, k \in DOMAIN frames : j # k => frames[j].vec # frames[k].vec

\* A requested interrupt is eventually handled: EOI makes way for it.
Served == \A v \in Device : v \in irr ~> \E k \in DOMAIN frames : frames[k].vec = v
=============================================================================
