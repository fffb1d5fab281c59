---------------------------- MODULE MC_Library ------------------------------
(* Either vectors are used or the console is.                              *)
(*                                                                         *)
(* Two vectors of up to three elements that grow from one: insertions and  *)
(* removals everywhere, moves before and after growing.                    *)
(*                                                                         *)
(* KernelMain and the wrappers print all kinds of directives: numbers of   *)
(* one to three digits, some cut off at an unsigned int of 8 bits, and a   *)
(* conversion that is not known, as in the wrapper's own format.  At most  *)
(* three interrupts: an NMI inside an irq's wrapper, inside KernelMain, or *)
(* one after the other.                                                    *)
EXTENDS Vector, Console

D(c, l, arg) == [c |-> c, l |-> l, arg |-> arg]

MCCalls ==
  [main |-> <<<<D("lit", 0, 87), D("u", 0, 300), D("s", 0, <<105>>)>>>>,
   irq  |-> <<<<D("x", 1, 698), D("?", 0, 0)>>, <<D("c", 0, 10)>>>>,
   nmi  |-> <<<<D("x", 2, 0), D("d", 0, 259)>>>>]

VARIABLE part   \* which of the two is watched

all == <<part, vars, vector_vars>>

\* For the console one initial state of the vectors is enough.
MCInit ==
  /\ Init /\ VectorInit
  /\ \/ part = "vectors"
     \/ part = "console" /\ exists = {CHOOSE v \in Vectors : TRUE}

ConsoleStep(A) == part = "console" /\ A /\ UNCHANGED <<part, vector_vars>>

MCNext ==
  \/ part = "vectors" /\ VectorNext /\ UNCHANGED <<part, vars>>
  \/ ConsoleStep(Next)

MCSpec == MCInit /\ [][MCNext]_all /\ WF_all(ConsoleStep(Cpu))
=============================================================================
