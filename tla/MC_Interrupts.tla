--------------------------- MODULE MC_Interrupts ---------------------------
(* Two devices of one priority class and one of a higher class, two        *)
(* handlers, and the interrupts in every order with an NMI or a spurious   *)
(* one among them.                                                         *)
EXTENDS Interrupts
=============================================================================
