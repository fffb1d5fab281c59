---------------------------- MODULE MC_MemPages ----------------------------
(* Six page structs; page 3 is not usable and splits the rest, and the     *)
(* memory map lists the higher range first, so list order and address      *)
(* order differ from the start.                                            *)
EXTENDS MemPages

MCBootPages == <<4, 5, 0, 1, 2>>
=============================================================================
