----------------------------- MODULE MCPrograms -----------------------------
(***************************************************************************)
(* Two cores with two computations, two rounds of the memory, two turns of *)
(* dd with two lines each, three pings.                                    *)
(***************************************************************************)
EXTENDS Programs
=============================================================================
