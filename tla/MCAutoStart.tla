---------------------------- MODULE MCAutoStart ----------------------------
(***************************************************************************)
(* Instances of AutoStart for TLC.                                         *)
(***************************************************************************)
EXTENDS AutoStart

CONSTANTS functional, stress
=============================================================================
