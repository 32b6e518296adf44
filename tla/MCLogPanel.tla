----------------------------- MODULE MCLogPanel -----------------------------
(***************************************************************************)
(* Instances of LogPanel for TLC.                                          *)
(***************************************************************************)
EXTENDS LogPanel
=============================================================================
