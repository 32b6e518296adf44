----------------------------- MODULE MCTestExec -----------------------------
(***************************************************************************)
(* Instances of TestExec for TLC.                                          *)
(***************************************************************************)
EXTENDS TestExec
=============================================================================
