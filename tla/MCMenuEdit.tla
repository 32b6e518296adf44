---------------------------- MODULE MCMenuEdit ----------------------------
(***************************************************************************)
(* An instance of MenuEdit for TLC: the settings, and a name to save them  *)
(* as.                                                                     *)
(***************************************************************************)
EXTENDS MenuEdit

CONSTANTS settings, copy
=============================================================================
