--------------------------- MODULE MCDialogCall ---------------------------
(***************************************************************************)
(* Instances of DialogCall for TLC.                                        *)
(***************************************************************************)
EXTENDS DialogCall
=============================================================================
