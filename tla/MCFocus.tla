------------------------------ MODULE MCFocus ------------------------------
(***************************************************************************)
(* An instance of Focus for TLC: a known device with the editor, and an    *)
(* unknown one without it.                                                 *)
(***************************************************************************)
EXTENDS Focus

MCStarts == {<<FALSE, "hello">>, <<TRUE, "program">>}
=============================================================================
