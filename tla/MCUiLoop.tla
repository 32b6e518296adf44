------------------------------ MODULE MCUiLoop ------------------------------
(***************************************************************************)
(* Instances of UiLoop for TLC: the program's three kinds of worker.       *)
(***************************************************************************)
EXTENDS UiLoop

CONSTANTS exec, sensor, timer
=============================================================================
