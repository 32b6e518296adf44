----------------------------- MODULE MCSensors -----------------------------
(***************************************************************************)
(* Two metrics in a table that has to grow for the second one, and one    *)
(* crash anywhere.                                                         *)
(***************************************************************************)
EXTENDS Sensors

MCFields == {"type", "name", "flag"}
=============================================================================
