----------------------------- MODULE MCLogLock -----------------------------
(***************************************************************************)
(* Instances of LogLock for TLC: the two threads that log.                 *)
(***************************************************************************)
EXTENDS LogLock

CONSTANTS exec, sensor
=============================================================================
