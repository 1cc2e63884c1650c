----------------------------- MODULE MCWatchdog -----------------------------
(***************************************************************************)
(* Watchdog with the proportions of the code: the grace as long as the     *)
(* interval between two looks, a rendering shorter, a playing longer.      *)
(***************************************************************************)
EXTENDS Watchdog
=============================================================================
