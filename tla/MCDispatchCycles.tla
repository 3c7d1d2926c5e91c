--------------------------- MODULE MCDispatchCycles ---------------------------
(* Instances of DispatchCycles for TLC. *)
EXTENDS DispatchCycles, MCRepos
===============================================================================
