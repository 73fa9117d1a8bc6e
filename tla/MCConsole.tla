------------------------------ MODULE MCConsole -------------------------------
(***************************************************************************)
(* The console of a primary and of a secondary node.                       *)
(***************************************************************************)
EXTENDS Console
=============================================================================
