----------------------------- MODULE MCRunBuffer ------------------------------
(***************************************************************************)
(* Small instances of RunBuffer for TLC: a console thread and script       *)
(* loaders feed the kernel thread.                                         *)
(***************************************************************************)
EXTENDS RunBuffer
=============================================================================
