-------------------------- MODULE MCRuntimeDriver --------------------------
(***************************************************************************)
(* Small instances of RuntimeDriver for TLC: the cfg files name the tasks  *)
(* that call start() and stop().                                           *)
(***************************************************************************)
EXTENDS RuntimeDriver
=============================================================================
