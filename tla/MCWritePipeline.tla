-------------------------- MODULE MCWritePipeline --------------------------
(***************************************************************************)
(* Small instances of WritePipeline for TLC.                               *)
(***************************************************************************)
EXTENDS WritePipeline

\* A Modbus driver with a register, a read-only register and a coil, and a
\* FINS driver with a data-memory word.
PipeTags == {"hr", "ro", "coil", "dm"}
PipeRoute == [t \in PipeTags |-> IF t = "dm" THEN 2 ELSE 1]
PipeProtocol == <<"modbus", "fins">>
=============================================================================
