----------------------------- MODULE MCTagStore -----------------------------
(***************************************************************************)
(* A small instance of TagStore for TLC.                                   *)
(***************************************************************************)
EXTENDS TagStore

\* Two threads with a tag each, and one that both write.
MCThreads == {1, 2}
MCWrites == [k \in MCThreads |-> {k, 3}]
=============================================================================
