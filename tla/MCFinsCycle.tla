---------------------------- MODULE MCFinsCycle ----------------------------
(***************************************************************************)
(* Small instances of FinsCycle for TLC.                                   *)
(***************************************************************************)
EXTENDS FinsCycle

\* A group of data-memory words that is split into two chunks, and a CIO word.
MCTags == {"d0", "d1", "cio"}
MCChunks == <<"dm1", "dm2", "cio">>
MCChunkTags == [c \in {"dm1", "dm2", "cio"} |-> CASE c = "dm1" -> {"d0"}
                                                  [] c = "dm2" -> {"d1"}
                                                  [] c = "cio" -> {"cio"}]
MCGroupTags == [c \in {"dm1", "dm2", "cio"} |-> IF c = "cio" THEN {"cio"} ELSE {"d0", "d1"}]
=============================================================================
