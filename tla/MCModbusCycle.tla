--------------------------- MODULE MCModbusCycle ---------------------------
(***************************************************************************)
(* Small instances of ModbusCycle for TLC.                                 *)
(***************************************************************************)
EXTENDS ModbusCycle

\* The tags of test-plc-pymodbus in e2e-tests/bridge/config.toml: registers 0,
\* 2-3 and 4-5.  Register 1 separates two groups of the same function, which
\* are read in the order of their addresses.
E2ETags == {"u16", "u32", "float"}
E2EChunks == {"r0", "r2"}
E2EChunkTags == [c \in E2EChunks |-> IF c = "r0" THEN {"u16"} ELSE {"u32", "float"}]
E2EPlans == {<<"r0", "r2">>}

\* Two chunks of one group of registers, and a coil, which is read before or
\* after them: the driver iterates over a HashMap of functions.
MixTags == {"a", "b", "coil"}
MixChunks == {"r0", "r125", "c0"}
MixChunkTags == [c \in MixChunks |-> CASE c = "r0" -> {"a"}
                                       [] c = "r125" -> {"b"}
                                       [] c = "c0" -> {"coil"}]
MixGroupTags == [c \in MixChunks |-> IF c = "c0" THEN {"coil"} ELSE {"a", "b"}]
MixPlans == {<<"r0", "r125", "c0">>, <<"c0", "r0", "r125">>}
=============================================================================
