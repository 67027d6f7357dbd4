----------------------------- MODULE MCStartup -----------------------------
(***************************************************************************)
(* Small instances of Startup for TLC.                                     *)
(***************************************************************************)
EXTENDS Startup

Tag(id, plc, node) == [id |-> id, plc |-> plc, node |-> node, plain |-> TRUE]
DateTag(id, plc, node) == [Tag(id, plc, node) EXCEPT !.plain = FALSE]

\* Two PLCs; the tags of the first are not neighbours in the order of the ids.
SoundTags == <<Tag(1, 1, "A"), DateTag(3, 1, "C"), Tag(2, 2, "B")>>
\* The same id in two PLCs.
SameId == <<Tag(1, 1, "A"), Tag(1, 2, "A")>>
\* "ns=1;s=A" and "ns=2;s=A" are different ids of the same node.
SameNode == <<Tag(1, 1, "A"), Tag(2, 2, "A")>>

Mistakes ==
    {[kind |-> k, at |-> 0] : k \in {"config", "health", "options", "certpath", "server", "certfile"}}
    \union {[kind |-> k, at |-> n] : k \in {"tag", "definition", "endpoint", "mapping",
                                             "words", "driver"},
                                     n \in {1, 2}}

\* Up to two mistakes at once.
MCConfigs ==
    [protocol : {<<"modbus", "fins">>, <<"other", "modbus">>}, tags : {SoundTags},
     secure : BOOLEAN, mistakes : {m \in SUBSET Mistakes : Cardinality(m) <= 2}]
    \union
    [protocol : {<<"modbus", "fins">>}, tags : {SameId, SameNode}, secure : {FALSE}, mistakes : {{}}]

\* Configurations without a mistake.
SoundConfigs ==
    [protocol : {<<"modbus", "fins">>, <<"other", "modbus">>}, tags : {SoundTags},
     secure : BOOLEAN, mistakes : {{}}]
=============================================================================
