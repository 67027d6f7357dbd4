----------------------------- MODULE MCReadPlan -----------------------------
(***************************************************************************)
(* Small instances of ReadPlan for TLC.                                    *)
(***************************************************************************)
EXTENDS ReadPlan

\* One or two words of each type and a whole UInt64, at every address, also at
\* the end of the memory, and FINS words past it and past what a frame can carry.
Addresses == 0..AddrMod-1
SmallMappings ==
    [address : Addresses, quantity : {1, 2}, type : {"UInt16", "UInt32", "String"}]
    \union [address : Addresses, quantity : {1, 4}, type : {"UInt64"}]
    \union [address : Addresses, quantity : {1}, type : {"Bool"}]
    \union [address : {AddrMod + 1, FinsMod + 1}, quantity : {1, 2}, type : {"UInt16"}]

\* Coils as tagconfig_to_modbus_mapping makes them.
Coils == [address : 0..AddrMod-1, quantity : {1}, type : {"Bool"}]

SmallLimits == [registers |-> 4, coils |-> 3, area |-> 3]
CoilLimits == [coils |-> 6]
=============================================================================
