--------------------------- MODULE RegisterImage ---------------------------
(***************************************************************************)
(* What a value becomes on its way into the registers of a PLC and back:   *)
(* encoding to words, byte order, the write at the address of the mapping, *)
(* the read of the mapping's words, byte order, decoding.  Both drivers.   *)
(*                                                                         *)
(* A value is its sequence of bytes, most significant first; a register    *)
(* holds two.  0 is the NUL byte.  A date carries, behind its eight bytes  *)
(* of milliseconds, the fraction of a millisecond (0 if there is none).    *)
(* What is a date for chrono, and what is UTF-8, is left to constants.     *)
(***************************************************************************)
EXTENDS Integers, Sequences

CONSTANTS
    Tags,           \* tags of a device
    Layouts,        \* mappings of the tags: addr, qty, type, order
    Protocols,      \* "modbus", "fins"
    MemWords,       \* registers of the device
    Values(_, _),   \* values of a type that clients give to the n-th write
    IsDate(_),      \* eight bytes, as a signed number of milliseconds, are a date
    IsUtf8(_),      \* bytes are a text
    MaxWrites       \* bound: number of writes

Byte == 0..255

WordOrders == {"ABCD", "BADC", "CDAB", "DCBA"}

\* Bytes of the types of fixed size; "string" and "bytes" have any number.
Width == [bool |-> 2, int16 |-> 2, int32 |-> 4, double |-> 8, int64 |-> 8, datetime |-> 8]
FixedTypes == {"bool", "int16", "int32", "double", "int64", "datetime"}
TextTypes == {"string", "bytes"}

\* validate(): sizes, byte orders, and no overlap.
SizeIsValid(m) ==
    /\ m.qty > 0
    /\ m.type = "int32" => m.qty >= 2
    /\ m.type = "double" => m.qty >= 4
    /\ m.order \in {"CDAB", "DCBA"} => m.qty >= 2
Cells(m) == m.addr..(m.addr + m.qty - 1)
LayoutIsValid(l) ==
    /\ \A t \in Tags : SizeIsValid(l[t])
    /\ \A t, u \in Tags : t # u => Cells(l[t]) \intersect Cells(l[u]) = {}

\* tagconfig_to_modbus_mapping makes a bool a coil, which the driver does not write.
RegistersOnly(l) == \A t \in Tags : l[t].type # "bool"

\* A value has the bytes of its type; a text stays one with a NUL at its end.
IsValue(type, v) ==
    /\ v \in Seq(Byte)
    /\ type \in FixedTypes \ {"bool", "datetime"} => Len(v) = Width[type]
    /\ type = "bool" => v \in {<<0>>, <<1>>}
    /\ type = "datetime" => Len(v) = 9 /\ IsDate(SubSeq(v, 1, 8))
    /\ type = "string" => IsUtf8(v) /\ IsUtf8(Append(v, 0))

\* The memory of the device ends behind whatever is written: a write it refuses is in
\* ModbusCycle and FinsCycle.
ASSUME ImageAssumption ==
    /\ MemWords \in Nat
    /\ MaxWrites \in Nat
    /\ Protocols \subseteq {"modbus", "fins"}
    /\ \A l \in Layouts : \A t \in Tags :
         /\ l[t].addr \in 1..MemWords
         /\ l[t].qty \in Nat
         /\ l[t].addr + l[t].qty - 1 <= MemWords
         /\ l[t].type \in FixedTypes \union TextTypes
         /\ l[t].order \in WordOrders
         /\ \A n \in 1..MaxWrites : \A v \in Values(l[t].type, n) :
              /\ IsValue(l[t].type, v)
              /\ l[t].addr + (Len(v) + 1) \div 2 - 1 <= MemWords

VARIABLES
    protocol,       \* of the device
    layout,         \* its mappings
    mem,            \* its registers: two bytes each
    shown,          \* TagRegistry: value and quality of each tag
    written,        \* the last value written to each tag, or none
    damaged,        \* tags hit by a write to another tag that did not fit
    alive,          \* the poller has not panicked
    writes          \* number of writes so far

vars == <<protocol, layout, mem, shown, written, damaged, alive, writes>>

None == << >>

Init ==
    /\ protocol \in Protocols
    /\ layout \in {l \in Layouts : LayoutIsValid(l) /\ (protocol = "modbus" => RegistersOnly(l))}
    /\ \E fill \in {0, 1} : mem = [a \in 1..MemWords |-> <<fill, fill>>]
    /\ shown = [t \in Tags |-> [val |-> None, qual |-> "initializing"]]
    /\ written = [t \in Tags |-> None]
    /\ damaged = {}
    /\ alive = TRUE
    /\ writes = 0

-----------------------------------------------------------------------------
(***************************************************************************)
(* Encoding.                                                               *)
(***************************************************************************)

\* The bytes of a value: a date loses what is below a millisecond, a bool is the word
\* 0 or 1.
BytesOf(m, v) ==
    CASE m.type = "datetime" -> SubSeq(v, 1, 8)
      [] m.type = "bool" -> <<0, v[1]>>
      [] OTHER -> v

\* An odd number of bytes is padded with a NUL.
Padded(b) == IF Len(b) % 2 = 1 THEN Append(b, 0) ELSE b

\* WordOrder::apply_to_bytes: where byte i of n comes from.  Only whole groups
\* of four bytes are rearranged by CDAB and DCBA; DCBA swaps a word that remains.
Source(order, i, n) ==
    LET r == (i - 1) % 4
        whole == i - r + 3 <= n
    IN  CASE order = "BADC" -> IF i % 2 = 0 THEN i - 1 ELSE IF i < n THEN i + 1 ELSE i
          [] order = "CDAB" /\ whole -> IF r < 2 THEN i + 2 ELSE i - 2
          [] order = "DCBA" /\ whole -> i + 3 - 2 * r
          [] order = "DCBA" /\ ~whole /\ n % 4 >= 2 /\ r < 2 -> IF r = 0 THEN i + 1 ELSE i - 1
          [] OTHER -> i
Reordered(order, b) == [i \in 1..Len(b) |-> b[Source(order, i, Len(b))]]

\* The words of a value, most significant first, as bytes.
WordsOfValue(m, v) == Padded(BytesOf(m, v))

\* Fault: the order of the mapping is applied when reading only.
PlainForWire(m, v) == WordsOfValue(m, v)

\* The bytes that are written for value v, in the order of the mapping.
ForWire(m, v) == Reordered(m.order, WordsOfValue(m, v))

WordCount(b) == Len(b) \div 2

-----------------------------------------------------------------------------
(***************************************************************************)
(* Decoding.                                                               *)
(***************************************************************************)

\* The position of the last byte that is no NUL.
LastText(b) == CHOOSE i \in 0..Len(b) : /\ i > 0 => b[i] # 0
                                        /\ \A j \in (i + 1)..Len(b) : b[j] = 0

\* Fault: the padding is part of the text.
Untrimmed(b) == b

\* trim_end_matches('\\0')
Trimmed(b) == SubSeq(b, 1, LastText(b))

\* What is no UTF-8 is shown as the hexadecimal digits of all bytes.
Digit(d) == IF d < 10 THEN 48 + d ELSE 55 + d
Hex(b) == [i \in 1..(2 * Len(b)) |->
              LET byte == b[(i + 1) \div 2] IN Digit(IF i % 2 = 1 THEN byte \div 16 ELSE byte % 16)]
Text(b) == IF IsUtf8(b) THEN Trimmed(b) ELSE Hex(b)

\* Bit 0 of the first word: tagconfig_to_fins_mapping gives every mapping bit_offset 0.
FirstBit(b) == <<b[2] % 2>>

\* The first n bytes; Modbus takes missing words for 0.
ZeroExtended(b, n) == [i \in 1..n |-> IF i <= Len(b) THEN b[i] ELSE 0]

\* 1970
Epoch == ZeroExtended(<< >>, 9)
Good(v) == [val |-> v, qual |-> "good"]
Bad == [val |-> None, qual |-> "error"]
Panic == [val |-> None, qual |-> "panic"]

\* Modbus: a number that is no date becomes 1970, with the quality Good.
DecodeDate(b) ==
    CASE Len(b) < 8 -> Bad
      [] Len(b) >= 8 /\ IsDate(SubSeq(b, 1, 8)) -> Good(Append(SubSeq(b, 1, 8), 0))
      [] OTHER -> Good(Epoch)

\* FINS reads the number as unsigned, which is no date if its first bit is set, and the
\* conversion of what is no date panics.
FinsDecodeDate(b) ==
    CASE Len(b) < 8 -> Bad
      [] Len(b) >= 8 /\ IsDate(SubSeq(b, 1, 8)) /\ b[1] < 128 -> Good(Append(SubSeq(b, 1, 8), 0))
      [] OTHER -> Panic

\* decode_bytes_to_tagvalue
Decode(m, b) ==
    CASE m.type = "string" -> Good(Text(b))
      [] m.type = "bytes" -> Good(b)
      [] m.type = "datetime" -> DecodeDate(b)
      [] OTHER -> Good(ZeroExtended(b, Width[m.type]))

\* decode_and_update_tag
FinsDecode(m, b) ==
    CASE m.type = "string" -> Good(Text(b))
      [] m.type = "bytes" -> Good(b)
      [] m.type = "datetime" -> FinsDecodeDate(b)
      [] m.type = "bool" -> Good(FirstBit(b))
      [] m.type \in {"int16", "int32", "double", "int64"} ->
            IF Len(b) < Width[m.type] THEN Bad ELSE Good(SubSeq(b, 1, Width[m.type]))

-----------------------------------------------------------------------------
(***************************************************************************)
(* A write and a read of a tag.  That the PLC refuses or does not answer   *)
(* is left to ModbusCycle and FinsCycle, requests of several tags to       *)
(* ReadPlan.                                                               *)
(***************************************************************************)

\* The registers a write of value v covers.
Target(m, v) == m.addr..(m.addr + WordCount(ForWire(m, v)) - 1)
Fits(m, v) == WordCount(ForWire(m, v)) <= m.qty

\* All words of the value go to the address of the mapping, however many words
\* the mapping has; the acknowledged value is published.
Write(t, v) ==
    /\ alive
    /\ writes < MaxWrites
    /\ writes' = writes + 1
    /\ LET m == layout[t]
           b == ForWire(m, v)
           first(a) == 2 * (a - m.addr) + 1
       IN  /\ mem' = [a \in 1..MemWords |->
                         IF a \in Target(m, v) THEN <<b[first(a)], b[first(a) + 1]>> ELSE mem[a]]
           /\ damaged' = (damaged \ {t}) \union
                         IF Fits(m, v) THEN {}
                         ELSE {u \in Tags \ {t} : Cells(layout[u]) \intersect Target(m, v) # {}}
    /\ shown' = [shown EXCEPT ![t] = Good(v)]
    /\ written' = [written EXCEPT ![t] = v]
    /\ UNCHANGED <<protocol, layout, alive>>

\* registers_to_bytes of the mapping's words.
RawBytes(m) == [i \in 1..(2 * m.qty) |-> mem[m.addr + (i - 1) \div 2][((i - 1) % 2) + 1]]

Outcome(m) ==
    LET b == Reordered(m.order, RawBytes(m)) IN
    IF protocol = "fins" THEN FinsDecode(m, b) ELSE Decode(m, b)

\* A value that does not decode leaves the old one, with a bad quality.
Read(t) ==
    /\ alive
    /\ Outcome(layout[t]).qual # "panic"
    /\ shown' = [shown EXCEPT ![t] = IF Outcome(layout[t]) = Bad THEN [@ EXCEPT !.qual = "error"]
                                                                 ELSE Outcome(layout[t])]
    /\ UNCHANGED <<protocol, layout, mem, written, damaged, alive, writes>>

\* The poller task ends, and every tag of the device keeps what it shows.
ReadPanics(t) ==
    /\ alive
    /\ Outcome(layout[t]).qual = "panic"
    /\ alive' = FALSE
    /\ UNCHANGED <<protocol, layout, mem, shown, written, damaged, writes>>

Next ==
    \E t \in Tags : \/ \E v \in Values(layout[t].type, writes + 1) : Write(t, v)
                    \/ Read(t) \/ ReadPanics(t)

Spec == Init /\ [][Next]_vars

-----------------------------------------------------------------------------
(***************************************************************************)
(* Properties.                                                             *)
(***************************************************************************)

\* What a value that was read looks like.
Shape(type, v) ==
    /\ type \in FixedTypes \ {"bool", "datetime"} => Len(v) = Width[type]
    /\ type = "bool" => v \in {<<0>>, <<1>>}
    /\ type = "datetime" => Len(v) = 9
    /\ type = "string" => v = None \/ v[Len(v)] # 0

\* Registers hold two bytes; a value that is shown has the size of its type, and a
\* text no NUL at its end, unless a client wrote it there; the poller panics over
\* nothing but a date.
TypeOK ==
    /\ protocol \in Protocols
    /\ layout \in Layouts
    /\ mem \in [1..MemWords -> Byte \X Byte]
    /\ shown \in [Tags -> [val : Seq(Byte), qual : {"initializing", "good", "error"}]]
    /\ written \in [Tags -> Seq(Byte)]
    /\ damaged \subseteq Tags
    /\ writes \in 0..MaxWrites
    /\ \A t \in Tags : shown[t].val \in {None, written[t]} \/ Shape(layout[t].type, shown[t].val)
    /\ alive \/ \E t \in Tags : layout[t].type = "datetime"

\* The writes that can be read back.  The words of a number must be within those of
\* the mapping, and with CDAB and DCBA fill it or be whole groups of four bytes, for
\* the mapping is rearranged as a whole when it is read; a text must have exactly as
\* many words as the mapping, or what was there before is read behind it, and not end
\* with a NUL; a date no fraction of a millisecond, and with FINS be after 1970.
ReadsBack(m, v) ==
    LET n == WordCount(ForWire(m, v)) IN
    CASE m.type = "string" -> n = m.qty /\ v[Len(v)] # 0
      [] m.type = "bytes" -> n = m.qty /\ Len(v) % 2 = 0
      [] OTHER -> /\ n <= m.qty
                  /\ m.order \in {"ABCD", "BADC"} \/ n = m.qty \/ n % 2 = 0
                  /\ m.type = "datetime" => v[9] = 0 /\ (protocol = "fins" => v[1] < 128)

\* After a write that can be read back, clients see the value that was written,
\* before and after the next read cycles, in every byte order and with both drivers,
\* until the tag is written again; writes to other tags change nothing of it, as
\* long as they fit their mapping.
WrittenStaysShown ==
    \A t \in Tags :
        written[t] # None /\ t \notin damaged /\ ReadsBack(layout[t], written[t]) =>
            shown[t] = Good(written[t])
=============================================================================
