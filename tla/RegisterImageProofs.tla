------------------------ MODULE RegisterImageProofs ------------------------
(***************************************************************************)
(* Proofs about RegisterImage.  What was written is found again because    *)
(* rearranging bytes twice changes nothing, also when the mapping that is  *)
(* read is larger than the value that was written (SourceTwice), and       *)
(* because registers of other tags are not touched.                        *)
(***************************************************************************)
EXTENDS RegisterImage, SequenceTheorems, WellFoundedInduction, TLAPS

-----------------------------------------------------------------------------
(***************************************************************************)
(* Byte order.                                                             *)
(***************************************************************************)

LEMMA DivisionByFour ==
    ASSUME NEW k \in Nat
    PROVE  \E q \in Nat, r \in 0..3 : q = k \div 4 /\ r = k % 4 /\ k = 4 * q + r
<1>1. PICK q \in Nat : q = k \div 4
  OBVIOUS
<1>2. PICK r \in 0..3 : r = k % 4
  OBVIOUS
<1>3. k = 4 * q + r
  BY <1>1, <1>2
<1> QED BY <1>1, <1>2, <1>3

LEMMA DivisionByTwo ==
    ASSUME NEW k \in Nat
    PROVE  \E q \in Nat, r \in 0..1 : q = k \div 2 /\ r = k % 2 /\ k = 2 * q + r
<1>1. PICK q \in Nat : q = k \div 2
  OBVIOUS
<1>2. PICK r \in 0..1 : r = k % 2
  OBVIOUS
<1>3. k = 2 * q + r
  BY <1>1, <1>2
<1> QED BY <1>1, <1>2, <1>3

LEMMA HalfUp ==
    ASSUME NEW n \in Nat
    PROVE  \E q \in Nat, r \in 0..1 : q = (n + 1) \div 2 /\ n + 1 = 2 * q + r
<1>1. PICK k \in Nat : k = n + 1
  OBVIOUS
<1>2. PICK q \in Nat, r \in 0..1 : q = k \div 2 /\ r = k % 2 /\ k = 2 * q + r
  BY DivisionByTwo
<1> QED BY <1>1, <1>2

LEMMA ModFour == ASSUME NEW q \in Nat, NEW c \in 0..3 PROVE (4 * q + c) % 4 = c
OBVIOUS
LEMMA Halves == ASSUME NEW q \in Nat, NEW c \in 0..1 PROVE (2 * q + c) % 2 = c /\ (2 * q + c) \div 2 = q
OBVIOUS

\* The place of a byte in its group of four.
LEMMA GroupOfFour ==
    ASSUME NEW i \in Nat, i >= 1
    PROVE  \E q \in Nat, r \in 0..3 : i = 4 * q + r + 1 /\ (i - 1) % 4 = r
<1>1. PICK k \in Nat : k = i - 1
  OBVIOUS
<1>2. PICK q \in Nat, r \in 0..3 : q = k \div 4 /\ r = k % 4 /\ k = 4 * q + r
  BY DivisionByFour
<1> QED BY <1>1, <1>2

\* Byte i of a value of len bytes, read back from a mapping of n bytes, comes from the place
\* to which it was written.
LEMMA SourceTwice ==
    ASSUME NEW order \in WordOrders, NEW n \in Nat, NEW len \in Nat, NEW i \in 1..len,
           n % 2 = 0, len % 2 = 0, len <= n,
           order \in {"ABCD", "BADC"} \/ len = n \/ len % 4 = 0
    PROVE  /\ Source(order, i, n) \in 1..len
           /\ Source(order, Source(order, i, n), len) = i
<1>1. PICK q \in Nat, r \in 0..3 : i = 4 * q + r + 1 /\ (i - 1) % 4 = r
  BY GroupOfFour
<1>2. CASE order = "ABCD"
  BY <1>2 DEF Source
<1>3. CASE order = "BADC"
  <2>1. CASE i % 2 = 0
    <3>1. Source(order, i, n) = i - 1
      BY <1>3, <2>1 DEF Source
    <3>2. (i - 1) % 2 # 0 /\ i - 1 \in 1..len /\ i - 1 < len
      BY <2>1
    <3> QED BY <1>3, <3>1, <3>2 DEF Source
  <2>2. CASE i % 2 # 0
    <3>1. i < len
      BY <2>2
    <3>2. Source(order, i, n) = i + 1
      BY <1>3, <2>2, <3>1 DEF Source
    <3>3. (i + 1) % 2 = 0 /\ i + 1 \in 1..len
      BY <2>2, <3>1
    <3> QED BY <1>3, <3>2, <3>3 DEF Source
  <2> QED BY <2>1, <2>2
<1>4. CASE order = "CDAB"
  <2>1. CASE i - r + 3 <= len
    <3> DEFINE j == IF r < 2 THEN i + 2 ELSE i - 2
    <3>1. Source(order, i, n) = j
      BY <1>1, <1>4, <2>1 DEF Source
    <3> DEFINE c == IF r < 2 THEN r + 2 ELSE r - 2
    <3>2. j \in 1..len /\ (j - 1) % 4 = c /\ j - c = i - r
      <4>1. c \in 0..3 /\ j - 1 = 4 * q + c /\ j - c = i - r /\ j \in 1..len
        BY <1>1, <2>1
      <4> QED BY <4>1, ModFour
    <3>3. Source(order, j, len) = i
      BY <1>1, <1>4, <2>1, <3>2 DEF Source
    <3> QED BY <3>1, <3>2, <3>3
  <2>2. CASE ~(i - r + 3 <= len)
    <3>1. len = n
      BY <1>1, <1>4, <2>2
    <3>2. Source(order, i, n) = i
      BY <1>1, <1>4, <2>2, <3>1 DEF Source
    <3> QED BY <3>1, <3>2
  <2> QED BY <2>1, <2>2
<1>5. CASE order = "DCBA"
  <2>1. CASE i - r + 3 <= len
    <3> DEFINE j == i + 3 - 2 * r
    <3>1. Source(order, i, n) = j
      BY <1>1, <1>5, <2>1 DEF Source
    <3> DEFINE c == 3 - r
    <3>2. j \in 1..len /\ (j - 1) % 4 = c /\ j - c = i - r
      <4>1. c \in 0..3 /\ j - 1 = 4 * q + c /\ j - c = i - r /\ j \in 1..len
        BY <1>1, <2>1
      <4> QED BY <4>1, ModFour
    <3>3. Source(order, j, len) = i
      BY <1>1, <1>5, <2>1, <3>2 DEF Source
    <3> QED BY <3>1, <3>2, <3>3
  <2>2. CASE ~(i - r + 3 <= len)
    <3>1. len = n
      BY <1>1, <1>5, <2>2
    <3>2. len = 4 * q + 2 /\ len % 4 = 2 /\ r \in {0, 1}
      <4>1. PICK h \in Nat, z \in 0..1 : z = len % 2 /\ len = 2 * h + z
        BY DivisionByTwo
      <4>2. len = 4 * q + 2 /\ r \in {0, 1}
        BY <1>1, <2>2, <4>1
      <4> QED BY <4>2, ModFour
    <3> DEFINE j == IF r = 0 THEN i + 1 ELSE i - 1
    <3>3. Source(order, i, n) = j
      <4>1. (i - 1) % 4 = r /\ ~(i - r + 3 <= n) /\ n % 4 >= 2 /\ r < 2
        BY <1>1, <2>2, <3>1, <3>2
      <4> QED BY <1>5, <4>1 DEF Source
    <3> DEFINE c == 1 - r
    <3>4. j \in 1..len /\ (j - 1) % 4 = c /\ j - c = i - r
      <4>1. c \in 0..3 /\ j - 1 = 4 * q + c /\ j - c = i - r /\ j \in 1..len
        BY <1>1, <3>2
      <4> QED BY <4>1, ModFour
    <3>5. Source(order, j, len) = i
      <4>1. (j - 1) % 4 = c /\ ~(j - c + 3 <= len) /\ len % 4 >= 2 /\ c < 2
        BY <1>1, <2>2, <3>2, <3>4
      <4>2. Source(order, j, len) = IF c = 0 THEN j + 1 ELSE j - 1
        BY <1>5, <4>1 DEF Source
      <4> QED BY <1>1, <3>2, <4>2
    <3> QED BY <3>1, <3>3, <3>4, <3>5
  <2> QED BY <2>1, <2>2
<1> QED BY <1>2, <1>3, <1>4, <1>5 DEF WordOrders

LEMMA ReorderedIsSeq ==
    ASSUME NEW order \in WordOrders, NEW b \in Seq(Byte), Len(b) % 2 = 0
    PROVE  Reordered(order, b) \in Seq(Byte) /\ Len(Reordered(order, b)) = Len(b)
<1>1. Len(b) \in Nat
  OBVIOUS
<1>2. \A i \in 1..Len(b) : Source(order, i, Len(b)) \in 1..Len(b)
  BY <1>1, SourceTwice
<1>3. \A i \in 1..Len(b) : b[Source(order, i, Len(b))] \in Byte
  BY <1>1, <1>2, ElementOfSeq
<1>4. Reordered(order, b) \in [1..Len(b) -> Byte]
  BY <1>3 DEF Reordered
<1> QED BY <1>1, <1>4

-----------------------------------------------------------------------------
(***************************************************************************)
(* The words of a value.                                                   *)
(***************************************************************************)

LEMMA BytesFacts ==
    ASSUME NEW m, NEW v, IsValue(m.type, v)
    PROVE  /\ BytesOf(m, v) \in Seq(Byte)
           /\ Len(BytesOf(m, v)) <= 2 * ((Len(v) + 1) \div 2)
           /\ m.type \notin {"datetime", "bool"} => BytesOf(m, v) = v
           /\ m.type = "datetime" => Len(BytesOf(m, v)) = 8 /\ BytesOf(m, v) = SubSeq(v, 1, 8)
           /\ m.type = "bool" => BytesOf(m, v) = <<0, v[1]>>
<1>1. v \in Seq(Byte) /\ Len(v) \in Nat
  BY DEF IsValue
<1>2. PICK h \in Nat, z \in 0..1 : h = (Len(v) + 1) \div 2 /\ Len(v) + 1 = 2 * h + z
  BY <1>1, HalfUp
<1>3. CASE m.type = "datetime"
  <2>1. BytesOf(m, v) = SubSeq(v, 1, 8)
    BY <1>3 DEF BytesOf
  <2>2. Len(v) = 9
    BY <1>3 DEF IsValue
  <2>3. SubSeq(v, 1, 8) \in Seq(Byte) /\ Len(SubSeq(v, 1, 8)) = 8
    <3>1. \A i \in 1..8 : i \in 1..Len(v)
      BY <2>2
    <3>2. \A i \in 1..8 : v[i] \in Byte
      BY <1>1, <3>1, ElementOfSeq
    <3> QED BY <3>2, SubSeqProperties
  <2> QED BY <1>2, <1>3, <2>1, <2>2, <2>3
<1>4. CASE m.type = "bool"
  <2>1. BytesOf(m, v) = <<0, v[1]>>
    BY <1>4 DEF BytesOf
  <2>2. v \in {<<0>>, <<1>>}
    BY <1>4 DEF IsValue
  <2>3. Len(v) = 1 /\ v[1] \in {0, 1}
    BY <2>2
  <2>4. <<0, v[1]>> \in Seq(Byte) /\ Len(<<0, v[1]>>) = 2
    BY <2>3 DEF Byte
  <2> QED BY <1>2, <1>4, <2>1, <2>3, <2>4
<1>5. CASE m.type \notin {"datetime", "bool"}
  <2>1. BytesOf(m, v) = v
    BY <1>5 DEF BytesOf
  <2>2. Len(v) <= 2 * h
    BY <1>1, <1>2
  <2> QED BY <1>1, <1>2, <1>5, <2>1, <2>2
<1> QED BY <1>3, <1>4, <1>5

LEMMA PaddedFacts ==
    ASSUME NEW b \in Seq(Byte)
    PROVE  /\ Padded(b) \in Seq(Byte)
           /\ Len(Padded(b)) = 2 * ((Len(b) + 1) \div 2)
           /\ Len(Padded(b)) % 2 = 0
           /\ Len(b) % 2 = 0 => Padded(b) = b
           /\ Len(b) % 2 = 1 => Padded(b) = Append(b, 0)
<1>1. Len(b) \in Nat
  OBVIOUS
<1>2. PICK h \in Nat, z \in 0..1 : z = Len(b) % 2 /\ Len(b) = 2 * h + z
  BY <1>1, DivisionByTwo
<1>3. CASE z = 0
  <2>1. Padded(b) = b
    BY <1>2, <1>3 DEF Padded
  <2>2. (Len(b) + 1) \div 2 = h
    <3>1. Len(b) + 1 = 2 * h + 1
      BY <1>2, <1>3
    <3> QED BY <3>1, Halves
  <2>3. Len(b) = 2 * h /\ Len(b) % 2 = 0
    BY <1>2, <1>3
  <2> QED BY <2>1, <2>2, <2>3
<1>4. CASE z = 1
  <2>1. Padded(b) = Append(b, 0)
    BY <1>2, <1>4 DEF Padded
  <2>2. Append(b, 0) \in Seq(Byte) /\ Len(Append(b, 0)) = Len(b) + 1
    BY AppendProperties DEF Byte
  <2>3. Len(b) + 1 = 2 * (h + 1) + 0 /\ h + 1 \in Nat
    BY <1>2, <1>4
  <2>4. (Len(b) + 1) \div 2 = h + 1 /\ (Len(b) + 1) % 2 = 0
    BY <2>3, Halves
  <2> QED BY <1>2, <1>4, <2>1, <2>2, <2>3, <2>4, SMTT(30)
<1> QED BY <1>3, <1>4

\* A value is written in whole words, no more than its bytes need.
LEMMA WireFacts ==
    ASSUME NEW m, NEW v, m.order \in WordOrders, IsValue(m.type, v)
    PROVE  /\ WordsOfValue(m, v) \in Seq(Byte)
           /\ ForWire(m, v) \in Seq(Byte)
           /\ Len(ForWire(m, v)) = Len(WordsOfValue(m, v))
           /\ WordCount(ForWire(m, v)) \in Nat
           /\ Len(ForWire(m, v)) = 2 * WordCount(ForWire(m, v))
           /\ Len(ForWire(m, v)) % 2 = 0
           /\ WordCount(ForWire(m, v)) <= (Len(v) + 1) \div 2
<1>1. PICK b \in Seq(Byte) : b = BytesOf(m, v) /\ Len(b) <= 2 * ((Len(v) + 1) \div 2)
  BY BytesFacts
<1>2. PICK p \in Seq(Byte) : p = Padded(b) /\ Len(p) = 2 * ((Len(b) + 1) \div 2) /\ Len(p) % 2 = 0
  BY PaddedFacts
<1>3. p = WordsOfValue(m, v)
  BY <1>1, <1>2 DEF WordsOfValue
<1>4. PICK w \in Seq(Byte) : w = ForWire(m, v) /\ Len(w) = Len(p)
  BY <1>2, <1>3, ReorderedIsSeq DEF ForWire
<1>5. Len(v) \in Nat /\ Len(b) \in Nat
  BY DEF IsValue
<1>6. PICK h \in Nat, z \in 0..1 : h = (Len(b) + 1) \div 2 /\ Len(b) + 1 = 2 * h + z
  BY <1>5, HalfUp
<1>7. PICK k \in Nat, y \in 0..1 : k = (Len(v) + 1) \div 2 /\ Len(v) + 1 = 2 * k + y
  BY <1>5, HalfUp
<1>8. Len(w) = 2 * h + 0
  BY <1>2, <1>4, <1>6
<1>9. Len(w) \div 2 = h
  BY <1>8, Halves
<1>10. h <= k
  BY <1>1, <1>6, <1>7, <1>5
<1> QED BY <1>2, <1>3, <1>4, <1>6, <1>7, <1>8, <1>9, <1>10 DEF WordCount

-----------------------------------------------------------------------------
(***************************************************************************)
(* The registers of a mapping.                                             *)
(***************************************************************************)

\* The register and the byte of it that hold byte i of a mapping.
Place(m, i) == m.addr + (i - 1) \div 2
Side(i) == ((i - 1) % 2) + 1

LEMMA PlaceFacts ==
    ASSUME NEW m, m.addr \in Nat, NEW n \in Nat, NEW i \in 1..(2 * n)
    PROVE  /\ Place(m, i) \in m.addr..(m.addr + n - 1)
           /\ Side(i) \in {1, 2}
           /\ 2 * (Place(m, i) - m.addr) + Side(i) = i
<1>1. PICK k \in Nat : k = i - 1
  OBVIOUS
<1>2. PICK q \in Nat, r \in 0..1 : q = k \div 2 /\ r = k % 2 /\ k = 2 * q + r
  BY DivisionByTwo
<1>3. Place(m, i) = m.addr + q /\ Side(i) = r + 1
  BY <1>1, <1>2 DEF Place, Side
<1>4. q \in 0..(n - 1)
  BY <1>1, <1>2
<1> QED BY <1>1, <1>2, <1>3, <1>4

LEMMA RawFacts ==
    ASSUME TypeOK, NEW t \in Tags
    PROVE  /\ RawBytes(layout[t]) \in Seq(Byte)
           /\ Len(RawBytes(layout[t])) = 2 * layout[t].qty
           /\ Len(RawBytes(layout[t])) % 2 = 0
           /\ \A i \in 1..(2 * layout[t].qty) :
                RawBytes(layout[t])[i] = mem[Place(layout[t], i)][Side(i)]
<1> DEFINE m == layout[t]
<1>1. PICK addr \in 1..MemWords, n \in Nat : addr = m.addr /\ n = m.qty /\ addr + n - 1 <= MemWords
  BY ImageAssumption DEF TypeOK
<1>2. MemWords \in Nat /\ addr \in Nat
  BY ImageAssumption
<1> HIDE DEF m
<1>3. ASSUME NEW i \in 1..(2 * n) PROVE mem[Place(m, i)][Side(i)] \in Byte
  <2>1. Place(m, i) \in addr..(addr + n - 1) /\ Side(i) \in {1, 2}
    BY <1>1, <1>2, PlaceFacts
  <2>2. Place(m, i) \in 1..MemWords
    BY <1>1, <1>2, <2>1
  <2>3. mem[Place(m, i)] \in Byte \X Byte
    BY <2>2 DEF TypeOK
  <2> QED BY <2>1, <2>3
<1>4. \A i \in 1..(2 * n) : mem[Place(m, i)][Side(i)] = mem[m.addr + (i - 1) \div 2][((i - 1) % 2) + 1]
  BY DEF Place, Side
<1>5. RawBytes(m) = [i \in 1..(2 * n) |-> mem[Place(m, i)][Side(i)]]
  BY <1>1, <1>4 DEF RawBytes
<1>6. RawBytes(m) \in [1..(2 * n) -> Byte]
  BY <1>3, <1>5
<1>7. 2 * n \in Nat /\ (2 * n) % 2 = 0
  <2>1. (2 * n + 0) % 2 = 0
    BY Halves
  <2> QED BY <2>1
<1>8. RawBytes(m) \in Seq(Byte) /\ Len(RawBytes(m)) = 2 * n
  BY <1>6, <1>7
<1> QED BY <1>1, <1>5, <1>7, <1>8 DEF m

\* The registers of tag t hold what was written to it.
Holds(t) ==
    \A i \in 1..Len(ForWire(layout[t], written[t])) :
        mem[Place(layout[t], i)][Side(i)] = ForWire(layout[t], written[t])[i]

\* The bytes of the value, behind which the mapping may have others.
Begins(b, p) == Len(p) <= Len(b) /\ \A i \in 1..Len(p) : b[i] = p[i]

LEMMA WrittenIsFound ==
    ASSUME TypeOK, NEW t \in Tags, IsValue(layout[t].type, written[t]),
           Holds(t), ReadsBack(layout[t], written[t])
    PROVE  Begins(Reordered(layout[t].order, RawBytes(layout[t])), WordsOfValue(layout[t], written[t]))
<1> DEFINE m == layout[t]
           v == written[t]
<1>1. m.order \in WordOrders /\ m.qty \in Nat
  BY ImageAssumption DEF TypeOK
<1>2. PICK w : w = ForWire(m, v)
  OBVIOUS
<1>3. PICK p : p = WordsOfValue(m, v)
  OBVIOUS
<1>4. PICK n : n = WordCount(w)
  OBVIOUS
<1>5. /\ p \in Seq(Byte) /\ w \in Seq(Byte) /\ Len(w) = Len(p) /\ n \in Nat
      /\ Len(p) = 2 * n /\ Len(p) % 2 = 0
  BY <1>1, <1>2, <1>3, <1>4, WireFacts
<1>6. n <= m.qty /\ (m.order \in {"ABCD", "BADC"} \/ n = m.qty \/ n % 2 = 0)
  <2>1. CASE m.type \in {"string", "bytes"}
    <3>1. n = m.qty
      BY <1>2, <1>4, <2>1 DEF ReadsBack
    <3> QED BY <1>1, <3>1
  <2>2. CASE m.type \notin {"string", "bytes"}
    BY <1>2, <1>4, <2>2 DEF ReadsBack
  <2> QED BY <2>1, <2>2
<1>7. PICK raw \in Seq(Byte) :
           /\ raw = RawBytes(m) /\ Len(raw) = 2 * m.qty /\ Len(raw) % 2 = 0
           /\ \A i \in 1..(2 * m.qty) : raw[i] = mem[Place(m, i)][Side(i)]
  BY RawFacts
<1> HIDE DEF m, v
<1>8. /\ Len(p) <= Len(raw)
      /\ m.order \in {"ABCD", "BADC"} \/ Len(p) = Len(raw) \/ Len(p) % 4 = 0
  <2>0. n \in Nat /\ m.qty \in Nat /\ Len(p) = 2 * n /\ Len(raw) = 2 * m.qty /\ n <= m.qty
    BY <1>1, <1>5, <1>6, <1>7
  <2>1. CASE n % 2 = 0
    <3>1. PICK h \in Nat, z \in 0..1 : z = n % 2 /\ n = 2 * h + z
      BY <1>5, DivisionByTwo
    <3>2. Len(p) = 4 * h + 0
      BY <1>5, <2>1, <3>1
    <3>3. Len(p) % 4 = 0
      BY <3>2, ModFour
    <3> QED BY <2>0, <3>3
  <2>2. CASE n % 2 # 0
    <3>1. m.order \in {"ABCD", "BADC"} \/ n = m.qty
      BY <1>6, <2>2
    <3> QED BY <2>0, <3>1, SMTT(30)
  <2> QED BY <2>1, <2>2
<1>9. ASSUME NEW i \in 1..Len(p)
      PROVE  Reordered(m.order, raw)[i] = p[i]
  <2>0. Len(p) \in Nat /\ Len(raw) \in Nat
    BY <1>5, <1>7
  <2>1. PICK j \in 1..Len(p) : j = Source(m.order, i, Len(raw)) /\ Source(m.order, j, Len(p)) = i
    <3> DEFINE order == m.order
               total == Len(raw)
               len == Len(p)
    <3>1. /\ order \in WordOrders /\ total \in Nat /\ len \in Nat /\ i \in 1..len
          /\ total % 2 = 0 /\ len % 2 = 0 /\ len <= total
          /\ order \in {"ABCD", "BADC"} \/ len = total \/ len % 4 = 0
      BY <1>1, <1>5, <1>7, <1>8, <2>0
    <3> HIDE DEF order, total, len
    <3>2. /\ Source(order, i, total) \in 1..len
          /\ Source(order, Source(order, i, total), len) = i
      BY <3>1, SourceTwice
    <3> QED BY <3>2 DEF order, total, len
  <2>2. i \in 1..Len(raw) /\ j \in 1..Len(raw)
    BY <1>8, <2>0, <2>1
  <2>3. Reordered(m.order, raw)[i] = raw[j]
    BY <2>1, <2>2 DEF Reordered
  <2>4. raw[j] = mem[Place(m, j)][Side(j)]
    BY <1>7, <2>2
  <2>5. mem[Place(m, j)][Side(j)] = w[j]
    BY <1>2, <1>5, <2>1 DEF Holds, m, v
  <2>6. w = Reordered(m.order, p)
    BY <1>2, <1>3 DEF ForWire
  <2>7. w[j] = p[i]
    BY <2>1, <2>6 DEF Reordered
  <2> QED BY <2>3, <2>4, <2>5, <2>7
<1>10. Len(Reordered(m.order, raw)) = Len(raw)
  BY <1>1, <1>7, ReorderedIsSeq
<1> QED BY <1>3, <1>7, <1>8, <1>9, <1>10 DEF Begins, m, v

-----------------------------------------------------------------------------
(***************************************************************************)
(* Decoding.                                                               *)
(***************************************************************************)

LEMMA Least == ASSUME NEW T \in SUBSET Nat, T # {} PROVE \E k \in T : \A j \in T : k <= j
<1> DEFINE R == OpToRel(<, Nat)
<1>1. IsWellFoundedOn(R, Nat)
  BY NatLessThanWellFounded
<1>2. R = {pair \in Nat \X Nat : pair[1] < pair[2]}
  BY DEF OpToRel
<1> HIDE DEF R
<1>3. PICK k \in T : \A j \in T : ~ (<<j, k>> \in R)
  BY <1>1, WFMin
<1>4. ASSUME NEW j \in T PROVE k <= j
  <2>1. j \in Nat /\ k \in Nat /\ <<j, k>> \in Nat \X Nat /\ <<j, k>>[1] = j /\ <<j, k>>[2] = k
    OBVIOUS
  <2>2. ~(j < k)
    BY <1>2, <1>3, <2>1
  <2> QED BY <2>1, <2>2
<1> QED BY <1>4

\* There is a last byte that is no NUL, or none at all.
LEMMA LastTextExists ==
    ASSUME NEW b \in Seq(Byte)
    PROVE  /\ LastText(b) \in 0..Len(b)
           /\ LastText(b) > 0 => b[LastText(b)] # 0
           /\ \A j \in (LastText(b) + 1)..Len(b) : b[j] = 0
<1>1. Len(b) \in Nat
  OBVIOUS
<1> DEFINE T == {i \in 0..Len(b) : \A j \in (i + 1)..Len(b) : b[j] = 0}
<1>2. Len(b) \in T /\ T \in SUBSET Nat
  BY <1>1
<1>3. PICK k \in T : \A j \in T : k <= j
  BY <1>2, Least
<1>4. ASSUME k > 0 PROVE b[k] # 0
  <2>1. SUFFICES ASSUME b[k] = 0 PROVE FALSE
    OBVIOUS
  <2>2. k \in 1..Len(b) /\ k - 1 \in 0..Len(b)
    BY <1>1, <1>4
  <2>3. \A j \in ((k - 1) + 1)..Len(b) : j = k \/ j \in (k + 1)..Len(b)
    BY <2>2
  <2>4. k - 1 \in T
    BY <2>1, <2>2, <2>3
  <2>5. k <= k - 1
    <3> HIDE DEF T
    <3> QED BY <1>3, <2>4
  <2> QED BY <1>1, <2>2, <2>5
<1>5. \E i \in 0..Len(b) : /\ i > 0 => b[i] # 0
                           /\ \A j \in (i + 1)..Len(b) : b[j] = 0
  BY <1>3, <1>4
<1> QED BY <1>5 DEF LastText

LEMMA TrimmedFacts ==
    ASSUME NEW b \in Seq(Byte)
    PROVE  /\ Trimmed(b) \in Seq(Byte)
           /\ Trimmed(b) # << >> => Trimmed(b)[Len(Trimmed(b))] # 0
<1>1. PICK k \in 0..Len(b) : k = LastText(b) /\ (k > 0 => b[k] # 0)
  BY LastTextExists
<1>2. Len(b) \in Nat /\ k \in Nat
  BY <1>1
<1>3. \A i \in 1..k : b[i] \in Byte
  <2>1. \A i \in 1..k : i \in 1..Len(b)
    BY <1>1, <1>2
  <2> QED BY <2>1, ElementOfSeq
<1>4. PICK u : u = SubSeq(b, 1, k)
  OBVIOUS
<1>5. u \in Seq(Byte) /\ Len(u) = k /\ \A i \in 1..k : u[i] = b[i]
  <2>1. /\ u \in Seq(Byte) /\ Len(u) = (IF 1 <= k THEN k - 1 + 1 ELSE 0)
        /\ \A i \in 1..(k - 1 + 1) : u[i] = b[1 + i - 1]
    BY <1>2, <1>3, <1>4, SubSeqProperties
  <2>2. \A i \in 1..k : i \in 1..(k - 1 + 1) /\ 1 + i - 1 = i
    BY <1>2
  <2>3. Len(u) = k
    BY <1>2, <2>1
  <2> QED BY <2>1, <2>2, <2>3
<1>6. u # << >> => u[Len(u)] # 0
  <2>1. u # << >> => k > 0
    BY <1>2, <1>5, EmptySeq
  <2> QED BY <1>1, <1>2, <1>5, <2>1
<1> QED BY <1>1, <1>4, <1>5, <1>6 DEF Trimmed

\* The padding of a text is cut off again.
LEMMA TextFound ==
    ASSUME NEW v \in Seq(Byte), v # << >>, v[Len(v)] # 0
    PROVE  Trimmed(Padded(v)) = v
<1>1. Len(v) \in Nat /\ Len(v) > 0
  BY EmptySeq
<1>2. PICK b \in Seq(Byte) :
         /\ b = Padded(v) /\ Len(v) <= Len(b)
         /\ \A i \in 1..Len(v) : b[i] = v[i]
         /\ \A i \in (Len(v) + 1)..Len(b) : b[i] = 0
  <2>1. CASE Len(v) % 2 = 1
    <3>1. Padded(v) = Append(v, 0)
      BY <2>1, PaddedFacts
    <3>2. /\ Append(v, 0) \in Seq(Byte) /\ Len(Append(v, 0)) = Len(v) + 1
          /\ \A i \in 1..Len(v) : Append(v, 0)[i] = v[i]
          /\ Append(v, 0)[Len(v) + 1] = 0
      BY AppendProperties DEF Byte
    <3>3. \A i \in (Len(v) + 1)..(Len(v) + 1) : i = Len(v) + 1
      BY <1>1
    <3> QED BY <1>1, <3>1, <3>2, <3>3
  <2>2. CASE Len(v) % 2 # 1
    <3>1. Padded(v) = v
      BY <2>2 DEF Padded
    <3> QED BY <1>1, <3>1
  <2> QED BY <2>1, <2>2
<1>3. PICK k \in 0..Len(b) : /\ k = LastText(b) /\ (k > 0 => b[k] # 0)
                             /\ \A j \in (k + 1)..Len(b) : b[j] = 0
  BY LastTextExists
<1>4. k = Len(v)
  <2>1. Len(b) \in Nat /\ k \in Nat
    BY <1>2, <1>3
  <2>2. ~(k > Len(v))
    BY <1>1, <1>2, <1>3, <2>1
  <2>3. ~(k < Len(v))
    BY <1>1, <1>2, <1>3, <2>1
  <2> QED BY <1>1, <2>1, <2>2, <2>3
<1>5. SubSeq(b, 1, Len(v)) = v
  <2>1. \A i \in 1..Len(v) : b[i] \in Byte
    BY <1>2, ElementOfSeq
  <2>2. PICK u : u = SubSeq(b, 1, Len(v))
    OBVIOUS
  <2>3. u \in Seq(Byte) /\ Len(u) = Len(v) /\ \A i \in 1..Len(v) : u[i] = b[i]
    BY <1>1, <2>1, <2>2, SubSeqProperties
  <2> QED BY <1>2, <2>2, <2>3, SeqEqual
<1> QED BY <1>2, <1>3, <1>4, <1>5 DEF Trimmed

LEMMA Prefix ==
    ASSUME NEW b \in Seq(Byte), NEW p \in Seq(Byte), Begins(b, p)
    PROVE  /\ SubSeq(b, 1, Len(p)) = p
           /\ ZeroExtended(b, Len(p)) = p
           /\ Len(b) = Len(p) => b = p
<1>1. Len(b) \in Nat /\ Len(p) \in Nat
  OBVIOUS
<1>2. Len(p) <= Len(b) /\ \A i \in 1..Len(p) : b[i] = p[i]
  BY DEF Begins
<1>3. \A i \in 1..Len(p) : i <= Len(b) /\ b[i] \in Byte
  <2>1. \A i \in 1..Len(p) : i \in 1..Len(b)
    BY <1>1, <1>2
  <2> QED BY <1>1, <2>1, ElementOfSeq
<1>4. SubSeq(b, 1, Len(p)) = p
  <2>1. PICK u : u = SubSeq(b, 1, Len(p))
    OBVIOUS
  <2>2. u \in Seq(Byte) /\ Len(u) = Len(p) /\ \A i \in 1..Len(p) : u[i] = b[i]
    BY <1>1, <1>3, <2>1, SubSeqProperties
  <2> QED BY <1>2, <2>1, <2>2, SeqEqual
<1>5. ZeroExtended(b, Len(p)) = p
  <2>1. ZeroExtended(b, Len(p)) = [i \in 1..Len(p) |-> p[i]]
    BY <1>2, <1>3 DEF ZeroExtended
  <2> QED BY <2>1
<1>6. Len(b) = Len(p) => b = p
  BY <1>2, SeqEqual
<1> QED BY <1>4, <1>5, <1>6

LEMMA NumberDecoded ==
    ASSUME NEW m, NEW v, NEW b \in Seq(Byte), m.type \in FixedTypes \ {"bool", "datetime"},
           IsValue(m.type, v), Begins(b, WordsOfValue(m, v))
    PROVE  Decode(m, b) = Good(v) /\ FinsDecode(m, b) = Good(v)
<1>1. v \in Seq(Byte) /\ Len(v) = Width[m.type]
  BY DEF IsValue
<1>2. Len(v) \in {2, 4, 8}
  BY <1>1 DEF Width, FixedTypes
<1>3. WordsOfValue(m, v) = v
  <2>1. BytesOf(m, v) = v
    BY BytesFacts
  <2>2. Len(v) % 2 = 0
    <3>1. 2 % 2 = 0 /\ 4 % 2 = 0 /\ 8 % 2 = 0
      OBVIOUS
    <3> QED BY <1>2, <3>1
  <2> QED BY <1>1, <2>1, <2>2, PaddedFacts DEF WordsOfValue
<1>4. /\ SubSeq(b, 1, Width[m.type]) = v /\ ZeroExtended(b, Width[m.type]) = v
      /\ ~(Len(b) < Width[m.type])
  <2>1. Len(b) \in Nat /\ Len(v) <= Len(b)
    BY <1>3 DEF Begins
  <2> QED BY <1>1, <1>2, <1>3, <2>1, Prefix
<1>5. Decode(m, b) = Good(v)
  BY <1>4 DEF Decode, FixedTypes
<1>6. FinsDecode(m, b) = Good(v)
  <2>1. m.type \in {"int16", "int32", "double", "int64"}
    BY DEF FixedTypes
  <2> QED BY <1>4, <2>1 DEF FinsDecode
<1> QED BY <1>5, <1>6

LEMMA TextDecoded ==
    ASSUME NEW m, NEW v, NEW b \in Seq(Byte), m.type \in TextTypes, v # << >>,
           IsValue(m.type, v), Begins(b, WordsOfValue(m, v)), Len(b) = Len(WordsOfValue(m, v)),
           m.type = "string" => v[Len(v)] # 0,
           m.type = "bytes" => Len(v) % 2 = 0
    PROVE  Decode(m, b) = Good(v) /\ FinsDecode(m, b) = Good(v)
<1>1. v \in Seq(Byte)
  BY DEF IsValue
<1>2. WordsOfValue(m, v) = Padded(v) /\ Padded(v) \in Seq(Byte)
  <2>1. BytesOf(m, v) = v
    BY BytesFacts DEF TextTypes
  <2> QED BY <1>1, <2>1, PaddedFacts DEF WordsOfValue
<1>3. b = Padded(v)
  BY <1>2, Prefix
<1>4. CASE m.type = "string"
  <2>1. IsUtf8(v) /\ IsUtf8(Append(v, 0))
    BY <1>4 DEF IsValue
  <2>2. IsUtf8(Padded(v))
    <3>1. Padded(v) \in {v, Append(v, 0)}
      BY DEF Padded
    <3>2. CASE Padded(v) = v
      BY <2>1, <3>2
    <3>3. CASE Padded(v) = Append(v, 0)
      BY <2>1, <3>3
    <3> QED BY <3>1, <3>2, <3>3
  <2>3. Text(b) = v
    BY <1>1, <1>3, <1>4, <2>2, TextFound DEF Text
  <2> QED BY <1>4, <2>3 DEF Decode, FinsDecode
<1>5. CASE m.type = "bytes"
  <2>1. b = v
    BY <1>1, <1>3, <1>5, PaddedFacts
  <2> QED BY <1>5, <2>1 DEF Decode, FinsDecode
<1> QED BY <1>4, <1>5 DEF TextTypes

LEMMA DateDecoded ==
    ASSUME NEW m, NEW v, NEW b \in Seq(Byte), m.type = "datetime",
           IsValue(m.type, v), Begins(b, WordsOfValue(m, v)), v[9] = 0
    PROVE  Decode(m, b) = Good(v) /\ (v[1] < 128 => FinsDecode(m, b) = Good(v))
<1>1. v \in Seq(Byte) /\ Len(v) = 9 /\ IsDate(SubSeq(v, 1, 8))
  BY DEF IsValue
<1>2. PICK p \in Seq(Byte) : p = SubSeq(v, 1, 8) /\ Len(p) = 8 /\ p = WordsOfValue(m, v)
  <2>1. BytesOf(m, v) \in Seq(Byte) /\ Len(BytesOf(m, v)) = 8 /\ BytesOf(m, v) = SubSeq(v, 1, 8)
    BY BytesFacts
  <2>2. Len(BytesOf(m, v)) % 2 = 0
    BY <2>1
  <2>3. WordsOfValue(m, v) = BytesOf(m, v)
    BY <2>1, <2>2, PaddedFacts DEF WordsOfValue
  <2> QED BY <2>1, <2>3
<1>3. \A i \in 1..8 : p[i] = v[i]
  <2>1. \A i \in 1..8 : v[i] \in Byte
    <3>1. \A i \in 1..8 : i \in 1..Len(v)
      BY <1>1
    <3> QED BY <1>1, <3>1, ElementOfSeq
  <2> QED BY <1>2, <2>1, SubSeqProperties
<1>4. Append(p, 0) = v
  <2>1. PICK u : u = Append(p, 0)
    OBVIOUS
  <2>2. u \in Seq(Byte) /\ Len(u) = 9 /\ (\A i \in 1..8 : u[i] = p[i]) /\ u[9] = 0
    <3>1. /\ u \in Seq(Byte) /\ Len(u) = Len(p) + 1 /\ u[Len(p) + 1] = 0
          /\ \A i \in 1..Len(p) : u[i] = p[i]
      BY <2>1, AppendProperties DEF Byte
    <3>2. Len(p) + 1 = 9
      BY <1>2
    <3> QED BY <1>2, <3>1, <3>2
  <2>3. \A i \in 1..9 : u[i] = v[i]
    BY <1>3, <2>2, SMTT(30)
  <2> QED BY <1>1, <2>1, <2>2, <2>3, SeqEqual
<1>5. SubSeq(b, 1, 8) = p /\ b[1] = p[1] /\ Len(b) \in Nat /\ Len(b) >= 8
  <2>1. Begins(b, p)
    BY <1>2
  <2>2. 8 <= Len(b) /\ \A i \in 1..8 : b[i] = p[i]
    BY <1>2, <2>1 DEF Begins
  <2>3. 1 \in 1..8 /\ Len(b) \in Nat
    OBVIOUS
  <2> QED BY <1>2, <2>1, <2>2, <2>3, Prefix
<1>6. b[1] = v[1] /\ Append(SubSeq(b, 1, 8), 0) = v /\ ~(Len(b) < 8)
  <2>1. p[1] = v[1] /\ ~(Len(b) < 8)
    BY <1>3, <1>5
  <2>2. Append(SubSeq(b, 1, 8), 0) = v
    BY <1>4, <1>5, Zenon
  <2> QED BY <1>5, <2>1, <2>2, Zenon
<1>7. IsDate(SubSeq(b, 1, 8))
  BY <1>1, <1>2, <1>5, Zenon
<1>8. Decode(m, b) = Good(v)
  BY <1>5, <1>6, <1>7 DEF Decode, DecodeDate
<1>9. ASSUME v[1] < 128 PROVE FinsDecode(m, b) = Good(v)
  BY <1>5, <1>6, <1>7, <1>9 DEF FinsDecode, FinsDecodeDate
<1> QED BY <1>8, <1>9

LEMMA BoolDecoded ==
    ASSUME NEW m, NEW v, NEW b \in Seq(Byte), m.type = "bool",
           IsValue(m.type, v), Begins(b, WordsOfValue(m, v))
    PROVE  FinsDecode(m, b) = Good(v)
<1>1. v \in {<<0>>, <<1>>}
  BY DEF IsValue
<1>2. v[1] \in {0, 1} /\ v = <<v[1]>>
  BY <1>1
<1>3. PICK p \in Seq(Byte) : p = <<0, v[1]>> /\ p = WordsOfValue(m, v)
  <2>1. BytesOf(m, v) = <<0, v[1]>> /\ BytesOf(m, v) \in Seq(Byte)
    BY BytesFacts
  <2>2. Len(BytesOf(m, v)) % 2 = 0
    BY <2>1
  <2> QED BY <2>1, <2>2, PaddedFacts DEF WordsOfValue
<1>4. b[2] = v[1]
  <2>1. Len(p) = 2 /\ p[2] = v[1] /\ 2 \in 1..2
    BY <1>3
  <2> QED BY <1>3, <2>1 DEF Begins
<1>5. b[2] % 2 = v[1]
  BY <1>2, <1>4
<1>6. FirstBit(b) = v
  BY <1>2, <1>5 DEF FirstBit
<1> QED BY <1>6 DEF FinsDecode

-----------------------------------------------------------------------------
(***************************************************************************)
(* The inductive invariant: the registers of a tag whose value fits, and   *)
(* that no neighbour damaged, hold what was written to it.                 *)
(***************************************************************************)

Intact(t) == written[t] # None /\ t \notin damaged /\ Fits(layout[t], written[t])

Setting ==
    /\ LayoutIsValid(layout)
    /\ protocol = "modbus" => RegistersOnly(layout)
    /\ \A t \in Tags : written[t] # None => IsValue(layout[t].type, written[t])

MemoryHolds == \A t \in Tags : Intact(t) => Holds(t)

Inv == TypeOK /\ Setting /\ MemoryHolds /\ WrittenStaysShown

LEMMA ReadIsWritten ==
    ASSUME TypeOK, Setting, MemoryHolds, NEW t \in Tags,
           written[t] # None, t \notin damaged, ReadsBack(layout[t], written[t])
    PROVE  Outcome(layout[t]) = Good(written[t])
<1> DEFINE m == layout[t]
           v == written[t]
<1>1. /\ m.order \in WordOrders /\ m.type \in FixedTypes \union TextTypes /\ m.qty \in Nat
      /\ IsValue(m.type, v)
  BY ImageAssumption DEF TypeOK, Setting
<1>2. PICK n \in Nat : n = WordCount(ForWire(m, v)) /\ Len(WordsOfValue(m, v)) = 2 * n
  BY <1>1, WireFacts
<1>3. PICK b \in Seq(Byte) : b = Reordered(m.order, RawBytes(m)) /\ Len(b) = 2 * m.qty
  BY <1>1, RawFacts, ReorderedIsSeq
<1>4. Outcome(m) = IF protocol = "fins" THEN FinsDecode(m, b) ELSE Decode(m, b)
  BY <1>3 DEF Outcome
<1>5. Holds(t)
  <2>1. n <= m.qty
    <3>1. CASE m.type \in TextTypes
      <4>1. n = m.qty
        BY <1>2, <3>1 DEF ReadsBack, TextTypes
      <4> QED BY <1>2, <4>1
    <3>2. CASE m.type \notin TextTypes
      BY <1>2, <3>2 DEF ReadsBack, TextTypes
    <3> QED BY <3>1, <3>2
  <2> QED BY <1>2, <2>1 DEF MemoryHolds, Intact, Fits
<1>6. Begins(b, WordsOfValue(m, v))
  BY <1>1, <1>3, <1>5, WrittenIsFound
<1>7. protocol \in {"modbus", "fins"}
  BY ImageAssumption DEF TypeOK
<1>8. CASE m.type \in TextTypes
  <2>1. /\ n = m.qty
        /\ m.type = "string" => v[Len(v)] # 0
        /\ m.type = "bytes" => Len(v) % 2 = 0
    BY <1>2, <1>8 DEF ReadsBack, TextTypes
  <2> QED BY <1>1, <1>2, <1>3, <1>4, <1>6, <1>8, <2>1, TextDecoded DEF None
<1>9. CASE m.type = "datetime"
  <2>1. v[9] = 0 /\ (protocol = "fins" => v[1] < 128)
    BY <1>9 DEF ReadsBack
  <2> QED BY <1>1, <1>4, <1>6, <1>9, <2>1, DateDecoded
<1>10. CASE m.type = "bool"
  <2>1. protocol = "fins"
    BY <1>7, <1>10 DEF Setting, RegistersOnly
  <2> QED BY <1>1, <1>4, <1>6, <1>10, <2>1, BoolDecoded
<1>11. CASE m.type \in FixedTypes \ {"bool", "datetime"}
  BY <1>1, <1>4, <1>6, <1>11, NumberDecoded
<1> QED BY <1>1, <1>8, <1>9, <1>10, <1>11

LEMMA ZeroExtendedIsSeq ==
    ASSUME NEW b \in Seq(Byte), NEW n \in Nat
    PROVE  ZeroExtended(b, n) \in Seq(Byte) /\ Len(ZeroExtended(b, n)) = n
<1>1. \A i \in 1..n : i <= Len(b) => b[i] \in Byte
  <2>1. \A i \in 1..n : i <= Len(b) => i \in 1..Len(b)
    OBVIOUS
  <2> QED BY <2>1, ElementOfSeq
<1>2. 0 \in Byte
  BY DEF Byte
<1>3. ZeroExtended(b, n) \in [1..n -> Byte]
  BY <1>1, <1>2 DEF ZeroExtended
<1> QED BY <1>3

LEMMA HexFacts ==
    ASSUME NEW b \in Seq(Byte), b # << >>
    PROVE  Hex(b) \in Seq(Byte) /\ Hex(b)[Len(Hex(b))] # 0
<1>1. PICK k \in Nat : k = Len(b) /\ k > 0
  BY EmptySeq
<1>2. \A d \in 0..15 : Digit(d) \in Byte /\ Digit(d) # 0
  BY DEF Digit, Byte
<1>3. \A x \in Byte : x \div 16 \in 0..15 /\ x % 16 \in 0..15
  BY DEF Byte
<1>4. \A i \in 1..(2 * k) : (i + 1) \div 2 \in 1..k
  <2>1. SUFFICES ASSUME NEW i \in 1..(2 * k) PROVE (i + 1) \div 2 \in 1..k
    OBVIOUS
  <2>2. PICK h \in Nat, z \in 0..1 : h = (i + 1) \div 2 /\ i + 1 = 2 * h + z
    BY HalfUp
  <2> QED BY <2>2
<1>5. ASSUME NEW i \in 1..(2 * k)
      PROVE  Hex(b)[i] \in Byte /\ Hex(b)[i] # 0
  <2>1. PICK x \in Byte : x = b[(i + 1) \div 2]
    BY <1>1, <1>4, ElementOfSeq
  <2>2. Hex(b)[i] = Digit(IF i % 2 = 1 THEN x \div 16 ELSE x % 16)
    BY <1>1, <2>1 DEF Hex
  <2>3. (IF i % 2 = 1 THEN x \div 16 ELSE x % 16) \in 0..15
    BY <1>3
  <2> QED BY <1>2, <2>2, <2>3
<1>6. 2 * k \in Nat /\ 2 * k \in 1..(2 * k)
  BY <1>1
<1>7. Hex(b) \in [1..(2 * k) -> Byte]
  <2>1. DOMAIN Hex(b) = 1..(2 * k) /\ Hex(b) = [i \in 1..(2 * k) |-> Hex(b)[i]]
    BY <1>1 DEF Hex
  <2> QED BY <1>5, <2>1
<1>8. Hex(b) \in Seq(Byte) /\ Len(Hex(b)) = 2 * k
  BY <1>6, <1>7
<1> QED BY <1>5, <1>6, <1>8

LEMMA TextFacts ==
    ASSUME NEW b \in Seq(Byte), b # << >>
    PROVE  Text(b) \in Seq(Byte) /\ (Text(b) = << >> \/ Text(b)[Len(Text(b))] # 0)
<1>1. CASE Text(b) = Trimmed(b)
  BY <1>1, TrimmedFacts
<1>2. CASE Text(b) = Hex(b)
  BY <1>2, HexFacts
<1> QED BY <1>1, <1>2 DEF Text

LEMMA DateFacts ==
    ASSUME NEW b \in Seq(Byte), ~(Len(b) < 8)
    PROVE  /\ Append(SubSeq(b, 1, 8), 0) \in Seq(Byte) /\ Len(Append(SubSeq(b, 1, 8), 0)) = 9
           /\ Epoch \in Seq(Byte) /\ Len(Epoch) = 9
<1>1. \A i \in 1..8 : b[i] \in Byte
  <2>1. \A i \in 1..8 : i \in 1..Len(b)
    OBVIOUS
  <2> QED BY <2>1, ElementOfSeq
<1>2. PICK p : p = SubSeq(b, 1, 8)
  OBVIOUS
<1>3. p \in Seq(Byte) /\ Len(p) = 8
  BY <1>1, <1>2, SubSeqProperties
<1>4. Append(p, 0) \in Seq(Byte) /\ Len(Append(p, 0)) = Len(p) + 1
  <2>1. 0 \in Byte
    BY DEF Byte
  <2> QED BY <1>3, <2>1, AppendProperties, ZenonT(60)
<1>5. PICK e \in Seq(Byte) : e = << >>
  BY EmptySeq
<1>6. Epoch \in Seq(Byte) /\ Len(Epoch) = 9
  <2>1. ZeroExtended(e, 9) \in Seq(Byte) /\ Len(ZeroExtended(e, 9)) = 9
    BY ZeroExtendedIsSeq
  <2> QED BY <1>5, <2>1 DEF Epoch
<1> QED BY <1>2, <1>3, <1>4, <1>6

LEMMA OutcomeShape ==
    ASSUME TypeOK, Setting, NEW t \in Tags
    PROVE  \/ Outcome(layout[t]) = Bad
           \/ Outcome(layout[t]) = Panic /\ layout[t].type = "datetime"
           \/ \E u \in Seq(Byte) : Outcome(layout[t]) = Good(u) /\ Shape(layout[t].type, u)
<1> DEFINE m == layout[t]
<1>1. m.order \in WordOrders /\ m.type \in FixedTypes \union TextTypes /\ m.qty \in Nat /\ m.qty > 0
  BY ImageAssumption DEF TypeOK, Setting, LayoutIsValid, SizeIsValid
<1>2. PICK b \in Seq(Byte) : b = Reordered(m.order, RawBytes(m)) /\ Len(b) = 2 * m.qty
  BY <1>1, RawFacts, ReorderedIsSeq
<1>3. Outcome(m) = IF protocol = "fins" THEN FinsDecode(m, b) ELSE Decode(m, b)
  BY <1>2 DEF Outcome
<1>4. b # << >> /\ Len(b) >= 2 /\ Len(b) \in Nat
  BY <1>1, <1>2, EmptySeq
<1>5. protocol \in {"modbus", "fins"}
  BY ImageAssumption DEF TypeOK
<1>6. CASE m.type = "string"
  <2>1. Outcome(m) = Good(Text(b))
    BY <1>3, <1>6 DEF Decode, FinsDecode
  <2>2. Text(b) \in Seq(Byte) /\ Shape(m.type, Text(b))
    BY <1>4, <1>6, TextFacts DEF Shape, FixedTypes, None
  <2> QED BY <2>1, <2>2
<1>7. CASE m.type = "bytes"
  <2>1. Outcome(m) = Good(b)
    BY <1>3, <1>7 DEF Decode, FinsDecode
  <2> QED BY <1>7, <2>1 DEF Shape, FixedTypes
<1>8. CASE m.type = "datetime"
  <2>1. CASE Len(b) < 8
    <3>1. Outcome(m) = Bad
      BY <1>3, <1>8, <2>1 DEF Decode, FinsDecode, DecodeDate, FinsDecodeDate
    <3> QED BY <3>1
  <2>2. CASE ~(Len(b) < 8)
    <3>1. Outcome(m) \in {Panic, Good(Append(SubSeq(b, 1, 8), 0)), Good(Epoch)}
      BY <1>3, <1>8, <2>2 DEF Decode, FinsDecode, DecodeDate, FinsDecodeDate
    <3>2. \A u : Len(u) = 9 => Shape(m.type, u)
      BY <1>8 DEF Shape, FixedTypes
    <3>3. CASE Outcome(m) = Panic
      BY <1>8, <3>3
    <3>4. CASE Outcome(m) = Good(Append(SubSeq(b, 1, 8), 0))
      BY <2>2, <3>2, <3>4, DateFacts
    <3>5. CASE Outcome(m) = Good(Epoch)
      BY <2>2, <3>2, <3>5, DateFacts
    <3> QED BY <3>1, <3>3, <3>4, <3>5
  <2> QED BY <2>1, <2>2
<1>9. CASE m.type = "bool"
  <2>1. protocol = "fins"
    BY <1>5, <1>9 DEF Setting, RegistersOnly
  <2>2. Outcome(m) = Good(FirstBit(b))
    BY <1>3, <1>9, <2>1 DEF FinsDecode
  <2>3. PICK x \in Byte : x = b[2]
    BY <1>4, ElementOfSeq
  <2>4. x % 2 \in {0, 1}
    BY DEF Byte
  <2>5. FirstBit(b) \in {<<0>>, <<1>>} /\ FirstBit(b) \in Seq(Byte)
    BY <2>3, <2>4 DEF FirstBit, Byte
  <2> QED BY <1>9, <2>2, <2>5 DEF Shape, FixedTypes
<1>10. CASE m.type \in FixedTypes \ {"bool", "datetime"}
  <2>1. PICK n \in Nat : n = Width[m.type]
    BY <1>10 DEF Width, FixedTypes
  <2>2. \A u : Len(u) = n => Shape(m.type, u)
    BY <1>10, <2>1 DEF Shape, FixedTypes
  <2>3. CASE protocol # "fins"
    <3>1. Outcome(m) = Good(ZeroExtended(b, n))
      BY <1>3, <1>10, <2>1, <2>3 DEF Decode, FixedTypes
    <3> QED BY <2>2, <3>1, ZeroExtendedIsSeq
  <2>4. CASE protocol = "fins"
    <3>1. m.type \in {"int16", "int32", "double", "int64"}
      BY <1>10 DEF FixedTypes
    <3>2. Outcome(m) = IF Len(b) < n THEN Bad ELSE Good(SubSeq(b, 1, n))
      BY <1>3, <2>1, <2>4, <3>1 DEF FinsDecode
    <3>3. ASSUME ~(Len(b) < n) PROVE SubSeq(b, 1, n) \in Seq(Byte) /\ Len(SubSeq(b, 1, n)) = n
      <4>1. \A i \in 1..n : i \in 1..Len(b)
        BY <1>4, <3>3
      <4>2. \A i \in 1..n : b[i] \in Byte
        BY <4>1, ElementOfSeq
      <4> QED BY <4>2, SubSeqProperties
    <3> QED BY <2>2, <3>2, <3>3
  <2> QED BY <2>3, <2>4
<1> QED BY <1>1, <1>6, <1>7, <1>8, <1>9, <1>10 DEF TextTypes

-----------------------------------------------------------------------------
(***************************************************************************)
(* The steps.                                                              *)
(***************************************************************************)

LEMMA InitInv == ASSUME Init PROVE Inv
<1>1. TypeOK
  <2>1. PICK fill \in {0, 1} : mem = [a \in 1..MemWords |-> <<fill, fill>>]
    BY DEF Init
  <2>2. mem \in [1..MemWords -> Byte \X Byte]
    <3>1. fill \in Byte
      BY DEF Byte
    <3> QED BY <2>1, <3>1
  <2>3. None \in Seq(Byte)
    BY EmptySeq DEF None
  <2>4. shown \in [Tags -> [val : Seq(Byte), qual : {"initializing", "good", "error"}]]
    BY <2>3 DEF Init
  <2>5. written \in [Tags -> Seq(Byte)]
    BY <2>3 DEF Init
  <2>6. \A t \in Tags : shown[t].val \in {None, written[t]}
    BY DEF Init
  <2>7. protocol \in Protocols /\ layout \in Layouts /\ damaged \subseteq Tags /\ alive
    BY DEF Init
  <2>8. writes \in 0..MaxWrites
    BY ImageAssumption DEF Init
  <2> QED BY <2>2, <2>4, <2>5, <2>6, <2>7, <2>8 DEF TypeOK
<1>2. \A t \in Tags : written[t] = None
  BY DEF Init
<1>3. Setting
  BY <1>2 DEF Init, Setting
<1> QED BY <1>1, <1>2, <1>3 DEF Inv, MemoryHolds, Intact, WrittenStaysShown

\* What a write puts into the registers.
LEMMA WrittenToMemory ==
    ASSUME TypeOK, Setting, NEW t \in Tags, NEW v \in Values(layout[t].type, writes + 1), Write(t, v)
    PROVE  /\ IsValue(layout[t].type, v)
           /\ mem' \in [1..MemWords -> Byte \X Byte]
           /\ \A i \in 1..Len(ForWire(layout[t], v)) :
                mem'[Place(layout[t], i)][Side(i)] = ForWire(layout[t], v)[i]
           /\ \A a \in (1..MemWords) \ Target(layout[t], v) : mem'[a] = mem[a]
<1> DEFINE m == layout[t]
<1>1. writes + 1 \in 1..MaxWrites /\ layout \in Layouts /\ MemWords \in Nat
  BY ImageAssumption DEF Write, TypeOK
<1>2. /\ IsValue(m.type, v) /\ m.order \in WordOrders
      /\ m.addr \in 1..MemWords /\ m.addr + (Len(v) + 1) \div 2 - 1 <= MemWords
  BY <1>1, ImageAssumption
<1>3. m.addr \in Nat
  BY <1>1, <1>2
<1>4. PICK w \in Seq(Byte) : w = ForWire(m, v)
  BY <1>2, WireFacts
<1>5. PICK n \in Nat : n = WordCount(ForWire(m, v)) /\ Len(w) = 2 * n /\ n <= (Len(v) + 1) \div 2
  BY <1>2, <1>4, WireFacts
<1>6. PICK c \in Nat, z \in 0..1 : c = (Len(v) + 1) \div 2 /\ Len(v) + 1 = 2 * c + z
  <2>1. Len(v) \in Nat
    BY <1>2 DEF IsValue
  <2> QED BY <2>1, HalfUp
<1>7. Target(m, v) = m.addr..(m.addr + n - 1) /\ \A a \in Target(m, v) : a \in 1..MemWords
  <2>1. m.addr + n - 1 <= MemWords
    BY <1>1, <1>2, <1>3, <1>5, <1>6, SMTT(30)
  <2> QED BY <1>1, <1>2, <1>3, <1>5, <2>1, SMTT(30) DEF Target
<1> DEFINE first(a) == 2 * (a - m.addr) + 1
<1>8. mem' = [a \in 1..MemWords |->
                IF a \in Target(m, v) THEN <<w[first(a)], w[first(a) + 1]>> ELSE mem[a]]
  BY <1>4 DEF Write
<1> HIDE DEF m
<1>9. \A a \in Target(m, v) : w[first(a)] \in Byte /\ w[first(a) + 1] \in Byte
  <2>1. \A a \in Target(m, v) : first(a) \in 1..Len(w) /\ first(a) + 1 \in 1..Len(w)
    <3>1. SUFFICES ASSUME NEW a \in m.addr..(m.addr + n - 1)
                   PROVE  first(a) \in 1..Len(w) /\ first(a) + 1 \in 1..Len(w)
      BY <1>7
    <3>2. PICK d \in 0..(n - 1) : d = a - m.addr
      BY <1>3
    <3>3. first(a) = 2 * d + 1
      BY <3>2
    <3> HIDE DEF first
    <3> QED BY <1>5, <3>3
  <2> HIDE DEF first
  <2> QED BY <2>1, ElementOfSeq
<1>10. mem' \in [1..MemWords -> Byte \X Byte]
  <2> HIDE DEF first
  <2>1. mem \in [1..MemWords -> Byte \X Byte]
    BY DEF TypeOK
  <2>2. \A a \in Target(m, v) : <<w[first(a)], w[first(a) + 1]>> \in Byte \X Byte
    BY <1>9
  <2> QED BY <1>8, <2>1, <2>2
<1>11. ASSUME NEW i \in 1..Len(w) PROVE mem'[Place(m, i)][Side(i)] = w[i]
  <2>1. PICK a \in m.addr..(m.addr + n - 1) :
           a = Place(m, i) /\ Side(i) \in {1, 2} /\ 2 * (a - m.addr) + Side(i) = i
    BY <1>3, <1>5, PlaceFacts
  <2>2. a \in 1..MemWords /\ a \in Target(m, v)
    BY <1>7
  <2>3. mem'[a] = <<w[first(a)], w[first(a) + 1]>>
    <3> HIDE DEF first
    <3> QED BY <1>8, <2>2
  <2>4. CASE Side(i) = 1
    <3>1. first(a) = i
      BY <1>3, <2>1, <2>4
    <3> HIDE DEF first
    <3> QED BY <2>1, <2>3, <2>4, <3>1
  <2>5. CASE Side(i) = 2
    <3>1. first(a) + 1 = i
      BY <1>3, <2>1, <2>5
    <3> HIDE DEF first
    <3> QED BY <2>1, <2>3, <2>5, <3>1
  <2> QED BY <2>1, <2>4, <2>5
<1>12. \A a \in (1..MemWords) \ Target(m, v) : mem'[a] = mem[a]
  BY <1>8
<1> QED BY <1>2, <1>4, <1>10, <1>11, <1>12 DEF m

\* A write leaves the registers of other tags alone, unless it does not fit.
LEMMA NeighbourHolds ==
    ASSUME TypeOK, Setting, MemoryHolds, NEW t \in Tags, NEW v \in Values(layout[t].type, writes + 1),
           Write(t, v), NEW u \in Tags, u # t, written[u] # None, u \notin damaged',
           Fits(layout[u], written[u])
    PROVE  u \notin damaged /\ \A i \in 1..Len(ForWire(layout[u], written[u])) :
              mem'[Place(layout[u], i)][Side(i)] = ForWire(layout[u], written[u])[i]
<1> DEFINE m == layout[t]
           k == layout[u]
<1>1. /\ layout \in Layouts /\ MemWords \in Nat
      /\ IsValue(m.type, v) /\ IsValue(k.type, written[u])
      /\ m.order \in WordOrders /\ k.order \in WordOrders
      /\ m.qty \in Nat /\ k.qty \in Nat /\ m.addr \in 1..MemWords /\ k.addr \in 1..MemWords
      /\ k.addr + k.qty - 1 <= MemWords
  BY WrittenToMemory, ImageAssumption DEF TypeOK, Setting
<1>2. m.addr \in Nat /\ k.addr \in Nat
  BY <1>1
<1>3. u \notin damaged /\ (Fits(m, v) \/ Cells(k) \intersect Target(m, v) = {})
  <2>1. damaged' = (damaged \ {t}) \union
                   (IF Fits(m, v) THEN {}
                    ELSE {s \in Tags \ {t} : Cells(layout[s]) \intersect Target(m, v) # {}})
    BY DEF Write
  <2> QED BY <2>1
<1>4. Cells(k) \intersect Target(m, v) = {}
  <2>1. CASE Fits(m, v)
    <3>1. PICK n \in Nat : n = WordCount(ForWire(m, v)) /\ n <= m.qty
      BY <1>1, <2>1, WireFacts DEF Fits
    <3>2. Target(m, v) \subseteq Cells(m)
      BY <1>1, <1>2, <3>1 DEF Target, Cells
    <3>3. Cells(k) \intersect Cells(m) = {}
      BY DEF Setting, LayoutIsValid
    <3> QED BY <3>2, <3>3
  <2> QED BY <1>3, <2>1
<1>5. Holds(u)
  BY <1>3 DEF MemoryHolds, Intact
<1>6. PICK n \in Nat : /\ n = WordCount(ForWire(k, written[u])) /\ n <= k.qty
                       /\ Len(ForWire(k, written[u])) = 2 * n
  BY <1>1, WireFacts DEF Fits
<1>7. ASSUME NEW i \in 1..(2 * n) PROVE mem'[Place(k, i)] = mem[Place(k, i)]
  <2>1. Place(k, i) \in k.addr..(k.addr + n - 1)
    BY <1>2, PlaceFacts
  <2>2. Place(k, i) \in Cells(k) /\ Place(k, i) \in 1..MemWords
    <3>1. PICK a \in k.addr..(k.addr + n - 1) : a = Place(k, i)
      BY <2>1
    <3>2. k.addr >= 1
      BY <1>1
    <3>3. a \in k.addr..(k.addr + k.qty - 1) /\ a \in 1..MemWords
      <4> HIDE DEF k
      <4> QED BY <1>1, <1>2, <1>6, <3>2, SMTT(30)
    <3> QED BY <3>1, <3>3 DEF Cells
  <2>3. Place(k, i) \in (1..MemWords) \ Target(m, v)
    BY <1>4, <2>2
  <2> QED BY <2>3, WrittenToMemory
<1> QED BY <1>3, <1>5, <1>6, <1>7 DEF Holds

LEMMA WriteKeeps ==
    ASSUME Inv, NEW t \in Tags, NEW v \in Values(layout[t].type, writes + 1), Write(t, v)
    PROVE  Inv'
<1>1. TypeOK /\ Setting /\ MemoryHolds /\ WrittenStaysShown
  BY DEF Inv
<1>2. /\ protocol' = protocol /\ layout' = layout /\ alive' = alive /\ writes' = writes + 1
      /\ shown' = [shown EXCEPT ![t] = Good(v)] /\ written' = [written EXCEPT ![t] = v]
      /\ writes < MaxWrites
  BY DEF Write
<1>3. IsValue(layout[t].type, v) /\ v \in Seq(Byte)
  BY <1>1, WrittenToMemory DEF IsValue
<1>4. /\ shown'[t] = Good(v) /\ written'[t] = v
      /\ \A u \in Tags \ {t} : shown'[u] = shown[u] /\ written'[u] = written[u]
  BY <1>1, <1>2 DEF TypeOK
<1>5. TypeOK'
  <2>1. mem' \in [1..MemWords -> Byte \X Byte]
    BY <1>1, WrittenToMemory
  <2>2. Good(v) \in [val : Seq(Byte), qual : {"initializing", "good", "error"}]
    BY <1>3 DEF Good
  <2>3. shown' \in [Tags -> [val : Seq(Byte), qual : {"initializing", "good", "error"}]]
    BY <1>1, <1>2, <2>2 DEF TypeOK
  <2>4. written' \in [Tags -> Seq(Byte)]
    BY <1>1, <1>2, <1>3 DEF TypeOK
  <2>5. damaged' \subseteq Tags
    BY <1>1 DEF TypeOK, Write
  <2>6. writes' \in 0..MaxWrites
    BY <1>1, <1>2, ImageAssumption DEF TypeOK
  <2>7. ASSUME NEW u \in Tags
        PROVE  shown'[u].val \in {None, written'[u]} \/ Shape(layout[u].type, shown'[u].val)
    <3>1. CASE u = t
      BY <1>4, <3>1 DEF Good
    <3>2. CASE u # t
      BY <1>1, <1>4, <3>2 DEF TypeOK
    <3> QED BY <3>1, <3>2
  <2>8. \A u \in Tags : shown'[u].val \in {None, written'[u]} \/ Shape(layout'[u].type, shown'[u].val)
    BY <1>2, <2>7
  <2>9. /\ protocol' \in Protocols /\ layout' \in Layouts
        /\ alive' \/ \E u \in Tags : layout'[u].type = "datetime"
    BY <1>1, <1>2 DEF TypeOK
  <2> QED BY <2>1, <2>3, <2>4, <2>5, <2>6, <2>8, <2>9 DEF TypeOK
<1>6. Setting'
  BY <1>1, <1>2, <1>3, <1>4 DEF Setting
<1>7. MemoryHolds'
  <2>1. SUFFICES ASSUME NEW u \in Tags, Intact(u)' PROVE Holds(u)'
    BY DEF MemoryHolds
  <2>2. CASE u = t
    BY <1>1, <1>2, <1>4, <2>2, WrittenToMemory DEF Holds
  <2>3. CASE u # t
    <3>1. written'[u] = written[u] /\ layout'[u] = layout[u]
      BY <1>2, <1>4, <2>3
    <3>2. written[u] # None /\ u \notin damaged' /\ Fits(layout[u], written[u])
      BY <2>1, <3>1 DEF Intact
    <3>3. \A i \in 1..Len(ForWire(layout[u], written[u])) :
              mem'[Place(layout[u], i)][Side(i)] = ForWire(layout[u], written[u])[i]
      BY <1>1, <2>3, <3>2, NeighbourHolds
    <3> QED BY <3>1, <3>3 DEF Holds
  <2> QED BY <2>2, <2>3
<1>8. WrittenStaysShown'
  <2>1. SUFFICES ASSUME NEW u \in Tags, written'[u] # None, u \notin damaged',
                        ReadsBack(layout[u], written[u])'
                 PROVE  shown'[u] = Good(written'[u])
    BY DEF WrittenStaysShown
  <2>2. CASE u = t
    BY <1>4, <2>2
  <2>3. CASE u # t
    <3>1. written'[u] = written[u] /\ layout'[u] = layout[u] /\ shown'[u] = shown[u]
      BY <1>2, <1>4, <2>3
    <3>2. ReadsBack(layout[u], written[u])
      BY <1>2, <2>1, <3>1 DEF ReadsBack
    <3>3. u \notin damaged
      BY <2>1, <2>3 DEF Write
    <3> QED BY <1>1, <2>1, <3>1, <3>2, <3>3 DEF WrittenStaysShown
  <2> QED BY <2>2, <2>3
<1> QED BY <1>5, <1>6, <1>7, <1>8 DEF Inv

LEMMA ReadKeeps ==
    ASSUME Inv, NEW t \in Tags, Read(t)
    PROVE  Inv'
<1>1. TypeOK /\ Setting /\ MemoryHolds /\ WrittenStaysShown
  BY DEF Inv
<1>2. UNCHANGED <<protocol, layout, mem, written, damaged, alive, writes>>
  BY DEF Read
<1>3. PICK o : o = Outcome(layout[t])
  OBVIOUS
<1>4. /\ \A u \in Tags \ {t} : shown'[u] = shown[u]
      /\ shown'[t] = IF o = Bad THEN [shown[t] EXCEPT !.qual = "error"] ELSE o
      /\ DOMAIN shown' = Tags /\ shown' = [u \in Tags |-> shown'[u]]
  BY <1>1, <1>3 DEF Read, TypeOK
<1>5. \/ o = Bad
      \/ \E w \in Seq(Byte) : o = Good(w) /\ Shape(layout[t].type, w)
  <2>1. o # Panic
    BY <1>3 DEF Read, Panic
  <2> QED BY <1>1, <1>3, <2>1, OutcomeShape
<1>6. shown[t] \in [val : Seq(Byte), qual : {"initializing", "good", "error"}]
  BY <1>1 DEF TypeOK
<1>7. /\ shown'[t] \in [val : Seq(Byte), qual : {"initializing", "good", "error"}]
      /\ shown'[t].val = shown[t].val \/ Shape(layout[t].type, shown'[t].val)
  <2>1. CASE o = Bad
    BY <1>4, <1>6, <2>1
  <2>2. ASSUME NEW w \in Seq(Byte), o = Good(w), Shape(layout[t].type, w)
        PROVE  /\ shown'[t] \in [val : Seq(Byte), qual : {"initializing", "good", "error"}]
               /\ Shape(layout[t].type, shown'[t].val)
    <3>1. shown'[t] = Good(w)
      BY <1>4, <2>2 DEF Good, Bad
    <3> QED BY <2>2, <3>1 DEF Good
  <2> QED BY <1>5, <2>1, <2>2
<1>8. TypeOK'
  <2>1. shown' \in [Tags -> [val : Seq(Byte), qual : {"initializing", "good", "error"}]]
    <3>1. \A u \in Tags : shown'[u] \in [val : Seq(Byte), qual : {"initializing", "good", "error"}]
      BY <1>1, <1>4, <1>7 DEF TypeOK
    <3> QED BY <1>4, <3>1
  <2>2. \A u \in Tags : shown'[u].val \in {None, written[u]} \/ Shape(layout[u].type, shown'[u].val)
    BY <1>1, <1>4, <1>7 DEF TypeOK
  <2> QED BY <1>1, <1>2, <2>1, <2>2 DEF TypeOK
<1>9. Setting' /\ MemoryHolds'
  BY <1>1, <1>2 DEF Setting, MemoryHolds, Intact, Holds
<1>10. WrittenStaysShown'
  <2>1. SUFFICES ASSUME NEW u \in Tags, written[u] # None, u \notin damaged,
                        ReadsBack(layout[u], written[u])
                 PROVE  shown'[u] = Good(written[u])
    BY <1>2 DEF WrittenStaysShown, ReadsBack
  <2>2. shown[u] = Good(written[u])
    BY <1>1, <2>1 DEF WrittenStaysShown
  <2>3. CASE u = t
    <3>1. o = Good(written[u])
      BY <1>1, <1>3, <2>1, <2>3, ReadIsWritten
    <3> QED BY <1>4, <2>3, <3>1 DEF Good, Bad
  <2> QED BY <1>4, <2>2, <2>3
<1> QED BY <1>8, <1>9, <1>10 DEF Inv

LEMMA PanicKeeps ==
    ASSUME Inv, NEW t \in Tags, ReadPanics(t)
    PROVE  Inv'
<1>1. TypeOK /\ Setting /\ MemoryHolds /\ WrittenStaysShown
  BY DEF Inv
<1>2. UNCHANGED <<protocol, layout, mem, shown, written, damaged, writes>>
  BY DEF ReadPanics
<1>3. layout[t].type = "datetime"
  <2>1. PICK o : o = Outcome(layout[t]) /\ o.qual = "panic"
    BY DEF ReadPanics
  <2>2. o # Bad /\ \A u : o # Good(u)
    BY <2>1 DEF Bad, Good
  <2> QED BY <1>1, <2>1, <2>2, OutcomeShape
<1>4. TypeOK'
  BY <1>1, <1>2, <1>3 DEF TypeOK
<1> QED BY <1>1, <1>2, <1>4
        DEF Inv, Setting, MemoryHolds, Intact, Holds, WrittenStaysShown, ReadsBack

LEMMA Inductive == Spec => []Inv
<1>1. Init => Inv
  BY InitInv
<1>2. Inv /\ [Next]_vars => Inv'
  <2>1. SUFFICES ASSUME Inv, [Next]_vars PROVE Inv'
    OBVIOUS
  <2>2. CASE Next
    <3>1. PICK t \in Tags : \/ \E v \in Values(layout[t].type, writes + 1) : Write(t, v)
                            \/ Read(t) \/ ReadPanics(t)
      BY <2>2 DEF Next
    <3> QED BY <2>1, <3>1, WriteKeeps, ReadKeeps, PanicKeeps
  <2>3. CASE UNCHANGED vars
    <3>1. UNCHANGED <<protocol, layout, mem, shown, written, damaged, alive, writes>>
      BY <2>3 DEF vars
    <3> QED BY <2>1, <3>1
            DEF Inv, TypeOK, Setting, MemoryHolds, Intact, Holds, WrittenStaysShown, ReadsBack
  <2> QED BY <2>1, <2>2, <2>3
<1> QED BY <1>1, <1>2, PTL DEF Spec

\* Whatever is written and read, registers hold bytes, what is shown has the shape of its
\* type, and nothing but a date ends the poller (tagvalue_to_registers, apply_to_bytes,
\* decode_bytes_to_tagvalue, decode_and_update_tag).
THEOREM TypeCorrect == Spec => []TypeOK
<1>1. Inv => TypeOK
  BY DEF Inv
<1> QED BY <1>1, Inductive, PTL

\* A value that can be read back is shown as it was written, whatever its type, byte
\* order, size and neighbours, with both drivers, for mappings and values of any number.
THEOREM WrittenTheorem == Spec => []WrittenStaysShown
<1>1. Inv => WrittenStaysShown
  BY DEF Inv
<1> QED BY <1>1, Inductive, PTL
=============================================================================
