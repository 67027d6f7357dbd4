--------------------------- MODULE ReadPlanProofs ---------------------------
(***************************************************************************)
(* Proofs about ReadPlan, for any mappings, any limit on the size of a     *)
(* request and any number of addresses.  Mappings may run past the end of  *)
(* the memory; what is proved of tags is about those that do not.          *)
(*                                                                         *)
(* The argument: a group has the cells of its members and no others, apart *)
(* from a Modbus mapping past the end that joined it without adding a cell *)
(* (Grouping); the requests sent so far cover the groups before the one    *)
(* being read and the cells of that one below chunk_start, each inside one *)
(* group (Reading); and a mapping whose first cell was read has its        *)
(* verdict (Shown).  Two requests meet in a cell only when they belong to  *)
(* different groups, and then the cell has an owner in each of them.  A    *)
(* refusal ends a FINS cycle early, but the groups lie in order, so the    *)
(* ones it leaves out are past the end.                                    *)
(***************************************************************************)
EXTENDS ReadPlan, SequenceTheorems, TLAPS

GroupCells(g) == g.start..(g.start + g.quantity - 1)
InSpace(g) == g.start + g.quantity <= AddrMod

\* What validate() and the sort guarantee of the mappings.
MapsAreValid ==
    /\ \A t \in DOMAIN maps :
         /\ maps[t].quantity > 0
         /\ space # "area" => maps[t].address < AddrMod
    /\ Sorted(maps)

\* A group of no cells starts at address 0; those of FINS lie in order; the last one
\* begins no later than the mapping looked at last.
GroupBounds ==
    /\ \A i \in DOMAIN groups : groups[i].quantity = 0 => groups[i].start = 0 /\ space # "area"
    /\ space = "area" => \A g, h \in DOMAIN groups :
         g < h => groups[g].start + groups[g].quantity <= groups[h].start
    /\ groups # << >> => todo > 1 /\ groups[Len(groups)].start <= maps[todo - 1].address

\* The part of a group that is still to be read is the end of it.
ReadBounds ==
    phase = "read" =>
        /\ at \in DOMAIN groups
        /\ groups[at].start <= chunk_start
        /\ chunk_start + remaining = groups[at].start + groups[at].quantity

Types == TypeOK /\ MapsAreValid /\ GroupBounds /\ ReadBounds

\* A mapping that adds its cells to its group.
Adds(m) == space = "area" \/ Fits(m)

\* Groups are their members, and every mapping looked at is a member of one.
Grouping ==
    /\ \A i \in DOMAIN groups :
         /\ groups[i].quantity > 0
         /\ \A c \in GroupCells(groups[i]) : \E t \in groups[i].members :
              c \in Cells(maps[t]) /\ (InSpace(groups[i]) => Adds(maps[t]))
         /\ \A t \in groups[i].members :
              /\ t < todo
              /\ Adds(maps[t]) => Cells(maps[t]) \subseteq GroupCells(groups[i])
    /\ \A i, j \in DOMAIN groups : i # j => groups[i].members \intersect groups[j].members = {}
    /\ \A t \in DOMAIN maps : t < todo => \E i \in DOMAIN groups : t \in groups[i].members
    /\ phase # "group" => todo = Len(maps) + 1

\* Request r lies in group g, and has been sent.
SentIn(r, g) ==
    /\ Asked(r) \subseteq GroupCells(groups[g])
    /\ g < at \/ (g = at /\ r.start + r.quantity <= chunk_start)

\* A FINS request was refused: the cycle is over, past the end of the memory.
BrokenOff ==
    /\ space = "area" /\ at \in DOMAIN groups
    /\ AddrMod < chunk_start /\ chunk_start <= groups[at].start + groups[at].quantity

\* The requests of the cycle.
Reading ==
    /\ phase = "group" => requests = << >> /\ at = 1 /\ chunk_start = 0
    /\ phase = "done" => at = Len(groups) + 1 \/ BrokenOff
    /\ \A i \in DOMAIN requests :
         /\ requests[i].quantity \in 1..MaxCells[space]
         /\ \E g \in DOMAIN groups : SentIn(requests[i], g)
    /\ \A i, j \in DOMAIN requests :
         i # j => \A c \in Asked(requests[i]) \intersect Asked(requests[j]) : Shared(c)
    /\ \A g \in DOMAIN groups : \A c \in GroupCells(groups[g]) :
         c < AddrMod /\ (g < at \/ (g = at /\ c < chunk_start))
            => \E i \in DOMAIN requests : c \in Asked(requests[i])

\* The first cell of tag t, a member of group g, has been read.
Begun(g, t) ==
    phase # "group" /\ (g < at \/ (g = at /\ maps[t].address < chunk_start))

\* Tags that have been read have a verdict, and their value if read as a whole.
Shown ==
    \A g \in DOMAIN groups : \A t \in groups[g].members :
        Fits(maps[t]) /\ Begun(g, t) =>
            /\ quality[t] # "initializing"
            /\ ReadWhole(t) => quality[t] = "good" /\ value[t] = OwnValue(maps[t])

\* The inductive invariant.
Inv == Types /\ (~WholeSpace => Grouping /\ Reading /\ Shown)

-----------------------------------------------------------------------------
(***************************************************************************)
(* Numbers, mappings and groups.                                           *)
(***************************************************************************)

LEMMA MaxFacts ==
    ASSUME NEW a \in Int, NEW b \in Int
    PROVE  Max({a, b}) = IF a >= b THEN a ELSE b
<1>1. \E x \in {a, b} : \A y \in {a, b} : x >= y
  OBVIOUS
<1>2. Max({a, b}) \in {a, b} /\ \A y \in {a, b} : Max({a, b}) >= y
  BY <1>1 DEF Max
<1> QED BY <1>2

LEMMA MinFacts ==
    ASSUME NEW a \in Int, NEW b \in Int
    PROVE  Min({a, b}) = IF a <= b THEN a ELSE b
<1>1. \E x \in {a, b} : \A y \in {a, b} : x <= y
  OBVIOUS
<1>2. Min({a, b}) \in {a, b} /\ \A y \in {a, b} : Min({a, b}) <= y
  BY <1>1 DEF Min
<1> QED BY <1>2

\* A remainder of a number that needs none, or one turn.
LEMMA ModFacts ==
    ASSUME NEW x \in Int
    PROVE  /\ 0 <= x /\ x < AddrMod => x % AddrMod = x
           /\ x = AddrMod => x % AddrMod = 0
           /\ x = -1 => x % AddrMod = AddrMod - 1
BY PlanAssumption

\* One turn of a longer sum.
LEMMA TurnFacts ==
    ASSUME NEW x \in Int, NEW y \in Int, x - AddrMod = y, 0 <= y, y < AddrMod
    PROVE  x % AddrMod = y
<1>1. AddrMod \in Nat \ {0}
  BY PlanAssumption
<1>2. (y + AddrMod) % AddrMod = y % AddrMod
  BY <1>1
<1>3. x = y + AddrMod /\ y % AddrMod = y
  BY <1>1
<1> QED BY <1>2, <1>3

LEMMA MapFacts ==
    ASSUME Types, NEW t \in DOMAIN maps
    PROVE  /\ maps[t].address \in Nat /\ maps[t].quantity \in 1..AddrMod-1
           /\ maps[t].type \in DataTypes
           /\ space # "area" => maps[t].address \in 0..AddrMod-1
<1>1. maps[t] \in Mappings
  BY DEF Types, TypeOK
<1>2. maps[t] \in [address : Nat, quantity : 0..AddrMod-1, type : DataTypes]
  BY <1>1, PlanAssumption
<1>3. maps[t].quantity > 0 /\ (space # "area" => maps[t].address < AddrMod)
  BY DEF Types, MapsAreValid
<1> QED BY <1>2, <1>3, PlanAssumption

LEMMA WidthFacts ==
    ASSUME NEW x \in Width
    PROVE  x \in Nat /\ (space # "area" => x < AddrMod /\ x \in 0..AddrMod-1)
BY PlanAssumption DEF Width

LEMMA GroupFacts ==
    ASSUME Types, NEW i \in DOMAIN groups
    PROVE  /\ groups[i].start \in Width /\ groups[i].quantity \in Width
           /\ groups[i].start \in Nat /\ groups[i].quantity \in Nat
           /\ groups[i].members \subseteq DOMAIN maps
           /\ groups[i].quantity = 0 => groups[i].start = 0 /\ space # "area"
<1>1. groups[i] \in [start : Width, quantity : Width, members : SUBSET DOMAIN maps]
  <2>1. i \in 1..Len(groups)
    BY SMTT(30) DEF Types, TypeOK
  <2> QED BY <2>1, ElementOfSeq DEF Types, TypeOK
<1>2. groups[i].start \in Nat /\ groups[i].quantity \in Nat
  BY <1>1, WidthFacts
<1> QED BY <1>1, <1>2 DEF Types, GroupBounds

\* A group that a mapping m joins reaches to the end of both.
JoinedQuantity(last, m) ==
    Max({last.start + last.quantity, m.address + m.quantity}) - last.start

\* The last group does not begin after the next mapping.
LEMMA LastStart ==
    ASSUME Types, todo \in DOMAIN maps, groups # << >>
    PROVE  Len(groups) \in DOMAIN groups /\ groups[Len(groups)].start <= maps[todo].address
<1>1. Len(groups) \in DOMAIN groups
  BY DEF Types, TypeOK
<1>2. todo > 1 /\ groups[Len(groups)].start <= maps[todo - 1].address
  BY DEF Types, GroupBounds
<1>3. Len(maps) \in Nat /\ DOMAIN maps = 1..Len(maps)
  BY DEF Types, TypeOK
<1>4. todo - 1 \in DOMAIN maps /\ todo - 1 \in 1..Len(maps)-1 /\ (todo - 1) + 1 = todo
  BY <1>2, <1>3
<1>5. maps[todo - 1].address <= maps[todo].address
  BY <1>4 DEF Types, MapsAreValid, Sorted
<1>6. maps[todo - 1].address \in Nat /\ maps[todo].address \in Nat
      /\ groups[Len(groups)].start \in Nat
  BY <1>1, <1>4, MapFacts, GroupFacts
<1> QED BY <1>1, <1>2, <1>5, <1>6

\* What joining computes in 16 bits for a group of k cells from s on, when w cells from
\* a on join it.
Joins(s, k, a, w, end, new_end, q) ==
    /\ end = (s + k - 1) % AddrMod
    /\ ~(a > (end + 1) % AddrMod)
    /\ new_end = Max({end, (a + w - 1) % AddrMod})
    /\ q = (new_end - s + 1) % AddrMod

\* What that means: it grows to the end of both, unless it then has all 2^16 cells and
\* none are left of them in 16 bits, or the new cells run past the end and add nothing.
Joined(s, k, a, w, q) ==
    /\ q \in 0..AddrMod-1
    /\ q = 0 => s = 0
    /\ k > 0 => /\ a <= s + k /\ s + k <= AddrMod
                /\ a + w <= AddrMod => \/ q = Max({s + k, a + w}) - s
                                       \/ s = 0 /\ Max({s + k, a + w}) = AddrMod
                /\ a + w > AddrMod => q = k

LEMMA JoinArithmetic ==
    ASSUME NEW s \in 0..AddrMod-1, NEW k \in 0..AddrMod-1, NEW a \in 0..AddrMod-1,
           NEW w \in 1..AddrMod-1, s <= a, k = 0 => s = 0,
           NEW end, NEW new_end, NEW q, Joins(s, k, a, w, end, new_end, q)
    PROVE  Joined(s, k, a, w, q)
<1>0. AddrMod \in Nat \ {0}
  BY PlanAssumption
<1>2. end = (s + k - 1) % AddrMod
  BY DEF Joins
<1>3. new_end = Max({end, (a + w - 1) % AddrMod})
  BY DEF Joins
<1>4. q = (new_end - s + 1) % AddrMod
  BY DEF Joins
<1>5. ~(a > (end + 1) % AddrMod)
  BY DEF Joins
<1>6. CASE k = 0
  <2>1. s = 0 /\ s + k - 1 = -1
    BY <1>6
  <2>2. end = AddrMod - 1
    BY <1>2, <2>1, ModFacts
  <2>3. (end + 1) % AddrMod = 0
    BY <1>0, <2>2, ModFacts
  <2>4. a = 0
    BY <1>0, <1>5, <2>3
  <2>5. (a + w - 1) % AddrMod = w - 1
    BY <1>0, <2>4, ModFacts
  <2>6. new_end = AddrMod - 1
    <3>1. Max({AddrMod - 1, w - 1}) = IF AddrMod - 1 >= w - 1 THEN AddrMod - 1 ELSE w - 1
      BY <1>0, MaxFacts
    <3>2. new_end = Max({AddrMod - 1, w - 1})
      BY <1>3, <2>2, <2>5
    <3> QED BY <1>0, <3>1, <3>2
  <2>7. q = 0
    <3>1. new_end - s + 1 = AddrMod
      BY <1>0, <2>1, <2>6
    <3>2. q = AddrMod % AddrMod /\ AddrMod \in Int
      BY <1>0, <1>4, <3>1
    <3> QED BY <3>2, ModFacts
  <2> QED BY <1>0, <1>6, <2>1, <2>7 DEF Joined
<1>7. CASE k > 0
  <2>1. s + k <= AddrMod
    <3> SUFFICES ASSUME s + k > AddrMod PROVE FALSE
      BY <1>0
    <3>1. PICK y \in Int : y = s + k - 1 - AddrMod /\ 0 <= y /\ y < AddrMod
      BY <1>0
    <3>2. end = y
      BY <1>0, <1>2, <3>1, TurnFacts
    <3>3. (end + 1) % AddrMod = s + k - AddrMod
      <4>1. end + 1 = s + k - AddrMod /\ 0 <= end + 1 /\ end + 1 < AddrMod /\ end + 1 \in Int
        BY <1>0, <3>1, <3>2
      <4> QED BY <4>1, ModFacts
    <3> QED BY <1>0, <1>5, <3>3
  <2>2. end = s + k - 1
    BY <1>0, <1>2, <1>7, <2>1, ModFacts
  <2>3. a <= s + k /\ (s + k = AddrMod => s = 0)
    <3>1. CASE s + k < AddrMod
      <4>1. (end + 1) % AddrMod = s + k
        BY <1>0, <2>2, <3>1, ModFacts
      <4> QED BY <1>0, <1>5, <3>1, <4>1
    <3>2. CASE s + k = AddrMod
      <4>1. (end + 1) % AddrMod = 0
        BY <1>0, <2>2, <3>2, ModFacts
      <4> QED BY <1>0, <1>5, <3>2, <4>1
    <3> QED BY <1>0, <2>1, <3>1, <3>2
  <2>4. s + k < AddrMod
    BY <1>0, <2>1, <2>3
  <2>5. CASE a + w <= AddrMod
    <3>1. (a + w - 1) % AddrMod = a + w - 1
      BY <1>0, <2>5, ModFacts
    <3>2. PICK e \in 1..AddrMod : e = Max({s + k, a + w}) /\ e - s \in 1..AddrMod
                                  /\ new_end = e - 1
      <4>1. Max({s + k, a + w}) = IF s + k >= a + w THEN s + k ELSE a + w
        BY <1>0, MaxFacts
      <4>2. Max({s + k - 1, a + w - 1}) = IF s + k - 1 >= a + w - 1 THEN s + k - 1 ELSE a + w - 1
        BY <1>0, MaxFacts
      <4>3. new_end = Max({s + k - 1, a + w - 1})
        BY <1>3, <2>2, <3>1
      <4> QED BY <1>0, <1>7, <2>1, <2>5, <4>1, <4>2, <4>3
    <3>3. q = (e - s) % AddrMod
      <4>1. new_end - s + 1 = e - s
        BY <1>0, <3>2
      <4> QED BY <1>4, <4>1
    <3>4. e - s = AddrMod => q = 0 /\ s = 0 /\ e = AddrMod
      <4>1. e - s = AddrMod => s = 0 /\ e = AddrMod
        BY <1>0, <3>2
      <4>2. e - s = AddrMod => q = AddrMod % AddrMod
        BY <3>3
      <4>3. AddrMod % AddrMod = 0
        BY <1>0, ModFacts
      <4> QED BY <4>1, <4>2, <4>3
    <3>5. e - s < AddrMod => q = e - s
      BY <1>0, <3>2, <3>3, ModFacts
    <3>6. e - s < AddrMod \/ e - s = AddrMod
      BY <1>0, <3>2
    <3>7. q \in 0..AddrMod-1 /\ (q = 0 => s = 0)
      BY <1>0, <3>2, <3>4, <3>5, <3>6
    <3>8. q = Max({s + k, a + w}) - s \/ (s = 0 /\ Max({s + k, a + w}) = AddrMod)
      BY <3>2, <3>4, <3>5, <3>6
    <3>9. ~(a + w > AddrMod)
      BY <1>0, <2>5
    <3> QED BY <2>1, <2>3, <3>7, <3>8, <3>9 DEF Joined
  <2>6. CASE a + w > AddrMod
    <3>1. (a + w - 1) % AddrMod = a + w - 1 - AddrMod
      <4>1. PICK y \in Int : y = a + w - 1 - AddrMod /\ 0 <= y /\ y < AddrMod
        BY <1>0, <2>6
      <4> QED BY <1>0, <4>1, TurnFacts
    <3>2. new_end = s + k - 1
      <4>1. s + k - 1 \in Int /\ a + w - 1 - AddrMod \in Int
        BY <1>0
      <4>2. Max({s + k - 1, a + w - 1 - AddrMod})
              = IF s + k - 1 >= a + w - 1 - AddrMod THEN s + k - 1 ELSE a + w - 1 - AddrMod
        BY <4>1, MaxFacts
      <4>3. new_end = Max({s + k - 1, a + w - 1 - AddrMod})
        BY <1>3, <2>2, <3>1
      <4>4. s + k - 1 >= a + w - 1 - AddrMod
        BY <1>0, <2>3
      <4> QED BY <4>2, <4>3, <4>4
    <3>3. q = k
      <4>1. new_end - s + 1 = k
        BY <1>0, <3>2
      <4> QED BY <1>0, <1>4, <4>1, ModFacts
    <3>4. ~(a + w <= AddrMod)
      BY <1>0, <2>6
    <3> QED BY <1>0, <1>7, <2>1, <2>3, <3>3, <3>4 DEF Joined
  <2> QED BY <1>0, <2>5, <2>6
<1> QED BY <1>0, <1>6, <1>7

\* What a mapping does to the groups.
LEMMA GroupOutcome ==
    ASSUME Types, GroupMapping \/ FinsGroupMapping
    PROVE  /\ todo \in DOMAIN maps
           /\ phase = "group"
           /\ todo' = todo + 1
           /\ UNCHANGED <<config, phase, readVars, registry>>
           /\ LET last == groups[Len(groups)]
                  m == maps[todo]
              IN  \/ /\ groups' = NewGroup(m)
                     /\ space = "area" /\ groups # << >> => last.start + last.quantity <= m.address
                  \/ /\ Len(groups) \in DOMAIN groups
                     /\ last.start <= m.address
                     /\ \E q \in Width :
                          /\ groups' = JoinLast(q)
                          /\ q = 0 => last.start = 0 /\ space # "area"
                          /\ last.quantity > 0 =>
                               /\ m.address <= last.start + last.quantity
                               /\ space # "area" => InSpace(last)
                               /\ Adds(m) => \/ q = JoinedQuantity(last, m)
                                             \/ /\ space # "area"
                                                /\ last.start = 0
                                                /\ JoinedQuantity(last, m) = AddrMod
                               /\ ~Adds(m) => q = last.quantity
<1>1. /\ todo \in DOMAIN maps /\ phase = "group" /\ todo' = todo + 1
      /\ UNCHANGED <<config, phase, readVars, registry>>
  BY DEF GroupMapping, FinsGroupMapping
<1> DEFINE m == maps[todo]
           last == groups[Len(groups)]
<1>2. m.address \in Nat /\ m.quantity \in 1..AddrMod-1 /\ (space # "area" => m.address \in 0..AddrMod-1)
  BY <1>1, MapFacts
<1>3. ASSUME groups # << >>
      PROVE  /\ Len(groups) \in DOMAIN groups /\ last.start <= m.address
             /\ last.start \in Width /\ last.quantity \in Width
             /\ last.start \in Nat /\ last.quantity \in Nat
             /\ last.quantity = 0 => last.start = 0 /\ space # "area"
  BY <1>1, <1>3, LastStart, GroupFacts
<1>4. CASE GroupMapping
  <2>1. space # "area"
    BY <1>4 DEF GroupMapping
  <2>2. CASE groups = << >> \/ m.address > (((last.start + last.quantity - 1) % AddrMod) + 1) % AddrMod
    <3>1. groups' = NewGroup(m)
      BY <1>4, <2>2 DEF GroupMapping
    <3> QED BY <1>1, <2>1, <3>1
  <2>3. CASE ~(groups = << >> \/ m.address > (((last.start + last.quantity - 1) % AddrMod) + 1) % AddrMod)
    <3>1. PICK s \in 0..AddrMod-1, k \in 0..AddrMod-1, a \in 0..AddrMod-1, w \in 1..AddrMod-1 :
             /\ s = last.start /\ k = last.quantity /\ a = m.address /\ w = m.quantity
             /\ s <= a /\ (k = 0 => s = 0)
      BY <1>2, <1>3, <2>1, <2>3, WidthFacts
    <3>2. PICK end : end = (s + k - 1) % AddrMod
      OBVIOUS
    <3>3. PICK new_end : new_end = Max({end, (a + w - 1) % AddrMod})
      OBVIOUS
    <3>4. PICK q : q = (new_end - s + 1) % AddrMod
      OBVIOUS
    <3>5. groups' = JoinLast(q) /\ ~(a > (end + 1) % AddrMod)
      BY <1>4, <2>3, <3>1, <3>2, <3>3, <3>4 DEF GroupMapping
    <3>6. Joins(s, k, a, w, end, new_end, q)
      BY <3>2, <3>3, <3>4, <3>5 DEF Joins
    <3>7. Joined(s, k, a, w, q)
      BY <3>1, <3>6, JoinArithmetic
    <3>8. JoinedQuantity(last, m) = Max({s + k, a + w}) - s
      BY <3>1 DEF JoinedQuantity
    <3>9. Adds(m) <=> a + w <= AddrMod
      BY <2>1, <3>1 DEF Adds, Fits
    <3>10. a + w \in Int /\ AddrMod \in Int
      BY PlanAssumption
    <3>11. s = 0 /\ Max({s + k, a + w}) = AddrMod => Max({s + k, a + w}) - s = AddrMod
      BY <3>10
    <3>12. q \in Width
      BY <2>1, <3>7 DEF Width, Joined
    <3>13. k > 0 => /\ a <= s + k /\ InSpace(last)
                    /\ Adds(m) => \/ q = JoinedQuantity(last, m)
                                  \/ s = 0 /\ JoinedQuantity(last, m) = AddrMod
                    /\ ~Adds(m) => q = k
      <4>1. ~(a + w <= AddrMod) => a + w > AddrMod
        BY <3>10
      <4> QED BY <3>1, <3>7, <3>8, <3>9, <3>11, <4>1 DEF InSpace, Joined
    <3>14. q = 0 => s = 0
      BY <3>7 DEF Joined
    <3> QED BY <1>1, <1>3, <2>1, <2>3, <3>1, <3>5, <3>12, <3>13, <3>14
  <2> QED BY <2>2, <2>3
<1>5. CASE FinsGroupMapping
  <2>1. space = "area"
    BY <1>5 DEF FinsGroupMapping
  <2>2. CASE groups = << >> \/ m.address > last.start + last.quantity - 1 + 1
    <3>1. groups' = NewGroup(m)
      BY <1>5, <2>2 DEF FinsGroupMapping
    <3>2. groups # << >> => last.start + last.quantity <= m.address
      BY <1>2, <1>3, <2>2
    <3> QED BY <1>1, <3>1, <3>2
  <2>3. CASE ~(groups = << >> \/ m.address > last.start + last.quantity - 1 + 1)
    <3>1. PICK s \in Nat, k \in Nat, a \in Nat, w \in Nat :
             /\ s = last.start /\ k = last.quantity /\ a = m.address /\ w = m.quantity
             /\ s <= a /\ k > 0 /\ w > 0 /\ a <= s + k
      BY <1>2, <1>3, <2>1, <2>3, PlanAssumption, SMTT(30)
    <3>2. PICK q : q = Max({s + k - 1, a + w - 1}) - s + 1
      OBVIOUS
    <3>3. groups' = JoinLast(q)
      BY <1>5, <2>3, <3>1, <3>2 DEF FinsGroupMapping
    <3>4. Max({s + k - 1, a + w - 1}) = IF s + k - 1 >= a + w - 1 THEN s + k - 1 ELSE a + w - 1
      BY MaxFacts
    <3>5. Max({s + k, a + w}) = IF s + k >= a + w THEN s + k ELSE a + w
      BY MaxFacts
    <3>6. q = Max({s + k, a + w}) - s /\ q \in Nat /\ q > 0
      <4>1. k > 0 /\ w > 0 /\ s <= a
        BY <3>1
      <4>2. CASE s + k >= a + w
        BY <3>2, <3>4, <3>5, <4>1, <4>2
      <4>3. CASE ~(s + k >= a + w)
        BY <3>2, <3>4, <3>5, <4>1, <4>3
      <4> QED BY <4>2, <4>3
    <3>7. q = JoinedQuantity(last, m)
      BY <3>1, <3>6 DEF JoinedQuantity
    <3>8. q \in Width /\ Adds(m) /\ q # 0
      BY <2>1, <3>6 DEF Width, Adds
    <3> QED BY <1>1, <1>3, <2>1, <2>3, <3>1, <3>3, <3>7, <3>8
  <2> QED BY <2>2, <2>3
<1> QED BY <1>4, <1>5

-----------------------------------------------------------------------------
(***************************************************************************)
(* Answers.                                                                *)
(***************************************************************************)

Addrs == 0..AddrMod-1

\* A sequence of words that each begin with an address.
AreWords(words) ==
    /\ words = [i \in 1..Len(words) |-> words[i]]
    /\ Len(words) \in Nat
    /\ \A i \in 1..Len(words) : words[i][1] \in Addrs

LEMMA WordsOfFacts ==
    ASSUME NEW type \in DataTypes PROVE WordsOf(type) \in 0..4
BY DEF WordsOf, DataTypes

\* n coils from w on, packed into words: every word has a first coil.
LEMMA CoilFacts ==
    ASSUME NEW c \in Nat \ {0}, NEW n \in Nat \ {0},
           NEW w \in 1..((n + c - 1) \div c)
    PROVE  (w - 1) * c \in Nat /\ (w - 1) * c < n
<1>1. PICK q \in Int : q = (n + c - 1) \div c
  OBVIOUS
<1>2. q * c <= n + c - 1
  BY <1>1
<1>3. PICK v \in Nat : v = w - 1 /\ v + 1 <= q
  BY <1>1
<1>4. PICK d \in Nat : d = q - (v + 1)
  BY <1>3
<1>5. q * c = v * c + d * c + c
  BY <1>3, <1>4
<1>6. v * c \in Nat /\ d * c \in Nat
  OBVIOUS
<1>7. PICK x \in Nat, y \in Nat, z \in Int : x = v * c /\ y = d * c /\ z = q * c
  BY <1>5, <1>6
<1>8. z = x + y + c /\ z <= n + c - 1
  BY <1>2, <1>5, <1>7
<1> QED BY <1>3, <1>7, <1>8

LEMMA PayloadFacts ==
    ASSUME NEW start \in Addrs, NEW n \in 1..AddrMod, start + n <= AddrMod
    PROVE  /\ AreWords(RegisterWords(start, n)) /\ Len(RegisterWords(start, n)) = n
           /\ \A i \in 1..n : RegisterWords(start, n)[i][1] = start + i - 1
           /\ AreWords(Payload(start, n))
           /\ space # "coils" => Payload(start, n) = RegisterWords(start, n)
           /\ n = 1 => Len(CoilWords(start, n)) = 1 /\ CoilWords(start, n)[1][1] = start
<1>0. AddrMod \in Nat \ {0} /\ CoilsPerWord \in Nat \ {0}
  BY PlanAssumption
<1>1. /\ Len(RegisterWords(start, n)) = n
      /\ RegisterWords(start, n) = [i \in 1..n |-> <<start + i - 1>>]
  BY <1>0 DEF RegisterWords
<1>2. \A i \in 1..n : RegisterWords(start, n)[i][1] = start + i - 1
  BY <1>1
<1>3. AreWords(RegisterWords(start, n))
  BY <1>0, <1>1, <1>2 DEF AreWords, Addrs
<1>4. PICK k \in Nat : k = (n + CoilsPerWord - 1) \div CoilsPerWord
  BY <1>0
<1> DEFINE width(w) == Min({CoilsPerWord, n - (w - 1) * CoilsPerWord})
<1>5. ASSUME NEW w \in 1..k
      PROVE  (w - 1) * CoilsPerWord \in Nat /\ (w - 1) * CoilsPerWord < n /\ width(w) >= 1
  <2>1. (w - 1) * CoilsPerWord \in Nat /\ (w - 1) * CoilsPerWord < n
    BY <1>0, <1>4, CoilFacts
  <2>2. PICK x \in Nat : x = (w - 1) * CoilsPerWord /\ x < n
    BY <2>1
  <2>3. Min({CoilsPerWord, n - x}) = IF CoilsPerWord <= n - x THEN CoilsPerWord ELSE n - x
    BY <1>0, MinFacts
  <2>4. width(w) = Min({CoilsPerWord, n - x})
    BY <2>2
  <2> HIDE DEF width
  <2> QED BY <1>0, <2>1, <2>2, <2>3, <2>4
<1>6. CoilWords(start, n) = [w \in 1..k |-> [b \in 1..width(w) |->
                                start + (w - 1) * CoilsPerWord + b - 1]]
  BY <1>4 DEF CoilWords
<1>7. Len(CoilWords(start, n)) = k
  BY <1>6
<1>8. ASSUME NEW w \in 1..k
      PROVE  CoilWords(start, n)[w][1] = start + (w - 1) * CoilsPerWord
  <2>1. CoilWords(start, n)[w] = [b \in 1..width(w) |-> start + (w - 1) * CoilsPerWord + b - 1]
    BY <1>6
  <2>2. width(w) \in Int
    <3>1. PICK x \in Nat : x = (w - 1) * CoilsPerWord
      BY <1>5
    <3>2. Min({CoilsPerWord, n - x}) = IF CoilsPerWord <= n - x THEN CoilsPerWord ELSE n - x
      BY <1>0, MinFacts
    <3>3. width(w) = Min({CoilsPerWord, n - x})
      BY <3>1
    <3> HIDE DEF width
    <3> QED BY <1>0, <3>2, <3>3
  <2>3. 1 \in 1..width(w)
    BY <1>5, <2>2
  <2>4. CoilWords(start, n)[w][1] = start + (w - 1) * CoilsPerWord + 1 - 1
    BY <2>1, <2>3
  <2>5. PICK x \in Nat : x = (w - 1) * CoilsPerWord
    BY <1>5
  <2> QED BY <2>4, <2>5 DEF Addrs
<1>9. AreWords(CoilWords(start, n))
  <2>1. ASSUME NEW w \in 1..k PROVE CoilWords(start, n)[w][1] \in Addrs
    <3>1. PICK x \in Nat : x = (w - 1) * CoilsPerWord /\ x < n
      BY <1>5
    <3>2. start + x \in Addrs
      BY <1>0, <3>1 DEF Addrs
    <3> QED BY <1>8, <3>1, <3>2
  <2>2. CoilWords(start, n) = [w \in 1..k |-> CoilWords(start, n)[w]]
    BY <1>6
  <2> QED BY <1>7, <2>1, <2>2 DEF AreWords
<1>10. ASSUME n = 1 PROVE Len(CoilWords(start, n)) = 1 /\ CoilWords(start, n)[1][1] = start
  <2>1. k = 1
    <3>1. n + CoilsPerWord - 1 = CoilsPerWord
      BY <1>0, <1>10
    <3>2. CoilsPerWord \div CoilsPerWord = 1
      BY <1>0
    <3> QED BY <1>4, <3>1, <3>2
  <2>2. CoilWords(start, n)[1][1] = start + (1 - 1) * CoilsPerWord
    BY <1>8, <2>1
  <2>3. (1 - 1) * CoilsPerWord = 0
    BY <1>0
  <2> QED BY <1>7, <2>1, <2>2, <2>3 DEF Addrs
<1> QED BY <1>1, <1>2, <1>3, <1>9, <1>10 DEF Payload

\* A part of words is words.
LEMMA PartOfWords ==
    ASSUME NEW words, AreWords(words), NEW f \in Nat, NEW u \in Nat, f < u, u <= Len(words)
    PROVE  /\ Len(SubSeq(words, f + 1, u)) = u - f
           /\ \A i \in 1..(u - f) : SubSeq(words, f + 1, u)[i] = words[f + i]
           /\ AreWords(SubSeq(words, f + 1, u))
<1>1. PICK n \in Nat : n = Len(words)
  BY DEF AreWords
<1>2. PICK S : \A i \in (f + 1)..u : words[i] \in S
  <2>1. \A i \in (f + 1)..u : words[i] \in {words[k] : k \in (f + 1)..u}
    OBVIOUS
  <2> QED BY <2>1
<1>3. /\ SubSeq(words, f + 1, u) \in Seq(S)
      /\ Len(SubSeq(words, f + 1, u)) = u - f
      /\ \A i \in 1..(u - f) : SubSeq(words, f + 1, u)[i] = words[f + i]
  <2>1. f + 1 \in Int /\ u \in Int /\ f + 1 <= u /\ u - (f + 1) + 1 = u - f
    OBVIOUS
  <2>2. /\ SubSeq(words, f + 1, u) \in Seq(S)
        /\ Len(SubSeq(words, f + 1, u)) = u - f
        /\ \A i \in 1..(u - f) : SubSeq(words, f + 1, u)[i] = words[f + 1 + i - 1]
    BY <1>2, <2>1, SubSeqProperties
  <2>3. \A i \in 1..(u - f) : f + 1 + i - 1 = f + i
    OBVIOUS
  <2> QED BY <2>2, <2>3
<1>4. \A i \in 1..(u - f) : words[f + i][1] \in Addrs
  BY <1>1 DEF AreWords
<1>5. PICK part \in Seq(S) : part = SubSeq(words, f + 1, u)
  BY <1>3
<1>6. part = [i \in 1..Len(part) |-> part[i]] /\ Len(part) \in Nat
  OBVIOUS
<1>7. \A i \in 1..Len(part) : part[i][1] \in Addrs
  BY <1>3, <1>4, <1>5
<1>8. AreWords(part)
  BY <1>6, <1>7 DEF AreWords
<1> QED BY <1>3, <1>5, <1>8

LEMMA DecodeFacts ==
    ASSUME NEW type \in DataTypes, NEW words, AreWords(words)
    PROVE  /\ Decode(type, words).quality = "good"
           /\ Decode(type, words).value \in Seq(Addrs \union {Zero})
           /\ Len(words) >= WordsOf(type) =>
                Decode(type, words).value =
                    [i \in 1..(IF WordsOf(type) = 0 THEN Len(words) ELSE WordsOf(type)) |-> words[i][1]]
<1>1. WordsOf(type) \in Nat /\ Len(words) \in Nat
  BY WordsOfFacts DEF AreWords
<1>2. PICK n \in Nat : n = IF WordsOf(type) = 0 THEN Len(words) ELSE WordsOf(type)
  BY <1>1
<1>3. Decode(type, words) = [quality |-> "good",
         value |-> [i \in 1..n |-> IF i <= Len(words) THEN words[i][1] ELSE Zero]]
  BY <1>2 DEF Decode
<1>4. ASSUME NEW i \in 1..n
      PROVE  (IF i <= Len(words) THEN words[i][1] ELSE Zero) \in Addrs \union {Zero}
  BY <1>1 DEF AreWords
<1>5. [i \in 1..n |-> IF i <= Len(words) THEN words[i][1] ELSE Zero] \in Seq(Addrs \union {Zero})
  BY <1>4
<1>6. ASSUME Len(words) >= WordsOf(type)
      PROVE  [i \in 1..n |-> IF i <= Len(words) THEN words[i][1] ELSE Zero]
             = [i \in 1..n |-> words[i][1]]
  BY <1>1, <1>2, <1>6
<1> QED BY <1>2, <1>3, <1>5, <1>6

\* A request that is refused runs past the end, and one that is not is carried to an
\* address inside the memory, its own where the frame can carry it.
LEMMA RefusedFacts ==
    ASSUME NEW start \in Nat, NEW n \in 1..AddrMod
    PROVE  /\ Refused(start, n) => start + n > AddrMod
           /\ ~Refused(start, n) => Carried(start) \in Addrs /\ Carried(start) + n <= AddrMod
           /\ space # "area" \/ start < AddrMod => Carried(start) = start
<1>1. AddrMod \in Nat \ {0} /\ FinsMod \in Nat \ {0} /\ FinsMod >= AddrMod
  BY PlanAssumption
<1>2. /\ start % FinsMod \in 0..FinsMod-1
      /\ start < FinsMod => start % FinsMod = start
  BY <1>1
<1>3. PICK r \in Nat : r = start % FinsMod /\ r <= start /\ (start < FinsMod => r = start)
  BY <1>1, <1>2
<1>4. Carried(start) = IF space = "area" THEN r ELSE start
  BY <1>3 DEF Carried
<1>5. Carried(start) \in Nat /\ Carried(start) <= start
  BY <1>3, <1>4
<1>6. Refused(start, n) <=> Carried(start) + n > AddrMod
  BY DEF Refused
<1>7. space # "area" \/ start < AddrMod => Carried(start) = start
  BY <1>1, <1>3, <1>4
<1> QED BY <1>1, <1>5, <1>6, <1>7 DEF Addrs

\* The part of a mapping that a request reads.
LEMMA PartFacts ==
    ASSUME Types, NEW t \in DOMAIN maps, NEW start \in Nat, NEW n \in 1..AddrMod,
           Overlaps(maps[t], start, n)
    PROVE  /\ From(maps[t], start) \in Nat /\ To(maps[t], start, n) \in Nat
           /\ From(maps[t], start) < To(maps[t], start, n)
           /\ To(maps[t], start, n) <= n
           /\ Cells(maps[t]) \subseteq start..(start + n - 1) =>
                /\ From(maps[t], start) = maps[t].address - start
                /\ To(maps[t], start, n) = maps[t].address + maps[t].quantity - start
<1>1. PICK a \in Nat, w \in 1..AddrMod-1 : a = maps[t].address /\ w = maps[t].quantity
  BY MapFacts
<1>2. AddrMod \in Nat
  BY PlanAssumption
<1>3. a + w > start /\ a < start + n
  BY <1>1 DEF Overlaps
<1>4. From(maps[t], start) = (IF a >= start THEN a ELSE start) - start
  BY <1>1, <1>2, MaxFacts DEF From
<1>5. To(maps[t], start, n) = (IF a + w <= start + n THEN a + w ELSE start + n) - start
  BY <1>1, <1>2, MinFacts DEF To
<1>6. ASSUME Cells(maps[t]) \subseteq start..(start + n - 1)
      PROVE  start <= a /\ a + w <= start + n
  <2>1. a \in Cells(maps[t]) /\ a + w - 1 \in Cells(maps[t])
    BY <1>1, <1>2 DEF Cells
  <2>2. a \in start..(start + n - 1) /\ a + w - 1 \in start..(start + n - 1)
    BY <1>6, <2>1
  <2> QED BY <1>1, <1>2, <2>2
<1> QED BY <1>1, <1>2, <1>3, <1>4, <1>5, <1>6

\* What an answer says about a mapping that it overlaps, with either driver.
Verdict(t, start, n) ==
    IF space = "area" THEN FinsDelivered(maps[t], start, n) ELSE Delivered(maps[t], start, n)

\* Read as a whole by a request for n cells from start on.
WholeIn(t, start, n) ==
    /\ Fits(maps[t])
    /\ maps[t].quantity >= WordsOf(maps[t].type)
    /\ Cells(maps[t]) \subseteq start..(start + n - 1)
    /\ space = "coils" => n = 1

LEMMA VerdictFacts ==
    ASSUME Types, NEW t \in DOMAIN maps, NEW start \in Nat, NEW n \in 1..AddrMod,
           ~Refused(start, n), Overlaps(maps[t], start, n)
    PROVE  /\ Verdict(t, start, n).quality \in {"good", "config_error", "error"}
           /\ Verdict(t, start, n).value \in Seq(Addrs \union {Zero})
           /\ WholeIn(t, start, n) => /\ Verdict(t, start, n).quality = "good"
                                      /\ Verdict(t, start, n).value = OwnValue(maps[t])
<1>0. PICK f \in Nat, u \in Nat :
         /\ f = From(maps[t], start) /\ u = To(maps[t], start, n) /\ f < u /\ u <= n
         /\ Cells(maps[t]) \subseteq start..(start + n - 1) =>
                /\ f = maps[t].address - start
                /\ u = maps[t].address + maps[t].quantity - start
  BY PartFacts
<1>1. PICK type \in DataTypes, a \in Nat, w \in 1..AddrMod-1 :
         type = maps[t].type /\ a = maps[t].address /\ w = maps[t].quantity
  BY MapFacts
<1>2. AddrMod \in Nat \ {0} /\ WordsOf(type) \in Nat
  BY PlanAssumption, WordsOfFacts
<1>3. << >> \in Seq(Addrs \union {Zero})
  OBVIOUS
<1>4. OwnValue(maps[t]) = [i \in 1..(IF WordsOf(type) = 0 THEN w ELSE WordsOf(type)) |-> a + i - 1]
  BY <1>1 DEF OwnValue
<1>5. ASSUME NEW P, AreWords(P), u <= Len(P), NEW words, words = SubSeq(P, f + 1, u)
      PROVE  /\ AreWords(words) /\ Len(words) = u - f
             /\ Decode(type, words).quality = "good"
             /\ Decode(type, words).value \in Seq(Addrs \union {Zero})
             /\ WholeIn(t, start, n) /\ (\A i \in 1..w : P[f + i][1] = a + i - 1) =>
                    Decode(type, words).value = OwnValue(maps[t])
  <2>1. /\ AreWords(words) /\ Len(words) = u - f
        /\ \A i \in 1..(u - f) : words[i] = P[f + i]
    BY <1>0, <1>5, PartOfWords
  <2>2. /\ Decode(type, words).quality = "good"
        /\ Decode(type, words).value \in Seq(Addrs \union {Zero})
    BY <2>1, DecodeFacts
  <2>3. ASSUME WholeIn(t, start, n), \A i \in 1..w : P[f + i][1] = a + i - 1
        PROVE  Decode(type, words).value = OwnValue(maps[t])
    <3>1. u - f = w /\ w >= WordsOf(type)
      BY <1>0, <1>1, <1>2, <2>3 DEF WholeIn
    <3>2. PICK k \in Nat : k = IF WordsOf(type) = 0 THEN w ELSE WordsOf(type)
      BY <1>2
    <3>3. Decode(type, words).value = [i \in 1..k |-> words[i][1]]
      BY <1>2, <2>1, <3>1, <3>2, DecodeFacts, SMTT(30)
    <3>4. \A i \in 1..k : words[i][1] = a + i - 1
      <4>1. \A i \in 1..k : i \in 1..w /\ i \in 1..(u - f)
        BY <1>2, <3>1, <3>2
      <4> QED BY <2>1, <2>3, <4>1
    <3>5. [i \in 1..k |-> words[i][1]] = [i \in 1..k |-> a + i - 1]
      BY <3>4
    <3> QED BY <1>4, <3>2, <3>3, <3>5
  <2> QED BY <2>1, <2>2, <2>3
<1> DEFINE from == Carried(start)
<1>6. /\ AreWords(RegisterWords(from, n)) /\ Len(RegisterWords(from, n)) = n
      /\ \A i \in 1..n : RegisterWords(from, n)[i][1] = from + i - 1
      /\ AreWords(Payload(from, n))
      /\ space # "coils" => Payload(from, n) = RegisterWords(from, n)
      /\ n = 1 => Len(CoilWords(from, n)) = 1 /\ CoilWords(from, n)[1][1] = from
  <2>1. from \in Addrs /\ from + n <= AddrMod
    BY RefusedFacts
  <2> HIDE DEF from
  <2> QED BY <2>1, PayloadFacts
<1>7. ASSUME WholeIn(t, start, n)
      PROVE  f = a - start /\ u = a + w - start /\ a >= start /\ w <= n /\ u <= n
             /\ from = start
             /\ \A i \in 1..w : RegisterWords(from, n)[f + i][1] = a + i - 1
  <2>1. f = a - start /\ u = a + w - start /\ a >= start /\ w <= n /\ u <= n
    BY <1>0, <1>1, <1>2, <1>7 DEF WholeIn
  <2>2. from = start
    <3>1. a + w <= AddrMod
      BY <1>1, <1>7 DEF WholeIn, Fits
    <3>2. start < AddrMod
      BY <1>2, <2>1, <3>1
    <3> QED BY <3>2, RefusedFacts
  <2>3. ASSUME NEW i \in 1..w PROVE RegisterWords(from, n)[f + i][1] = a + i - 1
    <3>1. f + i \in 1..n /\ start + (f + i) - 1 = a + i - 1
      BY <1>0, <1>1, <1>2, <2>1
    <3> HIDE DEF from
    <3> QED BY <1>6, <2>2, <3>1
  <2> QED BY <2>1, <2>2, <2>3
<1>8. CASE space = "area"
  <2> DEFINE words == SubSeq(RegisterWords(from, n), f + 1, u)
  <2>1. Verdict(t, start, n) = FinsDecode(type, words)
    BY <1>0, <1>1, <1>8 DEF Verdict, FinsDelivered
  <2>2. /\ AreWords(words) /\ Len(words) = u - f
        /\ Decode(type, words).quality = "good"
        /\ Decode(type, words).value \in Seq(Addrs \union {Zero})
        /\ WholeIn(t, start, n) => Decode(type, words).value = OwnValue(maps[t])
    BY <1>0, <1>5, <1>6, <1>7
  <2> HIDE DEF words
  <2>3. CASE EnoughWords(type, words)
    BY <2>1, <2>2, <2>3 DEF FinsDecode
  <2>4. CASE ~EnoughWords(type, words)
    <3>1. Verdict(t, start, n) = [quality |-> "error", value |-> << >>]
      BY <2>1, <2>4 DEF FinsDecode
    <3>2. ~WholeIn(t, start, n)
      <4> SUFFICES ASSUME WholeIn(t, start, n) PROVE FALSE
        OBVIOUS
      <4>1. u - f = w /\ w >= WordsOf(type)
        BY <1>1, <1>2, <1>7 DEF WholeIn
      <4> QED BY <2>2, <2>4, <4>1 DEF EnoughWords
    <3> QED BY <1>3, <3>1, <3>2
  <2> QED BY <2>3, <2>4
<1>9. CASE space # "area"
  <2>0. from = start
    BY <1>9, RefusedFacts
  <2> DEFINE words == SubSeq(Payload(start, n), f + 1, u)
  <2>1. Verdict(t, start, n) = IF u > Len(Payload(start, n))
                               THEN [quality |-> "config_error", value |-> << >>]
                               ELSE Decode(type, words)
    BY <1>0, <1>1, <1>9 DEF Verdict, Delivered
  <2>2. /\ AreWords(Payload(start, n)) /\ Len(Payload(start, n)) \in Nat
        /\ Len(RegisterWords(start, n)) = n
        /\ space # "coils" => Payload(start, n) = RegisterWords(start, n)
        /\ n = 1 => Len(CoilWords(start, n)) = 1 /\ CoilWords(start, n)[1][1] = start
    BY <1>6, <2>0 DEF AreWords
  <2>3. ASSUME WholeIn(t, start, n)
        PROVE  /\ u <= Len(Payload(start, n))
               /\ \A i \in 1..w : Payload(start, n)[f + i][1] = a + i - 1
    <3>1. CASE space # "coils"
      BY <1>7, <2>0, <2>2, <2>3, <3>1
    <3>2. CASE space = "coils"
      <4>1. n = 1
        BY <2>3, <3>2 DEF WholeIn
      <4>2. Payload(start, n) = CoilWords(start, n)
        BY <3>2 DEF Payload
      <4>3. f = 0 /\ u = 1 /\ w = 1 /\ a = start
        <5>1. f = a - start /\ w <= n
          BY <1>7, <2>3
        <5>2. f < u /\ u <= n
          BY <1>0
        <5>3. a \in Int /\ start \in Int /\ w \in Int /\ w >= 1
          BY <1>2
        <5> QED BY <4>1, <5>1, <5>2, <5>3
      <4>4. Len(Payload(start, n)) = 1 /\ Payload(start, n)[1][1] = start
        BY <2>2, <4>1, <4>2
      <4>5. ASSUME NEW i \in 1..w PROVE Payload(start, n)[f + i][1] = a + i - 1
        <5>1. i = 1 /\ f + i = 1 /\ a + i - 1 = start
          BY <1>2, <4>3
        <5> QED BY <4>4, <5>1
      <4> QED BY <4>3, <4>4, <4>5
    <3> QED BY <3>1, <3>2
  <2>4. CASE u > Len(Payload(start, n))
    <3>1. Verdict(t, start, n) = [quality |-> "config_error", value |-> << >>]
      BY <2>1, <2>4
    <3>2. ~WholeIn(t, start, n)
      BY <2>2, <2>3, <2>4
    <3> QED BY <1>3, <3>1, <3>2
  <2>5. CASE u <= Len(Payload(start, n))
    <3>1. Verdict(t, start, n) = Decode(type, words)
      BY <2>1, <2>2, <2>5
    <3>2. /\ Decode(type, words).quality = "good"
          /\ Decode(type, words).value \in Seq(Addrs \union {Zero})
          /\ WholeIn(t, start, n) => Decode(type, words).value = OwnValue(maps[t])
      BY <1>5, <2>2, <2>3, <2>5
    <3> HIDE DEF words
    <3> QED BY <3>1, <3>2
  <2> QED BY <2>2, <2>4, <2>5
<1> QED BY <1>8, <1>9

\* What the answer to a request of the group being read does to the registry.
LEMMA PublishFacts ==
    ASSUME Types, at \in DOMAIN groups, NEW start \in Nat, NEW n \in 1..AddrMod,
           ~Refused(start, n), Publish(start, n)
    PROVE  /\ quality' \in [DOMAIN maps -> {"initializing", "good", "config_error", "error"}]
           /\ value' \in [DOMAIN maps -> Seq(Addrs \union {Zero})]
           /\ \A t \in DOMAIN maps :
                IF t \in groups[at].members /\ Overlaps(maps[t], start, n)
                THEN /\ quality'[t] # "initializing"
                     /\ WholeIn(t, start, n) =>
                          quality'[t] = "good" /\ value'[t] = OwnValue(maps[t])
                ELSE quality'[t] = quality[t] /\ value'[t] = value[t]
<1> DEFINE hit == {t \in groups[at].members : Overlaps(maps[t], start, n)}
<1>0. groups[at].members \subseteq DOMAIN maps
  BY GroupFacts
<1>1. /\ quality \in [DOMAIN maps -> {"initializing", "good", "config_error", "error"}]
      /\ value \in [DOMAIN maps -> Seq(Addrs \union {Zero})]
  BY DEF Types, TypeOK, Addrs
<1>2. quality' = [t \in DOMAIN maps |-> IF t \in hit THEN Verdict(t, start, n).quality ELSE quality[t]]
  BY DEF Publish, Verdict
<1>3. value' = [t \in DOMAIN maps |-> IF t \in hit /\ Verdict(t, start, n).quality = "good"
                                      THEN Verdict(t, start, n).value ELSE value[t]]
  BY DEF Publish, Verdict
<1>4. \A t \in hit :
         /\ Verdict(t, start, n).quality \in {"good", "config_error", "error"}
         /\ Verdict(t, start, n).value \in Seq(Addrs \union {Zero})
         /\ WholeIn(t, start, n) => /\ Verdict(t, start, n).quality = "good"
                                    /\ Verdict(t, start, n).value = OwnValue(maps[t])
  BY <1>0, VerdictFacts
<1>5. \A t : t \in hit <=> t \in groups[at].members /\ Overlaps(maps[t], start, n)
  OBVIOUS
<1> HIDE DEF hit
<1>6. quality' \in [DOMAIN maps -> {"initializing", "good", "config_error", "error"}]
  BY <1>1, <1>2, <1>4
<1>7. value' \in [DOMAIN maps -> Seq(Addrs \union {Zero})]
  BY <1>1, <1>3, <1>4
<1>8. ASSUME NEW t \in DOMAIN maps, t \in hit
      PROVE  /\ quality'[t] # "initializing"
             /\ WholeIn(t, start, n) => quality'[t] = "good" /\ value'[t] = OwnValue(maps[t])
  BY <1>2, <1>3, <1>4, <1>8
<1>9. ASSUME NEW t \in DOMAIN maps, t \notin hit
      PROVE  quality'[t] = quality[t] /\ value'[t] = value[t]
  BY <1>2, <1>3, <1>9
<1> QED BY <1>5, <1>6, <1>7, <1>8, <1>9

\* What a refusal does to it.
LEMMA MarkFacts ==
    ASSUME Types, NEW v \in {"config_error", "error"}, MarkGroup(v)
    PROVE  /\ quality' \in [DOMAIN maps -> {"initializing", "good", "config_error", "error"}]
           /\ value' = value
           /\ \A t \in DOMAIN maps :
                IF t \in groups[at].members THEN quality'[t] # "initializing"
                                            ELSE quality'[t] = quality[t]
<1>1. quality \in [DOMAIN maps -> {"initializing", "good", "config_error", "error"}]
  BY DEF Types, TypeOK
<1>2. /\ quality' = [t \in DOMAIN maps |-> IF t \in groups[at].members THEN v ELSE quality[t]]
      /\ value' = value
  BY DEF MarkGroup
<1> QED BY <1>1, <1>2

\* A request answered, with data or with a refusal.
Replied(start, n) ==
    \/ ~Refused(start, n) /\ Publish(start, n)
    \/ Refused(start, n) /\ \E v \in {"config_error", "error"} : MarkGroup(v)

\* What either answer does to the registry.
LEMMA ReplyFacts ==
    ASSUME Types, at \in DOMAIN groups, NEW start \in Nat, NEW n \in 1..AddrMod, Replied(start, n)
    PROVE  /\ quality' \in [DOMAIN maps -> {"initializing", "good", "config_error", "error"}]
           /\ value' \in [DOMAIN maps -> Seq(Addrs \union {Zero})]
           /\ \A t \in DOMAIN maps :
                IF t \in groups[at].members /\ (Overlaps(maps[t], start, n) \/ Refused(start, n))
                THEN /\ quality'[t] # "initializing"
                     /\ WholeIn(t, start, n) /\ ~Refused(start, n) =>
                          quality'[t] = "good" /\ value'[t] = OwnValue(maps[t])
                ELSE quality'[t] = quality[t] /\ value'[t] = value[t]
<1>1. value \in [DOMAIN maps -> Seq(Addrs \union {Zero})]
  BY DEF Types, TypeOK, Addrs
<1>2. CASE ~Refused(start, n) /\ Publish(start, n)
  BY <1>2, PublishFacts
<1>3. CASE Refused(start, n) /\ \E v \in {"config_error", "error"} : MarkGroup(v)
  BY <1>1, <1>3, MarkFacts
<1> QED BY <1>2, <1>3 DEF Replied

-----------------------------------------------------------------------------
(***************************************************************************)
(* The steps, as the invariants see them, and type correctness.            *)
(***************************************************************************)

GroupType == [start : Width, quantity : Width, members : SUBSET DOMAIN maps]
RequestType == [start : Width, quantity : 0..AddrMod-1]

LEMMA NewGroupFacts ==
    ASSUME Types, todo \in DOMAIN maps, NEW new, new = NewGroup(maps[todo])
    PROVE  /\ new \in Seq(GroupType)
           /\ Len(new) = Len(groups) + 1
           /\ \A i \in 1..Len(groups) : new[i] = groups[i]
           /\ new[Len(groups) + 1].start = maps[todo].address
           /\ new[Len(groups) + 1].quantity = maps[todo].quantity
           /\ new[Len(groups) + 1].members = {todo}
<1>1. groups \in Seq(GroupType)
  BY DEF Types, TypeOK, GroupType
<1>2. PICK g : g = [start |-> maps[todo].address, quantity |-> maps[todo].quantity, members |-> {todo}]
  OBVIOUS
<1>3. g \in GroupType
  <2>1. maps[todo].address \in Width /\ maps[todo].quantity \in Width
    BY MapFacts, PlanAssumption DEF Width
  <2> QED BY <1>2, <2>1 DEF GroupType
<1>4. new = Append(groups, g)
  BY <1>2 DEF NewGroup
<1>5. /\ new \in Seq(GroupType) /\ Len(new) = Len(groups) + 1
      /\ \A i \in 1..Len(groups) : new[i] = groups[i]
      /\ new[Len(groups) + 1] = g
  BY <1>1, <1>3, <1>4, AppendProperties
<1> QED BY <1>2, <1>5

LEMMA JoinFacts ==
    ASSUME Types, todo \in DOMAIN maps, Len(groups) \in DOMAIN groups, NEW q \in Width,
           NEW new, new = JoinLast(q)
    PROVE  /\ new \in Seq(GroupType)
           /\ Len(new) = Len(groups)
           /\ \A i \in 1..Len(groups) : i # Len(groups) => new[i] = groups[i]
           /\ new[Len(groups)].start = groups[Len(groups)].start
           /\ new[Len(groups)].quantity = q
           /\ new[Len(groups)].members = groups[Len(groups)].members \union {todo}
<1>1. groups \in Seq(GroupType)
  BY DEF Types, TypeOK, GroupType
<1>2. Len(groups) \in 1..Len(groups)
  BY <1>1
<1>3. groups[Len(groups)] \in GroupType
  BY <1>1, <1>2, ElementOfSeq
<1>4. PICK g : g = [start |-> groups[Len(groups)].start, quantity |-> q,
                    members |-> groups[Len(groups)].members \union {todo}]
  OBVIOUS
<1>5. /\ g.start = groups[Len(groups)].start /\ g.quantity = q
      /\ g.members = groups[Len(groups)].members \union {todo}
  BY <1>3, <1>4 DEF GroupType
<1>6. g \in GroupType
  BY <1>3, <1>4 DEF GroupType
<1>7. new = [groups EXCEPT ![Len(groups)] = g]
  BY <1>4 DEF JoinLast
<1>8. new \in Seq(GroupType) /\ Len(new) = Len(groups)
  BY <1>1, <1>2, <1>6, <1>7, ExceptSeq
<1>9. new[Len(groups)] = g /\ \A i \in 1..Len(groups) : i # Len(groups) => new[i] = groups[i]
  BY <1>1, <1>2, <1>7
<1> QED BY <1>5, <1>8, <1>9

\* A request of either driver.  It leaves the rest of its group to be read, or it was
\* refused and ends the cycle (FINS), or reached the last address and ends the group
\* (Modbus).
LEMMA ChunkOutcome ==
    ASSUME Types, ReadChunk \/ FinsReadChunk
    PROVE  /\ phase = "read" /\ at \in DOMAIN groups /\ chunk_start \in Width
           /\ UNCHANGED <<config, planVars>>
           /\ \E n \in 1..AddrMod-1 :
                /\ n <= MaxCells[space] /\ n <= remaining
                /\ chunk_start + n <= groups[at].start + groups[at].quantity
                /\ requests' = Append(requests, [start |-> chunk_start, quantity |-> n])
                /\ Replied(chunk_start, n)
                /\ \/ /\ chunk_start' = chunk_start + n /\ remaining' = remaining - n /\ at' = at
                      /\ chunk_start + n \in Width
                      /\ \/ phase' = "read"
                         \/ phase' = "done" /\ space = "area" /\ Refused(chunk_start, n)
                   \/ chunk_start + n >= AddrMod /\ EnterGroup(at + 1)
<1>1. phase = "read" /\ remaining > 0 /\ UNCHANGED <<config, planVars>>
  BY DEF ReadChunk, FinsReadChunk
<1>2. at \in DOMAIN groups /\ chunk_start + remaining = groups[at].start + groups[at].quantity
  BY <1>1 DEF Types, ReadBounds
<1>3. AddrMod \in Nat \ {0} /\ MaxCells[space] \in 1..AddrMod-1
  BY PlanAssumption DEF Types, TypeOK
<1>4. chunk_start \in Width /\ remaining \in Width
  BY DEF Types, TypeOK
<1>5. remaining \in Nat /\ chunk_start \in Nat
  BY <1>4, WidthFacts
<1>6. PICK n \in 1..AddrMod-1 : /\ n = Min({remaining, MaxCells[space]})
                                /\ n <= remaining /\ n <= MaxCells[space]
  BY <1>1, <1>3, <1>5, MinFacts
<1>7. chunk_start + n <= groups[at].start + groups[at].quantity
  BY <1>2, <1>5, <1>6
<1>8. CASE ReadChunk
  <2>1. /\ requests' = Append(requests, [start |-> chunk_start, quantity |-> n])
        /\ Answered(chunk_start, n)
        /\ IF chunk_start + n > AddrMod - 1
           THEN EnterGroup(at + 1)
           ELSE /\ chunk_start' = chunk_start + n
                /\ remaining' = remaining - n
                /\ UNCHANGED <<at, phase>>
    BY <1>6, <1>8 DEF ReadChunk
  <2>2. Replied(chunk_start, n)
    BY <2>1 DEF Answered, Replied
  <2>3. chunk_start + n > AddrMod - 1 => chunk_start + n >= AddrMod
    BY <1>3, <1>5
  <2>4. ~(chunk_start + n > AddrMod - 1) => chunk_start + n \in Width
    BY <1>3, <1>5 DEF Width
  <2> QED BY <1>1, <1>2, <1>4, <1>6, <1>7, <2>1, <2>2, <2>3, <2>4
<1>9. CASE FinsReadChunk
  <2>1. n % AddrMod = n
    BY <1>3, ModFacts
  <2>2. /\ requests' = Append(requests, [start |-> chunk_start, quantity |-> n])
        /\ chunk_start' = chunk_start + n
        /\ remaining' = remaining - n
        /\ \/ ~Refused(chunk_start, n) /\ Publish(chunk_start, n) /\ UNCHANGED phase
           \/ Refused(chunk_start, n) /\ MarkGroup("error") /\ phase' = "done"
        /\ at' = at /\ space = "area"
    BY <1>6, <1>9, <2>1 DEF FinsReadChunk, FinsAnswered
  <2>3. Replied(chunk_start, n)
    BY <2>2 DEF Replied
  <2>4. chunk_start + n \in Width
    BY <1>5, <2>2 DEF Width
  <2> QED BY <1>1, <1>2, <1>4, <1>6, <1>7, <2>2, <2>3, <2>4
<1> QED BY <1>8, <1>9

\* The next group is entered, or there is none.
LEMMA EnterOutcome ==
    ASSUME Types, NEW i \in 1..Len(groups)+1, EnterGroup(i)
    PROVE  /\ at' = i
           /\ \/ /\ i \in DOMAIN groups /\ phase' = "read"
                 /\ chunk_start' = groups[i].start /\ remaining' = groups[i].quantity
              \/ /\ i = Len(groups) + 1 /\ phase' = "done"
                 /\ UNCHANGED <<chunk_start, remaining>>
<1>1. DOMAIN groups = 1..Len(groups) /\ Len(groups) \in Nat
  BY DEF Types, TypeOK
<1> QED BY <1>1 DEF EnterGroup

LEMMA InitTypes == Init => Types
<1> SUFFICES ASSUME Init PROVE Types
  OBVIOUS
<1>1. PICK k \in 1..MaxTags : maps \in [1..k -> {m \in Mappings : Usable(m)}]
  BY DEF Init
<1>2. maps \in Seq(Mappings) /\ DOMAIN maps = 1..k /\ Len(maps) = k /\ k \in Nat
  BY <1>1, PlanAssumption
<1>3. MapsAreValid
  <2>1. \A t \in DOMAIN maps : Usable(maps[t])
    BY <1>1
  <2>2. \A t \in DOMAIN maps : WideEnough(maps[t])
    BY DEF Init, FinsValid, ModbusValid
  <2> QED BY <2>1, <2>2 DEF MapsAreValid, WideEnough, Usable, Init
<1>4. TypeOK
  <2>1. 0 \in Width
    BY PlanAssumption DEF Width
  <2> QED BY <1>2, <2>1 DEF Init, TypeOK
<1>5. GroupBounds /\ ReadBounds
  BY DEF Init, GroupBounds, ReadBounds
<1> QED BY <1>3, <1>4, <1>5 DEF Types

\* The groups after a mapping was added: in order, and the last not after the mapping.
LEMMA GroupBoundsStep ==
    ASSUME Types, GroupMapping \/ FinsGroupMapping
    PROVE  groups' \in Seq(GroupType) /\ Len(groups') >= Len(groups) /\ GroupBounds'
<1>1. /\ todo \in DOMAIN maps /\ todo' = todo + 1 /\ space' = space /\ maps' = maps
      /\ DOMAIN maps = 1..Len(maps) /\ Len(maps) \in Nat
      /\ DOMAIN groups = 1..Len(groups) /\ Len(groups) \in Nat
  BY GroupOutcome DEF config, Types, TypeOK
<1>2. /\ \A i \in DOMAIN groups :
           /\ groups[i].start \in Nat /\ groups[i].quantity \in Nat
           /\ groups[i].quantity = 0 => groups[i].start = 0 /\ space # "area"
      /\ space = "area" => \A g, h \in DOMAIN groups :
           g < h => groups[g].start + groups[g].quantity <= groups[h].start
  BY GroupFacts DEF Types, GroupBounds
<1>3. maps[todo].address \in Nat /\ maps[todo].quantity \in Nat /\ maps[todo].quantity # 0
  BY <1>1, MapFacts, PlanAssumption
<1>4. todo' > 1 /\ todo' - 1 = todo
  BY <1>1
<1> DEFINE last == groups[Len(groups)]
<1>5. ASSUME groups' = NewGroup(maps[todo]),
             space = "area" /\ groups # << >> => last.start + last.quantity <= maps[todo].address
      PROVE  groups' \in Seq(GroupType) /\ Len(groups') >= Len(groups) /\ GroupBounds'
  <2> DEFINE n == Len(groups) + 1
  <2>1. /\ groups' \in Seq(GroupType) /\ Len(groups') = n
        /\ \A i \in 1..Len(groups) : groups'[i] = groups[i]
        /\ groups'[n].start = maps[todo].address
        /\ groups'[n].quantity = maps[todo].quantity
    BY <1>1, <1>5, NewGroupFacts
  <2>2. /\ DOMAIN groups' = 1..n /\ n \in Nat
        /\ \A i \in DOMAIN groups' : i \in DOMAIN groups \/ i = n
        /\ \A i \in DOMAIN groups : i < n /\ i <= Len(groups) /\ groups'[i] = groups[i]
    BY <1>1, <2>1
  <2>3. \A i \in DOMAIN groups' : groups'[i].quantity = 0 => groups'[i].start = 0 /\ space # "area"
    BY <1>2, <1>3, <2>1, <2>2
  <2>4. ASSUME space = "area", NEW g \in DOMAIN groups', NEW h \in DOMAIN groups', g < h
        PROVE  groups'[g].start + groups'[g].quantity <= groups'[h].start
    <3>1. g \in DOMAIN groups
      BY <2>2, <2>4
    <3>2. CASE h \in DOMAIN groups
      BY <1>2, <2>2, <2>4, <3>1, <3>2
    <3>3. CASE h = n
      <4>1. Len(groups) \in DOMAIN groups /\ groups # << >>
        BY <1>1, <3>1
      <4>2. groups[g].start + groups[g].quantity <= last.start + last.quantity
        <5>1. CASE g = Len(groups)
          BY <1>2, <3>1, <5>1
        <5>2. CASE g < Len(groups)
          BY <1>2, <2>4, <3>1, <4>1, <5>2
        <5> QED BY <1>1, <3>1, <5>1, <5>2
      <4>3. /\ last.start + last.quantity <= maps[todo].address
            /\ last.start + last.quantity \in Nat /\ groups[g].start + groups[g].quantity \in Nat
        BY <1>2, <1>5, <2>4, <3>1, <4>1
      <4>4. groups[g].start + groups[g].quantity <= maps[todo].address
        BY <1>3, <4>2, <4>3
      <4> QED BY <2>1, <2>2, <3>1, <3>3, <4>4
    <3> QED BY <2>2, <3>2, <3>3
  <2>5. groups'[Len(groups')].start <= maps[todo].address
    BY <1>3, <2>1
  <2>6. GroupBounds'
    BY <1>1, <1>4, <2>3, <2>4, <2>5 DEF GroupBounds
  <2>7. Len(groups') >= Len(groups)
    BY <1>1, <2>1
  <2> QED BY <2>1, <2>6, <2>7
<1>6. ASSUME Len(groups) \in DOMAIN groups, last.start <= maps[todo].address,
             NEW q \in Width, groups' = JoinLast(q),
             q = 0 => last.start = 0 /\ space # "area"
      PROVE  groups' \in Seq(GroupType) /\ Len(groups') >= Len(groups) /\ GroupBounds'
  <2> DEFINE n == Len(groups)
  <2>1. /\ groups' \in Seq(GroupType) /\ Len(groups') = n
        /\ \A i \in 1..n : i # n => groups'[i] = groups[i]
        /\ groups'[n].start = groups[n].start
        /\ groups'[n].quantity = q
    <3>1. todo \in DOMAIN maps /\ Len(groups) \in DOMAIN groups /\ groups' = JoinLast(q)
      BY <1>1, <1>6
    <3> QED BY <3>1, JoinFacts
  <2>2. DOMAIN groups' = 1..Len(groups')
    BY <2>1
  <2>3. /\ DOMAIN groups' = DOMAIN groups
        /\ \A i \in DOMAIN groups : i # n => groups'[i] = groups[i]
        /\ \A i \in DOMAIN groups : groups'[i].start = groups[i].start
    <3>1. DOMAIN groups' = 1..n
      BY <2>1, <2>2
    <3>2. DOMAIN groups = 1..n
      BY <1>1
    <3> QED BY <2>1, <3>1, <3>2
  <2>4. \A i \in DOMAIN groups' : groups'[i].quantity = 0 => groups'[i].start = 0 /\ space # "area"
    BY <1>2, <1>6, <2>1, <2>3
  <2>5. ASSUME space = "area", NEW g \in DOMAIN groups', NEW h \in DOMAIN groups', g < h
        PROVE  groups'[g].start + groups'[g].quantity <= groups'[h].start
    <3>1. g # n
      BY <1>1, <2>3, <2>5
    <3> QED BY <1>2, <2>3, <2>5, <3>1
  <2>6. groups'[Len(groups')].start <= maps[todo].address
    BY <1>6, <2>1
  <2>7. GroupBounds'
    BY <1>1, <1>4, <2>4, <2>5, <2>6 DEF GroupBounds
  <2>8. Len(groups') >= Len(groups)
    <3>1. Len(groups) \in Nat /\ Len(groups') = Len(groups)
      BY <1>1, <2>1, Zenon
    <3> QED BY <3>1
  <2> QED BY <2>1, <2>7, <2>8
<1> QED BY <1>5, <1>6, GroupOutcome

LEMMA TypesStep ==
    ASSUME Types, [Next]_vars
    PROVE  Types'
<1>0. AddrMod \in Nat \ {0}
  BY PlanAssumption
<1>1. /\ space \in Spaces /\ maps \in Seq(Mappings) /\ DOMAIN maps = 1..Len(maps) /\ Len(maps) \in Nat
      /\ groups \in Seq(GroupType) /\ DOMAIN groups = 1..Len(groups) /\ Len(groups) \in Nat
      /\ todo \in 1..Len(maps)+1 /\ at \in 1..Len(groups)+1
      /\ chunk_start \in Width /\ remaining \in Width
      /\ requests \in Seq(RequestType)
      /\ quality \in [DOMAIN maps -> {"initializing", "good", "config_error", "error"}]
      /\ value \in [DOMAIN maps -> Seq((0..AddrMod-1) \union {Zero})]
      /\ phase \in {"group", "read", "done"}
  BY DEF Types, TypeOK, GroupType, RequestType
<1>2. ASSUME UNCHANGED config
      PROVE  MapsAreValid' /\ GroupType' = GroupType /\ RequestType' = RequestType /\ Width' = Width
  BY <1>2 DEF config, Types, MapsAreValid, Sorted, GroupType, RequestType, Width
\* TypeOK holds after a step once the variables that changed are in their domains.
<1>3. ASSUME UNCHANGED config, groups' \in Seq(GroupType), requests' \in Seq(RequestType),
             todo' \in 1..Len(maps)+1, at' \in 1..Len(groups')+1,
             chunk_start' \in Width, remaining' \in Width, phase' \in {"group", "read", "done"},
             quality' \in [DOMAIN maps -> {"initializing", "good", "config_error", "error"}],
             value' \in [DOMAIN maps -> Seq((0..AddrMod-1) \union {Zero})]
      PROVE  TypeOK' /\ MapsAreValid'
  <2>1. space' = space /\ maps' = maps
    BY <1>3 DEF config
  <2>2. MapsAreValid' /\ Width' = Width
    BY <1>2, <1>3
  <2>3. /\ groups' \in Seq([start : Width', quantity : Width', members : SUBSET DOMAIN maps'])
        /\ requests' \in Seq([start : Width', quantity : 0..AddrMod-1])
    BY <1>3, <2>1, <2>2 DEF GroupType, RequestType
  <2> QED BY <1>1, <1>3, <2>1, <2>2, <2>3 DEF TypeOK
<1>4. CASE GroupMapping \/ FinsGroupMapping
  <2>1. /\ todo \in DOMAIN maps /\ phase = "group" /\ todo' = todo + 1
        /\ UNCHANGED <<config, phase, readVars, registry>>
    BY <1>4, GroupOutcome
  <2>2. groups' \in Seq(GroupType) /\ Len(groups') >= Len(groups) /\ GroupBounds'
    BY <1>4, GroupBoundsStep
  <2>3. UNCHANGED <<phase, at, chunk_start, remaining, requests, quality, value>>
    BY <2>1 DEF readVars, registry
  <2>4. todo' \in 1..Len(maps)+1 /\ at' \in 1..Len(groups')+1
    <3>1. Len(groups') \in Nat
      BY <2>2
    <3> QED BY <1>1, <2>1, <2>2, <2>3, <3>1
  <2>5. TypeOK' /\ MapsAreValid'
    BY <1>1, <1>3, <2>1, <2>2, <2>3, <2>4
  <2>6. ReadBounds'
    BY <2>1 DEF ReadBounds
  <2> QED BY <2>2, <2>5, <2>6 DEF Types
<1>5. ASSUME UNCHANGED <<config, planVars>> PROVE GroupBounds'
  BY <1>5 DEF Types, GroupBounds, config, planVars
<1>6. ASSUME NEW i \in 1..Len(groups)+1, EnterGroup(i), UNCHANGED <<config, planVars>>
      PROVE  /\ at' \in 1..Len(groups)+1 /\ chunk_start' \in Width /\ remaining' \in Width
             /\ phase' \in {"group", "read", "done"}
             /\ ReadBounds'
  <2>1. /\ at' = i
        /\ \/ /\ i \in DOMAIN groups /\ phase' = "read"
              /\ chunk_start' = groups[i].start /\ remaining' = groups[i].quantity
           \/ /\ i = Len(groups) + 1 /\ phase' = "done"
              /\ UNCHANGED <<chunk_start, remaining>>
    BY <1>6, EnterOutcome
  <2>2. CASE i \in DOMAIN groups /\ phase' = "read"
              /\ chunk_start' = groups[i].start /\ remaining' = groups[i].quantity
    <3>1. /\ groups[i].start \in Width /\ groups[i].quantity \in Width
          /\ groups[i].start \in Nat
      BY <2>2, GroupFacts
    <3> QED BY <1>6, <2>1, <2>2, <3>1 DEF ReadBounds, planVars
  <2>3. CASE i = Len(groups) + 1 /\ phase' = "done" /\ UNCHANGED <<chunk_start, remaining>>
    BY <1>1, <1>6, <2>1, <2>3 DEF ReadBounds
  <2> QED BY <2>1, <2>2, <2>3
<1>7. CASE Grouped \/ GroupRead
  <2>1. PICK i \in 1..Len(groups)+1 : EnterGroup(i) /\ UNCHANGED <<config, planVars, requests, registry>>
    <3>1. GroupRead => at + 1 \in 1..Len(groups)+1
      BY <1>1 DEF GroupRead, Types, ReadBounds
    <3>2. 1 \in 1..Len(groups)+1
      BY <1>1
    <3> QED BY <1>7, <3>1, <3>2 DEF Grouped, GroupRead
  <2>2. /\ at' \in 1..Len(groups)+1 /\ chunk_start' \in Width /\ remaining' \in Width
        /\ phase' \in {"group", "read", "done"}
        /\ ReadBounds'
    BY <1>6, <2>1
  <2>3. UNCHANGED <<todo, groups, requests, quality, value>>
    BY <2>1 DEF planVars, registry
  <2>4. TypeOK' /\ MapsAreValid'
    BY <1>1, <1>3, <2>1, <2>2, <2>3
  <2> QED BY <1>5, <2>1, <2>2, <2>4 DEF Types
<1>8. CASE ReadChunk \/ FinsReadChunk
  <2>1. /\ phase = "read" /\ at \in DOMAIN groups /\ chunk_start \in Width /\ chunk_start \in Nat
        /\ UNCHANGED <<config, planVars>>
    BY <1>8, ChunkOutcome, WidthFacts
  <2>2. PICK n \in 1..AddrMod-1 :
                /\ n <= remaining
                /\ chunk_start + n <= groups[at].start + groups[at].quantity
                /\ requests' = Append(requests, [start |-> chunk_start, quantity |-> n])
                /\ Replied(chunk_start, n)
                /\ \/ /\ chunk_start' = chunk_start + n /\ remaining' = remaining - n /\ at' = at
                      /\ chunk_start + n \in Width
                      /\ phase' \in {"read", "done"}
                   \/ EnterGroup(at + 1)
    BY <1>8, ChunkOutcome
  <2>3. /\ quality' \in [DOMAIN maps -> {"initializing", "good", "config_error", "error"}]
        /\ value' \in [DOMAIN maps -> Seq((0..AddrMod-1) \union {Zero})]
    <3>1. n \in 1..AddrMod
      BY <1>0
    <3> QED BY <2>1, <2>2, <3>1, ReplyFacts DEF Addrs
  <2>4. requests' \in Seq(RequestType)
    <3>1. [start |-> chunk_start, quantity |-> n] \in RequestType
      BY <1>0, <2>1 DEF RequestType
    <3> QED BY <1>1, <2>2, <3>1, AppendProperties
  <2>5. /\ at' \in 1..Len(groups)+1 /\ chunk_start' \in Width /\ remaining' \in Width
        /\ phase' \in {"group", "read", "done"}
        /\ ReadBounds'
    <3>1. CASE /\ chunk_start' = chunk_start + n /\ remaining' = remaining - n /\ at' = at
               /\ chunk_start + n \in Width
               /\ phase' \in {"read", "done"}
      <4>1. /\ groups[at].start <= chunk_start
            /\ chunk_start + remaining = groups[at].start + groups[at].quantity
            /\ groups[at].start \in Nat /\ groups[at].quantity \in Nat
        BY <2>1, GroupFacts DEF Types, ReadBounds
      <4>2. remaining' \in Width
        <5>1. remaining \in Nat /\ (space # "area" => remaining < AddrMod)
          BY <1>1, WidthFacts
        <5> QED BY <1>0, <2>2, <3>1, <5>1 DEF Width
      <4>3. /\ groups[at].start <= chunk_start'
            /\ chunk_start' + remaining' = groups[at].start + groups[at].quantity
        <5>1. remaining \in Nat
          BY <1>1, WidthFacts
        <5> QED BY <2>1, <3>1, <4>1, <5>1
      <4> QED BY <1>1, <2>1, <3>1, <4>2, <4>3 DEF ReadBounds, planVars
    <3>2. CASE EnterGroup(at + 1)
      <4>1. at + 1 \in 1..Len(groups)+1
        BY <1>1, <2>1
      <4> QED BY <1>6, <2>1, <3>2, <4>1
    <3> QED BY <2>2, <3>1, <3>2
  <2>6. UNCHANGED <<todo, groups>>
    BY <2>1 DEF planVars
  <2>7. TypeOK' /\ MapsAreValid'
    BY <1>1, <1>3, <2>1, <2>3, <2>4, <2>5, <2>6
  <2> QED BY <1>5, <2>1, <2>5, <2>7 DEF Types
<1>9. CASE NextCycle
  <2>1. /\ phase' = "group" /\ at' = 1 /\ chunk_start' = 0 /\ remaining' = 0 /\ requests' = << >>
        /\ UNCHANGED <<config, registry>>
        /\ UNCHANGED planVars \/ (todo' = 1 /\ groups' = << >>)
    BY <1>9 DEF NextCycle
  <2>2. groups' \in Seq(GroupType) /\ todo' \in 1..Len(maps)+1 /\ 1 \in 1..Len(groups')+1 /\ GroupBounds'
    <3>1. CASE UNCHANGED planVars
      BY <1>1, <1>5, <2>1, <3>1 DEF planVars
    <3>2. CASE todo' = 1 /\ groups' = << >>
      BY <1>1, <3>2 DEF GroupBounds
    <3> QED BY <2>1, <3>1, <3>2
  <2>3. requests' \in Seq(RequestType) /\ 0 \in Width /\ UNCHANGED <<quality, value>>
    BY <1>0, <2>1 DEF Width, registry
  <2>4. TypeOK' /\ MapsAreValid'
    BY <1>1, <1>3, <2>1, <2>2, <2>3
  <2> QED BY <2>1, <2>2, <2>4 DEF Types, ReadBounds
<1>10. CASE UNCHANGED vars
  BY <1>10 DEF vars, Types, TypeOK, MapsAreValid, Sorted, GroupBounds, ReadBounds, Width
<1> QED BY <1>4, <1>7, <1>8, <1>9, <1>10 DEF Next

LEMMA TypesHold == Spec => []Types
BY InitTypes, TypesStep, PTL DEF Spec

\* Every variable stays in its domain, a Modbus group and request in the code's 16
\* bits, for all mappings that validate() lets pass, the ones that run past the end of
\* the memory and FINS addresses that no frame can carry included.
THEOREM TypeCorrect == Spec => []TypeOK
<1>1. Types => TypeOK
  BY DEF Types
<1> QED BY <1>1, TypesHold, PTL

-----------------------------------------------------------------------------
(***************************************************************************)
(* Groups are made of their members.                                       *)
(***************************************************************************)

\* Two ranges that meet or touch make up one.
LEMMA RangesMeet ==
    ASSUME NEW s \in Nat, NEW k \in Nat, NEW a \in Nat, NEW w \in Nat,
           s <= a, a <= s + k
    PROVE  \A c : c \in s..(Max({s + k, a + w}) - 1)
                    <=> c \in s..(s + k - 1) \/ c \in a..(a + w - 1)
<1>1. PICK e \in Nat : e = Max({s + k, a + w}) /\ e = IF s + k >= a + w THEN s + k ELSE a + w
  BY MaxFacts
<1>2. \A c : c \in s..(e - 1) <=> c \in s..(s + k - 1) \/ c \in a..(a + w - 1)
  BY <1>1
<1> QED BY <1>1, <1>2

\* A mapping that joins the last group, and what the group is then: it has gained the
\* cells of the mapping, or none when the mapping runs past the end.
LEMMA JoinOutcome ==
    ASSUME Types, ~WholeSpace, Grouping, GroupMapping \/ FinsGroupMapping,
           groups' # NewGroup(maps[todo])
    PROVE  /\ Len(groups) \in DOMAIN groups
           /\ space # "area" => InSpace(groups[Len(groups)])
           /\ \E q \in Width :
                /\ q > 0 /\ groups' = JoinLast(q)
                /\ \A c : c \in groups[Len(groups)].start..(groups[Len(groups)].start + q - 1)
                            <=> \/ c \in GroupCells(groups[Len(groups)])
                                \/ c \in Cells(maps[todo]) /\ Adds(maps[todo])
<1> DEFINE last == groups[Len(groups)]
           m == maps[todo]
<1>0. AddrMod \in Nat \ {0}
  BY PlanAssumption
<1>1. todo \in DOMAIN maps /\ Len(groups) \in DOMAIN groups /\ last.start <= m.address
  BY GroupOutcome
<1>2. PICK q \in Width :
         /\ groups' = JoinLast(q)
         /\ last.quantity > 0 =>
              /\ m.address <= last.start + last.quantity
              /\ space # "area" => InSpace(last)
              /\ Adds(m) => \/ q = JoinedQuantity(last, m)
                            \/ /\ space # "area" /\ last.start = 0
                               /\ JoinedQuantity(last, m) = AddrMod
              /\ ~Adds(m) => q = last.quantity
  BY GroupOutcome
<1>3. last.start \in Nat /\ last.quantity \in Nat /\ last.members \subseteq DOMAIN maps
  BY <1>1, GroupFacts
<1>4. m.address \in Nat /\ m.quantity \in Nat /\ m.quantity > 0
  BY <1>0, <1>1, MapFacts
<1>5. /\ last.quantity > 0
      /\ \A c \in GroupCells(last) : \E t \in last.members :
            c \in Cells(maps[t]) /\ (InSpace(last) => Adds(maps[t]))
  BY <1>1 DEF Grouping
<1>6. PICK s \in Nat, k \in Nat, a \in Nat, w \in Nat :
         /\ s = last.start /\ k = last.quantity /\ a = m.address /\ w = m.quantity
         /\ k > 0 /\ w > 0 /\ s <= a /\ a <= s + k
  BY <1>1, <1>2, <1>3, <1>4, <1>5
<1>7. space # "area" => InSpace(last)
  BY <1>2, <1>5
<1>8. GroupCells(last) = s..(s + k - 1) /\ Cells(m) = a..(a + w - 1)
  BY <1>6 DEF GroupCells, Cells
<1>9. CASE ~Adds(m)
  <2>1. q = k
    BY <1>2, <1>5, <1>6, <1>9
  <2> QED BY <1>1, <1>2, <1>6, <1>7, <1>8, <1>9, <2>1
<1>10. CASE Adds(m)
  <2>1. PICK e \in Nat : e = Max({s + k, a + w}) /\ e > s
    <3>1. Max({s + k, a + w}) = IF s + k >= a + w THEN s + k ELSE a + w
      BY MaxFacts
    <3>2. k > 0 /\ w > 0 /\ s <= a
      BY <1>6
    <3>3. s + k \in Nat /\ a + w \in Nat /\ s + k > s /\ a + w > s
      BY <3>2
    <3> QED BY <3>1, <3>3
  <2>2. \A c : c \in s..(e - 1) <=> c \in GroupCells(last) \/ c \in Cells(m)
    BY <1>6, <1>8, <2>1, RangesMeet, ZenonT(60)
  <2>3. JoinedQuantity(last, m) = e - s
    BY <1>6, <2>1 DEF JoinedQuantity
  <2>4. ~(space # "area" /\ s = 0 /\ e - s = AddrMod)
    <3> SUFFICES ASSUME space # "area", s = 0, e - s = AddrMod PROVE FALSE
      OBVIOUS
    <3>1. s..(e - 1) = 0..AddrMod-1
      BY <1>0, <2>1
    <3>2. \A c \in 0..AddrMod-1 : c \in FittingCells
      <4> TAKE c \in 0..AddrMod-1
      <4>1. \E t \in DOMAIN maps : c \in Cells(maps[t]) /\ Adds(maps[t])
        BY <1>1, <1>3, <1>5, <1>7, <1>10, <2>2, <3>1
      <4> QED BY <4>1 DEF FittingCells, Adds
    <3>3. \A c \in FittingCells : c \in 0..AddrMod-1
      <4> TAKE c \in FittingCells
      <4>1. PICK t \in DOMAIN maps : c \in Cells(maps[t]) /\ Fits(maps[t])
        BY DEF FittingCells
      <4>2. maps[t].address \in Nat /\ maps[t].quantity \in Nat
        BY <1>0, MapFacts
      <4> QED BY <1>0, <4>1, <4>2 DEF Cells, Fits
    <3>4. FittingCells = 0..AddrMod-1
      BY <3>2, <3>3
    <3> QED BY <3>4 DEF WholeSpace
  <2>5. q = e - s
    BY <1>2, <1>5, <1>6, <1>10, <2>3, <2>4
  <2>6. q > 0 /\ s + q - 1 = e - 1
    BY <2>1, <2>5
  <2> QED BY <1>1, <1>2, <1>6, <1>7, <1>10, <2>2, <2>6
<1> QED BY <1>9, <1>10

LEMMA GroupingStep ==
    ASSUME Types, ~WholeSpace, Grouping, [Next]_vars
    PROVE  Grouping'
<1>1. /\ DOMAIN maps = 1..Len(maps) /\ Len(maps) \in Nat
      /\ DOMAIN groups = 1..Len(groups) /\ Len(groups) \in Nat
      /\ todo \in 1..Len(maps)+1
  BY DEF Types, TypeOK
<1>2. ASSUME UNCHANGED <<space, maps, todo, groups>>, phase' # "group" => todo = Len(maps) + 1
      PROVE  Grouping'
  BY <1>2 DEF Grouping, GroupCells, Cells, InSpace, Adds, Fits
<1>3. phase # "group" => todo = Len(maps) + 1
  BY DEF Grouping
<1>4. CASE Grouped
  BY <1>1, <1>2, <1>4 DEF Grouped, planVars, config
<1>5. CASE GroupRead
  BY <1>2, <1>3, <1>5 DEF GroupRead, planVars, config
<1>6. CASE ReadChunk \/ FinsReadChunk
  BY <1>2, <1>3, <1>6, ChunkOutcome DEF planVars, config
<1>7. CASE UNCHANGED vars
  BY <1>2, <1>3, <1>7 DEF vars
<1>8. CASE NextCycle
  <2>1. phase' = "group" /\ maps' = maps /\ space' = space
    BY <1>8 DEF NextCycle, config
  <2>2. CASE UNCHANGED planVars
    BY <1>2, <2>1, <2>2 DEF planVars
  <2>3. CASE todo' = 1 /\ groups' = << >>
    BY <1>1, <2>1, <2>3 DEF Grouping
  <2> QED BY <1>8, <2>2, <2>3 DEF NextCycle
<1>9. CASE GroupMapping \/ FinsGroupMapping
  <2>1. /\ todo \in DOMAIN maps /\ phase' = "group" /\ todo' = todo + 1
        /\ maps' = maps /\ space' = space
    BY <1>9, GroupOutcome DEF config
  \* What Grouping says of one group, for the mappings before mapping n.
  <2> DEFINE Made(g, n) ==
        /\ g.quantity > 0
        /\ \A c \in GroupCells(g) : \E t \in g.members :
             c \in Cells(maps[t]) /\ (InSpace(g) => Adds(maps[t]))
        /\ \A t \in g.members :
             /\ t < n
             /\ Adds(maps[t]) => Cells(maps[t]) \subseteq GroupCells(g)
  <2>2. /\ \A i \in DOMAIN groups : Made(groups[i], todo)
        /\ \A i, j \in DOMAIN groups : i # j => groups[i].members \intersect groups[j].members = {}
        /\ \A t \in DOMAIN maps : t < todo => \E i \in DOMAIN groups : t \in groups[i].members
    BY DEF Grouping
  <2>3. \A i \in DOMAIN groups : groups[i].members \subseteq DOMAIN maps
    BY GroupFacts
  <2>4. ASSUME NEW i \in DOMAIN groups PROVE Made(groups[i], todo + 1)
    <3>1. \A t \in groups[i].members : t < todo + 1
      BY <1>1, <2>2, <2>3
    <3> QED BY <2>2, <3>1
  <2>5. \A h \in DOMAIN groups : todo \notin groups[h].members
    BY <1>1, <2>2
  <2> DEFINE Goal ==
        /\ \A i \in DOMAIN groups' : Made(groups'[i], todo + 1)
        /\ \A i, j \in DOMAIN groups' : i # j => groups'[i].members \intersect groups'[j].members = {}
        /\ \A t \in DOMAIN maps : t < todo + 1 => \E i \in DOMAIN groups' : t \in groups'[i].members
  <2>6. ASSUME groups' = NewGroup(maps[todo]) PROVE Goal
    <3> DEFINE n == Len(groups) + 1
    <3>1. /\ groups' \in Seq(GroupType) /\ Len(groups') = n
          /\ \A i \in 1..Len(groups) : groups'[i] = groups[i]
          /\ groups'[n].start = maps[todo].address
          /\ groups'[n].quantity = maps[todo].quantity
          /\ groups'[n].members = {todo}
      BY <2>1, <2>6, NewGroupFacts
    <3>2. /\ DOMAIN groups' = 1..n /\ n \in Nat
          /\ \A i \in 1..n : i \in DOMAIN groups \/ i = n
          /\ n \in 1..n /\ \A i \in DOMAIN groups : i \in 1..n /\ i # n
      BY <1>1, <3>1
    <3>3. GroupCells(groups'[n]) = Cells(maps[todo])
      BY <3>1 DEF GroupCells, Cells
    <3>4. InSpace(groups'[n]) => Adds(maps[todo])
      BY <3>1 DEF InSpace, Adds, Fits
    <3>5. maps[todo].quantity > 0
      BY <2>1, MapFacts, PlanAssumption
    <3> HIDE DEF n
    <3>6. Made(groups'[n], todo + 1)
      <4>1. \A t \in groups'[n].members : t = todo
        BY <3>1
      <4>2. todo \in groups'[n].members /\ todo < todo + 1
        BY <1>1, <3>1
      <4> QED BY <3>1, <3>3, <3>4, <3>5, <4>1, <4>2
    <3>7. \A i \in DOMAIN groups : groups'[i] = groups[i]
      BY <1>1, <3>1
    <3>8. ASSUME NEW i \in DOMAIN groups' PROVE Made(groups'[i], todo + 1)
      <4> HIDE DEF Made
      <4> QED BY <2>4, <3>2, <3>6, <3>7
    <3>9. ASSUME NEW i \in DOMAIN groups', NEW j \in DOMAIN groups', i # j
          PROVE  groups'[i].members \intersect groups'[j].members = {}
      <4>1. (i \in DOMAIN groups \/ i = n) /\ (j \in DOMAIN groups \/ j = n)
        BY <3>2
      <4> QED BY <2>2, <2>5, <3>1, <3>7, <3>9, <4>1
    <3>10. ASSUME NEW t \in DOMAIN maps, t < todo + 1
          PROVE  \E i \in DOMAIN groups' : t \in groups'[i].members
      <4>1. t < todo \/ t = todo
        BY <1>1, <3>10
      <4>2. CASE t < todo
        <5>1. PICK i \in DOMAIN groups : t \in groups[i].members
          BY <2>2, <4>2
        <5>2. i \in DOMAIN groups' /\ groups'[i] = groups[i]
          BY <3>2, <3>7
        <5> QED BY <5>1, <5>2
      <4>3. CASE t = todo
        BY <3>1, <3>2, <4>3
      <4> QED BY <4>1, <4>2, <4>3
    <3> HIDE DEF Made
    <3> QED BY <3>8, <3>9, <3>10
  <2>7. ASSUME groups' # NewGroup(maps[todo]) PROVE Goal
    <3> DEFINE n == Len(groups)
    <3>1. n \in DOMAIN groups /\ (space # "area" => InSpace(groups[n]))
      BY <1>9, <2>7, JoinOutcome
    <3>2. PICK q \in Width :
             /\ q > 0 /\ groups' = JoinLast(q)
             /\ \A c : c \in groups[n].start..(groups[n].start + q - 1)
                         <=> \/ c \in GroupCells(groups[n])
                             \/ c \in Cells(maps[todo]) /\ Adds(maps[todo])
      BY <1>9, <2>7, JoinOutcome
    <3>3. /\ groups' \in Seq(GroupType) /\ Len(groups') = n
          /\ \A i \in 1..n : i # n => groups'[i] = groups[i]
          /\ groups'[n].start = groups[n].start
          /\ groups'[n].quantity = q
          /\ groups'[n].members = groups[n].members \union {todo}
      BY <2>1, <3>1, <3>2, JoinFacts
    <3>4. DOMAIN groups' = 1..n /\ DOMAIN groups = 1..n /\ n \in Nat
      <4>1. DOMAIN groups' = 1..Len(groups') /\ Len(groups') = n
        BY <3>3
      <4> QED BY <1>1, <4>1
    <3>5. \A c : c \in GroupCells(groups'[n])
                   <=> \/ c \in GroupCells(groups[n])
                       \/ c \in Cells(maps[todo]) /\ Adds(maps[todo])
      BY <3>2, <3>3 DEF GroupCells
    <3> HIDE DEF n
    <3>6. Made(groups'[n], todo + 1)
      <4>1. Made(groups[n], todo + 1)
        BY <2>4, <3>1
      <4>2. ASSUME NEW c \in GroupCells(groups'[n])
            PROVE  \E t \in groups'[n].members :
                     c \in Cells(maps[t]) /\ (InSpace(groups'[n]) => Adds(maps[t]))
        <5>1. CASE c \in GroupCells(groups[n])
          <6>1. PICK t \in groups[n].members :
                   c \in Cells(maps[t]) /\ (InSpace(groups[n]) => Adds(maps[t]))
            BY <4>1, <5>1
          <6>2. Adds(maps[t])
            BY <3>1, <6>1 DEF Adds
          <6> QED BY <3>3, <6>1, <6>2
        <5>2. CASE c \in Cells(maps[todo]) /\ Adds(maps[todo])
          BY <3>3, <5>2
        <5> QED BY <3>5, <4>2, <5>1, <5>2
      <4>3. ASSUME NEW t \in groups'[n].members
            PROVE  t < todo + 1 /\ (Adds(maps[t]) => Cells(maps[t]) \subseteq GroupCells(groups'[n]))
        <5>1. CASE t \in groups[n].members
          BY <3>5, <4>1, <5>1
        <5>2. CASE t = todo
          BY <1>1, <3>5, <5>2
        <5> QED BY <3>3, <5>1, <5>2
      <4> QED BY <3>2, <3>3, <4>2, <4>3
    <3>7. \A i \in DOMAIN groups : i # n => groups'[i] = groups[i]
      BY <3>3, <3>4
    <3>8. ASSUME NEW i \in DOMAIN groups' PROVE Made(groups'[i], todo + 1)
      <4> HIDE DEF Made
      <4> QED BY <2>4, <3>4, <3>6, <3>7
    <3>9. ASSUME NEW i \in DOMAIN groups', NEW j \in DOMAIN groups', i # j
          PROVE  groups'[i].members \intersect groups'[j].members = {}
      <4>1. groups[i].members \intersect groups[j].members = {}
        BY <2>2, <3>4, <3>9
      <4> QED BY <2>5, <3>3, <3>4, <3>7, <3>9, <4>1
    <3>10. ASSUME NEW t \in DOMAIN maps, t < todo + 1
          PROVE  \E i \in DOMAIN groups' : t \in groups'[i].members
      <4>1. t < todo \/ t = todo
        BY <1>1, <3>10
      <4>2. CASE t < todo
        <5>1. PICK i \in DOMAIN groups : t \in groups[i].members
          BY <2>2, <4>2
        <5>2. t \in groups'[i].members
          BY <3>3, <3>7, <5>1
        <5> QED BY <3>4, <5>2
      <4>3. CASE t = todo
        BY <3>1, <3>3, <3>4, <4>3
      <4> QED BY <4>1, <4>2, <4>3
    <3> HIDE DEF Made
    <3> QED BY <3>8, <3>9, <3>10
  <2>8. Goal
    BY <2>6, <2>7
  <2> QED BY <2>1, <2>8 DEF Grouping, GroupCells, Cells, InSpace, Adds, Fits
<1> QED BY <1>4, <1>5, <1>6, <1>7, <1>8, <1>9 DEF Next

-----------------------------------------------------------------------------
(***************************************************************************)
(* Requests cover what has been read, each of them inside one group.       *)
(***************************************************************************)

\* How far a step that enters group i has come: what counts as read afterwards is
\* the groups before i.
LEMMA EnterProgress ==
    ASSUME Types, NEW i \in 1..Len(groups)+1, EnterGroup(i)
    PROVE  \A g \in DOMAIN groups : \A c \in GroupCells(groups[g]) :
             g < at' \/ (g = at' /\ c < chunk_start') => g < i
<1>1. /\ at' = i
      /\ \/ i \in DOMAIN groups /\ chunk_start' = groups[i].start
         \/ i = Len(groups) + 1
  BY EnterOutcome
<1>3. Len(groups) + 1 \notin DOMAIN groups
  BY DEF Types, TypeOK
<1>2. ASSUME NEW c \in GroupCells(groups[i]), i \in DOMAIN groups PROVE ~(c < groups[i].start)
  <2>1. groups[i].start \in Int /\ groups[i].quantity \in Int
    BY <1>2, GroupFacts
  <2> QED BY <1>2, <2>1 DEF GroupCells
<1> QED BY <1>1, <1>2, <1>3

\* Two groups meet in cells that are shared.
LEMMA GroupsShare ==
    ASSUME Types, Grouping, NEW g \in DOMAIN groups, NEW h \in DOMAIN groups, g # h,
           NEW c \in GroupCells(groups[g]), c \in GroupCells(groups[h])
    PROVE  Shared(c)
<1>1. PICK t \in groups[g].members : c \in Cells(maps[t])
  BY DEF Grouping
<1>2. PICK u \in groups[h].members : c \in Cells(maps[u])
  BY DEF Grouping
<1>3. t # u
  BY DEF Grouping
<1>4. t \in DOMAIN maps /\ u \in DOMAIN maps
  BY GroupFacts
<1> QED BY <1>1, <1>2, <1>3, <1>4 DEF Shared

\* How far a request has come: what counts as read afterwards is what did before, and
\* the cells it asked for.
LEMMA ChunkProgress ==
    ASSUME Types, ReadChunk \/ FinsReadChunk
    PROVE  \E n \in 1..AddrMod-1 :
                /\ n <= MaxCells[space]
                /\ chunk_start + n <= groups[at].start + groups[at].quantity
                /\ requests' = Append(requests, [start |-> chunk_start, quantity |-> n])
                /\ Replied(chunk_start, n)
                /\ at < at' \/ (at = at' /\ chunk_start' = chunk_start + n)
                /\ \A g \in DOMAIN groups : g < at => g < at'
                /\ phase' \in {"read", "done"}
                /\ phase' = "done" => at' = Len(groups) + 1 \/ BrokenOff'
                /\ \A g \in DOMAIN groups : \A c \in GroupCells(groups[g]) :
                     c < AddrMod /\ (g < at' \/ (g = at' /\ c < chunk_start'))
                        => g < at \/ (g = at /\ c < chunk_start + n)
<1>1. /\ phase = "read" /\ at \in DOMAIN groups /\ chunk_start \in Nat
      /\ UNCHANGED <<space, groups>>
  BY ChunkOutcome, WidthFacts DEF config, planVars
<1>2. PICK n \in 1..AddrMod-1 :
                /\ n <= MaxCells[space]
                /\ chunk_start + n <= groups[at].start + groups[at].quantity
                /\ requests' = Append(requests, [start |-> chunk_start, quantity |-> n])
                /\ Replied(chunk_start, n)
                /\ \/ /\ chunk_start' = chunk_start + n /\ at' = at
                      /\ \/ phase' = "read"
                         \/ phase' = "done" /\ space = "area" /\ Refused(chunk_start, n)
                   \/ chunk_start + n >= AddrMod /\ EnterGroup(at + 1)
  BY ChunkOutcome
<1>3. DOMAIN groups = 1..Len(groups) /\ Len(groups) \in Nat /\ AddrMod \in Nat
  BY PlanAssumption DEF Types, TypeOK
<1>4. CASE /\ chunk_start' = chunk_start + n /\ at' = at
           /\ \/ phase' = "read"
              \/ phase' = "done" /\ space = "area" /\ Refused(chunk_start, n)
  <2>1. ASSUME phase' = "done" PROVE BrokenOff'
    <3>1. n \in 1..AddrMod
      BY <1>3
    <3>2. space = "area" /\ chunk_start + n > AddrMod
      BY <1>1, <1>4, <2>1, <3>1, RefusedFacts
    <3>3. AddrMod < chunk_start + n
      BY <1>1, <1>3, <3>2
    <3> QED BY <1>1, <1>2, <1>4, <3>2, <3>3 DEF BrokenOff
  <2> QED BY <1>1, <1>2, <1>4, <2>1
<1>5. CASE chunk_start + n >= AddrMod /\ EnterGroup(at + 1)
  <2>1. at + 1 \in 1..Len(groups)+1 /\ \A g \in DOMAIN groups : g < at + 1 <=> g < at \/ g = at
    BY <1>1, <1>3
  <2>2. at' = at + 1 /\ phase' \in {"read", "done"} /\ (phase' = "done" => at' = Len(groups) + 1)
    BY <1>5, <2>1, EnterOutcome
  <2>3. \A g \in DOMAIN groups : \A c \in GroupCells(groups[g]) :
          g < at' \/ (g = at' /\ c < chunk_start') => g < at + 1
    BY <1>5, <2>1, EnterProgress
  <2>4. \A c \in GroupCells(groups[at]) : c < AddrMod => c < chunk_start + n
    <3>1. groups[at].start \in Int /\ groups[at].quantity \in Int
      BY <1>1, GroupFacts
    <3> QED BY <1>1, <1>3, <1>5, <3>1 DEF GroupCells
  <2>5. at < at' /\ \A g \in DOMAIN groups : g < at => g < at'
    BY <1>1, <1>3, <2>2
  <2> QED BY <1>2, <2>1, <2>2, <2>3, <2>4, <2>5
<1> QED BY <1>2, <1>4, <1>5

\* GroupFacts, of the state after a step.
LEMMA GroupFactsPrimed ==
    ASSUME Types'
    PROVE  (\A i \in DOMAIN groups : groups[i].start \in Nat /\ groups[i].quantity \in Nat)'
<1>1. ASSUME NEW i \in DOMAIN groups'
      PROVE  groups'[i].start \in Nat /\ groups'[i].quantity \in Nat
  <2>1. groups' \in Seq([start : Width', quantity : Width', members : SUBSET DOMAIN maps'])
    BY DEF Types, TypeOK
  <2>2. groups'[i] \in [start : Width', quantity : Width', members : SUBSET DOMAIN maps']
    <3> DEFINE S == [start : Width', quantity : Width', members : SUBSET DOMAIN maps']
    <3>1. groups' \in Seq(S)
      BY <2>1
    <3> HIDE DEF S
    <3>2. i \in 1..Len(groups')
      BY <3>1
    <3>3. groups'[i] \in S
      BY <3>1, <3>2, ElementOfSeq
    <3> QED BY <3>3 DEF S
  <2>3. \A x \in Width' : x \in Nat
    BY PlanAssumption DEF Width
  <2> QED BY <2>2, <2>3
<1> QED BY <1>1

LEMMA ReadingStep ==
    ASSUME Types, Grouping, Reading, [Next]_vars, Types'
    PROVE  Reading'
<1>0. AddrMod \in Nat \ {0}
  BY PlanAssumption
<1>1. /\ DOMAIN groups = 1..Len(groups) /\ Len(groups) \in Nat /\ at \in 1..Len(groups)+1
      /\ DOMAIN requests = 1..Len(requests) /\ Len(requests) \in Nat
      /\ requests \in Seq(RequestType)
      /\ chunk_start \in Width /\ chunk_start \in Nat /\ remaining \in Nat
  BY WidthFacts, SMTT(30) DEF Types, TypeOK, RequestType
<1>2. \A i \in DOMAIN requests : requests[i].start \in Nat /\ requests[i].quantity \in Nat
  <2> TAKE i \in DOMAIN requests
  <2>1. requests[i] \in RequestType
    BY <1>1, ElementOfSeq
  <2>2. requests[i].start \in Width /\ requests[i].quantity \in 0..AddrMod-1
    BY <2>1 DEF RequestType
  <2> QED BY <1>0, <2>2, WidthFacts
<1>3. ASSUME phase' = "group", requests' = << >>, at' = 1, chunk_start' = 0 PROVE Reading'
  <2>1. \A g \in DOMAIN groups' : ~(g < 1)
    BY SMTT(30) DEF Types, TypeOK
  <2>2. ASSUME NEW g \in DOMAIN groups', NEW c \in GroupCells(groups'[g]) PROVE ~(c < 0)
    <3>1. groups'[g].start \in Nat /\ groups'[g].quantity \in Nat
      <4>1. (\A i \in DOMAIN groups : groups[i].start \in Nat /\ groups[i].quantity \in Nat)'
        BY GroupFactsPrimed
      <4> QED BY <4>1
    <3> QED BY <2>2, <3>1 DEF GroupCells
  <2> QED BY <1>3, <2>1, <2>2 DEF Reading, GroupCells
<1>4. CASE GroupMapping \/ FinsGroupMapping
  <2>1. phase = "group" /\ UNCHANGED <<phase, at, requests, chunk_start>>
    BY <1>4, GroupOutcome DEF readVars
  <2> QED BY <1>3, <2>1 DEF Reading
<1>5. CASE NextCycle
  BY <1>3, <1>5 DEF NextCycle
<1>6. CASE UNCHANGED vars
  BY <1>6 DEF vars, Reading, SentIn, Shared, Cells, GroupCells, Asked, BrokenOff
<1>7. ASSUME NEW i \in 1..Len(groups)+1, EnterGroup(i),
             UNCHANGED <<space, maps, groups, requests>>,
             \A r \in DOMAIN requests : \E g \in DOMAIN groups :
                 g < i /\ Asked(requests[r]) \subseteq GroupCells(groups[g]),
             \A g \in DOMAIN groups : \A c \in GroupCells(groups[g]) :
                 c < AddrMod /\ g < i => \E r \in DOMAIN requests : c \in Asked(requests[r])
      PROVE  Reading'
  <2>1. /\ at' = i /\ phase' \in {"read", "done"}
        /\ phase' = "done" => i = Len(groups) + 1
    BY <1>7, EnterOutcome
  <2>2. \A r \in DOMAIN requests :
           /\ requests[r].quantity \in 1..MaxCells[space]
           /\ \E g \in DOMAIN groups : SentIn(requests[r], g)'
    BY <1>7, <2>1 DEF Reading, SentIn, GroupCells, Asked
  <2>3. \A r, q \in DOMAIN requests :
           r # q => \A c \in Asked(requests[r]) \intersect Asked(requests[q]) : Shared(c)
    BY DEF Reading
  <2>4. \A g \in DOMAIN groups : \A c \in GroupCells(groups[g]) :
           c < AddrMod /\ (g < at' \/ (g = at' /\ c < chunk_start'))
              => \E r \in DOMAIN requests : c \in Asked(requests[r])
    BY <1>7, EnterProgress
  <2> QED BY <1>7, <2>1, <2>2, <2>3, <2>4 DEF Reading, SentIn, Shared, Cells, GroupCells, Asked
<1>8. CASE Grouped
  <2>1. EnterGroup(1) /\ UNCHANGED <<space, maps, groups, requests>> /\ requests = << >>
    BY <1>8 DEF Grouped, config, planVars, Reading
  <2>2. 1 \in 1..Len(groups)+1 /\ \A g \in DOMAIN groups : ~(g < 1)
    BY <1>1
  <2>3. DOMAIN requests = {}
    BY <2>1
  <2> QED BY <1>7, <2>1, <2>2, <2>3
<1>9. CASE GroupRead
  <2>1. /\ EnterGroup(at + 1) /\ UNCHANGED <<space, maps, groups, requests>>
        /\ phase = "read" /\ remaining = 0
    BY <1>9 DEF GroupRead, config, planVars
  <2>2. /\ at \in DOMAIN groups
        /\ chunk_start = groups[at].start + groups[at].quantity
    BY <1>1, <2>1 DEF Types, ReadBounds
  <2>3. at + 1 \in 1..Len(groups)+1 /\ \A g \in DOMAIN groups : g < at + 1 <=> g < at \/ g = at
    BY <1>1, <2>2
  <2>4. \A r \in DOMAIN requests : \E g \in DOMAIN groups :
           g < at + 1 /\ Asked(requests[r]) \subseteq GroupCells(groups[g])
    BY <2>3 DEF Reading, SentIn
  <2>5. ASSUME NEW g \in DOMAIN groups, NEW c \in GroupCells(groups[g]), c < AddrMod, g < at + 1
        PROVE  \E r \in DOMAIN requests : c \in Asked(requests[r])
    <3>1. CASE g < at
      BY <2>5, <3>1 DEF Reading
    <3>2. CASE g = at
      <4>1. groups[at].start \in Int /\ groups[at].quantity \in Int
        BY <2>2, GroupFacts, <1>0
      <4>2. c < chunk_start
        BY <2>2, <3>2, <4>1 DEF GroupCells
      <4> QED BY <2>1, <2>5, <3>2, <4>2 DEF Reading
    <3> QED BY <2>3, <2>5, <3>1, <3>2
  <2> QED BY <1>7, <2>1, <2>3, <2>4, <2>5
<1>10. CASE ReadChunk \/ FinsReadChunk
  <2>1. /\ phase = "read" /\ at \in DOMAIN groups
        /\ UNCHANGED <<space, maps, groups>>
    BY <1>10, ChunkOutcome DEF config, planVars
  <2>2. PICK n \in 1..AddrMod-1 :
                /\ n <= MaxCells[space]
                /\ chunk_start + n <= groups[at].start + groups[at].quantity
                /\ requests' = Append(requests, [start |-> chunk_start, quantity |-> n])
                /\ at < at' \/ (at = at' /\ chunk_start' = chunk_start + n)
                /\ \A g \in DOMAIN groups : g < at => g < at'
                /\ phase' \in {"read", "done"}
                /\ phase' = "done" => at' = Len(groups) + 1 \/ BrokenOff'
                /\ \A g \in DOMAIN groups : \A c \in GroupCells(groups[g]) :
                     c < AddrMod /\ (g < at' \/ (g = at' /\ c < chunk_start'))
                        => g < at \/ (g = at /\ c < chunk_start + n)
    BY <1>10, ChunkProgress
  <2>3. PICK r : r = [start |-> chunk_start, quantity |-> n]
    OBVIOUS
  <2>4. r.start = chunk_start /\ r.quantity = n /\ Asked(r) = chunk_start..(chunk_start + n - 1)
    BY <2>3 DEF Asked
  <2>5. PICK k \in Nat : k = Len(requests)
    BY <1>1
  <2>6. /\ DOMAIN requests' = 1..(k + 1) /\ \A i \in 1..k : requests'[i] = requests[i]
        /\ requests'[k + 1] = r
    <3>1. requests' = Append(requests, r) /\ r \in RequestType
      BY <1>0, <1>1, <2>2, <2>3 DEF RequestType
    <3>2. /\ requests' \in Seq(RequestType)
          /\ Len(requests') = k + 1 /\ \A i \in 1..k : requests'[i] = requests[i]
          /\ requests'[k + 1] = r
      BY <1>1, <2>5, <3>1, AppendProperties
    <3> QED BY <3>2
  <2>7. \A i \in DOMAIN requests' : \/ i \in DOMAIN requests /\ requests'[i] = requests[i]
                                    \/ i = k + 1
    <3>1. DOMAIN requests = 1..k
      BY <1>1, <2>5
    <3> QED BY <2>5, <2>6, <3>1
  <2>8. /\ \A i \in DOMAIN requests : i \in DOMAIN requests' /\ requests'[i] = requests[i]
        /\ k + 1 \in DOMAIN requests'
    <3>1. DOMAIN requests = 1..k
      BY <1>1, <2>5
    <3> QED BY <2>5, <2>6, <3>1
  <2>9. /\ groups[at].start \in Nat /\ groups[at].quantity \in Nat
        /\ groups[at].start <= chunk_start
    BY <2>1, GroupFacts DEF Types, ReadBounds
  <2>10. Asked(r) \subseteq GroupCells(groups[at])
    <3>1. chunk_start + n <= groups[at].start + groups[at].quantity
      BY <2>2
    <3>2. chunk_start \in Int /\ n \in Int
      BY <1>0, <1>1
    <3>3. GroupCells(groups[at]) = groups[at].start..(groups[at].start + groups[at].quantity - 1)
      BY DEF GroupCells
    <3> QED BY <2>4, <2>9, <3>1, <3>2, <3>3
  <2>11. MaxCells[space] \in 1..AddrMod-1 /\ n \in 1..MaxCells[space]
    BY <1>0, <2>2, PlanAssumption DEF Types, TypeOK
  <2>13. ASSUME NEW i \in DOMAIN requests'
         PROVE  /\ requests'[i].quantity \in 1..MaxCells[space]
                /\ \E g \in DOMAIN groups :
                     /\ Asked(requests'[i]) \subseteq GroupCells(groups[g])
                     /\ g < at' \/ (g = at' /\ requests'[i].start + requests'[i].quantity <= chunk_start')
    <3>1. CASE i \in DOMAIN requests /\ requests'[i] = requests[i]
      <4>1. PICK g \in DOMAIN groups :
               /\ Asked(requests[i]) \subseteq GroupCells(groups[g])
               /\ g < at \/ (g = at /\ requests[i].start + requests[i].quantity <= chunk_start)
        BY <3>1 DEF Reading, SentIn
      <4>2. g < at' \/ (g = at' /\ requests[i].start + requests[i].quantity <= chunk_start')
        <5>1. requests[i].start \in Nat /\ requests[i].quantity \in Nat
          BY <1>2, <3>1
        <5>2. requests[i].start + requests[i].quantity <= chunk_start =>
                 requests[i].start + requests[i].quantity <= chunk_start + n
          <6>1. chunk_start \in Int /\ n \in Nat
            BY <1>0, <1>1
          <6> QED BY <5>1, <6>1
        <5> QED BY <2>2, <4>1, <5>2
      <4>3. requests[i].quantity \in 1..MaxCells[space]
        BY <3>1 DEF Reading
      <4> QED BY <3>1, <4>1, <4>2, <4>3
    <3>2. CASE i = k + 1
      <4>1. chunk_start + n <= chunk_start + n
        BY <1>1
      <4> QED BY <2>1, <2>4, <2>6, <2>10, <2>11, <2>2, <3>2, <4>1
    <3> QED BY <2>7, <3>1, <3>2
  <2>14. ASSUME NEW i \in DOMAIN requests, NEW c \in Asked(requests[i]), c \in Asked(r)
         PROVE  Shared(c)
    <3>1. PICK g \in DOMAIN groups :
               /\ Asked(requests[i]) \subseteq GroupCells(groups[g])
               /\ g < at \/ (g = at /\ requests[i].start + requests[i].quantity <= chunk_start)
      BY DEF Reading, SentIn
    <3>2. g # at
      <4> SUFFICES ASSUME requests[i].start + requests[i].quantity <= chunk_start PROVE FALSE
        BY <1>1, <2>1, <3>1
      <4>1. requests[i].start \in Nat /\ requests[i].quantity \in Nat
        BY <1>2
      <4>2. c \in Int /\ c <= requests[i].start + requests[i].quantity - 1
        BY <2>14, <4>1 DEF Asked
      <4>3. chunk_start <= c
        BY <1>1, <2>4, <2>14
      <4>4. chunk_start \in Int
        BY <1>0, <1>1
      <4> QED BY <4>1, <4>2, <4>3, <4>4
    <3> QED BY <2>1, <2>10, <2>14, <3>1, <3>2, GroupsShare
  <2>15. ASSUME NEW i \in DOMAIN requests', NEW j \in DOMAIN requests', i # j,
                NEW c \in Asked(requests'[i]) \intersect Asked(requests'[j])
         PROVE  Shared(c)
    <3>1. CASE i = k + 1
      BY <2>6, <2>7, <2>14, <2>15, <3>1
    <3>2. CASE j = k + 1
      BY <2>6, <2>7, <2>14, <2>15, <3>2
    <3>3. CASE i # k + 1 /\ j # k + 1
      BY <2>7, <2>15, <3>3 DEF Reading
    <3> QED BY <3>1, <3>2, <3>3
  <2>16. ASSUME NEW g \in DOMAIN groups, NEW c \in GroupCells(groups[g]), c < AddrMod,
                g < at' \/ (g = at' /\ c < chunk_start')
         PROVE  \E i \in DOMAIN requests' : c \in Asked(requests'[i])
    <3>1. g < at \/ (g = at /\ c < chunk_start + n)
      BY <2>2, <2>16
    <3>2. CASE g < at \/ (g = at /\ c < chunk_start)
      <4>1. PICK i \in DOMAIN requests : c \in Asked(requests[i])
        BY <2>1, <2>16, <3>2 DEF Reading
      <4> QED BY <2>8, <4>1
    <3>3. CASE g = at /\ ~(c < chunk_start)
      <4>1. c \in Int
        BY <2>9, <3>3 DEF GroupCells
      <4>2. c \in Asked(r)
        BY <1>0, <1>1, <2>1, <2>4, <3>1, <3>3, <4>1
      <4> QED BY <2>6, <2>8, <4>2
    <3> QED BY <3>1, <3>2, <3>3
  <2>17. phase' # "group" /\ (phase' = "done" => at' = Len(groups') + 1 \/ BrokenOff')
    BY <2>1, <2>2
  <2> QED BY <2>1, <2>13, <2>15, <2>16, <2>17, SMTT(30)
          DEF Reading, SentIn, Shared, Cells, GroupCells, Asked
<1> QED BY <1>4, <1>5, <1>6, <1>8, <1>9, <1>10 DEF Next

-----------------------------------------------------------------------------
(***************************************************************************)
(* Verdicts.                                                               *)
(***************************************************************************)

\* The first cell of a member that ends inside the memory is a cell of its group.
LEMMA MemberFacts ==
    ASSUME Types, Grouping, NEW g \in DOMAIN groups, NEW t \in groups[g].members,
           Fits(maps[t])
    PROVE  /\ t \in DOMAIN maps /\ maps[t].address \in GroupCells(groups[g])
           /\ maps[t].address < AddrMod
<1>1. t \in DOMAIN maps
  BY GroupFacts
<1>2. maps[t].address \in Cells(maps[t])
  BY <1>1, MapFacts, PlanAssumption DEF Cells
<1>3. maps[t].address < AddrMod
  BY <1>1, MapFacts, PlanAssumption DEF Fits
<1> QED BY <1>1, <1>2, <1>3 DEF Grouping, Adds

LEMMA ShownStep ==
    ASSUME Types, Grouping, Reading, Shown, [Next]_vars, Types'
    PROVE  Shown'
<1>0. AddrMod \in Nat \ {0}
  BY PlanAssumption
<1>1. /\ DOMAIN groups = 1..Len(groups) /\ Len(groups) \in Nat
      /\ at \in 1..Len(groups)+1 /\ chunk_start \in Nat
      /\ requests \in Seq(RequestType)
  BY WidthFacts, SMTT(30) DEF Types, TypeOK, RequestType
<1>2. ASSUME phase' = "group" PROVE Shown'
  BY <1>2 DEF Shown, Begun
<1>3. CASE GroupMapping \/ FinsGroupMapping \/ NextCycle
  BY <1>2, <1>3, GroupOutcome DEF NextCycle
<1>4. ASSUME UNCHANGED <<space, maps, groups, requests, quality, value>>,
             \A g \in DOMAIN groups : \A t \in groups[g].members :
               Fits(maps[t]) /\ Begun(g, t)' => Begun(g, t)
      PROVE  Shown'
  <2>1. \A t : ReadWhole(t)' <=> ReadWhole(t)
    BY <1>4 DEF ReadWhole, Overlaps, Cells, Asked, Fits
  <2>2. \A t \in DOMAIN maps : OwnValue(maps[t])' = OwnValue(maps[t])
    BY <1>4 DEF OwnValue
  <2> SUFFICES ASSUME NEW g \in DOMAIN groups, NEW t \in groups[g].members,
                      Fits(maps[t]), Begun(g, t)'
               PROVE  /\ quality[t] # "initializing"
                      /\ ReadWhole(t) => quality[t] = "good" /\ value[t] = OwnValue(maps[t])
    BY <1>4, <2>1 DEF Shown, OwnValue, Fits
  <2> QED BY <1>4 DEF Shown
<1>5. CASE UNCHANGED vars
  BY <1>4, <1>5 DEF vars, Begun
<1>6. ASSUME NEW i \in 1..Len(groups)+1, EnterGroup(i), UNCHANGED <<space, maps, groups>>,
             NEW g \in DOMAIN groups, NEW t \in groups[g].members, Fits(maps[t]), Begun(g, t)'
      PROVE  g < i
  <2>1. maps[t].address \in GroupCells(groups[g])
    BY <1>6, MemberFacts
  <2>2. g < at' \/ (g = at' /\ maps[t].address < chunk_start')
    BY <1>6 DEF Begun
  <2> QED BY <1>6, <2>1, <2>2, EnterProgress
<1>7. CASE Grouped
  <2>1. EnterGroup(1) /\ UNCHANGED <<space, maps, groups, requests, quality, value>>
    BY <1>7 DEF Grouped, config, planVars, registry
  <2>2. 1 \in 1..Len(groups)+1 /\ \A g \in DOMAIN groups : ~(g < 1)
    BY <1>1
  <2> QED BY <1>4, <1>6, <2>1, <2>2
<1>8. CASE GroupRead
  <2>1. /\ EnterGroup(at + 1) /\ UNCHANGED <<space, maps, groups, requests, quality, value>>
        /\ phase = "read" /\ remaining = 0
    BY <1>8 DEF GroupRead, config, planVars, registry
  <2>2. at \in DOMAIN groups /\ chunk_start = groups[at].start + groups[at].quantity
    BY <1>0, <1>1, <2>1 DEF Types, ReadBounds
  <2>3. at + 1 \in 1..Len(groups)+1 /\ \A g \in DOMAIN groups : g < at + 1 <=> g < at \/ g = at
    BY <1>1, <2>2
  <2>4. ASSUME NEW g \in DOMAIN groups, NEW t \in groups[g].members, Fits(maps[t]), Begun(g, t)'
        PROVE  Begun(g, t)
    <3>1. g < at \/ g = at
      BY <1>6, <2>1, <2>3, <2>4
    <3>2. ASSUME g = at PROVE maps[t].address < chunk_start
      <4>1. maps[t].address \in GroupCells(groups[at])
        BY <2>4, <3>2, MemberFacts
      <4>2. groups[at].start \in Int /\ groups[at].quantity \in Int
        BY <1>0, <2>2, GroupFacts
      <4> QED BY <2>2, <4>1, <4>2 DEF GroupCells
    <3> QED BY <2>1, <3>1, <3>2 DEF Begun
  <2> QED BY <1>4, <2>1, <2>4
<1>9. CASE ReadChunk \/ FinsReadChunk
  <2>1. /\ phase = "read" /\ at \in DOMAIN groups /\ chunk_start \in Width
        /\ UNCHANGED <<space, maps, groups>>
    BY <1>9, ChunkOutcome DEF config, planVars
  <2>2. PICK n \in 1..AddrMod-1 :
                /\ chunk_start + n <= groups[at].start + groups[at].quantity
                /\ requests' = Append(requests, [start |-> chunk_start, quantity |-> n])
                /\ Replied(chunk_start, n)
                /\ \A g \in DOMAIN groups : \A c \in GroupCells(groups[g]) :
                     c < AddrMod /\ (g < at' \/ (g = at' /\ c < chunk_start'))
                        => g < at \/ (g = at /\ c < chunk_start + n)
    BY <1>9, ChunkProgress
  <2>3. PICK r : r = [start |-> chunk_start, quantity |-> n] /\ r.start = chunk_start /\ r.quantity = n
    <3>1. PICK x : x = [start |-> chunk_start, quantity |-> n]
      OBVIOUS
    <3>2. x.start = chunk_start /\ x.quantity = n
      BY <3>1
    <3> QED BY <3>1, <3>2
  <2>4. /\ \A i \in DOMAIN requests : i \in DOMAIN requests' /\ requests'[i] = requests[i]
        /\ \E i \in DOMAIN requests' : requests'[i] = r
    <3>1. requests \in Seq(RequestType)
      BY <1>1
    <3>2. requests' = Append(requests, r) /\ r \in RequestType
      BY <1>0, <2>1, <2>2, <2>3 DEF RequestType
    <3>3. /\ requests' \in Seq(RequestType)
          /\ Len(requests') = Len(requests) + 1
          /\ \A i \in 1..Len(requests) : requests'[i] = requests[i]
          /\ requests'[Len(requests) + 1] = r
      BY <3>1, <3>2, AppendProperties
    <3>4. /\ DOMAIN requests = 1..Len(requests) /\ Len(requests) \in Nat
          /\ DOMAIN requests' = 1..(Len(requests) + 1)
      BY <3>1, <3>3
    <3>5. /\ Len(requests) + 1 \in DOMAIN requests'
          /\ \A i \in DOMAIN requests : i \in DOMAIN requests' /\ i \in 1..Len(requests)
      BY <3>4
    <3> QED BY <3>3, <3>5
  <2>5. n \in 1..AddrMod
    BY <1>0
  <2>6. \A t \in DOMAIN maps :
          IF t \in groups[at].members /\ (Overlaps(maps[t], chunk_start, n) \/ Refused(chunk_start, n))
          THEN /\ quality'[t] # "initializing"
               /\ WholeIn(t, chunk_start, n) /\ ~Refused(chunk_start, n) =>
                    quality'[t] = "good" /\ value'[t] = OwnValue(maps[t])
          ELSE quality'[t] = quality[t] /\ value'[t] = value[t]
    BY <1>1, <2>1, <2>2, <2>5, ReplyFacts
  <2> DEFINE Whole(t) ==
        /\ Fits(maps[t])
        /\ maps[t].quantity >= WordsOf(maps[t].type)
        /\ \A g \in DOMAIN groups :
             t \in groups[g].members => groups[g].start + groups[g].quantity <= AddrMod
        /\ \A i \in DOMAIN requests' :
             Overlaps(maps[t], requests'[i].start, requests'[i].quantity) =>
               /\ Cells(maps[t]) \subseteq Asked(requests'[i])
               /\ space = "coils" => requests'[i].quantity = 1
  <2>7. ASSUME NEW g \in DOMAIN groups, NEW t \in groups[g].members, Fits(maps[t]), Begun(g, t)'
        PROVE  /\ quality'[t] # "initializing"
               /\ Whole(t) => quality'[t] = "good" /\ value'[t] = OwnValue(maps[t])
    <3>1. /\ t \in DOMAIN maps /\ maps[t].address \in GroupCells(groups[g])
          /\ maps[t].address < AddrMod
      BY <2>7, MemberFacts
    <3>2. g < at \/ (g = at /\ maps[t].address < chunk_start + n)
      <4>1. g < at' \/ (g = at' /\ maps[t].address < chunk_start')
        BY <2>1, <2>7 DEF Begun
      <4> QED BY <2>2, <3>1, <4>1
    <3>3. Whole(t) => ReadWhole(t)
      BY <2>4 DEF ReadWhole
    <3>4. Whole(t) /\ Overlaps(maps[t], chunk_start, n) => WholeIn(t, chunk_start, n)
      BY <2>3, <2>4 DEF WholeIn, Asked
    <3>5. Whole(t) /\ t \in groups[at].members => ~Refused(chunk_start, n)
      <4> SUFFICES ASSUME Whole(t), t \in groups[at].members, Refused(chunk_start, n) PROVE FALSE
        OBVIOUS
      <4>1. groups[at].start + groups[at].quantity <= AddrMod
        BY <2>1
      <4>2. chunk_start + n > AddrMod
        BY <1>1, <2>5, RefusedFacts
      <4>3. groups[at].start \in Int /\ groups[at].quantity \in Int
        BY <2>1, GroupFacts
      <4> QED BY <1>0, <1>1, <2>2, <4>1, <4>2, <4>3
    <3>6. CASE /\ t \in groups[at].members
               /\ Overlaps(maps[t], chunk_start, n) \/ Refused(chunk_start, n)
      <4>1. quality'[t] # "initializing"
        BY <2>6, <3>1, <3>6
      <4>2. ASSUME Whole(t) PROVE quality'[t] = "good" /\ value'[t] = OwnValue(maps[t])
        <5> HIDE DEF Whole
        <5> QED BY <2>6, <3>1, <3>4, <3>5, <3>6, <4>2
      <4> QED BY <4>1, <4>2
    <3>7. CASE ~(/\ t \in groups[at].members
                 /\ Overlaps(maps[t], chunk_start, n) \/ Refused(chunk_start, n))
      <4>1. quality'[t] = quality[t] /\ value'[t] = value[t]
        BY <2>6, <3>1, <3>7
      <4>2. Begun(g, t)
        <5>1. CASE g < at
          BY <2>1, <5>1 DEF Begun
        <5>2. CASE g = at
          <6>1. maps[t].address < chunk_start + n
            BY <1>1, <3>2, <5>2
          <6>2. ~Overlaps(maps[t], chunk_start, n)
            BY <3>7, <5>2
          <6>3. maps[t].address \in Int /\ maps[t].quantity \in Int /\ maps[t].quantity >= 1
            BY <1>0, <3>1, MapFacts
          <6>4. chunk_start \in Int
            BY <1>0, <1>1
          <6>5. maps[t].address < chunk_start
            BY <6>1, <6>2, <6>3, <6>4 DEF Overlaps
          <6> QED BY <2>1, <5>2, <6>5 DEF Begun
        <5> QED BY <3>2, <5>1, <5>2
      <4> QED BY <2>7, <3>3, <4>1, <4>2 DEF Shown
    <3> QED BY <3>6, <3>7
  <2>8. \A t \in DOMAIN maps : ReadWhole(t)' <=> Whole(t)
    BY <2>1 DEF ReadWhole, Overlaps, Cells, Asked, Fits
  <2>9. \A g \in DOMAIN groups : groups[g].members \subseteq DOMAIN maps
    BY GroupFacts
  <2> HIDE DEF Whole
  <2> QED BY <2>1, <2>7, <2>8, <2>9 DEF Shown, OwnValue, Fits
<1> QED BY <1>3, <1>5, <1>7, <1>8, <1>9 DEF Next

-----------------------------------------------------------------------------
(***************************************************************************)
(* The theorems.                                                           *)
(***************************************************************************)

LEMMA Inductive == Spec => []Inv
<1>1. ASSUME Init PROVE Inv
  <2>1. Types
    BY <1>1, InitTypes
  <2>2. Grouping
    <3>1. groups = << >> /\ DOMAIN groups = {} /\ phase = "group" /\ todo = 1
      BY <1>1 DEF Init
    <3>2. \A t \in DOMAIN maps : ~(t < todo)
      BY <2>1, <3>1 DEF Types, TypeOK
    <3> QED BY <3>1, <3>2 DEF Grouping
  <2>3. Reading /\ Shown
    BY <1>1 DEF Init, Reading, Shown
  <2> QED BY <2>1, <2>2, <2>3 DEF Inv
<1>2. ASSUME Inv, [Next]_vars PROVE Inv'
  <2>1. Types /\ Types'
    BY <1>2, TypesStep DEF Inv
  <2>2. UNCHANGED <<space, maps>>
    BY <1>2, ChunkOutcome, GroupOutcome, <2>1 DEF Next, Grouped, GroupRead, NextCycle, config, vars
  <2>3. WholeSpace' <=> WholeSpace
    BY <2>2 DEF WholeSpace, FittingCells, Cells, Fits
  <2> SUFFICES ASSUME ~WholeSpace PROVE Grouping' /\ Reading' /\ Shown'
    BY <2>1, <2>3 DEF Inv
  <2>4. Grouping /\ Reading /\ Shown
    BY <1>2 DEF Inv
  <2>5. Grouping'
    BY <1>2, <2>1, <2>4, GroupingStep
  <2>6. Reading'
    BY <1>2, <2>1, <2>4, ReadingStep
  <2>7. Shown'
    BY <1>2, <2>1, <2>4, ShownStep
  <2> QED BY <2>5, <2>6, <2>7
<1> QED BY <1>1, <1>2, PTL DEF Spec

\* After a cycle, what lies inside the memory has been read: the cycle went through
\* all groups, or a refusal ended it in a group that runs past the end, and the groups
\* after that one begin past it.
LEMMA AllRead ==
    ASSUME Inv, phase = "done", ~WholeSpace, NEW t \in DOMAIN maps, Fits(maps[t]),
           NEW c \in Cells(maps[t])
    PROVE  \E g \in DOMAIN groups :
             /\ t \in groups[g].members /\ c \in GroupCells(groups[g])
             /\ c < AddrMod
             /\ g < at \/ (g = at /\ c < chunk_start)
<1>1. Types /\ Grouping /\ Reading
  BY DEF Inv
<1>2. AddrMod \in Nat \ {0} /\ maps[t].address \in Nat /\ maps[t].quantity \in Nat
  BY <1>1, MapFacts, PlanAssumption
<1>3. c \in Int /\ c < AddrMod
  BY <1>2 DEF Cells, Fits
<1>4. todo = Len(maps) + 1 /\ (at = Len(groups) + 1 \/ BrokenOff)
  BY <1>1 DEF Reading, Grouping
<1>5. t < todo
  BY <1>1, <1>4 DEF Types, TypeOK
<1>6. PICK g \in DOMAIN groups : t \in groups[g].members /\ c \in GroupCells(groups[g])
  <2>1. PICK g \in DOMAIN groups : t \in groups[g].members
    BY <1>1, <1>5 DEF Grouping
  <2>2. c \in GroupCells(groups[g])
    BY <1>1, <2>1 DEF Grouping, Adds
  <2> QED BY <2>1, <2>2
<1>7. /\ DOMAIN groups = 1..Len(groups) /\ Len(groups) \in Nat
      /\ at \in 1..Len(groups)+1 /\ chunk_start \in Nat
  BY <1>1, WidthFacts, SMTT(30) DEF Types, TypeOK
<1>8. CASE at = Len(groups) + 1
  BY <1>3, <1>6, <1>7, <1>8
<1>9. CASE BrokenOff
  <2>1. /\ space = "area" /\ at \in DOMAIN groups /\ AddrMod < chunk_start
        /\ chunk_start <= groups[at].start + groups[at].quantity
    BY <1>9 DEF BrokenOff
  <2>2. ~(at < g)
    <3> SUFFICES ASSUME at < g PROVE FALSE
      OBVIOUS
    <3>1. groups[at].start + groups[at].quantity <= groups[g].start
      BY <1>1, <1>6, <2>1 DEF Types, GroupBounds
    <3>2. /\ groups[at].start \in Int /\ groups[at].quantity \in Int
          /\ groups[g].start \in Int /\ groups[g].quantity \in Int
      BY <1>1, <1>6, <2>1, GroupFacts
    <3>3. groups[g].start <= c
      BY <1>3, <1>6, <3>2 DEF GroupCells
    <3> QED BY <1>2, <1>3, <1>7, <2>1, <3>1, <3>2, <3>3
  <2>3. g < at \/ g = at
    BY <1>6, <1>7, <2>2
  <2>4. c < chunk_start
    BY <1>2, <1>3, <1>7, <2>1
  <2> QED BY <1>3, <1>6, <2>3, <2>4
<1> QED BY <1>4, <1>8, <1>9

\* A cycle asks only for mapped cells, in requests of the allowed size, for all cells
\* of the mappings that end inside the memory, and for no cell twice that belongs to
\* one mapping only, wherever groups and requests begin and end and whatever other
\* mappings run past the end.  Not said of a Modbus space without a free address.
THEOREM CellsTheorem == Spec => []ReadsEachCellOnce
<1>1. ASSUME Inv PROVE ReadsEachCellOnce
  <2> SUFFICES ASSUME ~WholeSpace PROVE ReadsEachCellOnce
    BY DEF ReadsEachCellOnce
  <2>1. Types /\ Grouping /\ Reading
    BY <1>1 DEF Inv
  <2>2. ASSUME NEW i \in DOMAIN requests
        PROVE  Asked(requests[i]) \subseteq MappedCells
    <3>1. PICK g \in DOMAIN groups : Asked(requests[i]) \subseteq GroupCells(groups[g])
      BY <2>1 DEF Reading, SentIn
    <3>2. groups[g].members \subseteq DOMAIN maps
      BY <2>1, GroupFacts
    <3>3. \A c \in GroupCells(groups[g]) : \E t \in DOMAIN maps : c \in Cells(maps[t])
      BY <2>1, <3>2 DEF Grouping
    <3> QED BY <3>1, <3>3 DEF MappedCells
  <2>3. ASSUME phase = "done"
        PROVE  FittingCells \subseteq UNION {Asked(requests[i]) : i \in DOMAIN requests}
    <3>1. ASSUME NEW t \in DOMAIN maps, Fits(maps[t]), NEW c \in Cells(maps[t])
          PROVE  \E i \in DOMAIN requests : c \in Asked(requests[i])
      <4>1. PICK g \in DOMAIN groups : /\ c \in GroupCells(groups[g]) /\ c < AddrMod
                                       /\ g < at \/ (g = at /\ c < chunk_start)
        BY <1>1, <2>3, <3>1, AllRead
      <4> QED BY <2>1, <4>1 DEF Reading
    <3> QED BY <3>1 DEF FittingCells
  <2> QED BY <2>1, <2>2, <2>3 DEF ReadsEachCellOnce, Reading
<1> QED BY <1>1, Inductive, PTL

\* After a cycle the tags that end inside the memory have been read.
LEMMA AllBegun ==
    ASSUME Inv, phase = "done", ~WholeSpace, NEW t \in DOMAIN maps, Fits(maps[t])
    PROVE  \E g \in DOMAIN groups : t \in groups[g].members /\ Begun(g, t)
<1>1. maps[t].address \in Cells(maps[t])
  BY MapFacts, PlanAssumption DEF Cells, Inv
<1>2. PICK g \in DOMAIN groups :
         /\ t \in groups[g].members
         /\ g < at \/ (g = at /\ maps[t].address < chunk_start)
  BY <1>1, AllRead
<1> QED BY <1>2 DEF Begun

\* After a cycle every tag that ends inside the memory has a verdict: no mapping falls
\* between two groups or two requests, and no refusal ends the cycle before it.
THEOREM JudgedTheorem == Spec => []EveryTagJudged
<1>1. Inv => EveryTagJudged
  BY AllBegun DEF Inv, Shown, EveryTagJudged
<1> QED BY <1>1, Inductive, PTL

\* A tag whose cells one request reads as a whole, in a group that ends inside the
\* memory, is Good after the cycle and shows the value of its own cells.
THEOREM WholeTheorem == Spec => []WholeIsShown
<1>1. ASSUME Inv, phase = "done", ~WholeSpace, NEW t \in DOMAIN maps, ReadWhole(t)
      PROVE  quality[t] = "good" /\ value[t] = OwnValue(maps[t])
  <2>1. Fits(maps[t])
    BY <1>1 DEF ReadWhole
  <2>2. PICK g \in DOMAIN groups : t \in groups[g].members /\ Begun(g, t)
    BY <1>1, <2>1, AllBegun
  <2> QED BY <1>1, <2>1, <2>2 DEF Inv, Shown
<1>2. Inv => WholeIsShown
  BY <1>1 DEF WholeIsShown
<1> QED BY <1>2, Inductive, PTL
=============================================================================
