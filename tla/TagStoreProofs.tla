--------------------------- MODULE TagStoreProofs ---------------------------
(***************************************************************************)
(* The properties of TagStore, for any ids, threads, subscribers and       *)
(* channel capacity, and however many calls are made.                      *)
(*                                                                         *)
(* The structure changes under the write lock only, and only by a slot at  *)
(* the end: a slot a thread has found stays the slot of its id, and no     *)
(* other id shares it.  What remains is that nobody but its one writer     *)
(* stores a tag, so that what the writer loaded is what it stores over.    *)
(***************************************************************************)
EXTENDS TagStore, FiniteSetTheorems, WellFoundedInduction, TLAPS

Tag == [val : Nat, qual : {"initializing", "good", "commlost", "stale"}]

Ops == {"insert", "update", "commlost", "stale"}

Call == [pc : {"idle", "slow", "load", "store", "broadcast"}, op : Ops \union {"none"},
         id : Nat, n : Nat, slot : Nat, new : Tag]

InnerTypeOK ==
    /\ tags \in Seq(Tag)
    /\ index \in [Ids -> 0..Len(tags)]
    /\ sortedIds \in Seq(Ids)

\* A thread in a call is in one for a tag it writes, and has that tag's slot once
\* it found one.
ThreadTypeOK ==
    /\ thread \in [Threads -> Call]
    /\ calls \in Nat
    /\ \A k \in Threads : thread[k].pc # "idle" =>
         thread[k].op \in Ops /\ thread[k].id \in Ids /\ thread[k].id \in Writes[k]
    /\ \A k \in Threads : thread[k].pc \in {"load", "store", "broadcast"} =>
         thread[k].slot = index[thread[k].id] /\ thread[k].slot # 0

SubTypeOK ==
    /\ sub \in [Subscribers -> [open : BOOLEAN, backlog : 0..ChannelCap, lost : BOOLEAN]]
    /\ view \in [Subscribers -> [Ids -> Tag]]

TypeOK == InnerTypeOK /\ ThreadTypeOK /\ SubTypeOK /\ ideal \in [Ids -> Tag]

-----------------------------------------------------------------------------
LEMMA AppliedType ==
    ASSUME NEW c \in Call, NEW tag \in Tag, c.op \in Ops PROVE Applied(c, tag) \in Tag
BY DEF Applied, Call, Tag, Ops

LEMMA NoTagType == NoTag \in Tag /\ Idle \in Call
BY DEF NoTag, Tag, Idle, Call

LEMMA EnterType ==
    ASSUME TypeOK, NEW k \in Threads, NEW t \in Writes[k], NEW op \in Ops,
           NEW pc \in {"slow", "load", "store"}, pc # "slow" => index[t] # 0,
           Enter(k, op, t, pc)
    PROVE  TypeOK'
<1> USE StoreAssumption
<1> DEFINE call == [pc |-> pc, op |-> op, id |-> t, n |-> calls + 1, slot |-> index[t],
                    new |-> NoTag]
<1>1. t \in Ids /\ t \in Nat /\ index[t] \in Nat /\ call \in Call
  BY NoTagType DEF TypeOK, InnerTypeOK, ThreadTypeOK, Call
<1>2. Applied(call, NoTag) \in Tag
  BY <1>1, AppliedType, NoTagType
<1>3. thread' = [thread EXCEPT ![k] = [call EXCEPT !.new = Applied(call, NoTag)]]
      /\ calls' = calls + 1
  BY DEF Enter
<1>4. ThreadTypeOK'
  <2> HIDE DEF call
  <2>1. /\ [call EXCEPT !.new = Applied(call, NoTag)] \in Call
        /\ [call EXCEPT !.new = Applied(call, NoTag)].pc = call.pc
        /\ [call EXCEPT !.new = Applied(call, NoTag)].op = call.op
        /\ [call EXCEPT !.new = Applied(call, NoTag)].id = call.id
        /\ [call EXCEPT !.new = Applied(call, NoTag)].slot = call.slot
    BY <1>1, <1>2 DEF Call
  <2>2. call.pc = pc /\ call.op = op /\ call.id = t /\ call.slot = index[t]
    BY DEF call
  <2>3. UNCHANGED index
    BY DEF Enter, innerVars
  <2> QED BY <1>1, <1>3, <2>1, <2>2, <2>3 DEF TypeOK, ThreadTypeOK
<1> QED BY <1>4 DEF TypeOK, InnerTypeOK, SubTypeOK, Enter, innerVars, subVars

LEMMA SendType ==
    ASSUME SubTypeOK, NEW t \in Ids, NEW tag \in Tag, Send(t, tag) PROVE SubTypeOK'
<1> USE StoreAssumption
<1>1. ASSUME NEW s \in Subscribers
      PROVE  sub'[s] \in [open : BOOLEAN, backlog : 0..ChannelCap, lost : BOOLEAN]
  <2>1. sub[s] \in [open : BOOLEAN, backlog : 0..ChannelCap, lost : BOOLEAN]
    BY DEF SubTypeOK
  <2>2. \/ sub'[s] = sub[s]
        \/ sub'[s] = [sub[s] EXCEPT !.lost = TRUE]
        \/ sub[s].backlog # ChannelCap /\ sub'[s] = [sub[s] EXCEPT !.backlog = @ + 1]
    BY Zenon DEF Send
  <2>3. CASE sub'[s] = sub[s]
    BY <2>1, <2>3
  <2>4. CASE sub'[s] = [sub[s] EXCEPT !.lost = TRUE]
    BY <2>1, <2>4
  <2>5. CASE sub[s].backlog # ChannelCap /\ sub'[s] = [sub[s] EXCEPT !.backlog = @ + 1]
    BY <2>1, <2>5
  <2> QED BY <2>2, <2>3, <2>4, <2>5
<1>2. ASSUME NEW s \in Subscribers PROVE view'[s] \in [Ids -> Tag]
  BY DEF Send, SubTypeOK
<1> QED BY <1>1, <1>2 DEF Send, SubTypeOK

\* The thread of a call after its load and after its store.
Loaded(c, new) == [c EXCEPT !.pc = "store", !.new = new]
Stored(c) == [c EXCEPT !.pc = "broadcast"]

LEMMA CallMoves ==
    ASSUME NEW c \in Call, NEW new \in Tag
    PROVE  /\ Loaded(c, new) \in Call /\ Stored(c) \in Call
           /\ Loaded(c, new).pc = "store" /\ Loaded(c, new).new = new
           /\ Loaded(c, new).op = c.op /\ Loaded(c, new).id = c.id /\ Loaded(c, new).n = c.n
           /\ Loaded(c, new).slot = c.slot
           /\ Stored(c).pc = "broadcast" /\ Stored(c).new = c.new
           /\ Stored(c).op = c.op /\ Stored(c).id = c.id /\ Stored(c).n = c.n
           /\ Stored(c).slot = c.slot
BY DEF Call, Loaded, Stored

\* Storing over a slot.
LEMMA ReplaceFacts ==
    ASSUME NEW S, NEW s \in Seq(S), NEW i \in 1..Len(s), NEW x \in S
    PROVE  /\ [s EXCEPT ![i] = x] \in Seq(S) /\ Len([s EXCEPT ![i] = x]) = Len(s)
           /\ [s EXCEPT ![i] = x][i] = x
           /\ \A j \in 1..Len(s) : j # i => [s EXCEPT ![i] = x][j] = s[j]
OBVIOUS

\* The slot of a tag that is there.
LEMMA SlotFacts ==
    ASSUME InnerTypeOK, NEW t \in Ids, index[t] # 0
    PROVE  index[t] \in 1..Len(tags) /\ tags[index[t]] \in Tag
BY DEF InnerTypeOK

LEMMA LoadType == ASSUME TypeOK, NEW k \in Threads, Load(k) PROVE TypeOK'
<1> USE StoreAssumption
<1> DEFINE c == thread[k]
           new == Applied(c, tags[c.slot])
           d == Loaded(c, new)
<1>1. c \in Call /\ c.op \in Ops /\ c.id \in Ids /\ c.id \in Writes[k]
      /\ c.slot = index[c.id] /\ c.slot # 0
  BY DEF Load, TypeOK, ThreadTypeOK
<1>2. tags[c.slot] \in Tag
  BY <1>1, SlotFacts DEF TypeOK
<1>3. new \in Tag
  BY <1>1, <1>2, AppliedType
<1>4. thread' = [thread EXCEPT ![k] = d]
  BY DEF Load, Loaded, TypeOK, ThreadTypeOK
<1>5. d \in Call /\ d.pc = "store" /\ d.op = c.op /\ d.id = c.id /\ d.slot = c.slot
  <2> HIDE DEF c, new
  <2> QED BY <1>1, <1>3, CallMoves
<1>6. ThreadTypeOK'
  <2> HIDE DEF d
  <2>1. UNCHANGED <<index, calls>>
    BY DEF Load, innerVars
  <2> QED BY <1>1, <1>4, <1>5, <2>1 DEF TypeOK, ThreadTypeOK
<1> QED BY <1>6 DEF TypeOK, InnerTypeOK, SubTypeOK, Load, innerVars, subVars

LEMMA StoreType == ASSUME TypeOK, NEW k \in Threads, Store(k) PROVE TypeOK'
<1> USE StoreAssumption
<1> DEFINE c == thread[k]
           d == Stored(c)
<1>1. c \in Call /\ c.op \in Ops /\ c.id \in Ids /\ c.id \in Writes[k]
      /\ c.slot = index[c.id] /\ c.slot # 0 /\ c.new \in Tag
  BY DEF Store, TypeOK, ThreadTypeOK, Call
<1>2. tags' = [tags EXCEPT ![c.slot] = c.new]
  BY DEF Store
<1>3. InnerTypeOK'
  <2>1. tags' \in Seq(Tag) /\ Len(tags') = Len(tags)
    BY <1>1, <1>2, SlotFacts, ReplaceFacts DEF TypeOK, InnerTypeOK
  <2> QED BY <2>1 DEF Store, TypeOK, InnerTypeOK
<1>4. thread' = [thread EXCEPT ![k] = d]
  BY DEF Store, Stored, TypeOK, ThreadTypeOK
<1>5. d \in Call /\ d.pc = "broadcast" /\ d.op = c.op /\ d.id = c.id /\ d.slot = c.slot
  <2> HIDE DEF c
  <2> QED BY <1>1, CallMoves
<1>6. ThreadTypeOK'
  <2> HIDE DEF d
  <2>1. UNCHANGED <<index, calls>>
    BY DEF Store
  <2> QED BY <1>1, <1>4, <1>5, <2>1 DEF TypeOK, ThreadTypeOK
<1>7. ideal' \in [Ids -> Tag]
  <2>1. Applied(c, ideal[c.id]) \in Tag
    BY <1>1, AppliedType DEF TypeOK
  <2>2. ideal' = [ideal EXCEPT ![c.id] = Applied(c, ideal[c.id])]
    BY <1>1 DEF Store, TypeOK
  <2> QED BY <2>1, <2>2 DEF TypeOK
<1> QED BY <1>3, <1>6, <1>7 DEF TypeOK, SubTypeOK, Store, subVars

\* A call ends: its thread has nothing to remember.
LEMMA EndType ==
    ASSUME ThreadTypeOK, NEW k \in Threads, thread' = [thread EXCEPT ![k] = Idle],
           UNCHANGED calls,
           \A j \in Threads : thread[j].pc \in {"load", "store", "broadcast"} =>
               index'[thread[j].id] = index[thread[j].id]
    PROVE  ThreadTypeOK'
<1>1. Idle \in Call /\ Idle.pc = "idle"
  BY NoTagType DEF Idle
<1> HIDE DEF Idle
<1>2. \A j \in Threads : thread'[j] = Idle \/ thread'[j] = thread[j]
  BY DEF ThreadTypeOK
<1>3. thread' \in [Threads -> Call]
  BY <1>1 DEF ThreadTypeOK
<1>4. \A j \in Threads : thread'[j].pc # "idle" => thread'[j] = thread[j]
  BY <1>1, <1>2
<1>5. ASSUME NEW j \in Threads, thread'[j].pc \in {"load", "store", "broadcast"}
      PROVE  thread'[j].slot = index'[thread'[j].id] /\ thread'[j].slot # 0
  <2>1. thread'[j] = thread[j]
    BY <1>4, <1>5
  <2> QED BY <1>5, <2>1 DEF ThreadTypeOK
<1> QED BY <1>3, <1>4, <1>5 DEF ThreadTypeOK

LEMMA BroadcastType == ASSUME TypeOK, NEW k \in Threads, Broadcast(k) PROVE TypeOK'
<1>1. thread[k].id \in Ids /\ thread[k].new \in Tag
  BY DEF Broadcast, TypeOK, ThreadTypeOK, Call
<1>2. SubTypeOK'
  BY <1>1, SendType DEF Broadcast, TypeOK
<1>3. ThreadTypeOK'
  BY EndType DEF Broadcast, TypeOK, innerVars
<1> QED BY <1>2, <1>3 DEF TypeOK, InnerTypeOK, Broadcast, innerVars

LEMMA RacedType == ASSUME TypeOK, NEW k \in Threads, InsertRaced(k) PROVE TypeOK'
<1> DEFINE c == thread[k]
<1>1. c.id \in Ids /\ c.new \in Tag
  BY DEF InsertRaced, TypeOK, ThreadTypeOK, Call
<1>2. InnerTypeOK'
  <2>1. tags' = [tags EXCEPT ![index[c.id]] = c.new]
    BY DEF InsertRaced
  <2>2. tags' \in Seq(Tag) /\ Len(tags') = Len(tags)
    BY <1>1, <2>1, SlotFacts, ReplaceFacts DEF InsertRaced, TypeOK, InnerTypeOK
  <2> QED BY <2>2 DEF InsertRaced, TypeOK, InnerTypeOK
<1>3. ThreadTypeOK'
  BY EndType DEF InsertRaced, TypeOK
<1>4. ideal' \in [Ids -> Tag]
  BY <1>1 DEF InsertRaced, TypeOK
<1> QED BY <1>2, <1>3, <1>4 DEF TypeOK, SubTypeOK, InsertRaced, subVars

-----------------------------------------------------------------------------
(***************************************************************************)
(* The list of ids stays sorted.                                           *)
(***************************************************************************)

\* Every set of numbers that is not empty has a least element: how the induction
\* of the following lemmas is done.
LEMMA Least == ASSUME NEW T \in SUBSET Nat, T # {} PROVE \E m \in T : \A k \in T : m <= k
<1> DEFINE R == OpToRel(<, Nat)
<1>1. IsWellFoundedOn(R, Nat)
  BY NatLessThanWellFounded
<1>2. R = {pair \in Nat \X Nat : pair[1] < pair[2]}
  BY DEF OpToRel
<1> HIDE DEF R
<1>3. PICK m \in T : \A k \in T : ~ (<<k, m>> \in R)
  BY <1>1, WFMin
<1>4. ASSUME NEW k \in T PROVE m <= k
  <2>1. k \in Nat /\ m \in Nat /\ <<k, m>> \in Nat \X Nat /\ <<k, m>>[1] = k /\ <<k, m>>[2] = m
    OBVIOUS
  <2>2. ~(k < m)
    BY <1>2, <1>3, <2>1
  <2> QED BY <2>1, <2>2
<1> QED BY <1>4

Sorted == \A i, j \in 1..Len(sortedIds) : i < j => sortedIds[i] < sortedIds[j]

\* The position binary_search_by looks for exists.
LEMMA Position ==
    ASSUME InnerTypeOK, Sorted, NEW t \in Ids
    PROVE  /\ InsertPos(t) \in 0..Len(sortedIds)
           /\ \A i \in 1..InsertPos(t) : sortedIds[i] < t
           /\ \A i \in (InsertPos(t) + 1)..Len(sortedIds) : sortedIds[i] >= t
<1> USE StoreAssumption
<1> DEFINE n == Len(sortedIds)
           T == {p \in Nat : p <= n /\ \A i \in (p + 1)..n : sortedIds[i] >= t}
<1>1. n \in Nat /\ \A i \in 1..n : sortedIds[i] \in Nat /\ sortedIds[i] \in Ids
  <2>1. sortedIds \in Seq(Ids) /\ Ids \subseteq Nat
    BY DEF InnerTypeOK
  <2>2. n \in Nat
    BY <2>1
  <2>3. \A i \in 1..n : sortedIds[i] \in Ids
    BY <2>1
  <2> QED BY <2>1, <2>2, <2>3
<1>2. t \in Nat
  OBVIOUS
<1>3. n \in T
  BY <1>1
<1>4. PICK p \in T : \A q \in T : p <= q
  BY <1>3, Least
<1>5. ASSUME NEW i \in 1..p PROVE sortedIds[i] < t
  <2>0. p \in Nat /\ p <= n /\ p - 1 \in Nat /\ p \in 1..n /\ i \in 1..n
    BY <1>1, <1>5
  <2>1. p - 1 \notin T
    BY <1>4, <2>0
  <2>2. PICK j \in ((p - 1) + 1)..n : ~(sortedIds[j] >= t)
    BY <1>1, <2>0, <2>1
  <2>3. j = p
    BY <1>1, <1>4, <2>0, <2>2
  <2>4. sortedIds[p] < t
    BY <1>1, <1>2, <2>0, <2>2, <2>3
  <2>5. i = p \/ sortedIds[i] < sortedIds[p]
    BY <1>5, <2>0 DEF Sorted
  <2> QED BY <1>1, <1>2, <2>0, <2>4, <2>5
<1>6. \E q \in 0..Len(sortedIds) :
        /\ \A i \in 1..q : sortedIds[i] < t
        /\ \A i \in (q + 1)..Len(sortedIds) : sortedIds[i] >= t
  BY <1>1, <1>4, <1>5
<1> QED BY <1>6, Zenon DEF InsertPos

\* Inserting at that position.
LEMMA InsertFacts ==
    ASSUME InnerTypeOK, Sorted, NEW t \in Ids, \A i \in 1..Len(sortedIds) : sortedIds[i] # t,
           sortedIds' = SortedInsert(t)
    PROVE  /\ sortedIds' \in Seq(Ids)
           /\ Sorted'
           /\ {sortedIds'[i] : i \in 1..Len(sortedIds')} =
                {sortedIds[i] : i \in 1..Len(sortedIds)} \union {t}
<1> USE StoreAssumption
<1> DEFINE n == Len(sortedIds)
           p == InsertPos(t)
<1>1. /\ p \in 0..n
      /\ \A i \in 1..p : sortedIds[i] < t
      /\ \A i \in (p + 1)..n : sortedIds[i] >= t
  BY Position
<1>2. n \in Nat /\ t \in Nat /\ \A i \in 1..n : sortedIds[i] \in Nat /\ sortedIds[i] \in Ids
  <2>1. sortedIds \in Seq(Ids) /\ Ids \subseteq Nat
    BY DEF InnerTypeOK
  <2>2. n \in Nat
    BY <2>1
  <2>3. \A i \in 1..n : sortedIds[i] \in Ids
    BY <2>1
  <2> QED BY <2>1, <2>2, <2>3
<1>3. sortedIds' = [i \in 1..(n + 1) |->
                      CASE i <= p -> sortedIds[i] [] i = p + 1 -> t [] OTHER -> sortedIds[i - 1]]
  BY DEF SortedInsert
<1> HIDE DEF p, n
<1>4. /\ \A i \in 1..p : i \in 1..n /\ sortedIds'[i] = sortedIds[i]
      /\ sortedIds'[p + 1] = t
      /\ \A i \in (p + 2)..(n + 1) : i - 1 \in 1..n /\ sortedIds'[i] = sortedIds[i - 1]
  BY <1>1, <1>2, <1>3
<1>5. \A i \in 1..(n + 1) : i \in 1..p \/ i = p + 1 \/ i \in (p + 2)..(n + 1)
  BY <1>1, <1>2
<1>6. sortedIds' \in [1..(n + 1) -> Ids]
  <2>1. \A i \in 1..(n + 1) : sortedIds'[i] \in Ids
    BY <1>2, <1>4, <1>5
  <2> QED BY <1>3, <2>1
<1>7. sortedIds' \in Seq(Ids) /\ Len(sortedIds') = n + 1
  BY <1>2, <1>6
<1>8. ASSUME NEW i \in 1..(n + 1), NEW j \in 1..(n + 1), i < j
      PROVE  sortedIds'[i] < sortedIds'[j]
  <2>0. \A a, b \in 1..n : a < b => sortedIds[a] < sortedIds[b]
    BY DEF Sorted, n
  <2>1. \A a \in (p + 1)..n : t < sortedIds[a]
    BY <1>1, <1>2 DEF n
  <2>2. CASE i \in 1..p /\ j \in 1..p
    BY <1>4, <1>8, <2>0, <2>2
  <2>3. CASE i \in 1..p /\ j = p + 1
    BY <1>1, <1>4, <2>3
  <2>4. CASE i \in 1..p /\ j \in (p + 2)..(n + 1)
    BY <1>1, <1>2, <1>4, <2>0, <2>4
  <2>5. CASE i = p + 1 /\ j \in (p + 2)..(n + 1)
    BY <1>1, <1>2, <1>4, <2>1, <2>5
  <2>6. CASE i \in (p + 2)..(n + 1) /\ j \in (p + 2)..(n + 1)
    BY <1>1, <1>2, <1>4, <1>8, <2>0, <2>6
  <2> QED BY <1>1, <1>2, <1>5, <1>8, <2>2, <2>3, <2>4, <2>5, <2>6
<1>9. ASSUME NEW j \in 1..n PROVE \E i \in 1..(n + 1) : sortedIds'[i] = sortedIds[j]
  <2>1. CASE j \in 1..p
    BY <1>1, <1>2, <1>4, <2>1
  <2>2. CASE j \in (p + 1)..n
    <3>1. j + 1 \in (p + 2)..(n + 1) /\ j + 1 \in 1..(n + 1) /\ (j + 1) - 1 = j
      BY <1>1, <1>2, <2>2
    <3> QED BY <1>4, <3>1
  <2> QED BY <1>1, <1>2, <2>1, <2>2
<1>10. \A i \in 1..(n + 1) : sortedIds'[i] = t \/ \E j \in 1..n : sortedIds'[i] = sortedIds[j]
  BY <1>4, <1>5
<1>11. p + 1 \in 1..(n + 1)
  BY <1>1, <1>2
<1>12. {sortedIds'[i] : i \in 1..(n + 1)} = {sortedIds[i] : i \in 1..n} \union {t}
  BY <1>4, <1>9, <1>10, <1>11, SMTT(30)
<1>13. Sorted'
  BY <1>7, <1>8 DEF Sorted
<1> QED BY <1>7, <1>12, <1>13 DEF n

-----------------------------------------------------------------------------
(***************************************************************************)
(* The structure.                                                          *)
(***************************************************************************)

\* Slots, index and sorted ids agree, and no two ids share a slot.
Structure ==
    /\ StoreIsConsistent
    /\ IsFiniteSet(Present)
    /\ \A t, u \in Ids : index[t] # 0 /\ index[t] = index[u] => t = u

\* A new slot: nothing that was there moves.
LEMMA NewSlot ==
    ASSUME TypeOK, Structure, NEW k \in Threads, InsertNew(k)
    PROVE  LET t == thread[k].id IN
           /\ t \in Ids /\ index[t] = 0 /\ thread[k].new \in Tag
           /\ Len(tags) \in Nat /\ tags' \in Seq(Tag) /\ Len(tags') = Len(tags) + 1
           /\ tags'[Len(tags) + 1] = thread[k].new
           /\ \A i \in 1..Len(tags) : tags'[i] = tags[i]
           /\ index' \in [Ids -> 0..Len(tags')]
           /\ index'[t] = Len(tags) + 1
           /\ \A u \in Ids : u # t => index'[u] = index[u]
<1> DEFINE t == thread[k].id
<1>1. t \in Ids /\ index[t] = 0 /\ thread[k].new \in Tag
  BY DEF InsertNew, TypeOK, ThreadTypeOK, Call
<1>2. tags \in Seq(Tag) /\ tags' = Append(tags, thread[k].new)
      /\ index' = [index EXCEPT ![t] = Len(tags) + 1] /\ index \in [Ids -> 0..Len(tags)]
  BY DEF InsertNew, TypeOK, InnerTypeOK
<1>3. /\ Len(tags) \in Nat /\ tags' \in Seq(Tag) /\ Len(tags') = Len(tags) + 1
      /\ tags'[Len(tags) + 1] = thread[k].new
      /\ \A i \in 1..Len(tags) : tags'[i] = tags[i]
  <2>1. ASSUME NEW S, NEW q \in Seq(S), NEW x \in S
        PROVE  /\ Len(q) \in Nat /\ Append(q, x) \in Seq(S) /\ Len(Append(q, x)) = Len(q) + 1
               /\ Append(q, x)[Len(q) + 1] = x
               /\ \A i \in 1..Len(q) : Append(q, x)[i] = q[i]
    OBVIOUS
  <2> QED BY <1>1, <1>2, <2>1
<1>4. index' \in [Ids -> 0..Len(tags')] /\ index'[t] = Len(tags) + 1
      /\ \A u \in Ids : u # t => index'[u] = index[u]
  BY <1>1, <1>2, <1>3
<1> QED BY <1>1, <1>3, <1>4

LEMMA NewType == ASSUME TypeOK, Structure, NEW k \in Threads, InsertNew(k) PROVE TypeOK'
<1> DEFINE t == thread[k].id
<1>1. /\ t \in Ids /\ index[t] = 0 /\ thread[k].new \in Tag
      /\ tags' \in Seq(Tag) /\ index' \in [Ids -> 0..Len(tags')]
      /\ \A u \in Ids : u # t => index'[u] = index[u]
  BY NewSlot
<1>2. \A i \in 1..Len(sortedIds) : sortedIds[i] # t
  BY <1>1 DEF Structure, StoreIsConsistent, Present
<1>3. sortedIds' \in Seq(Ids)
  BY <1>1, <1>2, InsertFacts DEF InsertNew, TypeOK, Structure, StoreIsConsistent, Sorted
<1>4. ThreadTypeOK'
  <2>1. ASSUME NEW j \in Threads, thread[j].pc \in {"load", "store", "broadcast"}
        PROVE  index'[thread[j].id] = index[thread[j].id]
    BY <1>1, <2>1 DEF TypeOK, ThreadTypeOK
  <2> QED BY <2>1, EndType DEF InsertNew, TypeOK
<1>5. SubTypeOK'
  BY <1>1, SendType DEF InsertNew, TypeOK
<1>6. ideal' \in [Ids -> Tag]
  BY <1>1 DEF InsertNew, TypeOK
<1> QED BY <1>1, <1>3, <1>4, <1>5, <1>6 DEF TypeOK, InnerTypeOK

LEMMA NewStructure == ASSUME TypeOK, Structure, NEW k \in Threads, InsertNew(k) PROVE Structure'
<1> DEFINE t == thread[k].id
           n == Len(tags)
<1>1. /\ t \in Ids /\ index[t] = 0 /\ n \in Nat /\ Len(tags') = n + 1
      /\ index' \in [Ids -> 0..(n + 1)] /\ index'[t] = n + 1
      /\ \A u \in Ids : u # t => index'[u] = index[u]
  BY NewSlot
<1>2. index \in [Ids -> 0..n]
  BY DEF TypeOK, InnerTypeOK
<1>3. /\ {index[u] : u \in Present} = 1..n /\ Cardinality(Present) = n
      /\ {sortedIds[i] : i \in 1..Len(sortedIds)} = Present /\ Sorted
      /\ IsFiniteSet(Present)
      /\ \A u, v \in Ids : index[u] # 0 /\ index[u] = index[v] => u = v
  BY DEF Structure, StoreIsConsistent, Sorted
<1> HIDE DEF t, n
<1>4. Present' = Present \union {t} /\ t \notin Present
  BY <1>1 DEF Present
<1>5. IsFiniteSet(Present') /\ Cardinality(Present') = n + 1
  BY <1>1, <1>3, <1>4, FS_AddElement
<1>6. {index'[u] : u \in Present'} = 1..(n + 1)
  <2>1. ASSUME NEW u \in Present' PROVE index'[u] \in 1..(n + 1)
    BY <1>1, <1>2, <2>1 DEF Present
  <2>2. ASSUME NEW m \in 1..(n + 1) PROVE \E u \in Present' : index'[u] = m
    <3>1. CASE m = n + 1
      BY <1>1, <1>4, <3>1
    <3>2. CASE m \in 1..n
      <4>1. PICK u \in Present : index[u] = m
        BY <1>3, <3>2
      <4> QED BY <1>1, <1>4, <4>1 DEF Present
    <3> QED BY <1>1, <2>2, <3>1, <3>2
  <2> QED BY <2>1, <2>2
<1>7. ASSUME NEW u \in Ids, NEW v \in Ids, index'[u] # 0, index'[u] = index'[v] PROVE u = v
  <2>1. CASE u # t /\ v # t
    BY <1>1, <1>3, <1>7, <2>1
  <2>2. \A w \in Ids : w # t => index'[w] \in 0..n
    BY <1>1, <1>2
  <2>3. n + 1 \notin 0..n
    BY <1>1
  <2> QED BY <1>1, <1>7, <2>1, <2>2, <2>3
<1>8. \A i \in 1..Len(sortedIds) : sortedIds[i] # t
  BY <1>3, <1>4
<1>9. sortedIds' = SortedInsert(t)
  BY DEF InsertNew, t
<1>10. Sorted' /\ {sortedIds'[i] : i \in 1..Len(sortedIds')} = Present'
  BY <1>1, <1>3, <1>4, <1>8, <1>9, InsertFacts DEF TypeOK
<1> QED BY <1>1, <1>5, <1>6, <1>7, <1>10 DEF Structure, StoreIsConsistent, Sorted

\* Only a new id changes the structure.
LEMMA KeepStructure ==
    Structure /\ UNCHANGED <<index, sortedIds>> /\ Len(tags') = Len(tags) => Structure'
BY DEF Structure, StoreIsConsistent, Present

LEMMA StoreLen ==
    ASSUME TypeOK, NEW k \in Threads, Store(k) \/ InsertRaced(k) PROVE Len(tags') = Len(tags)
<1>1. CASE Store(k)
  <2>1. thread[k].id \in Ids /\ thread[k].slot = index[thread[k].id]
        /\ thread[k].slot # 0 /\ thread[k].new \in Tag
    BY <1>1 DEF Store, TypeOK, ThreadTypeOK, Call
  <2> QED BY <1>1, <2>1, SlotFacts, ReplaceFacts DEF Store, TypeOK, InnerTypeOK
<1>2. CASE InsertRaced(k)
  <2>1. thread[k].id \in Ids /\ thread[k].new \in Tag /\ index[thread[k].id] # 0
    BY <1>2 DEF InsertRaced, TypeOK, ThreadTypeOK, Call
  <2> QED BY <1>2, <2>1, SlotFacts, ReplaceFacts DEF InsertRaced, TypeOK, InnerTypeOK
<1> QED BY <1>1, <1>2

LEMMA CallType ==
    ASSUME TypeOK, NEW k \in Threads, NEW t \in Writes[k],
           Insert(k, t) \/ Change(k, t) \/ CheckStale(k, t)
    PROVE  TypeOK' /\ UNCHANGED innerVars
<1>1. CASE Insert(k, t)
  BY <1>1, EnterType DEF Insert, Enter, Ops
<1>2. CASE Change(k, t)
  BY <1>2, EnterType DEF Change, Enter, Ops
<1>3. CASE CheckStale(k, t)
  BY <1>3, EnterType DEF CheckStale, Enter, Ops
<1> QED BY <1>1, <1>2, <1>3

LEMMA SubscriberType ==
    ASSUME TypeOK, NEW s \in Subscribers, Subscribe(s) \/ Receive(s) \/ Disconnect(s)
    PROVE  TypeOK' /\ UNCHANGED innerVars
<1> USE StoreAssumption
<1>0. UNCHANGED <<innerVars, thread, calls, ideal>>
  BY DEF Subscribe, Receive, Disconnect
<1>1. CASE Subscribe(s)
  <2>1. \A t \in Ids : Current(t) \in Tag
    BY SlotFacts, NoTagType DEF Current, TypeOK
  <2>2. [t \in Ids |-> Current(t)] \in [Ids -> Tag]
    BY <2>1
  <2>3. SubTypeOK'
    BY <1>1, <2>2 DEF Subscribe, TypeOK, SubTypeOK
  <2> QED BY <1>0, <2>3 DEF TypeOK, InnerTypeOK, ThreadTypeOK, innerVars
<1>2. CASE Receive(s)
  <2>1. sub[s] \in [open : BOOLEAN, backlog : 0..ChannelCap, lost : BOOLEAN]
    BY DEF TypeOK, SubTypeOK
  <2>2. [sub[s] EXCEPT !.backlog = sub[s].backlog - 1]
           \in [open : BOOLEAN, backlog : 0..ChannelCap, lost : BOOLEAN]
    BY <1>2, <2>1 DEF Receive
  <2>3. sub' = [sub EXCEPT ![s] = [sub[s] EXCEPT !.backlog = sub[s].backlog - 1]]
    BY <1>2 DEF Receive, TypeOK, SubTypeOK
  <2>4. SubTypeOK'
    BY <1>2, <2>2, <2>3 DEF Receive, TypeOK, SubTypeOK
  <2> QED BY <1>0, <2>4 DEF TypeOK, InnerTypeOK, ThreadTypeOK, innerVars
<1>3. CASE Disconnect(s)
  <2>1. SubTypeOK'
    BY <1>3, NoTagType DEF Disconnect, TypeOK, SubTypeOK
  <2> QED BY <1>0, <2>1 DEF TypeOK, InnerTypeOK, ThreadTypeOK, innerVars
<1> QED BY <1>1, <1>2, <1>3

LEMMA StructureStep == TypeOK /\ Structure /\ [Next]_vars => TypeOK' /\ Structure'
<1> SUFFICES ASSUME TypeOK, Structure, [Next]_vars PROVE TypeOK' /\ Structure'
  OBVIOUS
<1>1. ASSUME NEW k \in Threads, Step(k) PROVE TypeOK' /\ Structure'
  <2>1. ASSUME NEW t \in Writes[k], Insert(k, t) \/ Change(k, t) \/ CheckStale(k, t)
        PROVE  TypeOK' /\ Structure'
    BY <2>1, CallType, KeepStructure DEF innerVars
  <2>2. CASE Load(k)
    BY <2>2, LoadType, KeepStructure DEF Load, innerVars
  <2>3. CASE Store(k)
    BY <2>3, StoreType, StoreLen, KeepStructure DEF Store
  <2>4. CASE Broadcast(k)
    BY <2>4, BroadcastType, KeepStructure DEF Broadcast, innerVars
  <2>5. CASE InsertRaced(k)
    BY <2>5, RacedType, StoreLen, KeepStructure DEF InsertRaced
  <2>6. CASE InsertNew(k)
    BY <2>6, NewType, NewStructure
  <2> QED BY <1>1, <2>1, <2>2, <2>3, <2>4, <2>5, <2>6 DEF Step
<1>2. ASSUME NEW s \in Subscribers, Subscribe(s) \/ Receive(s) \/ Disconnect(s)
      PROVE  TypeOK' /\ Structure'
  BY <1>2, SubscriberType, KeepStructure DEF innerVars
<1>3. CASE UNCHANGED vars
  BY <1>3, KeepStructure DEF vars, TypeOK, InnerTypeOK, ThreadTypeOK, SubTypeOK
<1> QED BY <1>1, <1>2, <1>3 DEF Next

LEMMA StructureInit == Init => TypeOK /\ Structure
<1> SUFFICES ASSUME Init PROVE TypeOK /\ Structure
  OBVIOUS
<1> USE StoreAssumption
<1>1. TypeOK
  <2>1. InnerTypeOK
    BY DEF Init, InnerTypeOK
  <2>2. ThreadTypeOK
    <3>1. \A k \in Threads : thread[k] = Idle
      BY DEF Init
    <3>2. Idle.pc = "idle" /\ Idle \in Call
      BY NoTagType DEF Idle
    <3> QED BY <3>1, <3>2 DEF Init, ThreadTypeOK
  <2>3. SubTypeOK
    BY NoTagType DEF Init, SubTypeOK
  <2> QED BY <2>1, <2>2, <2>3, NoTagType DEF Init, TypeOK
<1>2. Present = {}
  BY DEF Init, Present
<1>3. IsFiniteSet(Present) /\ Cardinality(Present) = 0
  BY <1>2, FS_EmptySet
<1>4. Len(tags) = 0 /\ Len(sortedIds) = 0 /\ \A t \in Ids : index[t] = 0
  BY DEF Init
<1>5. {index[t] : t \in Present} = 1..Len(tags) /\ Cardinality(Present) = Len(tags)
  BY <1>2, <1>3, <1>4
<1>6. {sortedIds[i] : i \in 1..Len(sortedIds)} = Present
  BY <1>2, <1>4
<1>7. \A i, j \in 1..Len(sortedIds) : i < j => sortedIds[i] < sortedIds[j]
  BY <1>4
<1> QED BY <1>1, <1>3, <1>4, <1>5, <1>6, <1>7, Zenon DEF Structure, StoreIsConsistent

\* For any ids and threads, and however the inserts race: slots, index and sorted
\* ids agree, every id that was inserted has a slot of its own and is listed once,
\* in order (TagStore::insert with its two looks at the index, list_ids_sorted).
THEOREM StoreTheorem == Spec => []StoreIsConsistent
<1>1. Spec => [](TypeOK /\ Structure)
  BY StructureInit, StructureStep, PTL DEF Spec
<1>2. Structure => StoreIsConsistent
  BY DEF Structure
<1> QED BY <1>1, <1>2, PTL

-----------------------------------------------------------------------------
(***************************************************************************)
(* Tags with one writer.                                                   *)
(***************************************************************************)

\* Thread k is in a call for t and has come to pc.
At(k, t, pc) == thread[k].pc = pc /\ thread[k].id = t

\* A subscriber whose channel was never full.
Follows(s) == sub[s].open /\ ~sub[s].lost

\* What holds of t when k alone writes it: it shows what k's calls made of it; k
\* inserts it only when it is not there; what k is about to store is what its call
\* makes of the tag as it is; and a subscriber lags behind only while k is between
\* its store and its broadcast.
OwnedBy(k, t) ==
    /\ Current(t) = ideal[t]
    /\ At(k, t, "slow") => index[t] = 0
    /\ At(k, t, "store") => thread[k].new = Applied(thread[k], ideal[t])
    /\ At(k, t, "broadcast") => thread[k].new = ideal[t]
    /\ \A s \in Subscribers :
         Follows(s) => view[s][t] = ideal[t] \/ At(k, t, "broadcast")

Ownership == \A k \in Threads : \A t \in Ids : Owns(k, t) => OwnedBy(k, t)

\* A step that does not touch t.
LEMMA Untouched ==
    ASSUME NEW k \in Threads, NEW t \in Ids, OwnedBy(k, t),
           thread'[k] = thread[k], ideal'[t] = ideal[t], Current(t)' = Current(t),
           index'[t] = index[t],
           \A s \in Subscribers : Follows(s)' => Follows(s) /\ view'[s][t] = view[s][t]
    PROVE  OwnedBy(k, t)'
BY DEF OwnedBy, At, Applied

\* A broadcast about another tag changes nothing for t; one about t reaches all
\* that follow.
LEMMA SendFacts ==
    ASSUME TypeOK, NEW u \in Ids, NEW tag, Send(u, tag), NEW s \in Subscribers, Follows(s)'
    PROVE  /\ Follows(s)
           /\ view'[s][u] = tag
           /\ \A t \in Ids : t # u => view'[s][t] = view[s][t]
<1>1. sub[s] \in [open : BOOLEAN, backlog : 0..ChannelCap, lost : BOOLEAN]
      /\ view[s] \in [Ids -> Tag]
  BY DEF TypeOK, SubTypeOK
<1>2. sub'[s] = CASE ~sub[s].open -> sub[s]
                  [] sub[s].open /\ sub[s].backlog = ChannelCap -> [sub[s] EXCEPT !.lost = TRUE]
                  [] OTHER -> [sub[s] EXCEPT !.backlog = sub[s].backlog + 1]
  BY DEF Send
<1>3. CASE ~sub[s].open
  <2>1. sub'[s] = sub[s]
    BY <1>2, <1>3
  <2> QED BY <1>3, <2>1 DEF Follows
<1>4. CASE sub[s].open /\ sub[s].backlog = ChannelCap
  <2>1. sub'[s] = [sub[s] EXCEPT !.lost = TRUE]
    BY <1>2, <1>4
  <2>2. sub'[s].lost = TRUE
    BY <1>1, <2>1
  <2> QED BY <2>2 DEF Follows
<1>5. CASE sub[s].open /\ sub[s].backlog # ChannelCap
  <2>1. sub'[s] = [sub[s] EXCEPT !.backlog = sub[s].backlog + 1]
    BY <1>2, <1>5
  <2>2. sub'[s].lost = sub[s].lost /\ sub'[s].open = sub[s].open
    BY <1>1, <2>1
  <2>3. sub[s].backlog < ChannelCap
    BY <1>1, <1>5, StoreAssumption
  <2>4. view'[s] = [view[s] EXCEPT ![u] = tag]
    BY <1>5, <2>3 DEF Send
  <2> QED BY <1>1, <1>5, <2>2, <2>4 DEF Follows
<1> QED BY <1>3, <1>4, <1>5

\* The outcome of a call depends on the operation, its number and, but for an
\* insert, on the tag.
LEMMA AppliedSame ==
    ASSUME NEW c, NEW d, c.op = d.op, c.n = d.n, NEW tag
    PROVE  /\ Applied(c, tag) = Applied(d, tag)
           /\ c.op = "insert" => \A other : Applied(c, tag) = Applied(d, other)
BY DEF Applied

\* Storing over the slot of u leaves every other tag alone.
LEMMA StoreOver ==
    ASSUME TypeOK, Structure, NEW u \in Ids, index[u] # 0, NEW tag \in Tag,
           tags' = [tags EXCEPT ![index[u]] = tag], index' = index
    PROVE  /\ Current(u)' = tag
           /\ \A t \in Ids : t # u => Current(t)' = Current(t)
<1>1. index[u] \in 1..Len(tags) /\ tags \in Seq(Tag)
  BY SlotFacts DEF TypeOK, InnerTypeOK
<1>2. /\ tags'[index[u]] = tag
      /\ \A j \in 1..Len(tags) : j # index[u] => tags'[j] = tags[j]
  BY <1>1, ReplaceFacts
<1>3. Current(u)' = tag
  BY <1>2 DEF Current
<1>4. ASSUME NEW t \in Ids, t # u PROVE Current(t)' = Current(t)
  <2>1. CASE index[t] = 0
    BY <2>1 DEF Current
  <2>2. CASE index[t] # 0
    <3>1. index[t] # index[u] /\ index[t] \in 1..Len(tags)
      BY <1>4, <2>2, SlotFacts DEF Structure, TypeOK
    <3> QED BY <1>2, <2>2, <3>1 DEF Current
  <2> QED BY <2>1, <2>2
<1> QED BY <1>3, <1>4

LEMMA EnterOwned ==
    ASSUME TypeOK, NEW k \in Threads, NEW t \in Ids, OwnedBy(k, t),
           NEW j \in Threads, NEW u \in Writes[j], NEW op \in Ops,
           NEW pc \in {"slow", "load", "store"}, pc = "slow" => index[u] = 0,
           pc = "store" => op = "insert", Enter(j, op, u, pc)
    PROVE  OwnedBy(k, t)'
<1>1. UNCHANGED <<tags, index, sub, view, ideal>>
  BY DEF Enter, innerVars, subVars
<1>2. CASE j # k
  <2>1. thread'[k] = thread[k]
    BY <1>2 DEF Enter, TypeOK, ThreadTypeOK
  <2> QED BY <1>1, <2>1, Untouched DEF Current, Follows
<1>3. CASE j = k
  <2> DEFINE call == [pc |-> pc, op |-> op, id |-> u, n |-> calls + 1, slot |-> index[u],
                      new |-> NoTag]
             c == [call EXCEPT !.new = Applied(call, NoTag)]
  <2>1. thread'[k] = c /\ thread[k].pc = "idle"
    BY <1>3 DEF Enter, TypeOK, ThreadTypeOK
  <2>2. c.pc = pc /\ c.id = u /\ c.op = op /\ c.n = calls + 1 /\ c.new = Applied(call, NoTag)
    OBVIOUS
  <2>3. call.op = op /\ call.n = calls + 1
    OBVIOUS
  <2> HIDE DEF c, call
  <2>4. pc = "store" => c.new = Applied(c, ideal[t])
    BY <2>2, <2>3, AppliedSame
  <2>5. Current(t)' = Current(t) /\ (\A s \in Subscribers : Follows(s)' => Follows(s))
    BY <1>1 DEF Current, Follows
  <2>6. ~At(k, t, "broadcast")
    BY <2>1 DEF At
  <2>7. At(k, t, "slow")' => pc = "slow" /\ u = t
    BY <2>1, <2>2 DEF At
  <2>8. At(k, t, "store")' => pc = "store"
    BY <2>1, <2>2 DEF At
  <2>9. ~At(k, t, "broadcast")'
    BY <2>1, <2>2 DEF At
  <2> QED BY <1>1, <2>1, <2>4, <2>5, <2>6, <2>7, <2>8, <2>9 DEF OwnedBy
<1> QED BY <1>2, <1>3

LEMMA CallOwned ==
    ASSUME TypeOK, NEW k \in Threads, NEW t \in Ids, OwnedBy(k, t),
           NEW j \in Threads, NEW u \in Writes[j],
           Insert(j, u) \/ Change(j, u) \/ CheckStale(j, u)
    PROVE  OwnedBy(k, t)'
<1>1. CASE Insert(j, u)
  <2>1. CASE index[u] = 0
    <3>1. Enter(j, "insert", u, "slow")
      BY <1>1, <2>1 DEF Insert
    <3> QED BY <2>1, <3>1, EnterOwned DEF Ops
  <2>2. CASE index[u] # 0
    <3>1. Enter(j, "insert", u, "store")
      BY <1>1, <2>2 DEF Insert
    <3> QED BY <3>1, EnterOwned DEF Ops
  <2> QED BY <2>1, <2>2
<1>2. CASE Change(j, u)
  <2>1. PICK op \in {"update", "commlost"} : Enter(j, op, u, "load")
    BY <1>2 DEF Change
  <2> QED BY <2>1, EnterOwned DEF Ops
<1>3. CASE CheckStale(j, u)
  <2>1. Enter(j, "stale", u, "load")
    BY <1>3 DEF CheckStale
  <2> QED BY <2>1, EnterOwned DEF Ops
<1> QED BY <1>1, <1>2, <1>3

\* A thread other than the owner is in calls for other tags.
LEMMA Elsewhere ==
    ASSUME TypeOK, NEW k \in Threads, NEW t \in Ids, Owns(k, t), NEW j \in Threads, j # k,
           thread[j].pc # "idle"
    PROVE  thread[j].id \in Ids /\ thread[j].id # t
BY DEF TypeOK, ThreadTypeOK, Owns

LEMMA LoadOwned ==
    ASSUME TypeOK, NEW k \in Threads, NEW t \in Ids, Owns(k, t), OwnedBy(k, t),
           NEW j \in Threads, Load(j)
    PROVE  OwnedBy(k, t)'
<1>1. UNCHANGED <<tags, index, sub, view, ideal>>
  BY DEF Load, innerVars, subVars
<1>2. CASE j # k
  <2>1. thread'[k] = thread[k]
    BY <1>2 DEF Load, TypeOK, ThreadTypeOK
  <2> QED BY <1>1, <2>1, Untouched DEF Current, Follows
<1>3. CASE j = k
  <2> DEFINE c == thread[k]
             new == Applied(c, tags[c.slot])
  <2>1. c \in Call /\ c.pc = "load" /\ c.op \in Ops /\ c.id \in Ids
        /\ c.slot = index[c.id] /\ c.slot # 0
    BY <1>3 DEF Load, TypeOK, ThreadTypeOK
  <2>2. tags[c.slot] \in Tag
    BY <2>1, SlotFacts DEF TypeOK
  <2>3. new \in Tag
    BY <2>1, <2>2, AppliedType
  <2>4. thread'[k] = Loaded(c, new)
    BY <1>3 DEF Load, Loaded, TypeOK, ThreadTypeOK
  <2>5. c.id = t => tags[c.slot] = ideal[t]
    BY <2>1 DEF OwnedBy, Current
  <2>6. \E d : thread'[k] = d /\ d.pc = "store" /\ d.id = c.id /\ d.op = c.op /\ d.n = c.n
               /\ d.new = new
    BY <2>1, <2>3, <2>4, CallMoves
  <2>7. thread'[k].new = new /\ thread'[k].pc = "store" /\ thread'[k].id = c.id
    BY <2>6
  <2>8. c.id = t => new = Applied(thread'[k], ideal[t])
    BY <2>5, <2>6, AppliedSame
  <2>9. Current(t)' = Current(t) /\ (\A s \in Subscribers : Follows(s)' => Follows(s))
    BY <1>1 DEF Current, Follows
  <2>10. ~At(k, t, "broadcast") /\ ~At(k, t, "slow")' /\ ~At(k, t, "broadcast")'
    BY <2>1, <2>7 DEF At
  <2>11. At(k, t, "store")' => thread'[k].new = Applied(thread'[k], ideal'[t])
    BY <1>1, <2>7, <2>8 DEF At
  <2> QED BY <1>1, <2>9, <2>10, <2>11 DEF OwnedBy
<1> QED BY <1>2, <1>3

LEMMA StoreOwned ==
    ASSUME TypeOK, Structure, NEW k \in Threads, NEW t \in Ids, Owns(k, t), OwnedBy(k, t),
           NEW j \in Threads, Store(j)
    PROVE  OwnedBy(k, t)'
<1> DEFINE c == thread[j]
<1>1. c \in Call /\ c.pc = "store" /\ c.id \in Ids /\ c.slot = index[c.id]
      /\ c.slot # 0 /\ c.new \in Tag
  BY DEF Store, TypeOK, ThreadTypeOK, Call
<1>2. /\ tags' = [tags EXCEPT ![index[c.id]] = c.new] /\ UNCHANGED <<index, sub, view>>
      /\ ideal' = [ideal EXCEPT ![c.id] = Applied(c, ideal[c.id])]
      /\ thread' = [thread EXCEPT ![j] = Stored(c)]
  <2>1. tags' = [tags EXCEPT ![index[c.id]] = c.new] /\ UNCHANGED <<index, sub, view>>
    BY <1>1 DEF Store, subVars
  <2>2. ideal' = [ideal EXCEPT ![c.id] = Applied(c, ideal[c.id])]
    BY <1>1 DEF Store, TypeOK
  <2>3. thread' = [thread EXCEPT ![j] = Stored(c)]
    BY DEF Store, Stored, TypeOK, ThreadTypeOK
  <2> QED BY <2>1, <2>2, <2>3
<1>3. \A u \in Ids : Current(u)' = IF u = c.id THEN c.new ELSE Current(u)
  <2>1. PICK v \in Ids : v = c.id
    BY <1>1
  <2>2. Current(v)' = c.new /\ \A u \in Ids : u # v => Current(u)' = Current(u)
    BY <1>1, <1>2, <2>1, StoreOver
  <2> QED BY <2>1, <2>2
<1>4. \A s \in Subscribers : Follows(s)' => Follows(s)
  BY <1>2 DEF Follows
<1>5. CASE c.id # t
  <2>1. ideal'[t] = ideal[t] /\ Current(t)' = Current(t)
    BY <1>2, <1>3, <1>5 DEF TypeOK
  <2>2. CASE j # k
    <3>1. thread'[k] = thread[k]
      BY <1>2, <2>2 DEF TypeOK, ThreadTypeOK
    <3> QED BY <1>2, <1>4, <2>1, <3>1, Untouched
  <2>3. CASE j = k
    <3>1. thread'[k] = Stored(c) /\ Stored(c).id = c.id
      BY <1>1, <1>2, <2>3, CallMoves DEF TypeOK, ThreadTypeOK
    <3>2. \A pc : ~At(k, t, pc) /\ ~At(k, t, pc)'
      BY <1>5, <2>3, <3>1 DEF At
    <3> QED BY <1>2, <1>4, <2>1, <3>2 DEF OwnedBy
  <2> QED BY <2>2, <2>3
<1>6. CASE c.id = t
  <2>1. j = k
    BY <1>1, <1>6, Elsewhere
  <2>2. c.new = Applied(c, ideal[t]) /\ ideal'[t] = c.new
    BY <1>1, <1>2, <1>6, <2>1 DEF OwnedBy, At, TypeOK
  <2>3. thread'[k] = Stored(c) /\ Stored(c).id = t /\ Stored(c).pc = "broadcast" /\ Stored(c).new = c.new
    BY <1>1, <1>2, <1>6, <2>1, CallMoves DEF TypeOK, ThreadTypeOK
  <2>4. At(k, t, "broadcast")' /\ ~At(k, t, "slow")' /\ ~At(k, t, "store")'
    BY <2>3 DEF At
  <2>5. Current(t)' = ideal'[t] /\ thread'[k].new = ideal'[t]
    BY <1>3, <1>6, <2>2, <2>3
  <2> QED BY <2>4, <2>5 DEF OwnedBy
<1> QED BY <1>5, <1>6

LEMMA BroadcastOwned ==
    ASSUME TypeOK, NEW k \in Threads, NEW t \in Ids, Owns(k, t), OwnedBy(k, t),
           NEW j \in Threads, Broadcast(j)
    PROVE  OwnedBy(k, t)'
<1> DEFINE c == thread[j]
<1>1. c.pc = "broadcast" /\ c.id \in Ids /\ Send(c.id, c.new)
      /\ UNCHANGED <<tags, index, ideal>> /\ thread' = [thread EXCEPT ![j] = Idle]
  BY DEF Broadcast, innerVars, TypeOK, ThreadTypeOK
<1>2. Current(t)' = Current(t)
  BY <1>1 DEF Current
<1>3. CASE j # k
  <2>1. thread'[k] = thread[k] /\ c.id # t
    BY <1>1, <1>3, Elsewhere DEF TypeOK, ThreadTypeOK
  <2>2. \A s \in Subscribers : Follows(s)' => Follows(s) /\ view'[s][t] = view[s][t]
    BY <1>1, <2>1, SendFacts
  <2> QED BY <1>1, <1>2, <2>1, <2>2, Untouched
<1>4. CASE j = k
  <2>1. thread'[k] = Idle /\ Idle.pc = "idle"
    BY <1>1, <1>4 DEF Idle, TypeOK, ThreadTypeOK
  <2>2. ~At(k, t, "slow")' /\ ~At(k, t, "store")' /\ ~At(k, t, "broadcast")'
    BY <2>1 DEF At
  <2>3. ASSUME NEW s \in Subscribers, Follows(s)' PROVE view'[s][t] = ideal[t]
    <3>1. /\ Follows(s) /\ view'[s][c.id] = c.new
          /\ c.id # t => view'[s][t] = view[s][t]
      BY <1>1, <2>3, SendFacts
    <3>2. CASE c.id = t
      BY <1>1, <1>4, <3>1, <3>2 DEF OwnedBy, At
    <3>3. CASE c.id # t
      BY <1>4, <3>1, <3>3 DEF OwnedBy, At
    <3> QED BY <3>2, <3>3
  <2> QED BY <1>1, <1>2, <2>2, <2>3 DEF OwnedBy
<1> QED BY <1>3, <1>4

LEMMA RacedOwned ==
    ASSUME TypeOK, Structure, NEW k \in Threads, NEW t \in Ids, Owns(k, t), OwnedBy(k, t),
           NEW j \in Threads, InsertRaced(j)
    PROVE  OwnedBy(k, t)'
<1> DEFINE c == thread[j]
<1>1. c.pc = "slow" /\ c.id \in Ids /\ c.new \in Tag /\ index[c.id] # 0
      /\ tags' = [tags EXCEPT ![index[c.id]] = c.new] /\ UNCHANGED <<index, sub, view>>
      /\ ideal' = [ideal EXCEPT ![c.id] = c.new] /\ thread' = [thread EXCEPT ![j] = Idle]
  BY DEF InsertRaced, subVars, TypeOK, ThreadTypeOK, Call
<1>2. c.id # t
  BY <1>1, Elsewhere DEF OwnedBy, At
<1>3. Current(t)' = Current(t) /\ ideal'[t] = ideal[t]
  BY <1>1, <1>2, StoreOver DEF TypeOK
<1>4. \A s \in Subscribers : Follows(s)' => Follows(s)
  BY <1>1 DEF Follows
<1>5. CASE j # k
  <2>1. thread'[k] = thread[k]
    BY <1>1, <1>5 DEF TypeOK, ThreadTypeOK
  <2> QED BY <1>1, <1>3, <1>4, <2>1, Untouched
<1>6. CASE j = k
  <2>1. thread'[k] = Idle /\ Idle.pc = "idle"
    BY <1>1, <1>6 DEF Idle, TypeOK, ThreadTypeOK
  <2>2. ~At(k, t, "slow")' /\ ~At(k, t, "store")' /\ ~At(k, t, "broadcast")'
    BY <2>1 DEF At
  <2>3. ~At(k, t, "broadcast")
    BY <1>2, <1>6 DEF At
  <2> QED BY <1>1, <1>3, <1>4, <2>2, <2>3 DEF OwnedBy
<1> QED BY <1>5, <1>6

LEMMA NewOwned ==
    ASSUME TypeOK, Structure, NEW k \in Threads, NEW t \in Ids, Owns(k, t), OwnedBy(k, t),
           NEW j \in Threads, InsertNew(j)
    PROVE  OwnedBy(k, t)'
<1> DEFINE c == thread[j]
           n == Len(tags)
<1>1. c.pc = "slow" /\ Send(c.id, c.new)
      /\ ideal' = [ideal EXCEPT ![c.id] = c.new] /\ thread' = [thread EXCEPT ![j] = Idle]
  BY DEF InsertNew
<1>2. /\ c.id \in Ids /\ n \in Nat /\ tags'[n + 1] = c.new
      /\ \A i \in 1..n : tags'[i] = tags[i]
      /\ index'[c.id] = n + 1
      /\ \A u \in Ids : u # c.id => index'[u] = index[u]
  BY NewSlot
<1>3. c.id = t => Current(t)' = c.new
  <2>1. n + 1 # 0
    BY <1>2
  <2> QED BY <1>2, <2>1 DEF Current
<1>4. CASE c.id # t
  <2>1. index'[t] = index[t] /\ ideal'[t] = ideal[t]
    BY <1>1, <1>2, <1>4 DEF TypeOK
  <2>2. Current(t)' = Current(t)
    BY <1>2, <2>1, SlotFacts DEF Current, TypeOK
  <2>3. \A s \in Subscribers : Follows(s)' => Follows(s) /\ view'[s][t] = view[s][t]
    BY <1>1, <1>2, <1>4, SendFacts
  <2>4. CASE j # k
    <3>1. thread'[k] = thread[k]
      BY <1>1, <2>4 DEF TypeOK, ThreadTypeOK
    <3> QED BY <2>1, <2>2, <2>3, <3>1, Untouched
  <2>5. CASE j = k
    <3>1. thread'[k] = Idle /\ Idle.pc = "idle"
      BY <1>1, <2>5 DEF Idle, TypeOK, ThreadTypeOK
    <3>2. ~At(k, t, "slow")' /\ ~At(k, t, "store")' /\ ~At(k, t, "broadcast")'
      BY <3>1 DEF At
    <3>3. ~At(k, t, "broadcast")
      BY <1>4, <2>5 DEF At
    <3> QED BY <2>1, <2>2, <2>3, <3>2, <3>3 DEF OwnedBy
  <2> QED BY <2>4, <2>5
<1>5. CASE c.id = t
  <2>1. j = k
    BY <1>1, <1>5, Elsewhere
  <2>2. thread'[k] = Idle /\ Idle.pc = "idle"
    BY <1>1, <2>1 DEF Idle, TypeOK, ThreadTypeOK
  <2>3. ~At(k, t, "slow")' /\ ~At(k, t, "store")' /\ ~At(k, t, "broadcast")'
    BY <2>2 DEF At
  <2>4. ideal'[t] = c.new /\ Current(t)' = c.new
    BY <1>1, <1>3, <1>5 DEF TypeOK
  <2>5. \A s \in Subscribers : Follows(s)' => view'[s][t] = c.new
    BY <1>1, <1>2, <1>5, SendFacts
  <2> QED BY <2>3, <2>4, <2>5 DEF OwnedBy
<1> QED BY <1>4, <1>5

LEMMA SubscriberOwned ==
    ASSUME TypeOK, NEW k \in Threads, NEW t \in Ids, OwnedBy(k, t),
           NEW s \in Subscribers, Subscribe(s) \/ Receive(s) \/ Disconnect(s)
    PROVE  OwnedBy(k, t)'
<1>1. UNCHANGED <<tags, index, thread, ideal>>
  BY DEF Subscribe, Receive, Disconnect, innerVars
<1>2. Current(t)' = Current(t) /\ \A pc : At(k, t, pc)' <=> At(k, t, pc)
  BY <1>1 DEF Current, At
<1>3. ASSUME NEW r \in Subscribers, Follows(r)' PROVE view'[r][t] = ideal[t] \/ At(k, t, "broadcast")
  <2>1. CASE r # s
    <3>1. sub'[r] = sub[r] /\ view'[r] = view[r]
      BY <2>1 DEF Subscribe, Receive, Disconnect, TypeOK, SubTypeOK
    <3> QED BY <1>3, <3>1 DEF OwnedBy, Follows
  <2>2. CASE r = s /\ Subscribe(s)
    <3>1. view'[r] = [u \in Ids |-> Current(u)]
      BY <2>2 DEF Subscribe, TypeOK, SubTypeOK
    <3> QED BY <3>1 DEF OwnedBy
  <2>3. CASE r = s /\ Receive(s)
    <3>1. sub[s] \in [open : BOOLEAN, backlog : 0..ChannelCap, lost : BOOLEAN]
      BY DEF TypeOK, SubTypeOK
    <3>2. sub'[s] = [sub[s] EXCEPT !.backlog = sub[s].backlog - 1] /\ view' = view
      BY <2>3 DEF Receive, TypeOK, SubTypeOK
    <3>3. sub'[s].open = sub[s].open /\ sub'[s].lost = sub[s].lost
      BY <3>1, <3>2
    <3> QED BY <1>3, <2>3, <3>2, <3>3 DEF OwnedBy, Follows
  <2>4. CASE r = s /\ Disconnect(s)
    <3>1. sub'[r] = [open |-> FALSE, backlog |-> 0, lost |-> FALSE]
      BY <2>4 DEF Disconnect, TypeOK, SubTypeOK
    <3> QED BY <1>3, <3>1 DEF Follows
  <2> QED BY <2>1, <2>2, <2>3, <2>4
<1>4. thread'[k] = thread[k]
  BY <1>1
<1> QED BY <1>1, <1>2, <1>3, <1>4 DEF OwnedBy

LEMMA OwnershipStep ==
    ASSUME TypeOK, Structure, Ownership, [Next]_vars PROVE Ownership'
<1> SUFFICES ASSUME NEW k \in Threads, NEW t \in Ids, Owns(k, t) PROVE OwnedBy(k, t)'
  BY DEF Ownership, Owns
<1>0. OwnedBy(k, t)
  BY DEF Ownership
<1>1. ASSUME NEW j \in Threads, Step(j) PROVE OwnedBy(k, t)'
  <2>1. ASSUME NEW u \in Writes[j], Insert(j, u) \/ Change(j, u) \/ CheckStale(j, u)
        PROVE  OwnedBy(k, t)'
    BY <1>0, <2>1, CallOwned
  <2> QED BY <1>0, <1>1, <2>1, LoadOwned, StoreOwned, BroadcastOwned, RacedOwned, NewOwned
          DEF Step
<1>2. ASSUME NEW s \in Subscribers, Subscribe(s) \/ Receive(s) \/ Disconnect(s)
      PROVE  OwnedBy(k, t)'
  BY <1>0, <1>2, SubscriberOwned
<1>3. CASE UNCHANGED vars
  BY <1>0, <1>3, Untouched DEF vars, Current, Follows
<1> QED BY <1>1, <1>2, <1>3 DEF Next

LEMMA OwnershipInit == Init => Ownership
<1> SUFFICES ASSUME Init, NEW k \in Threads, NEW t \in Ids PROVE OwnedBy(k, t)
  BY DEF Ownership
<1>1. thread[k] = Idle /\ Idle.pc = "idle" /\ \A s \in Subscribers : sub[s].open = FALSE
  BY DEF Init, Idle
<1>2. Current(t) = ideal[t]
  BY DEF Init, Current
<1> QED BY <1>1, <1>2 DEF OwnedBy, At, Follows

\* What the drivers rely on: a tag only its own poller writes is what the poller's
\* calls made of it, and a subscriber lags behind it only during a call.
THEOREM OwnershipTheorem == Spec => [](TypeOK /\ Structure /\ Ownership)
<1>1. Init => TypeOK /\ Structure /\ Ownership
  BY StructureInit, OwnershipInit
<1>2. TypeOK /\ Structure /\ Ownership /\ [Next]_vars => (TypeOK /\ Structure /\ Ownership)'
  BY StructureStep, OwnershipStep
<1> QED BY <1>1, <1>2, PTL DEF Spec

\* For any ids and threads: no update of a tag with one writer is lost between the
\* load and the store of a call (update_value_with_expected, set_quality, insert),
\* whatever the other threads do.
THEOREM OwnCallsTheorem == Spec => []OwnCallsHold
<1>1. Ownership => OwnCallsHold
  BY DEF Ownership, OwnCallsHold, OwnedBy
<1> QED BY <1>1, OwnershipTheorem, PTL

\* For any subscribers and channel capacity: one that lost no event knows the
\* present state of every tag with one writer that is not in a call for it
\* (subscribe, broadcast_change, broadcast_change_locked).
THEOREM SubscribersTheorem == Spec => []SubscribersKeepUp
<1>1. Ownership => SubscribersKeepUp
  BY DEF Ownership, SubscribersKeepUp, OwnedBy, Follows, At
<1> QED BY <1>1, OwnershipTheorem, PTL
=============================================================================
