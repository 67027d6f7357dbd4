------------------------------ MODULE ReadPlan ------------------------------
(***************************************************************************)
(* How the drivers turn the mappings of one memory space (the tags of one  *)
(* Modbus function, or of one FINS area) into read requests, and how they  *)
(* cut the answers up into tag values.  Mappings are sorted by address,    *)
(* merged into contiguous groups, the groups split into requests of a      *)
(* limited size, and every answer handed to the mappings it overlaps.      *)
(*                                                                         *)
(* The contents of a cell (a register, word or coil) is its address: a     *)
(* value is the sequence of the cells it was decoded from, so a value that *)
(* comes from the wrong place is a different value.  Byte orders are left  *)
(* out.  The PLC answers every request, with data or with a refusal when   *)
(* the request runs past its last cell: nothing in the configuration       *)
(* checks where a mapping ends.  ModbusCycle and FinsCycle model lost and  *)
(* late answers.                                                           *)
(*                                                                         *)
(* Sums wrap as they do in a release build; a debug build panics where a   *)
(* Modbus range wraps.  FINS addresses whose 32-bit sums would overflow    *)
(* are left out.  A refusal ends the FINS read loop for all areas; here    *)
(* there is one area.                                                      *)
(***************************************************************************)
EXTENDS Integers, Sequences, FiniteSetsExt

CONSTANTS
    Spaces,         \* "registers" and "coils" of Modbus, "area" of FINS
    Mappings,       \* the mappings a configuration can choose from
    MaxTags,        \* bound: mappings of one configuration
    AddrMod,        \* 2^16: the number of 16-bit addresses, and of cells a PLC has
    FinsMod,        \* 2^24: the number of addresses a FINS frame can carry
    MaxCells,       \* cells a request may ask for (125, 2000, max_words_per_request)
    CoilsPerWord    \* 16: coils packed into one word of the payload

DataTypes == {"Bool", "UInt16", "UInt32", "UInt64", "String"}

ASSUME PlanAssumption ==
    /\ Spaces \subseteq {"registers", "coils", "area"}
    /\ AddrMod \in Nat \ {0}
    /\ FinsMod \in Nat /\ FinsMod >= AddrMod
    /\ Mappings \subseteq [address : Nat, quantity : 0..AddrMod-1, type : DataTypes]
    /\ MaxTags \in Nat
    /\ MaxCells \in [Spaces -> 1..AddrMod-1]
    /\ CoilsPerWord \in Nat \ {0}

\* Words a value of the type is decoded from; 0 stands for all that there are.
WordsOf(type) == CASE type = "UInt32" -> 2 [] type = "UInt64" -> 4
                   [] type = "String" -> 0 [] OTHER -> 1

\* What unwrap_or(0) makes of a word that is not there.
Zero == -1

VARIABLES
    space,          \* the memory space
    maps,           \* its mappings, sorted by address; a tag is an index into them
    phase,          \* "group", "read" or "done"
    todo,           \* next mapping to be put in a group
    groups,         \* contiguous groups [start, quantity, members]
    at,             \* group being read
    chunk_start,    \* next address of it to ask for
    remaining,      \* cells of it not yet asked for
    requests,       \* read requests of this cycle
    quality,        \* TagRegistry: quality of each tag
    value           \* TagRegistry: value of each tag

config == <<space, maps>>
planVars == <<todo, groups>>
readVars == <<at, chunk_start, remaining, requests>>
registry == <<quality, value>>
vars == <<space, maps, phase, todo, groups, at, chunk_start, remaining, requests, quality, value>>

-----------------------------------------------------------------------------
(* Configurations that pass validate() *)

Saturate(n) == Min({n, AddrMod - 1})

WideEnough(m) == m.quantity > 0 /\ (m.type = "UInt32" => m.quantity >= 2)

\* Overlapping ranges of neighbours, in u16 that saturates.
ModbusValid(s) ==
    /\ \A i \in DOMAIN s : WideEnough(s[i])
    /\ \A i \in 1..Len(s)-1 : s[i+1].address > Saturate(s[i].address + s[i].quantity) - 1

\* The same in u32, where these numbers do not saturate.
FinsValid(s) ==
    /\ \A i \in DOMAIN s : WideEnough(s[i])
    /\ \A i \in 1..Len(s)-1 : s[i+1].address > s[i].address + s[i].quantity - 1

\* tagconfig_to_modbus_mapping: coils for Bool, holding registers otherwise.
Function(type) == IF type = "Bool" THEN "coils" ELSE "registers"

\* tagconfig_to_modbus_mapping refuses an address of more than 16 bits, and tags of
\* another function are read apart.  Neither driver looks at where a mapping ends.
Usable(m) == space = "area" \/ (m.address < AddrMod /\ Function(m.type) = space)

Sorted(s) == \A i \in 1..Len(s)-1 : s[i].address <= s[i+1].address

Init ==
    /\ space \in Spaces
    /\ \E k \in 1..MaxTags : maps \in [1..k -> {m \in Mappings : Usable(m)}]
    /\ Sorted(maps)
    /\ IF space = "area" THEN FinsValid(maps) ELSE ModbusValid(maps)
    /\ phase = "group"
    /\ todo = 1
    /\ groups = << >>
    /\ at = 1 /\ chunk_start = 0 /\ remaining = 0
    /\ requests = << >>
    /\ quality = [t \in DOMAIN maps |-> "initializing"]
    /\ value = [t \in DOMAIN maps |-> << >>]

-----------------------------------------------------------------------------
(* Grouping *)

NewGroup(m) == Append(groups, [start |-> m.address, quantity |-> m.quantity, members |-> {todo}])

JoinLast(quantity) ==
    LET last == groups[Len(groups)]
    IN  [groups EXCEPT ![Len(groups)] = [start |-> last.start, quantity |-> quantity,
                                         members |-> last.members \union {todo}]]

\* Fault: a mapping that joins a group does not extend it.
JoinWithoutExtending ==
    /\ phase = "group" /\ space # "area"
    /\ todo \in DOMAIN maps
    /\ LET m == maps[todo]
           last == groups[Len(groups)]
       IN  groups' = IF groups = << >> \/ m.address > last.start + last.quantity
                     THEN NewGroup(m)
                     ELSE JoinLast(last.quantity)
    /\ todo' = todo + 1
    /\ UNCHANGED <<config, phase, readVars, registry>>

\* One iteration of the Modbus loop, in wrapping u16 arithmetic.
GroupMapping ==
    /\ phase = "group" /\ space # "area"
    /\ todo \in DOMAIN maps
    /\ LET m == maps[todo]
           last == groups[Len(groups)]
           end == (last.start + last.quantity - 1) % AddrMod
           new_end == Max({end, (m.address + m.quantity - 1) % AddrMod})
       IN  groups' = IF groups = << >> \/ m.address > (end + 1) % AddrMod
                     THEN NewGroup(m)
                     ELSE JoinLast((new_end - last.start + 1) % AddrMod)
    /\ todo' = todo + 1
    /\ UNCHANGED <<config, phase, readVars, registry>>

\* Fault: mappings with one unused cell between them are merged too.
MergeOverGap ==
    /\ phase = "group" /\ space = "area"
    /\ todo \in DOMAIN maps
    /\ LET m == maps[todo]
           last == groups[Len(groups)]
           end == last.start + last.quantity - 1
       IN  groups' = IF groups = << >> \/ m.address > end + 2
                     THEN NewGroup(m)
                     ELSE JoinLast(m.address + m.quantity - last.start)
    /\ todo' = todo + 1
    /\ UNCHANGED <<config, phase, readVars, registry>>

\* One iteration of the loop of FinsDriver::new, in u32.
FinsGroupMapping ==
    /\ phase = "group" /\ space = "area"
    /\ todo \in DOMAIN maps
    /\ LET m == maps[todo]
           last == groups[Len(groups)]
           end == last.start + last.quantity - 1
           new_end == Max({end, m.address + m.quantity - 1})
       IN  groups' = IF groups = << >> \/ m.address > end + 1
                     THEN NewGroup(m)
                     ELSE JoinLast(new_end - last.start + 1)
    /\ todo' = todo + 1
    /\ UNCHANGED <<config, phase, readVars, registry>>

\* The read loops begin with the i-th group, or end.
EnterGroup(i) ==
    /\ at' = i
    /\ IF i \in DOMAIN groups
       THEN /\ phase' = "read"
            /\ chunk_start' = groups[i].start
            /\ remaining' = groups[i].quantity
       ELSE /\ phase' = "done"
            /\ UNCHANGED <<chunk_start, remaining>>

Grouped ==
    /\ phase = "group"
    /\ todo \notin DOMAIN maps
    /\ EnterGroup(1)
    /\ UNCHANGED <<config, planVars, requests, registry>>

-----------------------------------------------------------------------------
(* Reading *)

\* The address as the request carries it: build_memory_read keeps 24 of 32 bits.
Carried(start) == IF space = "area" THEN start % FinsMod ELSE start

\* The PLC refuses a request that runs past its last cell.
Refused(start, n) == Carried(start) + n > AddrMod

\* The words of an answer.  A word is the sequence of the cells it holds.
RegisterWords(start, n) == [i \in 1..n |-> <<start + i - 1>>]

CoilWords(start, n) ==
    [w \in 1..((n + CoilsPerWord - 1) \div CoilsPerWord) |->
        [b \in 1..Min({CoilsPerWord, n - (w - 1) * CoilsPerWord}) |->
            start + (w - 1) * CoilsPerWord + b - 1]]

Payload(start, n) == IF space = "coils" THEN CoilWords(start, n) ELSE RegisterWords(start, n)

\* Modbus: words that are missing count as zero.  A Bool is bit 0 of its word.
Decode(type, words) ==
    LET n == IF WordsOf(type) = 0 THEN Len(words) ELSE WordsOf(type)
    IN  [quality |-> "good",
         value |-> [i \in 1..n |-> IF i <= Len(words) THEN words[i][1] ELSE Zero]]

\* FINS: a type of fixed size needs all of its words.
EnoughWords(type, words) == Len(words) >= WordsOf(type)

FinsDecode(type, words) ==
    IF EnoughWords(type, words) THEN Decode(type, words)
                                ELSE [quality |-> "error", value |-> << >>]

Overlaps(m, start, n) == m.address + m.quantity > start /\ m.address < start + n

\* The part of mapping m that lies in n cells from start on, relative to start.
From(m, start) == Max({m.address, start}) - start
To(m, start, n) == Min({m.address + m.quantity, start + n}) - start

\* Fault: the offset of a mapping is taken from the start of its group.
DeliveredFromGroupStart(m, start, n) ==
    LET words == Payload(start, n)
        shift == start - groups[at].start
    IN  IF To(m, start, n) + shift > Len(words)
        THEN [quality |-> "config_error", value |-> << >>]
        ELSE Decode(m.type, SubSeq(words, From(m, start) + shift + 1, To(m, start, n) + shift))

\* What the answer to a Modbus request for n cells says about mapping m.  The
\* offsets are numbers of cells, and used as numbers of words.
Delivered(m, start, n) ==
    LET words == Payload(start, n)
    IN  IF To(m, start, n) > Len(words)
        THEN [quality |-> "config_error", value |-> << >>]
        ELSE Decode(m.type, SubSeq(words, From(m, start) + 1, To(m, start, n)))

\* The same for FINS, whose answers have all the words that were asked for, from the
\* address that the frame carried.
FinsDelivered(m, start, n) ==
    FinsDecode(m.type, SubSeq(RegisterWords(Carried(start), n), From(m, start) + 1, To(m, start, n)))

\* update_tag_value for a decoded value, set_tag_quality for anything else.
Publish(start, n) ==
    LET hit == {t \in groups[at].members : Overlaps(maps[t], start, n)}
        new == [t \in hit |-> IF space = "area" THEN FinsDelivered(maps[t], start, n)
                                            ELSE Delivered(maps[t], start, n)]
    IN  /\ quality' = [t \in DOMAIN maps |-> IF t \in hit THEN new[t].quality ELSE quality[t]]
        /\ value' = [t \in DOMAIN maps |->
                        IF t \in hit /\ new[t].quality = "good" THEN new[t].value ELSE value[t]]

\* A refusal condemns all members of the group, the ones outside the request too.
MarkGroup(verdict) ==
    /\ quality' = [t \in DOMAIN maps |->
                     IF t \in groups[at].members THEN verdict ELSE quality[t]]
    /\ UNCHANGED value

\* What a Modbus request does to the registry.
Answered(start, n) ==
    IF Refused(start, n) THEN MarkGroup("config_error") ELSE Publish(start, n)

\* What a FINS request does to it: an end code other than 0 ends the read loop.
FinsAnswered(start, n) ==
    \/ ~Refused(start, n) /\ Publish(start, n) /\ UNCHANGED phase
    \/ Refused(start, n) /\ MarkGroup("error") /\ phase' = "done"

\* Fault: at the last address the loop goes on with the same request instead of
\* ending.
ReadChunkKeepsAddress ==
    /\ phase = "read" /\ space # "area"
    /\ remaining > 0
    /\ LET n == Min({remaining, MaxCells[space]})
           next == chunk_start + n
       IN  /\ requests' = IF next > AddrMod - 1 THEN requests
                          ELSE Append(requests, [start |-> chunk_start, quantity |-> n])
           /\ Answered(chunk_start, n)
           /\ chunk_start' = IF next > AddrMod - 1 THEN chunk_start ELSE next
           /\ remaining' = IF next > AddrMod - 1 THEN remaining ELSE remaining - n
           /\ UNCHANGED <<at, phase>>
    /\ UNCHANGED <<config, planVars>>

\* Fault: the limit that leaves remaining below zero.
ReadFullChunks ==
    /\ phase = "read" /\ space = "area"
    /\ remaining > 0
    /\ LET n == MaxCells[space]
       IN  /\ requests' = Append(requests, [start |-> chunk_start, quantity |-> n])
           /\ chunk_start' = chunk_start + n
           /\ remaining' = remaining - n
           /\ FinsAnswered(chunk_start, n)
    /\ UNCHANGED <<config, planVars, at>>

\* One request of a Modbus group.  A refusal does not end the loop; an address that
\* does not fit in 16 bits does, after the last cell or past it.
ReadChunk ==
    /\ phase = "read" /\ space # "area"
    /\ remaining > 0
    /\ LET n == Min({remaining, MaxCells[space]})
           next == chunk_start + n
       IN  /\ requests' = Append(requests, [start |-> chunk_start, quantity |-> n])
           /\ Answered(chunk_start, n)
           /\ IF next > AddrMod - 1
              THEN EnterGroup(at + 1)
              ELSE /\ chunk_start' = next
                   /\ remaining' = remaining - n
                   /\ UNCHANGED <<at, phase>>
    /\ UNCHANGED <<config, planVars>>

\* One request of a FINS group, whose size is truncated to 16 bits.
FinsReadChunk ==
    /\ phase = "read" /\ space = "area"
    /\ remaining > 0
    /\ LET n == Min({remaining, MaxCells[space]}) % AddrMod
       IN  /\ requests' = Append(requests, [start |-> chunk_start, quantity |-> n])
           /\ chunk_start' = chunk_start + n
           /\ remaining' = remaining - n
           /\ FinsAnswered(chunk_start, n)
    /\ UNCHANGED <<config, planVars, at>>

GroupRead ==
    /\ phase = "read"
    /\ remaining = 0
    /\ EnterGroup(at + 1)
    /\ UNCHANGED <<config, planVars, requests, registry>>

\* The next cycle.  Modbus groups its mappings again, FINS keeps its groups.
NextCycle ==
    /\ phase = "done"
    /\ phase' = "group"
    /\ at' = 1 /\ chunk_start' = 0 /\ remaining' = 0
    /\ requests' = << >>
    /\ IF space = "area" THEN UNCHANGED planVars ELSE todo' = 1 /\ groups' = << >>
    /\ UNCHANGED <<config, registry>>

Next ==
    \/ GroupMapping \/ FinsGroupMapping \/ Grouped
    \/ ReadChunk \/ FinsReadChunk \/ GroupRead
    \/ NextCycle

Spec == Init /\ [][Next]_vars

\* A cycle is sequential code: it goes on as long as the PLC answers.
FairSpec == Spec /\ WF_vars(Next)

-----------------------------------------------------------------------------
(* Properties *)

Cells(m) == m.address..(m.address + m.quantity - 1)

Asked(r) == r.start..(r.start + r.quantity - 1)

\* The value the mapping describes.
OwnValue(m) ==
    LET n == IF WordsOf(m.type) = 0 THEN m.quantity ELSE WordsOf(m.type)
    IN  [i \in 1..n |-> m.address + i - 1]

\* The mapping ends inside the PLC's memory.
Fits(m) == m.address + m.quantity <= AddrMod

MappedCells == UNION {Cells(maps[t]) : t \in DOMAIN maps}
FittingCells == UNION {Cells(maps[t]) : t \in {u \in DOMAIN maps : Fits(maps[u])}}

\* The mappings of a Modbus space leave no address out: their group has 2^16 cells,
\* which the code's 16 bits take for none, and it is not read at all.
WholeSpace == space # "area" /\ FittingCells = 0..AddrMod-1

\* Modbus keeps addresses and counts in 16 bits; the sums of FINS do not overflow.
Width == IF space = "area" THEN Nat ELSE 0..AddrMod-1

\* Every variable is in its domain.
TypeOK ==
    /\ space \in Spaces
    /\ maps \in Seq(Mappings)
    /\ phase \in {"group", "read", "done"}
    /\ todo \in 1..Len(maps)+1
    /\ groups \in Seq([start : Width, quantity : Width, members : SUBSET DOMAIN maps])
    /\ at \in 1..Len(groups)+1
    /\ chunk_start \in Width
    /\ remaining \in Width
    /\ requests \in Seq([start : Width, quantity : 0..AddrMod-1])
    /\ quality \in [DOMAIN maps -> {"initializing", "good", "config_error", "error"}]
    /\ value \in [DOMAIN maps -> Seq((0..AddrMod-1) \union {Zero})]

\* A cycle asks the PLC only for mapped cells, in requests that the protocol
\* allows, for every cell of a mapping that ends inside the memory, and for no
\* cell twice, wherever the groups and the split of a group fall and whatever
\* other mappings run past the end (run_read_cycle_impl of Modbus,
\* FinsDriver::new).  Only a cell that two mappings share is read twice: the
\* saturating sum in validate() lets a range that ends with the last address
\* overlap the next one.
Shared(c) == \E t, u \in DOMAIN maps : t # u /\ c \in Cells(maps[t]) \intersect Cells(maps[u])
ReadsEachCellOnce ==
    ~WholeSpace =>
        /\ \A i \in DOMAIN requests :
             /\ requests[i].quantity \in 1..MaxCells[space]
             /\ Asked(requests[i]) \subseteq MappedCells
        /\ \A i, j \in DOMAIN requests :
             i # j => \A c \in Asked(requests[i]) \intersect Asked(requests[j]) : Shared(c)
        /\ phase = "done" => FittingCells \subseteq UNION {Asked(requests[i]) : i \in DOMAIN requests}

\* A mapping that has a word for every word of its type, and that no request
\* reads in part.  A coil must be alone in its request: the driver counts the
\* offsets of the others in words.  Its group must end inside the memory: a
\* refusal condemns all members of a group.
ReadWhole(t) ==
    /\ Fits(maps[t])
    /\ maps[t].quantity >= WordsOf(maps[t].type)
    /\ \A g \in DOMAIN groups :
          t \in groups[g].members => groups[g].start + groups[g].quantity <= AddrMod
    /\ \A i \in DOMAIN requests : Overlaps(maps[t], requests[i].start, requests[i].quantity) =>
          /\ Cells(maps[t]) \subseteq Asked(requests[i])
          /\ space = "coils" => requests[i].quantity = 1

\* After a cycle, a tag that is read as a whole is Good and shows the value of
\* its own cells, whatever it shares its group and its request with.
WholeIsShown ==
    phase = "done" /\ ~WholeSpace => \A t \in DOMAIN maps :
        ReadWhole(t) => quality[t] = "good" /\ value[t] = OwnValue(maps[t])

\* After a cycle every tag whose mapping ends inside the memory has been given a
\* verdict, also next to mappings that do not: no mapping falls between two groups
\* or two requests of its memory space, and no refusal there comes before it.
EveryTagJudged ==
    phase = "done" /\ ~WholeSpace => \A t \in DOMAIN maps :
        Fits(maps[t]) => quality[t] # "initializing"

\* What TagQuality says of Good, "Value is fresh and valid.": a tag that is
\* shown as Good has the value of its own cells.
GoodIsOwnValue == \A t \in DOMAIN maps : quality[t] = "good" => value[t] = OwnValue(maps[t])

\* The loops over groups and requests end: a cycle that the PLC answers is
\* completed.
CycleCompletes == []<>(phase = "done")
=============================================================================
