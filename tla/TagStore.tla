------------------------------ MODULE TagStore ------------------------------
(***************************************************************************)
(* The runtime tag store that drivers, server and write handler share.     *)
(* The structure (slots, index, sorted ids, subscribers) is behind one     *)
(* RwLock; the tag in a slot is swapped without a lock.  A call that       *)
(* changes a tag therefore takes several steps that interleave with those  *)
(* of other threads: find the slot, load the tag, store the changed one,   *)
(* broadcast the change.  Each section under the lock is one step.         *)
(*                                                                         *)
(* A tag is the number of the call its value stems from and a quality.     *)
(* Some ids are written by one thread only; in the program all are, the    *)
(* tags of a PLC by its poller.                                            *)
(***************************************************************************)
EXTENDS Integers, Sequences, FiniteSets

CONSTANTS
    Ids,            \* tag ids: numbers, ordered as the strings are
    Threads,        \* threads that change tags
    Writes,         \* ids each thread writes
    Subscribers,    \* callers of subscribe()
    ChannelCap,     \* capacity of a subscriber's channel (128)
    MaxCalls        \* bound: number of calls

\* A tag: the call its value stems from, and its quality.  0: there is no such tag.
NoTag == [val |-> 0, qual |-> "initializing"]

ASSUME StoreAssumption ==
    /\ Ids \subseteq Nat
    /\ Writes \in [Threads -> SUBSET Ids]
    /\ ChannelCap \in Nat \ {0}
    /\ MaxCalls \in Nat

VARIABLES
    tags,           \* Inner.tags: the slots
    index,          \* Inner.index: slot of each id, 0 when there is none
    sortedIds,      \* Inner.sorted_ids
    sub,            \* Inner.subscribers: state and channel of each subscriber
    view,           \* what each subscriber knows: the store when it subscribed, then its events
    thread,         \* per thread: the call it is in
    calls,          \* calls made so far
    ideal           \* what the calls so far make of each tag, one after the other

vars == <<tags, index, sortedIds, sub, view, thread, calls, ideal>>
innerVars == <<tags, index, sortedIds>>
subVars == <<sub, view>>

Idle == [pc |-> "idle", op |-> "none", id |-> 0, n |-> 0, slot |-> 0, new |-> NoTag]

\* get: lookup and load under the read lock.
Current(t) == IF index[t] = 0 THEN NoTag ELSE tags[index[t]]

Init ==
    /\ tags = << >>
    /\ index = [t \in Ids |-> 0]
    /\ sortedIds = << >>
    /\ sub = [s \in Subscribers |-> [open |-> FALSE, backlog |-> 0, lost |-> FALSE]]
    /\ view = [s \in Subscribers |-> [t \in Ids |-> NoTag]]
    /\ thread = [k \in Threads |-> Idle]
    /\ calls = 0
    /\ ideal = [t \in Ids |-> NoTag]

-----------------------------------------------------------------------------
(***************************************************************************)
(* Calls that change a tag.                                                *)
(***************************************************************************)

\* What a call makes of a tag: insert replaces it, update (apply_read) brings a
\* value with its quality, set_quality keeps the value.
Applied(call, tag) ==
    CASE call.op = "insert" -> [val |-> call.n, qual |-> "initializing"]
      [] call.op = "update" -> [val |-> call.n, qual |-> "good"]
      [] call.op = "commlost" -> [tag EXCEPT !.qual = "commlost"]
      [] call.op = "stale" -> [tag EXCEPT !.qual = "stale"]

\* Thread k makes a call for tag t.
Enter(k, op, t, pc) ==
    /\ thread[k].pc = "idle"
    /\ calls < MaxCalls
    /\ calls' = calls + 1
    /\ LET call == [pc |-> pc, op |-> op, id |-> t, n |-> calls + 1, slot |-> index[t], new |-> NoTag]
       IN  thread' = [thread EXCEPT ![k] = [call EXCEPT !.new = Applied(call, NoTag)]]
    /\ UNCHANGED <<innerVars, subVars, ideal>>

\* insert looks for the slot under the read lock; without one it has to take the
\* write lock.
Insert(k, t) == Enter(k, "insert", t, IF index[t] = 0 THEN "slow" ELSE "store")

\* update_value_with_expected or set_quality, of a tag that exists.
Change(k, t) == index[t] # 0 /\ \E op \in {"update", "commlost"} : Enter(k, op, t, "load")

\* check_stale_tags: a tag that is too old, and not marked yet, is marked with
\* set_quality, which loads it again.
CheckStale(k, t) ==
    /\ index[t] # 0
    /\ Current(t).qual # "stale"
    /\ Enter(k, "stale", t, "load")

\* load_full, then the change on a private copy.
Load(k) ==
    /\ thread[k].pc = "load"
    /\ thread' = [thread EXCEPT ![k].pc = "store",
                                ![k].new = Applied(thread[k], tags[thread[k].slot])]
    /\ UNCHANGED <<innerVars, subVars, calls, ideal>>

\* broadcast_change: try_send to every subscriber; a full channel loses it.
Send(t, tag) ==
    /\ sub' = [s \in Subscribers |->
                 CASE ~sub[s].open -> sub[s]
                   [] sub[s].open /\ sub[s].backlog = ChannelCap -> [sub[s] EXCEPT !.lost = TRUE]
                   [] OTHER -> [sub[s] EXCEPT !.backlog = @ + 1]]
    /\ view' = [s \in Subscribers |->
                 IF sub[s].open /\ sub[s].backlog < ChannelCap THEN [view[s] EXCEPT ![t] = tag]
                                                               ELSE view[s]]

\* Fault: the change is announced before it is stored.
AnnounceThenStore(k) ==
    \/ /\ thread[k].pc = "store"
       /\ Send(thread[k].id, thread[k].new)
       /\ thread' = [thread EXCEPT ![k].pc = "late"]
       /\ UNCHANGED <<innerVars, calls, ideal>>
    \/ /\ thread[k].pc = "late"
       /\ tags' = [tags EXCEPT ![thread[k].slot] = thread[k].new]
       /\ ideal' = [ideal EXCEPT ![thread[k].id] = Applied(thread[k], @)]
       /\ thread' = [thread EXCEPT ![k] = Idle]
       /\ UNCHANGED <<index, sortedIds, subVars, calls>>

Store(k) ==
    /\ thread[k].pc = "store"
    /\ tags' = [tags EXCEPT ![thread[k].slot] = thread[k].new]
    /\ ideal' = [ideal EXCEPT ![thread[k].id] = Applied(thread[k], @)]
    /\ thread' = [thread EXCEPT ![k].pc = "broadcast"]
    /\ UNCHANGED <<index, sortedIds, subVars, calls>>

Broadcast(k) ==
    /\ thread[k].pc = "broadcast"
    /\ Send(thread[k].id, thread[k].new)
    /\ thread' = [thread EXCEPT ![k] = Idle]
    /\ UNCHANGED <<innerVars, calls, ideal>>

\* The position binary_search_by finds: the number of smaller ids.
InsertPos(t) ==
    CHOOSE p \in 0..Len(sortedIds) :
        /\ \A i \in 1..p : sortedIds[i] < t
        /\ \A i \in (p + 1)..Len(sortedIds) : sortedIds[i] >= t

\* Vec::insert at that position moves the larger ids up by one.
SortedInsert(t) ==
    [i \in 1..(Len(sortedIds) + 1) |->
        CASE i <= InsertPos(t) -> sortedIds[i]
          [] i = InsertPos(t) + 1 -> t
          [] OTHER -> sortedIds[i - 1]]

\* Slow path of insert, under the write lock: another thread may have inserted
\* the id in the meantime.  Then the tag is stored and nobody is told.
InsertRaced(k) ==
    /\ thread[k].pc = "slow"
    /\ index[thread[k].id] # 0
    /\ tags' = [tags EXCEPT ![index[thread[k].id]] = thread[k].new]
    /\ ideal' = [ideal EXCEPT ![thread[k].id] = thread[k].new]
    /\ thread' = [thread EXCEPT ![k] = Idle]
    /\ UNCHANGED <<index, sortedIds, subVars, calls>>

\* Fault: the id is not looked up again under the write lock.
InsertUnchecked(k) ==
    /\ thread[k].pc = "slow"
    /\ tags' = Append(tags, thread[k].new)
    /\ index' = [index EXCEPT ![thread[k].id] = Len(tags) + 1]
    /\ sortedIds' = SortedInsert(thread[k].id)
    /\ ideal' = [ideal EXCEPT ![thread[k].id] = thread[k].new]
    /\ Send(thread[k].id, thread[k].new)
    /\ thread' = [thread EXCEPT ![k] = Idle]
    /\ UNCHANGED calls

\* Fault: the position among the sorted ids is taken for the slot.
InsertAtPosition(k) ==
    /\ thread[k].pc = "slow"
    /\ index[thread[k].id] = 0
    /\ tags' = Append(tags, thread[k].new)
    /\ index' = [index EXCEPT ![thread[k].id] = InsertPos(thread[k].id) + 1]
    /\ sortedIds' = SortedInsert(thread[k].id)
    /\ ideal' = [ideal EXCEPT ![thread[k].id] = thread[k].new]
    /\ Send(thread[k].id, thread[k].new)
    /\ thread' = [thread EXCEPT ![k] = Idle]
    /\ UNCHANGED calls

\* Slow path, the id is new: a slot at the end, and everyone is told.
InsertNew(k) ==
    /\ thread[k].pc = "slow"
    /\ index[thread[k].id] = 0
    /\ tags' = Append(tags, thread[k].new)
    /\ index' = [index EXCEPT ![thread[k].id] = Len(tags) + 1]
    /\ sortedIds' = SortedInsert(thread[k].id)
    /\ ideal' = [ideal EXCEPT ![thread[k].id] = thread[k].new]
    /\ Send(thread[k].id, thread[k].new)
    /\ thread' = [thread EXCEPT ![k] = Idle]
    /\ UNCHANGED calls

-----------------------------------------------------------------------------
(***************************************************************************)
(* Subscribers.                                                            *)
(***************************************************************************)

Subscribe(s) ==
    /\ ~sub[s].open
    /\ sub' = [sub EXCEPT ![s] = [open |-> TRUE, backlog |-> 0, lost |-> FALSE]]
    /\ view' = [view EXCEPT ![s] = [t \in Ids |-> Current(t)]]
    /\ UNCHANGED <<innerVars, thread, calls, ideal>>

Receive(s) ==
    /\ sub[s].open
    /\ sub[s].backlog > 0
    /\ sub' = [sub EXCEPT ![s].backlog = @ - 1]
    /\ UNCHANGED <<innerVars, view, thread, calls, ideal>>

\* The receiver is dropped.  Its sender stays in the list, and what is sent to it
\* is discarded.
Disconnect(s) ==
    /\ sub[s].open
    /\ sub' = [sub EXCEPT ![s] = [open |-> FALSE, backlog |-> 0, lost |-> FALSE]]
    /\ view' = [view EXCEPT ![s] = [t \in Ids |-> NoTag]]
    /\ UNCHANGED <<innerVars, thread, calls, ideal>>

-----------------------------------------------------------------------------
Step(k) ==
    \/ \E t \in Writes[k] : Insert(k, t) \/ Change(k, t) \/ CheckStale(k, t)
    \/ Load(k) \/ Store(k) \/ Broadcast(k) \/ InsertRaced(k) \/ InsertNew(k)

Next ==
    \/ \E k \in Threads : Step(k)
    \/ \E s \in Subscribers : Subscribe(s) \/ Receive(s) \/ Disconnect(s)

Spec == Init /\ [][Next]_vars

-----------------------------------------------------------------------------
(***************************************************************************)
(* Properties.                                                             *)
(***************************************************************************)

Present == {t \in Ids : index[t] # 0}

\* Slots, index and sorted ids agree whenever the lock is free, however inserts
\* race: every id that was inserted has a slot of its own and is listed once, in
\* order, as list_ids_sorted promises.
StoreIsConsistent ==
    /\ {index[t] : t \in Present} = 1..Len(tags)
    /\ Cardinality(Present) = Len(tags)
    /\ {sortedIds[i] : i \in 1..Len(sortedIds)} = Present
    /\ \A i, j \in 1..Len(sortedIds) : i < j => sortedIds[i] < sortedIds[j]

\* t is written by thread k and by no other.
Owns(k, t) == t \in Writes[k] /\ \A j \in Threads \ {k} : t \notin Writes[j]

\* A tag with one writer always shows what that writer's calls, one after the
\* other, have made of it, whatever other threads do to the structure and to
\* other tags: load and store are two steps, yet no update is lost.  (With two
\* writers one may store a tag it loaded before the other's update.)
OwnCallsHold == \A k \in Threads : \A t \in Ids : Owns(k, t) => Current(t) = ideal[t]

\* A subscriber that knew the store when it subscribed, and whose channel was
\* never full, knows the present state of every tag with one writer as soon as
\* that writer is not in a call for it, even if it subscribed in the middle of one.
SubscribersKeepUp ==
    \A s \in Subscribers : \A k \in Threads : \A t \in Ids :
        sub[s].open /\ ~sub[s].lost /\ Owns(k, t) /\ thread[k].id # t => view[s][t] = Current(t)
=============================================================================
