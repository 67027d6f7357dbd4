---------------------------- MODULE ModbusCycle ----------------------------
(***************************************************************************)
(* One Modbus driver: run_read_cycle_impl, cycle after cycle.  A cycle     *)
(* drains queued writes over the persistent connection, then reads the     *)
(* mapped tags chunk by chunk.  It decides the quality every OPC UA client *)
(* sees, and what becomes of the connection.                               *)
(*                                                                         *)
(* Values, addresses and byte orders are left out: a chunk is the set of   *)
(* tags that one read request refreshes.  A connection is "live", or       *)
(* "dead" once the other end has closed it; a dead one never revives.      *)
(***************************************************************************)
EXTENDS Integers, Sequences

CONSTANTS
    Tags,           \* tags that have a mapping
    UnknownTag,     \* a tag id without a mapping
    Writable,       \* mappings with the writable flag
    RegisterTags,   \* mappings read with the HoldingRegisters function
    Undecodable,    \* tags whose mapping does not decode (ConfigError)
    Chunks,         \* read requests of a cycle
    ChunkTags,      \* tags a chunk refreshes
    GroupTags,      \* tags of the contiguous group a chunk belongs to
    Plans,          \* orders in which a cycle can read the chunks
    DrainMax,       \* writes taken in one cycle (64)
    MaxRequests,    \* bound: number of queued write requests
    HealthCap,      \* capacity of the health channel
    Faults          \* "illegal", "exception", "timeout", "transport"

Requests == 1..MaxRequests

ASSUME CycleAssumption ==
    /\ UnknownTag \notin Tags
    /\ Writable \subseteq Tags
    /\ RegisterTags \subseteq Tags
    /\ Undecodable \subseteq Tags
    /\ ChunkTags \in [Chunks -> SUBSET Tags]
    /\ GroupTags \in [Chunks -> SUBSET Tags]
    /\ \A c \in Chunks : ChunkTags[c] # {} /\ ChunkTags[c] \subseteq GroupTags[c]
    /\ Plans \subseteq Seq(Chunks)
    /\ \A p \in Plans : \A i, j \in 1..Len(p) : p[i] = p[j] => i = j
    /\ DrainMax \in Nat \ {0}
    /\ MaxRequests \in Nat
    /\ HealthCap \in Nat \ {0}
    /\ Faults \subseteq {"illegal", "exception", "timeout", "transport"}

VARIABLES
    submitted,      \* requests put in the write queue so far
    reqTag,         \* tag of each request
    queue,          \* write_rx
    answer,         \* what each request's oneshot was sent
    pc,             \* where the cycle is
    cur,            \* the request being written, or 0
    drained,        \* requests taken in this cycle
    plan,           \* chunks still to be read in this cycle
    slot,           \* self.client: the persistent connection, or "none"
    ctx,            \* the connection the cycle has taken out of the slot
    quality,        \* TagRegistry: quality of each tag
    missed,         \* tags whose read in this cycle brought no data
    ignored,        \* those of them whose error was passed over
    result,         \* what the last cycle returned
    link,           \* the PLC: "up", "lossy" (silence) or "refused" (restarting)
    health          \* events waiting in the health channel

queueVars == <<submitted, reqTag, queue, answer>>
connVars == <<slot, ctx>>
readVars == <<missed, ignored>>
vars == <<submitted, reqTag, queue, answer, pc, cur, drained, plan, slot, ctx, quality,
          missed, ignored, result, link, health>>

Init ==
    /\ submitted = 0
    /\ reqTag \in [Requests -> Tags \union {UnknownTag}]
    /\ queue = << >>
    /\ answer = [r \in Requests |-> "none"]
    /\ pc = "idle"
    /\ cur = 0
    /\ drained = 0
    /\ plan = << >>
    /\ slot = "none"
    /\ ctx = "none"
    /\ quality = [t \in Tags |-> "initializing"]
    /\ missed = {}
    /\ ignored = {}
    /\ result = "none"
    /\ link = "up"
    /\ health = 0

-----------------------------------------------------------------------------
\* A sender of write requests: handle_write or submit_write.
Submit ==
    /\ submitted < MaxRequests
    /\ submitted' = submitted + 1
    /\ queue' = Append(queue, submitted + 1)
    /\ UNCHANGED <<reqTag, answer, pc, cur, drained, plan, connVars, quality, readVars,
                   result, link, health>>

CycleBegin ==
    /\ pc = "idle"
    /\ pc' = "draining"
    /\ drained' = 0
    /\ missed' = {}
    /\ ignored' = {}
    /\ UNCHANGED <<queueVars, cur, plan, connVars, quality, result, link, health>>

Mark(tags, q) == quality' = [t \in Tags |-> IF t \in tags THEN q ELSE quality[t]]

\* send_health_event: try_send drops the event when the channel is full.
SendHealth == health' = IF health < HealthCap THEN health + 1 ELSE health

\* read_cycle returns Err: no connection is kept for the next cycle.
Fail ==
    /\ slot' = "none"
    /\ ctx' = "none"
    /\ plan' = << >>
    /\ result' = "err"
    /\ pc' = "idle"

-----------------------------------------------------------------------------
(***************************************************************************)
(* Draining the write queue.                                               *)
(***************************************************************************)

CanDrain == pc = "draining" /\ drained < DrainMax /\ queue # << >>

\* No mapping, or one that is not writable: answered, nothing else.
TakeRefused ==
    /\ CanDrain
    /\ reqTag[Head(queue)] \notin Writable
    /\ queue' = Tail(queue)
    /\ drained' = drained + 1
    /\ answer' = [answer EXCEPT ![Head(queue)] = "err"]
    /\ UNCHANGED <<submitted, reqTag, pc, cur, plan, connVars, quality, readVars, result,
                   link, health>>

\* A function other than HoldingRegisters: answered and marked CommLost.
TakeUnsupported ==
    /\ CanDrain
    /\ reqTag[Head(queue)] \in Writable \ RegisterTags
    /\ queue' = Tail(queue)
    /\ drained' = drained + 1
    /\ answer' = [answer EXCEPT ![Head(queue)] = "err"]
    /\ Mark({reqTag[Head(queue)]}, "commlost")
    /\ UNCHANGED <<submitted, reqTag, pc, cur, plan, connVars, readVars, result, link, health>>

\* Fault: the connection is expected to be there.
TakeWithoutConnecting ==
    /\ CanDrain
    /\ reqTag[Head(queue)] \in Writable \intersect RegisterTags
    /\ queue' = Tail(queue)
    /\ drained' = drained + 1
    /\ cur' = Head(queue)
    /\ ctx' = slot
    /\ slot' = "none"
    /\ pc' = "writing"
    /\ UNCHANGED <<submitted, reqTag, answer, plan, quality, readVars, result, link, health>>

\* The connection is taken out of the slot, or a new one is made first.
TakeWrite ==
    /\ CanDrain
    /\ reqTag[Head(queue)] \in Writable \intersect RegisterTags
    /\ queue' = Tail(queue)
    /\ drained' = drained + 1
    /\ cur' = Head(queue)
    /\ ctx' = slot
    /\ slot' = "none"
    /\ pc' = IF slot = "none" THEN "connectWrite" ELSE "writing"
    /\ UNCHANGED <<submitted, reqTag, answer, plan, quality, readVars, result, link, health>>

\* What can come of a request on connection c.
Outcomes(c) ==
    CASE c = "dead" -> {"transport"}
      [] c = "live" /\ link = "lossy" -> {"timeout"}
      [] c = "live" /\ link = "up" -> {"ok"} \union ({"illegal", "exception"} \intersect Faults)
      [] OTHER -> {}

\* Fault: the request is dropped without an answer.
LostUnanswered ==
    /\ pc = "writing"
    /\ \E o \in Outcomes(ctx) \ {"ok", "illegal"} :
         IF o = "exception" THEN SendHealth ELSE UNCHANGED health
    /\ Mark({reqTag[cur]}, "commlost")
    /\ cur' = 0
    /\ Fail
    /\ UNCHANGED <<submitted, reqTag, queue, answer, drained, readVars, link>>

\* Any exception but an "Illegal..." one, a transport error or a timeout.
WriteLost ==
    /\ pc = "writing"
    /\ \E o \in Outcomes(ctx) \ {"ok", "illegal"} :
         IF o = "exception" THEN SendHealth ELSE UNCHANGED health
    /\ Mark({reqTag[cur]}, "commlost")
    /\ answer' = [answer EXCEPT ![cur] = "err"]
    /\ cur' = 0
    /\ Fail
    /\ UNCHANGED <<submitted, reqTag, queue, drained, readVars, link>>

\* The PLC acknowledged the write, or refused it as illegal; go on draining.
WriteAnswered ==
    /\ pc = "writing"
    /\ \E o \in Outcomes(ctx) \intersect {"ok", "illegal"} :
         /\ Mark({reqTag[cur]}, IF o = "ok" THEN "good" ELSE "configerror")
         /\ answer' = [answer EXCEPT ![cur] = IF o = "ok" THEN "ok" ELSE "err"]
    /\ cur' = 0
    /\ slot' = ctx
    /\ ctx' = "none"
    /\ pc' = "draining"
    /\ UNCHANGED <<submitted, reqTag, queue, drained, plan, readVars, result, link, health>>

\* The queue is empty or the cycle has taken its share: on to the reads.
DrainDone ==
    /\ pc = "draining"
    /\ queue = << >> \/ drained = DrainMax
    /\ ctx' = slot
    /\ slot' = "none"
    /\ pc' = IF slot = "none" THEN "connectRead" ELSE "reading"
    /\ plan' \in Plans
    /\ UNCHANGED <<queueVars, cur, drained, quality, readVars, result, link, health>>

\* connect_with_backoff, for a write or for the reads: it retries for ever.
Connect ==
    /\ pc \in {"connectWrite", "connectRead"}
    /\ link = "up"
    /\ ctx' = "live"
    /\ pc' = IF pc = "connectWrite" THEN "writing" ELSE "reading"
    /\ UNCHANGED <<queueVars, cur, drained, plan, slot, quality, readVars, result, link, health>>

-----------------------------------------------------------------------------
(***************************************************************************)
(* Reading, one chunk at a time.                                           *)
(***************************************************************************)

\* Fault: a value read for a tag that is CommLost does not restore its quality.
ReadKeepsCommLost ==
    /\ pc = "reading"
    /\ plan # << >>
    /\ "ok" \in Outcomes(ctx)
    /\ LET tags == {t \in ChunkTags[Head(plan)] : quality[t] # "commlost"} IN
         quality' = [t \in Tags |-> IF t \notin tags THEN quality[t]
                                    ELSE IF t \in Undecodable THEN "configerror"
                                    ELSE "good"]
    /\ plan' = Tail(plan)
    /\ UNCHANGED <<queueVars, pc, cur, drained, connVars, readVars, result, link, health>>

ReadOk ==
    /\ pc = "reading"
    /\ plan # << >>
    /\ "ok" \in Outcomes(ctx)
    /\ LET tags == ChunkTags[Head(plan)] IN
         quality' = [t \in Tags |-> IF t \notin tags THEN quality[t]
                                    ELSE IF t \in Undecodable THEN "configerror"
                                    ELSE "good"]
    /\ plan' = Tail(plan)
    /\ UNCHANGED <<queueVars, pc, cur, drained, connVars, readVars, result, link, health>>

\* Fault: an illegal address marks nothing.
IllegalUnmarked ==
    /\ pc = "reading"
    /\ plan # << >>
    /\ "illegal" \in Outcomes(ctx)
    /\ missed' = missed \union ChunkTags[Head(plan)]
    /\ plan' = Tail(plan)
    /\ UNCHANGED <<ignored, queueVars, pc, cur, drained, connVars, quality, result, link, health>>

\* The address is refused: the whole group is misconfigured; next chunk.
ReadIllegal ==
    /\ pc = "reading"
    /\ plan # << >>
    /\ "illegal" \in Outcomes(ctx)
    /\ Mark(GroupTags[Head(plan)], "configerror")
    /\ missed' = missed \union ChunkTags[Head(plan)]
    /\ plan' = Tail(plan)
    /\ UNCHANGED <<ignored, queueVars, pc, cur, drained, connVars, result, link, health>>

\* Fault: the timed-out connection is put back for the next cycle.
TimeoutKeepsConnection ==
    /\ pc = "reading"
    /\ plan # << >>
    /\ "timeout" \in Outcomes(ctx)
    /\ Mark(GroupTags[Head(plan)], "commlost")
    /\ missed' = missed \union ChunkTags[Head(plan)]
    /\ SendHealth
    /\ slot' = ctx
    /\ ctx' = "none"
    /\ plan' = << >>
    /\ result' = "err"
    /\ pc' = "idle"
    /\ UNCHANGED <<ignored, queueVars, cur, drained, link>>

\* Fault: a timeout is passed over like the other errors.
TimeoutIgnored ==
    /\ pc = "reading"
    /\ plan # << >>
    /\ "timeout" \in Outcomes(ctx)
    /\ missed' = missed \union ChunkTags[Head(plan)]
    /\ plan' = Tail(plan)
    /\ UNCHANGED <<ignored, queueVars, pc, cur, drained, connVars, quality, result, link, health>>

\* Timeout: the group has lost communication and the cycle ends, before the
\* groups that follow are read.
ReadTimeout ==
    /\ pc = "reading"
    /\ plan # << >>
    /\ "timeout" \in Outcomes(ctx)
    /\ Mark(GroupTags[Head(plan)], "commlost")
    /\ missed' = missed \union ChunkTags[Head(plan)]
    /\ SendHealth
    /\ Fail
    /\ UNCHANGED <<ignored, queueVars, cur, drained, link>>

\* Every other error (a transport error, an exception whose name does not
\* contain "Illegal", "Address" or "Slave") matches no branch: next chunk.
ReadErrorIgnored ==
    /\ pc = "reading"
    /\ plan # << >>
    /\ Outcomes(ctx) \intersect {"transport", "exception"} # {}
    /\ missed' = missed \union ChunkTags[Head(plan)]
    /\ ignored' = ignored \union ChunkTags[Head(plan)]
    /\ plan' = Tail(plan)
    /\ UNCHANGED <<queueVars, pc, cur, drained, connVars, quality, result, link, health>>

\* All chunks are read: the connection goes back to the slot, Ok is returned.
CycleEnd ==
    /\ pc = "reading"
    /\ plan = << >>
    /\ slot' = ctx
    /\ ctx' = "none"
    /\ result' = "ok"
    /\ pc' = "idle"
    /\ UNCHANGED <<queueVars, cur, drained, plan, quality, readVars, link, health>>

-----------------------------------------------------------------------------
(***************************************************************************)
(* The PLC and the network (external), and main's health task.             *)
(***************************************************************************)

\* Packets are lost: requests time out and connecting does not succeed.
NetworkLoss ==
    /\ link = "up"
    /\ "timeout" \in Faults
    /\ link' = "lossy"
    /\ UNCHANGED <<queueVars, pc, cur, drained, plan, connVars, quality, readVars, result,
                   health>>

\* The PLC restarts: its connections are closed and new ones refused.
PlcRestart ==
    /\ link = "up"
    /\ "transport" \in Faults
    /\ link' = "refused"
    /\ slot' = IF slot = "live" THEN "dead" ELSE slot
    /\ ctx' = IF ctx = "live" THEN "dead" ELSE ctx
    /\ UNCHANGED <<queueVars, pc, cur, drained, plan, quality, readVars, result, health>>

LinkRestored ==
    /\ link # "up"
    /\ link' = "up"
    /\ UNCHANGED <<queueVars, pc, cur, drained, plan, connVars, quality, readVars, result,
                   health>>

HealthDrain ==
    /\ health > 0
    /\ health' = 0
    /\ UNCHANGED <<queueVars, pc, cur, drained, plan, connVars, quality, readVars, result,
                   link>>

-----------------------------------------------------------------------------
Drain ==
    \/ TakeRefused \/ TakeUnsupported \/ TakeWrite
    \/ WriteAnswered \/ WriteLost \/ DrainDone

Read == ReadOk \/ ReadIllegal \/ ReadTimeout \/ ReadErrorIgnored \/ CycleEnd

Driver == CycleBegin \/ Drain \/ Connect \/ Read

Environment == NetworkLoss \/ PlcRestart \/ LinkRestored \/ HealthDrain

Next == Submit \/ Driver \/ Environment

Spec == Init /\ [][Next]_vars

\* The runtime keeps calling read_cycle, and every exchange is answered or
\* times out.  Nothing is assumed of the network.
FairSpec == Spec /\ WF_vars(Driver)

-----------------------------------------------------------------------------
(***************************************************************************)
(* Properties.                                                             *)
(***************************************************************************)

Qualities == {"initializing", "good", "commlost", "configerror"}
Connections == {"none", "live", "dead"}

QueueTypeOK ==
    /\ submitted \in 0..MaxRequests
    /\ reqTag \in [Requests -> Tags \union {UnknownTag}]
    /\ queue \in Seq(Requests)
    /\ answer \in [Requests -> {"none", "ok", "err"}]
    /\ cur \in 0..MaxRequests
    /\ drained \in 0..DrainMax
    /\ health \in 0..HealthCap

CycleTypeOK ==
    /\ pc \in {"idle", "draining", "connectWrite", "writing", "connectRead", "reading"}
    /\ plan \in Seq(Chunks)
    /\ slot \in Connections
    /\ ctx \in Connections
    /\ quality \in [Tags -> Qualities]
    /\ missed \subseteq Tags
    /\ ignored \subseteq missed
    /\ result \in {"none", "ok", "err"}
    /\ link \in {"up", "lossy", "refused"}

\* Every variable stays in its domain; a cycle that exchanges has a connection.
TypeOK ==
    /\ QueueTypeOK
    /\ CycleTypeOK
    /\ pc \in {"writing", "reading"} => ctx # "none"

\* The requests the driver has not answered: the one in hand, then the queue.
InHand == IF cur = 0 THEN << >> ELSE <<cur>>
Contract == INSTANCE DriverContract WITH pending <- InHand \o queue

\* The driver keeps the promise of DriverContract: whichever of the many exits of
\* the drain loop a request goes through, it is answered, once, before the next
\* one is taken, so that handle_write never waits for a reply nobody will send.
FulfilsContract == Contract!Spec

\* A cycle that fails says so to the clients (some tag of the PLC is CommLost)
\* and keeps no connection on which an answer may still be outstanding.
FailedCycleIsReported ==
    pc = "idle" /\ result = "err" =>
        slot = "none" /\ \E t \in Tags : quality[t] = "commlost"

\* The tags with words in several chunks.
Split == {t \in Tags : \E c, d \in Chunks : c # d /\ t \in ChunkTags[c] \intersect ChunkTags[d]}

\* A tag the last cycle asked for and got no data for is not left Good, if the
\* error was one the driver recognises: a timeout or a refused address, in any
\* chunk of its group.  (The tags in `ignored' do stay Good, although
\* tag_value.rs documents Good as "Value is fresh and valid.")  A split tag is
\* judged by the last of its chunks, whatever became of the others.
MissedIsNotGood == pc = "idle" => \A t \in missed \ (ignored \union Split) : quality[t] # "good"

Readable == (UNION {ChunkTags[c] : c \in Chunks}) \ Undecodable
AllGood == \A t \in Readable : quality[t] = "good"

\* Once the PLC can be reached again for good, every tag becomes Good again: the
\* driver reconnects by itself.  driver/modbus/tests/integration.rs names it:
\* "driver_reconnects_after_server_restart".
Recovers == <>[](link = "up") => []<>AllGood

\* Once packets are no longer lost, the driver holds no connection the PLC has
\* closed, and the PLC serves every read, every tag becomes Good again: what a
\* timeout did to the connection and the quality of the tags is undone.
LinkIsFine == link = "up" /\ slot # "dead" /\ ctx # "dead"
RecoversFromLoss ==
    <>[]LinkIsFine /\ <>[][~(ReadIllegal \/ ReadErrorIgnored)]_vars => []<>AllGood

\* While packets are lost, not all of the PLC's tags keep being shown as Good.  (Not
\* all of them: a timeout ends the cycle before the groups that follow, whose tags
\* stay Good.)
OutageDetected == <>[](link = "lossy" /\ slot # "dead" /\ ctx # "dead") => <>[](~AllGood)
=============================================================================
