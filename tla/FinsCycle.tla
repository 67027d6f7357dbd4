----------------------------- MODULE FinsCycle -----------------------------
(***************************************************************************)
(* One FINS driver: run_read_cycle_impl, cycle after cycle.  Unlike the    *)
(* Modbus driver it matches requests and responses itself, by an 8-bit     *)
(* service id (SID), it has no i/o timeout, a failed write does not end    *)
(* the cycle, and a cycle always returns Ok.                               *)
(*                                                                         *)
(* A response, sent or still owed by the PLC, is its SID and whether it    *)
(* answers the driver's current request.  The PLC answers in order, and    *)
(* may repeat its last answer.  A chunk is one entry of read_groups.       *)
(***************************************************************************)
EXTENDS Integers, Sequences

CONSTANTS
    Tags,           \* tags that have a mapping
    UnknownTag,     \* a tag id without a mapping
    Writable,       \* mappings with the writable flag
    Undecodable,    \* tags whose mapping does not decode
    Chunks,         \* read_groups, in the order of area and address
    ChunkTags,      \* tags whose words a chunk holds
    GroupTags,      \* tags of the contiguous group a chunk was split from
    DrainMax,       \* writes taken in one cycle (64)
    SidMod,         \* number of service ids (256)
    MaxRequests,    \* bound: number of queued write requests
    MaxStray,       \* bound: duplicated responses on one connection
    Faults          \* "endcode", "garbled", "short", "silence", "transport"

Requests == 1..MaxRequests

ASSUME FinsAssumption ==
    /\ UnknownTag \notin Tags
    /\ Writable \subseteq Tags
    /\ Undecodable \subseteq Tags
    /\ Chunks \in Seq(STRING)
    /\ \A i, j \in 1..Len(Chunks) : Chunks[i] = Chunks[j] => i = j
    /\ \A i \in 1..Len(Chunks) :
         ChunkTags[Chunks[i]] \subseteq GroupTags[Chunks[i]] /\ GroupTags[Chunks[i]] \subseteq Tags
    /\ DrainMax \in Nat \ {0}
    /\ SidMod \in Nat \ {0}
    /\ MaxRequests \in Nat
    /\ MaxStray \in Nat
    /\ Faults \subseteq {"endcode", "garbled", "short", "silence", "transport"}

VARIABLES
    submitted,      \* requests put in the write queue so far
    reqTag,         \* tag of each request
    queue,          \* write_rx
    answer,         \* what each request's oneshot was sent
    pc,             \* where the cycle is
    cur,            \* the request being written, or 0
    drained,        \* requests taken in this cycle
    plan,           \* chunks still to be read in this cycle
    conn,           \* the connection: "none", "live", or "dead" once closed
    sid,            \* sid_counter
    own,            \* SID of the request in progress
    owed,           \* responses to requests the PLC has not answered yet
    stream,         \* responses sent by the PLC and not read yet
    last,           \* the last response sent on this connection, if any
    strays,         \* duplicates sent on this connection
    misled,         \* a response to another request was accepted
    quality,        \* TagRegistry: quality of each tag
    missed,         \* tags whose read in this cycle brought no data
    link            \* the PLC: "up", "silent" or "refused" (restarting)

queueVars == <<submitted, reqTag, queue, answer>>
sidVars == <<sid, own>>
wireVars == <<owed, stream, last, strays>>
vars == <<submitted, reqTag, queue, answer, pc, cur, drained, plan, conn, sid, own,
          owed, stream, last, strays, misled, quality, missed, link>>

Init ==
    /\ submitted = 0
    /\ reqTag \in [Requests -> Tags \union {UnknownTag}]
    /\ queue = << >>
    /\ answer = [r \in Requests |-> "none"]
    /\ pc = "idle"
    /\ cur = 0
    /\ drained = 0
    /\ plan = << >>
    /\ conn = "none"
    /\ sid = 1 % SidMod
    /\ own = 0
    /\ owed = << >>
    /\ stream = << >>
    /\ last = << >>
    /\ strays = 0
    /\ misled = FALSE
    /\ quality = [t \in Tags |-> "initializing"]
    /\ missed = {}
    /\ link = "up"

-----------------------------------------------------------------------------
Responses == [sid : 0..(SidMod - 1), own : BOOLEAN]

Mark(tags, q) == quality' = [t \in Tags |-> IF t \in tags THEN q ELSE quality[t]]

\* The frame of a request: of all its fields, the service id is the one that
\* comes back with the response and tells it from others.
Frame == [sid |-> sid, own |-> TRUE]

\* Responses of earlier requests.
Earlier(responses) == [i \in 1..Len(responses) |-> [responses[i] EXCEPT !.own = FALSE]]

\* Fault: the counter is not advanced.
RequestSameSid(connecting, waiting) ==
    /\ own' = sid
    /\ sid' = sid
    /\ owed' = Append(Earlier(owed), Frame)
    /\ stream' = Earlier(stream)
    /\ last' = Earlier(last)
    /\ pc' = IF conn = "none" THEN connecting ELSE waiting

\* Fault: the counter is compared with its limit after it was used.
RequestSidUnwrapped(connecting, waiting) ==
    /\ own' = sid
    /\ sid' = IF sid > SidMod - 1 THEN 0 ELSE sid + 1
    /\ owed' = Append(Earlier(owed), Frame)
    /\ stream' = Earlier(stream)
    /\ last' = Earlier(last)
    /\ pc' = IF conn = "none" THEN connecting ELSE waiting

\* A request is made: next_sid, then the connection is taken, or made first.
Request(connecting, waiting) ==
    /\ own' = sid
    /\ sid' = (sid + 1) % SidMod
    /\ owed' = Append(Earlier(owed), Frame)
    /\ stream' = Earlier(stream)
    /\ last' = Earlier(last)
    /\ pc' = IF conn = "none" THEN connecting ELSE waiting

\* An i/o error: the connection is dropped, with what was under way on it.
DropConnection ==
    /\ conn' = "none"
    /\ owed' = << >>
    /\ stream' = << >>
    /\ last' = << >>
    /\ strays' = 0

\* connect_with_backoff: it retries for ever.  A connection starts empty.
Connect ==
    /\ pc \in {"connect", "connectWrite", "connectRead"}
    /\ link = "up"
    /\ conn' = "live"
    /\ pc' = CASE pc = "connect" -> "draining"
               [] pc = "connectWrite" -> "writing"
               [] pc = "connectRead" -> "awaiting"
    /\ UNCHANGED <<queueVars, cur, drained, plan, sidVars, wireVars, misled, quality,
                   missed, link>>

\* A sender of write requests: handle_write or submit_write.
Submit ==
    /\ submitted < MaxRequests
    /\ submitted' = submitted + 1
    /\ queue' = Append(queue, submitted + 1)
    /\ UNCHANGED <<reqTag, answer, pc, cur, drained, plan, conn, sidVars, wireVars, misled,
                   quality, missed, link>>

CycleBegin ==
    /\ pc = "idle"
    /\ pc' = IF conn = "none" THEN "connect" ELSE "draining"
    /\ drained' = 0
    /\ missed' = {}
    /\ UNCHANGED <<queueVars, cur, plan, conn, sidVars, wireVars, misled, quality, link>>

-----------------------------------------------------------------------------
(***************************************************************************)
(* Draining the write queue.                                               *)
(***************************************************************************)

CanDrain == pc = "draining" /\ drained < DrainMax /\ queue # << >>

\* No mapping, or one that is not writable: answered, nothing else.
TakeRefused ==
    /\ CanDrain
    /\ reqTag[Head(queue)] \notin Writable
    /\ queue' = Tail(queue)
    /\ drained' = drained + 1
    /\ answer' = [answer EXCEPT ![Head(queue)] = "err"]
    /\ UNCHANGED <<submitted, reqTag, pc, cur, plan, conn, sidVars, wireVars, misled,
                   quality, missed, link>>

TakeWrite ==
    /\ CanDrain
    /\ reqTag[Head(queue)] \in Writable
    /\ queue' = Tail(queue)
    /\ drained' = drained + 1
    /\ cur' = Head(queue)
    /\ Request("connectWrite", "writing")
    /\ UNCHANGED <<submitted, reqTag, answer, plan, conn, strays, misled, quality, missed,
                   link>>

\* The request is over: the client is answered, the tag marked, the next taken.
WriteOver(result, q) ==
    /\ pc = "writing"
    /\ pc' = "draining"
    /\ cur' = 0
    /\ answer' = [answer EXCEPT ![cur] = result]
    /\ Mark({reqTag[cur]}, q)
    /\ UNCHANGED <<submitted, reqTag, queue, drained, plan, sidVars, missed, link>>

WriteIoError ==
    /\ conn = "dead"
    /\ DropConnection
    /\ WriteOver("err", "commlost")
    /\ UNCHANGED misled

\* A response is read off the stream.
ReadResponse ==
    /\ stream # << >>
    /\ stream' = Tail(stream)
    /\ UNCHANGED <<conn, owed, last, strays>>

OwnSid == Head(stream).sid = own

\* A response whose SID matches is taken for the answer.
Accept ==
    /\ ReadResponse
    /\ OwnSid
    /\ misled' = (misled \/ ~Head(stream).own)

\* Fault: a response with another SID is left unanswered.
MismatchUnanswered ==
    /\ pc = "writing"
    /\ ReadResponse
    /\ ~OwnSid
    /\ pc' = "draining"
    /\ cur' = 0
    /\ Mark({reqTag[cur]}, "commlost")
    /\ UNCHANGED <<queueVars, drained, plan, sidVars, misled, missed, link>>

WriteMismatch ==
    /\ ReadResponse
    /\ ~OwnSid
    /\ WriteOver("err", "commlost")
    /\ UNCHANGED misled

\* A response that does not parse, whoever it was for.
WriteGarbled ==
    /\ "garbled" \in Faults
    /\ ReadResponse
    /\ WriteOver("err", "error")
    /\ UNCHANGED misled

\* End code 0, or another end code.
WriteResponse ==
    /\ Accept
    /\ \/ WriteOver("ok", "good")
       \/ "endcode" \in Faults /\ WriteOver("err", "error")

DrainDone ==
    /\ pc = "draining"
    /\ queue = << >> \/ drained = DrainMax
    /\ pc' = "reading"
    /\ plan' = Chunks
    /\ UNCHANGED <<queueVars, cur, drained, conn, sidVars, wireVars, misled, quality, missed,
                   link>>

-----------------------------------------------------------------------------
(***************************************************************************)
(* Reading, one chunk at a time.                                           *)
(***************************************************************************)

ReadRequest ==
    /\ pc = "reading"
    /\ plan # << >>
    /\ Request("connectRead", "awaiting")
    /\ UNCHANGED <<queueVars, cur, drained, plan, conn, strays, misled, quality, missed,
                   link>>

\* A chunk brought no data: its group is marked, and the cycle goes on with the
\* next chunk or ends.
ChunkMissed(q, goOn) ==
    /\ pc = "awaiting"
    /\ Mark(GroupTags[Head(plan)], q)
    /\ missed' = missed \union ChunkTags[Head(plan)]
    /\ pc' = IF goOn THEN "reading" ELSE "idle"
    /\ plan' = IF goOn THEN Tail(plan) ELSE << >>
    /\ UNCHANGED <<queueVars, cur, drained, sidVars, link>>

\* Fault: the dead connection is kept.
IoErrorKeepsConnection ==
    /\ conn = "dead"
    /\ owed' = << >> /\ stream' = << >> /\ last' = << >> /\ strays' = 0
    /\ ChunkMissed("commlost", FALSE)
    /\ UNCHANGED <<conn, misled>>

ReadIoError ==
    /\ conn = "dead"
    /\ DropConnection
    /\ ChunkMissed("commlost", FALSE)
    /\ UNCHANGED misled

ReadMismatch ==
    /\ ReadResponse
    /\ ~OwnSid
    /\ ChunkMissed("commlost", TRUE)
    /\ UNCHANGED misled

\* Fault: a non-zero end code ends the cycle without marking the group.
EndCodeUnmarked ==
    /\ pc = "awaiting"
    /\ "endcode" \in Faults
    /\ Accept
    /\ missed' = missed \union ChunkTags[Head(plan)]
    /\ pc' = "idle"
    /\ plan' = << >>
    /\ UNCHANGED <<queueVars, cur, drained, sidVars, quality, link>>

\* A non-zero end code ends the cycle.
ReadRefused ==
    /\ "endcode" \in Faults
    /\ Accept
    /\ ChunkMissed("error", FALSE)

\* So does a response that does not parse, whoever it was for.
ReadGarbled ==
    /\ "garbled" \in Faults
    /\ ReadResponse
    /\ ChunkMissed("error", FALSE)
    /\ UNCHANGED misled

\* Enough words arrived: each tag of the chunk is decoded.  Too few words, or
\* words that do not decode, mark the tags of the chunk.
ReadOk(short) ==
    /\ pc = "awaiting"
    /\ Accept
    /\ LET bad == IF short THEN ChunkTags[Head(plan)]
                  ELSE ChunkTags[Head(plan)] \intersect Undecodable IN
         /\ quality' = [t \in Tags |-> IF t \in bad THEN "error"
                                       ELSE IF t \in ChunkTags[Head(plan)] THEN "good"
                                       ELSE quality[t]]
         /\ missed' = missed \union bad
    /\ pc' = "reading"
    /\ plan' = Tail(plan)
    /\ UNCHANGED <<queueVars, cur, drained, sidVars, link>>

CycleEnd ==
    /\ pc = "reading"
    /\ plan = << >>
    /\ pc' = "idle"
    /\ UNCHANGED <<queueVars, cur, drained, plan, conn, sidVars, wireVars, misled, quality,
                   missed, link>>

-----------------------------------------------------------------------------
(***************************************************************************)
(* The PLC and the network (external).                                     *)
(***************************************************************************)

PlcAnswer ==
    /\ conn = "live"
    /\ link = "up"
    /\ owed # << >>
    /\ owed' = Tail(owed)
    /\ stream' = Append(stream, Head(owed))
    /\ last' = <<Head(owed)>>
    /\ UNCHANGED <<queueVars, pc, cur, drained, plan, conn, sidVars, strays, misled, quality,
                   missed, link>>

\* The last answer arrives a second time.
PlcDuplicate ==
    /\ conn = "live"
    /\ link = "up"
    /\ strays < MaxStray
    /\ last # << >>
    /\ strays' = strays + 1
    /\ stream' = stream \o last
    /\ UNCHANGED <<queueVars, pc, cur, drained, plan, conn, sidVars, owed, last, misled,
                   quality, missed, link>>

\* The PLC falls silent without closing its connections.
PlcSilent ==
    /\ link = "up"
    /\ "silence" \in Faults
    /\ link' = "silent"
    /\ UNCHANGED <<queueVars, pc, cur, drained, plan, conn, sidVars, wireVars, misled,
                   quality, missed>>

PlcRestart ==
    /\ link = "up"
    /\ "transport" \in Faults
    /\ link' = "refused"
    /\ conn' = IF conn = "live" THEN "dead" ELSE conn
    /\ UNCHANGED <<queueVars, pc, cur, drained, plan, sidVars, wireVars, misled, quality,
                   missed>>

LinkRestored ==
    /\ link # "up"
    /\ link' = "up"
    /\ UNCHANGED <<queueVars, pc, cur, drained, plan, conn, sidVars, wireVars, misled,
                   quality, missed>>

-----------------------------------------------------------------------------
Drain ==
    \/ TakeRefused \/ TakeWrite
    \/ WriteIoError \/ WriteMismatch \/ WriteGarbled \/ WriteResponse
    \/ DrainDone

Read ==
    \/ ReadRequest
    \/ ReadIoError \/ ReadMismatch \/ ReadGarbled \/ ReadRefused
    \/ ReadOk(FALSE) \/ ("short" \in Faults /\ ReadOk(TRUE))
    \/ CycleEnd

Driver == CycleBegin \/ Connect \/ Drain \/ Read

Plc == PlcAnswer \/ PlcDuplicate \/ PlcSilent \/ PlcRestart \/ LinkRestored

Next == Submit \/ Driver \/ Plc

Spec == Init /\ [][Next]_vars

\* The runtime keeps calling read_cycle, and a PLC that is up answers.
FairSpec == Spec /\ WF_vars(Driver) /\ WF_vars(PlcAnswer)

-----------------------------------------------------------------------------
(***************************************************************************)
(* Properties.                                                             *)
(***************************************************************************)

Qualities == {"initializing", "good", "commlost", "error"}
ReadGroups == {Chunks[i] : i \in 1..Len(Chunks)}

QueueTypeOK ==
    /\ submitted \in 0..MaxRequests
    /\ reqTag \in [Requests -> Tags \union {UnknownTag}]
    /\ queue \in Seq(Requests)
    /\ answer \in [Requests -> {"none", "ok", "err"}]
    /\ cur \in 0..MaxRequests
    /\ drained \in 0..DrainMax

CycleTypeOK ==
    /\ pc \in {"idle", "connect", "draining", "connectWrite", "writing", "reading",
               "connectRead", "awaiting"}
    /\ plan \in Seq(ReadGroups)
    /\ conn \in {"none", "live", "dead"}
    /\ pc \in {"writing", "awaiting"} => conn # "none"
    /\ pc \in {"connectRead", "awaiting"} => plan # << >>
    /\ quality \in [Tags -> Qualities]
    /\ missed \subseteq Tags
    /\ link \in {"up", "silent", "refused"}

WireTypeOK ==
    /\ sid \in 0..(SidMod - 1)
    /\ own \in 0..(SidMod - 1)
    /\ owed \in Seq(Responses)
    /\ stream \in Seq(Responses)
    /\ last \in Seq(Responses)
    /\ strays \in 0..MaxStray

\* Every variable stays in its domain: the service id wraps around, and a cycle
\* that waits for a response has a connection, and a chunk or a request it is for.
TypeOK == QueueTypeOK /\ CycleTypeOK /\ WireTypeOK /\ misled \in BOOLEAN

\* The driver never takes the response to one request for the response to
\* another: a write is confirmed, and a tag refreshed, by its own answer, also
\* after duplicated responses and after the 8-bit service id has wrapped around,
\* as long as fewer responses than there are service ids are unread.
OwnAnswerOnly == MaxStray < SidMod => ~misled

\* The requests the driver has not answered: the one in hand, then the queue.
InHand == IF cur = 0 THEN << >> ELSE <<cur>>
Contract == INSTANCE DriverContract WITH pending <- InHand \o queue

\* The driver keeps the promise of DriverContract: whichever of the many exits of
\* the drain loop a request goes through, it is answered, once, before the next
\* one is taken, so that handle_write never waits for a reply nobody will send.
FulfilsContract == Contract!Spec

\* The tags with words in several chunks.
Split ==
    {t \in Tags : \E i, j \in 1..Len(Chunks) :
                     i # j /\ t \in ChunkTags[Chunks[i]] \intersect ChunkTags[Chunks[j]]}

\* A tag the last cycle asked for and got no data for is not left Good, whatever
\* went wrong with the exchange.  A split tag is judged by the last of its chunks.
MissedIsNotGood == pc = "idle" => \A t \in missed \ Split : quality[t] # "good"

ReadFailed == ReadRefused \/ ReadGarbled \/ ReadOk(TRUE)
Readable == (UNION {ChunkTags[Chunks[i]] : i \in 1..Len(Chunks)}) \ Undecodable
AllGood == \A t \in Readable : quality[t] = "good"

\* Once the PLC can be reached again for good, serves every read and repeats no
\* response on the connection in use, every tag becomes Good again: the driver
\* notices a closed connection, at whatever step it was, and makes a new one.
Recovers ==
    <>[](link = "up" /\ strays = 0) /\ <>[][~ReadFailed]_vars => []<>AllGood

\* A PLC that has fallen silent is noticed: not all of its tags keep being shown
\* as Good.  driver/fins/src/config.rs has a "TCP keepalive in seconds".
OutageDetected == <>[](link # "up") => []<>(~AllGood)
=============================================================================
