-------------------------- MODULE FinsCycleProofs --------------------------
(***************************************************************************)
(* Proofs about FinsCycle, for any mappings, any number of write requests  *)
(* and any number of service ids.                                          *)
(***************************************************************************)
EXTENDS FinsCycle, SequenceTheorems, TLAPS

LEMMA SidWraps ==
    ASSUME NEW n \in 0..(SidMod - 1)
    PROVE  (n + 1) % SidMod = IF n = SidMod - 1 THEN 0 ELSE n + 1
BY FinsAssumption

\* Making a request ages the responses of the earlier ones.
LEMMA EarlierIs ==
    ASSUME NEW s \in Seq(Responses)
    PROVE  /\ Earlier(s) \in Seq(Responses)
           /\ Len(Earlier(s)) = Len(s)
           /\ \A i \in 1..Len(s) : Earlier(s)[i].sid = s[i].sid /\ ~Earlier(s)[i].own
<1>1. s \in [1..Len(s) -> Responses] /\ Len(s) \in Nat
  BY LenProperties
<1>2. \A i \in 1..Len(s) : [s[i] EXCEPT !.own = FALSE] \in Responses
  BY <1>1 DEF Responses
<1>3. Earlier(s) \in [1..Len(s) -> Responses]
  BY <1>2 DEF Earlier
<1>4. Earlier(s) \in Seq(Responses) /\ Len(Earlier(s)) = Len(s)
  BY <1>1, <1>3
<1>5. QED BY <1>1, <1>4 DEF Earlier, Responses

LEMMA MarkType ==
    ASSUME quality \in [Tags -> Qualities], NEW q \in Qualities, NEW tags, Mark(tags, q)
    PROVE  quality' \in [Tags -> Qualities]
BY DEF Mark


\* A request keeps the wire's variables in their domains.
LEMMA RequestType ==
    ASSUME WireTypeOK, NEW c, NEW w, Request(c, w), strays' = strays
    PROVE  WireTypeOK'
<1>1. Frame \in Responses
  BY DEF Frame, Responses, WireTypeOK
<1>2. sid' \in 0..(SidMod - 1)
  BY SidWraps, FinsAssumption DEF Request, WireTypeOK
<1>3. QED BY <1>1, <1>2, EarlierIs DEF Request, WireTypeOK

\* So does the loss of the connection, or reading a response.
LEMMA ResponseType ==
    ASSUME WireTypeOK, UNCHANGED sidVars, DropConnection \/ ReadResponse
    PROVE  WireTypeOK'
<1>1. CASE DropConnection
  BY <1>1, FinsAssumption DEF DropConnection, WireTypeOK, sidVars
<1>2. CASE ReadResponse
  BY <1>2 DEF ReadResponse, WireTypeOK, sidVars
<1>3. QED BY <1>1, <1>2

\* The chunk that is read next.
LEMMA ChunkType ==
    ASSUME CycleTypeOK, plan # << >>
    PROVE  /\ Head(plan) \in ReadGroups
           /\ Tail(plan) \in Seq(ReadGroups)
           /\ ChunkTags[Head(plan)] \subseteq GroupTags[Head(plan)]
           /\ GroupTags[Head(plan)] \subseteq Tags
<1>1. Head(plan) \in ReadGroups /\ Tail(plan) \in Seq(ReadGroups)
  BY DEF CycleTypeOK
<1>2. QED BY <1>1, FinsAssumption DEF ReadGroups

\* The end of a write.
LEMMA WriteOverType ==
    ASSUME TypeOK, NEW reply \in {"ok", "err"}, NEW q \in Qualities, WriteOver(reply, q),
           DropConnection \/ ReadResponse
    PROVE  QueueTypeOK' /\ CycleTypeOK' /\ WireTypeOK'
<1> USE DEF TypeOK
<1>1. WireTypeOK'
  BY ResponseType DEF WriteOver
<1>2. quality' \in [Tags -> Qualities]
  BY MarkType DEF WriteOver, CycleTypeOK
<1>3. answer' \in [Requests -> {"none", "ok", "err"}]
  BY DEF WriteOver, QueueTypeOK
<1>4. QueueTypeOK'
  BY <1>3, FinsAssumption DEF WriteOver, QueueTypeOK
<1>5. conn' \in {"none", "live", "dead"}
  BY DEF DropConnection, ReadResponse, CycleTypeOK
<1>6. CycleTypeOK'
  BY <1>2, <1>5 DEF WriteOver, CycleTypeOK
<1>7. QED BY <1>1, <1>4, <1>6

\* The end of a read that brought no data.
LEMMA ChunkMissedType ==
    ASSUME TypeOK, NEW q \in Qualities, NEW goOn \in BOOLEAN, ChunkMissed(q, goOn),
           DropConnection \/ ReadResponse
    PROVE  QueueTypeOK' /\ CycleTypeOK' /\ WireTypeOK'
<1> USE DEF TypeOK
<1>1. WireTypeOK'
  BY ResponseType DEF ChunkMissed
<1>2. quality' \in [Tags -> Qualities]
  BY MarkType DEF ChunkMissed, CycleTypeOK
<1>3. QueueTypeOK'
  BY DEF ChunkMissed, QueueTypeOK, queueVars
<1>4. conn' \in {"none", "live", "dead"}
  BY DEF DropConnection, ReadResponse, CycleTypeOK
<1>5. missed' \subseteq Tags /\ plan' \in Seq(ReadGroups)
  BY ChunkType DEF ChunkMissed, CycleTypeOK
<1>6. CycleTypeOK'
  BY <1>2, <1>4, <1>5 DEF ChunkMissed, CycleTypeOK
<1>7. QED BY <1>1, <1>3, <1>6

\* Every variable stays in its domain, whatever the PLC and the clients do: the
\* service id stays an id, and an exchange has a connection and a purpose.
THEOREM TypeCorrect == Spec => []TypeOK
<1>1. Init => TypeOK
  <2>1. Init => QueueTypeOK /\ CycleTypeOK
    BY FinsAssumption DEF Init, QueueTypeOK, CycleTypeOK, Requests, Qualities
  <2>2. Init => WireTypeOK
    BY FinsAssumption DEF Init, WireTypeOK
  <2>3. Init => misled \in BOOLEAN
    BY DEF Init
  <2>4. QED BY <2>1, <2>2, <2>3 DEF TypeOK
<1>2. TypeOK /\ [Next]_vars => misled' \in BOOLEAN
  BY Zenon
     DEF TypeOK, Next, Driver, Plc, Submit, CycleBegin, Connect, Drain, Read, TakeRefused,
         TakeWrite, WriteIoError, WriteMismatch, WriteGarbled, WriteResponse, DrainDone,
         ReadRequest, ReadIoError, ReadMismatch, ReadGarbled, ReadRefused, ReadOk, CycleEnd,
         Accept, PlcAnswer, PlcDuplicate, PlcSilent, PlcRestart, LinkRestored, vars
<1>3. TypeOK /\ [Next]_vars => QueueTypeOK' /\ CycleTypeOK' /\ WireTypeOK'
  <2> SUFFICES ASSUME TypeOK, [Next]_vars PROVE QueueTypeOK' /\ CycleTypeOK' /\ WireTypeOK'
    OBVIOUS
  <2> USE FinsAssumption DEF queueVars, sidVars, wireVars
  <2>1. QueueTypeOK /\ CycleTypeOK /\ WireTypeOK
    BY DEF TypeOK
  <2>2. CASE Submit
    BY <2>1, <2>2 DEF Submit, QueueTypeOK, CycleTypeOK, WireTypeOK, Requests
  <2>3. CASE CycleBegin \/ CycleEnd
    <3>1. QueueTypeOK'
      BY <2>1, <2>3 DEF CycleBegin, CycleEnd, QueueTypeOK
    <3>2. CycleTypeOK' /\ WireTypeOK'
      BY <2>1, <2>3 DEF CycleBegin, CycleEnd, CycleTypeOK, WireTypeOK
    <3>3. QED BY <3>1, <3>2
  <2>4. CASE Connect
    BY <2>1, <2>4 DEF Connect, QueueTypeOK, CycleTypeOK, WireTypeOK
  <2>5. CASE TakeRefused
    <3>1. Head(queue) \in Requests /\ Tail(queue) \in Seq(Requests)
      BY <2>1, <2>5 DEF TakeRefused, CanDrain, QueueTypeOK
    <3>2. QueueTypeOK'
      BY <2>1, <2>5, <3>1 DEF TakeRefused, CanDrain, QueueTypeOK
    <3>3. QED BY <2>1, <2>5, <3>2 DEF TakeRefused, CycleTypeOK, WireTypeOK
  <2>6. CASE TakeWrite
    <3>1. Head(queue) \in Requests /\ Tail(queue) \in Seq(Requests)
      BY <2>1, <2>6 DEF TakeWrite, CanDrain, QueueTypeOK
    <3>2. QueueTypeOK'
      BY <2>1, <2>6, <3>1 DEF TakeWrite, CanDrain, QueueTypeOK, Requests
    <3>3. WireTypeOK'
      BY <2>1, <2>6, RequestType DEF TakeWrite
    <3>4. QED BY <2>1, <2>6, <3>2, <3>3 DEF TakeWrite, Request, CycleTypeOK
  <2>7. CASE WriteIoError \/ WriteMismatch \/ WriteGarbled
    BY <2>7, WriteOverType DEF WriteIoError, WriteMismatch, WriteGarbled, Qualities
  <2>8. CASE WriteResponse
    BY <2>8, WriteOverType DEF WriteResponse, Accept, Qualities
  <2>9. CASE DrainDone
    <3>1. Chunks \in Seq(ReadGroups)
      BY DEF ReadGroups
    <3>2. QED BY <2>1, <2>9, <3>1 DEF DrainDone, QueueTypeOK, CycleTypeOK, WireTypeOK
  <2>10. CASE ReadRequest
    <3>1. WireTypeOK'
      BY <2>1, <2>10, RequestType DEF ReadRequest
    <3>2. QED BY <2>1, <2>10, <3>1 DEF ReadRequest, Request, QueueTypeOK, CycleTypeOK
  <2>11. CASE ReadIoError \/ ReadMismatch \/ ReadGarbled \/ ReadRefused
    BY <2>11, ChunkMissedType
       DEF ReadIoError, ReadMismatch, ReadGarbled, ReadRefused, Accept, Qualities
  <2>12. ASSUME NEW short \in BOOLEAN, ReadOk(short)
         PROVE  QueueTypeOK' /\ CycleTypeOK' /\ WireTypeOK'
    <3>1. ReadResponse /\ UNCHANGED <<queueVars, cur, drained, sidVars, link>>
          /\ pc = "awaiting" /\ pc' = "reading" /\ plan' = Tail(plan)
      BY <2>12 DEF ReadOk, Accept
    <3>2. WireTypeOK'
      BY <2>1, <3>1, ResponseType
    <3>3. plan' \in Seq(ReadGroups) /\ ChunkTags[Head(plan)] \subseteq Tags
      BY <2>1, <3>1, ChunkType DEF CycleTypeOK
    <3>4. quality' \in [Tags -> Qualities] /\ missed' \subseteq Tags
      BY <2>1, <2>12, <3>3 DEF ReadOk, CycleTypeOK, Qualities
    <3>5. QED BY <2>1, <3>1, <3>2, <3>3, <3>4 DEF ReadResponse, QueueTypeOK, CycleTypeOK
  <2>13. CASE PlcAnswer
    <3>1. Head(owed) \in Responses /\ Tail(owed) \in Seq(Responses)
      BY <2>1, <2>13 DEF PlcAnswer, WireTypeOK
    <3>2. WireTypeOK'
      BY <2>1, <2>13, <3>1 DEF PlcAnswer, WireTypeOK
    <3>3. QED BY <2>1, <2>13, <3>2 DEF PlcAnswer, QueueTypeOK, CycleTypeOK
  <2>14. CASE PlcDuplicate
    <3>1. WireTypeOK'
      BY <2>1, <2>14 DEF PlcDuplicate, WireTypeOK
    <3>2. QED BY <2>1, <2>14, <3>1 DEF PlcDuplicate, QueueTypeOK, CycleTypeOK
  <2>15. CASE PlcSilent \/ PlcRestart \/ LinkRestored
    BY <2>1, <2>15 DEF PlcSilent, PlcRestart, LinkRestored, QueueTypeOK, CycleTypeOK, WireTypeOK
  <2>16. CASE UNCHANGED vars
    BY <2>1, <2>16 DEF vars, QueueTypeOK, CycleTypeOK, WireTypeOK
  <2>17. CASE Read
    <3>1. ReadOk(FALSE) \/ ReadOk(TRUE) => QueueTypeOK' /\ CycleTypeOK' /\ WireTypeOK'
      BY <2>12, Zenon
    <3>2. QED BY <2>3, <2>10, <2>11, <2>17, <3>1, Zenon DEF Read
  <2>18. QED
    BY <2>2, <2>3, <2>4, <2>5, <2>6, <2>7, <2>8, <2>9, <2>13, <2>14, <2>15, <2>16, <2>17
       DEF Next, Driver, Drain, Plc
<1>4. TypeOK /\ [Next]_vars => TypeOK'
  BY <1>2, <1>3 DEF TypeOK
<1>5. QED BY <1>1, <1>4, PTL DEF Spec
-----------------------------------------------------------------------------
(***************************************************************************)
(* The contract.  Requests are numbered in the order of submission, so the *)
(* unanswered ones are the last ones: the queue holds the highest numbers, *)
(* in order, and the request in hand is the one before them.               *)
(***************************************************************************)

\* The last request that was taken from the queue.
Taken == submitted - Len(queue)

QueueInOrder ==
    /\ Len(queue) <= submitted
    /\ \A i \in 1..Len(queue) : queue[i] = Taken + i

OneInHand ==
    /\ cur # 0 <=> pc \in {"connectWrite", "writing"}
    /\ cur # 0 => cur = Taken

UnansweredLeft == \A r \in Requests : r > Taken \/ r = cur => answer[r] = "none"

Promise == TypeOK /\ QueueInOrder /\ OneInHand /\ UnansweredLeft

\* Submitting a request behind the others.
LEMMA SubmitLast ==
    ASSUME Promise, submitted' = submitted + 1, queue' = Append(queue, submitted + 1)
    PROVE  QueueInOrder' /\ Taken' = Taken
<1>1. queue \in Seq(Requests) /\ Len(queue) \in Nat /\ submitted \in Nat
  BY FinsAssumption DEF Promise, TypeOK, QueueTypeOK
<1>2. /\ Len(queue') = Len(queue) + 1
      /\ \A i \in 1..Len(queue) : queue'[i] = queue[i]
      /\ queue'[Len(queue) + 1] = submitted + 1
  BY <1>1
<1>3. Taken' = Taken
  BY <1>1, <1>2 DEF Taken
<1>4. ASSUME NEW i \in 1..Len(queue') PROVE queue'[i] = Taken' + i
  <2>1. CASE i \in 1..Len(queue)
    BY <1>2, <1>3, <2>1 DEF Promise, QueueInOrder
  <2>2. CASE i = Len(queue) + 1
    BY <1>1, <1>2, <1>3, <2>2 DEF Taken
  <2>3. QED BY <1>1, <1>2, <2>1, <2>2
<1>5. QED BY <1>1, <1>2, <1>3, <1>4 DEF Promise, QueueInOrder

\* Taking the oldest request from the queue.
LEMMA TakeOldest ==
    ASSUME Promise, CanDrain, queue' = Tail(queue), submitted' = submitted
    PROVE  /\ cur = 0
           /\ Head(queue) \in Requests
           /\ Head(queue) = Taken + 1
           /\ Len(queue') = Len(queue) - 1
           /\ Taken' = Head(queue)
           /\ QueueInOrder'
<1> USE DEF Promise, TypeOK, QueueTypeOK, CycleTypeOK, CanDrain
<1>1. /\ queue \in Seq(Requests) /\ queue # << >>
      /\ submitted \in Nat
      /\ cur = 0
  BY FinsAssumption DEF OneInHand
<1>2. /\ Head(queue) \in Requests
      /\ Tail(queue) \in Seq(Requests)
      /\ Len(queue') = Len(queue) - 1
      /\ \A i \in 1..Len(queue') : queue'[i] = queue[i + 1]
  BY <1>1, HeadTailProperties
<1>3. Len(queue) \in Nat /\ Len(queue) > 0 /\ Head(queue) = queue[1]
  BY <1>1
<1>4. Head(queue) = Taken + 1
  BY <1>1, <1>3 DEF QueueInOrder
<1>5. Taken' = Taken + 1
  BY <1>1, <1>2, <1>3 DEF Taken
<1>6. QueueInOrder'
  BY <1>1, <1>2, <1>3, <1>5 DEF QueueInOrder, Taken
<1>7. QED BY <1>1, <1>2, <1>3, <1>4, <1>5, <1>6 DEF Taken

\* The unanswered requests are exactly those still to come, in order.
THEOREM PromiseTheorem == Spec => []Promise
<1> USE FinsAssumption DEF Requests
<1>1. Init /\ TypeOK => Promise
  BY DEF Init, Promise, QueueInOrder, OneInHand, UnansweredLeft, Taken
<1>2. Promise /\ TypeOK' /\ [Next]_vars => Promise'
  <2> SUFFICES ASSUME Promise, TypeOK', [Next]_vars
               PROVE  QueueInOrder' /\ OneInHand' /\ UnansweredLeft'
    BY DEF Promise
  <2> USE DEF queueVars, sidVars, wireVars
  <2> TypeOK /\ QueueInOrder /\ OneInHand /\ UnansweredLeft
    BY DEF Promise
  <2>1. CASE Submit
    <3>1. QueueInOrder' /\ Taken' = Taken
      BY <2>1, SubmitLast DEF Submit
    <3>2. QED BY <2>1, <3>1 DEF Submit, OneInHand, UnansweredLeft
  <2>2. CASE TakeRefused
    <3>1. /\ CanDrain /\ queue' = Tail(queue) /\ submitted' = submitted
          /\ answer' = [answer EXCEPT ![Head(queue)] = "err"]
          /\ UNCHANGED <<pc, cur>>
      BY <2>2 DEF TakeRefused
    <3>2. QueueInOrder' /\ Taken' = Taken + 1 /\ Head(queue) = Taken + 1 /\ cur = 0
      BY <3>1, TakeOldest
    <3>3. Taken \in Int
      BY DEF Taken, TypeOK, QueueTypeOK
    <3>4. UnansweredLeft'
      BY <3>1, <3>2, <3>3 DEF UnansweredLeft, TypeOK, QueueTypeOK
    <3>5. QED BY <3>1, <3>2, <3>4 DEF OneInHand
  <2>3. CASE TakeWrite
    <3>1. /\ CanDrain /\ queue' = Tail(queue) /\ submitted' = submitted
          /\ cur' = Head(queue) /\ answer' = answer /\ pc' \in {"connectWrite", "writing"}
      BY <2>3 DEF TakeWrite, Request
    <3>2. QueueInOrder' /\ Taken' = Head(queue) /\ Head(queue) = Taken + 1 /\ Head(queue) \in Requests
      BY <3>1, TakeOldest
    <3>3. Taken \in Int
      BY DEF Taken, TypeOK, QueueTypeOK
    <3>4. OneInHand'
      BY <3>1, <3>2 DEF OneInHand
    <3>5. UnansweredLeft'
      BY <3>1, <3>2, <3>3 DEF UnansweredLeft
    <3>6. QED BY <3>2, <3>4, <3>5
  <2>4. ASSUME NEW reply, NEW q, WriteOver(reply, q)
        PROVE  QueueInOrder' /\ OneInHand' /\ UnansweredLeft'
    <3>1. answer' = [answer EXCEPT ![cur] = reply]
      BY <2>4 DEF WriteOver
    <3>2. /\ UNCHANGED <<submitted, queue>>
          /\ cur' = 0 /\ pc' = "draining" /\ pc = "writing"
      BY <2>4 DEF WriteOver
    <3>3. QueueInOrder' /\ Taken' = Taken
      BY <3>2 DEF QueueInOrder, Taken
    <3>4. Taken \in Int /\ cur = Taken
      BY <3>2 DEF Taken, TypeOK, QueueTypeOK, OneInHand
    <3>5. UnansweredLeft'
      BY <3>1, <3>2, <3>3, <3>4 DEF UnansweredLeft, TypeOK, QueueTypeOK
    <3>6. QED BY <3>2, <3>3, <3>5 DEF OneInHand
  <2>5. ASSUME UNCHANGED <<submitted, queue, answer, cur>>,
               pc' \in {"connectWrite", "writing"} <=> pc \in {"connectWrite", "writing"}
        PROVE  QueueInOrder' /\ OneInHand' /\ UnansweredLeft'
    BY <2>5 DEF QueueInOrder, OneInHand, UnansweredLeft, Taken
  <2>6. CASE WriteIoError \/ WriteMismatch \/ WriteGarbled \/ WriteResponse
    BY <2>4, <2>6 DEF WriteIoError, WriteMismatch, WriteGarbled, WriteResponse
  <2>7. CASE CycleBegin \/ DrainDone \/ Connect
    BY <2>5, <2>7 DEF CycleBegin, DrainDone, Connect
  <2>8. CASE Read
    BY <2>5, <2>8 DEF Read, ReadRequest, Request, ReadIoError, ReadMismatch, ReadGarbled,
                      ReadRefused, ChunkMissed, ReadOk, CycleEnd
  <2>9. CASE Plc
    BY <2>5, <2>9 DEF Plc, PlcAnswer, PlcDuplicate, PlcSilent, PlcRestart, LinkRestored
  <2>10. CASE UNCHANGED vars
    BY <2>5, <2>10 DEF vars
  <2>11. QED
    BY <2>1, <2>2, <2>3, <2>6, <2>7, <2>8, <2>9, <2>10 DEF Next, Driver, Drain
<1>3. QED BY <1>1, <1>2, TypeCorrect, PTL DEF Spec

\* What the contract sees as pending.
Pending == InHand \o queue

LEMMA PendingIs ==
    ASSUME TypeOK
    PROVE  /\ cur = 0 => Pending = queue
           /\ cur # 0 => Pending # << >> /\ Head(Pending) = cur /\ Tail(Pending) = queue
BY FinsAssumption DEF TypeOK, QueueTypeOK, Pending, InHand, Requests

\* Every step of the driver, its clients and the PLC is a step of the contract or
\* leaves the pending requests and the answers alone.
LEMMA ContractStep ==
    ASSUME Promise, Promise', [Next]_vars
    PROVE  [Contract!Next]_(Contract!contractVars)
<1> USE DEF queueVars, sidVars, wireVars
<1>1. TypeOK /\ TypeOK' /\ QueueInOrder /\ OneInHand /\ UnansweredLeft
  BY DEF Promise
<1>2. Taken \in 0..submitted /\ queue \in Seq(Requests) /\ submitted \in 0..MaxRequests
  BY <1>1, FinsAssumption DEF TypeOK, QueueTypeOK, Taken, QueueInOrder
<1>3. CASE Submit
  <2> DEFINE r == submitted + 1
  <2>1. r \in Requests /\ answer[r] = "none"
    BY <1>1, <1>2, <1>3, FinsAssumption DEF Submit, Requests, UnansweredLeft, Taken
  <2>2. Pending' = Append(Pending, r)
    <3>1. cur' = cur /\ queue' = Append(queue, r)
      BY <1>3 DEF Submit
    <3>2. InHand' = InHand /\ InHand \in Seq(Nat) /\ queue \in Seq(Nat) /\ r \in Nat
      BY <1>1, <2>1, <3>1, FinsAssumption DEF InHand, TypeOK, QueueTypeOK, Requests
    <3>3. InHand \o Append(queue, r) = Append(InHand \o queue, r)
      BY <3>2
    <3> QED BY <3>1, <3>2, <3>3 DEF Pending
  <2>3. ASSUME NEW i \in 1..Len(Pending) PROVE Pending[i] # r
    <3>1. CASE cur = 0
      BY <1>1, <1>2, <2>3, <3>1, PendingIs, FinsAssumption DEF QueueInOrder, Taken
    <3>2. CASE cur # 0
      <4>1. Pending = <<cur>> \o queue
        BY <3>2 DEF Pending, InHand
      <4>2. i = 1 \/ (i - 1 \in 1..Len(queue) /\ Pending[i] = queue[i - 1])
        BY <1>2, <2>3, <4>1
      <4>3. Pending[1] = cur /\ cur = Taken
        BY <1>1, <1>2, <4>1, <3>2 DEF OneInHand
      <4>4. CASE i = 1
        BY <1>2, <4>3, <4>4
      <4>5. CASE i - 1 \in 1..Len(queue) /\ Pending[i] = queue[i - 1]
        BY <1>1, <1>2, <4>5 DEF QueueInOrder, Taken
      <4>6. QED BY <4>2, <4>4, <4>5
    <3>3. QED BY <3>1, <3>2
  <2>4. Contract!Submit(r)
    BY <1>3, <2>1, <2>2, <2>3 DEF Contract!Submit, Contract!Waiting, Pending, Submit
  <2>5. QED BY <2>1, <2>4 DEF Contract!Next
<1>4. CASE TakeRefused
  <2>1. /\ CanDrain /\ queue' = Tail(queue) /\ submitted' = submitted
        /\ answer' = [answer EXCEPT ![Head(queue)] = "err"]
        /\ cur' = cur
    BY <1>4 DEF TakeRefused
  <2>2. cur = 0 /\ Head(queue) \in Requests /\ Head(queue) = Taken + 1
    BY <2>1, TakeOldest
  <2>3. Pending = queue /\ Pending' = queue' /\ queue # << >>
    BY <1>1, <2>1, <2>2, PendingIs DEF CanDrain, Pending, InHand, TypeOK, QueueTypeOK
  <2>4. answer[Head(queue)] = "none"
    BY <1>1, <1>2, <2>2 DEF UnansweredLeft
  <2>5. Contract!Reply("err")
    BY <2>1, <2>3, <2>4 DEF Contract!Reply, Pending
  <2>6. QED BY <2>5 DEF Contract!Next
<1>5. CASE TakeWrite
  <2>1. /\ CanDrain /\ queue' = Tail(queue) /\ submitted' = submitted
        /\ answer' = answer
        /\ cur' = Head(queue)
    BY <1>5 DEF TakeWrite
  <2>2. cur = 0 /\ Head(queue) \in Requests /\ queue # << >>
    BY <2>1, TakeOldest DEF CanDrain
  <2>3. Pending = queue /\ Pending' = <<Head(queue)>> \o Tail(queue)
    BY <1>1, <1>2, <2>1, <2>2, PendingIs, FinsAssumption, SMTT(30) DEF Pending, InHand, Requests
  <2>4. Pending' = Pending
    BY <1>2, <2>2, <2>3
  <2>5. QED BY <2>1, <2>4 DEF Contract!contractVars, Pending
<1>6. ASSUME NEW reply \in {"ok", "err"}, NEW q, WriteOver(reply, q) PROVE Contract!Next
  <2>1. /\ UNCHANGED <<submitted, queue>>
        /\ cur' = 0 /\ pc = "writing"
    BY <1>6 DEF WriteOver
  <2>2. answer' = [answer EXCEPT ![cur] = reply]
    BY <1>6 DEF WriteOver
  <2>3. cur # 0 /\ cur \in Requests /\ answer[cur] = "none"
    BY <1>1, <2>1, FinsAssumption DEF OneInHand, UnansweredLeft, TypeOK, QueueTypeOK, Requests
  <2>4. Pending # << >> /\ Head(Pending) = cur /\ Pending' = Tail(Pending)
    <3>1. Pending' = queue
      BY <1>2, <2>1 DEF Pending, InHand
    <3>2. QED BY <1>1, <2>3, <3>1, PendingIs
  <2>5. Contract!Reply(reply)
    BY <2>2, <2>3, <2>4 DEF Contract!Reply, Pending
  <2>6. QED BY <2>5 DEF Contract!Next
<1>7. ASSUME UNCHANGED <<queue, answer, cur>> PROVE UNCHANGED Contract!contractVars
  BY <1>7 DEF Contract!contractVars, InHand
<1>8. CASE WriteIoError \/ WriteMismatch \/ WriteGarbled \/ WriteResponse
  BY <1>6, <1>8 DEF WriteIoError, WriteMismatch, WriteGarbled, WriteResponse
<1>9. CASE CycleBegin \/ DrainDone \/ Connect
  BY <1>7, <1>9 DEF CycleBegin, DrainDone, Connect
<1>10. CASE Read
  BY <1>7, <1>10 DEF Read, ReadRequest, Request, ReadIoError, ReadMismatch, ReadGarbled,
                     ReadRefused, ChunkMissed, ReadOk, CycleEnd
<1>11. CASE Plc
  BY <1>7, <1>11 DEF Plc, PlcAnswer, PlcDuplicate, PlcSilent, PlcRestart, LinkRestored
<1>12. CASE UNCHANGED vars
  BY <1>7, <1>12 DEF vars
<1>13. QED
  BY <1>3, <1>4, <1>5, <1>8, <1>9, <1>10, <1>11, <1>12 DEF Next, Driver, Drain

\* The FINS driver implements DriverContract too: a write that fails, is refused by
\* an end code, is answered with another SID or cannot be parsed is answered, once
\* and in its turn, although the cycle goes on to the next one.
THEOREM ContractTheorem == Spec => FulfilsContract
<1>1. Init => Contract!Init
  BY DEF Init, Contract!Init, InHand
<1>2. Promise /\ Promise' /\ [Next]_vars => [Contract!Next]_(Contract!contractVars)
  BY ContractStep
<1>3. QED BY <1>1, <1>2, PromiseTheorem, PTL DEF Spec, FulfilsContract, Contract!Spec
-----------------------------------------------------------------------------
(***************************************************************************)
(* The service ids.  The PLC answers in order, so an unread response to    *)
(* the request made d requests ago has the responses of the d requests     *)
(* since then behind it.  A request reads one response, hence there are no *)
(* more unread responses than duplicates, and one for the request in       *)
(* progress: d is at most the number of duplicates, and the ids of         *)
(* fewer than SidMod successive requests differ.                           *)
(***************************************************************************)

\* The service id of the request d requests before the one with id o.
Back(o, d) == IF d <= o THEN o - d ELSE o - d + SidMod

\* A response to the request with id o, or to one of the n requests before it.
Fits(response, o, n) ==
    IF response.own THEN response.sid = o ELSE \E d \in 1..n : response.sid = Back(o, d)

AllFit ==
    /\ \A i \in 1..Len(stream) : Fits(stream[i], own, Len(stream) - i + Len(owed))
    /\ \A i \in 1..Len(owed) : Fits(owed[i], own, Len(owed) - i)
    /\ \A i \in 1..Len(last) : Fits(last[i], own, Len(owed))
    /\ Len(last) <= 1

UnderWay == pc \in {"connectWrite", "writing", "connectRead", "awaiting"}

OneEach == Len(stream) + Len(owed) = strays + (IF UnderWay THEN 1 ELSE 0)

NextId(o) == IF o = SidMod - 1 THEN 0 ELSE o + 1

WireInOrder == AllFit /\ OneEach /\ sid = NextId(own) /\ misled = FALSE

\* With the next request, every response gets one request older.
LEMMA Older ==
    ASSUME NEW o \in 0..(SidMod - 1), NEW n \in Nat, n < SidMod,
           NEW e \in Responses, NEW f \in Responses, f.sid = e.sid, ~f.own,
           Fits(e, o, n)
    PROVE  Fits(f, NextId(o), n + 1)
<1> USE FinsAssumption
<1>1. CASE e.own
  <2>1. f.sid = Back(NextId(o), 1)
    BY <1>1 DEF Fits, Back, NextId
  <2>2. QED BY <2>1 DEF Fits
<1>2. CASE ~e.own
  <2>1. PICK d \in 1..n : e.sid = Back(o, d)
    BY <1>2 DEF Fits
  <2>2. d + 1 \in 1..(n + 1) /\ Back(NextId(o), d + 1) = Back(o, d)
    BY <2>1 DEF Back, NextId
  <2>3. QED BY <2>1, <2>2 DEF Fits
<1>3. QED BY <1>1, <1>2

\* The bound may be raised.
LEMMA FitsMore ==
    ASSUME NEW e, NEW o, NEW n \in Nat, NEW m \in Nat, n <= m, Fits(e, o, n)
    PROVE  Fits(e, o, m)
BY DEF Fits

\* The responses of fewer than SidMod requests are told apart by their ids.
LEMMA Distinct ==
    ASSUME NEW o \in 0..(SidMod - 1), NEW n \in Nat, n < SidMod,
           NEW e \in Responses, Fits(e, o, n), e.sid = o
    PROVE  e.own = TRUE
<1>1. \A d \in 1..n : Back(o, d) # o
  BY FinsAssumption DEF Back
<1>2. e.own
  BY <1>1 DEF Fits
<1>3. e.own \in BOOLEAN
  BY DEF Responses
<1>4. QED BY <1>2, <1>3

\* The numbers of unread responses that the lemmas below compute with.
LEMMA WireLengths ==
    ASSUME WireTypeOK
    PROVE  /\ Len(stream) \in Nat /\ Len(owed) \in Nat /\ Len(last) \in Nat /\ strays \in Nat
           /\ \A i \in 1..Len(stream) : stream[i] \in Responses
           /\ \A i \in 1..Len(owed) : owed[i] \in Responses
           /\ \A i \in 1..Len(last) : last[i] \in Responses
BY FinsAssumption DEF WireTypeOK

LEMMA RequestInOrder ==
    ASSUME WireTypeOK, MaxStray < SidMod, WireInOrder, ~UnderWay,
           NEW c \in {"connectWrite", "connectRead"}, NEW w \in {"writing", "awaiting"},
           Request(c, w), strays' = strays, misled' = misled
    PROVE  WireInOrder'
<1> USE FinsAssumption
<1>1. own \in 0..(SidMod - 1) /\ own' = NextId(own) /\ own' \in 0..(SidMod - 1)
  BY DEF Request, WireInOrder, WireTypeOK
<1>2. sid' = NextId(own')
  BY <1>1, SidWraps DEF Request, NextId
<1>3. Len(stream) + Len(owed) < SidMod
  BY WireLengths DEF WireInOrder, OneEach, WireTypeOK
<1>4. /\ Len(stream') = Len(stream) /\ Len(last') = Len(last)
      /\ Len(owed') = Len(owed) + 1
      /\ owed'[Len(owed) + 1] = Frame
      /\ \A i \in 1..Len(owed) : owed'[i] = Earlier(owed)[i]
  BY EarlierIs DEF Request, WireTypeOK
<1>5. ASSUME NEW i \in 1..Len(stream)
      PROVE  Fits(stream'[i], own', Len(stream) - i + Len(owed) + 1)
  <2>1. /\ stream[i] \in Responses /\ stream'[i] \in Responses
        /\ stream'[i].sid = stream[i].sid /\ ~stream'[i].own
    BY EarlierIs DEF Request, WireTypeOK
  <2>2. Len(stream) - i + Len(owed) \in Nat /\ Len(stream) - i + Len(owed) < SidMod
    BY <1>3, WireLengths
  <2>3. QED BY <1>1, <2>1, <2>2, Older DEF WireInOrder, AllFit
<1>6. ASSUME NEW i \in 1..Len(owed)
      PROVE  Fits(owed'[i], own', Len(owed) - i + 1)
  <2>1. /\ owed[i] \in Responses /\ owed'[i] \in Responses
        /\ owed'[i].sid = owed[i].sid /\ ~owed'[i].own
    BY <1>4, EarlierIs DEF WireTypeOK
  <2>2. Len(owed) - i \in Nat /\ Len(owed) - i < SidMod
    BY <1>3, WireLengths
  <2>3. QED BY <1>1, <2>1, <2>2, Older DEF WireInOrder, AllFit
<1>7. ASSUME NEW i \in 1..Len(last)
      PROVE  Fits(last'[i], own', Len(owed) + 1)
  <2>1. /\ last[i] \in Responses /\ last'[i] \in Responses
        /\ last'[i].sid = last[i].sid /\ ~last'[i].own
    BY EarlierIs, SMTT(30) DEF Request, WireTypeOK
  <2>2. Len(owed) \in Nat /\ Len(owed) < SidMod
    BY <1>3, WireLengths
  <2>3. QED BY <1>1, <2>1, <2>2, Older DEF WireInOrder, AllFit
<1>8. Fits(Frame, own', 0)
  BY DEF Fits, Frame, Request
<1>9. AllFit'
  <2>1. ASSUME NEW i \in 1..Len(stream')
        PROVE  Fits(stream'[i], own', Len(stream') - i + Len(owed'))
    <3>1. Len(stream') - i + Len(owed') = Len(stream) - i + Len(owed) + 1
      BY <1>4, WireLengths
    <3>2. QED BY <1>4, <1>5, <3>1
  <2>2. ASSUME NEW i \in 1..Len(owed') PROVE Fits(owed'[i], own', Len(owed') - i)
    <3>1. CASE i \in 1..Len(owed)
      <4>1. Len(owed') - i = Len(owed) - i + 1
        BY <1>4, <3>1, WireLengths
      <4>2. QED BY <1>6, <3>1, <4>1
    <3>2. CASE i = Len(owed) + 1
      BY <1>4, <1>8, <3>2, WireLengths
    <3>3. QED BY <1>4, <3>1, <3>2, WireLengths
  <2>3. \A i \in 1..Len(last') : Fits(last'[i], own', Len(owed'))
    BY <1>4, <1>7
  <2>4. QED BY <1>4, <2>1, <2>2, <2>3 DEF AllFit, WireInOrder
<1>10. OneEach'
  <2>1. UnderWay'
    BY DEF Request, UnderWay
  <2>2. QED BY <1>4, <2>1, WireLengths DEF WireInOrder, OneEach
<1>11. QED BY <1>2, <1>9, <1>10 DEF WireInOrder

LEMMA ResponseInOrder ==
    ASSUME WireTypeOK, MaxStray < SidMod, WireInOrder, UnderWay, ~UnderWay',
           UNCHANGED sidVars,
           \/ misled' = misled /\ (DropConnection \/ ReadResponse)
           \/ Accept
    PROVE  WireInOrder'
<1> USE FinsAssumption DEF sidVars
<1>1. CASE DropConnection /\ misled' = misled
  BY <1>1 DEF DropConnection, WireInOrder, AllFit, OneEach
<1>2. CASE ReadResponse
  <2>1. /\ Len(stream) > 0 /\ Len(stream') = Len(stream) - 1
        /\ \A i \in 1..Len(stream') : stream'[i] = stream[i + 1]
        /\ Head(stream) = stream[1] /\ Head(stream) \in Responses
        /\ owed' = owed /\ last' = last /\ strays' = strays
    BY <1>2 DEF ReadResponse, WireTypeOK
  <2>2. ASSUME NEW i \in 1..Len(stream')
        PROVE  Fits(stream'[i], own', Len(stream') - i + Len(owed'))
    <3>1. /\ i + 1 \in 1..Len(stream)
          /\ Len(stream') - i + Len(owed') = Len(stream) - (i + 1) + Len(owed)
      BY <2>1, WireLengths
    <3>2. QED BY <2>1, <3>1 DEF WireInOrder, AllFit
  <2>3. AllFit'
    BY <2>1, <2>2 DEF WireInOrder, AllFit
  <2>4. OneEach'
    <3>1. Len(stream) + Len(owed) = strays + 1
      BY DEF WireInOrder, OneEach
    <3>2. Len(stream') + Len(owed') = strays'
      <4>1. Len(stream) \in Nat /\ Len(owed) \in Nat /\ strays \in Nat
        BY WireLengths
      <4>2. Len(stream') = Len(stream) - 1 /\ Len(owed') = Len(owed) /\ strays' = strays
        BY <2>1
      <4> HIDE FinsAssumption
      <4> QED BY <3>1, <4>1, <4>2
    <3>3. QED BY <2>1, <3>2, WireLengths DEF OneEach
  <2>5. CASE Accept
    <3>1. Fits(Head(stream), own, Len(stream) - 1 + Len(owed))
      <4>1. 1 \in 1..Len(stream)
        BY <2>1, WireLengths
      <4>2. QED BY <2>1, <4>1 DEF WireInOrder, AllFit
    <3>2. Len(stream) - 1 + Len(owed) \in Nat /\ Len(stream) - 1 + Len(owed) < SidMod
      BY <2>1, WireLengths DEF WireInOrder, OneEach, WireTypeOK
    <3>3. Head(stream).own = TRUE
      BY <2>1, <2>5, <3>1, <3>2, Distinct DEF Accept, OwnSid, WireTypeOK
    <3>4. misled' = FALSE
      BY <2>5, <3>3 DEF Accept, WireInOrder
    <3>5. QED BY <2>3, <2>4, <3>4 DEF WireInOrder
  <2>6. CASE misled' = misled
    BY <2>3, <2>4, <2>6 DEF WireInOrder
  <2>7. QED BY <2>5, <2>6
<1>3. QED BY <1>1, <1>2 DEF Accept

LEMMA AnswerInOrder ==
    ASSUME WireTypeOK, WireInOrder, PlcAnswer
    PROVE  WireInOrder'
<1>1. /\ Len(owed) > 0 /\ Len(owed') = Len(owed) - 1
      /\ \A i \in 1..Len(owed') : owed'[i] = owed[i + 1]
      /\ Head(owed) = owed[1]
      /\ Len(stream') = Len(stream) + 1
      /\ \A i \in 1..Len(stream) : stream'[i] = stream[i]
      /\ stream'[Len(stream) + 1] = Head(owed)
      /\ Len(last') = 1 /\ last'[1] = Head(owed)
      /\ own' = own /\ sid' = sid /\ misled' = misled /\ strays' = strays /\ pc' = pc
  BY DEF PlcAnswer, WireTypeOK, sidVars
<1>2. Fits(Head(owed), own, Len(owed'))
  <2>1. 1 \in 1..Len(owed)
    BY <1>1, WireLengths
  <2>2. QED BY <1>1, <2>1 DEF WireInOrder, AllFit
<1>3. ASSUME NEW i \in 1..Len(stream')
      PROVE  Fits(stream'[i], own', Len(stream') - i + Len(owed'))
  <2>1. CASE i \in 1..Len(stream)
    <3>1. Len(stream') - i + Len(owed') = Len(stream) - i + Len(owed)
      BY <1>1, <2>1, WireLengths
    <3>2. QED BY <1>1, <2>1, <3>1 DEF WireInOrder, AllFit
  <2>2. CASE i = Len(stream) + 1
    <3>1. Len(stream') - i + Len(owed') = Len(owed')
      BY <1>1, <2>2, WireLengths
    <3>2. QED BY <1>1, <1>2, <2>2, <3>1
  <2>3. QED BY <1>1, <2>1, <2>2, WireLengths
<1>4. ASSUME NEW i \in 1..Len(owed') PROVE Fits(owed'[i], own', Len(owed') - i)
  <2>1. i + 1 \in 1..Len(owed) /\ Len(owed') - i = Len(owed) - (i + 1)
    BY <1>1, WireLengths
  <2>2. QED BY <1>1, <2>1 DEF WireInOrder, AllFit
<1>5. AllFit'
  BY <1>1, <1>2, <1>3, <1>4 DEF AllFit
<1>6. OneEach'
  BY <1>1, WireLengths DEF WireInOrder, OneEach, UnderWay
<1>7. QED BY <1>1, <1>5, <1>6 DEF WireInOrder

LEMMA DuplicateInOrder ==
    ASSUME WireTypeOK, WireInOrder, PlcDuplicate
    PROVE  WireInOrder'
<1>1. /\ Len(last) = 1
      /\ Len(stream') = Len(stream) + 1
      /\ \A i \in 1..Len(stream) : stream'[i] = stream[i]
      /\ stream'[Len(stream) + 1] = last[1]
      /\ own' = own /\ sid' = sid /\ misled' = misled /\ strays' = strays + 1 /\ pc' = pc
      /\ owed' = owed /\ last' = last
  <2>1. last \in Seq(Responses) /\ stream \in Seq(Responses) /\ last # << >> /\ Len(last) <= 1
    BY DEF PlcDuplicate, WireTypeOK, WireInOrder, AllFit
  <2>2. stream' = stream \o last
    BY DEF PlcDuplicate
  <2>3. Len(last) = 1
    <3>1. Len(last) \in Nat \ {0}
      BY <2>1, EmptySeq
    <3>2. Len(last) <= 1
      BY <2>1
    <3>3. \A n \in Nat \ {0} : n <= 1 => n = 1
      OBVIOUS
    <3>4. QED BY <3>1, <3>2, <3>3, Zenon
  <2>4. /\ Len(stream \o last) = Len(stream) + Len(last)
        /\ \A i \in 1..(Len(stream) + Len(last)) :
             (stream \o last)[i] = IF i <= Len(stream) THEN stream[i] ELSE last[i - Len(stream)]
    BY <2>1, ConcatProperties
  <2>5. /\ Len(stream') = Len(stream) + 1
        /\ \A i \in 1..Len(stream) : stream'[i] = stream[i]
        /\ stream'[Len(stream) + 1] = last[1]
    BY <2>2, <2>3, <2>4, WireLengths
  <2>6. QED BY <2>2, <2>3, <2>5 DEF PlcDuplicate, sidVars
<1>2. Fits(last[1], own, Len(owed))
  BY <1>1 DEF WireInOrder, AllFit
<1>3. ASSUME NEW i \in 1..Len(stream')
      PROVE  Fits(stream'[i], own', Len(stream') - i + Len(owed'))
  <2>1. CASE i \in 1..Len(stream)
    <3>1. /\ Len(stream) - i + Len(owed) \in Nat
          /\ Len(stream') - i + Len(owed') = Len(stream) - i + Len(owed) + 1
      BY <1>1, <2>1, WireLengths
    <3>2. Fits(stream[i], own, Len(stream) - i + Len(owed))
      BY <2>1 DEF WireInOrder, AllFit
    <3>3. Fits(stream[i], own, Len(stream) - i + Len(owed) + 1)
      BY <3>1, <3>2, FitsMore
    <3>4. QED BY <1>1, <2>1, <3>1, <3>3
  <2>2. CASE i = Len(stream) + 1
    <3>1. Len(stream') - i + Len(owed') = Len(owed)
      BY <1>1, <2>2, WireLengths
    <3>2. QED BY <1>1, <1>2, <2>2, <3>1
  <2>3. QED BY <1>1, <2>1, <2>2, WireLengths
<1>4. AllFit'
  BY <1>1, <1>3 DEF WireInOrder, AllFit
<1>5. OneEach'
  BY <1>1, WireLengths DEF WireInOrder, OneEach, UnderWay
<1>6. QED BY <1>1, <1>4, <1>5 DEF WireInOrder

\* The driver never takes the response to one request for the response to another,
\* for any number of service ids larger than the number of duplicated responses,
\* across any number of wrap-arounds of the counter.
THEOREM OwnAnswers == Spec => []OwnAnswerOnly
<1> DEFINE Inv == MaxStray < SidMod => WireInOrder
<1>1. Inv => OwnAnswerOnly
  BY DEF WireInOrder, OwnAnswerOnly
<1>2. Init => Inv
  BY SidWraps, FinsAssumption DEF Init, WireInOrder, AllFit, OneEach, UnderWay, NextId
<1>3. TypeOK /\ Inv /\ [Next]_vars => Inv'
  <2> SUFFICES ASSUME MaxStray < SidMod, TypeOK, WireInOrder, [Next]_vars PROVE WireInOrder'
    OBVIOUS
  <2> USE DEF queueVars, sidVars, wireVars
  <2>1. WireTypeOK /\ pc \in {"idle", "connect", "draining", "connectWrite", "writing", "reading",
                             "connectRead", "awaiting"}
    BY DEF TypeOK, CycleTypeOK
  <2>2. ASSUME UNCHANGED <<sidVars, wireVars, misled>>, UnderWay' <=> UnderWay PROVE WireInOrder'
    BY <2>2 DEF WireInOrder, AllFit, OneEach
  <2>3. CASE TakeWrite
    BY <2>1, <2>3, RequestInOrder DEF TakeWrite, CanDrain, UnderWay
  <2>4. CASE ReadRequest
    BY <2>1, <2>4, RequestInOrder DEF ReadRequest, UnderWay
  <2>5. CASE WriteIoError \/ WriteMismatch \/ WriteGarbled \/ WriteResponse
    <3>1. UnderWay /\ ~UnderWay' /\ UNCHANGED sidVars
      BY <2>5 DEF WriteIoError, WriteMismatch, WriteGarbled, WriteResponse, WriteOver, UnderWay
    <3>2. Accept \/ (misled' = misled /\ (DropConnection \/ ReadResponse))
      BY <2>5 DEF WriteIoError, WriteMismatch, WriteGarbled, WriteResponse
    <3>3. QED BY <2>1, <3>1, <3>2, ResponseInOrder
  <2>6. CASE ReadIoError \/ ReadMismatch \/ ReadGarbled \/ ReadRefused \/ ReadOk(FALSE) \/ ReadOk(TRUE)
    <3>1. UnderWay /\ ~UnderWay' /\ UNCHANGED sidVars
      BY <2>6 DEF ReadIoError, ReadMismatch, ReadGarbled, ReadRefused, ReadOk, ChunkMissed, UnderWay
    <3>2. Accept \/ (misled' = misled /\ (DropConnection \/ ReadResponse))
      BY <2>6 DEF ReadIoError, ReadMismatch, ReadGarbled, ReadRefused, ReadOk
    <3>3. QED BY <2>1, <3>1, <3>2, ResponseInOrder
  <2>7. CASE PlcAnswer \/ PlcDuplicate
    BY <2>1, <2>7, AnswerInOrder, DuplicateInOrder
  <2>8. CASE Submit \/ CycleBegin \/ Connect \/ TakeRefused \/ DrainDone \/ CycleEnd
    BY <2>2, <2>8 DEF Submit, CycleBegin, Connect, TakeRefused, DrainDone, CycleEnd, UnderWay
  <2>9. CASE PlcSilent \/ PlcRestart \/ LinkRestored \/ UNCHANGED vars
    BY <2>2, <2>9 DEF PlcSilent, PlcRestart, LinkRestored, vars, UnderWay
  <2>10. QED
    BY <2>3, <2>4, <2>5, <2>6, <2>7, <2>8, <2>9 DEF Next, Driver, Drain, Read, Plc
<1>4. QED BY <1>1, <1>2, <1>3, TypeCorrect, PTL DEF Spec
-----------------------------------------------------------------------------
(***************************************************************************)
(* What a cycle shows.  A chunk is read once, so the chunk a tag was       *)
(* missed with is not read again before the cycle ends.                    *)
(***************************************************************************)

PlanOnce == \A i, j \in 1..Len(plan) : plan[i] = plan[j] => i = j

\* The chunk that was missed is behind the reader.
MissedBehind ==
    \A t \in missed :
        \E c \in ReadGroups : t \in ChunkTags[c] /\ \A i \in 1..Len(plan) : plan[i] # c

\* Nothing is missed before the reads, which a write that makes a tag Good precedes.
NothingMissedYet == pc \in {"connect", "draining", "connectWrite", "writing"} => missed = {}

JudgedNotGood == \A t \in missed \ Split : quality[t] # "good"

Judged == PlanOnce /\ MissedBehind /\ NothingMissedYet /\ JudgedNotGood

\* A tag of two chunks is split.
LEMMA SplitIs ==
    ASSUME NEW c \in ReadGroups, NEW d \in ReadGroups, c # d,
           NEW t \in ChunkTags[c] \intersect ChunkTags[d]
    PROVE  t \in Split
BY FinsAssumption DEF ReadGroups, Split

\* Going on to the next chunk, or giving up.
LEMMA NextChunk ==
    ASSUME CycleTypeOK, PlanOnce, plan # << >>, plan' = Tail(plan) \/ plan' = << >>
    PROVE  /\ PlanOnce'
           /\ \E i \in 1..Len(plan) : plan[i] = Head(plan)
           /\ \A i \in 1..Len(plan') :
                plan'[i] # Head(plan) /\ \E j \in 1..Len(plan) : plan'[i] = plan[j]
<1>1. plan \in Seq(ReadGroups)
  BY DEF CycleTypeOK
<1>2. Head(plan) = plan[1] /\ Len(plan) \in Nat /\ Len(plan) >= 1
  BY <1>1
<1>3. CASE plan' = Tail(plan)
  <2>1. Len(plan') = Len(plan) - 1 /\ \A i \in 1..Len(plan') : plan'[i] = plan[i + 1]
    BY <1>1, <1>3
  <2>2. \A i \in 1..Len(plan') : i + 1 \in 1..Len(plan) /\ i + 1 # 1
    BY <1>2, <2>1
  <2>3. PlanOnce'
    BY <2>1, <2>2 DEF PlanOnce
  <2>4. \A i \in 1..Len(plan') : plan'[i] # Head(plan)
    BY <1>2, <2>1, <2>2 DEF PlanOnce
  <2>5. QED BY <1>2, <2>1, <2>2, <2>3, <2>4
<1>4. CASE plan' = << >>
  BY <1>2, <1>4 DEF PlanOnce
<1>5. QED BY <1>3, <1>4

\* A chunk was read, with the tags in `bad' brought no data; those of its other
\* tags that were not missed before may have become Good.
LEMMA ChunkJudged ==
    ASSUME CycleTypeOK, Judged, plan # << >>, plan' = Tail(plan) \/ plan' = << >>,
           pc' \in {"reading", "idle"},
           NEW bad \in SUBSET ChunkTags[Head(plan)], missed' = missed \union bad,
           \A t \in bad : quality'[t] # "good",
           \A t \in Tags \ ChunkTags[Head(plan)] : quality'[t] = quality[t] \/ quality'[t] # "good"
    PROVE  Judged'
<1> DEFINE h == Head(plan)
<1>1. h \in ReadGroups /\ ChunkTags[h] \subseteq Tags
  BY ChunkType
<1>2. /\ PlanOnce'
      /\ \E i \in 1..Len(plan) : plan[i] = h
      /\ \A i \in 1..Len(plan') : plan'[i] # h /\ \E j \in 1..Len(plan) : plan'[i] = plan[j]
  BY NextChunk DEF Judged
<1>3. MissedBehind'
  <2>1. ASSUME NEW t \in missed'
        PROVE  \E c \in ReadGroups : t \in ChunkTags[c] /\ \A i \in 1..Len(plan') : plan'[i] # c
    <3>1. CASE t \in bad
      BY <1>1, <1>2, <3>1
    <3>2. CASE t \in missed
      BY <1>2, <3>2 DEF Judged, MissedBehind
    <3>3. QED BY <3>1, <3>2
  <2>2. QED BY <2>1 DEF MissedBehind
<1>4. \A t \in missed \ Split : t \notin ChunkTags[h]
  BY <1>1, <1>2, SplitIs DEF Judged, MissedBehind
<1>5. JudgedNotGood'
  <2>1. ASSUME NEW t \in missed' \ Split PROVE quality'[t] # "good"
    <3>1. CASE t \in bad
      BY <3>1
    <3>2. CASE t \in missed
      BY <1>4, <2>1, <3>2 DEF Judged, JudgedNotGood, CycleTypeOK
    <3>3. QED BY <3>1, <3>2
  <2>2. QED BY <2>1 DEF JudgedNotGood, Split
<1>6. QED BY <1>2, <1>3, <1>5 DEF Judged, NothingMissedYet

\* A step that leaves the reads of the cycle alone.
LEMMA NotRead ==
    ASSUME Judged, plan' = plan, missed' = missed, quality' = quality \/ missed = {},
           pc' \in {"connect", "draining", "connectWrite", "writing"} => missed' = {}
    PROVE  Judged'
BY DEF Judged, PlanOnce, MissedBehind, NothingMissedYet, JudgedNotGood, Split

\* A tag whose words were asked for and did not come is not left Good when the
\* cycle ends: not after a lost connection, a foreign, unreadable or short response,
\* an end code or a value that does not decode, in whatever order the chunks of its
\* group met them.
THEOREM MissedNotGood == Spec => []MissedIsNotGood
<1>1. Init => Judged
  BY DEF Init, Judged, PlanOnce, MissedBehind, NothingMissedYet, JudgedNotGood
<1>2. TypeOK /\ Judged /\ [Next]_vars => Judged'
  <2> SUFFICES ASSUME TypeOK, Judged, [Next]_vars PROVE Judged'
    OBVIOUS
  <2> USE DEF queueVars, sidVars, wireVars
  <2>1. CycleTypeOK
    BY DEF TypeOK
  <2>2. CASE CycleBegin
    BY <2>2 DEF CycleBegin, Judged, PlanOnce, MissedBehind, NothingMissedYet, JudgedNotGood
  <2>3. CASE TakeRefused \/ TakeWrite
    BY <2>3, NotRead DEF TakeRefused, TakeWrite, Request, CanDrain, Judged, NothingMissedYet
  <2>4. ASSUME NEW reply, NEW q, WriteOver(reply, q) PROVE Judged'
    BY <2>4, NotRead DEF WriteOver, Judged, NothingMissedYet
  <2>5. CASE WriteIoError \/ WriteMismatch \/ WriteGarbled \/ WriteResponse
    BY <2>4, <2>5 DEF WriteIoError, WriteMismatch, WriteGarbled, WriteResponse
  <2>6. CASE DrainDone
    BY <2>6, FinsAssumption
       DEF DrainDone, Judged, PlanOnce, MissedBehind, NothingMissedYet, JudgedNotGood
  <2>7. CASE Connect
    BY <2>7, NotRead DEF Connect, Judged, NothingMissedYet
  <2>8. CASE ReadRequest
    BY <2>8, NotRead DEF ReadRequest, Request, Judged, NothingMissedYet
  <2>9. ASSUME NEW q \in Qualities \ {"good"}, NEW goOn \in BOOLEAN, ChunkMissed(q, goOn)
        PROVE  Judged'
    <3>1. plan # << >> /\ ChunkTags[Head(plan)] \subseteq GroupTags[Head(plan)]
          /\ GroupTags[Head(plan)] \subseteq Tags
      BY <2>1, <2>9, ChunkType DEF ChunkMissed, CycleTypeOK
    <3>2. \A t \in Tags : quality'[t] = IF t \in GroupTags[Head(plan)] THEN q ELSE quality[t]
      BY <2>9 DEF ChunkMissed, Mark
    <3>3. plan' = Tail(plan) \/ plan' = << >>
      BY <2>9 DEF ChunkMissed
    <3>4. pc' \in {"reading", "idle"} /\ missed' = missed \union ChunkTags[Head(plan)]
      BY <2>9 DEF ChunkMissed
    <3>5. QED BY <2>1, <3>1, <3>2, <3>3, <3>4, ChunkJudged
  <2>10. CASE ReadIoError \/ ReadMismatch \/ ReadGarbled \/ ReadRefused
    BY <2>9, <2>10 DEF ReadIoError, ReadMismatch, ReadGarbled, ReadRefused, Qualities
  <2>11. ASSUME NEW short \in BOOLEAN, ReadOk(short) PROVE Judged'
    <3> DEFINE bad == IF short THEN ChunkTags[Head(plan)]
                      ELSE ChunkTags[Head(plan)] \intersect Undecodable
    <3>1. plan # << >> /\ ChunkTags[Head(plan)] \subseteq Tags
      BY <2>1, <2>11, ChunkType DEF ReadOk, CycleTypeOK
    <3>2. /\ bad \in SUBSET ChunkTags[Head(plan)]
          /\ quality' = [t \in Tags |-> IF t \in bad THEN "error"
                                        ELSE IF t \in ChunkTags[Head(plan)] THEN "good"
                                        ELSE quality[t]]
          /\ missed' = missed \union bad
          /\ plan' = Tail(plan) /\ pc' = "reading"
      BY <2>11 DEF ReadOk
    <3> HIDE DEF bad
    <3>3. \A t \in bad : quality'[t] # "good"
      BY <3>1, <3>2
    <3>4. \A t \in Tags \ ChunkTags[Head(plan)] : quality'[t] = quality[t]
      BY <3>1, <3>2
    <3>5. QED BY <2>1, <3>1, <3>2, <3>3, <3>4, ChunkJudged
  <2>12. ReadOk(FALSE) \/ ReadOk(TRUE) => Judged'
    BY <2>11, Zenon
  <2>13. CASE CycleEnd \/ Submit \/ UNCHANGED vars
    BY <2>13, NotRead DEF CycleEnd, Submit, vars, Judged, NothingMissedYet
  <2>14. CASE Plc
    BY <2>14, NotRead DEF Plc, PlcAnswer, PlcDuplicate, PlcSilent, PlcRestart, LinkRestored,
                          Judged, NothingMissedYet
  <2>15. CASE Read
    BY <2>8, <2>10, <2>12, <2>13, <2>15, Zenon DEF Read
  <2>16. QED
    BY <2>2, <2>3, <2>5, <2>6, <2>7, <2>13, <2>14, <2>15 DEF Next, Driver, Drain
<1>3. Judged => MissedIsNotGood
  BY DEF Judged, JudgedNotGood, MissedIsNotGood
<1>4. QED BY <1>1, <1>2, <1>3, TypeCorrect, PTL DEF Spec
=============================================================================
