------------------------- MODULE ModbusCycleProofs -------------------------
(***************************************************************************)
(* Proofs about ModbusCycle, for any mappings, read plans and number of    *)
(* write requests.                                                         *)
(***************************************************************************)
EXTENDS ModbusCycle, SequenceTheorems, TLAPS

\* Marking tags keeps the qualities in their domain.
LEMMA MarkType ==
    ASSUME quality \in [Tags -> Qualities], NEW q \in Qualities, NEW tags, Mark(tags, q)
    PROVE  quality' \in [Tags -> Qualities]
BY DEF Mark

\* try_send never overfills the health channel.
LEMMA HealthBound ==
    ASSUME health \in 0..HealthCap, SendHealth
    PROVE  health' \in 0..HealthCap
BY CycleAssumption DEF SendHealth

\* Every variable stays in its domain, whatever the PLC and the clients do: no
\* more than the cycle's share of writes is drained, and each exchange is made on
\* a connection.
THEOREM TypeCorrect == Spec => []TypeOK
<1> USE CycleAssumption DEF Requests, Qualities, Connections
<1>1. Init => TypeOK
  BY DEF Init, TypeOK, QueueTypeOK, CycleTypeOK
<1>2. TypeOK /\ [Next]_vars => TypeOK'
  <2> SUFFICES ASSUME TypeOK, [Next]_vars PROVE TypeOK'
    OBVIOUS
  <2> USE DEF TypeOK, QueueTypeOK, CycleTypeOK, queueVars, connVars, readVars
  <2>1. CASE Submit
    BY <2>1 DEF Submit
  <2>2. CASE CycleBegin
    BY <2>2 DEF CycleBegin
  <2>3. CASE TakeRefused
    <3>1. Head(queue) \in Requests /\ Tail(queue) \in Seq(Requests)
      BY <2>3 DEF TakeRefused, CanDrain
    <3>2. QED BY <2>3, <3>1 DEF TakeRefused, CanDrain
  <2>4. CASE TakeUnsupported
    <3>1. Head(queue) \in Requests /\ Tail(queue) \in Seq(Requests)
      BY <2>4 DEF TakeUnsupported, CanDrain
    <3>2. quality' \in [Tags -> Qualities]
      BY <2>4, MarkType DEF TakeUnsupported
    <3>3. QED BY <2>4, <3>1, <3>2 DEF TakeUnsupported, CanDrain
  <2>5. CASE TakeWrite
    <3>1. Head(queue) \in Requests /\ Tail(queue) \in Seq(Requests)
      BY <2>5 DEF TakeWrite, CanDrain
    <3>2. QED BY <2>5, <3>1 DEF TakeWrite, CanDrain
  <2>6. CASE WriteAnswered
    <3>1. PICK o \in Outcomes(ctx) \intersect {"ok", "illegal"} :
             /\ Mark({reqTag[cur]}, IF o = "ok" THEN "good" ELSE "configerror")
             /\ answer' = [answer EXCEPT ![cur] = IF o = "ok" THEN "ok" ELSE "err"]
      BY <2>6 DEF WriteAnswered
    <3>2. quality' \in [Tags -> Qualities]
      BY <3>1, MarkType
    <3>3. answer' \in [Requests -> {"none", "ok", "err"}]
      BY <3>1
    <3>4. QED BY <2>6, <3>2, <3>3 DEF WriteAnswered
  <2>7. CASE WriteLost
    <3>1. quality' \in [Tags -> Qualities]
      BY <2>7, MarkType DEF WriteLost
    <3>2. health' \in 0..HealthCap
      <4>1. SendHealth \/ health' = health
        BY <2>7, Zenon DEF WriteLost
      <4>2. QED BY <4>1, HealthBound
    <3>3. /\ answer' = [answer EXCEPT ![cur] = "err"]
          /\ cur' = 0
          /\ Fail
          /\ UNCHANGED <<submitted, reqTag, queue, drained, readVars, link>>
      BY <2>7 DEF WriteLost
    <3>4. QueueTypeOK'
      <4>1. answer' \in [Requests -> {"none", "ok", "err"}]
        BY <3>3
      <4>2. QED BY <3>2, <3>3, <4>1
    <3>5. CycleTypeOK' /\ pc' = "idle"
      BY <3>1, <3>3 DEF Fail
    <3>6. QED BY <3>4, <3>5
  <2>8. CASE DrainDone
    BY <2>8 DEF DrainDone
  <2>9. CASE Connect
    BY <2>9 DEF Connect
  <2>10. CASE ReadOk
    BY <2>10 DEF ReadOk
  <2>11. CASE ReadIllegal
    <3>1. quality' \in [Tags -> Qualities]
      BY <2>11, MarkType DEF ReadIllegal
    <3>2. QED BY <2>11, <3>1 DEF ReadIllegal
  <2>12. CASE ReadTimeout
    <3>1. quality' \in [Tags -> Qualities]
      BY <2>12, MarkType DEF ReadTimeout
    <3>2. health' \in 0..HealthCap
      BY <2>12, HealthBound DEF ReadTimeout
    <3>3. QED BY <2>12, <3>1, <3>2 DEF ReadTimeout, Fail
  <2>13. CASE ReadErrorIgnored
    BY <2>13 DEF ReadErrorIgnored
  <2>14. CASE CycleEnd
    BY <2>14 DEF CycleEnd
  <2>15. CASE Environment
    BY <2>15 DEF Environment, NetworkLoss, PlcRestart, LinkRestored, HealthDrain
  <2>16. CASE UNCHANGED vars
    BY <2>16 DEF vars
  <2>17. QED
    BY <2>1, <2>2, <2>3, <2>4, <2>5, <2>6, <2>7, <2>8, <2>9, <2>10, <2>11, <2>12, <2>13,
       <2>14, <2>15, <2>16 DEF Next, Driver, Drain, Read
<1>3. QED BY <1>1, <1>2, PTL DEF Spec
-----------------------------------------------------------------------------
(***************************************************************************)
(* The contract.  Requests are numbered in the order of submission, so the *)
(* unanswered ones are the last ones: the queue holds the highest numbers, *)
(* in order, and the request in hand is the one before them.               *)
(***************************************************************************)

\* The last request that was taken from the queue.
Taken == submitted - Len(queue)

QueueInOrder ==
    /\ Len(queue) <= submitted
    /\ \A i \in 1..Len(queue) : queue[i] = Taken + i

OneInHand ==
    /\ cur # 0 <=> pc \in {"connectWrite", "writing"}
    /\ cur # 0 => cur = Taken

UnansweredLeft == \A r \in Requests : r > Taken \/ r = cur => answer[r] = "none"

Promise == TypeOK /\ QueueInOrder /\ OneInHand /\ UnansweredLeft

\* Submitting a request behind the others.
LEMMA SubmitLast ==
    ASSUME Promise, submitted' = submitted + 1, queue' = Append(queue, submitted + 1)
    PROVE  QueueInOrder' /\ Taken' = Taken
<1>1. queue \in Seq(Requests) /\ Len(queue) \in Nat /\ submitted \in Nat
  BY CycleAssumption DEF Promise, TypeOK, QueueTypeOK
<1>2. /\ Len(queue') = Len(queue) + 1
      /\ \A i \in 1..Len(queue) : queue'[i] = queue[i]
      /\ queue'[Len(queue) + 1] = submitted + 1
  BY <1>1
<1>3. Taken' = Taken
  BY <1>1, <1>2 DEF Taken
<1>4. ASSUME NEW i \in 1..Len(queue') PROVE queue'[i] = Taken' + i
  <2>1. CASE i \in 1..Len(queue)
    BY <1>2, <1>3, <2>1 DEF Promise, QueueInOrder
  <2>2. CASE i = Len(queue) + 1
    BY <1>1, <1>2, <1>3, <2>2 DEF Taken
  <2>3. QED BY <1>1, <1>2, <2>1, <2>2
<1>5. QED BY <1>1, <1>2, <1>3, <1>4 DEF Promise, QueueInOrder

\* Taking the oldest request from the queue.
LEMMA TakeOldest ==
    ASSUME Promise, CanDrain, queue' = Tail(queue), submitted' = submitted
    PROVE  /\ cur = 0
           /\ Head(queue) \in Requests
           /\ Head(queue) = Taken + 1
           /\ Len(queue') = Len(queue) - 1
           /\ Taken' = Head(queue)
           /\ QueueInOrder'
<1> USE DEF Promise, TypeOK, QueueTypeOK, CycleTypeOK, CanDrain
<1>1. /\ queue \in Seq(Requests) /\ queue # << >>
      /\ submitted \in Nat
      /\ cur = 0
  BY CycleAssumption DEF OneInHand
<1>2. /\ Head(queue) \in Requests
      /\ Tail(queue) \in Seq(Requests)
      /\ Len(queue') = Len(queue) - 1
      /\ \A i \in 1..Len(queue') : queue'[i] = queue[i + 1]
  BY <1>1, HeadTailProperties
<1>3. Len(queue) \in Nat /\ Len(queue) > 0 /\ Head(queue) = queue[1]
  BY <1>1
<1>4. Head(queue) = Taken + 1
  BY <1>1, <1>3 DEF QueueInOrder
<1>5. Taken' = Taken + 1
  BY <1>1, <1>2, <1>3 DEF Taken
<1>6. QueueInOrder'
  BY <1>1, <1>2, <1>3, <1>5 DEF QueueInOrder, Taken
<1>7. QED BY <1>1, <1>2, <1>3, <1>4, <1>5, <1>6 DEF Taken

\* The unanswered requests are exactly those still to come, in order.
THEOREM PromiseTheorem == Spec => []Promise
<1> USE CycleAssumption DEF Requests
<1>1. Init /\ TypeOK => Promise
  BY DEF Init, Promise, QueueInOrder, OneInHand, UnansweredLeft, Taken
<1>2. Promise /\ TypeOK' /\ [Next]_vars => Promise'
  <2> SUFFICES ASSUME Promise, TypeOK', [Next]_vars
               PROVE  QueueInOrder' /\ OneInHand' /\ UnansweredLeft'
    BY DEF Promise
  <2> USE DEF queueVars, connVars, readVars
  <2> TypeOK /\ QueueInOrder /\ OneInHand /\ UnansweredLeft
    BY DEF Promise
  <2>1. CASE Submit
    <3>1. QueueInOrder' /\ Taken' = Taken
      BY <2>1, SubmitLast DEF Submit
    <3>2. QED BY <2>1, <3>1 DEF Submit, OneInHand, UnansweredLeft
  <2>2. CASE TakeRefused \/ TakeUnsupported
    <3>1. /\ CanDrain /\ queue' = Tail(queue) /\ submitted' = submitted
          /\ answer' = [answer EXCEPT ![Head(queue)] = "err"]
          /\ UNCHANGED <<pc, cur>>
      BY <2>2 DEF TakeRefused, TakeUnsupported
    <3>2. QueueInOrder' /\ Taken' = Taken + 1 /\ Head(queue) = Taken + 1 /\ cur = 0
      BY <3>1, TakeOldest
    <3>3. Taken \in Int
      BY DEF Taken, TypeOK, QueueTypeOK
    <3>4. UnansweredLeft'
      BY <3>1, <3>2, <3>3 DEF UnansweredLeft, TypeOK, QueueTypeOK
    <3>5. QED BY <3>1, <3>2, <3>4 DEF OneInHand
  <2>3. CASE TakeWrite
    <3>1. /\ CanDrain /\ queue' = Tail(queue) /\ submitted' = submitted
          /\ cur' = Head(queue) /\ answer' = answer /\ pc' \in {"connectWrite", "writing"}
      BY <2>3 DEF TakeWrite
    <3>2. QueueInOrder' /\ Taken' = Head(queue) /\ Head(queue) = Taken + 1 /\ Head(queue) \in Requests
      BY <3>1, TakeOldest
    <3>3. Taken \in Int
      BY DEF Taken, TypeOK, QueueTypeOK
    <3>4. QED BY <3>1, <3>2, <3>3 DEF OneInHand, UnansweredLeft
  <2>4. CASE WriteAnswered \/ WriteLost
    <3>1. \E reply : answer' = [answer EXCEPT ![cur] = reply]
      BY <2>4 DEF WriteAnswered, WriteLost
    <3>2. /\ UNCHANGED <<submitted, queue>>
          /\ cur' = 0 /\ pc' \in {"draining", "idle"} /\ pc = "writing"
      BY <2>4 DEF WriteAnswered, WriteLost, Fail
    <3>3. QueueInOrder' /\ Taken' = Taken
      BY <3>2 DEF QueueInOrder, Taken
    <3>4. Taken \in Int /\ cur = Taken
      BY <3>2 DEF Taken, TypeOK, QueueTypeOK, OneInHand
    <3>5. UnansweredLeft'
      BY <3>1, <3>2, <3>3, <3>4 DEF UnansweredLeft, TypeOK, QueueTypeOK
    <3>6. QED BY <3>2, <3>3, <3>5 DEF OneInHand
  <2>5. ASSUME UNCHANGED <<submitted, queue, answer, cur>>,
               pc' \in {"connectWrite", "writing"} <=> pc \in {"connectWrite", "writing"}
        PROVE  QueueInOrder' /\ OneInHand' /\ UnansweredLeft'
    BY <2>5 DEF QueueInOrder, OneInHand, UnansweredLeft, Taken
  <2>6. CASE CycleBegin \/ DrainDone \/ Connect
    BY <2>5, <2>6 DEF CycleBegin, DrainDone, Connect
  <2>7. CASE Read
    BY <2>5, <2>7 DEF Read, ReadOk, ReadIllegal, ReadTimeout, ReadErrorIgnored, CycleEnd, Fail
  <2>8. CASE Environment
    BY <2>5, <2>8 DEF Environment, NetworkLoss, PlcRestart, LinkRestored, HealthDrain
  <2>9. CASE UNCHANGED vars
    BY <2>5, <2>9 DEF vars
  <2>10. QED
    BY <2>1, <2>2, <2>3, <2>4, <2>6, <2>7, <2>8, <2>9 DEF Next, Driver, Drain
<1>3. QED BY <1>1, <1>2, TypeCorrect, PTL DEF Spec

\* What the contract sees as pending.
Pending == InHand \o queue

LEMMA PendingIs ==
    ASSUME TypeOK
    PROVE  /\ cur = 0 => Pending = queue
           /\ cur # 0 => Pending # << >> /\ Head(Pending) = cur /\ Tail(Pending) = queue
BY CycleAssumption DEF TypeOK, QueueTypeOK, Pending, InHand, Requests

\* Every step of the driver, its clients and the PLC is a step of the contract or
\* leaves the pending requests and the answers alone.
LEMMA ContractStep ==
    ASSUME Promise, Promise', [Next]_vars
    PROVE  [Contract!Next]_(Contract!contractVars)
<1> USE DEF queueVars, connVars, readVars
<1>1. TypeOK /\ TypeOK' /\ QueueInOrder /\ OneInHand /\ UnansweredLeft
  BY DEF Promise
<1>2. Taken \in 0..submitted /\ queue \in Seq(Requests) /\ submitted \in 0..MaxRequests
  BY <1>1, CycleAssumption DEF TypeOK, QueueTypeOK, Taken, QueueInOrder
<1>3. CASE Submit
  <2> DEFINE r == submitted + 1
  <2>1. r \in Requests /\ answer[r] = "none"
    BY <1>1, <1>2, <1>3, CycleAssumption DEF Submit, Requests, UnansweredLeft, Taken
  <2>2. Pending' = Append(Pending, r)
    <3>1. cur' = cur /\ queue' = Append(queue, r)
      BY <1>3 DEF Submit
    <3>2. InHand' = InHand /\ InHand \in Seq(Nat) /\ queue \in Seq(Nat) /\ r \in Nat
      BY <1>1, <2>1, <3>1, CycleAssumption DEF InHand, TypeOK, QueueTypeOK, Requests
    <3>3. InHand \o Append(queue, r) = Append(InHand \o queue, r)
      BY <3>2
    <3> QED BY <3>1, <3>2, <3>3 DEF Pending
  <2>3. ASSUME NEW i \in 1..Len(Pending) PROVE Pending[i] # r
    <3>1. CASE cur = 0
      BY <1>1, <1>2, <2>3, <3>1, PendingIs, CycleAssumption DEF QueueInOrder, Taken
    <3>2. CASE cur # 0
      <4>1. Pending = <<cur>> \o queue
        BY <3>2 DEF Pending, InHand
      <4>2. i = 1 \/ (i - 1 \in 1..Len(queue) /\ Pending[i] = queue[i - 1])
        BY <1>2, <2>3, <4>1
      <4>3. Pending[1] = cur /\ cur = Taken
        BY <1>1, <1>2, <4>1, <3>2 DEF OneInHand
      <4>4. CASE i = 1
        BY <1>2, <4>3, <4>4
      <4>5. CASE i - 1 \in 1..Len(queue) /\ Pending[i] = queue[i - 1]
        BY <1>1, <1>2, <4>5 DEF QueueInOrder, Taken
      <4>6. QED BY <4>2, <4>4, <4>5
    <3>3. QED BY <3>1, <3>2
  <2>4. Contract!Submit(r)
    BY <1>3, <2>1, <2>2, <2>3 DEF Contract!Submit, Contract!Waiting, Pending, Submit
  <2>5. QED BY <2>1, <2>4 DEF Contract!Next
<1>4. CASE TakeRefused \/ TakeUnsupported
  <2>1. /\ CanDrain /\ queue' = Tail(queue) /\ submitted' = submitted
        /\ answer' = [answer EXCEPT ![Head(queue)] = "err"]
        /\ cur' = cur
    BY <1>4 DEF TakeRefused, TakeUnsupported
  <2>2. cur = 0 /\ Head(queue) \in Requests /\ Head(queue) = Taken + 1
    BY <2>1, TakeOldest
  <2>3. Pending = queue /\ Pending' = queue' /\ queue # << >>
    BY <1>1, <2>1, <2>2, PendingIs DEF CanDrain, Pending, InHand, TypeOK, QueueTypeOK
  <2>4. answer[Head(queue)] = "none"
    BY <1>1, <1>2, <2>2 DEF UnansweredLeft
  <2>5. Contract!Reply("err")
    BY <2>1, <2>3, <2>4 DEF Contract!Reply, Pending
  <2>6. QED BY <2>5 DEF Contract!Next
<1>5. CASE TakeWrite
  <2>1. /\ CanDrain /\ queue' = Tail(queue) /\ submitted' = submitted
        /\ answer' = answer
        /\ cur' = Head(queue)
    BY <1>5 DEF TakeWrite
  <2>2. cur = 0 /\ Head(queue) \in Requests /\ queue # << >>
    BY <2>1, TakeOldest DEF CanDrain
  <2>3. Pending = queue /\ Pending' = <<Head(queue)>> \o Tail(queue)
    BY <1>1, <1>2, <2>1, <2>2, PendingIs, CycleAssumption DEF Pending, InHand, Requests
  <2>4. Pending' = Pending
    BY <1>2, <2>2, <2>3
  <2>5. QED BY <2>1, <2>4 DEF Contract!contractVars, Pending
<1>6. CASE WriteAnswered \/ WriteLost
  <2>1. /\ UNCHANGED <<submitted, queue>>
        /\ cur' = 0 /\ pc = "writing"
    BY <1>6 DEF WriteAnswered, WriteLost
  <2>2. PICK reply \in {"ok", "err"} : answer' = [answer EXCEPT ![cur] = reply]
    BY <1>6 DEF WriteAnswered, WriteLost
  <2>3. cur # 0 /\ cur \in Requests /\ answer[cur] = "none"
    BY <1>1, <2>1, CycleAssumption DEF OneInHand, UnansweredLeft, TypeOK, QueueTypeOK, Requests
  <2>4. Pending # << >> /\ Head(Pending) = cur /\ Pending' = Tail(Pending)
    <3>1. Pending' = queue
      BY <1>2, <2>1 DEF Pending, InHand
    <3>2. QED BY <1>1, <2>3, <3>1, PendingIs
  <2>5. Contract!Reply(reply)
    BY <2>2, <2>3, <2>4 DEF Contract!Reply, Pending
  <2>6. QED BY <2>5 DEF Contract!Next
<1>7. ASSUME UNCHANGED <<queue, answer, cur>> PROVE UNCHANGED Contract!contractVars
  BY <1>7 DEF Contract!contractVars, InHand
<1>8. CASE CycleBegin \/ DrainDone \/ Connect
  BY <1>7, <1>8 DEF CycleBegin, DrainDone, Connect
<1>9. CASE Read
  BY <1>7, <1>9 DEF Read, ReadOk, ReadIllegal, ReadTimeout, ReadErrorIgnored, CycleEnd, Fail
<1>10. CASE Environment
  BY <1>7, <1>10 DEF Environment, NetworkLoss, PlcRestart, LinkRestored, HealthDrain
<1>11. CASE UNCHANGED vars
  BY <1>7, <1>11 DEF vars
<1>12. QED
  BY <1>3, <1>4, <1>5, <1>6, <1>8, <1>9, <1>10, <1>11 DEF Next, Driver, Drain

\* The Modbus driver implements DriverContract: requests are answered in the order
\* of submission, each once, before the next one is taken, through whichever exit
\* of the drain loop they go.
THEOREM ContractTheorem == Spec => FulfilsContract
<1>1. Init => Contract!Init
  BY DEF Init, Contract!Init, InHand
<1>2. Promise /\ Promise' /\ [Next]_vars => [Contract!Next]_(Contract!contractVars)
  BY ContractStep
<1>3. QED BY <1>1, <1>2, PromiseTheorem, PTL DEF Spec, FulfilsContract, Contract!Spec
-----------------------------------------------------------------------------
(***************************************************************************)
(* What a cycle shows.  A chunk is read once, so the chunk a tag was       *)
(* missed with is not read again before the cycle ends.                    *)
(***************************************************************************)

\* Only a write to a known tag is ever sent.
HandWritable == cur # 0 => reqTag[cur] \in Writable

\* No chunk is planned twice.
PlanOnce == \A i, j \in 1..Len(plan) : plan[i] = plan[j] => i = j

\* The chunk that was missed is behind the reader.
MissedBehind ==
    \A t \in missed : \E c \in Chunks : t \in ChunkTags[c] /\ \A i \in 1..Len(plan) : plan[i] # c

\* Nothing is missed before the reads, which a write that makes a tag Good precedes.
NothingMissedYet == pc \in {"draining", "connectWrite", "writing", "connectRead"} => missed = {}

JudgedNotGood == \A t \in missed \ (ignored \union Split) : quality[t] # "good"

Judged == PlanOnce /\ MissedBehind /\ NothingMissedYet /\ JudgedNotGood

\* Going on to the next chunk.
LEMMA NextChunk ==
    ASSUME TypeOK, PlanOnce, plan # << >>, plan' = Tail(plan)
    PROVE  /\ Head(plan) \in Chunks
           /\ PlanOnce'
           /\ \E i \in 1..Len(plan) : plan[i] = Head(plan)
           /\ \A i \in 1..Len(plan') : plan'[i] # Head(plan)
           /\ \A i \in 1..Len(plan') : \E j \in 1..Len(plan) : plan'[i] = plan[j]
<1>1. plan \in Seq(Chunks)
  BY DEF TypeOK, CycleTypeOK
<1>2. /\ Head(plan) \in Chunks
      /\ Head(plan) = plan[1]
      /\ Len(plan) \in Nat /\ Len(plan) >= 1
      /\ Len(plan') = Len(plan) - 1
      /\ \A i \in 1..Len(plan') : plan'[i] = plan[i + 1]
  BY <1>1
<1>3. \A i \in 1..Len(plan') : i + 1 \in 1..Len(plan) /\ i + 1 # 1
  BY <1>2
<1>4. PlanOnce'
  BY <1>2, <1>3 DEF PlanOnce
<1>5. \A i \in 1..Len(plan') : plan'[i] # Head(plan)
  BY <1>2, <1>3 DEF PlanOnce
<1>6. QED BY <1>2, <1>3, <1>4, <1>5

\* A failing cycle is reported to the clients.
LEMMA FailReports ==
    ASSUME Fail, NEW tags, tags \intersect Tags # {}, Mark(tags, "commlost")
    PROVE  FailedCycleIsReported'
BY DEF Fail, Mark, FailedCycleIsReported

\* A cycle that ends with an error, at a write or at a read, has marked a tag of
\* the PLC and kept no connection, and so it stays until the next cycle.
THEOREM FailureReported == Spec => []FailedCycleIsReported
<1> DEFINE Inv == HandWritable /\ FailedCycleIsReported
<1>1. Init => Inv
  BY DEF Init, HandWritable, FailedCycleIsReported
<1>2. Promise /\ TypeOK' /\ Inv /\ [Next]_vars => Inv'
  <2> SUFFICES ASSUME Promise, TypeOK', HandWritable, FailedCycleIsReported, [Next]_vars
               PROVE  HandWritable' /\ FailedCycleIsReported'
    OBVIOUS
  <2> USE DEF queueVars, connVars, readVars
  <2>1. TypeOK /\ OneInHand
    BY DEF Promise
  <2>2. CASE TakeWrite
    BY <2>2 DEF TakeWrite, HandWritable, FailedCycleIsReported, CanDrain
  <2>3. CASE WriteLost
    <3>1. reqTag[cur] \in Tags
      BY <2>1, <2>3, CycleAssumption DEF WriteLost, OneInHand, HandWritable
    <3>2. FailedCycleIsReported'
      BY <2>3, <3>1, FailReports DEF WriteLost
    <3>3. QED BY <2>3, <3>2 DEF WriteLost, HandWritable
  <2>4. CASE ReadTimeout
    <3>1. GroupTags[Head(plan)] \intersect Tags # {}
      BY <2>1, <2>4, CycleAssumption DEF ReadTimeout, TypeOK, CycleTypeOK
    <3>2. FailedCycleIsReported'
      BY <2>4, <3>1, FailReports DEF ReadTimeout
    <3>3. QED BY <2>4, <3>2 DEF ReadTimeout, HandWritable
  <2>5. CASE Submit \/ UNCHANGED vars
    BY <2>5 DEF Submit, vars, HandWritable, FailedCycleIsReported
  <2>6. CASE CycleBegin \/ DrainDone \/ Connect
    BY <2>6 DEF CycleBegin, DrainDone, Connect, HandWritable, FailedCycleIsReported
  <2>7. CASE TakeRefused \/ TakeUnsupported \/ WriteAnswered
    BY <2>7 DEF TakeRefused, TakeUnsupported, WriteAnswered, CanDrain, HandWritable,
                FailedCycleIsReported
  <2>8. CASE ReadOk \/ ReadIllegal \/ ReadErrorIgnored \/ CycleEnd
    BY <2>8 DEF ReadOk, ReadIllegal, ReadErrorIgnored, CycleEnd, HandWritable,
                FailedCycleIsReported
  <2>9. CASE Environment
    BY <2>9 DEF Environment, NetworkLoss, PlcRestart, LinkRestored, HealthDrain, HandWritable,
                FailedCycleIsReported
  <2>10. QED
    BY <2>2, <2>3, <2>4, <2>5, <2>6, <2>7, <2>8, <2>9 DEF Next, Driver, Drain, Read
<1>3. QED BY <1>1, <1>2, PromiseTheorem, TypeCorrect, PTL DEF Spec

\* The read of a chunk failed, with an error the driver recognises or one that it
\* passes over.
LEMMA ChunkIsMissed ==
    ASSUME TypeOK, TypeOK', Judged, pc = "reading", plan # << >>,
           missed' = missed \union ChunkTags[Head(plan)],
           plan' = Tail(plan) \/ plan' = << >>,
           pc' \in {"reading", "idle"},
           \/ ignored' = ignored /\ \E q \in {"commlost", "configerror"} : Mark(GroupTags[Head(plan)], q)
           \/ ignored' = ignored \union ChunkTags[Head(plan)] /\ quality' = quality
    PROVE  Judged'
<1> DEFINE h == Head(plan)
<1>1. h \in Chunks /\ ChunkTags[h] \subseteq GroupTags[h] /\ GroupTags[h] \subseteq Tags
  BY CycleAssumption DEF TypeOK, CycleTypeOK
<1>2. PlanOnce' /\ \A i \in 1..Len(plan') : plan'[i] # h /\ \E j \in 1..Len(plan) : plan'[i] = plan[j]
  <2>1. CASE plan' = Tail(plan)
    BY <2>1, NextChunk DEF Judged
  <2>2. CASE plan' = << >>
    BY <2>2 DEF PlanOnce
  <2>3. QED BY <2>1, <2>2
<1>3. MissedBehind'
  <2>1. ASSUME NEW t \in missed'
        PROVE  \E c \in Chunks : t \in ChunkTags[c] /\ \A i \in 1..Len(plan') : plan'[i] # c
    <3>1. CASE t \in ChunkTags[h]
      BY <1>1, <1>2, <3>1
    <3>2. CASE t \in missed
      BY <1>2, <3>2 DEF Judged, MissedBehind
    <3>3. QED BY <3>1, <3>2
  <2>2. QED BY <2>1 DEF MissedBehind
<1>4. JudgedNotGood'
  <2>1. CASE ignored' = ignored \union ChunkTags[h] /\ quality' = quality
    BY <2>1 DEF Judged, JudgedNotGood, Split
  <2>2. ASSUME ignored' = ignored, NEW q \in {"commlost", "configerror"}, Mark(GroupTags[h], q)
        PROVE  JudgedNotGood'
    BY <1>1, <2>2 DEF Judged, JudgedNotGood, Split, Mark, TypeOK, CycleTypeOK
  <2>3. QED BY <2>1, <2>2
<1>5. QED BY <1>2, <1>3, <1>4 DEF Judged, NothingMissedYet

\* A step that leaves the reads of the cycle alone.
LEMMA NotRead ==
    ASSUME Judged, plan' = plan, missed' = missed, ignored' = ignored,
           quality' = quality \/ missed = {},
           pc' \in {"draining", "connectWrite", "writing", "connectRead"} => missed' = {}
    PROVE  Judged'
BY DEF Judged, PlanOnce, MissedBehind, NothingMissedYet, JudgedNotGood, Split

\* A tag whose words were asked for and did not come is not left Good when the
\* cycle ends, whichever chunk of its group was refused or timed out and whatever
\* the chunks after it brought.
THEOREM MissedNotGood == Spec => []MissedIsNotGood
<1>1. Init => Judged
  BY DEF Init, Judged, PlanOnce, MissedBehind, NothingMissedYet, JudgedNotGood
<1>2. TypeOK /\ TypeOK' /\ Judged /\ [Next]_vars => Judged'
  <2> SUFFICES ASSUME TypeOK, TypeOK', Judged, [Next]_vars PROVE Judged'
    OBVIOUS
  <2> USE DEF queueVars, connVars, readVars
  <2>1. CASE CycleBegin
    BY <2>1 DEF CycleBegin, Judged, PlanOnce, MissedBehind, NothingMissedYet, JudgedNotGood
  <2>2. CASE TakeRefused \/ TakeUnsupported \/ TakeWrite \/ WriteAnswered
    BY <2>2, NotRead DEF TakeRefused, TakeUnsupported, TakeWrite, WriteAnswered, CanDrain, Judged,
                         NothingMissedYet
  <2>3. CASE WriteLost
    BY <2>3 DEF WriteLost, Fail, Judged, PlanOnce, MissedBehind, NothingMissedYet, JudgedNotGood
  <2>4. CASE DrainDone
    BY <2>4, CycleAssumption
       DEF DrainDone, Judged, PlanOnce, MissedBehind, NothingMissedYet, JudgedNotGood
  <2>5. CASE Connect
    BY <2>5, NotRead DEF Connect, Judged, NothingMissedYet
  <2>6. CASE ReadOk
    <3> DEFINE h == Head(plan)
    <3>1. h \in Chunks /\ PlanOnce' /\ \E i \in 1..Len(plan) : plan[i] = h
      BY <2>6, NextChunk DEF ReadOk, Judged
    <3>2. MissedBehind'
      BY <2>6, NextChunk DEF ReadOk, Judged, MissedBehind
    <3>3. \A t \in missed \ Split : t \notin ChunkTags[h]
      BY <3>1 DEF Judged, MissedBehind, Split, TypeOK, CycleTypeOK
    <3>4. JudgedNotGood'
      BY <2>6, <3>3 DEF ReadOk, Judged, JudgedNotGood, Split, TypeOK, CycleTypeOK
    <3>5. QED BY <2>6, <3>1, <3>2, <3>4 DEF ReadOk, Judged, NothingMissedYet
  <2>7. CASE ReadIllegal \/ ReadTimeout \/ ReadErrorIgnored
    BY <2>7, ChunkIsMissed DEF ReadIllegal, ReadTimeout, ReadErrorIgnored, Fail
  <2>8. CASE CycleEnd \/ Submit \/ UNCHANGED vars
    BY <2>8, NotRead DEF CycleEnd, Submit, vars, Judged, NothingMissedYet
  <2>9. CASE Environment
    BY <2>9, NotRead DEF Environment, NetworkLoss, PlcRestart, LinkRestored, HealthDrain, Judged,
                         NothingMissedYet
  <2>10. QED
    BY <2>1, <2>2, <2>3, <2>4, <2>5, <2>6, <2>7, <2>8, <2>9 DEF Next, Driver, Drain, Read
<1>3. Judged => MissedIsNotGood
  BY DEF Judged, JudgedNotGood, MissedIsNotGood
<1>4. QED BY <1>1, <1>2, <1>3, TypeCorrect, PTL DEF Spec
=============================================================================
