------------------------ MODULE WritePipelineProofs ------------------------
(***************************************************************************)
(* The safety properties of WritePipeline, for every number of writes,     *)
(* drivers and tags, every capacity and both write modes.                  *)
(*                                                                         *)
(* The argument: a write moves in one direction only, and nothing on its   *)
(* way overtakes anything.  Whatever has reached the driver d or its PLC   *)
(* (Old) is older than all that is still upstream of it.                   *)
(***************************************************************************)
EXTENDS WritePipeline, TLAPS

\* The driver of a write.
DriverOf(w) == Route[tagOf[w]]

\* x is older than every write that has not reached a driver queue.
Early(x) ==
    /\ x <= issued
    /\ \A i \in 1..Len(bridgeQ) : x < bridgeQ[i]
    /\ bridgePc = "sending" => x < bridgeW

\* x is older than every write that is still on its way to driver d.
Old(d, x) == Early(x) /\ \A i \in 1..Len(queue[d]) : x < queue[d][i]

\* The bridge channel holds issued writes in issue order.
ChannelOrder ==
    /\ \A i \in 1..Len(bridgeQ) : bridgeQ[i] <= issued
    /\ \A i, j \in 1..Len(bridgeQ) : i < j => bridgeQ[i] < bridgeQ[j]

\* The write the bridge thread is about to enqueue comes before its channel.
SendingOrder ==
    bridgePc = "sending" =>
        /\ bridgeW <= issued
        /\ \A i \in 1..Len(bridgeQ) : bridgeW < bridgeQ[i]

\* A driver queue holds its driver's writes in issue order, all older than what
\* the bridge thread and its channel still hold.
Queued(d, w) == \E i \in 1..Len(queue[d]) : queue[d][i] = w
QueueOrder ==
    \A d \in Drivers :
        /\ \A i, j \in 1..Len(queue[d]) : i < j => queue[d][i] < queue[d][j]
        /\ \A w \in Writes : Queued(d, w) => DriverOf(w) = d /\ Early(w)

\* The write at the PLC.
ExchangeOrder ==
    \A d \in Drivers : \A w \in Writes :
        poll[d] = "io" /\ cur[d] = w => DriverOf(w) = d /\ Old(d, w)

\* Executed writes.
AppliedOrder ==
    \A w \in applied :
        LET d == DriverOf(w) IN
            /\ d \in Drivers
            /\ Old(d, w)
            /\ poll[d] = "io" => w <= cur[d]

\* Abandoned writes: not executed yet, and not the one at the PLC.
AbandonedOrder ==
    \A w \in abandoned :
        LET d == DriverOf(w) IN
            /\ d \in Drivers
            /\ w \notin applied
            /\ Old(d, w)
            /\ poll[d] = "io" => w < cur[d]

\* The memory of the PLC: the last write executed, which is the newest one
\* while no abandoned frame interfered.
PlcMemory ==
    \A t \in Tags :
        /\ plc[t] = 0 \/ (plc[t] \in applied /\ tagOf[plc[t]] = t)
        /\ t \notin stomped => \A w \in applied : tagOf[w] = t => w <= plc[t]

\* A positive confirmation, reply or ConfirmedAck status.
Confirmed(w) ==
    \/ confirm[w] = "ok"
    \/ reply[w] = "ok"
    \/ WriteMode = "ConfirmedAck" /\ status[w] = "good"

\* What is confirmed was executed, and the registry shows it or a newer write.
Truthful ==
    \A w \in Writes : Confirmed(w) =>
        /\ w \in applied
        /\ tagOf[w] \notin stomped => w <= reg[tagOf[w]]

UpstreamOrder == ChannelOrder /\ SendingOrder /\ QueueOrder

OrderInv == UpstreamOrder /\ ExchangeOrder /\ AppliedOrder /\ AbandonedOrder

IInv == TypeOK /\ OrderInv /\ PlcMemory /\ Truthful

-----------------------------------------------------------------------------
(***************************************************************************)
(* Sequences.                                                              *)
(***************************************************************************)

\* What taking the head of a non-empty queue leaves.
LEMMA TailFacts ==
    ASSUME NEW S, NEW s \in Seq(S), s # << >>
    PROVE  /\ Head(s) = s[1] /\ Head(s) \in S
           /\ Tail(s) \in Seq(S)
           /\ Len(s) \in Nat /\ Len(s) >= 1
           /\ Len(Tail(s)) = Len(s) - 1
           /\ \A i \in 1..Len(Tail(s)) : i + 1 \in 1..Len(s) /\ Tail(s)[i] = s[i + 1]
OBVIOUS

\* What enqueueing leaves.
LEMMA AppendFacts ==
    ASSUME NEW S, NEW s \in Seq(S), NEW x \in S
    PROVE  /\ Append(s, x) \in Seq(S)
           /\ Len(s) \in Nat
           /\ Len(Append(s, x)) = Len(s) + 1
           /\ Append(s, x)[Len(s) + 1] = x
           /\ \A i \in 1..Len(s) : Append(s, x)[i] = s[i]
OBVIOUS

-----------------------------------------------------------------------------
(***************************************************************************)
(* Type correctness.                                                       *)
(***************************************************************************)

LEMMA InitType == Init => TypeOK
BY PipelineAssumption
   DEF Init, TypeOK, ServerTypeOK, BridgeTypeOK, DriverTypeOK, PlcTypeOK, Drivers, Writes

\* A step that leaves a part's variables alone keeps its type.
LEMMA KeepServer ==
    ServerTypeOK /\ UNCHANGED <<issued, tagOf, status, stop>> => ServerTypeOK'
BY DEF ServerTypeOK

LEMMA KeepBridge ==
    BridgeTypeOK /\ UNCHANGED <<tagOf, reply, bridgeQ, bridgePc, bridgeW>> => BridgeTypeOK'
BY DEF BridgeTypeOK

LEMMA KeepDriver ==
    DriverTypeOK /\ UNCHANGED <<queue, confirm, poll, cur, drained, reg>> => DriverTypeOK'
BY DEF DriverTypeOK

LEMMA KeepPlc ==
    PlcTypeOK /\ UNCHANGED <<plc, applied, abandoned, stomped>> => PlcTypeOK'
BY DEF PlcTypeOK

LEMMA TypeServer == TypeOK /\ Server => TypeOK'
<1> SUFFICES ASSUME TypeOK, Server PROVE TypeOK'
  OBVIOUS
<1>1. CASE WriteBadVariant
  <2>1. issued + 1 \in Writes
    BY <1>1, PipelineAssumption DEF WriteBadVariant, CanIssue, TypeOK, ServerTypeOK, Writes
  <2>2. ServerTypeOK'
    BY <1>1, <2>1 DEF WriteBadVariant, TypeOK, ServerTypeOK, Writes
  <2>. QED BY <1>1, <2>2, KeepBridge, KeepDriver, KeepPlc
           DEF WriteBadVariant, TypeOK, bridgeVars, driverVars, plcVars
<1>2. CASE WriteEnqueue
  <2>1. issued + 1 \in Writes
    BY <1>2, PipelineAssumption DEF WriteEnqueue, CanIssue, TypeOK, ServerTypeOK, Writes
  <2>2. ServerTypeOK'
    BY <1>2, <2>1 DEF WriteEnqueue, AckStatus, TypeOK, ServerTypeOK, Writes
  <2>3. BridgeTypeOK'
    BY <1>2, <2>1, AppendFacts DEF WriteEnqueue, TypeOK, BridgeTypeOK
  <2>. QED BY <1>2, <2>2, <2>3, KeepDriver, KeepPlc
           DEF WriteEnqueue, TypeOK, driverVars, plcVars
<1>3. CASE Answer
  <2>1. PICK w \in Writes : ClientReply(w) \/ ClientTimeout(w)
    BY <1>3 DEF Answer
  <2>2. ServerTypeOK'
    BY <2>1 DEF ClientReply, ClientTimeout, TypeOK, ServerTypeOK
  <2>. QED BY <2>1, <2>2, KeepBridge, KeepDriver, KeepPlc
           DEF ClientReply, ClientTimeout, TypeOK, bridgeVars, driverVars, plcVars
<1>. QED BY <1>1, <1>2, <1>3 DEF Server

LEMMA TypeBridge == TypeOK /\ Bridge => TypeOK'
<1> SUFFICES ASSUME TypeOK, Bridge PROVE TypeOK'
  OBVIOUS
<1>0. ASSUME NEW w \in Writes, NEW r \in {"ok", "err"}, BridgeFinish(w, r),
             bridgeQ' \in Seq(Writes)
      PROVE  BridgeTypeOK'
  BY <1>0, PipelineAssumption DEF BridgeFinish, TypeOK, BridgeTypeOK, Writes
<1>1. CASE BridgeReject
  <2>1. Head(bridgeQ) \in Writes /\ Tail(bridgeQ) \in Seq(Writes)
    BY <1>1, TailFacts DEF BridgeReject, TypeOK, BridgeTypeOK
  <2>2. BridgeTypeOK'
    BY <1>0, <1>1, <2>1 DEF BridgeReject
  <2>. QED BY <1>1, <2>2, KeepServer, KeepDriver, KeepPlc
           DEF BridgeReject, TypeOK, serverVars, driverVars, plcVars
<1>2. CASE BridgeTake
  <2>1. Head(bridgeQ) \in Writes /\ Tail(bridgeQ) \in Seq(Writes)
    BY <1>2, TailFacts DEF BridgeTake, TypeOK, BridgeTypeOK
  <2>2. Route[tagOf[Head(bridgeQ)]] \in Drivers
    BY <1>2, <2>1, PipelineAssumption
    DEF BridgeTake, Accepts, TypeOK, ServerTypeOK, Drivers
  <2>3. BridgeTypeOK'
    BY <1>2, <2>1, <2>2, PipelineAssumption
    DEF BridgeTake, TypeOK, BridgeTypeOK, serverVars, Writes
  <2>. QED BY <1>2, <2>3, KeepServer, KeepDriver, KeepPlc
           DEF BridgeTake, TypeOK, serverVars, driverVars, plcVars
<1>3. CASE BridgeSend
  <2> DEFINE d == Route[tagOf[bridgeW]]
  <2>1. d \in Drivers /\ bridgeW \in Writes /\ queue[d] \in Seq(Writes)
    BY <1>3 DEF BridgeSend, TypeOK, BridgeTypeOK, DriverTypeOK
  <2>2. Len(queue[d]) < QueueCap /\ queue' = [queue EXCEPT ![d] = Append(queue[d], bridgeW)]
    BY <1>3, <2>1, PipelineAssumption DEF BridgeSend, QueueFull
  <2>3. /\ Append(queue[d], bridgeW) \in Seq(Writes)
        /\ Len(Append(queue[d], bridgeW)) <= QueueCap
    BY <2>1, <2>2, AppendFacts, PipelineAssumption
  <2>4. DriverTypeOK'
    BY <1>3, <2>1, <2>2, <2>3 DEF BridgeSend, TypeOK, DriverTypeOK
  <2>5. BridgeTypeOK'
    BY <1>3, <2>1 DEF BridgeSend, TypeOK, BridgeTypeOK, serverVars
  <2>. QED BY <1>3, <2>4, <2>5, KeepServer, KeepPlc
           DEF BridgeSend, TypeOK, serverVars, plcVars
<1>4. ASSUME NEW r \in {"ok", "err"}, bridgePc \in {"sending", "confirming"},
             BridgeFinish(bridgeW, r),
             UNCHANGED <<serverVars, bridgeQ, driverVars, plcVars, stop>>
      PROVE  TypeOK'
  <2>1. BridgeTypeOK'
    BY <1>0, <1>4 DEF TypeOK, BridgeTypeOK
  <2>. QED BY <1>4, <2>1, KeepServer, KeepDriver, KeepPlc
           DEF TypeOK, serverVars, driverVars, plcVars
<1>5. CASE BridgeSendTimeout
  BY <1>4, <1>5 DEF BridgeSendTimeout
<1>6. CASE BridgeConfirmed
  <2>1. confirm[bridgeW] \in {"ok", "err"}
    BY <1>6 DEF BridgeConfirmed, TypeOK, BridgeTypeOK, DriverTypeOK
  <2>. QED BY <1>4, <1>6, <2>1 DEF BridgeConfirmed
<1>7. CASE BridgeConfirmTimeout
  BY <1>4, <1>7 DEF BridgeConfirmTimeout
<1>8. CASE BridgePollEmpty \/ BridgeCheckFlag \/ BridgeDisconnected
  <2>1. BridgeTypeOK'
    BY <1>8 DEF BridgePollEmpty, BridgeCheckFlag, BridgeDisconnected, TypeOK, BridgeTypeOK
  <2>. QED BY <1>8, <2>1, KeepServer, KeepDriver, KeepPlc
           DEF BridgePollEmpty, BridgeCheckFlag, BridgeDisconnected, TypeOK, serverVars, driverVars, plcVars
<1>. QED BY <1>1, <1>2, <1>3, <1>5, <1>6, <1>7, <1>8 DEF Bridge

\* The steps of driver d's poller task.
PollerStep(d) == Poller(d) \/ CycleStart(d) \/ PollerExit(d)

LEMMA TypePoller ==
    ASSUME TypeOK, NEW d \in Drivers, PollerStep(d) PROVE TypeOK'
<1>0. ASSUME UNCHANGED <<serverVars, bridgeVars, plcVars, stop>>, DriverTypeOK'
      PROVE  TypeOK'
  BY <1>0, KeepServer, KeepBridge, KeepPlc
  DEF TypeOK, serverVars, bridgeVars, plcVars
<1>1. ASSUME CanDrain(d)
      PROVE  /\ Head(queue[d]) \in Writes
             /\ Tail(queue[d]) \in Seq(Writes)
             /\ Len(Tail(queue[d])) <= QueueCap
             /\ drained[d] + 1 \in 0..DrainMax
  BY <1>1, TailFacts, PipelineAssumption DEF CanDrain, TypeOK, DriverTypeOK
<1>2. CASE TakeUnsupported(d)
  <2>1. DriverTypeOK'
    BY <1>1, <1>2 DEF TakeUnsupported, TypeOK, DriverTypeOK
  <2>. QED BY <1>0, <1>2, <2>1 DEF TakeUnsupported
<1>3. CASE TakeWrite(d)
  <2>1. DriverTypeOK'
    BY <1>1, <1>3 DEF TakeWrite, TypeOK, DriverTypeOK, Writes
  <2>. QED BY <1>0, <1>3, <2>1 DEF TakeWrite
<1>4. ASSUME NEW r \in {"ok", "err"}, NEW n \in {"idle", "draining"},
             poll[d] = "io", FinishWrite(d, r, n), UNCHANGED <<queue, drained>>,
             reg' \in [Tags -> 0..MaxWrites]
      PROVE  DriverTypeOK'
  BY <1>4, PipelineAssumption DEF FinishWrite, TypeOK, DriverTypeOK, Writes
<1>5. CASE WriteOk(d)
  <2>1. cur[d] \in 0..MaxWrites /\ tagOf[cur[d]] \in Tags
    BY <1>5 DEF WriteOk, TypeOK, ServerTypeOK, DriverTypeOK, Writes
  <2>2. reg' \in [Tags -> 0..MaxWrites]
    BY <1>5, <2>1 DEF WriteOk, TypeOK, DriverTypeOK
  <2>. QED BY <1>0, <1>4, <1>5, <2>2 DEF WriteOk
<1>6. CASE WriteRefused(d)
  <2>1. DriverTypeOK'
    BY <1>4, <1>6 DEF WriteRefused, TypeOK, DriverTypeOK
  <2>. QED BY <1>0, <1>6, <2>1 DEF WriteRefused
<1>7. CASE WriteLost(d)
  <2>1. DriverTypeOK'
    BY <1>4, <1>7 DEF WriteLost, TypeOK, DriverTypeOK
  <2>2. PlcTypeOK'
    BY <1>7 DEF WriteLost, TypeOK, DriverTypeOK, PlcTypeOK
  <2>. QED BY <1>7, <2>1, <2>2, KeepServer, KeepBridge
           DEF WriteLost, TypeOK, serverVars, bridgeVars
<1>8. CASE DrainDone(d)
  <2>1. DriverTypeOK'
    BY <1>8 DEF DrainDone, TypeOK, DriverTypeOK
  <2>. QED BY <1>0, <1>8, <2>1 DEF DrainDone
<1>9. CASE ReadCycle(d)
  <2>1. reg' \in [Tags -> 0..MaxWrites]
    BY <1>9 DEF ReadCycle, TypeOK, DriverTypeOK, PlcTypeOK
  <2>2. DriverTypeOK'
    BY <1>9, <2>1 DEF ReadCycle, TypeOK, DriverTypeOK
  <2>. QED BY <1>0, <1>9, <2>2 DEF ReadCycle
<1>10. CASE CycleStart(d)
  <2>1. DriverTypeOK'
    BY <1>10, PipelineAssumption DEF CycleStart, TypeOK, DriverTypeOK
  <2>. QED BY <1>0, <1>10, <2>1 DEF CycleStart
<1>11. CASE PollerExit(d)
  <2>1. DriverTypeOK'
    BY <1>11 DEF PollerExit, TypeOK, DriverTypeOK
  <2>. QED BY <1>0, <1>11, <2>1 DEF PollerExit
<1>. QED BY <1>2, <1>3, <1>5, <1>6, <1>7, <1>8, <1>9, <1>10, <1>11
         DEF PollerStep, Poller

LEMMA TypePlcMain == TypeOK /\ (Plc \/ Main) => TypeOK'
<1> SUFFICES ASSUME TypeOK, Plc \/ Main PROVE TypeOK'
  OBVIOUS
<1>1. ASSUME NEW d \in Drivers, PlcExecute(d) PROVE TypeOK'
  <2>1. PlcTypeOK'
    BY <1>1 DEF PlcExecute, TypeOK, DriverTypeOK, PlcTypeOK, Writes
  <2>. QED BY <1>1, <2>1, KeepServer, KeepBridge, KeepDriver
           DEF PlcExecute, TypeOK, serverVars, bridgeVars, driverVars
<1>2. ASSUME NEW w \in Writes, PlcExecuteLate(w) PROVE TypeOK'
  <2>1. PlcTypeOK'
    BY <1>2 DEF PlcExecuteLate, TypeOK, ServerTypeOK, PlcTypeOK, Writes
  <2>. QED BY <1>2, <2>1, KeepServer, KeepBridge, KeepDriver
           DEF PlcExecuteLate, TypeOK, serverVars, bridgeVars, driverVars
<1>3. CASE Main
  <2>1. ServerTypeOK'
    BY <1>3, PipelineAssumption
    DEF Main, CtrlC, DriverStopped, RunnerExit, TypeOK, ServerTypeOK, serverVars, Drivers
  <2>. QED BY <1>3, <2>1, KeepBridge, KeepDriver, KeepPlc
           DEF Main, CtrlC, DriverStopped, RunnerExit, TypeOK,
               serverVars, bridgeVars, driverVars, plcVars
<1>. QED BY <1>1, <1>2, <1>3 DEF Plc

LEMMA TypeStep == TypeOK /\ [Next]_vars => TypeOK'
<1> SUFFICES ASSUME TypeOK, [Next]_vars PROVE TypeOK'
  OBVIOUS
<1>1. ASSUME NEW d \in Drivers, Poller(d) \/ CycleStart(d) \/ PollerExit(d)
      PROVE  TypeOK'
  BY <1>1, TypePoller DEF PollerStep
<1>2. CASE UNCHANGED vars
  BY <1>2, KeepServer, KeepBridge, KeepDriver, KeepPlc DEF vars, TypeOK
<1>3. CASE Terminating
  BY <1>2, <1>3 DEF Terminating
<1>. QED BY <1>1, <1>2, <1>3, TypeServer, TypeBridge, TypePlcMain DEF Next

\* TypeOK is an invariant for every configuration: in particular the driver
\* queues respect their capacity and a cycle takes at most DrainMax writes (the
\* bounded mpsc of the drivers and the `for _ in 0..64` loop of a cycle).
THEOREM TypeCorrect == Spec => []TypeOK
<1>1. Init => TypeOK
  BY InitType
<1>2. TypeOK /\ [Next]_vars => TypeOK'
  BY TypeStep
<1>. QED BY <1>1, <1>2, PTL DEF Spec

-----------------------------------------------------------------------------
(***************************************************************************)
(* How a step moves writes.                                                *)
(***************************************************************************)

\* A client write is issued, and perhaps enters the bridge channel.
IssueShape ==
    /\ issued' = issued + 1
    /\ issued + 1 \in Writes
    /\ bridgeQ' = bridgeQ \/ bridgeQ' = Append(bridgeQ, issued + 1)
    /\ UNCHANGED <<bridgePc, bridgeW, queue, poll, cur, applied, abandoned>>

\* The bridge thread takes a write from its channel, and rejects it or keeps it.
TakeShape ==
    /\ bridgeQ # << >>
    /\ bridgeQ' = Tail(bridgeQ)
    /\ \/ bridgePc' = "recv"
       \/ bridgePc' = "sending" /\ bridgeW' = Head(bridgeQ)
    /\ UNCHANGED <<issued, queue, poll, cur, applied, abandoned>>

\* The bridge thread enqueues its write.
SendShape ==
    LET d == DriverOf(bridgeW) IN
        /\ bridgePc = "sending"
        /\ bridgePc' = "confirming"
        /\ queue' = [queue EXCEPT ![d] = Append(queue[d], bridgeW)]
        /\ UNCHANGED <<issued, bridgeQ, bridgeW, poll, cur, applied, abandoned>>

\* The bridge thread is done with its write, or ends, or an answer is given.
IdleShape ==
    /\ bridgePc' # "sending" \/ UNCHANGED <<bridgePc, bridgeW>>
    /\ UNCHANGED <<issued, bridgeQ, queue, poll, cur, applied, abandoned>>

UpstreamVars == <<issued, tagOf, bridgeQ, bridgePc, bridgeW>>

\* Driver d takes a write from its queue, and refuses it or sends it to the PLC.
DequeueShape(d) ==
    /\ queue[d] # << >>
    /\ queue' = [queue EXCEPT ![d] = Tail(queue[d])]
    /\ poll[d] = "draining"
    /\ \/ UNCHANGED <<poll, cur>>
       \/ /\ poll' = [poll EXCEPT ![d] = "io"]
          /\ cur' = [cur EXCEPT ![d] = Head(queue[d])]
    /\ UNCHANGED <<UpstreamVars, applied, abandoned>>

\* Driver d's poller moves between states other than "io", or leaves "io".
PollShape(d) ==
    /\ \E n \in {"idle", "draining", "reading", "exited"} : poll' = [poll EXCEPT ![d] = n]
    /\ cur' = cur \/ cur' = [cur EXCEPT ![d] = 0]
    /\ \/ abandoned' = abandoned
       \/ /\ poll[d] = "io"
          /\ cur[d] \notin applied
          /\ abandoned' = abandoned \union {cur[d]}
    /\ UNCHANGED <<UpstreamVars, queue, applied>>

\* The PLC executes the frame of driver d's exchange, or an abandoned frame.
ExecuteShape ==
    /\ \/ \E d \in Drivers :
             /\ poll[d] = "io"
             /\ applied' = applied \union {cur[d]}
             /\ UNCHANGED abandoned
       \/ \E w \in abandoned :
             /\ applied' = applied \union {w}
             /\ abandoned' = abandoned \ {w}
    /\ UNCHANGED <<UpstreamVars, queue, poll, cur>>

\* Every step has one of these shapes, and the inputs are never changed.
LEMMA Shapes ==
    ASSUME TypeOK, [Next]_vars
    PROVE  /\ tagOf' = tagOf
           /\ \/ IssueShape \/ TakeShape \/ SendShape \/ IdleShape
              \/ \E d \in Drivers : DequeueShape(d) \/ PollShape(d)
              \/ ExecuteShape
<1> USE DEF serverVars, bridgeVars, driverVars, plcVars, UpstreamVars
<1>1. CASE WriteBadVariant \/ WriteEnqueue
  <2>1. issued + 1 \in Writes
    BY <1>1, PipelineAssumption
    DEF WriteBadVariant, WriteEnqueue, CanIssue, TypeOK, ServerTypeOK, Writes
  <2>. QED BY <1>1, <2>1 DEF WriteBadVariant, WriteEnqueue, IssueShape
<1>2. CASE Answer
  BY <1>2 DEF Answer, ClientReply, ClientTimeout, IdleShape
<1>3. CASE BridgeReject \/ BridgeTake
  BY <1>3 DEF BridgeReject, BridgeTake, BridgeFinish, TakeShape
<1>4. CASE BridgeSend
  BY <1>4 DEF BridgeSend, SendShape, DriverOf
<1>5. CASE BridgeSendTimeout \/ BridgeConfirmed \/ BridgeConfirmTimeout
           \/ BridgePollEmpty \/ BridgeCheckFlag \/ BridgeDisconnected
  BY <1>5 DEF BridgeSendTimeout, BridgeConfirmed, BridgeConfirmTimeout, BridgePollEmpty,
                BridgeCheckFlag, BridgeDisconnected,
              BridgeFinish, IdleShape
<1>6. ASSUME NEW d \in Drivers, Poller(d) \/ CycleStart(d) \/ PollerExit(d)
      PROVE  tagOf' = tagOf /\ (DequeueShape(d) \/ PollShape(d))
  <2>1. CASE TakeUnsupported(d) \/ TakeWrite(d)
    BY <2>1 DEF TakeUnsupported, TakeWrite, CanDrain, DequeueShape
  <2>2. CASE WriteOk(d) \/ WriteRefused(d)
    BY <2>2 DEF WriteOk, WriteRefused, FinishWrite, PollShape
  <2>3. CASE WriteLost(d)
    BY <2>3 DEF WriteLost, FinishWrite, PollShape
  <2>4. CASE DrainDone(d) \/ ReadCycle(d) \/ CycleStart(d) \/ PollerExit(d)
    BY <2>4 DEF DrainDone, ReadCycle, CycleStart, PollerExit, PollShape
  <2>. QED BY <1>6, <2>1, <2>2, <2>3, <2>4 DEF Poller
<1>7. CASE Plc
  BY <1>7 DEF Plc, PlcExecute, PlcExecuteLate, ExecuteShape
<1>8. CASE Main
  BY <1>8 DEF Main, CtrlC, DriverStopped, RunnerExit, IdleShape
<1>9. CASE UNCHANGED vars
  BY <1>9 DEF vars, IdleShape
<1>10. CASE Terminating
  BY <1>9, <1>10 DEF Terminating
<1>. QED BY <1>1, <1>2, <1>3, <1>4, <1>5, <1>6, <1>7, <1>8, <1>9, <1>10
         DEF Next, Server, Bridge

\* Once early, a write stays early.
LEMMA EarlyStable ==
    ASSUME TypeOK, UpstreamOrder, [Next]_vars, NEW x \in Nat, Early(x)
    PROVE  Early(x)'
<1> USE DEF TypeOK, ServerTypeOK, BridgeTypeOK, Writes
<1>1. CASE IssueShape
  <2>1. CASE bridgeQ' = bridgeQ
    BY <1>1, <2>1 DEF IssueShape, Early
  <2>2. CASE bridgeQ' = Append(bridgeQ, issued + 1)
    <3>1. \A i \in 1..Len(bridgeQ') : x < bridgeQ'[i]
      BY <1>1, <2>2, AppendFacts DEF IssueShape, Early
    <3>. QED BY <1>1, <3>1 DEF IssueShape, Early
  <2>. QED BY <1>1, <2>1, <2>2 DEF IssueShape
<1>2. CASE TakeShape
  <2>1. \A i \in 1..Len(bridgeQ') : x < bridgeQ'[i]
    BY <1>2, TailFacts DEF TakeShape, Early
  <2>2. x < Head(bridgeQ)
    BY <1>2, TailFacts DEF TakeShape, Early
  <2>. QED BY <1>2, <2>1, <2>2 DEF TakeShape, Early
<1>3. CASE SendShape
  BY <1>3 DEF SendShape, Early
<1>4. CASE IdleShape
  BY <1>4 DEF IdleShape, Early
<1>5. CASE (\E d \in Drivers : DequeueShape(d) \/ PollShape(d)) \/ ExecuteShape
  BY <1>5 DEF DequeueShape, PollShape, ExecuteShape, UpstreamVars, Early
<1>. QED BY <1>1, <1>2, <1>3, <1>4, <1>5, Shapes

\* Once old for a driver, a write stays old: nothing overtakes it.
LEMMA OldStable ==
    ASSUME TypeOK, UpstreamOrder, [Next]_vars, NEW d \in Drivers, NEW x \in Nat, Old(d, x)
    PROVE  Old(d, x)'
<1>1. Early(x)'
  BY EarlyStable DEF Old
<1>2. queue[d] \in Seq(Writes)
  BY DEF TypeOK, DriverTypeOK
<1>3. \A i \in 1..Len(queue'[d]) : x < queue'[d][i]
  <2>1. CASE SendShape
    <3>1. x < bridgeW /\ bridgeW \in Writes
      BY <2>1 DEF SendShape, Old, Early, TypeOK, BridgeTypeOK
    <3>2. CASE DriverOf(bridgeW) = d
      <4>1. queue'[d] = Append(queue[d], bridgeW)
        BY <2>1, <3>2 DEF SendShape, TypeOK, DriverTypeOK
      <4>. QED BY <1>2, <3>1, <4>1, AppendFacts DEF Old
    <3>3. CASE DriverOf(bridgeW) # d
      BY <2>1, <3>3 DEF SendShape, Old, TypeOK, DriverTypeOK
    <3>. QED BY <3>2, <3>3
  <2>2. ASSUME NEW e \in Drivers, DequeueShape(e)
        PROVE  \A i \in 1..Len(queue'[d]) : x < queue'[d][i]
    <3>1. CASE e = d
      <4>1. queue[d] # << >> /\ queue'[d] = Tail(queue[d])
        BY <2>2, <3>1 DEF DequeueShape, TypeOK, DriverTypeOK
      <4>. QED BY <1>2, <4>1, TailFacts DEF Old
    <3>2. CASE e # d
      BY <2>2, <3>2 DEF DequeueShape, Old, TypeOK, DriverTypeOK
    <3>. QED BY <3>1, <3>2
  <2>3. CASE queue' = queue
    BY <2>3 DEF Old
  <2>. QED BY <2>1, <2>2, <2>3, Shapes
           DEF IssueShape, TakeShape, IdleShape, PollShape, ExecuteShape
<1>. QED BY <1>1, <1>3 DEF Old

-----------------------------------------------------------------------------
(***************************************************************************)
(* The order is kept.                                                      *)
(***************************************************************************)

LEMMA ChannelStep ==
    ASSUME TypeOK, UpstreamOrder, [Next]_vars
    PROVE  ChannelOrder' /\ SendingOrder'
<1> USE DEF TypeOK, ServerTypeOK, BridgeTypeOK, Writes
<1>1. CASE IssueShape
  <2>1. CASE bridgeQ' = bridgeQ
    <3>1. \A i \in 1..Len(bridgeQ) : bridgeQ[i] \in Nat
      BY PipelineAssumption
    <3>. QED BY <1>1, <2>1, <3>1 DEF IssueShape, UpstreamOrder, ChannelOrder, SendingOrder
  <2>2. CASE bridgeQ' = Append(bridgeQ, issued + 1)
    <3>0. /\ Len(bridgeQ) \in Nat /\ Len(bridgeQ') = Len(bridgeQ) + 1
          /\ bridgeQ'[Len(bridgeQ) + 1] = issued + 1
          /\ \A i \in 1..Len(bridgeQ) : bridgeQ'[i] = bridgeQ[i] /\ bridgeQ[i] \in Nat
      BY <1>1, <2>2, AppendFacts, PipelineAssumption DEF IssueShape
    <3>1. ChannelOrder'
      <4>1. \A i \in 1..Len(bridgeQ) : bridgeQ'[i] < issued + 1
        BY <3>0 DEF UpstreamOrder, ChannelOrder
      <4>2. \A i \in 1..Len(bridgeQ') : bridgeQ'[i] <= issued'
        BY <1>1, <3>0, <4>1 DEF IssueShape
      <4>3. \A i, j \in 1..Len(bridgeQ') : i < j => bridgeQ'[i] < bridgeQ'[j]
        <5> TAKE i, j \in 1..Len(bridgeQ')
        <5>1. CASE j = Len(bridgeQ) + 1
          BY <3>0, <4>1, <5>1
        <5>2. CASE j \in 1..Len(bridgeQ)
          BY <3>0, <5>2 DEF UpstreamOrder, ChannelOrder
        <5>3. j = Len(bridgeQ) + 1 \/ j \in 1..Len(bridgeQ)
          BY <3>0
        <5>. QED BY <5>1, <5>2, <5>3
      <4>. QED BY <4>2, <4>3 DEF ChannelOrder
    <3>2. SendingOrder'
      BY <1>1, <2>2, AppendFacts DEF IssueShape, UpstreamOrder, SendingOrder
    <3>. QED BY <3>1, <3>2
  <2>. QED BY <1>1, <2>1, <2>2 DEF IssueShape
<1>2. CASE TakeShape
  <2>1. ChannelOrder'
    BY <1>2, TailFacts DEF TakeShape, UpstreamOrder, ChannelOrder
  <2>2. SendingOrder'
    BY <1>2, TailFacts DEF TakeShape, UpstreamOrder, ChannelOrder, SendingOrder
  <2>. QED BY <2>1, <2>2
<1>3. CASE SendShape \/ IdleShape
  BY <1>3 DEF SendShape, IdleShape, UpstreamOrder, ChannelOrder, SendingOrder
<1>4. CASE (\E d \in Drivers : DequeueShape(d) \/ PollShape(d)) \/ ExecuteShape
  BY <1>4 DEF DequeueShape, PollShape, ExecuteShape, UpstreamVars, UpstreamOrder,
              ChannelOrder, SendingOrder
<1>. QED BY <1>1, <1>2, <1>3, <1>4, Shapes

LEMMA QueueStep ==
    ASSUME TypeOK, UpstreamOrder, [Next]_vars PROVE QueueOrder'
<1> SUFFICES ASSUME NEW d \in Drivers
             PROVE  /\ \A i, j \in 1..Len(queue'[d]) : i < j => queue'[d][i] < queue'[d][j]
                    /\ \A w \in Writes : Queued(d, w)' => DriverOf(w)' = d /\ Early(w)'
  BY DEF QueueOrder
<1>1. queue[d] \in Seq(Writes) /\ \A i \in 1..Len(queue[d]) : queue[d][i] \in Writes
  BY DEF TypeOK, DriverTypeOK
<1>2. ASSUME NEW w \in Writes
      PROVE  w \in Nat /\ DriverOf(w)' = DriverOf(w) /\ (Early(w) => Early(w)')
  <2>1. w \in Nat
    BY PipelineAssumption DEF Writes
  <2>. QED BY <2>1, EarlyStable, Shapes DEF DriverOf
<1>3. ASSUME NEW w \in Writes, Queued(d, w) PROVE DriverOf(w)' = d /\ Early(w)'
  BY <1>2, <1>3 DEF UpstreamOrder, QueueOrder
<1>4. CASE queue'[d] = queue[d]
  BY <1>3, <1>4 DEF UpstreamOrder, QueueOrder, Queued
<1>5. CASE SendShape /\ DriverOf(bridgeW) = d
  <2>1. bridgeW \in Writes /\ queue'[d] = Append(queue[d], bridgeW)
    BY <1>5 DEF SendShape, TypeOK, BridgeTypeOK, DriverTypeOK
  <2>2. \A i \in 1..Len(queue[d]) : queue[d][i] < bridgeW
    BY <1>1, <1>5 DEF SendShape, UpstreamOrder, QueueOrder, Queued, Early
  <2>3. ASSUME NEW w \in Writes, Queued(d, w)' PROVE Queued(d, w) \/ w = bridgeW
    BY <1>1, <2>1, <2>3, AppendFacts DEF Queued
  <2>4. ASSUME NEW w \in Writes, w = bridgeW PROVE Early(w)' /\ DriverOf(w)' = d
    BY <1>2, <1>5, <2>4 DEF SendShape, UpstreamOrder, SendingOrder, Early
  <2>5. \A i, j \in 1..Len(queue'[d]) : i < j => queue'[d][i] < queue'[d][j]
    BY <1>1, <2>1, <2>2, AppendFacts DEF UpstreamOrder, QueueOrder
  <2>. QED BY <1>3, <2>3, <2>4, <2>5
<1>6. CASE DequeueShape(d)
  <2>1. queue[d] # << >> /\ queue'[d] = Tail(queue[d])
    BY <1>6 DEF DequeueShape, TypeOK, DriverTypeOK
  <2>2. /\ Len(queue'[d]) = Len(queue[d]) - 1 /\ Len(queue[d]) \in Nat
        /\ \A i \in 1..Len(queue'[d]) :
              i + 1 \in 1..Len(queue[d]) /\ queue'[d][i] = queue[d][i + 1]
    BY <1>1, <2>1, TailFacts
  <2>3. ASSUME NEW w \in Writes, Queued(d, w)' PROVE Queued(d, w)
    BY <2>2, <2>3 DEF Queued
  <2>4. \A i, j \in 1..Len(queue'[d]) : i < j => queue'[d][i] < queue'[d][j]
    BY <2>2 DEF UpstreamOrder, QueueOrder
  <2>. QED BY <1>3, <2>3, <2>4
<1>7. \/ queue'[d] = queue[d]
      \/ SendShape /\ DriverOf(bridgeW) = d
      \/ DequeueShape(d)
  <2>1. CASE SendShape
    BY <2>1 DEF SendShape, TypeOK, DriverTypeOK
  <2>2. ASSUME NEW e \in Drivers, DequeueShape(e), e # d PROVE queue'[d] = queue[d]
    BY <2>2 DEF DequeueShape, TypeOK, DriverTypeOK
  <2>. QED BY <2>1, <2>2, Shapes
           DEF IssueShape, TakeShape, IdleShape, PollShape, ExecuteShape
<1>. QED BY <1>4, <1>5, <1>6, <1>7

LEMMA ExchangeStep ==
    ASSUME TypeOK, UpstreamOrder, ExchangeOrder, [Next]_vars PROVE ExchangeOrder'
<1> SUFFICES ASSUME NEW d \in Drivers, NEW w \in Writes, poll'[d] = "io", cur'[d] = w
             PROVE  DriverOf(w)' = d /\ Old(d, w)'
  BY DEF ExchangeOrder
<1>1. w \in Nat /\ DriverOf(w)' = DriverOf(w)
  BY Shapes, PipelineAssumption DEF DriverOf, Writes
<1>2. CASE poll[d] = "io" /\ cur[d] = w
  BY <1>1, <1>2, OldStable DEF ExchangeOrder
<1>3. CASE DequeueShape(d) /\ w = Head(queue[d])
  <2>1. queue[d] \in Seq(Writes) /\ queue[d] # << >> /\ queue'[d] = Tail(queue[d])
    BY <1>3 DEF DequeueShape, TypeOK, DriverTypeOK
  <2>2. Queued(d, w)
    BY <1>3, <2>1, TailFacts DEF Queued
  <2>3. DriverOf(w) = d /\ Early(w)
    BY <2>2 DEF UpstreamOrder, QueueOrder
  <2>4. \A i \in 1..Len(queue'[d]) : w < queue'[d][i]
    <3>1. \A i \in 1..Len(queue[d]) : 1 < i => w < queue[d][i]
      BY <1>3, <2>1, TailFacts DEF UpstreamOrder, QueueOrder
    <3>. QED BY <2>1, <3>1, TailFacts
  <2>. QED BY <1>1, <2>3, <2>4, EarlyStable DEF Old
<1>4. ASSUME NEW e \in Drivers, DequeueShape(e) \/ PollShape(e)
      PROVE  \/ poll[d] = "io" /\ cur[d] = w
             \/ DequeueShape(d) /\ w = Head(queue[d])
  BY <1>4 DEF DequeueShape, PollShape, TypeOK, DriverTypeOK
<1>. QED BY <1>2, <1>3, <1>4, Shapes
         DEF IssueShape, TakeShape, SendShape, IdleShape, ExecuteShape

\* A write that is old for its driver stays behind the driver's exchange.
LEMMA BehindExchange ==
    ASSUME TypeOK, [Next]_vars, NEW d \in Drivers, NEW w \in Writes, Old(d, w),
           poll'[d] = "io"
    PROVE  (poll[d] = "io" /\ cur'[d] = cur[d]) \/ w < cur'[d]
<1>1. ASSUME NEW e \in Drivers, DequeueShape(e)
      PROVE  (poll[d] = "io" /\ cur'[d] = cur[d]) \/ w < cur'[d]
  <2>1. CASE e = d
    <3>1. queue[d] \in Seq(Writes) /\ queue[d] # << >>
      BY <1>1, <2>1 DEF DequeueShape, TypeOK, DriverTypeOK
    <3>2. w < Head(queue[d])
      BY <3>1, TailFacts DEF Old
    <3>. QED BY <1>1, <2>1, <3>2 DEF DequeueShape, TypeOK, DriverTypeOK
  <2>2. CASE e # d
    BY <1>1, <2>2 DEF DequeueShape, TypeOK, DriverTypeOK
  <2>. QED BY <2>1, <2>2
<1>2. ASSUME NEW e \in Drivers, PollShape(e)
      PROVE  poll[d] = "io" /\ cur'[d] = cur[d]
  BY <1>2 DEF PollShape, TypeOK, DriverTypeOK
<1>. QED BY <1>1, <1>2, Shapes
         DEF IssueShape, TakeShape, SendShape, IdleShape, ExecuteShape

LEMMA AppliedStep ==
    ASSUME TypeOK, OrderInv, [Next]_vars PROVE AppliedOrder'
<1> SUFFICES ASSUME NEW w \in applied'
             PROVE  /\ DriverOf(w)' \in Drivers
                    /\ Old(DriverOf(w), w)'
                    /\ poll'[DriverOf(w)'] = "io" => w <= cur'[DriverOf(w)']
  BY DEF AppliedOrder
<1>1. w \in Writes /\ w \in Nat
  BY TypeStep, PipelineAssumption DEF TypeOK, PlcTypeOK, Writes
<1> DEFINE d == DriverOf(w)
<1>2. tagOf' = tagOf /\ DriverOf(w)' = d
  BY Shapes DEF DriverOf
<1>3. /\ d \in Drivers
      /\ Old(d, w)
      /\ poll[d] = "io" => w <= cur[d]
  <2>1. CASE w \in applied
    BY <2>1 DEF OrderInv, AppliedOrder
  <2>2. CASE w \in abandoned
    BY <1>1, <2>2 DEF OrderInv, AbandonedOrder, TypeOK, DriverTypeOK, Writes
  <2>3. ASSUME NEW e \in Drivers, poll[e] = "io", w = cur[e] PROVE d = e /\ Old(d, w)
    BY <1>1, <2>3 DEF OrderInv, ExchangeOrder
  <2>4. w \in applied \/ w \in abandoned \/ \E e \in Drivers : poll[e] = "io" /\ w = cur[e]
    BY Shapes DEF IssueShape, TakeShape, SendShape, IdleShape, DequeueShape, PollShape,
                  ExecuteShape
  <2>. QED BY <1>1, <2>1, <2>2, <2>3, <2>4
<1>4. Old(d, w)'
  <2>1. \A e \in Drivers : Old(e, w) => Old(e, w)'
    BY <1>1, OldStable DEF OrderInv
  <2>. QED BY <1>2, <1>3, <2>1 DEF Old, DriverOf
<1>5. poll'[d] = "io" => w <= cur'[d]
  <2>1. cur'[d] \in Nat
    BY <1>3, TypeStep, PipelineAssumption DEF TypeOK, DriverTypeOK
  <2>. QED BY <1>1, <1>3, <2>1, BehindExchange
<1>. QED BY <1>2, <1>3, <1>4, <1>5

LEMMA AbandonedStep ==
    ASSUME TypeOK, OrderInv, [Next]_vars PROVE AbandonedOrder'
<1> SUFFICES ASSUME NEW w \in abandoned'
             PROVE  /\ DriverOf(w)' \in Drivers
                    /\ w \notin applied'
                    /\ Old(DriverOf(w), w)'
                    /\ poll'[DriverOf(w)'] = "io" => w < cur'[DriverOf(w)']
  BY DEF AbandonedOrder
<1>1. w \in Writes /\ w \in Nat
  BY TypeStep, PipelineAssumption DEF TypeOK, PlcTypeOK, Writes
<1> DEFINE d == DriverOf(w)
<1>2. tagOf' = tagOf /\ DriverOf(w)' = d
  BY Shapes DEF DriverOf
<1>3. CASE w \in abandoned
  <2>1. /\ d \in Drivers /\ w \notin applied /\ Old(d, w)
        /\ poll[d] = "io" => w < cur[d]
    BY <1>3 DEF OrderInv, AbandonedOrder
  <2>2. w \notin applied'
    <3>1. ASSUME NEW e \in Drivers, poll[e] = "io" PROVE w # cur[e]
      <4>1. cur[e] = w => DriverOf(w) = e
        BY <1>1, <3>1 DEF OrderInv, ExchangeOrder
      <4>2. cur[e] \in Nat
        BY PipelineAssumption DEF TypeOK, DriverTypeOK
      <4>. QED BY <1>1, <2>1, <3>1, <4>1, <4>2
    <3>. QED BY <2>1, <3>1, Shapes
             DEF IssueShape, TakeShape, SendShape, IdleShape, DequeueShape, PollShape,
                 ExecuteShape
  <2>3. Old(d, w)'
    <3>1. \A e \in Drivers : Old(e, w) => Old(e, w)'
      BY <1>1, OldStable DEF OrderInv
    <3>. QED BY <1>2, <2>1, <3>1 DEF Old, DriverOf
  <2>4. poll'[d] = "io" => w < cur'[d]
    BY <1>1, <2>1, BehindExchange
  <2>. QED BY <1>2, <2>1, <2>2, <2>3, <2>4
<1>4. CASE w \notin abandoned
  <2>1. PICK e \in Drivers :
          poll[e] = "io" /\ cur[e] = w /\ w \notin applied /\ PollShape(e)
    BY <1>4, Shapes DEF IssueShape, TakeShape, SendShape, IdleShape, DequeueShape,
                        PollShape, ExecuteShape
  <2>2. d = e /\ Old(e, w)
    BY <1>1, <2>1 DEF OrderInv, ExchangeOrder
  <2>3. poll'[e] # "io" /\ applied' = applied
    BY <2>1 DEF PollShape, TypeOK, DriverTypeOK
  <2>4. Old(d, w)'
    <3>1. \A f \in Drivers : Old(f, w) => Old(f, w)'
      BY <1>1, OldStable DEF OrderInv
    <3>. QED BY <1>2, <2>2, <3>1 DEF Old, DriverOf
  <2>. QED BY <1>2, <2>1, <2>2, <2>3, <2>4
<1>. QED BY <1>3, <1>4

LEMMA OrderStep == TypeOK /\ OrderInv /\ [Next]_vars => OrderInv'
BY ChannelStep, QueueStep, ExchangeStep, AppliedStep, AbandonedStep
DEF OrderInv, UpstreamOrder

-----------------------------------------------------------------------------
(***************************************************************************)
(* PLC memory and confirmations.                                           *)
(***************************************************************************)

LEMMA MemoryStep ==
    ASSUME TypeOK, OrderInv, PlcMemory, [Next]_vars PROVE PlcMemory'
<1>0. /\ tagOf \in [Writes -> Tags] /\ applied \subseteq Writes /\ abandoned \subseteq Writes
      /\ plc \in [Tags -> 0..MaxWrites] /\ tagOf' = tagOf
      /\ \A w \in Writes : w \in Nat
  BY Shapes, PipelineAssumption DEF TypeOK, ServerTypeOK, PlcTypeOK, Writes
<1>1. ASSUME NEW d \in Drivers, PlcExecute(d) PROVE PlcMemory'
  <2>1. PICK v \in Writes : v = cur[d]
    BY <1>1 DEF PlcExecute, TypeOK, DriverTypeOK
  <2>2. DriverOf(v) = d
    BY <1>1, <2>1 DEF PlcExecute, OrderInv, ExchangeOrder
  <2>3. \A w \in applied : tagOf[w] = tagOf[v] => w <= v
    BY <1>1, <2>1, <2>2 DEF PlcExecute, OrderInv, AppliedOrder, DriverOf
  <2>4. /\ applied' = applied \union {v} /\ stomped' = stomped
        /\ plc' = [plc EXCEPT ![tagOf[v]] = v]
    BY <1>1, <2>1 DEF PlcExecute
  <2>. QED BY <1>0, <2>3, <2>4 DEF PlcMemory
<1>2. ASSUME NEW w \in Writes, PlcExecuteLate(w) PROVE PlcMemory'
  BY <1>0, <1>2 DEF PlcExecuteLate, PlcMemory
<1>3. CASE UNCHANGED <<plc, applied, stomped>>
  BY <1>0, <1>3 DEF PlcMemory
<1>4. ASSUME NEW d \in Drivers, Poller(d) \/ CycleStart(d) \/ PollerExit(d)
      PROVE  UNCHANGED <<plc, applied, stomped>>
  BY <1>4 DEF Poller, TakeUnsupported, TakeWrite, WriteOk, WriteRefused, WriteLost,
              DrainDone, ReadCycle, CycleStart, PollerExit, plcVars
<1>5. CASE Server \/ Bridge \/ Main \/ Terminating \/ UNCHANGED vars
  <2>1. UNCHANGED <<plc, applied, stomped>>
    BY <1>5 DEF Server, WriteBadVariant, WriteEnqueue, Answer, ClientReply, ClientTimeout,
                Bridge, BridgeReject, BridgeTake, BridgeSend, BridgeSendTimeout,
                BridgeConfirmed, BridgeConfirmTimeout, BridgePollEmpty,
                BridgeCheckFlag, BridgeDisconnected,
                Main, CtrlC, DriverStopped, RunnerExit, Terminating, vars, plcVars
  <2>. QED BY <1>3, <2>1
<1>. QED BY <1>1, <1>2, <1>3, <1>4, <1>5 DEF Next, Plc

\* Only an answer of the PLC creates a confirmation; the bridge thread and the
\* server loop pass it on.
LEMMA ConfirmedFrom ==
    ASSUME TypeOK, [Next]_vars, NEW w \in Writes, Confirmed(w)'
    PROVE  Confirmed(w) \/ \E d \in Drivers : WriteOk(d) /\ w = cur[d]
<1> USE DEF Confirmed
<1>1. CASE WriteBadVariant \/ WriteEnqueue
  BY <1>1 DEF WriteBadVariant, WriteEnqueue, AckStatus, TypeOK, ServerTypeOK, bridgeVars,
              driverVars
<1>2. CASE Answer
  BY <1>2 DEF Answer, ClientReply, ClientTimeout, TypeOK, ServerTypeOK, bridgeVars, driverVars
<1>3. CASE Bridge
  <2>1. ASSUME NEW v \in Writes, BridgeFinish(v, "err") PROVE reply'[w] = "ok" => reply[w] = "ok"
    BY <2>1 DEF BridgeFinish, TypeOK, BridgeTypeOK
  <2>2. CASE BridgeReject
    <3>1. Head(bridgeQ) \in Writes
      BY <2>2, TailFacts DEF BridgeReject, TypeOK, BridgeTypeOK
    <3>. QED BY <2>1, <2>2, <3>1 DEF BridgeReject, serverVars, driverVars
  <2>3. CASE BridgeSendTimeout \/ BridgeConfirmTimeout
    <3>1. bridgeW \in Writes
      BY <2>3 DEF BridgeSendTimeout, BridgeConfirmTimeout, TypeOK, BridgeTypeOK
    <3>. QED BY <2>1, <2>3, <3>1
             DEF BridgeSendTimeout, BridgeConfirmTimeout, serverVars, driverVars
  <2>4. CASE BridgeConfirmed
    BY <2>4 DEF BridgeConfirmed, BridgeFinish, TypeOK, BridgeTypeOK, serverVars, driverVars
  <2>5. CASE BridgeTake \/ BridgeSend \/ BridgePollEmpty \/ BridgeCheckFlag
           \/ BridgeDisconnected
    BY <2>5 DEF BridgeTake, BridgeSend, BridgePollEmpty,
                BridgeCheckFlag, BridgeDisconnected, serverVars, driverVars
  <2>. QED BY <1>3, <2>2, <2>3, <2>4, <2>5 DEF Bridge
<1>4. ASSUME NEW d \in Drivers, Poller(d) \/ CycleStart(d) \/ PollerExit(d)
      PROVE  Confirmed(w) \/ (WriteOk(d) /\ w = cur[d])
  <2>1. CASE TakeUnsupported(d)
    <3>1. Head(queue[d]) \in Writes
      BY <2>1, TailFacts DEF TakeUnsupported, CanDrain, TypeOK, DriverTypeOK
    <3>. QED BY <2>1, <3>1
             DEF TakeUnsupported, TypeOK, DriverTypeOK, serverVars, bridgeVars
  <2>2. CASE WriteOk(d)
    BY <2>2 DEF WriteOk, FinishWrite, TypeOK, DriverTypeOK, serverVars, bridgeVars
  <2>3. CASE WriteRefused(d) \/ WriteLost(d)
    BY <2>3 DEF WriteRefused, WriteLost, FinishWrite, TypeOK, DriverTypeOK, serverVars,
                bridgeVars
  <2>4. CASE TakeWrite(d) \/ DrainDone(d) \/ ReadCycle(d) \/ CycleStart(d) \/ PollerExit(d)
    BY <2>4 DEF TakeWrite, DrainDone, ReadCycle, CycleStart, PollerExit, serverVars, bridgeVars
  <2>. QED BY <1>4, <2>1, <2>2, <2>3, <2>4 DEF Poller
<1>5. CASE Plc \/ Main \/ Terminating \/ UNCHANGED vars
  BY <1>5 DEF Plc, PlcExecute, PlcExecuteLate, Main, CtrlC, DriverStopped, RunnerExit,
              Terminating, vars, serverVars, bridgeVars, driverVars
<1>. QED BY <1>1, <1>2, <1>3, <1>4, <1>5 DEF Next, Server

\* A tag's registry value comes from the PLC's memory or from a confirmed write.
LEMMA RegistryFrom ==
    ASSUME TypeOK, [Next]_vars, NEW t \in Tags
    PROVE  \/ reg'[t] = reg[t]
           \/ reg'[t] = plc[t]
           \/ \E d \in Drivers : WriteOk(d) /\ t = tagOf[cur[d]] /\ reg'[t] = cur[d]
<1>1. ASSUME NEW d \in Drivers, Poller(d) \/ CycleStart(d) \/ PollerExit(d)
      PROVE  \/ reg'[t] = reg[t]
             \/ reg'[t] = plc[t]
             \/ WriteOk(d) /\ t = tagOf[cur[d]] /\ reg'[t] = cur[d]
  <2>1. CASE WriteOk(d)
    BY <2>1 DEF WriteOk, TypeOK, DriverTypeOK
  <2>2. CASE ReadCycle(d)
    BY <2>2 DEF ReadCycle
  <2>3. CASE UNCHANGED reg
    BY <2>3
  <2>. QED BY <1>1, <2>1, <2>2, <2>3
           DEF Poller, TakeUnsupported, TakeWrite, WriteRefused, WriteLost, DrainDone,
               CycleStart, PollerExit
<1>2. CASE Server \/ Bridge \/ Plc \/ Main \/ Terminating \/ UNCHANGED vars
  BY <1>2 DEF Server, WriteBadVariant, WriteEnqueue, Answer, ClientReply, ClientTimeout,
              Bridge, BridgeReject, BridgeTake, BridgeSend, BridgeSendTimeout,
              BridgeConfirmed, BridgeConfirmTimeout, BridgePollEmpty, BridgeCheckFlag,
              BridgeDisconnected, Plc, PlcExecute,
              PlcExecuteLate, Main, CtrlC, DriverStopped, RunnerExit, Terminating, vars,
              driverVars
<1>. QED BY <1>1, <1>2 DEF Next

\* Executions and late executions are never undone.
LEMMA HistoryGrows ==
    ASSUME [Next]_vars PROVE applied \subseteq applied' /\ stomped \subseteq stomped'
<1>1. ASSUME NEW d \in Drivers, Poller(d) \/ CycleStart(d) \/ PollerExit(d)
      PROVE  UNCHANGED <<applied, stomped>>
  BY <1>1 DEF Poller, TakeUnsupported, TakeWrite, WriteOk, WriteRefused, WriteLost,
              DrainDone, ReadCycle, CycleStart, PollerExit, plcVars
<1>2. CASE Server \/ Bridge \/ Main \/ Terminating \/ UNCHANGED vars
  BY <1>2 DEF Server, WriteBadVariant, WriteEnqueue, Answer, ClientReply, ClientTimeout,
              Bridge, BridgeReject, BridgeTake, BridgeSend, BridgeSendTimeout,
              BridgeConfirmed, BridgeConfirmTimeout, BridgePollEmpty,
                BridgeCheckFlag, BridgeDisconnected,
              Main, CtrlC, DriverStopped, RunnerExit, Terminating, vars, plcVars
<1>3. CASE Plc
  BY <1>3 DEF Plc, PlcExecute, PlcExecuteLate
<1>. QED BY <1>1, <1>2, <1>3 DEF Next

LEMMA TruthfulStep ==
    ASSUME TypeOK, OrderInv, PlcMemory, Truthful, [Next]_vars PROVE Truthful'
<1> SUFFICES ASSUME NEW w \in Writes, Confirmed(w)'
             PROVE  w \in applied' /\ (tagOf'[w] \notin stomped' => w <= reg'[tagOf'[w]])
  BY DEF Truthful
<1> DEFINE t == tagOf[w]
<1>1. t \in Tags /\ tagOf' = tagOf /\ w \in Nat
  BY Shapes, PipelineAssumption DEF TypeOK, ServerTypeOK, Writes
<1>2. applied \subseteq applied' /\ stomped \subseteq stomped'
  BY HistoryGrows
<1>3. ASSUME NEW d \in Drivers, WriteOk(d), w = cur[d] PROVE w \in applied /\ w <= reg'[t]
  BY <1>1, <1>3 DEF WriteOk, TypeOK, DriverTypeOK
<1>4. CASE Confirmed(w)
  <2>1. w \in applied /\ (t \notin stomped => w <= reg[t])
    BY <1>4 DEF Truthful
  <2>2. t \notin stomped => w <= plc[t]
    BY <1>1, <2>1 DEF PlcMemory
  <2>3. ASSUME NEW d \in Drivers, WriteOk(d), t = tagOf[cur[d]], reg'[t] = cur[d]
        PROVE  w <= reg'[t]
    <3>1. PICK v \in Writes : v = cur[d]
      BY <2>3 DEF WriteOk, TypeOK, DriverTypeOK
    <3>2. DriverOf(v) = d
      BY <2>3, <3>1 DEF WriteOk, OrderInv, ExchangeOrder
    <3>3. DriverOf(w) = d
      BY <2>3, <3>1, <3>2 DEF DriverOf
    <3>4. w <= cur[d]
      BY <2>1, <2>3, <3>3 DEF WriteOk, OrderInv, AppliedOrder
    <3>. QED BY <2>3, <3>4
  <2>4. t \notin stomped => w <= reg'[t]
    BY <1>1, <2>1, <2>2, <2>3, RegistryFrom
  <2>. QED BY <1>1, <1>2, <2>1, <2>4
<1>. QED BY <1>1, <1>2, <1>3, <1>4, ConfirmedFrom

-----------------------------------------------------------------------------
(***************************************************************************)
(* The theorems.                                                           *)
(***************************************************************************)

LEMMA InitInv == Init => IInv
<1> SUFFICES ASSUME Init PROVE IInv
  OBVIOUS
<1>1. TypeOK
  BY InitType
<1>2. OrderInv
  BY PipelineAssumption
  DEF Init, OrderInv, UpstreamOrder, ChannelOrder, SendingOrder, QueueOrder, Queued,
      ExchangeOrder, AppliedOrder, AbandonedOrder, Drivers, Writes
<1>3. PlcMemory
  BY DEF Init, PlcMemory
<1>4. Truthful
  BY DEF Init, Truthful, Confirmed
<1>. QED BY <1>1, <1>2, <1>3, <1>4 DEF IInv

LEMMA StepInv == IInv /\ [Next]_vars => IInv'
BY TypeStep, OrderStep, MemoryStep, TruthfulStep DEF IInv

\* The inductive invariant: issue order along the path, and what it implies for
\* the PLC's memory and for confirmations.
THEOREM Invariance == Spec => []IInv
BY InitInv, StepInv, PTL DEF Spec

\* For every configuration, a ConfirmedAck client that is told "good" is told so
\* of a write the PLC executed (TagDataSource::write, handle_write, the drivers).
THEOREM ConfirmedTheorem == Spec => []ConfirmedMeansApplied
<1>1. IInv => ConfirmedMeansApplied
  BY DEF IInv, Truthful, Confirmed, ConfirmedMeansApplied
<1>. QED BY Invariance, <1>1, PTL

\* For every configuration, a confirmed write is visible to client reads, unless
\* the PLC executed an abandoned frame for the tag.
THEOREM ReadYourWriteTheorem == Spec => []ReadYourWrite
<1>1. IInv => ReadYourWrite
  <2> SUFFICES ASSUME IInv, WriteMode = "ConfirmedAck", NEW w \in Writes,
                      status[w] = "good", tagOf[w] \notin stomped
               PROVE  reg[tagOf[w]] >= w
    BY DEF ReadYourWrite
  <2>1. w <= reg[tagOf[w]]
    BY DEF IInv, Truthful, Confirmed
  <2>2. w \in Nat /\ reg[tagOf[w]] \in Nat
    BY PipelineAssumption DEF IInv, TypeOK, ServerTypeOK, DriverTypeOK, Writes
  <2>. QED BY <2>1, <2>2
<1>. QED BY Invariance, <1>1, PTL

\* For every configuration, no write is executed twice or waits in two places:
\* a queued write is newer than all that was executed or abandoned.
THEOREM NoDuplicateTheorem == Spec => []NoDuplicateExecution
<1>1. IInv => NoDuplicateExecution
  <2> SUFFICES ASSUME IInv, NEW w \in Writes
               PROVE  /\ InQueue(w) => w \notin applied /\ w \notin abandoned /\ ~AtPlc(w)
                      /\ w \in abandoned => w \notin applied /\ ~AtPlc(w)
    BY DEF NoDuplicateExecution
  <2>0. w \in Nat
    BY PipelineAssumption DEF Writes
  <2>1. ASSUME NEW d \in Drivers, Old(d, w) PROVE ~Queued(d, w)
    BY <2>0, <2>1 DEF Old, Queued
  <2>2. ASSUME NEW d \in Drivers, Queued(d, w) PROVE DriverOf(w) = d
    BY <2>2 DEF IInv, OrderInv, UpstreamOrder, QueueOrder
  <2>3. ASSUME InQueue(w) PROVE w \notin applied /\ w \notin abandoned /\ ~AtPlc(w)
    <3>1. PICK d \in Drivers : Queued(d, w)
      BY <2>3 DEF InQueue, Queued
    <3>2. DriverOf(w) = d /\ ~Old(d, w)
      BY <2>1, <2>2, <3>1
    <3>. QED BY <3>2 DEF IInv, OrderInv, AppliedOrder, AbandonedOrder, ExchangeOrder, AtPlc
  <2>4. ASSUME w \in abandoned PROVE w \notin applied /\ ~AtPlc(w)
    <3>1. w \notin applied /\ (poll[DriverOf(w)] = "io" => w < cur[DriverOf(w)])
      BY <2>4 DEF IInv, OrderInv, AbandonedOrder
    <3>2. ASSUME NEW d \in Drivers, poll[d] = "io", cur[d] = w PROVE FALSE
      BY <2>0, <3>1, <3>2 DEF IInv, OrderInv, ExchangeOrder
    <3>. QED BY <3>1, <3>2 DEF AtPlc
  <2>. QED BY <2>3, <2>4
<1>. QED BY Invariance, <1>1, PTL

\* For every configuration, a PLC executes the writes of a tag in issue order,
\* abandoned frames excepted.
THEOREM IssueOrderTheorem == Spec => PlcFollowsIssueOrder
<1>1. IInv /\ [Next]_vars => [\A t \in Tags : plc'[t] >= plc[t] \/ t \in stomped']_vars
  <2> SUFFICES ASSUME IInv, [Next]_vars, NEW t \in Tags
               PROVE  plc'[t] >= plc[t] \/ t \in stomped'
    OBVIOUS
  <2>0. plc \in [Tags -> 0..MaxWrites] /\ plc[t] \in Nat
    BY PipelineAssumption DEF IInv, TypeOK, PlcTypeOK
  <2>1. ASSUME NEW d \in Drivers, PlcExecute(d) PROVE plc'[t] >= plc[t]
    <3>1. PICK v \in Writes : v = cur[d]
      BY <2>1 DEF PlcExecute, IInv, TypeOK, DriverTypeOK
    <3>2. DriverOf(v) = d /\ v \in Nat
      BY <2>1, <3>1, PipelineAssumption DEF PlcExecute, IInv, OrderInv, ExchangeOrder, Writes
    <3>3. plc[t] = 0 \/ (plc[t] \in applied /\ tagOf[plc[t]] = t)
      BY DEF IInv, PlcMemory
    <3>4. t = tagOf[v] => plc[t] <= v
      BY <2>1, <3>1, <3>2, <3>3 DEF PlcExecute, IInv, OrderInv, AppliedOrder, DriverOf
    <3>. QED BY <2>0, <2>1, <3>1, <3>2, <3>4 DEF PlcExecute
  <2>2. ASSUME NEW w \in Writes, PlcExecuteLate(w) PROVE plc'[t] >= plc[t] \/ t \in stomped'
    BY <2>0, <2>2 DEF PlcExecuteLate
  <2>3. CASE UNCHANGED plc
    BY <2>0, <2>3
  <2>4. ASSUME NEW d \in Drivers, Poller(d) \/ CycleStart(d) \/ PollerExit(d)
        PROVE  UNCHANGED plc
    BY <2>4 DEF Poller, TakeUnsupported, TakeWrite, WriteOk, WriteRefused, WriteLost,
                DrainDone, ReadCycle, CycleStart, PollerExit, plcVars
  <2>5. CASE Server \/ Bridge \/ Main \/ Terminating \/ UNCHANGED vars
    <3>1. UNCHANGED plc
      BY <2>5 DEF Server, WriteBadVariant, WriteEnqueue, Answer, ClientReply, ClientTimeout,
                  Bridge, BridgeReject, BridgeTake, BridgeSend, BridgeSendTimeout,
                  BridgeConfirmed, BridgeConfirmTimeout, BridgePollEmpty,
                BridgeCheckFlag, BridgeDisconnected,
                  Main, CtrlC, DriverStopped, RunnerExit, Terminating, vars, plcVars
    <3>. QED BY <2>3, <3>1
  <2>. QED BY <2>1, <2>2, <2>3, <2>4, <2>5 DEF Next, Plc
<1>. QED BY Invariance, <1>1, PTL DEF Spec, PlcFollowsIssueOrder

-----------------------------------------------------------------------------
(***************************************************************************)
(* What is true when the process ends.                                     *)
(***************************************************************************)

\* The runner does not end while a client waits, and no client is served after.
EndInv ==
    /\ \A w \in Writes : w <= issued => status[w] # "none"
    /\ RunnerExited => \A w \in Writes : status[w] # "waiting"

LEMMA EndStep == TypeOK /\ EndInv /\ [Next]_vars => EndInv'
<1> SUFFICES ASSUME TypeOK, EndInv, [Next]_vars PROVE EndInv'
  OBVIOUS
<1> USE PipelineAssumption DEF EndInv, RunnerExited
<1>1. CASE WriteBadVariant \/ WriteEnqueue
  <2>1. \A w \in Writes : w <= issued' => w <= issued \/ w = issued + 1
    BY <1>1 DEF WriteBadVariant, WriteEnqueue, TypeOK, ServerTypeOK, Writes
  <2>. QED BY <1>1, <2>1
           DEF WriteBadVariant, WriteEnqueue, AckStatus, CanIssue, TypeOK, ServerTypeOK
<1>2. CASE Answer
  BY <1>2 DEF Answer, ClientReply, ClientTimeout, TypeOK, ServerTypeOK
<1>3. CASE Bridge
  BY <1>3 DEF Bridge, BridgeReject, BridgeTake, BridgeSend, BridgeSendTimeout,
              BridgeConfirmed, BridgeConfirmTimeout, BridgePollEmpty, BridgeCheckFlag,
              BridgeDisconnected, serverVars
<1>4. ASSUME NEW d \in Drivers, Poller(d) \/ CycleStart(d) \/ PollerExit(d)
      PROVE  UNCHANGED <<issued, status, stop>>
  BY <1>4 DEF Poller, TakeUnsupported, TakeWrite, WriteOk, WriteRefused, WriteLost,
              DrainDone, ReadCycle, CycleStart, PollerExit, serverVars
<1>5. CASE Main
  BY <1>5 DEF Main, CtrlC, DriverStopped, RunnerExit, LoopBusy, TypeOK, ServerTypeOK,
              Drivers, serverVars
<1>6. CASE Plc \/ Terminating \/ UNCHANGED vars
  BY <1>6 DEF Plc, PlcExecute, PlcExecuteLate, Terminating, vars, serverVars
<1>. QED BY <1>1, <1>2, <1>3, <1>4, <1>5, <1>6 DEF Next, Server

\* For every configuration, when the process ends in ConfirmedAck mode every
\* client has been answered, and the client of a write that is left in the bridge
\* channel was told that it failed (native.rs, the server task and the bridge
\* thread; types.rs, ServerHandle::wait).
THEOREM StrandedTheorem == Spec => []StrandedIsToldBad
<1>1. Init => EndInv
  BY PipelineAssumption DEF Init, EndInv, RunnerExited, Writes
<1>2. IInv /\ EndInv => StrandedIsToldBad
  <2> SUFFICES ASSUME IInv, EndInv, WriteMode = "ConfirmedAck", Terminated
               PROVE  /\ \A w \in Writes : w <= issued => status[w] \in {"good", "bad"}
                      /\ \A i \in 1..Len(bridgeQ) : status[bridgeQ[i]] = "bad"
    BY DEF StrandedIsToldBad
  <2>1. ASSUME NEW w \in Writes, w <= issued PROVE status[w] \in {"good", "bad"}
    BY <2>1 DEF EndInv, Terminated, IInv, TypeOK, ServerTypeOK
  <2>2. ASSUME NEW i \in 1..Len(bridgeQ) PROVE status[bridgeQ[i]] = "bad"
    <3>1. bridgeQ[i] \in Writes /\ bridgeQ[i] <= issued
      BY <2>2 DEF IInv, TypeOK, BridgeTypeOK, OrderInv, UpstreamOrder, ChannelOrder
    <3>2. ~Early(bridgeQ[i])
      BY <2>2, <3>1, PipelineAssumption DEF Early, Writes
    <3>3. bridgeQ[i] \notin applied
      BY <3>1, <3>2 DEF IInv, OrderInv, AppliedOrder, Old
    <3>4. status[bridgeQ[i]] # "good"
      BY <3>1, <3>3 DEF IInv, Truthful, Confirmed
    <3>. QED BY <2>1, <3>1, <3>4
  <2>. QED BY <2>1, <2>2
<1>. QED BY TypeCorrect, Invariance, EndStep, <1>1, <1>2, PTL DEF Spec

-----------------------------------------------------------------------------
(***************************************************************************)
(* The drivers implement DriverContract.                                   *)
(***************************************************************************)

\* Answered writes: behind everything their driver still has to do.
AnsweredOrder ==
    \A w \in Writes : confirm[w] # "none" =>
        LET d == DriverOf(w) IN
            /\ d \in Drivers
            /\ Old(d, w)
            /\ poll[d] = "io" => w < cur[d]

\* Driver d answers the write w, which it just took or had at the PLC.
AnswerShape(d, w, r) ==
    /\ confirm' = [confirm EXCEPT ![w] = r]
    /\ \/ /\ poll[d] = "draining" /\ queue[d] # << >> /\ w = Head(queue[d])
          /\ queue' = [queue EXCEPT ![d] = Tail(queue[d])]
          /\ UNCHANGED <<poll, cur>>
       \/ /\ poll[d] = "io" /\ w = cur[d]
          /\ \E n \in {"idle", "draining"} : poll' = [poll EXCEPT ![d] = n]
          /\ cur' = [cur EXCEPT ![d] = 0]
          /\ UNCHANGED queue

\* The driver side stands still: no poller enters, leaves or changes an exchange.
StillShape ==
    /\ UNCHANGED <<queue, cur>>
    /\ \/ UNCHANGED poll
       \/ \E e \in Drivers : \E n \in {"idle", "draining", "reading", "exited"} :
            poll[e] # "io" /\ poll' = [poll EXCEPT ![e] = n]

\* What a step does to what a driver holds and has answered.
LEMMA DriverMoves ==
    ASSUME TypeOK, [Next]_vars
    PROVE  \/ \E d \in Drivers : \E w \in Writes : \E r \in {"ok", "err"} : AnswerShape(d, w, r)
           \/ UNCHANGED confirm /\ (BridgeSend \/ StillShape \/ \E d \in Drivers : TakeWrite(d))
<1> USE DEF driverVars
<1>1. CASE Server \/ Plc \/ Main \/ Terminating \/ UNCHANGED vars
  BY <1>1 DEF Server, WriteBadVariant, WriteEnqueue, Answer, ClientReply, ClientTimeout,
              Plc, PlcExecute, PlcExecuteLate, Main, CtrlC, DriverStopped, RunnerExit,
              Terminating, vars, StillShape
<1>2. CASE Bridge
  BY <1>2 DEF Bridge, BridgeReject, BridgeTake, BridgeSend, BridgeSendTimeout,
              BridgeConfirmed, BridgeConfirmTimeout, BridgePollEmpty,
              BridgeCheckFlag, BridgeDisconnected, StillShape
<1>3. ASSUME NEW d \in Drivers, Poller(d) \/ CycleStart(d) \/ PollerExit(d)
      PROVE  \/ \E w \in Writes : \E r \in {"ok", "err"} : AnswerShape(d, w, r)
             \/ UNCHANGED confirm /\ (StillShape \/ TakeWrite(d))
  <2>1. CASE TakeUnsupported(d)
    <3>1. Head(queue[d]) \in Writes
      BY <2>1, TailFacts DEF TakeUnsupported, CanDrain, TypeOK, DriverTypeOK
    <3>2. AnswerShape(d, Head(queue[d]), "err")
      BY <2>1 DEF TakeUnsupported, CanDrain, AnswerShape
    <3>. QED BY <3>1, <3>2
  <2>2. CASE TakeWrite(d)
    BY <2>2 DEF TakeWrite
  <2>3. CASE WriteOk(d) \/ WriteRefused(d) \/ WriteLost(d)
    <3>1. PICK r \in {"ok", "err"}, n \in {"idle", "draining"} :
            poll[d] = "io" /\ FinishWrite(d, r, n) /\ UNCHANGED queue
      BY <2>3 DEF WriteOk, WriteRefused, WriteLost
    <3>2. cur[d] \in Writes
      BY <3>1 DEF TypeOK, DriverTypeOK
    <3>3. AnswerShape(d, cur[d], r)
      BY <3>1 DEF FinishWrite, AnswerShape
    <3>. QED BY <3>2, <3>3
  <2>4. CASE DrainDone(d) \/ ReadCycle(d) \/ CycleStart(d) \/ PollerExit(d)
    BY <2>4 DEF DrainDone, ReadCycle, CycleStart, PollerExit, StillShape
  <2>. QED BY <1>3, <2>1, <2>2, <2>3, <2>4 DEF Poller
<1>. QED BY <1>1, <1>2, <1>3 DEF Next

\* The write a driver answers is its own and the oldest it holds.
LEMMA AnswersOldest ==
    ASSUME TypeOK, OrderInv, AnsweredOrder,
           NEW d \in Drivers, NEW w \in Writes, NEW r \in {"ok", "err"}, AnswerShape(d, w, r)
    PROVE  /\ DriverOf(w) = d /\ Early(w) /\ confirm[w] = "none"
           /\ poll'[d] # "io" /\ queue'[d] \in Seq(Writes)
           /\ \A i \in 1..Len(queue'[d]) : w < queue'[d][i]
           /\ \A e \in Drivers : e # d =>
                queue'[e] = queue[e] /\ poll'[e] = poll[e] /\ cur'[e] = cur[e]
<1>0. w \in Nat /\ queue[d] \in Seq(Writes)
  BY PipelineAssumption DEF TypeOK, DriverTypeOK, Writes
<1>1. CASE poll[d] = "io"
  <2>1. w = cur[d] /\ UNCHANGED queue /\ poll'[d] # "io"
    BY <1>1 DEF AnswerShape, TypeOK, DriverTypeOK
  <2>2. DriverOf(w) = d /\ Old(d, w)
    BY <1>1, <2>1 DEF OrderInv, ExchangeOrder
  <2>3. confirm[w] = "none"
    BY <1>0, <1>1, <2>1, <2>2 DEF AnsweredOrder
  <2>4. \A e \in Drivers : e # d =>
          queue'[e] = queue[e] /\ poll'[e] = poll[e] /\ cur'[e] = cur[e]
    BY <1>1 DEF AnswerShape, TypeOK, DriverTypeOK
  <2>. QED BY <1>0, <2>1, <2>2, <2>3, <2>4 DEF Old
<1>2. CASE poll[d] # "io"
  <2>1. /\ queue[d] # << >> /\ w = Head(queue[d]) /\ UNCHANGED <<poll, cur>>
        /\ queue' = [queue EXCEPT ![d] = Tail(queue[d])]
    BY <1>2 DEF AnswerShape
  <2>2. Queued(d, w) /\ ~Old(d, w)
    BY <1>0, <2>1, TailFacts DEF Queued, Old
  <2>3. DriverOf(w) = d /\ Early(w)
    BY <2>2 DEF OrderInv, UpstreamOrder, QueueOrder
  <2>4. confirm[w] = "none"
    BY <2>2, <2>3 DEF AnsweredOrder
  <2>5. queue'[d] = Tail(queue[d])
    BY <2>1 DEF TypeOK, DriverTypeOK
  <2>6. \A i \in 1..Len(queue[d]) : 1 < i => w < queue[d][i]
    BY <1>0, <2>1, TailFacts DEF OrderInv, UpstreamOrder, QueueOrder
  <2>7. queue'[d] \in Seq(Writes) /\ \A i \in 1..Len(queue'[d]) : w < queue'[d][i]
    <3>1. queue[d] # << >>
      BY <2>1
    <3>2. \A i \in 1..Len(Tail(queue[d])) : w < Tail(queue[d])[i]
      BY <1>0, <2>6, <3>1, TailFacts
    <3>. QED BY <1>0, <2>5, <3>1, <3>2, TailFacts
  <2>8. \A e \in Drivers : e # d =>
          queue'[e] = queue[e] /\ poll'[e] = poll[e] /\ cur'[e] = cur[e]
    BY <2>1 DEF TypeOK, DriverTypeOK
  <2>. QED BY <1>2, <2>1, <2>3, <2>4, <2>7, <2>8
<1>. QED BY <1>1, <1>2

LEMMA AnsweredStep ==
    ASSUME TypeOK, OrderInv, AnsweredOrder, [Next]_vars PROVE AnsweredOrder'
<1> SUFFICES ASSUME NEW w \in Writes, confirm'[w] # "none"
             PROVE  /\ DriverOf(w)' \in Drivers
                    /\ Old(DriverOf(w), w)'
                    /\ poll'[DriverOf(w)'] = "io" => w < cur'[DriverOf(w)']
  BY DEF AnsweredOrder
<1> DEFINE d == DriverOf(w)
<1>1. w \in Nat /\ tagOf' = tagOf /\ DriverOf(w)' = d
  BY Shapes, PipelineAssumption DEF DriverOf, Writes
<1>2. CASE confirm[w] # "none"
  <2>1. d \in Drivers /\ Old(d, w) /\ (poll[d] = "io" => w < cur[d])
    BY <1>2 DEF AnsweredOrder
  <2>2. Old(d, w)'
    <3>1. \A e \in Drivers : Old(e, w) => Old(e, w)'
      BY <1>1, OldStable DEF OrderInv
    <3>. QED BY <1>1, <2>1, <3>1 DEF Old, DriverOf
  <2>3. poll'[d] = "io" => w < cur'[d]
    BY <1>1, <2>1, BehindExchange
  <2>. QED BY <1>1, <2>1, <2>2, <2>3
<1>3. CASE confirm[w] = "none"
  <2>1. PICK e \in Drivers, v \in Writes, r \in {"ok", "err"} : AnswerShape(e, v, r)
    BY <1>3, DriverMoves
  <2>2. v = w
    BY <1>3, <2>1 DEF AnswerShape, TypeOK, DriverTypeOK
  <2>3. /\ d = e /\ Early(w) /\ poll'[e] # "io"
        /\ \A i \in 1..Len(queue'[e]) : w < queue'[e][i]
    BY <2>1, <2>2, AnswersOldest
  <2>4. Early(w)'
    BY <1>1, <2>3, EarlyStable DEF OrderInv
  <2>5. Old(d, w)'
    BY <1>1, <2>3, <2>4 DEF Old, DriverOf
  <2>. QED BY <1>1, <2>3, <2>5
<1>. QED BY <1>2, <1>3

\* What a driver holds, by the state of its poller.
LEMMA HeldIs ==
    ASSUME TypeOK, NEW d \in Drivers
    PROVE  /\ poll[d] # "io" => Held(d) = queue[d]
           /\ poll[d] = "io" =>
                /\ Held(d) = <<cur[d]>> \o queue[d]
                /\ Held(d) # << >> /\ Head(Held(d)) = cur[d] /\ Tail(Held(d)) = queue[d]
<1>1. queue[d] \in Seq(Writes) /\ (poll[d] = "io" => cur[d] \in Writes)
  BY DEF TypeOK, DriverTypeOK
<1>2. CASE poll[d] = "io"
  <2>1. Held(d) = <<cur[d]>> \o queue[d]
    BY <1>2 DEF Held
  <2>2. ASSUME NEW x \in Writes, NEW s \in Seq(Writes)
        PROVE  <<x>> \o s # << >> /\ Head(<<x>> \o s) = x /\ Tail(<<x>> \o s) = s
    OBVIOUS
  <2>. QED BY <1>1, <1>2, <2>1, <2>2
<1>3. CASE poll[d] # "io"
  <2>1. Held(d) = << >> \o queue[d]
    BY <1>3 DEF Held
  <2>. QED BY <1>1, <1>3, <2>1
<1>. QED BY <1>2, <1>3

\* An answer is the contract's Reply for its driver and invisible to the others.
LEMMA ReplyStep ==
    ASSUME TypeOK, TypeOK', OrderInv, AnsweredOrder, tagOf' = tagOf, NEW d \in Drivers,
           NEW e \in Drivers, NEW w \in Writes, NEW r \in {"ok", "err"}, AnswerShape(e, w, r)
    PROVE  [Contract(d)!Next]_<<Held(d), AnswersOf(d)>>
<1>1. /\ DriverOf(w) = e /\ confirm[w] = "none" /\ poll'[e] # "io"
      /\ \A f \in Drivers : f # e =>
           queue'[f] = queue[f] /\ poll'[f] = poll[f] /\ cur'[f] = cur[f]
  BY AnswersOldest
<1>2. confirm' = [confirm EXCEPT ![w] = r] /\ confirm \in [Writes -> {"none", "ok", "err"}]
  BY DEF AnswerShape, TypeOK, DriverTypeOK
<1>3. CASE d # e
  <2>1. Held(d)' = Held(d)
    BY <1>1, <1>3 DEF Held
  <2>2. AnswersOf(d)' = AnswersOf(d)
    BY <1>1, <1>2, <1>3 DEF AnswersOf, DriverOf
  <2>. QED BY <2>1, <2>2
<1>4. CASE d = e
  <2>1. AnswersOf(d)[w] = "none"
    BY <1>1, <1>4 DEF AnswersOf, DriverOf
  <2>2. AnswersOf(d)' = [AnswersOf(d) EXCEPT ![w] = r]
    BY <1>1, <1>2, <1>4 DEF AnswersOf, DriverOf
  <2>3. Held(d)' = queue'[d]
    <3>1. queue'[d] \in Seq(Writes)
      BY DEF TypeOK, DriverTypeOK
    <3>. QED BY <1>1, <1>4, <3>1 DEF Held
  <2>4. Held(d) # << >> /\ Head(Held(d)) = w /\ queue'[d] = Tail(Held(d))
    <3>1. CASE poll[d] = "io"
      BY <1>4, <3>1, HeldIs DEF AnswerShape
    <3>2. CASE poll[d] # "io"
      <4>1. /\ queue[d] # << >> /\ w = Head(queue[d])
            /\ queue' = [queue EXCEPT ![d] = Tail(queue[d])]
        BY <1>4, <3>2 DEF AnswerShape
      <4>2. queue'[d] = Tail(queue[d])
        BY <4>1 DEF TypeOK, DriverTypeOK
      <4>3. Held(d) = queue[d]
        BY <3>2, HeldIs
      <4>. QED BY <4>1, <4>2, <4>3
    <3>. QED BY <3>1, <3>2
  <2>5. Contract(d)!Reply(r)
    BY <2>1, <2>2, <2>3, <2>4 DEF Contract!Reply
  <2>. QED BY <2>5 DEF Contract!Next
<1>. QED BY <1>3, <1>4

\* A request that enters a queue is the contract's Submit: it is new to the driver.
LEMMA SubmitStep ==
    ASSUME TypeOK, OrderInv, AnsweredOrder, tagOf' = tagOf, confirm' = confirm, BridgeSend,
           NEW d \in Drivers
    PROVE  [Contract(d)!Next]_<<Held(d), AnswersOf(d)>>
<1> DEFINE w == bridgeW
<1>1. /\ w \in Writes /\ w \in Nat /\ DriverOf(w) \in Drivers
      /\ bridgePc = "sending" /\ UNCHANGED <<poll, cur>>
      /\ queue' = [queue EXCEPT ![DriverOf(w)] = Append(queue[DriverOf(w)], w)]
  BY PipelineAssumption DEF BridgeSend, TypeOK, BridgeTypeOK, Writes, DriverOf
<1>2. AnswersOf(d)' = AnswersOf(d)
  BY DEF AnswersOf
<1>3. ~Early(w)
  BY <1>1 DEF Early
<1>4. CASE DriverOf(w) # d
  <2>1. queue'[d] = queue[d]
    BY <1>1, <1>4 DEF TypeOK, DriverTypeOK
  <2>2. Held(d)' = Held(d)
    BY <1>1, <2>1 DEF Held
  <2>. QED BY <1>2, <2>2
<1>5. CASE DriverOf(w) = d
  <2>1. queue'[d] = Append(queue[d], w) /\ queue[d] \in Seq(Writes)
    BY <1>1, <1>5 DEF TypeOK, DriverTypeOK
  <2>2. AnswersOf(d)[w] = "none"
    <3>1. confirm[w] = "none"
      BY <1>1, <1>3 DEF AnsweredOrder, Old
    <3>. QED BY <1>1, <3>1 DEF AnswersOf
  <2>3. Held(d)' = Append(Held(d), w)
    <3>1. CASE poll[d] = "io"
      <4>1. cur[d] \in Writes
        BY <3>1 DEF TypeOK, DriverTypeOK
      <4>2. Held(d)' = <<cur[d]>> \o Append(queue[d], w) /\ Held(d) = <<cur[d]>> \o queue[d]
        BY <1>1, <2>1, <3>1 DEF Held
      <4>. QED BY <1>1, <2>1, <4>1, <4>2
    <3>2. CASE poll[d] # "io"
      <4>1. Held(d)' = << >> \o Append(queue[d], w) /\ Held(d) = << >> \o queue[d]
        BY <1>1, <2>1, <3>2 DEF Held
      <4>. QED BY <1>1, <2>1, <4>1
    <3>. QED BY <3>1, <3>2
  <2>4. ASSUME NEW i \in 1..Len(Held(d)) PROVE Held(d)[i] # w
    <3>1. \A j \in 1..Len(queue[d]) : queue[d][j] # w
      BY <1>1, <1>3, <2>1 DEF OrderInv, UpstreamOrder, QueueOrder, Queued
    <3>2. CASE poll[d] # "io"
      BY <2>4, <3>1, <3>2, HeldIs
    <3>3. CASE poll[d] = "io"
      <4>1. cur[d] \in Writes /\ cur[d] # w
        BY <1>1, <1>3, <3>3 DEF OrderInv, ExchangeOrder, Old, TypeOK, DriverTypeOK
      <4>2. Held(d) = <<cur[d]>> \o queue[d]
        BY <3>3, HeldIs
      <4>3. Held(d)[i] = cur[d] \/ (i - 1 \in 1..Len(queue[d]) /\ Held(d)[i] = queue[d][i - 1])
        BY <2>1, <2>4, <4>1, <4>2
      <4>. QED BY <3>1, <4>1, <4>3
    <3>. QED BY <3>2, <3>3
  <2>5. Contract(d)!Submit(w)
    BY <1>2, <2>2, <2>3, <2>4 DEF Contract!Submit, Contract!Waiting
  <2>. QED BY <1>1, <2>5 DEF Contract!Next
<1>. QED BY <1>4, <1>5

\* Every step is, for each driver, a step of its contract or invisible to it.
LEMMA ContractStep ==
    ASSUME TypeOK, TypeOK', OrderInv, AnsweredOrder, [Next]_vars, NEW d \in Drivers
    PROVE  [Contract(d)!Next]_<<Held(d), AnswersOf(d)>>
<1>1. tagOf' = tagOf
  BY Shapes
<1>2. CASE \E e \in Drivers : \E w \in Writes : \E r \in {"ok", "err"} : AnswerShape(e, w, r)
  BY <1>1, <1>2, ReplyStep
<1>3. CASE confirm' = confirm /\ BridgeSend
  BY <1>1, <1>3, SubmitStep
<1>4. ASSUME confirm' = confirm, Held(d)' = Held(d)
      PROVE  [Contract(d)!Next]_<<Held(d), AnswersOf(d)>>
  <2>1. AnswersOf(d)' = AnswersOf(d)
    BY <1>1, <1>4 DEF AnswersOf
  <2>. QED BY <1>4, <2>1
<1>5. ASSUME StillShape PROVE Held(d)' = Held(d)
  <2>1. queue' = queue /\ cur' = cur /\ (poll'[d] = "io" <=> poll[d] = "io")
    BY <1>5 DEF StillShape, TypeOK, DriverTypeOK
  <2>. QED BY <2>1 DEF Held
<1>6. ASSUME NEW e \in Drivers, TakeWrite(e) PROVE Held(d)' = Held(d)
  <2>1. CASE e # d
    BY <1>6, <2>1 DEF TakeWrite, Held, TypeOK, DriverTypeOK
  <2>2. CASE e = d
    <3>1. /\ poll[d] = "draining" /\ queue[d] # << >> /\ queue[d] \in Seq(Writes)
          /\ queue'[d] = Tail(queue[d]) /\ cur'[d] = Head(queue[d]) /\ poll'[d] = "io"
      BY <1>6, <2>2 DEF TakeWrite, CanDrain, TypeOK, DriverTypeOK
    <3>2. Held(d) = queue[d] /\ Held(d)' = <<Head(queue[d])>> \o Tail(queue[d])
      BY <3>1, HeldIs DEF Held
    <3>. QED BY <3>1, <3>2
  <2>. QED BY <2>1, <2>2
<1>. QED BY <1>2, <1>3, <1>4, <1>5, <1>6, DriverMoves

\* For every configuration, each driver of the pipeline keeps the promise of
\* DriverContract: whatever handle_write gave up on, a request in a driver's queue
\* gets one answer, in the order of the queue, and none is lost or answered twice.
THEOREM ContractTheorem == Spec => DriversFulfilContract
<1>1. Init => AnsweredOrder /\ \A d \in Drivers : Contract(d)!Init
  <2> SUFFICES ASSUME Init PROVE AnsweredOrder /\ \A d \in Drivers : Contract(d)!Init
    OBVIOUS
  <2>1. AnsweredOrder
    BY DEF Init, AnsweredOrder
  <2>2. ASSUME NEW d \in Drivers PROVE Held(d) = << >> /\ AnswersOf(d) = [w \in Writes |-> "none"]
    BY <2>2 DEF Init, Held, AnswersOf
  <2>. QED BY <2>1, <2>2 DEF Contract!Init
<1>2. IInv /\ AnsweredOrder /\ [Next]_vars => AnsweredOrder'
  BY AnsweredStep DEF IInv
<1>3. IInv /\ IInv' /\ AnsweredOrder /\ [Next]_vars =>
        [\A d \in Drivers : [Contract(d)!Next]_<<Held(d), AnswersOf(d)>>]_vars
  BY ContractStep DEF IInv
<1>. QED BY <1>1, <1>2, <1>3, Invariance, PTL DEF Spec, DriversFulfilContract
=============================================================================
