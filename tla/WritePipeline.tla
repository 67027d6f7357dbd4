--------------------------- MODULE WritePipeline ---------------------------
(***************************************************************************)
(* The path of an OPC UA client write through the bridge, from the         *)
(* server's DataSource callback to the PLC and back:                       *)
(*                                                                         *)
(*   server loop -> bridge channel -> bridge thread (handle_write)         *)
(*     -> bounded queue of the tag's driver -> poll cycle -> PLC           *)
(*     -> oneshot confirmation -> bridge thread -> reply -> server loop    *)
(*                                                                         *)
(* together with the shutdown sequence of main.  A write is identified by  *)
(* its rank in the order the server loop issues it; 0 stands for "the      *)
(* value the PLC held before any client write".  The quality of a tag is   *)
(* left out here: ModbusCycle has it, with the reads that decide it.       *)
(***************************************************************************)
EXTENDS Integers, Sequences

CONSTANTS
    MaxWrites,      \* bound: number of client writes that are issued
    NumDrivers,     \* drivers, in the order main starts and stops them
    Tags,           \* tags of the registry
    Writable,       \* tags whose definition (and mapping) is writable
    Route,          \* driver of each tag, 0 when its PLC has no driver
    Protocol,       \* protocol of each driver
    RegisterTags,   \* tags a Modbus mapping reads as HoldingRegisters
    QueueCap,       \* capacity of a driver's write queue (256)
    DrainMax,       \* writes a driver takes in one cycle (64)
    WriteMode       \* "QueuedAck" or "ConfirmedAck"

Drivers == 1..NumDrivers
Writes == 1..MaxWrites
DriverTags(d) == {t \in Tags : Route[t] = d}

ASSUME PipelineAssumption ==
    /\ MaxWrites \in Nat
    /\ NumDrivers \in Nat
    /\ Writable \subseteq Tags
    /\ Route \in [Tags -> 0..NumDrivers]
    /\ Protocol \in [1..NumDrivers -> {"modbus", "fins"}]
    /\ RegisterTags \subseteq Tags
    /\ QueueCap \in Nat \ {0}
    /\ DrainMax \in Nat \ {0}
    /\ WriteMode \in {"QueuedAck", "ConfirmedAck"}

VARIABLES
    issued,         \* writes the server loop has accepted from clients so far
    tagOf,          \* tag addressed by each issued write
    status,         \* OPC UA result given to the client of each write
    reply,          \* BridgeWrite.reply channel of each write
    bridgeQ,        \* BridgeWrite channel, unbounded
    bridgePc,       \* write bridge thread: where it is in its loop
    bridgeW,        \* write bridge thread: the write it is handling
    queue,          \* per driver: the bounded mpsc of WriteRequests
    confirm,        \* oneshot from the driver back to handle_write
    poll,           \* per driver: where its poller task is
    cur,            \* per driver: the write whose frame is at the PLC, or 0
    drained,        \* per driver: writes taken in the current cycle
    reg,            \* TagRegistry: the write each tag's value stems from
    plc,            \* PLC memory: last write executed for each tag
    applied,        \* writes the PLC has executed
    abandoned,      \* frames sent whose answer the driver stopped waiting for
    stomped,        \* tags an abandoned frame was executed for
    stop            \* progress of main's shutdown sequence

serverVars == <<issued, tagOf, status>>
bridgeVars == <<reply, bridgeQ, bridgePc, bridgeW>>
driverVars == <<queue, confirm, poll, cur, drained, reg>>
plcVars == <<plc, applied, abandoned, stomped>>
vars == <<issued, tagOf, status, reply, bridgeQ, bridgePc, bridgeW, queue, confirm,
          poll, cur, drained, reg, plc, applied, abandoned, stomped, stop>>

RunnerExited == stop = NumDrivers + 2
\* Fault: stop() joins the poller task before it sends the signal.
StopSignalAfterJoin(d) == stop > d
StopRequested(d) == stop >= d

Init ==
    /\ issued = 0
    /\ tagOf \in [Writes -> Tags]
    /\ status = [w \in Writes |-> "none"]
    /\ reply = [w \in Writes |-> "none"]
    /\ bridgeQ = << >>
    /\ bridgePc = "recv"
    /\ bridgeW = 0
    /\ queue = [d \in Drivers |-> << >>]
    /\ confirm = [w \in Writes |-> "none"]
    /\ poll = [d \in Drivers |-> "idle"]
    /\ cur = [d \in Drivers |-> 0]
    /\ drained = [d \in Drivers |-> 0]
    /\ reg = [t \in Tags |-> 0]
    /\ plc = [t \in Tags |-> 0]
    /\ applied = {}
    /\ abandoned = {}
    /\ stomped = {}
    /\ stop = 0

-----------------------------------------------------------------------------
(***************************************************************************)
(* TagDataSource::write.  It runs synchronously on the server loop, so the *)
(* loop serves one client write at a time and a ConfirmedAck write holds   *)
(* the loop until it is answered.                                          *)
(***************************************************************************)

LoopBusy == \E w \in Writes : status[w] = "waiting"

CanIssue == issued < MaxWrites /\ ~LoopBusy /\ ~RunnerExited

\* The variant is missing or does not convert to the tag's data type.
WriteBadVariant ==
    /\ CanIssue
    /\ issued' = issued + 1
    /\ status' = [status EXCEPT ![issued + 1] = "bad"]
    /\ UNCHANGED <<tagOf, bridgeVars, driverVars, plcVars, stop>>

\* The write enters the bridge channel; QueuedAck answers at once.
AckStatus == IF WriteMode = "QueuedAck" THEN "good" ELSE "waiting"

WriteEnqueue ==
    /\ CanIssue
    /\ issued' = issued + 1
    /\ bridgeQ' = Append(bridgeQ, issued + 1)
    /\ status' = [status EXCEPT ![issued + 1] = AckStatus]
    /\ UNCHANGED <<tagOf, reply, bridgePc, bridgeW, driverVars, plcVars, stop>>

\* Fault: only a positive reply ends the wait.
IgnoreErrorReply(w) ==
    /\ status[w] = "waiting"
    /\ reply[w] = "ok"
    /\ status' = [status EXCEPT ![w] = "good"]
    /\ UNCHANGED <<issued, tagOf, bridgeVars, driverVars, plcVars, stop>>

\* recv_timeout delivers the bridge thread's reply.
ClientReply(w) ==
    /\ status[w] = "waiting"
    /\ reply[w] # "none"
    /\ status' = [status EXCEPT ![w] = IF reply[w] = "ok" THEN "good" ELSE "bad"]
    /\ UNCHANGED <<issued, tagOf, bridgeVars, driverVars, plcVars, stop>>

\* recv_timeout gives up: the client is told the write failed.
ClientTimeout(w) ==
    /\ status[w] = "waiting"
    /\ reply[w] = "none"
    /\ status' = [status EXCEPT ![w] = "bad"]
    /\ UNCHANGED <<issued, tagOf, bridgeVars, driverVars, plcVars, stop>>

-----------------------------------------------------------------------------
(***************************************************************************)
(* The write bridge thread: one write at a time through                    *)
(* RuntimeWriteHandler::handle_write.                                      *)
(***************************************************************************)

\* handle_write's checks: the tag is writable and has a driver route.
Accepts(t) == t \in Writable /\ Route[t] # 0

\* The thread sends handle_write's result to the client, if the client asked
\* for one and still waits, and goes back to the channel.
BridgeFinish(w, result) ==
    /\ bridgePc' = "recv"
    /\ bridgeW' = 0
    /\ reply' = IF status[w] = "waiting"
                THEN [reply EXCEPT ![w] = result]
                ELSE reply

BridgeReject ==
    /\ bridgePc = "recv"
    /\ bridgeQ # << >>
    /\ ~Accepts(tagOf[Head(bridgeQ)])
    /\ bridgeQ' = Tail(bridgeQ)
    /\ BridgeFinish(Head(bridgeQ), "err")
    /\ UNCHANGED <<serverVars, driverVars, plcVars, stop>>

BridgeTake ==
    /\ bridgePc = "recv"
    /\ bridgeQ # << >>
    /\ Accepts(tagOf[Head(bridgeQ)])
    /\ bridgeQ' = Tail(bridgeQ)
    /\ bridgePc' = "sending"
    /\ bridgeW' = Head(bridgeQ)
    /\ UNCHANGED <<serverVars, reply, driverVars, plcVars, stop>>

\* Fault: the capacity is off by one.
QueueFullOffByOne(d) == Len(queue[d]) > QueueCap

QueueFull(d) == Len(queue[d]) >= QueueCap

\* tx.send(drv_req) completes: the request is in the driver's queue.
BridgeSend ==
    /\ bridgePc = "sending"
    /\ LET d == Route[tagOf[bridgeW]] IN
        /\ ~QueueFull(d)
        /\ queue' = [queue EXCEPT ![d] = Append(@, bridgeW)]
    /\ bridgePc' = "confirming"
    /\ UNCHANGED <<serverVars, reply, bridgeQ, bridgeW, confirm, poll, cur, drained, reg,
                   plcVars, stop>>

\* driver_send_timeout expires while the queue is full: the request is dropped.
BridgeSendTimeout ==
    /\ bridgePc = "sending"
    /\ QueueFull(Route[tagOf[bridgeW]])
    /\ BridgeFinish(bridgeW, "err")
    /\ UNCHANGED <<serverVars, bridgeQ, driverVars, plcVars, stop>>

\* The driver's confirmation arrives.
BridgeConfirmed ==
    /\ bridgePc = "confirming"
    /\ confirm[bridgeW] # "none"
    /\ BridgeFinish(bridgeW, confirm[bridgeW])
    /\ UNCHANGED <<serverVars, bridgeQ, driverVars, plcVars, stop>>

\* Fault: an unconfirmed write counts as done.
ConfirmTimeoutIsOk ==
    /\ bridgePc = "confirming"
    /\ confirm[bridgeW] = "none"
    /\ BridgeFinish(bridgeW, "ok")
    /\ UNCHANGED <<serverVars, bridgeQ, driverVars, plcVars, stop>>

\* Fault: the confirmation is awaited without a timeout.
NoConfirmTimeout == FALSE /\ UNCHANGED vars

\* Fault: an unconfirmed write is retried, behind later ones.
RetryUnconfirmed ==
    /\ bridgePc = "confirming"
    /\ confirm[bridgeW] = "none"
    /\ bridgeQ' = Append(bridgeQ, bridgeW)
    /\ bridgePc' = "recv"
    /\ bridgeW' = 0
    /\ UNCHANGED <<serverVars, reply, driverVars, plcVars, stop>>

\* confirm_timeout expires: the request stays in the driver's queue.
BridgeConfirmTimeout ==
    /\ bridgePc = "confirming"
    /\ confirm[bridgeW] = "none"
    /\ BridgeFinish(bridgeW, "err")
    /\ UNCHANGED <<serverVars, bridgeQ, driverVars, plcVars, stop>>

\* The channel stayed empty for the 100 ms poll.  The flag is looked at only
\* afterwards, so a write may slip in between.
BridgePollEmpty ==
    /\ bridgePc = "recv"
    /\ bridgeQ = << >>
    /\ bridgePc' = "checking"
    /\ UNCHANGED <<serverVars, reply, bridgeQ, bridgeW, driverVars, plcVars, stop>>

BridgeCheckFlag ==
    /\ bridgePc = "checking"
    /\ bridgePc' = IF RunnerExited THEN "exited" ELSE "recv"
    /\ UNCHANGED <<serverVars, reply, bridgeQ, bridgeW, driverVars, plcVars, stop>>

\* All senders of the empty channel are gone.
BridgeDisconnected ==
    /\ bridgePc = "recv"
    /\ bridgeQ = << >>
    /\ RunnerExited
    /\ bridgePc' = "exited"
    /\ UNCHANGED <<serverVars, reply, bridgeQ, bridgeW, driverVars, plcVars, stop>>

-----------------------------------------------------------------------------
(***************************************************************************)
(* A driver's poll cycle: drain queued writes, then read.                  *)
(***************************************************************************)

\* The ticker fires.  select! may choose it even when a stop is requested.
CycleStart(d) ==
    /\ poll[d] = "idle"
    /\ poll' = [poll EXCEPT ![d] = "draining"]
    /\ drained' = [drained EXCEPT ![d] = 0]
    /\ UNCHANGED <<serverVars, bridgeVars, queue, confirm, cur, reg, plcVars, stop>>

PollerExit(d) ==
    /\ poll[d] = "idle"
    /\ StopRequested(d)
    /\ poll' = [poll EXCEPT ![d] = "exited"]
    /\ UNCHANGED <<serverVars, bridgeVars, queue, confirm, cur, drained, reg,
                   plcVars, stop>>

CanDrain(d) ==
    /\ poll[d] = "draining"
    /\ drained[d] < DrainMax
    /\ queue[d] # << >>

\* Modbus writes only mappings read as HoldingRegisters; FINS writes any area.
WritesSupported(d, t) == Protocol[d] = "fins" \/ t \in RegisterTags

\* A write the driver has no function for is refused without an exchange.
TakeUnsupported(d) ==
    /\ CanDrain(d)
    /\ ~WritesSupported(d, tagOf[Head(queue[d])])
    /\ queue' = [queue EXCEPT ![d] = Tail(@)]
    /\ drained' = [drained EXCEPT ![d] = @ + 1]
    /\ confirm' = [confirm EXCEPT ![Head(queue[d])] = "err"]
    /\ UNCHANGED <<serverVars, bridgeVars, poll, cur, reg, plcVars, stop>>

\* The request leaves the queue and its frame goes to the PLC.
TakeWrite(d) ==
    /\ CanDrain(d)
    /\ WritesSupported(d, tagOf[Head(queue[d])])
    /\ queue' = [queue EXCEPT ![d] = Tail(@)]
    /\ drained' = [drained EXCEPT ![d] = @ + 1]
    /\ cur' = [cur EXCEPT ![d] = Head(queue[d])]
    /\ poll' = [poll EXCEPT ![d] = "io"]
    /\ UNCHANGED <<serverVars, bridgeVars, confirm, reg, plcVars, stop>>

\* The exchange is over: reply to the oneshot, go on draining or leave the cycle.
FinishWrite(d, result, next) ==
    /\ confirm' = [confirm EXCEPT ![cur[d]] = result]
    /\ cur' = [cur EXCEPT ![d] = 0]
    /\ poll' = [poll EXCEPT ![d] = next]

\* Fault: the write is confirmed and the registry left to the next read.
ConfirmWithoutPublish(d) ==
    /\ poll[d] = "io"
    /\ cur[d] \in applied
    /\ FinishWrite(d, "ok", "draining")
    /\ UNCHANGED <<serverVars, bridgeVars, queue, drained, reg, plcVars, stop>>

\* The PLC acknowledged: publish the value as Good, then confirm.
WriteOk(d) ==
    /\ poll[d] = "io"
    /\ cur[d] \in applied
    /\ reg' = [reg EXCEPT ![tagOf[cur[d]]] = cur[d]]
    /\ FinishWrite(d, "ok", "draining")
    /\ UNCHANGED <<serverVars, bridgeVars, queue, drained, plcVars, stop>>

\* Fault: the reply of a refused write is forgotten.
RefusedUnanswered(d) ==
    /\ poll[d] = "io"
    /\ cur[d] \notin applied
    /\ cur' = [cur EXCEPT ![d] = 0]
    /\ poll' = [poll EXCEPT ![d] = "draining"]
    /\ UNCHANGED <<serverVars, bridgeVars, queue, confirm, drained, reg, plcVars, stop>>

\* The PLC refused: a Modbus "Illegal ..." exception, a FINS end code.
WriteRefused(d) ==
    /\ poll[d] = "io"
    /\ cur[d] \notin applied
    /\ FinishWrite(d, "err", "draining")
    /\ UNCHANGED <<serverVars, bridgeVars, queue, drained, reg, plcVars, stop>>

\* Fault: a lost write is put back in the queue.
RequeueLostWrite(d) ==
    /\ poll[d] = "io"
    /\ queue' = [queue EXCEPT ![d] = Append(@, cur[d])]
    /\ FinishWrite(d, "err", IF Protocol[d] = "modbus" THEN "idle" ELSE "draining")
    /\ abandoned' = IF cur[d] \in applied THEN abandoned ELSE abandoned \union {cur[d]}
    /\ UNCHANGED <<serverVars, bridgeVars, drained, reg, plc, applied, stomped, stop>>

\* Transport error, timeout, other exception, foreign SID, unreadable response:
\* the driver stops waiting, but the frame may still be executed.  Modbus drops the connection
\* and leaves the cycle; FINS goes on with the next write.
WriteLost(d) ==
    /\ poll[d] = "io"
    /\ FinishWrite(d, "err", IF Protocol[d] = "modbus" THEN "idle" ELSE "draining")
    /\ abandoned' = IF cur[d] \in applied THEN abandoned ELSE abandoned \union {cur[d]}
    /\ UNCHANGED <<serverVars, bridgeVars, queue, drained, reg, plc, applied, stomped,
                   stop>>

DrainDone(d) ==
    /\ poll[d] = "draining"
    /\ queue[d] = << >> \/ drained[d] = DrainMax
    /\ poll' = [poll EXCEPT ![d] = "reading"]
    /\ UNCHANGED <<serverVars, bridgeVars, queue, confirm, cur, drained, reg,
                   plcVars, stop>>

\* The reads of the cycle refresh some tags of the driver from the PLC; the
\* others keep their value (a failed, ignored or unreached group).
ReadCycle(d) ==
    /\ poll[d] = "reading"
    /\ \E refreshed \in SUBSET DriverTags(d) :
         reg' = [t \in Tags |-> IF t \in refreshed THEN plc[t] ELSE reg[t]]
    /\ poll' = [poll EXCEPT ![d] = "idle"]
    /\ UNCHANGED <<serverVars, bridgeVars, queue, confirm, cur, drained, plcVars, stop>>

-----------------------------------------------------------------------------
(***************************************************************************)
(* The PLC (external): it executes the frame of the current exchange, and  *)
(* may execute an abandoned one at any later time.                         *)
(***************************************************************************)

PlcExecute(d) ==
    /\ poll[d] = "io"
    /\ cur[d] \notin applied
    /\ applied' = applied \union {cur[d]}
    /\ plc' = [plc EXCEPT ![tagOf[cur[d]]] = cur[d]]
    /\ UNCHANGED <<serverVars, bridgeVars, driverVars, abandoned, stomped, stop>>

PlcExecuteLate(w) ==
    /\ w \in abandoned
    /\ abandoned' = abandoned \ {w}
    /\ applied' = applied \union {w}
    /\ plc' = [plc EXCEPT ![tagOf[w]] = w]
    /\ stomped' = stomped \union {tagOf[w]}
    /\ UNCHANGED <<serverVars, bridgeVars, driverVars, stop>>

-----------------------------------------------------------------------------
(***************************************************************************)
(* main's shutdown: stop = d in Drivers while main awaits driver d's       *)
(* stop(), NumDrivers + 1 once the server was told to shut down,           *)
(* NumDrivers + 2 once its runner has returned.                            *)
(***************************************************************************)

CtrlC ==
    /\ stop = 0
    /\ stop' = 1
    /\ UNCHANGED <<serverVars, bridgeVars, driverVars, plcVars>>

\* stop() of the current driver returns once its poller task has ended.
DriverStopped ==
    /\ stop \in Drivers
    /\ poll[stop] = "exited"
    /\ stop' = stop + 1
    /\ UNCHANGED <<serverVars, bridgeVars, driverVars, plcVars>>

\* Fault: the runner is cancelled in the middle of a request.
RunnerAborted ==
    /\ stop = NumDrivers + 1
    /\ stop' = stop + 1
    /\ UNCHANGED <<serverVars, bridgeVars, driverVars, plcVars>>

\* The runner sees the flag between two client requests.
RunnerExit ==
    /\ stop = NumDrivers + 1
    /\ ~LoopBusy
    /\ stop' = stop + 1
    /\ UNCHANGED <<serverVars, bridgeVars, driverVars, plcVars>>

Terminated == RunnerExited /\ bridgePc = "exited"
Terminating == Terminated /\ UNCHANGED vars

-----------------------------------------------------------------------------
Answer == \E w \in Writes : ClientReply(w) \/ ClientTimeout(w)

Server == WriteBadVariant \/ WriteEnqueue \/ Answer

Bridge ==
    \/ BridgeReject
    \/ BridgeTake
    \/ BridgeSend
    \/ BridgeSendTimeout
    \/ BridgeConfirmed
    \/ BridgeConfirmTimeout
    \/ BridgePollEmpty
    \/ BridgeCheckFlag
    \/ BridgeDisconnected

Poller(d) ==
    \/ TakeUnsupported(d)
    \/ TakeWrite(d)
    \/ WriteOk(d)
    \/ WriteRefused(d)
    \/ WriteLost(d)
    \/ DrainDone(d)
    \/ ReadCycle(d)

Plc ==
    \/ \E d \in Drivers : PlcExecute(d)
    \/ \E w \in Writes : PlcExecuteLate(w)

Main == CtrlC \/ DriverStopped \/ RunnerExit

Next ==
    \/ Server
    \/ Bridge
    \/ \E d \in Drivers : Poller(d) \/ CycleStart(d) \/ PollerExit(d)
    \/ Plc
    \/ Main
    \/ Terminating

Spec == Init /\ [][Next]_vars

\* The server loop and the bridge thread run on threads of their own, and both
\* wait with a timeout: they take a step whenever one is possible.  Nothing is
\* assumed of the drivers or the PLC.
ServerFairness == WF_vars(Answer) /\ WF_vars(Bridge)
LiveSpec == Spec /\ ServerFairness

\* For shutdown, a cycle that was begun also ends (every exchange is answered
\* or fails), and tokio's select! does not ignore a stop request for ever.
ShutdownFairness ==
    /\ WF_vars(DriverStopped) /\ WF_vars(RunnerExit)
    /\ \A d \in Drivers : WF_vars(Poller(d)) /\ SF_vars(PollerExit(d))

-----------------------------------------------------------------------------
(***************************************************************************)
(* Properties.                                                             *)
(***************************************************************************)

ServerTypeOK ==
    /\ issued \in 0..MaxWrites
    /\ tagOf \in [Writes -> Tags]
    /\ status \in [Writes -> {"none", "waiting", "good", "bad"}]
    /\ stop \in 0..(NumDrivers + 2)

BridgeTypeOK ==
    /\ reply \in [Writes -> {"none", "ok", "err"}]
    /\ bridgeQ \in Seq(Writes)
    /\ bridgePc \in {"recv", "checking", "sending", "confirming", "exited"}
    /\ bridgeW \in 0..MaxWrites
    /\ bridgePc \in {"sending", "confirming"} =>
          bridgeW \in Writes /\ Route[tagOf[bridgeW]] \in Drivers

DriverTypeOK ==
    /\ queue \in [Drivers -> Seq(Writes)]
    /\ \A d \in Drivers : Len(queue[d]) <= QueueCap
    /\ confirm \in [Writes -> {"none", "ok", "err"}]
    /\ poll \in [Drivers -> {"idle", "draining", "io", "reading", "exited"}]
    /\ cur \in [Drivers -> 0..MaxWrites]
    /\ \A d \in Drivers : poll[d] = "io" => cur[d] \in Writes
    /\ drained \in [Drivers -> 0..DrainMax]
    /\ reg \in [Tags -> 0..MaxWrites]

PlcTypeOK ==
    /\ plc \in [Tags -> 0..MaxWrites]
    /\ applied \subseteq Writes
    /\ abandoned \subseteq Writes
    /\ stomped \subseteq Tags

\* Every variable stays in its domain; in particular no driver queue exceeds
\* its capacity, no cycle drains more than DrainMax writes, and the bridge
\* thread only handles writes that have a driver.
TypeOK == ServerTypeOK /\ BridgeTypeOK /\ DriverTypeOK /\ PlcTypeOK

\* ConfirmedAck: a client that is told its write succeeded is told the truth.
\* TagDataSource::write returns Ok only after the driver confirmed, through
\* handle_write and the bridge thread, a frame the PLC has executed.
ConfirmedMeansApplied ==
    WriteMode = "ConfirmedAck" =>
        \A w \in Writes : status[w] = "good" => w \in applied

\* ConfirmedAck: once a client was told its write succeeded, a client read of
\* the tag returns that write or a newer one: the driver publishes the value in
\* the registry before it confirms, and later cycles never publish an older
\* one, unless the PLC itself went back by executing an abandoned frame.
ReadYourWrite ==
    WriteMode = "ConfirmedAck" =>
        \A w \in Writes :
            status[w] = "good" /\ tagOf[w] \notin stomped => reg[tagOf[w]] >= w

\* The PLC receives the writes of a tag in the order the clients issued them,
\* across the bridge channel, the bridge thread's timeouts and the driver
\* queue: its memory goes back to an older write only through a frame the
\* driver had stopped waiting for.
PlcFollowsIssueOrder ==
    [][\A t \in Tags : plc'[t] >= plc[t] \/ t \in stomped']_vars

\* ConfirmedAck: when the process ends every client has its answer, and the
\* client of a write that never left the bridge channel was told it failed.  The
\* bridge thread may end with writes in its channel: it looks at the flag after
\* its poll of the channel.
StrandedIsToldBad ==
    WriteMode = "ConfirmedAck" /\ Terminated =>
        /\ \A w \in Writes : w <= issued => status[w] \in {"good", "bad"}
        /\ \A i \in 1..Len(bridgeQ) : status[bridgeQ[i]] = "bad"

\* A write is executed by the PLC at most once, and never after the PLC (or the
\* driver) refused it: what is queued, at the PLC or abandoned is not executed
\* yet or is the current exchange, and sits in exactly one of these places.
InQueue(w) == \E d \in Drivers : \E i \in 1..Len(queue[d]) : queue[d][i] = w
AtPlc(w) == \E d \in Drivers : poll[d] = "io" /\ cur[d] = w
NoDuplicateExecution ==
    \A w \in Writes :
        /\ InQueue(w) => w \notin applied /\ w \notin abandoned /\ ~AtPlc(w)
        /\ w \in abandoned => w \notin applied /\ ~AtPlc(w)

\* What DriverContract sees of driver d: the writes it holds, and the answers of
\* those routed to it.
Held(d) == (IF poll[d] = "io" THEN <<cur[d]>> ELSE << >>) \o queue[d]
AnswersOf(d) == [w \in Writes |-> IF Route[tagOf[w]] = d THEN confirm[w] ELSE "none"]
Contract(d) == INSTANCE DriverContract
                   WITH Requests <- Writes, pending <- Held(d), answer <- AnswersOf(d)

\* The drivers of this module keep the promise of DriverContract, as the two real
\* drivers do in ModbusCycle and FinsCycle: also when handle_write gave up on a
\* request that is still in the queue, each request gets one answer, in order.
DriversFulfilContract ==
    /\ \A d \in Drivers : Contract(d)!Init
    /\ [][\A d \in Drivers : [Contract(d)!Next]_<<Held(d), AnswersOf(d)>>]_vars

\* Every ConfirmedAck write is answered, whatever the drivers and PLCs do: a
\* hung cycle, an unreachable PLC or a full queue costs the client a timeout,
\* never an answer.
EveryWriteAnswered ==
    \A w \in Writes : (status[w] = "waiting") ~> (status[w] \in {"good", "bad"})

\* The single bridge thread, shared by all PLCs, always comes back to its
\* channel: no driver can block the writes of the other drivers for ever.
BridgeNeverStuck ==
    (bridgePc \in {"sending", "confirming"}) ~> (bridgePc = "recv")

\* Ctrl-C ends the process, as long as no read cycle hangs: every poller, the
\* runner and the bridge thread end, whatever was under way when it was pressed.
ShutdownCompletes == ShutdownFairness => ((stop > 0) ~> Terminated)
=============================================================================
