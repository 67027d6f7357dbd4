# A TLA+ verification of opcua-plc-bridge

The bridge polls PLCs over Modbus/TCP and Omron FINS/TCP, keeps the latest value
and quality of every configured tag in a registry, shows the registry to OPC UA
clients, and carries their writes back to the PLCs. This directory models the
parts where threads, tasks, queues, timeouts and failing networks meet. TLC checks
the models on small instances; TLAPS proves the central results for every size.

Paths below are relative to the repository. `PROJECT.json` maps every definition
to the lines it models and lists components, runs, mutants, findings, hazards
and theorems.

## The system

| component | state | operations | talks to |
|---|---|---|---|
| OPC UA data source (`opcua-server/src/native.rs`) | status of each client write | read and write callbacks on the server loop | registry; unbounded channel to the bridge thread; reply channel back |
| write bridge thread (`native.rs:435-480`) | the write in hand | take, handle, reply, look at the shutdown flag every 100 ms | `handle_write`, blocking |
| write routing (`runtime/src/write_handler.rs`) | routes (fixed at start) | validate, send with a timeout, await the confirmation with a timeout | bounded queue (256) of a driver; oneshot back |
| poller (`runtime/src/runtime_driver.rs`) | task handle, stop signal, backoff | `start`, `stop`, tick, cycle | `read_cycle` of a driver; health channel |
| Modbus driver (`driver/modbus/src/driver.rs`) | queue, persistent connection | one cycle: drain up to 64 writes, read all groups | PLC; registry; health channel |
| FINS driver (`driver/fins/src/driver.rs`) | queue, connection, 8-bit service id, read groups | the same, with FINS frames | PLC; registry |
| tag store and registry (`core-model/src`) | value, quality, timestamps of every tag | read, update, set quality, subscribe | everyone |
| main (`runtime/src/main.rs`) | drivers, health map | start-up, Ctrl-C, shutdown | everyone |
| configuration (`runtime/src/config.rs`, `tags.rs`, ...) | none | parse, validate, map | main |

What is hard here, and where (the list with lines is under `hazards`):

* **Timeouts race answers.** Three layers wait for one write: the client (in
  ConfirmedAck), `handle_write` and the driver. Each can give up while the write
  goes on below it and reaches the PLC later.
* **One thread carries all writes.** The bridge thread blocks in `handle_write`, so
  a PLC that hangs delays the writes to every other PLC.
* **Shutdown** walks over drivers, server loop and bridge thread while writes are at
  every stage of the path.
* **`start` and `stop`** race for one task handle, and `stop` waits for a cycle that
  retries an unreachable PLC.
* **Error paths of a cycle.** Each has its own idea of what becomes of the reply of
  the write, the connection and the quality of the tags; a wrong one shows clients
  an old value as Good, or hangs for ever.
* **FINS responses** are matched by an 8-bit id that wraps, on a stream that is kept
  after a mismatch.
* **Start-up** starts the pollers before the server that shows their tags, and a tag that is already marked
  bad, or has a value that OPC UA cannot show, cannot get a node any more.
* **The tag store** changes a tag by load, copy and store without a lock, and announces the change later.
* **Registers** are written as many as the value has words, and read as many as the mapping has, each rearranged
  on its own.
* **Read planning** cuts registers into groups and requests and puts the answers
  together again, in 16-bit arithmetic, and nothing checks that a mapping ends inside the memory.

## The modules

**`WritePipeline`** is the way of a client write from the server loop to the PLC and
back, with the shutdown of `main`. A write is its rank in the order the server loop
issues it; value 0 is what the PLC held before. `status` is what the client was told,
`reply` and `confirm` the two channels back, `bridgeQ` and `queue` the two queues
forward, `reg` and `plc` the write that the registry's and the PLC's value of a tag
stem from. `abandoned` are frames the driver stopped waiting for: the PLC may execute
them at any later time (`PlcExecuteLate`), and `stomped` remembers the tags for
which it did. `poll` is the driver's poller, reduced to what a write sees of it. `stop`
counts the steps of shutdown: driver 1, driver 2, ..., server loop, bridge thread. The
actions `Write*` and `Client*` are the data source callback, `Bridge*` the bridge thread with
`handle_write`, `Take*`, `Write{Ok,Refused,Lost}`, `DrainDone` and `ReadCycle` the cycle of a
driver, `CtrlC`, `DriverStopped`, `RunnerExit` are `main` and the server task.

**`RuntimeDriver`** is one poller: any number of callers of `start()` and `stop()`, the mutex
around the task handle (held across the join), the watch channel, the loop with jitter,
`select!`, backoff sleep and cycle, and the health channel. A cycle connects, retrying
without end, and succeeds or fails. Once stopped, a `RuntimeDriver` stays stopped for
its pollers: the watch channel keeps its value, as in the code.

**`ModbusCycle`** is `run_read_cycle_impl` of the Modbus driver, cycle after cycle: the write
drain with each of its exits, the connection taken out of its slot and put back (or not),
the reads chunk by chunk and the four ways they fail (`Faults`): an illegal address, another
exception, a timeout, a transport error. Connections are live or dead, the network is up,
lossy or refuses connections. `missed` are the tags the cycle got no data for, `ignored` those
among them whose error no branch of the code recognises.

**`FinsCycle`** is the same for FINS. Requests carry service ids modulo `SidMod` (256 in the
code). `owed` are responses the PLC will still give, `stream` those in the socket; each knows
whether it answers the request in hand. Duplicates (`strays`) shift every later answer.

**`ReadPlan`** is how both drivers turn mappings into requests and answers into values: sorting,
grouping, splitting, slicing, decoding. A cell's contents is its address, so that a value from the
wrong place is a wrong value. The configuration is any set of mappings of one memory space (one Modbus function, one FINS area)
that `validate()` accepts, those that run past the end of the memory included. The PLC has 2^16 cells and refuses a request
that goes beyond them: Modbus then marks all members of the group ConfigError and goes on with the next request, FINS
marks them Error and leaves the read loop. Sums wrap as in a release build, and a FINS frame carries 24 bits of an address.

**`DriverContract`** is the abstract specification of a driver, for writes: requests are answered in the order in
which they were submitted, each once, none is lost. It has two variables, the requests without an answer and the
answers, and two actions. `ModbusCycle` and `FinsCycle` implement it under the mapping *pending = the request in hand,
then the queue* (`FulfilsContract`), and so does each driver of `WritePipeline` (`DriversFulfilContract`): what
`WritePipeline` assumes of its drivers in the drain loop is what the two real ones do.

**`Startup`** is `main` from the configuration file to the running server, one action per step with its early returns
(`phase`), beside the pollers that already run (`poller`, `quality`) and PLCs that come and go (`up`). A configuration is
its PLCs, its tag entries and the mistakes in it; what a mistake looks like in the file is left out, where it is
found is not. `CreateNode` is the creation of one variable node: the library reads the new node's value through
`TagDataSource::read` and refuses a status that is not GOOD. A tag that is not `plain` (a date, a text) may be read with a value
that has no variant (`HasVariant`: a date past 2262, a text with a NUL); its quality in the model is then "unshowable", and its read fails. A FINS
driver that may ask for 0 words at a time never returns from `new` (`SetupHangs`). Tag ids are numbers, in the order of the sorted
definitions.

**`TagStore`** is the shared store: slots, index and sorted ids under one lock, the tag in a slot swapped without it.
`Insert`, `Change` and `CheckStale` begin a call, `Load`, `Store`, `Broadcast`, `InsertRaced` and `InsertNew` are
its steps, interleaved with those of other threads and with subscribers. `ideal` is what the calls would make of each tag one
after the other, `view` what a subscriber knows when it has taken all its events.

**`RegisterImage`** is the way of a value into the registers and back: encoding, padding, byte order, the registers the
write covers, the read of the mapping's registers, byte order, decoding, for both drivers. `Values` are what clients may
write; `IsDate` and `IsUtf8`, what chrono takes for a date and `std` for a text, are constants. In the run the bytes of each
write are numbers of their own, so that a byte in the wrong place is seen.

`MC*` modules hold the small instances. Where a module defines an operator marked *Fault*, it is the
plausible mistake that one of the properties is checked against (`mutants`); nothing else uses it.

`WritePipeline` composes data source, bridge thread, routing, pollers and PLCs. `RuntimeDriver`,
`ModbusCycle`, `FinsCycle`, `ReadPlan` and `RegisterImage` look into the parts it abstracts.

## What the runs show

| run | instance | result |
|---|---|---|
| `pipeline` | a Modbus and a FINS driver, 2 writes, ConfirmedAck | holds |
| `poller_stop` | 2 callers, 2 pollers, backoff up to 5 s | holds |
| `modbus_faults` | a group of two chunks and a coil, 2 writes, every fault | holds |
| `modbus_restart` | the tags of the end-to-end tests, restarts | violated, see 2 |
| `fins_faults` | a group of two chunks and another area, 2 writes, every fault, a duplicate | holds |
| `fins_silence` | a PLC that falls silent | violated, see 3 |
| `plan_valid` | all valid sets of up to 3 mappings on and past 8 addresses, both drivers | holds |
| `plan_coils` | 3 coils, 2 to a word | violated, see 4 |
| `startup` | 2 PLCs, up to 2 mistakes of 12 kinds, clashing ids and nodes | holds |
| `startup_order` | 2 PLCs, no mistake | violated, see 1 |
| `store` | 2 threads, 3 tags of which they share one, 4 calls, a subscriber | holds |
| `image` | a tag of every type, 1 to 5 registers and byte order, a neighbour, 3 writes, both drivers | holds |

**Write path.** A client that was told Good in ConfirmedAck was told the truth: the PLC has executed
the write (`ConfirmedMeansApplied`), and from then on the registry shows that value or a later one
unless an abandoned frame changed the PLC behind the driver's back (`ReadYourWrite`). No write is
executed twice (`NoDuplicateExecution`): nothing in the path retries. The PLC's memory follows the
issue order of the writes of a tag, abandoned frames excepted (`PlcFollowsIssueOrder`). A write that shutdown leaves in
the bridge channel was reported as failed (`StrandedIsToldBad`). Every ConfirmedAck write is answered
and the bridge thread always returns to its channel, even if drivers and PLCs never move again
(`EveryWriteAnswered`, `BridgeNeverStuck`), and shutdown ends (`ShutdownCompletes`). Each driver answers its requests
once and in order, also those `handle_write` no longer waits for (`DriversFulfilContract`).

**Poller.** At most one poller task is alive (`AtMostOnePoller`); when `stop()` returns to any
caller, none is (`StopMeansStopped`); the backoff is the power of two that belongs to the number of failures
since the last success, capped (`BackoffMatchesFailures`); `stop()` returns if the PLC comes back
(`StopReturns`).

**Cycles.** Every request that leaves the queue is answered, once, before the next one is taken, through whichever exit
(`FulfilsContract`, the refinement of `DriverContract`): otherwise `handle_write` would run into its timeout. A failed Modbus cycle marks some tag
and keeps no connection with an outstanding answer (`FailedCycleIsReported`). A tag without data
is not left Good (`MissedIsNotGood`), unless its words are split over two requests (`Split`): then the part that
does arrive is published as Good after the other part was marked. Outages by packet loss are noticed and recovered from
(`OutageDetected`, `RecoversFromLoss`); FINS recovers from restarts (`Recovers`) and never takes an answer
for another request's (`OwnAnswerOnly`) as long as fewer stray responses than service ids are unread.

**Planning.** Requests ask only for mapped cells, within the protocol's limit, for none twice that no two mappings share, and for every
cell of a mapping that ends inside the memory (`ReadsEachCellOnce`); every such tag gets a verdict (`EveryTagJudged`), also beside
mappings that run past the end; a tag that is read as a whole, in a group that ends inside the memory, shows its own cells
(`WholeIsShown`); the loops end (`CycleCompletes`), for all mappings. Nothing is claimed of the tag whose mapping runs past
the end, for the code may leave it unread for ever, nor of a Modbus space without a free address (`WholeSpace`); both are below.

**Start-up.** `main` gives up only for a mistake in the configuration, or for the very tag whose node it was about to create: its
poller had marked it bad, or had read a value of it that has no variant; never because a PLC is off, nor for the quality of another tag
(`FailureHasCause`). When it serves, no mistake was passed over, every tag has its own node, and every tag of a supported PLC a
route to a driver that is being polled (`ServingIsWired`). It gets to one of the two ends without waiting for a PLC
(`StartupEnds`), unless `FinsDriver::new` hangs. That pollers can be a cause at all is what `startup_order` is about.

**Tag store.** Slots, index and sorted ids agree whenever the lock is free, also when two threads insert the same id
(`StoreIsConsistent`). A tag that one thread writes shows what the calls of that thread made of it (`OwnCallsHold`); in the
program this is every tag, for ids are unique and a tag belongs to one PLC. A subscriber whose channel was never full knows the
state of such a tag whenever its writer is not in a call for it (`SubscribersKeepUp`).

**Registers.** A value that was written is shown as it was written, before and after the reads that follow, for every type, byte
order and both drivers, if it can be read back at all (`WrittenStaysShown`); `ReadsBack` says when it can, and the
exceptions are listed below. Nothing but a date can panic a poller (`TypeOK`).

### Where code and documents disagree

1. `startup_order`: the start-up sequence at `main.rs:9-10` is "6. Start the OPC UA server.", then "7. Start all driver
   pollers." The code starts each poller with its driver (`main.rs:111`, `165`) and the server after all of them
   (`main.rs:342-344`). So a sound configuration may fail to start: a poller had lost its PLC, been refused or read a value without
   a variant before the node of the tag was created.
2. `modbus_restart`: a read that fails in the transport matches neither error branch; the cycle goes on, returns
   Ok, and puts the closed connection back. Only a write makes the driver reconnect. The test named
   `driver_reconnects_after_server_restart` starts its server once and never closes a connection that was in use.
3. `fins_silence`: the FINS exchange has no timeout, and `keepalive_secs` ("TCP keepalive in seconds") is
   never given to the socket: a silent PLC hangs its poller with all tags Good.
4. `plan_coils`: coils are packed 16 to a word, and their offset in the request is used as an offset in
   words. With 17 adjacent coils the second one shows the 17th, as Good; with fewer, all but the first
   are shown as misconfigured. The run uses 2 coils to a word.

### Known limits

Met while modelling, without a run of their own. The properties name these cases where they exclude them.

* `read_cycle` is documented to connect, read, "and then return"; `connect_with_backoff` retries without end and
  is awaited outside of the `select!`, so `stop()`, and with it Ctrl-C, hangs while a PLC is down (`StopReturns` fails under
  `Spec /\ PollerFairness`, without the assumption that the PLC comes back).
* In QueuedAck the callback answers Good as soon as the write is in the bridge channel (`native.rs:284`), before it is
  validated or routed; it may never get to a driver. ADR.md:73-74 wants the write accepted "as soon as the request is enqueued to the
  driver".
* A Modbus timeout ends the cycle, so the tags of later groups stay Good during an outage, although the chaos scenario
  (`e2e-tests/chaos/run-scenarios.sh:72-79`) expects Bad of three tags in two groups. `OutageDetected` asks for some tag only.
* An exception is passed over, and leaves its tags Good, unless its message has one of the words the code looks for
  ("Slave" among them); what the messages of tokio-modbus are is not part of the repository.
* A value split over two requests is decoded from each part (Modbus shows the last part as Good, FINS an error).
* Modbus mappings that cover all 65536 addresses make one group whose quantity wraps to 0: it is never read.
* A Modbus mapping that runs past address 65535 is accepted (`driver.rs:951` saturates). If it joins a group, its end wraps at
  `driver.rs:553` and does not extend the group: with {65533, 1 register} and {65534, 4 registers} the only request is
  (65533, 1), and the second tag stays Initializing for ever, shown as GOOD with a zero value (`native.rs:212`). A debug build
  panics there. Alone in its group, such a mapping is refused by the PLC and becomes a ConfigError.
* A FINS mapping past the end is refused, and the refusal ends the read loop: the groups and areas behind it are not read. An address
  of more than 24 bits is cut to 24 in the frame (`driver/fins/src/driver.rs:173-182`), and the tag shows another cell as Good. Sums
  that overflow 32 bits are left out of the model.
* `validate()` does not ask for four words for 64-bit integers and dates, accepts an overlap with a range that ends at address
  65535, and does not come to see `max_words_per_request = 0`, with which `FinsDriver::new` never returns.
* A date past 2262 and a text with a NUL have no variant: a read of such a Good tag fails, and its node cannot be created.
* A write never compares the words of the value with the quantity of the mapping: a long text, or a 64-bit value mapped to one
  register, overwrites its neighbours. A shorter text leaves the tail of the old one in the registers.
* A 16-bit type in two registers with CDAB or DCBA is written to the first register and read back from the second.
* A date loses what is below a millisecond. Registers that hold no date are shown by Modbus as 1970, Good, and panic the
  FINS poller; so does a date before 1970. A ByteString of odd length comes back with a padding byte.
* The tags of a PLC with an unsupported protocol stay Initializing for ever and are shown as GOOD with a zero value
  (`native.rs:212`; the comment at `native.rs:61` calls such a value uncertain).
* `health_channel_capacity = 0` panics. Two PLCs of the same name are not refused.
* `stale_after_ms` is set by no configuration, so the staleness check never marks a tag; if it did, Stale would replace
  CommLost. Subscribers that are gone "will be pruned on next write-lock" (`tag_store.rs:93`) and never are.
* With two writers of one tag an update can be lost between load and store.

### Bounds

Every bound is a constant marked *bound*, or a scaled-down constant of the code.

* Two writes on two drivers with queues of one: a write can be at every place of the path while another is before, behind or beside
  it, on the same driver or the other, and shutdown must pass one driver while the other holds a write. The run uses ConfirmedAck
  only; QueuedAck differs in one thing, that the loop does not wait, and the theorems hold for both modes and any number
  of writes.
* `MaxBackoff = 5` is no power of two, so that the cap is reached inside a doubling.
* Two chunks of one group and a third in another group are the smallest plan in which a failure
  marks a chunk that was already read, one that was not, and one of a different group. `DrainMax = 1` makes a queue of two span two
  cycles.
* `SidMod = 2` with one stray lets the id wrap at every second request while the stray is unread: one stray more would be as many
  as there are ids, where `OwnAnswerOnly` no longer claims anything.
* Eight addresses with requests of 3 or 4 cells give groups of one to three requests, groups that end
  with the last address, and mappings across every boundary, among them those of all addresses (`WholeSpace`): such a group has,
  in the code's 16 bits, the quantity 0 and is never read, so the properties claim nothing of it. Mappings of up to four words at
  every address run past the end alone, as the last of a group, and in front of others; FINS ones also begin past
  the end, and past `FinsMod = 16`, where the frame shows them at the start of the memory.
* Two PLCs and three tags, whose order by id is not the order by PLC, let a poller mark a tag whose node comes first, last or in
  between. One of them is a date. Two mistakes show that one found late does not hide, and is not hidden by, an earlier one, nor
  a FINS driver that hangs, with a PLC before or behind it.
* Four calls of two threads are an insert each and one change each, or two inserts of the shared id racing with changes
  of it; a channel of two events can be full, emptied and full again.
* Registers 1 to 5 and types of 2 to 8 bytes give mappings that are too small, exact, and larger by one word and by a whole group of
  four bytes; texts have an odd byte, fill two registers, or three with padding, or end with a NUL. Three writes let a tag be written again
  after its neighbour.

### Fairness

* `WritePipeline.LiveSpec`: the server loop and the bridge thread are threads of their own that wait
  only with timeouts. Nothing is assumed of drivers and PLCs. `ShutdownCompletes` adds,
  as its hypothesis, that cycles end and that `select!` does not pass over the stop signal for ever; without the
  first, shutdown hangs (Known limits).
* `RuntimeDriver.ReachableSpec`: timers fire, exchanges end, `select!` (which polls its branches in random order)
  takes a branch that stays ready, tokio's mutex is fair, and the PLC comes back.
* `Startup.FairSpec`: `main` runs on. Nothing is assumed of pollers and PLCs.
* `ModbusCycle.FairSpec`, `FinsCycle.FairSpec`: the runtime keeps calling `read_cycle`. Nothing is assumed
  of the network, except that a FINS PLC that is up answers.
* `ReadPlan.FairSpec`: a cycle is sequential code.

## What is proved

All proofs are checked by TLAPS without leaving anything out, for any number of drivers, tags, writes, callers and pollers,
any capacities, and both write modes.

`WritePipelineProofs`, from `PipelineAssumption` only:

* `TypeCorrect`: TypeOK, so no queue exceeds its capacity.
* `Invariance`: the inductive invariant `IInv`. None of the safety properties is inductive by itself: each says what a
  client was told, and must be traced back through confirm channel, exchange, driver queue and bridge
  channel. `IInv` therefore says (a) where a write can be: channel, bridge thread, queue and exchange hold disjoint
  sets of writes in issue order, everything in front of a write being older (`OrderInv`); (b) that what the PLC has
  executed, and what was abandoned, is older than what is still on its way; (c) that a confirmation or a Good
  status implies execution, and that `reg` and `plc` are at least as new as any confirmed write of their
  tag.
* `ConfirmedTheorem`, `ReadYourWriteTheorem`, `NoDuplicateTheorem`: the invariants of the run, from `IInv`.
* `IssueOrderTheorem`: the action property, from `IInv`.
* `StrandedTheorem`: from a second invariant, `EndInv`, about the end of the server loop.

* `ContractTheorem`: each driver of the pipeline implements `DriverContract`. Besides `IInv` it needs `AnsweredOrder`: what a
  driver has answered is older than everything it still has in hand or in its queue.

`RuntimeDriverProofs`, from `RuntimeAssumption`: `TypeCorrect`, with a lemma that the backoff stays below its limit;
`OwnershipTheorem`, the inductive invariant that a live poller is the one in the handle or the one that the
holder of the mutex joins; `OnePollerTheorem` and the action property `StopMeansStoppedTheorem` follow. `BackoffTheorem` says
that doubling with a cap computes the capped power of two for any limit and any number of failures; what the powers of two are is
proved at the least number for which it would fail (`Least`, `PowersExist`, `Pow2Facts`).

`ModbusCycleProofs` and `FinsCycleProofs`, for any tags, plans, queue capacity and drain limit. A plan does not hold the same chunk
twice, for a chunk stands for one request of the plan:

* `TypeCorrect`, and `PromiseTheorem`: the inductive invariant `Promise` of the drain loop. The queue holds the last requests in
  order, the one in hand comes right before them, and nothing from there on is answered.
* `ContractTheorem`: the refinement of `DriverContract`, step by step, from `Promise`.
* `MissedNotGood`: from `Judged`, which ties `missed` to the position in the plan: a missed tag is of a chunk behind
  the reader, so that no later one can make it Good again. For `Split` tags this is false, in the model and in the code.
* `FailureReported` (Modbus): needs that the request in hand names a writable tag.
* `OwnAnswers` (FINS): from `WireInOrder`, which counts, for every frame on the wire, how many requests ago the request was
  sent that it answers; with fewer strays than ids that many ids differ, however often the counter wraps.

`TagStoreProofs`, for any number of threads, tags, calls and subscribers: `StoreTheorem`, from the invariant `Structure` of slots, index and
sorted ids (the sorted insert keeps a sorted sequence sorted); `OwnershipTheorem`, which says what the only writer of a tag has
loaded, stored and announced at each step of its call; `OwnCallsTheorem` and `SubscribersTheorem` follow from it.

`StartupProofs`, for any set of configurations: `TypeCorrect`, `FailureTheorem`, `WiredTheorem`. The inductive invariant says
which mistakes each phase has ruled out (`Passed`), that every supported PLC `main` has come past has its driver, poller and routes
(`Wired`), that nodes are those of tags and have different names (`NodesAreSound`), and, for `FailureTheorem`, that the failure of a
node has the next tag as its cause, whose quality no poller changes any more once the process has ended. The proof showed that an unreadable certificate matters only
in a secure configuration; `Matters` says so now.

`ReadPlanProofs`, for any address space, request limit and mappings of one memory space that `validate()` accepts, past its end or
not: `TypeCorrect`, `CellsTheorem`, `JudgedTheorem`, `WholeTheorem`. The invariant has four layers: bounds of groups and counters
(`Types`); the cells of a group are those of its members that extend it, every mapping looked at is a member of one group, and one that ends inside
the memory is among those that extend it (`Grouping`); the requests lie in the groups begun so far and cover them up to `chunk_start`,
unless a FINS refusal broke the loop off, and then the groups left out begin past the end, for groups lie in order of address
(`Reading`); a mapping that ends inside the memory and whose first cell has been read has a verdict, and if it is read as a whole, its
own value (`Shown`). All but the first hold outside of `WholeSpace`, which the attempt to prove them brought up.

`RegisterImageProofs`, for any mappings, memory size and values, any notion of date and any of text in which a NUL may follow a text:
`TypeCorrect` and `WrittenTheorem`. The core is `SourceTwice`: rearranging a value of *len* bytes when it is written
and a mapping of *n >= len* bytes when it is read puts each byte back, if the two agree about the groups of four. The
inductive invariant (`MemoryHolds`) is about the registers: those of a tag whose value fits, and that no neighbour
damaged, hold what was written. One lemma per type then decodes it.

Only model-checked: all liveness (`EveryWriteAnswered`, `BridgeNeverStuck`, `ShutdownCompletes`, `StopReturns`,
`RecoversFromLoss`, `OutageDetected`, `Recovers`, `CycleCompletes`, `StartupEnds`), for TLAPS cannot reason about fairness
and ENABLED. Every safety property of a passing run is proved.

## What is not modelled

* The OPC UA library and its access control; the conversion of values to variants and back, except for whether there is a variant.
* Branches the program cannot reach: errors of channels whose other end lives as long as the program, an error
  from `connect_with_backoff`, which returns only a connection; writes to bools in Modbus registers and bit offsets other than 0, which no
  configuration makes; `try_update_with`.
* Time: sleeps and timeouts may take any time, timestamps are left out, and with them the age of a tag (`CheckStale` may find
  any tag too old).
* The parsing of configuration files, logging, error types, emulators and tests: code without state of its own.

## Plan

Done: the inventory; the write path, poller, both driver cycles, read planning, start-up, the tag store, the registers; the
driver contract and its three refinements; proofs of all safety properties and refinements.

Next: safety lemmas that the liveness arguments rest on (what a step of a cycle or of shutdown brings nearer to its end), and
the conditions under which `GoodIsOwnValue` does hold for coils.
