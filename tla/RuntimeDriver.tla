--------------------------- MODULE RuntimeDriver ---------------------------
(***************************************************************************)
(* The poller of one PLC: RuntimeDriver::start and ::stop, called by any   *)
(* number of tasks at any time, the spawned poll loop with its jitter,     *)
(* select!, backoff and read cycle, and the health channel it reports to.  *)
(* What a read cycle does to tags is left to ModbusCycle; here it connects *)
(* when it has no connection, and then succeeds or fails.                  *)
(*                                                                         *)
(* Backoff seconds are kept as numbers; how long a sleep takes is not      *)
(* modelled.                                                               *)
(***************************************************************************)
EXTENDS Integers, FiniteSets

CONSTANTS
    Callers,        \* tasks that call start() and stop()
    NoCaller,       \* the poll_handle mutex is free
    MaxPollers,     \* bound: number of poller tasks ever spawned
    MaxFails,       \* bound: consecutive failed cycles that are counted
    MaxBackoff,     \* max_backoff_secs (30)
    HealthCap       \* capacity of the health channel

ASSUME RuntimeAssumption ==
    /\ NoCaller \notin Callers
    /\ MaxPollers \in Nat
    /\ MaxFails \in Nat
    /\ MaxBackoff \in Nat \ {0}
    /\ HealthCap \in Nat \ {0}

Pollers == 1..MaxPollers

VARIABLES
    pc,             \* where each caller is in start() or stop()
    lock,           \* holder of the poll_handle mutex
    handle,         \* the JoinHandle in poll_handle: a poller, or 0
    joining,        \* the poller the holder of the mutex awaits, or 0
    stopSent,       \* the watch channel has changed since RuntimeDriver::new
    spawned,        \* poller tasks spawned so far
    task,           \* where each poller task is
    backoff,        \* backoff_secs of each poller task
    fails,          \* failed cycles since the last successful one
    connected,      \* the driver holds a connection to its PLC
    plcUp,          \* the PLC accepts connections
    health          \* events waiting in the health channel

callVars == <<pc, lock, handle, joining, stopSent, spawned>>
taskVars == <<task, backoff, fails>>
envVars == <<connected, plcUp, health>>
vars == <<pc, lock, handle, joining, stopSent, spawned, task, backoff, fails,
          connected, plcUp, health>>

Init ==
    /\ pc = [c \in Callers |-> "idle"]
    /\ lock = NoCaller
    /\ handle = 0
    /\ joining = 0
    /\ stopSent = FALSE
    /\ spawned = 0
    /\ task = [p \in Pollers |-> "none"]
    /\ backoff = [p \in Pollers |-> 0]
    /\ fails = [p \in Pollers |-> 0]
    /\ connected = FALSE
    /\ plcUp = TRUE
    /\ health = 0

-----------------------------------------------------------------------------
(***************************************************************************)
(* start().  Nothing is awaited once the mutex is held, so the call takes  *)
(* effect in one step.                                                     *)
(***************************************************************************)

StartNoop(c) ==
    /\ pc[c] = "idle"
    /\ lock = NoCaller
    /\ handle # 0
    /\ UNCHANGED vars

\* Fault: start() does not look at the handle it replaces.
StartUnchecked(c) ==
    /\ pc[c] = "idle"
    /\ lock = NoCaller
    /\ spawned < MaxPollers
    /\ spawned' = spawned + 1
    /\ task' = [task EXCEPT ![spawned + 1] = "jitter"]
    /\ handle' = spawned + 1
    /\ UNCHANGED <<pc, lock, joining, stopSent, backoff, fails, envVars>>

Start(c) ==
    /\ pc[c] = "idle"
    /\ lock = NoCaller
    /\ handle = 0
    /\ spawned < MaxPollers
    /\ spawned' = spawned + 1
    /\ task' = [task EXCEPT ![spawned + 1] = "jitter"]
    /\ handle' = spawned + 1
    /\ UNCHANGED <<pc, lock, joining, stopSent, backoff, fails, envVars>>

-----------------------------------------------------------------------------
(***************************************************************************)
(* stop(): signal, take the mutex and the handle, and keep the mutex while *)
(* the poller task is joined.                                              *)
(***************************************************************************)

StopSignal(c) ==
    /\ pc[c] = "idle"
    /\ pc' = [pc EXCEPT ![c] = "locking"]
    /\ stopSent' = TRUE
    /\ UNCHANGED <<lock, handle, joining, spawned, taskVars, envVars>>

\* poll_handle is None: the poller was not running.
StopNotRunning(c) ==
    /\ pc[c] = "locking"
    /\ lock = NoCaller
    /\ handle = 0
    /\ pc' = [pc EXCEPT ![c] = "idle"]
    /\ UNCHANGED <<lock, handle, joining, stopSent, spawned, taskVars, envVars>>

\* Fault: the guard is a temporary that is dropped before the join.
TakeWithoutHolding(c) ==
    /\ pc[c] = "locking"
    /\ lock = NoCaller
    /\ handle # 0
    /\ joining' = handle
    /\ handle' = 0
    /\ pc' = [pc EXCEPT ![c] = "joining"]
    /\ UNCHANGED <<lock, stopSent, spawned, taskVars, envVars>>

StopTake(c) ==
    /\ pc[c] = "locking"
    /\ lock = NoCaller
    /\ handle # 0
    /\ lock' = c
    /\ joining' = handle
    /\ handle' = 0
    /\ pc' = [pc EXCEPT ![c] = "joining"]
    /\ UNCHANGED <<stopSent, spawned, taskVars, envVars>>

StopJoined(c) ==
    /\ pc[c] = "joining"
    /\ task[joining] = "exited"
    /\ lock' = NoCaller
    /\ joining' = 0
    /\ pc' = [pc EXCEPT ![c] = "idle"]
    /\ UNCHANGED <<handle, stopSent, spawned, taskVars, envVars>>

-----------------------------------------------------------------------------
(***************************************************************************)
(* The poller task.  Its receiver is a clone of the one made in new(), so  *)
(* changed() is ready as soon as any stop() was ever called.               *)
(***************************************************************************)

Goto(p, where) == task' = [task EXCEPT ![p] = where]

\* try_send: an event that finds the channel full is dropped.
TrySend(event) ==
    health' = IF event /\ health < HealthCap THEN health + 1 ELSE health

\* The initial jitter is slept outside of the select!.
JitterOver(p) ==
    /\ task[p] = "jitter"
    /\ Goto(p, "select")
    /\ UNCHANGED <<callVars, backoff, fails, envVars>>

Tick(p) ==
    /\ task[p] = "select"
    /\ Goto(p, IF backoff[p] > 0 THEN "backoff" ELSE "cycle")
    /\ UNCHANGED <<callVars, backoff, fails, envVars>>

\* Fault: only the backoff sleep watches the stop signal.
StopSeenInBackoff(p) ==
    /\ task[p] = "backoff"
    /\ stopSent
    /\ Goto(p, "exited")
    /\ UNCHANGED <<callVars, backoff, fails, envVars>>

\* changed() is chosen by the outer select!, or interrupts the backoff sleep.
StopSeen(p) ==
    /\ task[p] \in {"select", "backoff"}
    /\ stopSent
    /\ Goto(p, "exited")
    /\ UNCHANGED <<callVars, backoff, fails, envVars>>

BackoffOver(p) ==
    /\ task[p] = "backoff"
    /\ Goto(p, "cycle")
    /\ UNCHANGED <<callVars, backoff, fails, envVars>>

\* connect_with_backoff of either driver: it returns only with a connection.
Connect(p) ==
    /\ task[p] = "cycle"
    /\ ~connected
    /\ plcUp
    /\ connected' = TRUE
    /\ UNCHANGED <<callVars, taskVars, plcUp, health>>

\* A FINS exchange fails in the middle of a cycle, which then reconnects.
ConnectionLost(p) ==
    /\ task[p] = "cycle"
    /\ connected
    /\ connected' = FALSE
    /\ UNCHANGED <<callVars, taskVars, plcUp, health>>

\* Fault: a successful cycle leaves the backoff as it is.
OkKeepsBackoff(p, report) ==
    /\ task[p] = "cycle"
    /\ connected
    /\ Goto(p, "select")
    /\ fails' = [fails EXCEPT ![p] = 0]
    /\ TrySend(report)
    /\ connected' \in BOOLEAN
    /\ UNCHANGED <<callVars, backoff, plcUp>>

\* The cycle returns Ok.  FINS also does so after it lost its connection.
\* health() of the driver may give something to report.
CycleOk(p, report) ==
    /\ task[p] = "cycle"
    /\ connected
    /\ Goto(p, "select")
    /\ backoff' = [backoff EXCEPT ![p] = 0]
    /\ fails' = [fails EXCEPT ![p] = 0]
    /\ TrySend(report)
    /\ connected' \in BOOLEAN
    /\ UNCHANGED <<callVars, plcUp>>

\* Fault: the backoff is compared with its limit before it is doubled.
NextBackoffUncapped(b) ==
    IF b = 0 THEN 1 ELSE IF b < MaxBackoff THEN 2 * b ELSE MaxBackoff

NextBackoff(b) ==
    IF b = 0 THEN 1 ELSE IF 2 * b < MaxBackoff THEN 2 * b ELSE MaxBackoff

\* The cycle returns Err; the Modbus driver has dropped its connection.
CycleErr(p) ==
    /\ task[p] = "cycle"
    /\ connected
    /\ fails[p] < MaxFails
    /\ Goto(p, "select")
    /\ TrySend(TRUE)
    /\ backoff' = [backoff EXCEPT ![p] = NextBackoff(@)]
    /\ fails' = [fails EXCEPT ![p] = @ + 1]
    /\ connected' = FALSE
    /\ UNCHANGED <<callVars, plcUp>>

\* main's health task empties the channel.
HealthDrain ==
    /\ health > 0
    /\ health' = 0
    /\ UNCHANGED <<callVars, taskVars, connected, plcUp>>

\* The PLC (external) stops accepting connections, and accepts them again.
PlcDown ==
    /\ plcUp
    /\ plcUp' = FALSE
    /\ UNCHANGED <<callVars, taskVars, connected, health>>

PlcBack ==
    /\ ~plcUp
    /\ plcUp' = TRUE
    /\ UNCHANGED <<callVars, taskVars, connected, health>>

-----------------------------------------------------------------------------
StopCall(c) == StopNotRunning(c) \/ StopTake(c) \/ StopJoined(c)

Call(c) == StartNoop(c) \/ Start(c) \/ StopSignal(c) \/ StopCall(c)

CycleEnd(p) == CycleErr(p) \/ \E report \in BOOLEAN : CycleOk(p, report)

Cycle(p) == Connect(p) \/ ConnectionLost(p) \/ CycleEnd(p)

Wake(p) == JitterOver(p) \/ Tick(p) \/ BackoffOver(p)

Next ==
    \/ \E c \in Callers : Call(c)
    \/ \E p \in Pollers : Wake(p) \/ StopSeen(p) \/ Cycle(p)
    \/ HealthDrain
    \/ PlcDown
    \/ PlcBack

Spec == Init /\ [][Next]_vars

\* Timers fire; a cycle has finitely many exchanges and each of them ends (a
\* Modbus one by its timeout; a FINS one has no timeout, so this assumes a PLC
\* that answers or closes the connection); a PLC that keeps accepting
\* connections accepts one of the retries; a select! whose changed() branch
\* stays ready takes it sooner or later (tokio polls the branches in random
\* order); and tokio's mutex is fair: a stop() that waits for it gets it.
PollerFairness ==
    /\ \A c \in Callers : SF_vars(StopCall(c))
    /\ \A p \in Pollers :
        /\ WF_vars(Wake(p))
        /\ SF_vars(StopSeen(p))
        /\ SF_vars(Connect(p))
        /\ SF_vars(CycleEnd(p))

\* In addition the PLC comes back from every outage: connect_with_backoff returns to
\* no one before it does, and so neither does stop().
ReachableSpec == Spec /\ PollerFairness /\ WF_vars(PlcBack)

-----------------------------------------------------------------------------
(***************************************************************************)
(* Properties.                                                             *)
(***************************************************************************)

CallTypeOK ==
    /\ pc \in [Callers -> {"idle", "locking", "joining"}]
    /\ lock \in Callers \union {NoCaller}
    /\ handle \in 0..spawned
    /\ joining \in 0..spawned
    /\ spawned \in 0..MaxPollers

TaskTypeOK ==
    /\ task \in [Pollers -> {"none", "jitter", "select", "backoff", "cycle", "exited"}]
    /\ backoff \in [Pollers -> 0..MaxBackoff]
    /\ fails \in [Pollers -> 0..MaxFails]
    /\ health \in 0..HealthCap

FlagTypeOK == stopSent \in BOOLEAN /\ connected \in BOOLEAN /\ plcUp \in BOOLEAN

\* Every variable stays in its domain; in particular the backoff never exceeds
\* max_backoff_secs and the health channel its capacity.
TypeOK == CallTypeOK /\ TaskTypeOK /\ FlagTypeOK

Alive(p) == task[p] \notin {"none", "exited"}

\* However start() and stop() calls of several tasks interleave, at most one
\* poller task polls the PLC.  The drivers rely on it: a cycle takes the
\* connection out of its mutex and puts it back at the end.
AtMostOnePoller == \A p, q \in Pollers : Alive(p) /\ Alive(q) => p = q

\* When stop() returns no poller is running: also to a caller that found no
\* handle because another stop() had taken it.
StopMeansStopped ==
    [][\A c \in Callers :
          pc[c] # "idle" /\ pc'[c] = "idle" => \A p \in Pollers : ~Alive(p)']_vars

\* After n failed cycles in a row the next one is preceded by a sleep of
\* min(2^(n-1), max_backoff_secs) seconds, and a successful cycle clears it.
Pow2[n \in Nat] == IF n = 0 THEN 1 ELSE 2 * Pow2[n - 1]
ExpBackoff(n) ==
    IF n = 0 THEN 0 ELSE IF Pow2[n - 1] < MaxBackoff THEN Pow2[n - 1] ELSE MaxBackoff
BackoffMatchesFailures == \A p \in Pollers : backoff[p] = ExpBackoff(fails[p])

\* stop() returns.  driver/common/src/lib.rs has read_cycle "perform a single
\* logical iteration: connect if necessary, ... and then return", and ADR.md
\* ("Graceful Shutdown Coordination") wants "predictable termination sequences".
StopReturns == \A c \in Callers : (pc[c] # "idle") ~> (pc[c] = "idle")
=============================================================================
