------------------------ MODULE RuntimeDriverProofs ------------------------
(***************************************************************************)
(* Proofs about RuntimeDriver, for any number of callers and pollers.      *)
(*                                                                         *)
(* Ownership is the inductive invariant: a poller task that has not ended  *)
(* is held either by poll_handle or by the stop() that awaits it, never    *)
(* both are occupied, and the second one keeps the mutex.  start() and     *)
(* stop() act only under the mutex, so neither can see the state between.  *)
(***************************************************************************)
EXTENDS RuntimeDriver, WellFoundedInduction, TLAPS

LEMMA BackoffBound ==
    ASSUME NEW b \in 0..MaxBackoff
    PROVE  NextBackoff(b) \in 0..MaxBackoff
BY RuntimeAssumption DEF NextBackoff

\* Every variable stays in its domain, whatever start() and stop() calls are
\* made: the backoff never exceeds max_backoff_secs and the health channel
\* never holds more than its capacity.
THEOREM TypeCorrect == Spec => []TypeOK
<1>1. Init => TypeOK
  <2>1. Init => FlagTypeOK
    BY DEF Init, FlagTypeOK
  <2>2. Init => CallTypeOK /\ TaskTypeOK
    BY RuntimeAssumption DEF Init, CallTypeOK, TaskTypeOK, Pollers
  <2>3. QED BY <2>1, <2>2 DEF TypeOK
<1>2. TypeOK /\ [Next]_vars => FlagTypeOK'
  BY Zenon
     DEF TypeOK, FlagTypeOK, Next, Call, StopCall, StartNoop, Start, StopSignal,
         StopNotRunning, StopTake, StopJoined, Wake, JitterOver, Tick, BackoffOver, StopSeen,
         Cycle, CycleEnd, Connect, ConnectionLost, CycleErr, CycleOk, HealthDrain, PlcDown,
         PlcBack, callVars, taskVars, envVars, vars
<1>3. TypeOK /\ [Next]_vars => CallTypeOK' /\ TaskTypeOK'
  <2> SUFFICES ASSUME CallTypeOK, TaskTypeOK, [Next]_vars PROVE CallTypeOK' /\ TaskTypeOK'
    BY DEF TypeOK
  <2> USE RuntimeAssumption DEF CallTypeOK, TaskTypeOK, Pollers, callVars, taskVars, envVars
  <2>1. ASSUME NEW c \in Callers, Call(c) PROVE CallTypeOK' /\ TaskTypeOK'
    <3>1. CASE StartNoop(c)
      BY <3>1 DEF StartNoop, vars
    <3>2. CASE Start(c)
      BY <3>2 DEF Start
    <3>3. CASE StopSignal(c)
      BY <3>3 DEF StopSignal
    <3>4. CASE StopNotRunning(c)
      BY <3>4 DEF StopNotRunning
    <3>5. CASE StopTake(c)
      BY <3>5 DEF StopTake
    <3>6. CASE StopJoined(c)
      BY <3>6 DEF StopJoined
    <3>7. QED BY <2>1, <3>1, <3>2, <3>3, <3>4, <3>5, <3>6 DEF Call, StopCall
  <2>2. ASSUME NEW p \in Pollers, Wake(p) \/ StopSeen(p) PROVE CallTypeOK' /\ TaskTypeOK'
    BY <2>2 DEF Wake, JitterOver, Tick, BackoffOver, StopSeen, Goto
  <2>3. ASSUME NEW p \in Pollers, Connect(p) \/ ConnectionLost(p)
        PROVE  CallTypeOK' /\ TaskTypeOK'
    BY <2>3 DEF Connect, ConnectionLost
  <2>4. ASSUME NEW p \in Pollers, CycleErr(p) PROVE CallTypeOK' /\ TaskTypeOK'
    <3>1. NextBackoff(backoff[p]) \in 0..MaxBackoff
      BY BackoffBound
    <3>2. backoff' \in [Pollers -> 0..MaxBackoff] /\ fails' \in [Pollers -> 0..MaxFails]
      BY <2>4, <3>1, SMTT(30) DEF CycleErr
    <3>3. health' \in 0..HealthCap
      BY <2>4 DEF CycleErr, TrySend
    <3>4. QED BY <2>4, <3>2, <3>3 DEF CycleErr, Goto
  <2>5. ASSUME NEW p \in Pollers, NEW report \in BOOLEAN, CycleOk(p, report)
        PROVE  CallTypeOK' /\ TaskTypeOK'
    BY <2>5 DEF CycleOk, Goto, TrySend
  <2>6. CASE HealthDrain \/ PlcDown \/ PlcBack
    BY <2>6, SMTT(30) DEF HealthDrain, PlcDown, PlcBack
  <2>7. CASE UNCHANGED vars
    BY <2>7 DEF vars
  <2>8. QED
    BY <2>1, <2>2, <2>3, <2>4, <2>5, <2>6, <2>7 DEF Next, Cycle, CycleEnd
<1>4. QED BY <1>1, <1>2, <1>3, PTL DEF Spec, TypeOK

-----------------------------------------------------------------------------
\* Who holds the running poller.
HeldOnce ==
    /\ \A p \in Pollers : Alive(p) => p = handle \/ p = joining
    /\ handle = 0 \/ joining = 0

\* The poller that is joined belongs to the stop() that holds the mutex.
JoinerLocks ==
    /\ \A c \in Callers : pc[c] = "joining" => lock = c
    /\ lock = NoCaller => joining = 0
    /\ lock # NoCaller => joining # 0 /\ pc[lock] = "joining"

Ownership == TypeOK /\ HeldOnce /\ JoinerLocks

\* A step of a poller task, the PLC or the health task leaves start()'s and
\* stop()'s state alone and brings no poller to life.
LEMMA TaskStep ==
    ASSUME Ownership, callVars' = callVars,
           \A p \in Pollers : Alive(p)' => Alive(p)
    PROVE  HeldOnce' /\ JoinerLocks'
BY DEF Ownership, HeldOnce, JoinerLocks, callVars, TypeOK, CallTypeOK

\* Which steps those are.
LEMMA TaskSteps ==
    ASSUME TypeOK, NEW p \in Pollers, Wake(p) \/ StopSeen(p) \/ Cycle(p)
    PROVE  callVars' = callVars /\ \A q \in Pollers : Alive(q)' => Alive(q)
<1> USE DEF TypeOK, TaskTypeOK, Alive, Goto
<1>1. CASE Wake(p) \/ StopSeen(p)
  BY <1>1 DEF Wake, JitterOver, Tick, BackoffOver, StopSeen, callVars
<1>2. CASE Connect(p) \/ ConnectionLost(p)
  BY <1>2 DEF Connect, ConnectionLost, taskVars, callVars
<1>3. CASE CycleErr(p)
  BY <1>3 DEF CycleErr, callVars
<1>4. CASE \E report \in BOOLEAN : CycleOk(p, report)
  BY <1>4 DEF CycleOk, callVars
<1>5. QED BY <1>1, <1>2, <1>3, <1>4 DEF Cycle, CycleEnd

\* A running poller is owned by poll_handle or by the stop() that awaits it
\* under the mutex, and never by both.
THEOREM OwnershipTheorem == Spec => []Ownership
<1>1. Init /\ TypeOK => Ownership
  BY DEF Init, Ownership, Pollers, HeldOnce, JoinerLocks, Alive
<1>2. Ownership /\ TypeOK' /\ [Next]_vars => Ownership'
  <2> SUFFICES ASSUME Ownership, TypeOK', [Next]_vars PROVE HeldOnce' /\ JoinerLocks'
    BY DEF Ownership
  <2> TypeOK
    BY DEF Ownership
  <2> USE RuntimeAssumption DEF taskVars, envVars
  <2>1. ASSUME NEW c \in Callers, Call(c) PROVE HeldOnce' /\ JoinerLocks'
    <3> USE DEF Ownership, HeldOnce, JoinerLocks, TypeOK, CallTypeOK, TaskTypeOK, Alive
    <3>1. CASE StartNoop(c)
      BY <3>1 DEF StartNoop, vars
    <3>2. CASE Start(c)
      BY <3>2 DEF Start, Pollers
    <3>3. CASE StopSignal(c)
      BY <3>3 DEF StopSignal
    <3>4. CASE StopNotRunning(c)
      BY <3>4 DEF StopNotRunning
    <3>5. CASE StopTake(c)
      BY <3>5 DEF StopTake
    <3>6. CASE StopJoined(c)
      BY <3>6 DEF StopJoined
    <3>7. QED BY <2>1, <3>1, <3>2, <3>3, <3>4, <3>5, <3>6 DEF Call, StopCall
  <2>2. ASSUME NEW p \in Pollers, Wake(p) \/ StopSeen(p) \/ Cycle(p)
        PROVE  HeldOnce' /\ JoinerLocks'
    BY <2>2, TaskSteps, TaskStep
  <2>3. CASE HealthDrain \/ PlcDown \/ PlcBack \/ UNCHANGED vars
    <3>1. callVars' = callVars /\ task' = task
      BY <2>3 DEF HealthDrain, PlcDown, PlcBack, vars, callVars
    <3>2. QED BY <3>1, TaskStep DEF Alive
  <2>4. QED BY <2>1, <2>2, <2>3 DEF Next
<1>3. QED BY <1>1, <1>2, TypeCorrect, PTL DEF Spec

\* At most one poller polls the PLC, however start() and stop() interleave.
THEOREM OnePollerTheorem == Spec => []AtMostOnePoller
<1>1. Ownership => AtMostOnePoller
  BY DEF Ownership, HeldOnce, AtMostOnePoller, Pollers
<1>2. QED BY <1>1, OwnershipTheorem, PTL

\* When a stop() returns no poller is running.
THEOREM StopMeansStoppedTheorem == Spec => StopMeansStopped
<1>1. Ownership /\ [Next]_vars =>
        [\A c \in Callers :
            pc[c] # "idle" /\ pc'[c] = "idle" => \A p \in Pollers : ~Alive(p)']_vars
  <2> SUFFICES ASSUME Ownership, Next, NEW c \in Callers, pc[c] # "idle", pc'[c] = "idle"
               PROVE  \A p \in Pollers : ~Alive(p)'
    OBVIOUS
  <2> USE DEF Ownership, TypeOK, CallTypeOK
  <2>1. PICK d \in Callers : Call(d)
    <3>1. ASSUME NEW p \in Pollers, Wake(p) \/ StopSeen(p) \/ Cycle(p) PROVE FALSE
      BY <3>1, TaskSteps DEF callVars
    <3>2. ASSUME HealthDrain \/ PlcDown \/ PlcBack PROVE FALSE
      BY <3>2 DEF HealthDrain, PlcDown, PlcBack, callVars
    <3>3. QED BY <3>1, <3>2 DEF Next
  <2>2. StopNotRunning(c) \/ StopJoined(c)
    BY <2>1 DEF Call, StopCall, StartNoop, Start, StopSignal, StopNotRunning, StopTake,
                StopJoined, vars
  <2> USE DEF HeldOnce, JoinerLocks, Alive, taskVars, Pollers
  <2>3. CASE StopNotRunning(c)
    BY <2>3 DEF StopNotRunning
  <2>4. CASE StopJoined(c)
    BY <2>4, RuntimeAssumption DEF StopJoined
  <2>5. QED BY <2>2, <2>3, <2>4
<1>2. QED BY <1>1, OwnershipTheorem, PTL DEF Spec, StopMeansStopped

-----------------------------------------------------------------------------
(***************************************************************************)
(* The backoff.  The powers of two are a recursive function, so what they  *)
(* are has to be shown first: for every n there is a list of the first n   *)
(* of them, any two of these lists agree, and together they make up the    *)
(* function that the definition chooses.  Both facts are proved by looking *)
(* at the least n for which they would fail.                               *)
(***************************************************************************)

LEMMA Least == ASSUME NEW T \in SUBSET Nat, T # {} PROVE \E m \in T : \A k \in T : m <= k
<1> DEFINE R == OpToRel(<, Nat)
<1>1. IsWellFoundedOn(R, Nat)
  BY NatLessThanWellFounded
<1>2. R = {pair \in Nat \X Nat : pair[1] < pair[2]}
  BY DEF OpToRel
<1> HIDE DEF R
<1>3. PICK m \in T : \A k \in T : ~ (<<k, m>> \in R)
  BY <1>1, WFMin
<1>4. ASSUME NEW k \in T PROVE m <= k
  <2>1. k \in Nat /\ m \in Nat /\ <<k, m>> \in Nat \X Nat /\ <<k, m>>[1] = k /\ <<k, m>>[2] = m
    OBVIOUS
  <2>2. ~(k < m)
    BY <1>2, <1>3, <2>1
  <2> QED BY <2>1, <2>2
<1> QED BY <1>4

\* The lists of the first powers.
Powers(n) == {g \in [0..n -> Nat] : g[0] = 1 /\ \A k \in 1..n : g[k] = 2 * g[k - 1]}

LEMMA PowersExist == \A n \in Nat : Powers(n) # {}
<1> DEFINE T == {n \in Nat : Powers(n) = {}}
<1> SUFFICES ASSUME T # {} PROVE FALSE
  OBVIOUS
<1>1. PICK n \in T : \A k \in T : n <= k
  <2>1. T \in SUBSET Nat
    OBVIOUS
  <2> HIDE DEF T
  <2> QED BY <2>1, Least
<1>2. n # 0
  <2>1. [k \in 0..0 |-> 1] \in Powers(0)
    BY DEF Powers
  <2> QED BY <2>1
<1>3. n - 1 \in Nat /\ n - 1 \notin T
  BY <1>1, <1>2
<1>4. PICK g \in Powers(n - 1) : TRUE
  BY <1>3
<1>5. [k \in 0..n |-> IF k = n THEN 2 * g[n - 1] ELSE g[k]] \in Powers(n)
  <2> DEFINE h == [k \in 0..n |-> IF k = n THEN 2 * g[n - 1] ELSE g[k]]
  <2>1. /\ g \in [0..(n - 1) -> Nat] /\ g[0] = 1
        /\ \A k \in 1..(n - 1) : g[k] = 2 * g[k - 1]
    BY DEF Powers
  <2>2. \A k \in 0..n : k # n => k \in 0..(n - 1)
    BY <1>3
  <2>3. h \in [0..n -> Nat]
    BY <1>3, <2>1, <2>2
  <2>4. h[0] = 1
    BY <1>2, <2>1
  <2>5. ASSUME NEW k \in 1..n PROVE h[k] = 2 * h[k - 1]
    <3>1. k - 1 \in 0..n /\ k - 1 # n /\ k \in 0..n /\ (k # n => k \in 1..(n - 1))
      BY <1>3
    <3>2. h[k - 1] = g[k - 1]
      BY <3>1
    <3>3. h[k] = IF k = n THEN 2 * g[n - 1] ELSE g[k]
      BY <3>1
    <3> QED BY <2>1, <3>1, <3>2, <3>3
  <2> HIDE DEF h
  <2>6. h \in Powers(n)
    BY <2>3, <2>4, <2>5 DEF Powers
  <2> QED BY <2>6 DEF h
<1> QED BY <1>5

LEMMA PowersAgree ==
    ASSUME NEW m \in Nat, NEW n \in Nat, NEW g \in Powers(m), NEW h \in Powers(n),
           NEW k \in Nat, k <= m, k <= n
    PROVE  g[k] = h[k]
<1> DEFINE T == {i \in Nat : i <= m /\ i <= n /\ g[i] # h[i]}
<1> SUFFICES ASSUME T # {} PROVE FALSE
  OBVIOUS
<1>1. PICK i \in T : \A j \in T : i <= j
  <2>1. T \in SUBSET Nat
    OBVIOUS
  <2> HIDE DEF T
  <2> QED BY <2>1, Least
<1>2. i # 0
  BY DEF Powers
<1>3. i \in 1..m /\ i \in 1..n /\ i - 1 \in Nat /\ i - 1 <= m /\ i - 1 <= n /\ ~(i <= i - 1)
  BY <1>2
<1>4. g[i - 1] = h[i - 1]
  BY <1>1, <1>3
<1>5. g[i] = 2 * g[i - 1] /\ h[i] = 2 * h[i - 1]
  BY <1>3 DEF Powers
<1> QED BY <1>4, <1>5

\* The function that Pow2 defines is there.
LEMMA PowersTogether ==
    \E f \in [Nat -> Nat] : f = [n \in Nat |-> IF n = 0 THEN 1 ELSE 2 * f[n - 1]]
<1> DEFINE G(n) == CHOOSE g \in Powers(n) : TRUE
<1>1. \A n \in Nat : G(n) \in Powers(n)
  BY PowersExist
<1> DEFINE f == [n \in Nat |-> G(n)[n]]
<1> HIDE DEF G
<1>2. f \in [Nat -> Nat]
  BY <1>1 DEF Powers
<1>3. f[0] = 1
  BY <1>1 DEF Powers
<1>4. ASSUME NEW n \in Nat, n # 0 PROVE f[n] = 2 * f[n - 1]
  <2>1. n - 1 \in Nat /\ n \in 1..n /\ n - 1 <= n
    BY <1>4
  <2>2. f[n] = G(n)[n] /\ f[n - 1] = G(n - 1)[n - 1]
    BY <2>1
  <2>3. G(n)[n] = 2 * G(n)[n - 1]
    BY <1>1, <2>1 DEF Powers
  <2>4. G(n)[n - 1] = G(n - 1)[n - 1]
    BY <1>1, <2>1, PowersAgree
  <2> QED BY <2>2, <2>3, <2>4
<1> HIDE DEF f
<1>5. f = [n \in Nat |-> IF n = 0 THEN 1 ELSE 2 * f[n - 1]]
  <2>1. \A n \in Nat : f[n] = IF n = 0 THEN 1 ELSE 2 * f[n - 1]
    BY <1>3, <1>4
  <2> QED BY <1>2, <2>1
<1> QED BY <1>2, <1>5

\* What Pow2 computes, for every n.
LEMMA Pow2Facts ==
    /\ Pow2[0] = 1
    /\ \A n \in Nat : Pow2[n + 1] = 2 * Pow2[n]
    /\ \A n \in Nat : Pow2[n] \in Nat
<1>1. Pow2 = [n \in Nat |-> IF n = 0 THEN 1 ELSE 2 * Pow2[n - 1]]
  BY PowersTogether DEF Pow2
<1>2. \A n \in Nat : Pow2[n] = IF n = 0 THEN 1 ELSE 2 * Pow2[n - 1]
  BY <1>1
<1>3. Pow2[0] = 1
  BY <1>2
<1>4. ASSUME NEW n \in Nat PROVE Pow2[n + 1] = 2 * Pow2[n]
  <2>1. n + 1 \in Nat /\ n + 1 # 0 /\ (n + 1) - 1 = n
    OBVIOUS
  <2>2. Pow2[n + 1] = 2 * Pow2[(n + 1) - 1]
    BY <1>2, <2>1
  <2> QED BY <2>1, <2>2
<1>5. \A n \in Nat : Pow2[n] \in Nat
  <2> DEFINE T == {n \in Nat : Pow2[n] \notin Nat}
  <2> SUFFICES ASSUME T # {} PROVE FALSE
    OBVIOUS
  <2>1. PICK n \in T : \A k \in T : n <= k
    <3>1. T \in SUBSET Nat
      OBVIOUS
    <3> HIDE DEF T
    <3> QED BY <3>1, Least
  <2>2. n # 0
    BY <1>3
  <2>3. n - 1 \in Nat /\ n - 1 \notin T
    BY <2>1, <2>2
  <2>4. Pow2[n] = 2 * Pow2[n - 1] /\ Pow2[n - 1] \in Nat
    BY <1>2, <2>2, <2>3
  <2> QED BY <2>4
<1> QED BY <1>3, <1>4, <1>5

\* One more failure doubles the backoff up to its limit: the computation of
\* backoff_secs in the loop is the power that ExpBackoff describes.
LEMMA OneMoreFailure ==
    ASSUME NEW n \in Nat PROVE NextBackoff(ExpBackoff(n)) = ExpBackoff(n + 1)
<1>1. MaxBackoff \in Nat \ {0}
  BY RuntimeAssumption
<1>2. CASE n = 0
  BY <1>1, <1>2, Pow2Facts DEF NextBackoff, ExpBackoff
<1>3. CASE n # 0
  <2>1. n - 1 \in Nat /\ (n - 1) + 1 = n /\ (n + 1) - 1 = n /\ n + 1 # 0
    BY <1>3
  <2>2. PICK x \in Nat : x = Pow2[n - 1]
    BY <2>1, Pow2Facts
  <2>3. Pow2[n] = 2 * x
    BY <2>1, <2>2, Pow2Facts
  <2>4. ASSUME x = 0 PROVE FALSE
    <3> DEFINE T == {k \in Nat : Pow2[k] = 0}
    <3>1. PICK k \in T : \A j \in T : k <= j
      <4>1. T \in SUBSET Nat /\ n - 1 \in T
        BY <2>1, <2>2, <2>4
      <4> HIDE DEF T
      <4> QED BY <4>1, Least
    <3>2. k # 0
      BY Pow2Facts
    <3>3. k - 1 \in Nat /\ k - 1 \notin T /\ (k - 1) + 1 = k
      BY <3>1, <3>2
    <3>4. Pow2[k] = 2 * Pow2[k - 1] /\ Pow2[k - 1] \in Nat /\ Pow2[k - 1] # 0
      BY <3>3, Pow2Facts
    <3> QED BY <3>4
  <2>5. ExpBackoff(n) = IF x < MaxBackoff THEN x ELSE MaxBackoff
    BY <1>3, <2>2 DEF ExpBackoff
  <2>6. ExpBackoff(n + 1) = IF 2 * x < MaxBackoff THEN 2 * x ELSE MaxBackoff
    BY <2>1, <2>3 DEF ExpBackoff
  <2> QED BY <1>1, <2>4, <2>5, <2>6 DEF NextBackoff
<1> QED BY <1>2, <1>3

\* Whatever is started, stopped and lost, the sleep before a cycle is
\* min(2^(n-1), max_backoff_secs) seconds after n failures in a row, and none
\* after a success.
THEOREM BackoffTheorem == Spec => []BackoffMatchesFailures
<1>1. Init => BackoffMatchesFailures
  BY DEF Init, BackoffMatchesFailures, ExpBackoff
<1>2. TypeOK /\ BackoffMatchesFailures /\ [Next]_vars => BackoffMatchesFailures'
  <2> SUFFICES ASSUME TaskTypeOK, BackoffMatchesFailures, [Next]_vars,
                      NEW p \in Pollers
               PROVE  backoff'[p] = ExpBackoff(fails'[p])
    BY DEF TypeOK, BackoffMatchesFailures, ExpBackoff
  <2>0. backoff[p] = ExpBackoff(fails[p])
    BY DEF BackoffMatchesFailures
  <2>1. CASE UNCHANGED <<backoff, fails>>
    BY <2>0, <2>1
  <2>2. ASSUME NEW q \in Pollers, NEW report \in BOOLEAN, CycleOk(q, report)
        PROVE  backoff'[p] = ExpBackoff(fails'[p])
    <3>1. backoff' = [backoff EXCEPT ![q] = 0] /\ fails' = [fails EXCEPT ![q] = 0]
      BY <2>2 DEF CycleOk
    <3>2. CASE p = q
      BY <3>1, <3>2 DEF TaskTypeOK, ExpBackoff
    <3>3. CASE p # q
      BY <2>0, <3>1, <3>3 DEF TaskTypeOK
    <3> QED BY <3>2, <3>3
  <2>3. ASSUME NEW q \in Pollers, CycleErr(q)
        PROVE  backoff'[p] = ExpBackoff(fails'[p])
    <3>1. /\ backoff' = [backoff EXCEPT ![q] = NextBackoff(backoff[q])]
          /\ fails' = [fails EXCEPT ![q] = fails[q] + 1]
      BY <2>3 DEF CycleErr
    <3>2. CASE p = q
      <4>1. fails[p] \in Nat
        BY RuntimeAssumption DEF TaskTypeOK
      <4>2. backoff'[p] = NextBackoff(backoff[p]) /\ fails'[p] = fails[p] + 1
        BY <3>1, <3>2 DEF TaskTypeOK
      <4> QED BY <2>0, <4>1, <4>2, OneMoreFailure
    <3>3. CASE p # q
      BY <2>0, <3>1, <3>3 DEF TaskTypeOK
    <3> QED BY <3>2, <3>3
  <2>4. ASSUME NEW c \in Callers, Call(c) PROVE UNCHANGED <<backoff, fails>>
    BY <2>4 DEF Call, StopCall, StartNoop, Start, StopSignal, StopNotRunning, StopTake,
                StopJoined, vars, taskVars
  <2>5. ASSUME NEW q \in Pollers, Wake(q) \/ StopSeen(q) \/ Connect(q) \/ ConnectionLost(q)
        PROVE  UNCHANGED <<backoff, fails>>
    BY <2>5 DEF Wake, JitterOver, Tick, BackoffOver, StopSeen, Connect, ConnectionLost, taskVars
  <2>6. ASSUME HealthDrain \/ PlcDown \/ PlcBack \/ UNCHANGED vars PROVE UNCHANGED <<backoff, fails>>
    BY <2>6 DEF HealthDrain, PlcDown, PlcBack, taskVars, vars
  <2> QED BY <2>1, <2>2, <2>3, <2>4, <2>5, <2>6 DEF Next, Cycle, CycleEnd
<1> QED BY <1>1, <1>2, TypeCorrect, PTL DEF Spec
=============================================================================
