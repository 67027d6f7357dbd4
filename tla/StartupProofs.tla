---------------------------- MODULE StartupProofs ----------------------------
(***************************************************************************)
(* The safety properties of Startup, for any configurations: any number of *)
(* PLCs and tags, and any mistakes in them.                                *)
(*                                                                         *)
(* The argument: every phase main has come through is one whose mistakes   *)
(* the configuration does not contain (Passed), the PLCs it has come past  *)
(* are wired (Wired), and the nodes it has created are those of distinct   *)
(* tags under distinct names (NodesAreSound).                              *)
(***************************************************************************)
EXTENDS Startup, FiniteSetTheorems, SequenceTheorems, WellFoundedInduction, TLAPS

\* The node of a tag.
NodeOf(t) == [name |-> NodeName(t), id |-> t]

\* The nodes are those of tags, and no two share their name.
NodesAreSound ==
    /\ \A n \in nodes : n.id \in Ids /\ n = NodeOf(n.id)
    /\ \A n, o \in nodes : n.name = o.name => n = o

\* main is beyond the phases ps, and has not given up.
Past(ps) == phase \notin ps \union {"failed"}

\* A mistake that a phase looks for is not there once main is past that phase.
Passed ==
    /\ Past({"load"}) => ~Mistake("config", 0)
    /\ Past({"load", "define"}) => \A i \in Entries : ~Mistake("tag", i)
    /\ Past({"load", "define", "registry"}) =>
         DefinitionsAreValid /\ \A t \in Ids : quality[t] # "absent"
    /\ Past({"load", "define", "registry", "health"}) => ~Mistake("health", 0)
    /\ Past({"load", "define", "registry", "health", "setup"}) =>
         ~OptionsRefused /\ next = Len(config.protocol) + 1
    /\ Past({"load", "define", "registry", "health", "setup", "build"}) =>
         ~(config.secure /\ Mistake("certfile", 0))
    /\ phase = "running" => WithoutNode = {}

\* PLC p has its driver: its tags are routed to it, and its poller is started.
HasDriver(p) ==
    /\ ~SetupRefused(p) /\ ~SetupHangs(p)
    /\ poller[p] # "off"
    /\ \A t \in TagsOf(p) : route[t] = p

\* Every supported PLC that main has come past has its driver.
Wired ==
    Past({"load", "define", "registry", "health"}) =>
        \A p \in Plcs : p < next /\ Supported(p) => HasDriver(p)

\* The inductive invariant.
Inv == DomainsOK /\ NodesAreSound /\ Passed /\ Wired /\ FailureHasCause

-----------------------------------------------------------------------------
(***************************************************************************)
(* Configurations.                                                         *)
(***************************************************************************)

LEMMA ConfigFacts ==
    ASSUME config \in Configs
    PROVE  /\ Len(config.protocol) \in Nat /\ Len(config.tags) \in Nat
           /\ Plcs \subseteq AllPlcs /\ Plcs \subseteq Nat \ {0}
           /\ Ids \subseteq AllIds /\ Ids \subseteq Nat
           /\ config.mistakes \subseteq [kind : MistakeKinds, at : Nat]
<1>1. /\ config.protocol \in Seq({"fins", "modbus", "other"})
      /\ config.tags \in Seq([id : Nat, plc : 1..Len(config.protocol), node : STRING,
                           plain : BOOLEAN])
      /\ config.mistakes \subseteq [kind : MistakeKinds, at : Nat]
  BY StartupAssumption
<1>2. Len(config.protocol) \in Nat /\ Len(config.tags) \in Nat
  BY <1>1
<1>3. Plcs \subseteq AllPlcs /\ Plcs \subseteq Nat \ {0}
  BY <1>2 DEF Plcs, AllPlcs
<1>4. \A i \in Entries : config.tags[i] \in [id : Nat, plc : 1..Len(config.protocol),
                                              node : STRING, plain : BOOLEAN]
  <2> TAKE i \in Entries
  <2>1. i \in 1..Len(config.tags)
    BY DEF Entries
  <2> QED BY <1>1, <2>1, ElementOfSeq
<1>5. Ids \subseteq Nat
  <2>1. \A i \in Entries : config.tags[i].id \in Nat
    BY <1>4
  <2> QED BY <2>1 DEF Ids
<1>6. Ids \in {{c.tags[i].id : i \in 1..Len(c.tags)} : c \in Configs}
  BY DEF Ids, Entries
<1>7. Ids \subseteq AllIds
  BY <1>6 DEF AllIds
<1> QED BY <1>1, <1>2, <1>3, <1>5, <1>7

\* What a step of anyone leaves alone.
LEMMA ConfigKept ==
    ASSUME [Next]_vars
    PROVE  config' = config
<1>1. ASSUME NEW p \in Plcs, SkipPlc(p) \/ SetupFails(p) \/ SetupDriver(p)
      PROVE  config' = config
  BY <1>1 DEF SkipPlc, SetupFails, SetupDriver
<1>2. ASSUME NEW p \in Plcs, Poller(p) \/ Environment(p) PROVE config' = config
  BY <1>2 DEF Poller, Connect, LoseConnection, PublishTag, Environment, PlcAppears, PlcVanishes
<1>3. CASE LoadConfig \/ DefineTags \/ BuildRegistry \/ OpenHealthChannel
           \/ CheckOptions \/ BuildServer \/ CreateNode \/ Serve
  BY <1>3 DEF LoadConfig, DefineTags, BuildRegistry, OpenHealthChannel, CheckOptions,
              BuildServer, CreateNode, Serve
<1>4. CASE Ended \/ UNCHANGED vars
  BY <1>4 DEF Ended, vars
<1> QED BY <1>1, <1>2, <1>3, <1>4 DEF Next, Main

\* The configuration decides all of these.
LEMMA DerivedKept ==
    ASSUME config' = config
    PROVE  /\ Entries' = Entries /\ Ids' = Ids /\ Plcs' = Plcs
           /\ \A p : Supported(p)' <=> Supported(p)
           /\ \A t : NodeOf(t)' = NodeOf(t) /\ NodeName(t)' = NodeName(t)
           /\ \A p : TagsOf(p)' = TagsOf(p)
           /\ \A k, n : Mistake(k, n)' <=> Mistake(k, n)
           /\ \A p : (SetupRefused(p)' <=> SetupRefused(p)) /\ (SetupHangs(p)' <=> SetupHangs(p))
           /\ OptionsRefused' <=> OptionsRefused
           /\ DefinitionsAreValid' <=> DefinitionsAreValid
           /\ Mistaken' <=> Mistaken
BY DEF Entries, Ids, Plcs, Supported, NodeOf, NodeName, EntryOf, TagsOf, PlcOf, Mistake,
       SetupRefused, SetupHangs, EndpointUnknown, MappingImpossible, DriverInvalid, OptionsRefused,
       OptionUnknown, CertificateUnset, ServerInvalid, DefinitionsAreValid, FieldIsEmpty,
       Mistaken, IdsClash, NodesClash, Matters

-----------------------------------------------------------------------------
(***************************************************************************)
(* Type correctness.                                                       *)
(***************************************************************************)

\* There are no more nodes than tags.
LEMMA NodesAreFew ==
    ASSUME config \in Configs, NodesAreSound PROVE Cardinality(nodes) <= Cardinality(Ids)
<1>1. IsFiniteSet(Ids)
  <2> DEFINE f == [i \in Entries |-> config.tags[i].id]
  <2>1. f \in Surjection(Entries, Ids)
    BY DEF Surjection, Ids
  <2>2. IsFiniteSet(Entries)
    BY ConfigFacts, FS_Interval DEF Entries
  <2> HIDE DEF f
  <2> QED BY <2>1, <2>2, FS_Surjection
<1> DEFINE g == [n \in nodes |-> n.id]
<1>2. g \in Injection(nodes, Ids)
  <2>1. g \in [nodes -> Ids]
    BY DEF NodesAreSound
  <2>2. ASSUME NEW n \in nodes, NEW o \in nodes, g[n] = g[o] PROVE n = o
    <3>1. n.id = o.id
      BY <2>2
    <3> QED BY <3>1 DEF NodesAreSound
  <2> HIDE DEF g
  <2> QED BY <2>1, <2>2 DEF Injection, IsInjective
<1> HIDE DEF g
<1> QED BY <1>1, <1>2, FS_Injection

LEMMA InitInv == Init => Inv
<1> SUFFICES ASSUME Init PROVE Inv
  OBVIOUS
<1>1. config \in Configs /\ phase = "load"
  BY DEF Init
<1>2. DomainsOK
  BY <1>1 DEF Init, DomainsOK, Qualities
<1>3. NodesAreSound
  BY DEF Init, NodesAreSound
<1>4. Passed /\ Wired /\ FailureHasCause
  BY <1>1 DEF Passed, Wired, FailureHasCause, Past
<1> QED BY <1>2, <1>3, <1>4 DEF Inv

LEMMA DomainsStep ==
    ASSUME DomainsOK, [Next]_vars
    PROVE  DomainsOK'
<1> USE DEF DomainsOK
<1>0. config' = config /\ config \in Configs
  BY ConfigKept
<1>1. /\ Plcs' = Plcs /\ \A p : Supported(p)' <=> Supported(p)
      /\ \A p : TagsOf(p)' = TagsOf(p)
  BY <1>0, DerivedKept
<1>2. Plcs \subseteq AllPlcs /\ Plcs \subseteq Nat \ {0} /\ Ids \subseteq AllIds
  BY <1>0, ConfigFacts
<1>3. \A p : TagsOf(p) \subseteq AllIds
  BY <1>2 DEF TagsOf
<1>4. CASE LoadConfig \/ DefineTags
  BY <1>0, <1>1, <1>4 DEF LoadConfig, DefineTags, Stage
<1>5. CASE BuildRegistry \/ OpenHealthChannel
  <2>1. CASE BuildRegistry
    <3>1. quality' \in [AllIds -> Qualities]
      BY <2>1 DEF BuildRegistry, Qualities
    <3> QED BY <1>0, <1>1, <2>1, <3>1 DEF BuildRegistry, Stage
  <2>2. CASE OpenHealthChannel
    BY <1>0, <1>1, <2>2 DEF OpenHealthChannel, Stage
  <2> QED BY <1>5, <2>1, <2>2
<1>6. ASSUME NEW p \in Plcs, SkipPlc(p) \/ SetupFails(p) PROVE DomainsOK'
  BY <1>0, <1>1, <1>6 DEF SkipPlc, SetupFails
<1>7. ASSUME NEW p \in Plcs, SetupDriver(p) PROVE DomainsOK'
  <2>1. route' \in [AllIds -> {0} \union AllPlcs]
    BY <1>2, <1>7 DEF SetupDriver
  <2>2. poller' = [poller EXCEPT ![p] = "connecting"] /\ p \in AllPlcs /\ Supported(p)
    BY <1>2, <1>7 DEF SetupDriver
  <2>3. poller' \in [AllPlcs -> {"off", "connecting", "polling"}]
    BY <2>2
  <2>4. \A q \in AllPlcs : poller'[q] # "off" => q \in Plcs /\ Supported(q)
    BY <2>2
  <2> QED BY <1>0, <1>1, <1>7, <2>1, <2>3, <2>4 DEF SetupDriver
<1>8. CASE CheckOptions \/ BuildServer \/ Serve
  BY <1>0, <1>1, <1>8 DEF CheckOptions, BuildServer, Serve, Stage
<1>9. CASE CreateNode
  BY <1>0, <1>1, <1>9 DEF CreateNode
<1>10. ASSUME NEW p \in Plcs, Connect(p) PROVE DomainsOK'
  <2>1. poller' = [poller EXCEPT ![p] = "polling"] /\ p \in AllPlcs /\ Supported(p)
    BY <1>2, <1>10 DEF Connect
  <2>2. poller' \in [AllPlcs -> {"off", "connecting", "polling"}]
    BY <2>1
  <2>3. \A q \in AllPlcs : poller'[q] # "off" => q \in Plcs /\ Supported(q)
    BY <2>1
  <2> QED BY <1>0, <1>1, <1>10, <2>2, <2>3 DEF Connect
<1>11. ASSUME NEW p \in Plcs, NEW t \in TagsOf(p), PublishTag(p, t) PROVE DomainsOK'
  BY <1>0, <1>1, <1>3, <1>11 DEF PublishTag, Qualities
<1>12. ASSUME NEW p \in Plcs, LoseConnection(p) PROVE DomainsOK'
  <2>1. quality' \in [AllIds -> Qualities]
    BY <1>12 DEF LoseConnection, Qualities
  <2>2. poller' = [poller EXCEPT ![p] = "connecting"] /\ p \in AllPlcs /\ Supported(p)
    BY <1>2, <1>12 DEF LoseConnection
  <2>3. poller' \in [AllPlcs -> {"off", "connecting", "polling"}]
    BY <2>2
  <2>4. \A q \in AllPlcs : poller'[q] # "off" => q \in Plcs /\ Supported(q)
    BY <2>2
  <2> QED BY <1>0, <1>1, <1>12, <2>1, <2>3, <2>4 DEF LoseConnection
<1>13. ASSUME NEW p \in Plcs, Environment(p) PROVE DomainsOK'
  BY <1>0, <1>1, <1>13 DEF Environment, PlcAppears, PlcVanishes
<1>14. CASE Ended \/ UNCHANGED vars
  BY <1>0, <1>1, <1>14 DEF Ended, vars
<1> QED BY <1>4, <1>5, <1>6, <1>7, <1>8, <1>9, <1>10, <1>11, <1>12, <1>13, <1>14
        DEF Next, Main, Poller

-----------------------------------------------------------------------------
(***************************************************************************)
(* The nodes.                                                              *)
(***************************************************************************)

LEMMA Least == ASSUME NEW T \in SUBSET Nat, T # {} PROVE \E m \in T : \A k \in T : m <= k
<1> DEFINE R == OpToRel(<, Nat)
<1>1. IsWellFoundedOn(R, Nat)
  BY NatLessThanWellFounded
<1>2. R = {pair \in Nat \X Nat : pair[1] < pair[2]}
  BY DEF OpToRel
<1> HIDE DEF R
<1>3. PICK m \in T : \A k \in T : ~ (<<k, m>> \in R)
  BY <1>1, WFMin
<1>4. ASSUME NEW k \in T PROVE m <= k
  <2>1. k \in Nat /\ m \in Nat /\ <<k, m>> \in Nat \X Nat /\ <<k, m>>[1] = k /\ <<k, m>>[2] = m
    OBVIOUS
  <2>2. ~(k < m)
    BY <1>2, <1>3, <2>1
  <2> QED BY <2>1, <2>2
<1> QED BY <1>4

\* The loop takes a tag that has no node, as long as there is one.
LEMMA NextTagFacts ==
    ASSUME config \in Configs, WithoutNode # {}
    PROVE  NextTag \in Ids /\ \A n \in nodes : n.id # NextTag
<1>1. WithoutNode \in SUBSET Nat
  BY ConfigFacts DEF WithoutNode
<1>2. \E t \in WithoutNode : \A u \in WithoutNode : t <= u
  BY <1>1, Least
<1>3. NextTag \in WithoutNode
  BY <1>2 DEF NextTag
<1> QED BY <1>3 DEF WithoutNode

\* What the creation of a node does: it adds the node of a tag that had none, or it
\* fails, and then for a clash or for what was published of that tag.
LEMMA NodeOutcome ==
    ASSUME config \in Configs, CreateNode
    PROVE  \E t \in Ids :
             /\ t = NextTag
             /\ \A n \in nodes : n.id # t
             /\ \/ /\ \A n \in nodes : n.name # NodeName(t)
                   /\ nodes' = nodes \union {NodeOf(t)}
                   /\ phase' = phase
                \/ /\ phase' = "failed"
                   /\ nodes' = nodes
                   /\ \/ \E n \in nodes : n.name = NodeName(t)
                      \/ quality[t] \notin {"good", "initializing"}
<1>1. NextTag \in Ids /\ \A n \in nodes : n.id # NextTag
  BY NextTagFacts DEF CreateNode
<1>2. PICK t \in Ids : t = NextTag
  BY <1>1
<1>3. CASE ReadStatus(t) = "GOOD" /\ ~\E n \in nodes : n.name = NodeName(t)
  BY <1>1, <1>2, <1>3 DEF CreateNode, NodeOf
<1>4. CASE ReadStatus(t) # "GOOD"
  <2>1. quality[t] \notin {"good", "initializing"}
    BY <1>4, Zenon DEF ReadStatus, StatusOf, HasVariant
  <2> QED BY <1>1, <1>2, <1>4, <2>1 DEF CreateNode
<1>5. CASE \E n \in nodes : n.name = NodeName(t)
  BY <1>1, <1>2, <1>5 DEF CreateNode
<1> QED BY <1>3, <1>4, <1>5

LEMMA NodesStep ==
    ASSUME config \in Configs, NodesAreSound, [Next]_vars
    PROVE  NodesAreSound'
<1>1. config' = config
  BY ConfigKept
<1>2. Ids' = Ids /\ \A t : NodeOf(t)' = NodeOf(t)
  BY <1>1, DerivedKept
<1>3. CASE nodes' = nodes
  BY <1>2, <1>3 DEF NodesAreSound
<1>4. CASE CreateNode
  <2>1. PICK t \in Ids :
             /\ \A n \in nodes : n.id # t
             /\ \/ /\ \A n \in nodes : n.name # NodeName(t)
                   /\ nodes' = nodes \union {NodeOf(t)}
                \/ nodes' = nodes
    BY <1>4, NodeOutcome
  <2>2. CASE /\ \A n \in nodes : n.name # NodeName(t)
             /\ nodes' = nodes \union {NodeOf(t)}
    <3>1. NodeOf(t).id = t /\ NodeOf(t).name = NodeName(t)
      BY DEF NodeOf
    <3>2. \A n \in nodes' : n.id \in Ids /\ n = NodeOf(n.id)
      BY <2>2, <3>1 DEF NodesAreSound
    <3>3. \A n, o \in nodes' : n.name = o.name => n = o
      BY <2>2, <3>1 DEF NodesAreSound
    <3> QED BY <1>2, <3>2, <3>3 DEF NodesAreSound
  <2> QED BY <1>3, <2>1, <2>2
<1>5. ASSUME NEW p \in Plcs, SkipPlc(p) \/ SetupFails(p) \/ SetupDriver(p) PROVE nodes' = nodes
  BY <1>5 DEF SkipPlc, SetupFails, SetupDriver
<1>6. ASSUME NEW p \in Plcs, Poller(p) \/ Environment(p) PROVE nodes' = nodes
  BY <1>6 DEF Poller, Connect, LoseConnection, PublishTag, Environment, PlcAppears, PlcVanishes
<1>7. ASSUME \/ LoadConfig \/ DefineTags \/ BuildRegistry \/ OpenHealthChannel
             \/ CheckOptions \/ BuildServer \/ Serve \/ Ended \/ UNCHANGED vars
      PROVE  nodes' = nodes
  BY <1>7 DEF LoadConfig, DefineTags, BuildRegistry, OpenHealthChannel, CheckOptions,
              BuildServer, Serve, Ended, vars
<1> QED BY <1>3, <1>4, <1>5, <1>6, <1>7 DEF Next, Main

-----------------------------------------------------------------------------
(***************************************************************************)
(* What main has passed.                                                   *)
(***************************************************************************)

\* A step of a poller or a PLC leaves main where it is, makes no tag absent again
\* and stops no poller.
LEMMA PollerFacts ==
    ASSUME DomainsOK, NEW p \in Plcs, Poller(p) \/ Environment(p)
    PROVE  /\ phase # "failed"
           /\ UNCHANGED <<phase, next, nodes, route>>
           /\ \A t \in Ids : quality[t] # "absent" => quality'[t] # "absent"
           /\ \A q \in Plcs : poller[q] # "off" => poller'[q] # "off"
<1> USE DEF DomainsOK
<1>1. Plcs \subseteq AllPlcs /\ Ids \subseteq AllIds
  BY ConfigFacts
<1>2. \A q : TagsOf(q) \subseteq AllIds
  BY <1>1 DEF TagsOf
<1>3. CASE Connect(p)
  BY <1>1, <1>3 DEF Connect, Alive
<1>4. CASE LoseConnection(p)
  <2>1. \A t \in AllIds : quality'[t] \in {"commlost", quality[t]}
    BY <1>4 DEF LoseConnection
  <2> QED BY <1>1, <1>4, <2>1 DEF LoseConnection, Alive
<1>5. ASSUME NEW t \in TagsOf(p), PublishTag(p, t)
      PROVE  /\ phase # "failed"
             /\ UNCHANGED <<phase, next, nodes, route, poller>>
             /\ \A u \in Ids : quality[u] # "absent" => quality'[u] # "absent"
  <2>1. PICK q \in {"good", "configerror", "unshowable"} : quality' = [quality EXCEPT ![t] = q]
    BY <1>5 DEF PublishTag
  <2>2. \A u \in AllIds : quality'[u] \in {q, quality[u]}
    BY <2>1
  <2> QED BY <1>1, <1>5, <2>2 DEF PublishTag, Alive
<1>6. CASE Environment(p)
  BY <1>6 DEF Environment, PlcAppears, PlcVanishes, Alive
<1> QED BY <1>3, <1>4, <1>5, <1>6 DEF Poller

LEMMA PassedStep ==
    ASSUME DomainsOK, Passed, [Next]_vars
    PROVE  Passed'
<1> DEFINE Same == /\ Entries' = Entries /\ Ids' = Ids
                   /\ \A k, n : Mistake(k, n)' <=> Mistake(k, n)
                   /\ OptionsRefused' <=> OptionsRefused
                   /\ DefinitionsAreValid' <=> DefinitionsAreValid
<1>0. config' = config /\ config \in Configs
  BY ConfigKept DEF DomainsOK
<1>1. Same
  BY <1>0, DerivedKept
<1>2. ASSUME NEW p \in Plcs, Poller(p) \/ Environment(p) PROVE Passed'
  <2>1. /\ UNCHANGED <<phase, next, nodes>>
        /\ \A t \in Ids : quality[t] # "absent" => quality'[t] # "absent"
    BY <1>2, PollerFacts
  <2>2. WithoutNode' = WithoutNode
    BY <1>1, <2>1 DEF WithoutNode
  <2> QED BY <1>0, <1>1, <2>1, <2>2 DEF Passed, Past
<1>3. ASSUME UNCHANGED vars PROVE Passed'
  <2>1. WithoutNode' = WithoutNode
    BY <1>1, <1>3 DEF WithoutNode, vars
  <2> QED BY <1>0, <1>1, <1>3, <2>1 DEF Passed, Past, vars
<1>4. CASE LoadConfig
  BY <1>1, <1>4 DEF LoadConfig, Stage, Passed, Past
<1>5. CASE DefineTags
  BY <1>1, <1>5 DEF DefineTags, Stage, Passed, Past
<1>6. CASE BuildRegistry
  <2>1. CASE DefinitionsAreValid
    <3>1. phase = "registry" /\ phase' = "health"
      BY <1>6, <2>1 DEF BuildRegistry, Stage
    <3>2. Ids \subseteq AllIds
      BY <1>0, ConfigFacts
    <3>3. \A t \in Ids : quality'[t] # "absent"
      BY <1>6, <2>1, <3>2 DEF BuildRegistry
    <3> QED BY <1>1, <2>1, <3>1, <3>3 DEF Passed, Past
  <2>2. CASE ~DefinitionsAreValid
    BY <1>1, <1>6, <2>2 DEF BuildRegistry, Stage, Passed, Past
  <2> QED BY <2>1, <2>2
<1>7. CASE OpenHealthChannel
  BY <1>1, <1>7 DEF OpenHealthChannel, Stage, Passed, Past
<1>8. ASSUME NEW p \in Plcs, SkipPlc(p) \/ SetupDriver(p) PROVE Passed'
  <2>1. phase = "setup" /\ UNCHANGED <<phase, quality>>
    BY <1>8 DEF SkipPlc, SetupDriver, SettingUp
  <2> QED BY <1>1, <2>1 DEF Passed, Past
<1>9. ASSUME phase' = "failed" PROVE Passed'
  BY <1>9 DEF Passed, Past
<1>10. ASSUME NEW p \in Plcs, SetupFails(p) PROVE Passed'
  BY <1>9, <1>10 DEF SetupFails
<1>11. CASE CheckOptions
  <2>1. CASE OptionsRefused
    BY <1>9, <1>11, <2>1 DEF CheckOptions, Stage
  <2>2. CASE ~OptionsRefused
    <3>1. /\ phase = "setup" /\ phase' = "build" /\ UNCHANGED <<next, quality>>
          /\ next = Len(config.protocol) + 1
      BY <1>11, <2>2 DEF CheckOptions, Stage
    <3> QED BY <1>0, <1>1, <2>2, <3>1 DEF Passed, Past
  <2> QED BY <2>1, <2>2
<1>12. CASE BuildServer
  <2>1. CASE config.secure /\ Mistake("certfile", 0)
    BY <1>9, <1>12, <2>1 DEF BuildServer, Stage
  <2>2. CASE ~(config.secure /\ Mistake("certfile", 0))
    <3>1. phase = "build" /\ phase' = "nodes" /\ UNCHANGED <<next, quality>>
      BY <1>12, <2>2 DEF BuildServer, Stage
    <3> QED BY <1>0, <1>1, <2>2, <3>1 DEF Passed, Past
  <2> QED BY <2>1, <2>2
<1>13. CASE CreateNode
  <2>1. phase = "nodes" /\ phase' \in {"nodes", "failed"} /\ UNCHANGED <<next, quality>>
    BY <1>13 DEF CreateNode
  <2> QED BY <1>0, <1>1, <2>1 DEF Passed, Past
<1>14. CASE Serve
  <2>1. /\ phase = "nodes" /\ phase' = "running" /\ UNCHANGED <<next, quality, nodes>>
        /\ WithoutNode = {}
    BY <1>14 DEF Serve
  <2>2. WithoutNode' = {}
    BY <1>1, <2>1 DEF WithoutNode
  <2> QED BY <1>0, <1>1, <2>1, <2>2 DEF Passed, Past
<1> QED BY <1>2, <1>3, <1>4, <1>5, <1>6, <1>7, <1>8, <1>10, <1>11, <1>12, <1>13, <1>14
        DEF Next, Main, Ended

\* A PLC keeps its driver as long as its routes and its poller stay.
LEMMA DriverKept ==
    ASSUME config' = config, NEW p, HasDriver(p),
           poller'[p] # "off", \A t \in TagsOf(p) : route'[t] = route[t]
    PROVE  HasDriver(p)'
<1>1. TagsOf(p)' = TagsOf(p) /\ (SetupRefused(p)' <=> SetupRefused(p)) /\ (SetupHangs(p)' <=> SetupHangs(p))
  BY DerivedKept
<1> QED BY <1>1 DEF HasDriver

LEMMA WiredStep ==
    ASSUME DomainsOK, Wired, [Next]_vars
    PROVE  Wired'
<1>0. config' = config /\ config \in Configs
  BY ConfigKept DEF DomainsOK
<1>1. /\ Plcs' = Plcs /\ \A p : Supported(p)' <=> Supported(p)
      /\ \A p : TagsOf(p)' = TagsOf(p)
      /\ \A p : (SetupRefused(p)' <=> SetupRefused(p)) /\ (SetupHangs(p)' <=> SetupHangs(p))
  BY <1>0, DerivedKept
<1>2. Plcs \subseteq AllPlcs /\ Plcs \subseteq Nat \ {0} /\ Ids \subseteq AllIds
  BY <1>0, ConfigFacts
<1>3. ASSUME UNCHANGED <<next, route>>, \A q \in Plcs : poller[q] # "off" => poller'[q] # "off",
             Past({"load", "define", "registry", "health"})'
                 => Past({"load", "define", "registry", "health"})
      PROVE  Wired'
  <2> SUFFICES ASSUME Past({"load", "define", "registry", "health"})', NEW q \in Plcs,
                      q < next', Supported(q)
               PROVE  HasDriver(q)'
    BY <1>1 DEF Wired
  <2>1. HasDriver(q)
    BY <1>3 DEF Wired
  <2> QED BY <1>0, <1>3, <2>1, DriverKept DEF HasDriver
<1>4. ASSUME NEW p \in Plcs, Poller(p) \/ Environment(p) PROVE Wired'
  BY <1>3, <1>4, PollerFacts DEF Past
<1>5. ASSUME phase' \in {"load", "define", "registry", "health", "failed"} PROVE Wired'
  BY <1>5 DEF Wired, Past
<1>6. CASE LoadConfig \/ DefineTags \/ BuildRegistry
  BY <1>5, <1>6 DEF LoadConfig, DefineTags, BuildRegistry, Stage
<1>7. CASE OpenHealthChannel
  <2>1. next' = 1
    BY <1>7 DEF OpenHealthChannel
  <2>2. \A q \in Plcs : ~(q < next')
    BY <1>2, <2>1
  <2> QED BY <1>1, <2>2 DEF Wired
<1>8. ASSUME NEW p \in Plcs, SkipPlc(p) PROVE Wired'
  <2>1. /\ phase = "setup" /\ phase' = "setup" /\ next = p /\ next' = p + 1 /\ ~Supported(p)
        /\ UNCHANGED <<route, poller>>
    BY <1>8 DEF SkipPlc, SettingUp
  <2> SUFFICES ASSUME NEW q \in Plcs, q < next', Supported(q) PROVE HasDriver(q)'
    BY <1>1 DEF Wired
  <2>2. q < next
    BY <1>2, <2>1
  <2>3. HasDriver(q)
    BY <2>1, <2>2 DEF Wired, Past
  <2> QED BY <1>0, <2>1, <2>3, DriverKept DEF HasDriver
<1>9. ASSUME NEW p \in Plcs, SetupDriver(p) PROVE Wired'
  <2>1. /\ phase = "setup" /\ phase' = "setup" /\ next = p /\ next' = p + 1 /\ ~SetupRefused(p) /\ ~SetupHangs(p)
        /\ route' = [t \in AllIds |-> IF t \in TagsOf(p) THEN p ELSE route[t]]
        /\ poller' = [poller EXCEPT ![p] = "connecting"]
    BY <1>9 DEF SetupDriver, SettingUp
  <2> SUFFICES ASSUME NEW q \in Plcs, q < next', Supported(q) PROVE HasDriver(q)'
    BY <1>1 DEF Wired
  <2>2. \A u : TagsOf(u) \subseteq AllIds
    BY <1>2 DEF TagsOf
  <2>3. CASE q = p
    <3>1. poller'[p] # "off"
      BY <1>2, <2>1 DEF DomainsOK
    <3>2. \A t \in TagsOf(p) : route'[t] = p
      BY <2>1, <2>2
    <3> QED BY <1>1, <2>1, <2>3, <3>1, <3>2 DEF HasDriver
  <2>4. CASE q # p
    <3>1. q < next
      BY <1>2, <2>1, <2>4
    <3>2. HasDriver(q)
      BY <2>1, <3>1 DEF Wired, Past
    <3>3. poller'[q] # "off"
      BY <1>2, <2>1, <2>4, <3>2 DEF DomainsOK, HasDriver
    <3>4. \A t \in TagsOf(q) : t \notin TagsOf(p)
      BY <2>4 DEF TagsOf
    <3>5. \A t \in TagsOf(q) : route'[t] = route[t]
      BY <2>1, <2>2, <3>4
    <3> QED BY <1>0, <3>2, <3>3, <3>5, DriverKept
  <2> QED BY <2>3, <2>4
<1>10. ASSUME NEW p \in Plcs, SetupFails(p) PROVE Wired'
  BY <1>5, <1>10 DEF SetupFails
<1>11. CASE CheckOptions \/ BuildServer \/ Serve
  BY <1>3, <1>11 DEF CheckOptions, BuildServer, Serve, Stage, Past
<1>12. CASE CreateNode
  BY <1>3, <1>12 DEF CreateNode, Past
<1>13. CASE Ended \/ UNCHANGED vars
  BY <1>3, <1>13 DEF Ended, vars, Past
<1> QED BY <1>4, <1>6, <1>7, <1>8, <1>9, <1>10, <1>11, <1>12, <1>13 DEF Next, Main

-----------------------------------------------------------------------------
(***************************************************************************)
(* Mistakes, and the failures they cause.                                  *)
(***************************************************************************)

\* A mistake that matters is one that Mistaken counts.
LEMMA MistakeCounts ==
    ASSUME NEW k, NEW n, Mistake(k, n), Matters([kind |-> k, at |-> n])
    PROVE  Mistaken
BY DEF Mistake, Mistaken

\* Whatever makes a phase give up is a mistake that matters.
LEMMA Causes ==
    ASSUME config \in Configs
    PROVE  /\ Mistake("config", 0) => Mistaken
           /\ \A i \in Entries : Mistake("tag", i) => Mistaken
           /\ ~DefinitionsAreValid => Mistaken
           /\ Mistake("health", 0) => Mistaken
           /\ \A p \in Plcs : Supported(p) /\ SetupRefused(p) => Mistaken
           /\ OptionsRefused => Mistaken
           /\ config.secure /\ Mistake("certfile", 0) => Mistaken
<1>1. \A k \in {"config", "health", "options", "server"} : Mistake(k, 0) => Mistaken
  BY MistakeCounts, Zenon DEF Matters
<1>2. \A k \in {"certpath", "certfile"} : config.secure /\ Mistake(k, 0) => Mistaken
  BY MistakeCounts, Zenon DEF Matters
<1>3. \A k \in {"tag", "definition"}, i \in Entries : Mistake(k, i) => Mistaken
  BY MistakeCounts, Zenon DEF Matters
<1>4. \A k \in {"endpoint", "mapping", "driver"}, p \in Plcs :
         Supported(p) /\ Mistake(k, p) => Mistaken
  BY MistakeCounts, Zenon DEF Matters
<1>5. ASSUME ~DefinitionsAreValid PROVE Mistaken
  <2>1. PICK i \in Entries : FieldIsEmpty(i)
                             \/ \E j \in 1..(i - 1) : config.tags[j].id = config.tags[i].id
    BY <1>5 DEF DefinitionsAreValid
  <2>2. ASSUME NEW j \in 1..(i - 1), config.tags[j].id = config.tags[i].id PROVE IdsClash
    <3>1. Len(config.tags) \in Nat
      BY ConfigFacts
    <3>2. i \in 1..Len(config.tags)
      BY DEF Entries
    <3>3. j \in Entries /\ i # j
      BY <3>1, <3>2 DEF Entries
    <3> QED BY <2>2, <3>3 DEF IdsClash
  <2> QED BY <1>3, <2>1, <2>2 DEF FieldIsEmpty, Mistaken
<1> QED BY <1>1, <1>2, <1>3, <1>4, <1>5
        DEF SetupRefused, EndpointUnknown, MappingImpossible, DriverInvalid,
            OptionsRefused, OptionUnknown, CertificateUnset, ServerInvalid

LEMMA FailureStep ==
    ASSUME DomainsOK, NodesAreSound, Passed, FailureHasCause, [Next]_vars
    PROVE  FailureHasCause'
<1>0. config' = config /\ config \in Configs
  BY ConfigKept DEF DomainsOK
<1>1. Ids' = Ids /\ (Mistaken' <=> Mistaken)
  BY <1>0, DerivedKept
<1>2. ASSUME phase' # "failed" \/ Mistaken PROVE FailureHasCause'
  BY <1>1, <1>2 DEF FailureHasCause
<1>3. ASSUME NEW p \in Plcs, Poller(p) \/ Environment(p) PROVE FailureHasCause'
  BY <1>2, <1>3, PollerFacts
<1>4. ASSUME UNCHANGED vars PROVE FailureHasCause'
  <2>1. WithoutNode' = WithoutNode /\ NextTag' = NextTag
    BY <1>1, <1>4 DEF vars, WithoutNode, NextTag
  <2> QED BY <1>1, <1>4, <2>1 DEF FailureHasCause, vars
<1>5. CASE LoadConfig \/ DefineTags \/ BuildRegistry \/ OpenHealthChannel
           \/ CheckOptions \/ BuildServer \/ Serve
  <2>1. phase' # "failed" \/ Mistaken
    BY <1>0, <1>5, Causes DEF LoadConfig, DefineTags, BuildRegistry, OpenHealthChannel,
                              CheckOptions, BuildServer, Serve, Stage
  <2> QED BY <1>2, <2>1
<1>6. ASSUME NEW p \in Plcs, SkipPlc(p) \/ SetupFails(p) \/ SetupDriver(p) PROVE FailureHasCause'
  <2>1. phase' # "failed" \/ Mistaken
    BY <1>0, <1>6, Causes DEF SkipPlc, SetupFails, SetupDriver, SettingUp
  <2> QED BY <1>2, <2>1
<1>7. CASE CreateNode
  <2>1. PICK t \in Ids :
             /\ t = NextTag
             /\ \A n \in nodes : n.id # t
             /\ \/ phase' = phase
                \/ \E n \in nodes : n.name = NodeName(t)
                \/ nodes' = nodes /\ quality[t] \notin {"good", "initializing"}
    BY <1>0, <1>7, NodeOutcome
  <2>2. phase = "nodes" /\ quality' = quality /\ WithoutNode # {}
    BY <1>7 DEF CreateNode
  <2>3. ASSUME NEW n \in nodes, n.name = NodeName(t) PROVE NodesClash
    <3>1. n.id \in Ids /\ n.id # t /\ n = NodeOf(n.id)
      BY <2>1 DEF NodesAreSound
    <3>2. n.name = NodeName(n.id)
      BY <3>1 DEF NodeOf
    <3> QED BY <2>3, <3>1, <3>2 DEF NodesClash
  <2>4. ASSUME nodes' = nodes, quality[t] \notin {"good", "initializing"}
        PROVE  FailureHasCause'
    <3>1. quality[t] # "absent"
      BY <2>2 DEF Passed, Past
    <3>2. t \in AllIds
      BY <1>0, ConfigFacts
    <3>3. quality[t] \in Qualities
      BY <3>2 DEF DomainsOK
    <3>4. quality[t] \in {"commlost", "configerror", "unshowable"}
      BY <2>4, <3>1, <3>3 DEF Qualities
    <3>5. WithoutNode' = WithoutNode /\ NextTag' = NextTag
      BY <1>1, <2>4 DEF WithoutNode, NextTag
    <3>6. WithoutNode' # {} /\ quality'[NextTag'] \in {"commlost", "configerror", "unshowable"}
      BY <2>1, <2>2, <3>4, <3>5
    <3> QED BY <3>6 DEF FailureHasCause
  <2>5. phase' = phase => phase' # "failed"
    BY <2>2
  <2>6. NodesClash => FailureHasCause'
    BY <1>2 DEF Mistaken
  <2> QED BY <1>2, <2>1, <2>3, <2>4, <2>5, <2>6
<1> QED BY <1>3, <1>4, <1>5, <1>6, <1>7 DEF Next, Main, Ended

\* When main is past the start-up there is no mistake that it could have looked for.
LEMMA NothingMissed ==
    ASSUME DomainsOK, NodesAreSound, Passed, Wired, phase = "running"
    PROVE  ~Mistaken
<1>0. /\ config \in Configs /\ config.mistakes \subseteq [kind : MistakeKinds, at : Nat]
      /\ Len(config.tags) \in Nat /\ Len(config.protocol) \in Nat
  BY ConfigFacts DEF DomainsOK
<1>1. DefinitionsAreValid /\ WithoutNode = {} /\ ~OptionsRefused /\ next = Len(config.protocol) + 1
  BY DEF Passed, Past
<1>2. ~IdsClash
  <2> SUFFICES ASSUME NEW i \in Entries, NEW j \in Entries, i # j,
                      config.tags[i].id = config.tags[j].id
               PROVE  FALSE
    BY DEF IdsClash
  <2>1. i \in 1..(j - 1) \/ j \in 1..(i - 1)
    BY <1>0 DEF Entries
  <2> QED BY <1>1, <2>1 DEF DefinitionsAreValid
<1>3. ~NodesClash
  <2> SUFFICES ASSUME NEW t \in Ids, NEW u \in Ids, t # u, NodeName(t) = NodeName(u) PROVE FALSE
    BY DEF NodesClash
  <2>1. PICK n \in nodes : n.id = t
    BY <1>1 DEF WithoutNode
  <2>2. PICK o \in nodes : o.id = u
    BY <1>1 DEF WithoutNode
  <2>3. n = NodeOf(t) /\ o = NodeOf(u)
    BY <2>1, <2>2 DEF NodesAreSound
  <2>4. n.name = o.name
    BY <2>3 DEF NodeOf
  <2> QED BY <2>1, <2>2, <2>4 DEF NodesAreSound
<1>4. ASSUME NEW m \in config.mistakes, Matters(m) PROVE FALSE
  <2>1. m \in [kind : MistakeKinds, at : Nat]
    BY <1>0
  <2>2. m = [kind |-> m.kind, at |-> m.at] /\ m.kind \in MistakeKinds
    BY <2>1
  <2>3. Mistake(m.kind, m.at)
    BY <2>2 DEF Mistake
  <2>4. CASE m.kind \in {"endpoint", "mapping", "driver"}
    <3>1. m.at \in Plcs /\ Supported(m.at)
      BY <1>4, <2>4, Zenon DEF Matters
    <3>2. m.at < next
      BY <1>0, <1>1, <3>1 DEF Plcs
    <3>3. ~SetupRefused(m.at) /\ ~SetupHangs(m.at)
      BY <3>1, <3>2 DEF Wired, Past, HasDriver
    <3> QED BY <2>3, <2>4, <3>3
            DEF SetupRefused, EndpointUnknown, MappingImpossible, DriverInvalid
  <2>5. CASE m.kind = "words"
    <3>1. m.at \in Plcs /\ SetupHangs(m.at)
      <4>1. m.kind \notin {"endpoint", "mapping", "driver"}
        BY <2>5
      <4> QED BY <1>4, <2>5, <4>1, Zenon DEF Matters
    <3>2. m.at < next
      BY <1>0, <1>1, <3>1 DEF Plcs
    <3>3. Supported(m.at)
      BY <3>1 DEF SetupHangs, Supported
    <3> QED BY <3>1, <3>2, <3>3 DEF Wired, Past, HasDriver
  <2>6. CASE m.kind \in {"certpath", "certfile"}
    <3>1. config.secure /\ m.at = 0
      <4>1. m.kind \notin {"endpoint", "mapping", "driver"} /\ m.kind # "words"
        BY <2>6
      <4> QED BY <1>4, <2>6, <4>1, Zenon DEF Matters
    <3>2. ~(config.secure /\ Mistake("certfile", 0))
      BY DEF Passed, Past
    <3> QED BY <1>1, <2>3, <2>6, <3>1, <3>2 DEF OptionsRefused, CertificateUnset
  <2>7. CASE m.kind \in {"tag", "definition"}
    <3>1. m.at \in Entries
      <4>1. /\ m.kind \notin {"endpoint", "mapping", "driver"} /\ m.kind # "words"
            /\ m.kind \notin {"certpath", "certfile"}
        BY <2>7
      <4> QED BY <1>4, <2>7, <4>1, Zenon DEF Matters
    <3>2. ~Mistake("tag", m.at)
      BY <3>1 DEF Passed, Past
    <3>3. ~Mistake("definition", m.at)
      BY <1>1, <3>1 DEF DefinitionsAreValid, FieldIsEmpty
    <3> QED BY <2>3, <2>7, <3>2, <3>3
  <2>8. CASE m.kind \in {"config", "health", "options", "server"}
    <3>1. m.at = 0
      <4>1. /\ m.kind \notin {"endpoint", "mapping", "driver"} /\ m.kind # "words"
            /\ m.kind \notin {"certpath", "certfile"}
            /\ m.kind \notin {"tag", "definition"}
        BY <2>8
      <4> QED BY <1>4, <4>1, Zenon DEF Matters
    <3>2. ~Mistake("config", 0) /\ ~Mistake("health", 0)
      BY DEF Passed, Past
    <3> QED BY <1>1, <2>3, <2>8, <3>1, <3>2 DEF OptionsRefused, OptionUnknown, ServerInvalid
  <2> QED BY <2>2, <2>4, <2>6, <2>7, <2>8, <2>5 DEF MistakeKinds
<1> QED BY <1>2, <1>3, <1>4 DEF Mistaken

-----------------------------------------------------------------------------
(***************************************************************************)
(* The theorems.                                                           *)
(***************************************************************************)

\* Every step keeps the inductive invariant.
LEMMA Inductive == Spec => []Inv
<1>1. ASSUME Inv, [Next]_vars PROVE Inv'
  <2>1. config \in Configs
    BY <1>1 DEF Inv, DomainsOK
  <2>2. DomainsOK'
    BY <1>1, DomainsStep DEF Inv
  <2>3. NodesAreSound'
    BY <1>1, <2>1, NodesStep DEF Inv
  <2>4. Passed'
    BY <1>1, PassedStep DEF Inv
  <2>5. Wired'
    BY <1>1, WiredStep DEF Inv
  <2>6. FailureHasCause'
    BY <1>1, FailureStep DEF Inv
  <2> QED BY <2>2, <2>3, <2>4, <2>5, <2>6 DEF Inv
<1> QED BY <1>1, InitInv, PTL DEF Spec

\* Every variable keeps its type; no poller runs for a PLC that main skips, and the
\* loop over all_definitions_sorted never makes more nodes than there are tags.
THEOREM TypeCorrect == Spec => []TypeOK
<1>1. Inv => TypeOK
  BY NodesAreFew DEF Inv, TypeOK, DomainsOK
<1> QED BY <1>1, Inductive, PTL

\* main gives up only for a mistake that matters, or for what a poller published of
\* the tag whose node was next: a bad quality, or a value OPC UA cannot show.
THEOREM FailureTheorem == Spec => []FailureHasCause
<1>1. Inv => FailureHasCause
  BY DEF Inv
<1> QED BY <1>1, Inductive, PTL

\* A bridge that serves has passed over no mistake, has a node of its own for every
\* tag, and a route and a started poller for every supported PLC.
THEOREM WiredTheorem == Spec => []ServingIsWired
<1>1. ASSUME Inv, phase = "running" PROVE ServingIsWired
  <2>1. ~Mistaken
    BY <1>1, NothingMissed DEF Inv
  <2>2. WithoutNode = {} /\ next = Len(config.protocol) + 1
    BY <1>1 DEF Inv, Passed, Past
  <2>3. ASSUME NEW t \in Ids
        PROVE  \E n \in nodes : n.id = t /\ \A o \in nodes \ {n} : o.name # n.name
    <3>1. PICK n \in nodes : n.id = t
      BY <2>2 DEF WithoutNode
    <3> QED BY <1>1, <3>1 DEF Inv, NodesAreSound
  <2>4. ASSUME NEW p \in Plcs, Supported(p)
        PROVE  poller[p] # "off" /\ \A t \in TagsOf(p) : route[t] = p
    <3>1. Len(config.protocol) \in Nat
      BY <1>1, ConfigFacts DEF Inv, DomainsOK
    <3>2. p < next
      BY <2>2, <3>1 DEF Plcs
    <3> QED BY <1>1, <2>4, <3>2 DEF Inv, Wired, Past, HasDriver
  <2> QED BY <2>1, <2>3, <2>4 DEF ServingIsWired
<1>2. Inv => ServingIsWired
  BY <1>1 DEF ServingIsWired
<1> QED BY <1>2, Inductive, PTL
=============================================================================
