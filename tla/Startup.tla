------------------------------ MODULE Startup ------------------------------
(***************************************************************************)
(* The start of the bridge: main reads the configuration, builds the       *)
(* registry, sets up one driver per PLC and starts its poller, and only    *)
(* then builds the OPC UA server.  While the server creates the nodes of   *)
(* the tags, one after the other, the pollers already publish what they    *)
(* read, and a node whose tag has a bad quality, or a value that OPC UA    *)
(* cannot show, cannot be created.                                         *)
(*                                                                         *)
(* A configuration is its list of PLCs (protocols), its list of tag        *)
(* entries, whether a security mode is set, and the mistakes it contains,  *)
(* each with the number of the PLC or tag entry it is in (0: elsewhere).   *)
(* Tag ids are numbers, ordered as the strings are.  A tag is plain unless *)
(* it is a DateTime or a String.                                           *)
(***************************************************************************)
EXTENDS Integers, Sequences, FiniteSets

CONSTANT
    Configs         \* configurations to start with

AllIds == UNION {{c.tags[i].id : i \in 1..Len(c.tags)} : c \in Configs}
AllPlcs == UNION {1..Len(c.protocol) : c \in Configs}

MistakeKinds == {"config", "tag", "definition", "health", "endpoint", "mapping", "words",
                 "driver", "options", "certpath", "server", "certfile"}

ASSUME StartupAssumption ==
    \A c \in Configs :
        /\ c.protocol \in Seq({"fins", "modbus", "other"})
        /\ c.tags \in Seq([id : Nat, plc : 1..Len(c.protocol), node : STRING,
                          plain : BOOLEAN])
        /\ c.secure \in BOOLEAN
        /\ c.mistakes \subseteq [kind : MistakeKinds, at : Nat]

VARIABLES
    config,         \* the configuration the bridge was started with
    phase,          \* where main is
    next,           \* main: number of the PLC that comes next
    quality,        \* TagRegistry: quality of each tag, "absent" before it is built
    route,          \* RuntimeWriteHandler: PLC whose driver writes each tag, or 0
    poller,         \* per PLC: "off", "connecting" or "polling"
    up,             \* PLCs that accept connections
    nodes           \* variable nodes created: [name, id]

vars == <<config, phase, next, quality, route, poller, up, nodes>>

Entries == 1..Len(config.tags)
Ids == {config.tags[i].id : i \in Entries}
Plcs == 1..Len(config.protocol)
Supported(p) == config.protocol[p] \in {"fins", "modbus"}
Mistake(kind, at) == [kind |-> kind, at |-> at] \in config.mistakes
EntryOf(t) == config.tags[CHOOSE i \in Entries : config.tags[i].id = t]
PlcOf(t) == EntryOf(t).plc
NodeName(t) == EntryOf(t).node
Plain(t) == EntryOf(t).plain
TagsOf(p) == {t \in Ids : PlcOf(t) = p}

Init ==
    /\ config \in Configs
    /\ phase = "load"
    /\ next = 0
    /\ quality = [t \in AllIds |-> "absent"]
    /\ route = [t \in AllIds |-> 0]
    /\ poller = [p \in AllPlcs |-> "off"]
    /\ up \in SUBSET Plcs
    /\ nodes = {}

-----------------------------------------------------------------------------
(***************************************************************************)
(* main, up to the registry: nothing else runs yet.                        *)
(***************************************************************************)

\* A step of main that gives up when `failure' holds, and goes on otherwise.
Stage(from, failure, to) ==
    /\ phase = from
    /\ phase' = IF failure THEN "failed" ELSE to

\* The file cannot be read or parsed, or a cycle_ms is below 10.
LoadConfig ==
    /\ Stage("load", Mistake("config", 0), "define")
    /\ UNCHANGED <<config, next, quality, route, poller, up, nodes>>

\* tagconfig_to_definition of every entry: unknown data type or byte order.
DefineTags ==
    /\ Stage("define", \E i \in Entries : Mistake("tag", i), "registry")
    /\ UNCHANGED <<config, next, quality, route, poller, up, nodes>>

\* TagDefinition::validate: the id, name or address is empty.
FieldIsEmpty(i) == Mistake("definition", i)

\* TagDefinitionStore::from_definitions, entry by entry: no field is empty, and the
\* id is not one that an earlier entry has put into the map.
DefinitionsAreValid ==
    \A i \in Entries :
        /\ ~FieldIsEmpty(i)
        /\ \A j \in 1..(i - 1) : config.tags[j].id # config.tags[i].id

\* Every tag starts with a zero value and the quality Initializing.
BuildRegistry ==
    /\ Stage("registry", ~DefinitionsAreValid, "health")
    /\ quality' = [t \in AllIds |-> IF DefinitionsAreValid /\ t \in Ids THEN "initializing"
                                                                        ELSE "absent"]
    /\ UNCHANGED <<config, next, route, poller, up, nodes>>

\* A channel of capacity 0 panics.
OpenHealthChannel ==
    /\ Stage("health", Mistake("health", 0), "setup")
    /\ next' = 1
    /\ UNCHANGED <<config, quality, route, poller, up, nodes>>

-----------------------------------------------------------------------------
(***************************************************************************)
(* main: one driver after the other.  The pollers that are started run     *)
(* from here on.                                                           *)
(***************************************************************************)

SettingUp(p) == phase = "setup" /\ next = p

\* Fault: an unknown protocol is taken for the default one.
SkipPlcPolls(p) ==
    /\ SettingUp(p)
    /\ ~Supported(p)
    /\ poller' = [poller EXCEPT ![p] = "connecting"]
    /\ next' = next + 1
    /\ UNCHANGED <<config, phase, quality, route, up, nodes>>

\* "Unsupported protocol ... skipping": its tags stay in the registry.
SkipPlc(p) ==
    /\ SettingUp(p)
    /\ ~Supported(p)
    /\ next' = next + 1
    /\ UNCHANGED <<config, phase, quality, route, poller, up, nodes>>

\* The endpoint does not resolve; a tag of the PLC has no mapping (its address cannot
\* be parsed or is out of range, its word_count does not fit its type); validate()
\* refuses the mappings.
EndpointUnknown(p) == Mistake("endpoint", p)
MappingImpossible(p) == Mistake("mapping", p)
DriverInvalid(p) == Mistake("driver", p)

\* FinsDriver::new does not return: max_words_per_request is 0, and the loop that
\* splits a group makes no progress.
SetupHangs(p) == config.protocol[p] = "fins" /\ Mistake("words", p) /\ TagsOf(p) # {}

\* In the order of the calls: validate() comes after new().
SetupRefused(p) ==
    EndpointUnknown(p) \/ MappingImpossible(p) \/ (~SetupHangs(p) /\ DriverInvalid(p))

\* Fault: a PLC that cannot be set up is skipped like an unsupported one.
SkipFailedSetup(p) ==
    /\ SettingUp(p)
    /\ Supported(p)
    /\ SetupRefused(p)
    /\ next' = next + 1
    /\ UNCHANGED <<config, phase, quality, route, poller, up, nodes>>

SetupFails(p) ==
    /\ SettingUp(p)
    /\ Supported(p)
    /\ SetupRefused(p)
    /\ phase' = "failed"
    /\ UNCHANGED <<config, next, quality, route, poller, up, nodes>>

\* Routes for its tags, then its poller.
SetupDriver(p) ==
    /\ SettingUp(p)
    /\ Supported(p)
    /\ ~SetupRefused(p) /\ ~SetupHangs(p)
    /\ route' = [t \in AllIds |-> IF t \in TagsOf(p) THEN p ELSE route[t]]
    /\ poller' = [poller EXCEPT ![p] = "connecting"]
    /\ next' = next + 1
    /\ UNCHANGED <<config, phase, quality, up, nodes>>

\* write_mode, security_mode or security_policy is none of the known words.
OptionUnknown == Mistake("options", 0)
\* Security is on, and the path of the certificate or of the key is not set.
CertificateUnset == config.secure /\ Mistake("certpath", 0)
\* OpcUaConfig::validate: an empty name, port 0, or no socket address.
ServerInvalid == Mistake("server", 0)
OptionsRefused == OptionUnknown \/ CertificateUnset \/ ServerInvalid

\* Fault: main waits until the pollers have a connection.
CheckOptionsWhenConnected ==
    /\ next = Len(config.protocol) + 1
    /\ \A p \in Plcs : poller[p] # "connecting"
    /\ Stage("setup", OptionsRefused, "build")
    /\ UNCHANGED <<config, next, quality, route, poller, up, nodes>>

CheckOptions ==
    /\ next = Len(config.protocol) + 1
    /\ Stage("setup", OptionsRefused, "build")
    /\ UNCHANGED <<config, next, quality, route, poller, up, nodes>>

-----------------------------------------------------------------------------
(***************************************************************************)
(* start_native_server: the server, the bridge thread, the address space.  *)
(***************************************************************************)

\* The certificate or the key cannot be read or used.
BuildServer ==
    /\ Stage("build", config.secure /\ Mistake("certfile", 0), "nodes")
    /\ UNCHANGED <<config, next, quality, route, poller, up, nodes>>

\* tagquality_to_ua_status
StatusOf(q) ==
    CASE q = "good" -> "GOOD"
      [] q = "initializing" -> "UNCERTAIN"
      [] OTHER -> "BAD"

\* Fault: the status is the one that belongs to the quality.
ReadWithoutException(t) == StatusOf(quality[t])

\* tagvalue_to_variant: a Good date past 2262 and a text with a NUL in it have none.
HasVariant(t) == quality[t] # "unshowable"

\* TagDataSource::read: without a variant BADINTERNALERROR; an Initializing tag is
\* shown as GOOD.
ReadStatus(t) ==
    IF ~HasVariant(t) THEN "BAD"
    ELSE IF quality[t] = "initializing" THEN "GOOD" ELSE StatusOf(quality[t])

\* The loop over all_definitions_sorted: the tags that have no node yet, and the
\* first of them.
WithoutNode == {t \in Ids : \A n \in nodes : n.id # t}
NextTag == CHOOSE t \in WithoutNode : \A u \in WithoutNode : t <= u

\* open62541 reads the new node's value and refuses one whose status is not
\* GOOD; two ids with the same text after ";s=" ask for the same node id.
CreateNode ==
    /\ phase = "nodes"
    /\ WithoutNode # {}
    /\ LET t == NextTag
           taken == \E n \in nodes : n.name = NodeName(t)
       IN  IF ReadStatus(t) = "GOOD" /\ ~taken
           THEN /\ nodes' = nodes \union {[name |-> NodeName(t), id |-> t]}
                /\ UNCHANGED phase
           ELSE /\ phase' = "failed"
                /\ UNCHANGED nodes
    /\ UNCHANGED <<config, next, quality, route, poller, up>>

\* The runner is spawned; main waits for Ctrl-C.
Serve ==
    /\ phase = "nodes"
    /\ WithoutNode = {}
    /\ phase' = "running"
    /\ UNCHANGED <<config, next, quality, route, poller, up, nodes>>

-----------------------------------------------------------------------------
(***************************************************************************)
(* The pollers, as long as the process lives, and the PLCs (external).     *)
(***************************************************************************)

Alive == phase # "failed"

Connect(p) ==
    /\ Alive
    /\ poller[p] = "connecting"
    /\ p \in up
    /\ poller' = [poller EXCEPT ![p] = "polling"]
    /\ UNCHANGED <<config, phase, next, quality, route, up, nodes>>

\* A value is read, which OPC UA can show or not, or the PLC refuses the address of
\* the tag.
PublishTag(p, t) ==
    /\ Alive
    /\ poller[p] = "polling"
    /\ t \in TagsOf(p)
    /\ \E q \in {"good", "configerror"} \union (IF Plain(t) THEN {} ELSE {"unshowable"}) :
         quality' = [quality EXCEPT ![t] = q]
    /\ UNCHANGED <<config, phase, next, route, poller, up, nodes>>

\* A request fails: its tags lose communication and the poller reconnects.
LoseConnection(p) ==
    /\ Alive
    /\ poller[p] = "polling"
    /\ \E tags \in SUBSET TagsOf(p) \ {{}} :
         quality' = [t \in AllIds |-> IF t \in tags THEN "commlost" ELSE quality[t]]
    /\ poller' = [poller EXCEPT ![p] = "connecting"]
    /\ UNCHANGED <<config, phase, next, route, up, nodes>>

PlcAppears(p) ==
    /\ Alive
    /\ p \notin up
    /\ up' = up \union {p}
    /\ UNCHANGED <<config, phase, next, quality, route, poller, nodes>>

PlcVanishes(p) ==
    /\ Alive
    /\ p \in up
    /\ up' = up \ {p}
    /\ UNCHANGED <<config, phase, next, quality, route, poller, nodes>>

-----------------------------------------------------------------------------
Main ==
    \/ LoadConfig \/ DefineTags \/ BuildRegistry \/ OpenHealthChannel
    \/ \E p \in Plcs : SkipPlc(p) \/ SetupFails(p) \/ SetupDriver(p)
    \/ CheckOptions \/ BuildServer \/ CreateNode \/ Serve

Poller(p) == Connect(p) \/ LoseConnection(p) \/ \E t \in TagsOf(p) : PublishTag(p, t)

Environment(p) == PlcAppears(p) \/ PlcVanishes(p)

\* main has returned an error and the process has ended.
Ended == phase = "failed" /\ UNCHANGED vars

Next == Main \/ (\E p \in Plcs : Poller(p) \/ Environment(p)) \/ Ended

Spec == Init /\ [][Next]_vars

\* main runs on; nothing is assumed of PLCs and pollers.
FairSpec == Spec /\ WF_vars(Main)

-----------------------------------------------------------------------------
(***************************************************************************)
(* Properties.                                                             *)
(***************************************************************************)

\* "unshowable" is Good with a value that has no variant.
Qualities == {"absent", "initializing", "good", "unshowable", "configerror", "commlost"}

\* Every variable stays in its domain, and no poller runs for a PLC without a
\* driver.
DomainsOK ==
    /\ config \in Configs
    /\ phase \in {"load", "define", "registry", "health", "setup", "build", "nodes",
                  "running", "failed"}
    /\ next \in Nat
    /\ quality \in [AllIds -> Qualities]
    /\ route \in [AllIds -> {0} \union AllPlcs]
    /\ poller \in [AllPlcs -> {"off", "connecting", "polling"}]
    /\ up \subseteq Plcs
    /\ \A p \in AllPlcs : poller[p] # "off" => p \in Plcs /\ Supported(p)

\* The type invariant: the domains, and main never has more nodes than tags.
TypeOK == DomainsOK /\ Cardinality(nodes) <= Cardinality(Ids)

\* Mistakes that matter: those of PLCs that are skipped, of certificates nobody
\* asked for, and a limit on requests that are never made, do not.
Matters(m) ==
    CASE m.kind \in {"endpoint", "mapping", "driver"} -> m.at \in Plcs /\ Supported(m.at)
      [] m.kind = "words" -> m.at \in Plcs /\ SetupHangs(m.at)
      [] m.kind \in {"certpath", "certfile"} -> config.secure /\ m.at = 0
      [] m.kind \in {"tag", "definition"} -> m.at \in Entries
      [] OTHER -> m.at = 0
IdsClash == \E i, j \in Entries : i # j /\ config.tags[i].id = config.tags[j].id
NodesClash == \E t, u \in Ids : t # u /\ NodeName(t) = NodeName(u)
Mistaken == IdsClash \/ NodesClash \/ \E m \in config.mistakes : Matters(m)

\* main gives up for a mistake in the configuration, or for the tag whose node it
\* was about to create: its poller, already running, had marked it or had read a
\* value that OPC UA cannot show.  Never for a PLC that just cannot be reached,
\* for tags that are still Initializing, or for the quality of another tag.
FailureHasCause ==
    phase = "failed" =>
        \/ Mistaken
        \/ WithoutNode # {} /\ quality[NextTag] \in {"commlost", "configerror", "unshowable"}

\* What the start-up sequence at the head of main.rs promises, "6. Start the OPC UA
\* server." before "7. Start all driver pollers.": nothing has been read when the
\* nodes are created, and a bridge without a mistake in its configuration starts.
StartsUnlessMistaken == phase = "failed" => Mistaken

\* The bridge serves clients only when all of it is there: no mistake was passed
\* over, every tag has a node of its own, and every tag of a supported PLC a
\* route to the driver of that PLC, whose poller was started.
ServingIsWired ==
    phase = "running" =>
        /\ ~Mistaken
        /\ \A t \in Ids : \E n \in nodes : n.id = t /\ \A o \in nodes \ {n} : o.name # n.name
        /\ \A p \in Plcs : Supported(p) =>
             poller[p] # "off" /\ \A t \in TagsOf(p) : route[t] = p

\* main gets to an end of its start-up, whatever the PLCs do: it waits for none.
\* Only a FINS driver that may ask for no word at a time keeps it for ever.
Hanging == phase = "setup" /\ next \in Plcs /\ SetupHangs(next)
StartupEnds == <>(phase \in {"running", "failed"} \/ Hanging)
=============================================================================
