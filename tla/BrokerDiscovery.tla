--------------------------- MODULE BrokerDiscovery ---------------------------
(***************************************************************************)
(* getBrokerList: how the integration finds the brokers it collects from    *)
(* (kafka.go, connection/connection.go).                                    *)
(*                                                                          *)
(* bootstrap: connect to the configured broker, ask it for the brokers of   *)
(* the cluster and connect to each; one failure fails the discovery.  With  *)
(* LocalOnlyCollection only the bootstrap broker is kept, under the id its  *)
(* address has in the answer.                                               *)
(* zookeeper: list the registered brokers and, for each, connect to the     *)
(* first endpoint that works; a broker with none is skipped.                *)
(*                                                                          *)
(* An endpoint is what parseEndpoint and the listener's protocol make of    *)
(* it: whether it parses, its listener, and whether the protocol map has    *)
(* the listener.  NewBroker (TLS and SASL set-up, open, connected) works or *)
(* fails as one step.                                                       *)
(***************************************************************************)
EXTENDS Naturals, Sequences, FiniteSets, SequencesExt

CONSTANTS
    Brokers,       \* the brokers of the cluster, by id
    EndpointsOf,   \* the endpoints each broker has registered, in order
    Listeners,     \* listener names
    NoPreference,  \* the empty PreferredListener
    NoBroker,      \* no broker advertises the address of the bootstrap broker
    Arguments      \* the arguments to explore

Endpoint == [parses : BOOLEAN, listener : Listeners, mapped : BOOLEAN]
Argument == [strategy  : {"bootstrap", "zookeeper", "unknown"},
             localOnly : BOOLEAN,                        \* LocalOnlyCollection
             bootstrap : Brokers \cup {NoBroker},        \* BootstrapBroker, by its address
             preferred : Listeners \cup {NoPreference},  \* PreferredListener
             named     : BOOLEAN,                        \* ClusterName is set
             metrics   : BOOLEAN]                        \* HasMetrics()

ASSUME DiscoveryAssumption ==
    /\ IsFiniteSet(Brokers)
    /\ NoBroker \notin Brokers /\ NoPreference \notin Listeners
    /\ EndpointsOf \in [Brokers -> Seq(Endpoint)]
    /\ Arguments \subseteq Argument

VARIABLES
    arguments,   \* the arguments of this run
    pc,          \* "start", "list", "brokers", "endpoints", "ok" or "error"
    listed,      \* the brokers in the answer (metadata.Brokers, brokerIDs)
    todo,        \* brokers of the answer still to be connected to, in its order
    next,        \* index of the next endpoint of the first of them
    found,       \* the brokers returned: id, and the endpoint connected to
    clusterID,   \* arguments.ClusterID is known
    session,     \* the session with Zookeeper: "none", "open" or "closed"
    dialed,      \* history: the brokers and endpoints NewBroker or Open was tried on
    refused,     \* history: those that failed
    unread       \* history: the brokers whose registration could not be read

answer == <<listed, clusterID>>
history == <<dialed, refused, unread>>
discoveryVars == <<arguments, pc, answer, todo, next, found, session, history>>

Ended == pc \in {"ok", "error"}
Current == Head(todo)
Ids == {found[k].id : k \in DOMAIN found}

\* Index of the connection that does not come from a list of endpoints: the
\* address in the answer of the bootstrap broker, or its own.
Advertised == 0

DiscoveryTypeOK ==
    /\ arguments \in Arguments
    /\ pc \in {"start", "list", "brokers", "endpoints", "ok", "error"}
    /\ listed \subseteq Brokers
    /\ IsInjective(todo) /\ Range(todo) \subseteq listed
    /\ next \in Nat \ {0}
    /\ IsInjective([k \in DOMAIN found |-> found[k].id]) /\ Ids \subseteq listed
    /\ Ids \cap Range(todo) = {}
    /\ clusterID \in BOOLEAN
    /\ session \in {"none", "open", "closed"}
    /\ refused \subseteq dialed
    /\ \A a \in dialed : a[1] \in Brokers /\ a[2] \in 0 .. Len(EndpointsOf[a[1]])
    /\ unread \subseteq Brokers

DiscoveryInit ==
    /\ arguments \in Arguments
    /\ pc = "start"
    /\ listed = {} /\ todo = <<>> /\ next = 1 /\ found = <<>>
    /\ clusterID = FALSE
    /\ session = "none"
    /\ dialed = {} /\ refused = {} /\ unread = {}

\* Returning runs the deferred Close of the session, if there is one.
CloseSession == session' = IF session = "open" THEN "closed" ELSE session
Return(outcome) == pc' = outcome /\ CloseSession

\* On to the next broker of the list.
NextBroker ==
    /\ todo' = Tail(todo)
    /\ next' = 1

Add(b, k) == found' = Append(found, [id |-> b, endpoint |-> k])

-----------------------------------------------------------------------------
(* Bootstrap.                                                               *)

ConnectBootstrap ==
    /\ pc = "start" /\ arguments.strategy = "bootstrap"
    /\ pc' = "list"
    /\ UNCHANGED <<answer, todo, next, found, session, history>>

\* NewBroker fails, or GetMetadata
BootstrapFails ==
    /\ pc \in {"start", "list"} /\ arguments.strategy = "bootstrap"
    /\ Return("error")
    /\ UNCHANGED <<answer, todo, next, found, history>>

\* The answer holds the brokers that are up; nothing says all are, or any.
GetMetadata ==
    /\ pc = "list" /\ arguments.strategy = "bootstrap"
    /\ listed' \in SUBSET Brokers
    /\ todo' \in SetToSeqs(listed')
    /\ clusterID' \in BOOLEAN
    /\ pc' = "brokers"
    /\ UNCHANGED <<next, found, session, history>>

AtBroker(strategy) == pc = "brokers" /\ arguments.strategy = strategy /\ todo # <<>>

\* The address matches: the bootstrap broker is returned alone, with the id found.
KeepLocal ==
    /\ AtBroker("bootstrap") /\ arguments.localOnly
    /\ Current = arguments.bootstrap
    /\ Add(Current, Advertised)
    /\ NextBroker
    /\ Return("ok")
    /\ UNCHANGED <<answer, history>>

SkipRemote ==
    /\ AtBroker("bootstrap") /\ arguments.localOnly
    /\ Current # arguments.bootstrap
    /\ NextBroker
    /\ UNCHANGED <<answer, pc, found, session, history>>

\* Mutant: the other brokers are connected to in local-only collections, too.
OpenBroker_Always ==
    /\ AtBroker("bootstrap")
    /\ dialed' = dialed \cup {<<Current, Advertised>>}
    /\ Add(Current, Advertised)
    /\ NextBroker
    /\ UNCHANGED <<answer, pc, session, refused, unread>>

OpenBroker ==
    /\ AtBroker("bootstrap") /\ ~arguments.localOnly
    /\ dialed' = dialed \cup {<<Current, Advertised>>}
    /\ Add(Current, Advertised)
    /\ NextBroker
    /\ UNCHANGED <<answer, pc, session, refused, unread>>

\* Mutant: a broker that cannot be reached is skipped.
OpenBrokerFails_Skips ==
    /\ AtBroker("bootstrap") /\ ~arguments.localOnly
    /\ dialed' = dialed \cup {<<Current, Advertised>>}
    /\ refused' = refused \cup {<<Current, Advertised>>}
    /\ NextBroker
    /\ UNCHANGED <<answer, pc, found, session, unread>>

\* Open or Connected fails, or the address is not host:port.
OpenBrokerFails ==
    /\ AtBroker("bootstrap") /\ ~arguments.localOnly
    /\ dialed' = dialed \cup {<<Current, Advertised>>}
    /\ refused' = refused \cup {<<Current, Advertised>>}
    /\ Return("error")
    /\ UNCHANGED <<answer, todo, next, found, unread>>

\* "failed to match any brokers with configured address" when none was kept
BootstrapDone ==
    /\ pc = "brokers" /\ arguments.strategy = "bootstrap" /\ todo = <<>>
    /\ Return(IF found = <<>> THEN "error" ELSE "ok")
    /\ UNCHANGED <<answer, todo, next, found, history>>

-----------------------------------------------------------------------------
(* Zookeeper.                                                               *)

ConnectZookeeper ==
    /\ pc = "start" /\ arguments.strategy = "zookeeper"
    /\ session' = "open"
    /\ pc' = "list"
    /\ UNCHANGED <<answer, todo, next, found, history>>

ConnectZookeeperFails ==
    /\ pc = "start" /\ arguments.strategy = "zookeeper"
    /\ Return("error")
    /\ UNCHANGED <<answer, todo, next, found, history>>

\* Children of /brokers/ids: the brokers registered right now
ListIds ==
    /\ pc = "list" /\ arguments.strategy = "zookeeper"
    /\ listed' \in SUBSET Brokers
    /\ todo' \in SetToSeqs(listed')
    /\ pc' = "brokers"
    /\ UNCHANGED <<clusterID, next, found, session, history>>

\* Mutant: the session is not closed on this path.
ListIdsFails_KeepsSession ==
    /\ pc = "list" /\ arguments.strategy = "zookeeper"
    /\ pc' = "error"
    /\ UNCHANGED <<answer, todo, next, found, session, history>>

ListIdsFails ==
    /\ pc = "list" /\ arguments.strategy = "zookeeper"
    /\ Return("error")
    /\ UNCHANGED <<answer, todo, next, found, history>>

ReadBroker ==
    /\ AtBroker("zookeeper")
    /\ pc' = "endpoints"
    /\ UNCHANGED <<answer, todo, next, found, session, history>>

\* The registration is gone or is not JSON: the broker is skipped.
ReadBrokerFails ==
    /\ AtBroker("zookeeper")
    /\ unread' = unread \cup {Current}
    /\ NextBroker
    /\ UNCHANGED <<answer, pc, found, session, dialed, refused>>

AtEndpoint == pc = "endpoints" /\ next <= Len(EndpointsOf[Current])

\* The endpoints the loop does not pass over.
Usable(e) ==
    /\ e.parses
    /\ arguments.preferred \in {NoPreference, e.listener}
    /\ e.mapped

SkipEndpoint ==
    /\ AtEndpoint
    /\ ~Usable(EndpointsOf[Current][next])
    /\ next' = next + 1
    /\ UNCHANGED <<answer, pc, todo, found, session, history>>

\* Mutant: the list is not advanced past the broker that was added.
ConnectEndpoint_Stays ==
    /\ AtEndpoint
    /\ Usable(EndpointsOf[Current][next])
    /\ dialed' = dialed \cup {<<Current, next>>}
    /\ Add(Current, next)
    /\ pc' = "brokers"
    /\ UNCHANGED <<answer, todo, next, session, refused, unread>>

ConnectEndpoint ==
    /\ AtEndpoint
    /\ Usable(EndpointsOf[Current][next])
    /\ dialed' = dialed \cup {<<Current, next>>}
    /\ Add(Current, next)
    /\ NextBroker
    /\ pc' = "brokers"
    /\ UNCHANGED <<answer, session, refused, unread>>

\* Mutant: one endpoint that fails gives the broker up.
ConnectEndpointFails_GivesUp ==
    /\ AtEndpoint
    /\ Usable(EndpointsOf[Current][next])
    /\ dialed' = dialed \cup {<<Current, next>>}
    /\ refused' = refused \cup {<<Current, next>>}
    /\ NextBroker
    /\ pc' = "brokers"
    /\ UNCHANGED <<answer, found, session, unread>>

\* NewBroker fails: log and try the next endpoint.
ConnectEndpointFails ==
    /\ AtEndpoint
    /\ Usable(EndpointsOf[Current][next])
    /\ dialed' = dialed \cup {<<Current, next>>}
    /\ refused' = refused \cup {<<Current, next>>}
    /\ next' = next + 1
    /\ UNCHANGED <<answer, pc, todo, found, session, unread>>

\* "found no supported endpoint": the broker is skipped.
NoEndpoint ==
    /\ pc = "endpoints" /\ next > Len(EndpointsOf[Current])
    /\ NextBroker
    /\ pc' = "brokers"
    /\ UNCHANGED <<answer, found, session, history>>

\* The first broker is asked for the cluster id, in vain or not; the list is
\* returned either way, an empty one too.
ZookeeperDone ==
    /\ pc = "brokers" /\ arguments.strategy = "zookeeper" /\ todo = <<>>
    /\ clusterID' \in IF found = <<>> THEN {clusterID} ELSE BOOLEAN
    /\ Return("ok")
    /\ UNCHANGED <<listed, todo, next, found, history>>

-----------------------------------------------------------------------------
Bootstrap ==
    \/ ConnectBootstrap \/ BootstrapFails \/ GetMetadata \/ KeepLocal \/ SkipRemote
    \/ OpenBroker \/ OpenBrokerFails \/ BootstrapDone

Zookeeper ==
    \/ ConnectZookeeper \/ ConnectZookeeperFails \/ ListIds \/ ListIdsFails
    \/ ReadBroker \/ ReadBrokerFails \/ SkipEndpoint
    \/ ConnectEndpoint \/ ConnectEndpointFails \/ NoEndpoint \/ ZookeeperDone

\* "invalid autodiscovery strategy"
InvalidStrategy ==
    /\ pc = "start" /\ arguments.strategy = "unknown"
    /\ Return("error")
    /\ UNCHANGED <<answer, todo, next, found, history>>

Discover == (Bootstrap \/ Zookeeper \/ InvalidStrategy) /\ UNCHANGED arguments

-----------------------------------------------------------------------------
(* Properties.                                                              *)

\* A discovery through the bootstrap broker yields every broker of the answer or
\* an error: no broker is silently left out of the collection (kafka.go:109-152).
AllOrNothing ==
    (pc = "ok" /\ arguments.strategy = "bootstrap" /\ ~arguments.localOnly)
        => Ids = listed /\ refused = {}

\* A local-only collection returns the broker at the configured address and no
\* other, and connects to no other on the way (kafka-config.yml.sample:30).
LocalOnlyAlone ==
    (arguments.strategy = "bootstrap" /\ arguments.localOnly)
        => /\ dialed = {}
           /\ pc = "ok" => Ids = {arguments.bootstrap}

\* "Defaults to the first that works" (args/args.go:22): each broker returned is
\* connected through an endpoint before which every usable one was refused, and a
\* registered broker is missing only if none of its usable endpoints works or its
\* registration cannot be read.
RefusedBefore(b, k) ==
    \A j \in 1 .. k - 1 : Usable(EndpointsOf[b][j]) => <<b, j>> \in refused
FirstThatWorks ==
    arguments.strategy = "zookeeper" =>
        /\ \A k \in DOMAIN found :
              LET f == found[k]
              IN  /\ Usable(EndpointsOf[f.id][f.endpoint])
                  /\ <<f.id, f.endpoint>> \in dialed \ refused
                  /\ RefusedBefore(f.id, f.endpoint)
        /\ \A b \in listed \ (Range(todo) \cup Ids \cup unread) :
              RefusedBefore(b, Len(EndpointsOf[b]) + 1)

\* The session with Zookeeper is closed whichever way the discovery returns
\* (kafka.go:164-166).
SessionClosed == Ended => session # "open"
==============================================================================
