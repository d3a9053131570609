--------------------------- MODULE ControllerChoice ---------------------------
(***************************************************************************)
(* The cluster metrics (kafka.go, connection/controller.go,                 *)
(* cluster/collector.go): once the brokers are found, each is asked over    *)
(* JMX whether it is the active controller and the answers are added up;    *)
(* then the Kafka client names the controller, and its JMX connection, or   *)
(* that of the first broker, gives the one cluster sample of the run.       *)
(*                                                                          *)
(* Nothing holds the cluster still meanwhile: brokers are elected and       *)
(* resign between two questions, a controller that was replaced may still   *)
(* take itself for one, and the metadata of the client may name an earlier  *)
(* one.  Without Zookeeper (KRaft) the controller may be none of the        *)
(* brokers, and the metadata names any of them.                             *)
(***************************************************************************)
EXTENDS BrokerDiscovery

CONSTANTS MaxElections   \* bound: elections during the collection

ASSUME ElectionsAssumption == MaxElections \in Nat

VARIABLES
    kraft,       \* the cluster runs without Zookeeper
    active,      \* brokers that report ActiveControllerCount = 1
    everActive,  \* history: those that did at some time
    steady,      \* history: those that have done so from the start
    elections,   \* history: number of elections

    phase,       \* "count", "collect", "done" or "exited"
    asked,       \* number of brokers of the list asked
    counted,     \* history: those that reported 1
    unanswered,  \* history: those that gave no answer
    activeCount, \* activeControllerCount
    controller,  \* the controller the client named, NoBroker if the lookup failed
    chosen,      \* the broker whose connection is used, NoBroker before
    sample       \* the KafkaClusterSample: <<>> or <<its broker and count>>

clusterVars == <<kraft, active, everActive, steady, elections>>
tally == <<asked, counted, unanswered, activeCount>>
vars == <<discoveryVars, clusterVars, phase, tally, controller, chosen, sample>>

TypeOK ==
    /\ DiscoveryTypeOK
    /\ kraft \in BOOLEAN
    /\ active \subseteq everActive /\ steady \subseteq active /\ everActive \subseteq Brokers
    /\ elections \in 0 .. MaxElections
    /\ phase \in {"count", "collect", "done", "exited"}
    /\ asked \in 0 .. Len(found)
    /\ counted \subseteq Ids /\ unanswered \subseteq Ids
    /\ activeCount = Cardinality(counted)
    /\ controller \in Brokers \cup {NoBroker}
    /\ chosen \in Ids \cup {NoBroker}
    /\ sample \in {<<>>} \cup {<<[broker |-> chosen, count |-> activeCount]>>}

Init ==
    /\ DiscoveryInit
    /\ kraft \in BOOLEAN /\ (kraft => arguments.strategy # "zookeeper")
    /\ \/ \E b \in Brokers : active = {b}
       \/ kraft /\ active = {}                \* a controller that is no broker
    /\ everActive = active /\ steady = active /\ elections = 0
    /\ phase = "count"
    /\ asked = 0 /\ counted = {} /\ unanswered = {} /\ activeCount = 0
    /\ controller = NoBroker /\ chosen = NoBroker
    /\ sample = <<>>

-----------------------------------------------------------------------------
(* The cluster, while it is asked.                                          *)

Moving == pc = "ok" /\ phase \in {"count", "collect"}

Elect(b) ==
    /\ Moving
    /\ elections < MaxElections /\ b \notin active
    /\ active' = active \cup {b}
    /\ everActive' = everActive \cup {b}
    /\ elections' = elections + 1
    /\ UNCHANGED <<discoveryVars, kraft, steady, phase, tally, controller, chosen, sample>>

Resign(b) ==
    /\ Moving
    /\ b \in active
    /\ active' = active \ {b}
    /\ steady' = steady \ {b}
    /\ UNCHANGED <<discoveryVars, kraft, everActive, elections, phase, tally, controller, chosen, sample>>

-----------------------------------------------------------------------------
(* countActiveControllers.                                                  *)

Counting == pc = "ok" /\ phase = "count" /\ asked < Len(found)
Asked == found[asked + 1].id

\* "No brokers available for cluster metric collection"
NoBrokers ==
    /\ pc = "ok" /\ phase = "count" /\ found = <<>>
    /\ phase' = "done"
    /\ UNCHANGED <<discoveryVars, clusterVars, tally, controller, chosen, sample>>

CountBroker ==
    /\ Counting
    /\ asked' = asked + 1
    /\ counted' = counted \cup ({Asked} \cap active)
    /\ activeCount' = activeCount + Cardinality({Asked} \cap active)
    /\ UNCHANGED <<discoveryVars, clusterVars, phase, unanswered, controller, chosen, sample>>

\* Mutant: after a failed query the results of the controller found before are added again.
CountFails_KeepsValue ==
    /\ Counting
    /\ asked' = asked + 1
    /\ unanswered' = unanswered \cup {Asked}
    /\ activeCount' = IF counted = {} THEN activeCount ELSE activeCount + 1
    /\ UNCHANGED <<discoveryVars, clusterVars, phase, counted, controller, chosen, sample>>

\* The connection or the query fails, or the value is not a number.
CountFails ==
    /\ Counting
    /\ asked' = asked + 1
    /\ unanswered' = unanswered \cup {Asked}
    /\ UNCHANGED <<discoveryVars, clusterVars, phase, counted, activeCount, controller, chosen, sample>>

-----------------------------------------------------------------------------
(* FindControllerBroker and collectClusterMetrics.                          *)

\* Mutant: the last broker is not asked.
AllAsked_ButLast == pc = "ok" /\ phase = "count" /\ found # <<>> /\ asked >= Len(found) - 1

AllAsked == pc = "ok" /\ phase = "count" /\ found # <<>> /\ asked = Len(found)

\* Whom the metadata may name: that of some moment names a broker that is or was
\* elected; of a KRaft cluster it names any broker.
Named == IF kraft THEN Brokers ELSE everActive

\* Mutant: the ids, a number and a string, never match.
FindController_NoMatch ==
    /\ AllAsked
    /\ \E c \in Named : controller' = c
    /\ chosen' = found[1].id
    /\ phase' = "collect"
    /\ UNCHANGED <<discoveryVars, clusterVars, tally, sample>>

\* The client names the controller; if it is not in the list the first broker is used.
FindController ==
    /\ AllAsked
    /\ \E c \in Named :
        /\ controller' = c
        /\ chosen' = IF c \in Ids THEN c ELSE found[1].id
    /\ phase' = "collect"
    /\ UNCHANGED <<discoveryVars, clusterVars, tally, sample>>

\* No client, or it knows no controller.
FindControllerFails ==
    /\ AllAsked
    /\ controller' = NoBroker
    /\ chosen' = found[1].id
    /\ phase' = "collect"
    /\ UNCHANGED <<discoveryVars, clusterVars, tally, sample>>

\* Entity: by the name of the cluster, else by the id in the metadata.
HasEntity == arguments.named \/ clusterID

CollectMetrics ==
    /\ phase = "collect"
    /\ sample' = IF HasEntity /\ arguments.metrics
                 THEN <<[broker |-> chosen, count |-> activeCount]>> ELSE <<>>
    /\ phase' = "done"
    /\ UNCHANGED <<discoveryVars, clusterVars, tally, controller, chosen>>

\* "Failed to create JMX connection for cluster metrics"
CollectMetricsFails ==
    /\ phase = "collect"
    /\ phase' = "done"
    /\ UNCHANGED <<discoveryVars, clusterVars, tally, controller, chosen, sample>>

\* A connection error in CollectMetricDefinitions, before the count is set.
CollectMetricsExits ==
    /\ phase = "collect" /\ HasEntity /\ arguments.metrics
    /\ phase' = "exited"
    /\ UNCHANGED <<discoveryVars, clusterVars, tally, controller, chosen, sample>>

-----------------------------------------------------------------------------
Cluster == \E b \in Brokers : Elect(b) \/ Resign(b)

Collection ==
    \/ NoBrokers \/ CountBroker \/ CountFails
    \/ FindController \/ FindControllerFails
    \/ CollectMetrics \/ CollectMetricsFails \/ CollectMetricsExits

Finished == pc = "error" \/ phase \in {"done", "exited"}

Next ==
    \/ Discover /\ UNCHANGED <<clusterVars, phase, tally, controller, chosen, sample>>
    \/ Cluster
    \/ Collection
    \/ Finished /\ UNCHANGED vars

Spec == Init /\ [][Next]_vars

-----------------------------------------------------------------------------
(* Properties.                                                              *)

\* The sum exceeds one only by brokers elected while it was taken: no broker is
\* added twice and none that does not answer is (kafka.go:303-343).
CountBounded == activeCount <= 1 + elections

\* A broker that was the controller from the start to the end of the count, is
\* in the list and answered is in the sum of the sample: 0 is reported only if
\* the controller moved, was not found or did not answer.
SteadyIsCounted ==
    sample # <<>> => steady \cap Ids \subseteq counted \cup unanswered

\* The sample of a cluster with Zookeeper whose controller did not move: if that
\* broker is in the list, the count is 1 unless it did not answer, and the sample
\* comes over its connection, "ideally the controller broker's JMX connection"
\* (cluster/collector.go:25), unless the client named nobody.
StableClusterSample ==
    \A c \in steady \cap Ids :
        ~kraft /\ elections = 0 /\ sample # <<>> =>
            /\ c \notin unanswered => sample[1].count = 1
            /\ controller # NoBroker => sample[1].broker = c
==============================================================================
