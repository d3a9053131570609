------------------------------ MODULE JmxSession ------------------------------
(***************************************************************************)
(* What one goroutine does over one open JMX connection: the queries it     *)
(* makes, in what order, what it makes of each answer, and which failures   *)
(* it survives (metrics/metrics.go, and its callers in broker, client and   *)
(* cluster).                                                                *)
(*                                                                          *)
(* A session is of a broker, of the cluster, or of a host with consumers or *)
(* producers.  Its plan is the sequence of its queries; a session of        *)
(* clients first finds out the ids of the clients, and then their topics.   *)
(* A query fails with one of three errors (gojmx): the server refused it    *)
(* ("jmx"), the connection is lost ("connection"), or the client in the     *)
(* process failed ("client").  Every caller reacts to them in its own way.  *)
(*                                                                          *)
(* The attributes in an answer are numbers, text, or errors of their own.   *)
(***************************************************************************)
EXTENDS Naturals, Sequences, SequencesExt

CONSTANTS
    Tables,      \* of each table of definitions, its MBeans: sets of metrics
    Topics,
    ClientIds,
    Self,        \* the samples of the broker or the cluster itself
    None,        \* no topic, no name, no value
    Text, Error, \* attributes that hold no number
    Attributes,  \* the sequences of attributes a metric may get
    Detected,    \* the sequences of ids a query for MBean names may give
    Sessions     \* the sessions to explore

TableNames == {"broker", "request", "extended", "jvm", "topic", "cluster",
               "consumer", "consumerTopic", "producer", "producerTopic"}

Session ==
    [kind      : {"broker", "cluster", "consumer", "producer"},
     metrics   : BOOLEAN,               \* HasMetrics(), or All() or Metrics
     inventory : BOOLEAN,               \* HasInventory()
     extended  : BOOLEAN,               \* CollectBrokerExtendedMetrics
     sizes     : BOOLEAN,               \* CollectTopicSize
     offsets   : BOOLEAN,               \* CollectTopicOffset
     name      : ClientIds \cup {None}, \* Name of the JMX host
     mode      : {"none", "list", "regex", "all", "invalid"},   \* TopicMode
     matching  : SUBSET Topics,         \* the topics TopicRegex matches
     validRegex : BOOLEAN,
     topics    : Seq(Topics)]           \* collectedTopics; of a client, those with MBeans

ASSUME SessionAssumption ==
    /\ DOMAIN Tables = TableNames
    /\ \A t \in TableNames : LET metrics == UNION Range(Tables[t])
                             IN  Tables[t] \in Seq(SUBSET metrics) /\ IsFiniteSet(metrics)
    /\ None \notin ClientIds \cup Topics \cup Nat \cup {Self}
    /\ Text \notin Nat /\ Error \notin Nat
    /\ Attributes \subseteq Seq(Nat \cup {Text, Error})
    /\ Detected \subseteq Seq(ClientIds)
    /\ Sessions \subseteq Session

VARIABLES
    session,   \* the session
    pc,        \* "run", "returned" or "exited": os.Exit
    todo,      \* the queries left
    clients,   \* the ids of the clients
    answered,  \* history: the queries answered, and the attributes of each metric
    failed,    \* history: the queries that failed
    reported   \* the metrics in the samples: <<client or Self, topic, metric, value>>

vars == <<session, pc, todo, clients, answered, failed, reported>>

-----------------------------------------------------------------------------
(* The plans.                                                               *)

\* A query: the function that makes it, the sample it is for, what it asks for.
Query(by, of, topic, metrics) == [by |-> by, of |-> of, topic |-> topic, metrics |-> metrics]

\* One query per MBean of the table.
Each(by, table, of, topic) ==
    [k \in DOMAIN Tables[table] |-> Query(by, of, topic, Tables[table][k])]
Definitions(table, of, topic) == Each("definitions", table, of, topic)

DefinitionsOfTopics(table, of, topics) ==
    FlattenSeq([k \in DOMAIN topics |-> Definitions(table, of, topics[k])])
Totals(by, metric, topics) ==
    [k \in DOMAIN topics |-> Query(by, Self, topics[k], {metric})]

\* populateBrokerInventory.
InventoryPlan(s) ==
    IF s.inventory THEN <<Query("configs", Self, None, {"configs"})>> ELSE <<>>

\* collectBrokerMetrics; gatherTopicSizes and gatherTopicOffset go over a map, in
\* any order.
MetricsPlan(s) ==
    Definitions("broker", Self, None) \o Each("requests", "request", Self, None)
    \o (IF s.extended
        THEN Definitions("extended", Self, None) \o Definitions("jvm", Self, None)
             \o <<Query("gc", Self, None, {"jvm.gcTimePerSecond"})>>
        ELSE <<>>)
    \o DefinitionsOfTopics("topic", Self, s.topics)
TotalsPlan(s, sizes, offsets) ==
    (IF s.sizes THEN Totals("size", "topic.diskSize", sizes) ELSE <<>>)
    \o (IF s.offsets THEN Totals("offset", "topic.offset", offsets) ELSE <<>>)

BrokerPlan(s, sizes, offsets) ==
    InventoryPlan(s)
    \o (IF s.metrics THEN MetricsPlan(s) \o TotalsPlan(s, sizes, offsets) ELSE <<>>)

\* CollectMetrics of the cluster.
ClusterPlan(s) == IF s.metrics THEN Definitions("cluster", Self, None) ELSE <<>>

\* getClientIDS: the name of the host, else the two sources in turn.
DetectionPlan(s) ==
    IF s.name # None THEN <<>>
    ELSE <<Query("names", None, None, {"client metrics"}), Query("names", None, None, {"app info"})>>

TopicPlan(s, id, topics) ==
    DefinitionsOfTopics(IF s.kind = "consumer" THEN "consumerTopic" ELSE "producerTopic", id, topics)

\* getTopicListFromJMX: none, the list of the arguments, or a query.
TopicsQuery(id) == Query("topics", id, None, {"topics"})
AsksForTopics(s) == s.mode = "all" \/ (s.mode = "regex" /\ s.validRegex)

ClientPlan(s, id) ==
    IF ~s.metrics THEN <<>> ELSE
    Definitions(s.kind, id, None)
    \o CASE s.mode = "list" -> TopicPlan(s, id, s.topics)
         [] AsksForTopics(s) -> <<TopicsQuery(id)>>
         [] OTHER -> <<>>

ClientsPlan(s, ids) == FlattenSeq([k \in DOMAIN ids |-> ClientPlan(s, ids[k])])

Init ==
    /\ session \in Sessions
    /\ pc = "run"
    /\ clients = IF session.name = None THEN <<>> ELSE <<session.name>>
    /\ CASE session.kind = "broker" ->
              \E sizes, offsets \in SetToSeqs(Range(session.topics)) :
                  todo = BrokerPlan(session, sizes, offsets)
         [] session.kind = "cluster" -> todo = ClusterPlan(session)
         [] OTHER -> todo = DetectionPlan(session) \o ClientsPlan(session, clients)
    /\ answered = {} /\ failed = {} /\ reported = {}

-----------------------------------------------------------------------------
(* What is made of an answer.                                               *)

IsNumber(x) == x \notin {Text, Error}
NumbersIn(a) == {k \in DOMAIN a : IsNumber(a[k])}
Sum(a) == SumFunctionOnSet(a, NumbersIn(a))

\* Mutant: an attribute that is an error is taken for a value.
Value_KeepsErrors(by, a) ==
    CASE by = "gc" -> Sum(a)
      [] by = "requests" -> IF a = <<>> THEN None ELSE Sum(a)
      [] by \in {"size", "offset"} -> IF a = <<>> \/ Text \in Range(a) THEN None ELSE Sum(a)
      [] by \in {"definitions", "configs"} -> IF Len(a) = 1 THEN a[1] ELSE None

\* The metric set from attributes a, None if it is not set: the versions of a
\* request are added up and so are the collectors of garbage, what is no number
\* left out; the total of a topic leaves out the partitions whose attribute is an
\* error, all of them if need be, and is given up when the value of one is text.
Value(by, a) ==
    CASE by = "gc" -> Sum(a)
      [] by = "requests" -> IF a = <<>> THEN None ELSE Sum(a)
      [] by \in {"size", "offset"} -> IF a = <<>> \/ Text \in Range(a) THEN None ELSE Sum(a)
      [] by \in {"definitions", "configs"} -> IF Len(a) = 1 /\ IsNumber(a[1]) THEN a[1] ELSE None

\* The errors on which the function calls os.Exit(1); for the sizes, the names
\* of MBeans and the configuration it never does.
Fatal(by, error) ==
    \/ error = "connection" /\ by \in {"definitions", "offset"}
    \/ error # "jmx" /\ by \in {"requests", "gc", "topics"}

-----------------------------------------------------------------------------
Asking(kinds) == pc = "run" /\ todo # <<>> /\ Head(todo).by \in kinds

MetricQueries == {"definitions", "requests", "gc", "size", "offset", "configs"}

\* The attributes of different metrics are unrelated; one metric of an MBean
\* has one attribute at most.
Answers(q) ==
    [q.metrics -> {a \in Attributes : q.by \in {"definitions", "configs"} => Len(a) <= 1}]

Answer ==
    /\ Asking(MetricQueries)
    /\ LET q == Head(todo) IN
       \E a \in Answers(q) :
          /\ answered' = answered \cup {<<q, a>>}
          /\ reported' = reported \cup {<<q.of, q.topic, m, Value(q.by, a[m])>> :
                                           m \in {n \in q.metrics : Value(q.by, a[n]) # None}}
    /\ todo' = Tail(todo)
    /\ UNCHANGED <<session, pc, clients, failed>>

\* Mutant: the sources are tried in turn until one of them knows a client.
AnswerNames_Again ==
    /\ Asking({"names"})
    /\ \E ids \in Detected :
         IF ids = <<>>
         THEN todo' = Tail(todo) \o <<Head(todo)>> /\ UNCHANGED clients
         ELSE clients' = ids /\ todo' = ClientsPlan(session, ids)
    /\ answered' = answered \cup {<<Head(todo), None>>}
    /\ UNCHANGED <<session, pc, failed, reported>>

\* Detection ends with the first source that knows a client.
AnswerNames ==
    /\ Asking({"names"})
    /\ \E ids \in Detected :
         IF ids = <<>>
         THEN todo' = Tail(todo) /\ UNCHANGED clients
         ELSE clients' = ids /\ todo' = ClientsPlan(session, ids)
    /\ answered' = answered \cup {<<Head(todo), None>>}
    /\ UNCHANGED <<session, pc, failed, reported>>

\* The MBeans of the producers are asked, whatever the session is of.
TopicBeans == "producer"

\* getAllTopicsFromJMX: a map gives them in any order, regex mode filters them.
AnswerTopics ==
    /\ Asking({"topics"})
    /\ LET present == IF TopicBeans = session.kind THEN Range(session.topics) ELSE {}
           wanted  == IF session.mode = "regex" THEN present \cap session.matching ELSE present
       IN  \E topics \in SetToSeqs(wanted) :
              todo' = TopicPlan(session, Head(todo).of, topics) \o Tail(todo)
    /\ UNCHANGED <<session, pc, clients, answered, failed, reported>>

\* Mutant: the first failure ends the session.
QueryFails_Ends(error) ==
    /\ pc = "run" /\ todo # <<>>
    /\ ~Fatal(Head(todo).by, error)
    /\ failed' = failed \cup {Head(todo)}
    /\ todo' = <<>>
    /\ UNCHANGED <<session, pc, clients, answered, reported>>

\* Logged; the next query follows.
QueryFails(error) ==
    /\ pc = "run" /\ todo # <<>>
    /\ ~Fatal(Head(todo).by, error)
    /\ failed' = failed \cup {Head(todo)}
    /\ todo' = Tail(todo)
    /\ UNCHANGED <<session, pc, clients, answered, reported>>

QueryExits(error) ==
    /\ pc = "run" /\ todo # <<>>
    /\ Fatal(Head(todo).by, error)
    /\ failed' = failed \cup {Head(todo)}
    /\ pc' = "exited"
    /\ UNCHANGED <<session, todo, clients, answered, reported>>

Return ==
    /\ pc = "run" /\ todo = <<>>
    /\ pc' = "returned"
    /\ UNCHANGED <<session, todo, clients, answered, failed, reported>>

Errors == {"jmx", "connection", "client"}

Step ==
    \/ Answer \/ AnswerNames \/ AnswerTopics
    \/ \E e \in Errors : QueryFails(e) \/ QueryExits(e)
    \/ Return

Rest == pc # "run" /\ UNCHANGED vars
Next == Step \/ Rest
Spec == Init /\ [][Next]_vars

\* Each query is answered or fails: the client has a timeout for it.
FairSpec == Spec /\ WF_vars(Step)

-----------------------------------------------------------------------------
(* Properties.                                                              *)

Handlers == MetricQueries \cup {"names", "topics"}

TypeOK ==
    /\ session \in Sessions
    /\ pc \in {"run", "returned", "exited"}
    /\ Range(clients) \subseteq ClientIds
    /\ \A q \in Range(todo) \cup failed \cup {p[1] : p \in answered} :
          q.by \in Handlers /\ q.topic \in Topics \cup {None}
    /\ \A r \in reported : r[1] \in ClientIds \cup {Self} /\ r[4] \in Nat

\* The queries of a session that knows its clients and, of a producer, whether
\* the topics could be listed.
Listed(id) ==
    /\ session.kind = "producer"
    /\ TopicsQuery(id) \in Range(ClientPlan(session, id)) \ failed
Wanted ==
    IF session.mode = "all" THEN Range(session.topics)
    ELSE Range(session.topics) \cap session.matching
Planned ==
    CASE session.kind = "broker" -> Range(BrokerPlan(session, session.topics, session.topics))
      [] session.kind = "cluster" -> Range(ClusterPlan(session))
      [] OTHER -> Range(ClientsPlan(session, clients))
                  \cup UNION {Range(Definitions("producerTopic", id, t)) :
                                 id \in {c \in Range(clients) : Listed(c)}, t \in Wanted}

\* The attributes hold a value for the metric: a number, and, for the total of a
\* topic, no text.
Usable(by, a) ==
    /\ NumbersIn(a) # {}
    /\ by \in {"size", "offset"} => Text \notin Range(a)

\* "As other metrics can be collected even if a single failure/timout occurs"
\* (metrics/metrics.go:88): when a session returns, each query it had planned has
\* failed or been answered, and each metric of an answered one that got a usable
\* number is in the sample, as the sum of the numbers it got.  Attributes that are
\* errors are not part of it: the total of a topic with such partitions is the sum
\* of the others (broker/topic_size_collection.go:48, topic_offset_collection.go:54).
\* And no client was found only if each of the two sources failed or knew none
\* (client/id_detection.go:48).
FailuresAreLocal ==
    pc = "returned" =>
        /\ \A q \in Planned : q.by \in MetricQueries =>
              \/ q \in failed
              \/ \E p \in answered :
                    /\ p[1] = q
                    /\ \A m \in q.metrics :
                          Usable(q.by, p[2][m])
                              => <<q.of, q.topic, m, Sum(p[2][m])>> \in reported
        /\ session.kind \in {"consumer", "producer"} /\ clients = <<>> =>
              Range(DetectionPlan(session)) \subseteq failed \cup {p[1] : p \in answered}

\* A session ends, whatever its queries answer.
SessionEnds == <>(pc # "run")

\* "Topic metrics that are related to either a Producer or Consumer"
\* (metrics/metrics.go:48): when all goes well, mode "all" collects the topics
\* of a consumer.
ConsumerTopicsCollected ==
    (pc = "returned" /\ failed = {} /\ session.kind = "consumer"
       /\ session.metrics /\ session.mode = "all")
        => \A id \in Range(clients), t \in Range(session.topics) :
              \E p \in answered : p[1].of = id /\ p[1].topic = t
==============================================================================
