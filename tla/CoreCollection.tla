---------------------------- MODULE CoreCollection ----------------------------
(***************************************************************************)
(* main and coreCollection: the collection of brokers, topics, consumers    *)
(* and producers, up to the single Publish at the end.                      *)
(*                                                                          *)
(* The main goroutine finds the brokers, probes their JMX ports, lists the  *)
(* topics, starts the pools (WorkerPool) one after the other, collects the  *)
(* cluster metrics itself, and waits for all workers.  Brokers, consumers   *)
(* and producers are collected over JMX connections, which the main         *)
(* goroutine and all workers take from one limited provider (JmxProvider).  *)
(* os.Exit and a panic in any goroutine end the whole process.              *)
(*                                                                          *)
(* The payload is not modelled: what has been collected is the outcome of   *)
(* each item.  How the brokers are found is module BrokerDiscovery, topic   *)
(* filtering is TopicSelection, the partitions of a topic PartitionPool.    *)
(***************************************************************************)
EXTENDS WorkerPool, JmxProvider

CONSTANTS
    Brokers, TopicNames, Consumers, Producers,   \* items of the four pools
    Main,                                        \* the main goroutine
    Configs                                      \* configurations to explore

PoolNames == {"broker", "topic", "consumer", "producer"}
Config == [collectBrokers : BOOLEAN,       \* CollectBrokers()
           topicPool : BOOLEAN,            \* ~LocalOnlyCollection \/ ForceTopicSampleCollection
           clusterMetrics : BOOLEAN,       \* CollectClusterMetrics
           hasMetrics : BOOLEAN,           \* HasMetrics()
           zkTopics : BOOLEAN,             \* topics come from ZooKeeper
           listMode : BOOLEAN]             \* TopicMode is "none" or "list"

ASSUME CoreAssumption ==
    /\ Pools = PoolNames
    /\ \A p \in Pools : \E w \in Workers : PoolOf[w] = p     \* no pool is started empty
    /\ Items = Brokers \cup TopicNames \cup Consumers \cup Producers
    /\ Brokers # {}
    /\ Main \notin Workers
    /\ Callers = Workers \cup {Main}
    /\ Configs \subseteq Config

\* What the feeder of a pool may send.  A broker, a topic and a JMX host are
\* different things, and a host is in one of the two lists as an item of its own.
ItemsOf(p) ==
    CASE p = "broker"   -> Brokers
      [] p = "topic"    -> TopicNames
      [] p = "consumer" -> Consumers
      [] p = "producer" -> Producers

ASSUME ItemsAssumption == \A p, q \in Pools : p # q => ItemsOf(p) \cap ItemsOf(q) = {}

VARIABLES
    config,        \* the arguments of this run
    pc,            \* where the main goroutine is, or how the process ended
    topics,        \* collectedTopics
    zkNil,         \* the ZooKeeper connection for the topics could not be made
    todo,          \* brokers still to be asked for their controller count
    exitCause      \* why the process exited

mainVars == <<config, pc, topics, zkNil, todo, exitCause>>
vars == <<poolVars, jmxVars, mainVars>>

Ends == {"published", "exited", "panicked"}
Alive == pc \notin Ends

Init ==
    /\ PoolInit
    /\ JmxInit
    /\ config \in Configs
    /\ pc = "start"
    /\ topics = {}
    /\ zkNil = FALSE
    /\ todo = {}
    /\ exitCause = "none"

ExitProcess(cause) == pc' = "exited" /\ exitCause' = cause
GoTo(place) == pc' = place /\ UNCHANGED exitCause

-----------------------------------------------------------------------------
(* The main goroutine, up to the pools.                                     *)

ClientsOnly ==
    /\ pc = "start" /\ ~config.collectBrokers
    /\ GoTo("clients")
    /\ UNCHANGED <<poolVars, jmxVars, config, topics, zkNil, todo>>

FindBrokers ==
    /\ pc = "start" /\ config.collectBrokers
    /\ GoTo("probe")
    /\ UNCHANGED <<poolVars, jmxVars, config, topics, zkNil, todo>>

\* No broker list or no Kafka client: coreCollection returns at once, and the
\* integration publishes without any data.
FindBrokersFails ==
    /\ pc = "start" /\ config.collectBrokers
    /\ GoTo("publish")
    /\ UNCHANGED <<poolVars, jmxVars, config, topics, zkNil, todo>>

\* checkJMXConnection: os.Exit(2) if any JMX port cannot be reached.
ProbeJmx ==
    /\ pc = "probe"
    /\ GoTo("topics")
    /\ UNCHANGED <<poolVars, jmxVars, config, topics, zkNil, todo>>

ProbeJmxFails ==
    /\ pc = "probe"
    /\ ExitProcess("probe")
    /\ UNCHANGED <<poolVars, jmxVars, config, topics, zkNil, todo>>

\* GetTopics answers, or fails and leaves no topics.
ListTopics ==
    /\ pc = "topics"
    /\ topics' \in {{}, TopicNames}
    /\ GoTo("pools")
    /\ UNCHANGED <<poolVars, jmxVars, config, zkNil, todo>>

\* The connection to ZooKeeper fails.  GetTopics only uses it when the mode
\* asks for the topics of the cluster, and then on a nil pointer.
ListTopicsNoZk ==
    /\ pc = "topics" /\ config.zkTopics
    /\ zkNil' = TRUE
    /\ IF config.listMode
       THEN GoTo("pools") /\ topics' \in {{}, TopicNames}
       ELSE GoTo("panicked") /\ UNCHANGED topics
    /\ UNCHANGED <<poolVars, jmxVars, config, todo>>

-----------------------------------------------------------------------------
(* The main goroutine, pools and cluster metrics.                           *)

\* StartBrokerPool; StartTopicPool and go FeedTopicPool.
StartBrokerAndTopicPools ==
    /\ pc = "pools"
    /\ StartPools({"broker"} \cup (IF config.topicPool THEN {"topic"} ELSE {}))
    /\ StartFeeders(IF config.topicPool THEN {"topic"} ELSE {}, [p \in Pools |-> topics])
    /\ todo' = IF config.clusterMetrics THEN Brokers ELSE {}
    /\ GoTo(IF config.clusterMetrics THEN "controllers" ELSE "feed")
    /\ UNCHANGED <<item, outcome, jmxVars, config, topics, zkNil>>

\* countActiveControllers and collectClusterMetrics each block in NewConnection.
MainConnects ==
    /\ pc \in {"controllers", "cluster"}
    /\ NewConnection(Main)
    /\ pc' = IF pc = "controllers" THEN "counting" ELSE "collecting"
    /\ UNCHANGED <<poolVars, config, topics, zkNil, todo, exitCause>>

MainOpened ==
    /\ pc \in {"counting", "collecting"}
    /\ Opened(Main)
    /\ UNCHANGED <<poolVars, mainVars>>

\* The next broker of the count, or the cluster metrics once all were asked.
NextBroker ==
    \E b \in todo :
        /\ todo' = todo \ {b}
        /\ GoTo(IF todo' = {} THEN "cluster" ELSE "controllers")

\* The broker was asked, or its query failed: closed either way.
CountController ==
    /\ pc = "counting"
    /\ Close(Main) \/ OpenFails(Main)
    /\ NextBroker
    /\ UNCHANGED <<poolVars, config, topics, zkNil>>

\* Mutant: the connection of the cluster metrics is not closed.
CollectCluster_NoClose ==
    /\ pc = "collecting"
    /\ (conn[Main] = "open" /\ UNCHANGED jmxVars) \/ OpenFails(Main)
    /\ GoTo("feed")
    /\ UNCHANGED <<poolVars, config, topics, zkNil, todo>>

CollectCluster ==
    /\ pc = "collecting"
    /\ Close(Main) \/ OpenFails(Main)
    /\ GoTo("feed")
    /\ UNCHANGED <<poolVars, config, topics, zkNil, todo>>

\* A connection error in CollectMetricDefinitions.
CollectClusterExits ==
    /\ pc = "collecting" /\ config.hasMetrics
    /\ conn[Main] = "open"
    /\ ExitProcess("query")
    /\ UNCHANGED <<poolVars, jmxVars, config, topics, zkNil, todo>>

FeedBrokers ==
    /\ pc = "feed"
    /\ StartFeeders({"broker"}, [p \in Pools |-> Brokers])
    /\ GoTo("clients")
    /\ UNCHANGED <<worker, item, outcome, wg, jmxVars, config, topics, zkNil, todo>>

\* The consumer and the producer pool and their feeders.
StartClientPools ==
    /\ pc = "clients"
    /\ StartPools({"consumer", "producer"})
    /\ StartFeeders({"consumer", "producer"},
                    [p \in Pools |-> IF p = "consumer" THEN Consumers ELSE Producers])
    /\ GoTo("wait")
    /\ UNCHANGED <<item, outcome, jmxVars, config, topics, zkNil, todo>>

\* wg.Wait() returns; the deferred Close of a nil ZooKeeper connection panics.
WaitForWorkers ==
    /\ pc = "wait"
    /\ wg = 0
    /\ GoTo(IF zkNil THEN "panicked" ELSE "publish")
    /\ UNCHANGED <<poolVars, jmxVars, config, topics, zkNil, todo>>

Publish ==
    /\ pc = "publish"
    /\ GoTo("published") \/ ExitProcess("publish")
    /\ UNCHANGED <<poolVars, jmxVars, config, topics, zkNil, todo>>

MainStep ==
    \/ ClientsOnly \/ FindBrokers \/ FindBrokersFails
    \/ ProbeJmx \/ ProbeJmxFails
    \/ ListTopics \/ ListTopicsNoZk
    \/ StartBrokerAndTopicPools
    \/ MainConnects \/ MainOpened \/ CountController
    \/ CollectCluster \/ CollectClusterExits
    \/ FeedBrokers \/ StartClientPools \/ WaitForWorkers \/ Publish

-----------------------------------------------------------------------------
(* Workers and feeders.                                                     *)

Feed(w) ==
    /\ Alive
    /\ \E x \in Items : Deliver(w, x)
    /\ UNCHANGED <<jmxVars, mainVars>>

CloseFeed(p) ==
    /\ Alive
    /\ CloseChannel(p)
    /\ UNCHANGED <<jmxVars, mainVars>>

Return(w) ==
    /\ Alive
    /\ WorkerReturns(w)
    /\ UNCHANGED <<jmxVars, mainVars>>

\* Only broker workers ask for metrics to be wanted at all.
NeedsJmx(w) == PoolOf[w] # "topic" /\ (PoolOf[w] = "broker" => config.hasMetrics)

\* A topic whose configuration or partitions cannot be read is left out; so is
\* a broker's connection when only inventory is wanted.
CollectWithoutJmx(w) ==
    /\ Alive
    /\ ~NeedsJmx(w)
    /\ \E result \in {"collected", "failed"} :
        /\ result = "failed" => PoolOf[w] = "topic"
        /\ HandleItem(w, result)
    /\ UNCHANGED <<jmxVars, mainVars>>

\* topicRespondsToMetadata goes on with a nil controller after an error.
TopicPanics(w) ==
    /\ Alive
    /\ PoolOf[w] = "topic" /\ worker[w] = "item" /\ config.hasMetrics
    /\ GoTo("panicked")
    /\ UNCHANGED <<poolVars, jmxVars, config, topics, zkNil, todo>>

Connect(w) ==
    /\ Alive
    /\ NeedsJmx(w) /\ worker[w] = "item"
    /\ NewConnection(w)
    /\ UNCHANGED <<poolVars, mainVars>>

ConnectionOpened(w) ==
    /\ Alive
    /\ Opened(w)
    /\ UNCHANGED <<poolVars, mainVars>>

ConnectionFails(w) ==
    /\ Alive
    /\ OpenFails(w)
    /\ HandleItem(w, "failed")
    /\ UNCHANGED mainVars

\* The metrics are collected, queries that fail skipped, and the connection closed.
Collect(w) ==
    /\ Alive
    /\ Close(w)
    /\ HandleItem(w, "collected")
    /\ UNCHANGED mainVars

\* A connection error of one query, or a client error in
\* CollectBrokerRequestMetrics: os.Exit(1).
CollectExits(w) ==
    /\ Alive
    /\ config.hasMetrics
    /\ conn[w] = "open"
    /\ ExitProcess("query")
    /\ UNCHANGED <<poolVars, jmxVars, config, topics, zkNil, todo>>

WorkerStep(w) ==
    \/ Feed(w) \/ Return(w)
    \/ CollectWithoutJmx(w) \/ TopicPanics(w)
    \/ Connect(w) \/ ConnectionOpened(w) \/ ConnectionFails(w)
    \/ Collect(w) \/ CollectExits(w)

-----------------------------------------------------------------------------
Rest == ~Alive /\ UNCHANGED vars

Next ==
    \/ MainStep
    \/ \E w \in Workers : WorkerStep(w)
    \/ \E p \in Pools : CloseFeed(p)
    \/ Rest

Spec == Init /\ [][Next]_vars

\* Every goroutine that can run is scheduled; a connection attempt, a query and
\* a close end, well or not.
Fairness ==
    /\ WF_vars(MainStep)
    /\ \A w \in Workers : WF_vars(WorkerStep(w))
    /\ \A p \in Pools : WF_vars(CloseFeed(p))

FairSpec == Spec /\ Fairness

-----------------------------------------------------------------------------
(* Properties.                                                              *)

MainPlaces == {"start", "probe", "topics", "pools", "controllers", "counting", "cluster",
               "collecting", "feed", "clients", "wait", "publish"}

TypeOK ==
    /\ PoolTypeOK
    /\ JmxTypeOK
    /\ config \in Configs
    /\ pc \in MainPlaces \cup Ends
    /\ topics \subseteq TopicNames
    /\ zkNil \in BOOLEAN
    /\ todo \subseteq Brokers
    /\ exitCause \in {"none", "probe", "query", "publish"}

\* What the configuration asks to be collected, once the brokers were found.
Wanted ==
    Consumers \cup Producers
    \cup (IF config.collectBrokers
          THEN Brokers \cup (IF config.topicPool THEN topics ELSE {})
          ELSE {})

\* After the wait group everything that was asked for has been handled, to
\* success or failure, no worker runs and no item is in one's hands; the early
\* return without brokers has handled nothing.
PublishAfterAllWork ==
    pc \in {"publish", "published"} =>
        /\ Running = {}
        /\ \/ \A x \in Wanted : outcome[x] \in {"collected", "failed"}
           \/ config.collectBrokers /\ \A x \in Items : outcome[x] = "pending"

\* No JMX connection outlives the goroutine that opened it: none is held or
\* waited for when the integration publishes, and the main goroutine has none
\* when it waits for the workers, which need them.
NoConnectionLeft ==
    /\ pc \in {"feed", "clients", "wait"} => conn[Main] = "none"
    /\ pc \in {"publish", "published"} => cur = 0 /\ waiters = <<>>

\* An item goes to one worker, is handled by it, and is never handled again.
HandledOnce ==
    [][\A x \in Items :
          outcome'[x] # outcome[x] =>
            \/ outcome[x] = "pending" /\ outcome'[x] = "taken"
            \/ outcome[x] = "taken" /\ outcome'[x] \in {"collected", "failed"}]_vars

\* The process ends: no goroutine waits for ever for a connection, an item or
\* the wait group, with as little as one connection for all of them.
ProcessEnds == <>(pc \in Ends)

\* "Continuing with broker collection": the log message of a failed connection
\* to ZooKeeper says that the collection goes on without it.
ZkFailureContinues == zkNil => pc # "panicked"

\* "If we fail we don't want a total failure as other metrics can be collected":
\* a failed query does not discard what other workers have collected.
QueryFailureNotTotal == exitCause = "query" => \A x \in Items : outcome[x] # "collected"
==============================================================================
