# A TLA+ verification of nri-kafka

nri-kafka is the New Relic integration for Apache Kafka: a short-lived process
that finds the brokers of a cluster, collects metrics over JMX and over the
Kafka protocol with a handful of goroutine pools, and publishes everything in one
payload at the end. A second mode of the same binary measures consumer-group lag.

This directory models the parts of it where goroutines, shared limits, channels,
caches and partial failures meet, checks them with TLC on small instances, and
proves some of the results with TLAPS for every size. Paths below are relative
to the repository; the Go code is in `src/`.

## 1. Inventory

| component | code | state it keeps | operations |
|---|---|---|---|
| main, core collection | `src/kafka.go` | the wait group of all workers, the broker list, the chosen topics | find brokers, probe JMX ports, list and bucket topics, start and feed pools, count controllers, collect cluster metrics, wait, publish |
| consumer offset collection | `src/consumeroffset/kafka_offset_collect.go`, `*_aggregator.go`, `collect.go` | two lag channels and their wait groups, topic exclusions, roll-up maps per client, group and topic | list committed offsets per member, one goroutine per partition, inactive pass, aggregate, publish |
| offset and topic caches | `topic_offset_getter.go`, `consumer_group_topic_lister.go` | two maps of offsets, the topic list, a mutex for each | cached lookup of the high water mark or the earliest offset, cached listing |
| JMX provider | `src/connection/jmx.go` | a weighted semaphore | NewConnection, Close |
| brokers | `src/broker/*` | an unbuffered channel | StartBrokerPool, FeedBrokerPool, brokerWorker |
| producers, consumers | `src/client/*` | two unbuffered channels | StartWorkerPool, FeedWorkerPool, Worker |
| topics | `src/topic/*` | the topic channel; per topic the partition pipeline: 50 workers, 50 forwarders, 52 bounded channels | FeedTopicPool, topicWorker, setTopicInfo, collectPartitions, populateTopicMetrics |
| broker discovery | `src/connection/connection.go`, `getBrokerList` in `kafka.go` | open connections, the cluster id | bootstrap or Zookeeper discovery, endpoint choice |
| controller lookup, cluster metrics | `src/connection/controller.go`, `src/cluster/collector.go`, `countActiveControllers` in `kafka.go` | the count of active controllers, the broker chosen | ask each broker, ask the client, one sample from one broker |
| metric queries | `src/metrics/*`, `src/broker/topic_*_collection.go`, `src/client/id_detection.go` | the samples being filled, the ids and topics found | query, sort the errors, add up, convert, exit when the connection is lost |
| arguments | `src/args/*` | the global arguments | parsing and validation, `topic_bucket` included |
| zookeeper, TLS/SASL, mocks | `src/zookeeper/*`, `sasl_scram.go` | none of its own | wrappers |

**How they interact.** The main goroutine starts each pool and adds its workers to one wait group;
a feeder goroutine per pool sends the items and closes the channel. Broker, consumer and producer
workers take JMX connections from one provider, so a slow or leaking user of a connection stops
the others. The main goroutine uses the same provider, but before them: it counts the controllers
and collects the cluster metrics before the brokers are fed (`kafka.go:268`) and the client pools
started (`:271`), and the topic workers that may run by then use no JMX. It does not compete for
units; what it could do is keep one. A topic worker builds a pipeline of its own for the
partitions of a topic. `os.Exit` or a panic in any goroutine ends the process before the single
`Publish`. In consumer-offset mode one goroutine per group runs the collection of
`ConsumerOffsets`, and all of them share the two caches of `OffsetCache`. The open connection of a
worker (or of the main goroutine) is used for a sequence of queries, the session of `JmxSession`,
which nothing outside interferes with.

**What is hard**, and the property that speaks of it (the full list, line by line,
is `hazards` in `PROJECT.json`):

* channels closed by somebody else than their senders: lag channels and
  `partitionCollectChan` (`NoSendAfterClose`, in two modules);
* goroutines that return early and must still leave their wait group
  (`CollectionEnds`, `PipelineDrains`, `ProcessEnds`);
* a semaphore shared by three pools, of which each of several failing paths must give its
  unit back exactly once (`ConnectionLimit`, `UnitsHeld`, `NoConnectionLeft`);
* two passes over the partitions of a group that must neither overlap nor leave a gap
  when requests fail (`NoPartitionCountedTwice`, `NoPartitionLost`);
* caches filled once while the log grows and is truncated, groups commit and topics are
  created (`SameMark`, `LagNegativeOnlyIfStale`, `SameTopics`), and what they keep of a
  failed request (`ValueIsAnOffset`);
* several processes that share the topics with no communication between them
  (`NeverTwice`, `NoTopicLost`);
* a discovery in which some brokers, endpoints or listings fail and others do not
  (`AllOrNothing`, `FirstThatWorks`, `LocalOnlyAlone`, `SessionClosed`);
* a controller that moves while the brokers are asked, one by one, who it is
  (`CountBounded`, `SteadyIsCounted`, `StableClusterSample`);
* sequences of queries of which any may fail, over attributes of which some are errors
  (`FailuresAreLocal`), and one query that asks the wrong MBean (`ConsumerTopicsCollected`);
* the counts of a topic, over partitions that arrive in any order and of which some are
  dropped (`EachPartitionOnce`, `ResultIsComplete`);
* nothing may be published before the last worker is done (`PublishAfterAllWork`).

Nothing is persisted and nothing is retried by the program itself, so there is no
crash recovery to model; requests fail or answer, they are not resent.

## 2. Modules

| module | models | role |
|---|---|---|
| `JmxProvider` | `connection/jmx.go` and the semaphore | component |
| `WorkerPool` | the pools of `broker`, `client`, `topic` | component |
| `CoreCollection` | `main`, `coreCollection` | EXTENDS both of the above: every one of its actions is one of theirs together with a step of the caller |
| `JmxSession` | the queries over one open connection: `metrics/metrics.go` and its callers in `broker`, `client`, `cluster` | component; in `CoreCollection` a session is one step, `Collect` or `CollectExits` |
| `PartitionPool` | a topic worker and one topic: `setTopicInfo`, `topic/partition_collection.go`, `populateTopicMetrics` | component |
| `TopicSelection` | `GetTopics`, `filterTopicsByBucket`, `enforceTopicLimit`, in several processes | component |
| `BrokerDiscovery` | `getBrokerList`, `GetBrokerListFromZookeeper`, `GetBrokerFromZookeeper` | component; `CoreCollection` takes over where it ends, with a non-empty list of brokers or an error |
| `ControllerChoice` | `countActiveControllers`, `FindControllerBroker`, `collectClusterMetrics` while the controller moves | EXTENDS `BrokerDiscovery`: it starts from whatever list the discovery gave |
| `ConsumerOffsets` | `Collect`, `collectOffsetsForConsumerGroup` and the aggregators | component |
| `LagRollup` | what that collection promises: each measured lag is counted once in each roll-up it is due in, and publication comes after | abstract specification, implemented by `ConsumerOffsets` |
| `OffsetCache` | the offset getter and the topic lister, against a moving log | component |
| `MC*` | constants for the runs | model checking |
| `CoreCollectionProofs`, `JmxSessionProofs`, `ConsumerOffsetsProofs`, `PartitionPoolProofs`, `OffsetCacheProofs`, `ControllerChoiceProofs`, `TopicSelectionProofs` | theorems about the module of that name; of `CoreCollection` and `ControllerChoice`, also about those they extend | proofs |
| `FoldTheorems` | sums over finite sets, and induction over sets | lemmas |

### Reading them beside the code

`map` in `PROJECT.json` names, for each definition, the lines it stands for. The
conventions:

* A send on an unbuffered channel and its receive are one step (`Deliver`). A
  buffered channel is a sequence (or, where order cannot be told, a set) with a capacity.
* A deferred call is part of the step that returns. `wg.Add` is part of the step that
  starts the goroutine.
* A request to Kafka, Zookeeper or JMX is an action for the answer and one for the
  failure; between the call and either, every other goroutine may move.
* A mutex held over a request is state, not atomicity: `OffsetCache` has a step for
  the lock and the request and one for the answer, in both of its caches.
* Offsets are numbers. The conversions of int64 to int in `kafka_offset_collect.go:213` and
  `:268` are left out: they lose nothing but on 32-bit builds, for offsets past 2^31.
* `os.Exit` and a panic are values of `pc` after which nothing moves.

**CoreCollection.** `pc` is the place of the main goroutine in `coreCollection`; `MainConnects ..
CollectCluster` are `countActiveControllers` and `collectClusterMetrics`. Topic workers may run by
then; the workers that use JMX have no item yet, or are not started, until the main goroutine is
past its last connection. A worker's `item` is the broker, host or topic in its hands, `outcome`
what became of it (history). Metric values are left out. The topic-list connection to Zookeeper
that fails leaves `zkNil`, the zero value that the code then uses.

**JmxProvider.** `cur` and `waiters` are the semaphore; `conn` says what each caller
holds. Acquire either takes a unit or queues, a release hands the unit to the first in
the queue, as the semaphore does under its own lock. Any limit in Nat is allowed.

**JmxSession.** `todo` is the list of queries the code is still going to make: the plan of a
broker is fixed by the arguments, that of a client grows as ids and topics are found. An
action is the answer to the first of them, or its failure with one of gojmx's three errors;
`Fatal` is the table of which function exits on which of them, `Value` what each makes of the
attributes in an answer (numbers, text, or errors of their own): the total of a topic is the sum
over the partitions whose attribute is not an error, 0 if all are, and only text makes the code
give it up (`topic_size_collection.go:46`). The size query survives every error, the offset query
exits on a lost connection; nothing in the repository says which is meant, so `Fatal` is part of
the model and not of a property. The tables of definitions are
the parameter `Tables`, and `reported` holds what was put into samples.

**PartitionPool.** `topic` is the place of the topic worker in `setTopicInfo` and
`populateTopicMetrics`; between them stand the five stages of the pipeline, each arrow a
bounded channel, and `sample` is what is reported at the end. The wait
group the workers are added to is never waited for in the code and is left out. The four
lookups of a worker are one choice, because the first error drops the partition.

**TopicSelection.** Instances of the integration are processes; the number of values of
the hash and of Go's `int` are parameters, and the conversion and the `%` operator keep
their signs. The regular expression and the topic mode only choose the constant `Topics`.

**BrokerDiscovery.** One goroutine and what may fail under it: `pc` is the place in
`getBrokerList`, `todo` and `next` are its two loops, over brokers and over the endpoints of
one of them. An endpoint is what `parseEndpoint` and the protocol map make of it; `NewBroker`
(TLS and SASL included) works or fails in one step. `dialed`, `refused` and `unread` are
history.

**ControllerChoice.** `active` is what the brokers would answer at this moment, changed by
`Elect` and `Resign` between any two steps of the code: two brokers may think they are the
controller, or none. With Zookeeper the metadata of the client names a broker that is or was
elected. Without it (`kraft`) the controller need not be one of the brokers, and the metadata
names any of them (`Named`), also one that never answers that it is the controller.
`asked` is the loop of `countActiveControllers`.

**ConsumerOffsets.** `pc` begins in `Collect`, with the admin client, and follows the
goroutine of one group of those described; its description may arrive without members,
because the error inside it is not read. The unit of work is a block of an offset response: (member, topic
partition). `worker[b]` follows the goroutine of the block, `chan`, `wg` and `closed` are
the two channels, `clientRollup` and `groupRollup` the maps of the aggregators, with a key
only once a result has arrived. Lags are constants per partition, negative ones included;
how a lag comes about is `OffsetCache`.

**OffsetCache.** A lookup is one goroutine on its way through the committed offset, the
high water mark and the earliest offset of its partition, on which other lookups also work,
with `Append`, `Truncate` and `CreateTopic` moving the cluster in between. `Ask` takes the
mutex and sends the request; `Answer` or `AnswerFails` stores what came and gives the mutex back;
`Hit` is a call that finds its entry. The lister has the same three. `early` is history: the
lookups that had read what is committed when the mark of their partition was stored. Their
lag cannot be negative; that of a lookup that reads its commit later and finds the old mark in
the cache can, and the code reports it so.

## 3. Runs

| run | bounds | shows |
|---|---|---|
| `offsets` | 3 members of 2 clients, 3 topics of 2 partitions, buffer 1, both flags on, three assignments, a regex that is missing, matches or not | the collection ends whatever fails, no send on a closed channel, published roll-ups are complete and exact, no partition twice or lost, and it implements `LagRollup` |
| `offset_cache` | 1 partition, 4 lookups, 2 of which list topics, a topic created meanwhile, offsets up to 1 | one mark for all lookups of a partition, a negative lag only by a commit read after the mark was stored, one list of topics for all groups, nobody waits for ever |
| `offset_cache_error` | same | *violated*: a failed request leaves -1 in the cache as an offset |
| `core` | 2 brokers on 2 workers, a topic, a consumer and an idle producer worker, ONE connection for all, five configurations | limit, no unit kept that no connection uses, no connection left, publication after all work, each item handled once, the process ends |
| `core_zk_failure` | same | *violated*: "Continuing with broker collection" |
| `core_query_failure` | same | *violated*: "we don't want a total failure" |
| `partition_pool` | 3 workers, topics of 0, 1 or 4 partitions, all channels of capacity 1 | no send on a closed channel, each partition in exactly one place, result and sample over exactly the partitions looked up, all goroutines end |
| `topic_buckets` | 3 topics, up to 3 instances, a hash of 8 values, an int of 64, limit 2 | no topic twice, none lost |
| `discovery` | 3 brokers, 6 endpoints, one that does not parse and one whose listener has no protocol; both strategies, local-only, with and without a preferred listener; with Zookeeper and without; one election (`MaxElections`) and any resignation during the collection | bootstrap yields all or an error, Zookeeper the first endpoint that works, local-only touches no other broker, no session is left open; the count is wrong only by elections, a controller that stays and answers is in it, the sample of a cluster whose controller stays says one and comes from that controller unless nobody names it |
| `jmx_sessions` | 17 sessions of the four kinds; 2 topics, 2 client ids, a table of two MBeans and others of one; answers of up to three attributes | in a session that returns each planned query failed or was answered, and every usable number of an answer is in the sum reported; every session ends |
| `jmx_consumer_topics` | the same | *violated*: "Topic metrics that are related to either a Producer or Consumer" |
| `topic_buckets_32bit` | the same with an int of 8 values | *violated*: negative hashes match no bucket |

**Why the bounds are enough.** Every capacity is at its minimum, so each stage blocks where the
code's larger buffers would hide it: buffer 1 for 1000 slots, one connection for three, one slot
for 20. Two workers on a pool are what it takes for items to race; a second pool with an item is
what it takes for the connections to be contended from different code, and one connection is what
it takes for a unit that is not given back to stop everybody. Three forwarders distinguish "the
first", "some" and "all" have ended, and four partitions are more than three workers hold. The
assignments of `offsets` have a topic split over two members of one client, one with a consumed
and an unconsumed partition, and one nobody consumes; the lags are powers of two (one of them
negative), so that two different sets of partitions never have the same sum. Three topics and a
limit of two give a bucket over the limit and one under it in the same run. Three brokers of which
any can be missing from the answer, in any order, put a broker that fails first, in the middle and
last; the endpoints of one of them hold every reason to pass over one before two that may work.

**Fairness.** Weak fairness of each goroutine: the Go scheduler runs whatever can run, and a
request returns, well or not (sarama and the JMX client have timeouts). The semaphore and the
channels are modelled with the queues they have, so no fairness is assumed for who gets a unit.
`OffsetCache` has weak fairness of all lookups together: some goroutine that can go on does. That
Go's mutex starves no waiter need not be assumed, as each lookup has finitely many steps. No
fairness is assumed for answers over failures, or for anything of Kafka itself (`Append`,
`Truncate`, `CreateTopic`, `Elect`, `Resign`). The `discovery` run has safety properties only and
assumes none. `JmxSession` has weak fairness of its one goroutine: the JMX client has a timeout
for each query. `NeverTwice`, `NoTopicLost` and all other safety properties need none. Only
`partition_pool` and the topic runs turn the deadlock check off: both really stop. The other
specifications stutter explicitly once the process has ended (`Rest`), so that every other stop is
reported.

**Findings.** Each of the five violated runs checks a sentence of the code or its
documentation; what it quotes and what the code does is under `findings` in `PROJECT.json`.

## 4. Proofs

Every theorem holds for all values of the constants that satisfy the named assumptions, and
each rests on an inductive invariant. The parts of an invariant are named for what they say, and
a proof has one lemma or one step for each action. `theorems` in `PROJECT.json` lists the results.

**FoldTheorems.** `SumRemove`: the fold with which the community modules sum a function over a
finite set does not depend on the order in which it takes the members. The induction theorems of
the library take a predicate as parameter, which no installed prover can instantiate. So the
induction here is over sets: a set that holds 0 and the successor of each of its members holds
every number (`SuccessorInduction`), because the successor on its members below a missing number
would be one to one and not onto. `SubsetInduction` says the same of the subsets of a finite set.
The existence of the fold's function (`IterExists`) and its value by any member follow.

**CoreCollectionProofs** begins with the provider alone, for any finite set of callers and any
limit: `JmxSpec => []ConnectionLimit` (`JmxLimit`). The limit alone is not inductive. `JmxInv`
needs: `cur` is the number of holders (`UnitsHeld`), so that a bound on `cur` is a bound on
connections (and no path through a failed open or a failed close keeps a unit or gives back two);
the queue contains exactly the waiting callers, each once (`QueueIsTheBlocked`), so
that the one a unit is handed to was not a holder already; and a non-empty queue means that all
units are taken (`NoLostWakeup`), so that a hand-over keeps the count. Assumptions:
`CallersAssumption`, `LimitAssumption`.

It then carries this over to the program, and adds what only the program knows. Every step of
`CoreCollection` is a step of `JmxNext` or leaves the provider alone, so `JmxInv` holds of the
whole program (`CoreLimit`, `CoreUnitsHeld`), for any pools, workers, items and limit. The
other half of the invariant, `ProgramInv`, follows the work: the wait group counts the workers
that have not returned (`WgCounts`), a worker that returned did so because its channel is closed
(`GoneIsClosed`), a closed channel has nothing left to send (`ClosedIsEmpty`), and every item is
pending until a worker of its pool takes it (`PendingIsQueued`, `TakenIsHeld`). So when
`wg.Wait()` returns there is nobody at work and nothing to hand out: `CorePublishes`, `Spec =>
[]PublishAfterAllWork`. A connection has an owner that is at work (`ConnOwners`), hence
`CoreLeavesNoConnection`. `CoreTypes` is type correctness. `CoreHandsOutOnce` is the action
property `HandledOnce`; its invariant `HandInv` says who has an item: the queue of its pool while
it is pending, one worker while it is taken. Assumptions, beside those of the provider:
`CoreAssumption`, of which one part matters, that every pool has a worker (the code starts 3, 5, 3
and 3 of them): with none, the wait group would not wait for the items of that pool; and
`ItemsAssumption`, that a broker, a topic and a JMX host are different things, for `HandledOnce`.

**ConsumerOffsetsProofs**, for any members, assignments, topics, lags, buffer and flags:
* `OffsetsNoSendAfterClose`. `WaitGroupsInv`: a wait group counts the goroutines that were
  started and have not ended, so at the close there are none; `PhasesInv` says that by then no
  further one is started.
* `OffsetsCountedOnce` and `OffsetsNoPartitionLost`. `PassesInv` gives each block to one of the
  two passes: to the members' if it is in an answer for a member's assignment, to the inactive
  one if its topic is in none of the answers. `VisitsInv` gives the reason for which the
  inactive pass may leave out a topic.
* `OffsetsPublishedComplete`. `LagsInv` says that a lag that was measured is in the channel, or
  counted, exactly if its goroutine is past that send; `RollupsInv` that the roll-ups are those of
  the lags received so far, in whatever order. A lag that arrives moves a total by `SumRemove`, a
  maximum by `GreatestExists`.
* `OffsetsImplementRollup`, step by step, `LagRollup!Next` or a stutter.

Assumptions: the eight at the head of the module, the important one being that no partition is
assigned to two members (`AssignmentAssumption`; the group protocol of Kafka).

**PartitionPoolProofs**, for any number of workers and partitions and any capacity of the
channels. `EndsInv`: each stage ends with its input closed and drained, and the wait group counts
the forwarders that have not ended; hence `PoolNoSendAfterClose`. `OnceInv`: the queues hold each
partition once; a step moves a head from one queue to the end of another or drops it, and one
lemma on families of queues does for each (`MoveKeeps`, `DropKeeps`). Hence `PoolEachPartitionOnce`
and, since the collection returns only when all stages are empty, `PoolResultIsComplete`.
Assumption: `PoolAssumption`.

**OffsetCacheProofs**, for any number of lookups, partitions and topics and any bound of the log. A
request is on its way only for the lookup that holds the mutex (`OwnersInv`) and only for what is
not in the cache (`EmptyInv`). So an entry is stored once, by the first answer, and what was given
is what is still there: `GivenInv`, hence `CacheSameMark`, and `CacheSameTopics`. A log does not
shrink at its end, so what was committed before a mark was stored does not pass it, and later
lookups find that same mark (`MarksInv`): `CacheLagNegativeOnlyIfStale`.

**ControllerChoiceProofs**, for any brokers, endpoints, arguments and number of elections, covers
`BrokerDiscovery` too, which it extends. What is left to connect to and what was found are lists
without repetitions (`ListsInv`) and nothing was tried out of turn (`TurnsInv`); so a bootstrap
discovery accounts for the whole answer (`BootstrapInv`: `DiscoveryAllOrNothing`,
`DiscoveryLocalOnlyAlone`) and a Zookeeper discovery for each endpoint it passed over
(`ZookeeperInv`: `DiscoveryFirstThatWorks`). What was counted is over the brokers asked, each once
(`AskedInv`), and whoever was counted was elected (`ElectedInv`): `ChoiceCountBounded`,
`ChoiceSteadyIsCounted`. With Zookeeper and no election nobody but the first controller was ever
elected, so the metadata names it or nobody and the sum is that of one broker:
`ChoiceStableClusterSample`. Assumptions: `DiscoveryAssumption`, `ElectionsAssumption`.

**TopicSelectionProofs**, for any set of topics, number of instances and limit: `NoTopicTwice`
(`Spec => []NeverTwice`), whatever the width of int, since a hash has one remainder; and
`NoTopicIsLost`, that nothing is lost when int has at least twice the values of the hash
(`WideInt`). That hypothesis is what the run `topic_buckets_32bit` lacks. The invariant
`SelectionInv` says that a listing taken by an instance holds every founding topic and that a
collection is exactly the share of its bucket, or empty. Assumption: `SelectionAssumption`.

**JmxSessionProofs**, for any tables of definitions, topics, clients, sessions and answers. A plan
is a concatenation of sequences, of which some depend on the order in which the code goes over
a map. The first half proves what each plan holds: `FlattenRange` (the members of a concatenation,
by `SuccessorInduction`), `BrokerPlanQueries` (the same queries in any order), `ClientsPlanQueries`,
`TopicPlanQueries`. The invariant: which queries can be left (`SessionTypes`), and every planned
query is left, failed, or answered and its usable numbers reported (`CoverInv`; those for the
topics of a producer come with the answer to the query for their names). `ValueOfUsable` says that
each of the functions sets a metric that got a usable number to the sum of its numbers. Hence
`SessionFailuresAreLocal` and `SessionTypeOK`. Assumption: `SessionAssumption`, of which one part
matters: `None` is no value.

**Only model-checked.** Liveness under fairness, which is out of the prover's reach:
`CollectionEnds`, `LookupsEnd`, `ProcessEnds`, `PipelineDrains`, `SessionEnds`. All safety and
action properties of the passing runs, and the refinement of `LagRollup`, are theorems.

## 5. Plan

Done: every module of the plan, and the theorems about all safety properties. Left: the parts of
liveness that are safety, such as a measure that every step of a goroutine decreases, and that
no state short of the end has only stuttering steps.

## 6. Not modelled

The tables of metric definitions, inventory texts, entity names and attributes (data and
formatting, no state); TLS, SASL and SCRAM set-up; the argument parser but for what changes
control; the Zookeeper wrapper; logging. The sarama client, the JMX tool and the semaphore are
external and modelled by how the code uses them. The several groups of one consumer-offset run
are not composed: they share the caches only, which `OffsetCache` checks with lookups of
several groups. The data race detector's domain (unsynchronised writes to metric sets) is not
visible at this level: every shared structure in the models is protected in the code by a
channel, a wait group or a mutex.
