--------------------------- MODULE MCCoreCollection ---------------------------
(* Two broker workers with two brokers, one worker for each other pool, one   *)
(* topic and one consumer, and one JMX connection between all of them and the *)
(* main goroutine.  The producer pool has nothing to do but to end.           *)
EXTENDS CoreCollection, TLC

CONSTANTS b1, b2, t1, c1, wb1, wb2, wt1, wc1, wp1

MCPoolOf == wb1 :> "broker" @@ wb2 :> "broker" @@ wt1 :> "topic"
            @@ wc1 :> "consumer" @@ wp1 :> "producer"

\* A local collection with cluster metrics; topics from Kafka; topics from
\* ZooKeeper, by regex and as a list; inventory only; no brokers at all.
Local == [collectBrokers |-> TRUE, topicPool |-> FALSE, clusterMetrics |-> TRUE,
          hasMetrics |-> TRUE, zkTopics |-> FALSE, listMode |-> FALSE]
WithTopics == [Local EXCEPT !.topicPool = TRUE, !.clusterMetrics = FALSE]
MCConfigs ==
    { Local,
      [WithTopics EXCEPT !.zkTopics = TRUE],
      [Local EXCEPT !.clusterMetrics = FALSE, !.zkTopics = TRUE, !.listMode = TRUE],
      [WithTopics EXCEPT !.hasMetrics = FALSE],
      [Local EXCEPT !.collectBrokers = FALSE] }
==============================================================================
