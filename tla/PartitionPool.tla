--------------------------- MODULE PartitionPool ---------------------------
(***************************************************************************)
(* What a topic worker does for ONE topic: setTopicInfo describes it and   *)
(* builds a pipeline for its partitions, populateTopicMetrics counts what  *)
(* came out (topic/topic_collection.go, topic/partition_collection.go):    *)
(*                                                                         *)
(*   feeder -> in -> workers -> out[w] -> forwarders -> all -> collector   *)
(*                                                                         *)
(* Every arrow is a bounded Go channel and every stage but the collector   *)
(* is a goroutine of its own.  The feeder closes `in`, a worker closes its *)
(* own out channel when it ends, a closer closes `all` once the wait group *)
(* of the forwarders is at zero, and the collector returns when `all` is   *)
(* closed and drained.  The wait group of the workers themselves           *)
(* (topic_collection.go:254) is never waited for and has no state here.    *)
(*                                                                         *)
(* A worker asks the client for the leader and for three replica lists; the *)
(* first error drops the partition, so the four answers are one choice.    *)
(***************************************************************************)
EXTENDS Naturals, Sequences, FiniteSets, SequencesExt

CONSTANTS
    Workers,     \* the worker goroutines (poolSize, 50 in the code)
    Counts,      \* the partition counts the client may report for the topic
    InCap,       \* capacity of the in channel (20)
    OutCap,      \* capacity of each out channel (20)
    AllCap,      \* capacity of partitionCollectChan (1)
    NonPreferred,    \* partitions whose leader is not their first replica
    UnderReplicated, \* partitions with fewer in-sync replicas than replicas
    ReplicasOf       \* how many replicas each partition has

ASSUME PoolAssumption ==
    /\ IsFiniteSet(Workers) /\ Workers # {}
    /\ Counts \subseteq Nat
    /\ {InCap, OutCap, AllCap} \subseteq Nat \ {0}
    /\ NonPreferred \subseteq Nat /\ UnderReplicated \subseteq Nat
    /\ \A c \in Counts : 0 .. c - 1 \subseteq DOMAIN ReplicasOf

VARIABLES
    topic,       \* the topic worker: "describe", "collect", "metrics", "done", "failed" or "panicked"
    sample,      \* what is reported of the topic, as a sequence of 0 or 1: its
                 \* partition scheme (inventory) and its KafkaTopicSample
    feeder,      \* "ask", "send" or "closed" (in is closed)
    count,       \* how many partitions the client has reported
    toFeed,      \* the indices the feeder has still to send, in order
    in,          \* partitionInChan
    worker,      \* worker goroutine: "receive", "lookup", "send" or "ended" (out[w] is closed)
    held,        \* the partition index a worker holds, as a sequence of 0 or 1
    out,         \* out[w]: the worker's own partitionOutChan
    fwd,         \* forwarder of out[w]: "receive", "send" or "ended"
    carried,     \* the partition a forwarder holds, as a sequence of 0 or 1
    wg,          \* the wait group of the forwarders
    all,         \* partitionCollectChan
    allClosed,   \* it has been closed
    result,      \* outPartitions of the collector
    returned,    \* collectPartitions has returned
    dropped      \* history: the indices whose lookup failed

vars == <<topic, sample, feeder, count, toFeed, in, worker, held, out, fwd, carried, wg, all,
          allClosed, result, returned, dropped>>

Indices == UNION {0 .. c - 1 : c \in Counts}
AtMost(n, s) == Len(s) <= n /\ Range(s) \subseteq Indices

TypeOK ==
    /\ topic \in {"describe", "collect", "metrics", "done", "failed", "panicked"}
    /\ Len(sample) = IF topic = "done" THEN 1 ELSE 0
    /\ feeder \in {"ask", "send", "closed"}
    /\ count \in Counts \cup {0}
    /\ Range(toFeed) \subseteq Indices
    /\ AtMost(InCap, in)
    /\ worker \in [Workers -> {"receive", "lookup", "send", "ended"}]
    /\ \A w \in Workers : AtMost(1, held[w]) /\ AtMost(1, carried[w]) /\ AtMost(OutCap, out[w])
    /\ fwd \in [Workers -> {"receive", "send", "ended"}]
    /\ wg \in 0 .. Cardinality(Workers)
    /\ AtMost(AllCap, all)
    /\ {allClosed, returned} \subseteq BOOLEAN
    /\ Range(result) \subseteq Indices
    /\ dropped \subseteq Indices

Init ==
    /\ topic = "describe" /\ sample = <<>>
    /\ feeder = "ask" /\ count = 0 /\ toFeed = <<>> /\ in = <<>>
    /\ worker = [w \in Workers |-> "receive"]
    /\ held = [w \in Workers |-> <<>>]
    /\ out = [w \in Workers |-> <<>>]
    /\ fwd = [w \in Workers |-> "receive"]
    /\ carried = [w \in Workers |-> <<>>]
    /\ wg = Cardinality(Workers)
    /\ all = <<>> /\ allClosed = FALSE
    /\ result = <<>> /\ returned = FALSE
    /\ dropped = {}

workerVars    == <<worker, held, out, dropped>>
forwarderVars == <<fwd, carried, wg>>
collectorVars == <<allClosed, result, returned>>
feederVars    == <<feeder, count, toFeed>>
pipelineVars  == <<feederVars, in, all, workerVars, forwarderVars, collectorVars>>
topicVars     == <<topic, sample>>

-----------------------------------------------------------------------------
(* setTopicInfo, up to the pipeline *)

\* The controller is known and describes the topic's configuration.
Describe ==
    /\ topic = "describe"
    /\ topic' = "collect"
    /\ UNCHANGED <<sample, pipelineVars>>

\* No controller, no answer, or not one resource in it: "Unable to set topic data"
DescribeFails ==
    /\ topic = "describe"
    /\ topic' = "failed"
    /\ UNCHANGED <<sample, pipelineVars>>

-----------------------------------------------------------------------------
(* feedPartitionPool *)

\* client.Partitions answers with c partitions; an error leaves the list empty.
\* The loop ranges over the INDICES of the list, which it uses as partition ids.
AskPartitions(c) ==
    /\ feeder = "ask" /\ topic = "collect"
    /\ feeder' = "send"
    /\ count' = c
    /\ toFeed' = [k \in 1 .. c |-> k - 1]
    /\ UNCHANGED <<topicVars, in, all, workerVars, forwarderVars, collectorVars>>

Feed ==
    /\ feeder = "send" /\ toFeed # <<>>
    /\ Len(in) < InCap
    /\ in' = Append(in, Head(toFeed))
    /\ toFeed' = Tail(toFeed)
    /\ UNCHANGED <<topicVars, feeder, count, all, workerVars, forwarderVars, collectorVars>>

\* the deferred close(partitionInChan)
CloseIn ==
    /\ feeder = "send" /\ toFeed = <<>>
    /\ feeder' = "closed"
    /\ UNCHANGED <<topicVars, count, toFeed, in, all, workerVars, forwarderVars, collectorVars>>

-----------------------------------------------------------------------------
(* partitionWorker *)

WorkerReceive(w) ==
    /\ worker[w] = "receive" /\ in # <<>>
    /\ held' = [held EXCEPT ![w] = <<Head(in)>>]
    /\ in' = Tail(in)
    /\ worker' = [worker EXCEPT ![w] = "lookup"]
    /\ UNCHANGED <<topicVars, feederVars, out, dropped, all, forwarderVars, collectorVars>>

\* leader, in-sync, offline and assigned replicas are all there
LookupSucceeds(w) ==
    /\ worker[w] = "lookup"
    /\ worker' = [worker EXCEPT ![w] = "send"]
    /\ UNCHANGED <<topicVars, feederVars, in, held, out, dropped, all, forwarderVars, collectorVars>>

\* Mutant: `continue` forgotten after a failed lookup
LookupFails_NoContinue(w) ==
    /\ worker[w] = "lookup"
    /\ worker' = [worker EXCEPT ![w] = "send"]
    /\ dropped' = dropped \cup Range(held[w])
    /\ UNCHANGED <<topicVars, feederVars, in, held, out, all, forwarderVars, collectorVars>>

\* one of the four failed: log and continue with the next partition
LookupFails(w) ==
    /\ worker[w] = "lookup"
    /\ worker' = [worker EXCEPT ![w] = "receive"]
    /\ dropped' = dropped \cup Range(held[w])
    /\ held' = [held EXCEPT ![w] = <<>>]
    /\ UNCHANGED <<topicVars, feederVars, in, out, all, forwarderVars, collectorVars>>

WorkerSend(w) ==
    /\ worker[w] = "send" /\ Len(out[w]) < OutCap
    /\ out' = [out EXCEPT ![w] = @ \o held[w]]
    /\ held' = [held EXCEPT ![w] = <<>>]
    /\ worker' = [worker EXCEPT ![w] = "receive"]
    /\ UNCHANGED <<topicVars, feederVars, in, dropped, all, forwarderVars, collectorVars>>

\* A receive from a closed channel fails only once its buffer is drained.  The
\* worker returns and its deferred close(partitionOutChan) runs.
WorkerEnds(w) ==
    /\ worker[w] = "receive" /\ in = <<>> /\ feeder = "closed"
    /\ worker' = [worker EXCEPT ![w] = "ended"]
    /\ UNCHANGED <<topicVars, feederVars, in, held, out, dropped, all, forwarderVars, collectorVars>>

-----------------------------------------------------------------------------
(* collectPartitions: one forwarder per out channel, a closer, the caller *)

ForwarderReceive(w) ==
    /\ fwd[w] = "receive" /\ out[w] # <<>>
    /\ carried' = [carried EXCEPT ![w] = <<Head(out[w])>>]
    /\ out' = [out EXCEPT ![w] = Tail(@)]
    /\ fwd' = [fwd EXCEPT ![w] = "send"]
    /\ UNCHANGED <<topicVars, feederVars, in, worker, held, dropped, wg, all, collectorVars>>

\* Mutant: wg.Done() after every partition instead of at the end
ForwarderSend_Done(w) ==
    /\ fwd[w] = "send" /\ Len(all) < AllCap
    /\ all' = all \o carried[w]
    /\ carried' = [carried EXCEPT ![w] = <<>>]
    /\ fwd' = [fwd EXCEPT ![w] = "receive"]
    /\ wg' = wg - 1
    /\ UNCHANGED <<topicVars, feederVars, in, workerVars, collectorVars>>

ForwarderSend(w) ==
    /\ fwd[w] = "send" /\ Len(all) < AllCap
    /\ all' = all \o carried[w]
    /\ carried' = [carried EXCEPT ![w] = <<>>]
    /\ fwd' = [fwd EXCEPT ![w] = "receive"]
    /\ UNCHANGED <<topicVars, feederVars, in, wg, workerVars, collectorVars>>

\* Mutant: the early return skips wg.Done()
ForwarderEnds_NoDone(w) ==
    /\ fwd[w] = "receive" /\ out[w] = <<>> /\ worker[w] = "ended"
    /\ fwd' = [fwd EXCEPT ![w] = "ended"]
    /\ UNCHANGED <<topicVars, feederVars, in, all, carried, wg, workerVars, collectorVars>>

\* out[w] is closed and drained: return, with the deferred wg.Done()
ForwarderEnds(w) ==
    /\ fwd[w] = "receive" /\ out[w] = <<>> /\ worker[w] = "ended"
    /\ fwd' = [fwd EXCEPT ![w] = "ended"]
    /\ wg' = wg - 1
    /\ UNCHANGED <<topicVars, feederVars, in, all, carried, workerVars, collectorVars>>

\* Mutant: the closer waits for one forwarder only
CloseAll_AfterFirst ==
    /\ wg < Cardinality(Workers) /\ ~allClosed
    /\ allClosed' = TRUE
    /\ UNCHANGED <<topicVars, feederVars, in, all, result, returned, workerVars, forwarderVars>>

\* wg.Wait() returns, close(partitionCollectChan)
CloseAll ==
    /\ wg = 0 /\ ~allClosed
    /\ allClosed' = TRUE
    /\ UNCHANGED <<topicVars, feederVars, in, all, result, returned, workerVars, forwarderVars>>

Collect ==
    /\ ~returned /\ all # <<>>
    /\ result' = Append(result, Head(all))
    /\ all' = Tail(all)
    /\ UNCHANGED <<topicVars, feederVars, in, allClosed, returned, workerVars, forwarderVars>>

\* Mutant: the close is noticed before the buffer is drained
CollectReturns_Undrained ==
    /\ ~returned /\ allClosed
    /\ returned' = TRUE
    /\ topic' = "metrics"
    /\ UNCHANGED <<sample, feederVars, in, all, allClosed, result, workerVars, forwarderVars>>

CollectReturns ==
    /\ ~returned /\ all = <<>> /\ allClosed
    /\ returned' = TRUE
    /\ topic' = "metrics"
    /\ UNCHANGED <<sample, feederVars, in, all, allClosed, result, workerVars, forwarderVars>>

-----------------------------------------------------------------------------
(* populateTopicMetrics, over t.Partitions = result *)

PartitionsIn(S) == Cardinality({j \in DOMAIN result : result[j] \in S})

\* The controller is asked for the topic's metadata: it answers or fails.
Populate ==
    /\ topic = "metrics"
    /\ \E responds \in {0, 1} :
         sample' = <<[partitionCount    |-> Len(result),
                      replicationFactor |-> IF result = <<>> THEN 0 ELSE ReplicasOf[result[1]],
                      nonPreferred      |-> PartitionsIn(NonPreferred),
                      underReplicated   |-> PartitionsIn(UnderReplicated),
                      responds          |-> responds]>>
    /\ topic' = "done"
    /\ UNCHANGED pipelineVars

\* client.Controller fails: the nil broker is asked all the same.
PopulatePanics ==
    /\ topic = "metrics"
    /\ topic' = "panicked"
    /\ UNCHANGED <<sample, pipelineVars>>

-----------------------------------------------------------------------------
TopicWorker  == Describe \/ DescribeFails \/ Populate \/ PopulatePanics
Feeder       == (\E c \in Counts \cup {0} : AskPartitions(c)) \/ Feed \/ CloseIn
Worker(w)    == \/ WorkerReceive(w) \/ LookupSucceeds(w) \/ LookupFails(w)
                \/ WorkerSend(w) \/ WorkerEnds(w)
Forwarder(w) == ForwarderReceive(w) \/ ForwarderSend(w) \/ ForwarderEnds(w)
Collector    == Collect \/ CollectReturns

Next == TopicWorker \/ Feeder \/ CloseAll \/ Collector \/ \E w \in Workers : Worker(w) \/ Forwarder(w)

Spec == Init /\ [][Next]_vars

\* Every goroutine is scheduled and every request of the client returns (sarama
\* has a timeout on each).
FairSpec ==
    /\ Spec
    /\ WF_vars(TopicWorker) /\ WF_vars(Feeder) /\ WF_vars(CloseAll) /\ WF_vars(Collector)
    /\ \A w \in Workers : WF_vars(Worker(w)) /\ WF_vars(Forwarder(w))

-----------------------------------------------------------------------------
\* No goroutine ever sends on a channel that is closed (a panic in Go): the
\* close of partitionCollectChan (partition_collection.go:95) comes after the
\* last send of every forwarder, whichever of them ends last.
NoSendAfterClose ==
    allClosed => \A w \in Workers : fwd[w] # "send" /\ out[w] = <<>> /\ worker[w] = "ended"

\* Nothing is lost or doubled on the way: at every moment each partition the
\* client reported is in exactly one place of the pipeline, collected or dropped
\* for a failed lookup (partition_collection.go:103-150).
Common == {"toFeed", "in", "all", "result"} \X {"pipeline"}
Own == {"held", "out", "carried"} \X Workers
Places == Common \cup Own
Queue(p) ==
    CASE p[1] = "toFeed"  -> toFeed
      [] p[1] = "in"      -> in
      [] p[1] = "held"    -> held[p[2]]
      [] p[1] = "out"     -> out[p[2]]
      [] p[1] = "carried" -> carried[p[2]]
      [] p[1] = "all"     -> all
      [] p[1] = "result"  -> result
Spots(k) == UNION {{p} \X {j \in DOMAIN Queue(p) : Queue(p)[j] = k} : p \in Places}
EachPartitionOnce ==
    \A k \in 0 .. count - 1 : Cardinality(Spots(k)) = IF k \in dropped THEN 0 ELSE 1

\* The counts published for a topic are over exactly the partitions whose
\* lookups succeeded, whatever order they arrived in (topic_collection.go:158-199,
\* 256-268): a partition without leader or replicas is in none of them, the count
\* of under-replicated partitions included, and the replication factor is that of
\* a partition that is.
ResultIsComplete ==
    LET kept == (0 .. count - 1) \ dropped
    IN  /\ returned => feeder = "closed" /\ IsInjective(result) /\ Range(result) = kept
        /\ \A j \in DOMAIN sample :
              /\ sample[j].partitionCount = Cardinality(kept)
              /\ sample[j].nonPreferred = Cardinality(kept \cap NonPreferred)
              /\ sample[j].underReplicated = Cardinality(kept \cap UnderReplicated)
              /\ sample[j].replicationFactor \in
                    IF kept = {} THEN {0} ELSE {ReplicasOf[p] : p \in kept}

\* The topic worker gets to the end of the topic, unless it fails before the
\* pipeline or panics after it, and no goroutine of the pipeline outlives the
\* collection, however full the channels get.
PipelineDrains ==
    <>(\/ topic = "failed"
       \/ /\ topic \in {"done", "panicked"}
          /\ feeder = "closed" /\ \A w \in Workers : worker[w] = "ended" /\ fwd[w] = "ended")
=============================================================================
