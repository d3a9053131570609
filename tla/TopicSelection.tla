-------------------------- MODULE TopicSelection --------------------------
(***************************************************************************)
(* How several instances of the integration split the topics of a cluster  *)
(* among them: GetTopics (topic/topic_collection.go), topic_bucket          *)
(* (args/parsed_args.go), filterTopicsByBucket and enforceTopicLimit        *)
(* (kafka.go).  Each instance lists the topics by itself, at its own time,  *)
(* while topics are being created, keeps those whose hash falls in its      *)
(* bucket, and drops everything when they are too many.                     *)
(*                                                                         *)
(* The hash is a constant of the topic name, chosen in Init.  The number of *)
(* values of the hash (fnv32) and of Go's int, 32 or 64 bits wide with the  *)
(* target, are HashSize and IntSize; the runs scale them down.  With        *)
(* topic_mode "list" or "none" the listing is the configured one: the       *)
(* behaviours in which no topic is created.                                 *)
(***************************************************************************)
EXTENDS Integers, FiniteSets

CONSTANTS
    Topics,      \* the topics that match topic_mode, topic_list and topic_regex
    HashSize,    \* number of values of the hash (2^32)
    IntSize,     \* number of values of int (2^32 on 386 and arm, 2^64 elsewhere)
    MaxBuckets,  \* bound on the number of instances
    MaxTopics    \* maxTopics (10000)

ASSUME SelectionAssumption ==
    /\ IsFiniteSet(Topics)
    /\ {HashSize, IntSize} \subseteq Nat \ {0} /\ IntSize >= HashSize
    /\ MaxBuckets \in Nat \ {0}
    /\ MaxTopics \in Nat

VARIABLES
    hash,        \* Sum32 of each topic's name
    numBuckets,  \* the second number of topic_bucket, the same for every instance
    existing,    \* the topics created so far
    founding,    \* history: the topics that existed when the instances started
    phase,       \* phase[i]: "start", "listed", "collecting" or "failed" (to list)
    listed,      \* what GetTopics returned to instance i
    collected    \* collectedTopics of instance i

vars == <<hash, numBuckets, existing, founding, phase, listed, collected>>

\* ParseArgs rejects a bucket number outside 1 .. numBuckets, and the operators
\* start one instance for each.
Instances == 1 .. numBuckets

TypeOK ==
    /\ hash \in [Topics -> 0 .. HashSize - 1]
    /\ numBuckets \in 1 .. MaxBuckets
    /\ founding \subseteq existing /\ existing \subseteq Topics
    /\ phase \in [Instances -> {"start", "listed", "collecting", "failed"}]
    /\ listed \in [Instances -> SUBSET Topics]
    /\ \A i \in Instances :
          collected[i] \subseteq listed[i] /\ Cardinality(collected[i]) <= MaxTopics

Init ==
    /\ hash \in [Topics -> 0 .. HashSize - 1]
    /\ numBuckets \in 1 .. MaxBuckets
    /\ existing \in SUBSET Topics
    /\ founding = existing
    /\ phase = [i \in Instances |-> "start"]
    /\ listed = [i \in Instances |-> {}]
    /\ collected = [i \in Instances |-> {}]

-----------------------------------------------------------------------------
\* int(h.Sum32()): two's complement when the hash fills the int
ToInt(u) == IF 2 * u >= IntSize THEN u - IntSize ELSE u

\* Go's %: the remainder has the sign of the dividend
Rem(a, n) == IF a < 0 THEN -((-a) % n) ELSE a % n

\* Mutant: the buckets are numbered from 0
InBucket_FromZero(t, i) == Rem(ToInt(hash[t]), numBuckets) = i

\* the condition of filterTopicsByBucket
InBucket(t, i) == Rem(ToInt(hash[t]), numBuckets) + 1 = i

\* Mutant: an instance takes the buckets below its own as well
FilterByBucket_UpTo(i) == {t \in listed[i] : Rem(ToInt(hash[t]), numBuckets) + 1 <= i}

FilterByBucket(i) == {t \in listed[i] : InBucket(t, i)}

\* Mutant: one topic more than the limit is let through
TooMany_OffByOne(i) == Cardinality(FilterByBucket(i)) > MaxTopics + 1

\* the condition of enforceTopicLimit, on the topics of the bucket
TooMany(i) == Cardinality(FilterByBucket(i)) > MaxTopics

\* A topic is created on the cluster.
CreateTopic(t) ==
    /\ t \notin existing
    /\ existing' = existing \cup {t}
    /\ UNCHANGED <<hash, numBuckets, founding, phase, listed, collected>>

\* GetTopics asks the cluster for its topics.
ListTopics(i) ==
    /\ phase[i] = "start"
    /\ phase' = [phase EXCEPT ![i] = "listed"]
    /\ listed' = [listed EXCEPT ![i] = existing]
    /\ UNCHANGED <<hash, numBuckets, existing, founding, collected>>

\* GetTopics fails: coreCollection logs it and goes on with no topics.
ListTopicsFails(i) ==
    /\ phase[i] = "start"
    /\ phase' = [phase EXCEPT ![i] = "failed"]
    /\ UNCHANGED <<hash, numBuckets, existing, founding, listed, collected>>

\* filterTopicsByBucket, then enforceTopicLimit
SelectTopics(i) ==
    /\ phase[i] = "listed"
    /\ phase' = [phase EXCEPT ![i] = "collecting"]
    /\ collected' = [collected EXCEPT ![i] = IF TooMany(i) THEN {} ELSE FilterByBucket(i)]
    /\ UNCHANGED <<hash, numBuckets, existing, founding, listed>>

Next ==
    \/ \E t \in Topics : CreateTopic(t)
    \/ \E i \in Instances : ListTopics(i) \/ ListTopicsFails(i) \/ SelectTopics(i)

Spec == Init /\ [][Next]_vars

-----------------------------------------------------------------------------
\* No topic is reported twice: whatever the instances saw of the cluster and
\* whenever they listed it, two of them never collect the same topic
\* (kafka.go:369).
NeverTwice ==
    \A i, j \in Instances : i # j => collected[i] \cap collected[j] = {}

\* topic_bucket partitions the collection (args/args.go:76): once every instance
\* has listed the topics, each topic that was there from the start is collected by
\* one of them, unless the instance of its own bucket has more than maxTopics to
\* collect.  Topics of other buckets never push a topic over the limit.
OverLimit(i) == Cardinality({t \in listed[i] : InBucket(t, i)}) > MaxTopics
NoTopicLost ==
    (\A i \in Instances : phase[i] = "collecting") =>
        \A t \in founding : \E i \in Instances :
            InBucket(t, i) /\ (t \in collected[i] \/ OverLimit(i))
===========================================================================
