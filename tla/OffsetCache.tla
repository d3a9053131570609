----------------------------- MODULE OffsetCache -----------------------------
(***************************************************************************)
(* SaramaTopicOffsetGetter and CAdminConsumerGroupTopicLister: the two      *)
(* caches that the consumer groups of one run share, each behind a mutex.   *)
(*                                                                          *)
(* A lookup is what one partition goroutine does: it has the committed      *)
(* offset of its group, asks for the high water mark of the partition and,  *)
(* when extended metrics are asked for, for its log start offset.  An       *)
(* inactive lookup stands for the inactive pass of a group: it first lists  *)
(* the topics of the cluster, with the other cache.                         *)
(* Meanwhile topics are created, producers append, retention truncates, and  *)
(* groups commit.                                                           *)
(*                                                                          *)
(* A call that finds its entry locks, reads and unlocks in one step.  One   *)
(* that does not keeps the mutex over its request to the broker: the answer *)
(* is a step of its own, chosen from the state of the broker at that        *)
(* moment, and the request may fail.                                        *)
(***************************************************************************)
EXTENDS Integers, FiniteSets

CONSTANTS
    Partitions,      \* topic partitions
    Lookups,         \* partition goroutines, of all groups
    PartitionOf,     \* the partition each of them measures
    InactiveLookups, \* those of partitions no member consumes
    CollectConsumerOffsetExtendedMetrics,   \* flag of the same name
    Topics,          \* topics that may be created meanwhile
    MaxOffset,       \* bound on the length of a log
    Nobody,          \* owner of a free mutex
    NoTopic          \* stands for the map that is nil

ASSUME LookupAssumption ==
    PartitionOf \in [Lookups -> Partitions] /\ InactiveLookups \subseteq Lookups
ASSUME NobodyAssumption == Nobody \notin Lookups
ASSUME NoTopicAssumption == NoTopic \notin Topics
ASSUME MaxOffsetAssumption == MaxOffset \in Nat
ASSUME FlagAssumption == CollectConsumerOffsetExtendedMetrics \in BOOLEAN

Kinds == {"newest", "oldest"}
Keys == Kinds \X Partitions

NoOffset == -1          \* kfkNoOffset, and what sarama returns with an error
Uncached == -2          \* no entry in the cache: not a value of the program
Unknown  == -3          \* a local variable not yet assigned
Offsets == 0 .. MaxOffset

Nil == {NoTopic}        \* no list of topics: not the empty one

VARIABLES
    hwm,          \* broker: high water mark of each partition
    logStart,     \* broker: log start offset of each partition
    topics,       \* cluster: those of Topics that have been created
    cache,        \* topicPartitionOffset and topicPartitionEarliestOffset
    mux,          \* who holds the mutex of the getter
    topicCache,   \* topicCache of the lister
    listMux,      \* who holds the mutex of the lister
    pc,           \* the call each lookup makes, or is about to
    asking,       \* lookups whose request is on its way
    committed,    \* block.Offset of each lookup
    result,       \* value each lookup was given, per kind
    listed,       \* list of topics each lookup was given
    early         \* history: lookups that had what is committed when the mark
                  \* of their partition was stored

brokerVars == <<hwm, logStart, topics>>
listerVars == <<topicCache, listMux, listed>>
getterVars == <<cache, mux, result, early>>
vars == <<brokerVars, getterVars, listerVars, pc, asking, committed>>

Init ==
    /\ hwm \in [Partitions -> Offsets]
    /\ logStart = [p \in Partitions |-> 0]
    /\ topics = {}
    /\ cache = [k \in Keys |-> Uncached]
    /\ mux = Nobody
    /\ topicCache = Nil
    /\ listMux = Nobody
    /\ pc = [l \in Lookups |-> IF l \in InactiveLookups THEN "listTopics" ELSE "fetchCommitted"]
    /\ asking = {}
    /\ committed = [l \in Lookups |-> Unknown]
    /\ result = [l \in Lookups |-> [k \in Kinds |-> Unknown]]
    /\ listed = [l \in Lookups |-> Nil]
    /\ early = {}

-----------------------------------------------------------------------------
(* The broker (bound: MaxOffset).                                           *)

Append(p) ==
    /\ hwm[p] < MaxOffset
    /\ hwm' = [hwm EXCEPT ![p] = @ + 1]
    /\ UNCHANGED <<logStart, topics, getterVars, listerVars, pc, asking, committed>>

Truncate(p) ==
    /\ logStart[p] < hwm[p]
    /\ logStart' = [logStart EXCEPT ![p] = @ + 1]
    /\ UNCHANGED <<hwm, topics, getterVars, listerVars, pc, asking, committed>>

\* A topic is created.
CreateTopic(t) ==
    /\ t \notin topics
    /\ topics' = topics \cup {t}
    /\ UNCHANGED <<hwm, logStart, getterVars, listerVars, pc, asking, committed>>

-----------------------------------------------------------------------------
(* ListTopics of the lister, by the lookups nobody consumes for.            *)

\* The cache is not nil.
ListCached(l) ==
    /\ pc[l] = "listTopics"
    /\ listMux = Nobody /\ topicCache # Nil
    /\ listed' = [listed EXCEPT ![l] = topicCache]
    /\ pc' = [pc EXCEPT ![l] = "fetchCommitted"]
    /\ UNCHANGED <<brokerVars, getterVars, topicCache, listMux, asking, committed>>

\* Mutant: the cache is read without the mutex.
AskTopics_Unlocked(l) ==
    /\ pc[l] = "listTopics" /\ l \notin asking
    /\ topicCache = Nil
    /\ listMux' = l
    /\ asking' = asking \cup {l}
    /\ UNCHANGED <<brokerVars, getterVars, topicCache, listed, pc, committed>>

\* The cache is nil: the cluster is asked, with the mutex held.
AskTopics(l) ==
    /\ pc[l] = "listTopics" /\ l \notin asking
    /\ listMux = Nobody /\ topicCache = Nil
    /\ listMux' = l
    /\ asking' = asking \cup {l}
    /\ UNCHANGED <<brokerVars, getterVars, topicCache, listed, pc, committed>>

Listing(l) == pc[l] = "listTopics" /\ l \in asking

TopicsAnswered(l) ==
    /\ Listing(l)
    /\ topicCache' = topics
    /\ listed' = [listed EXCEPT ![l] = topics]
    /\ listMux' = Nobody
    /\ asking' = asking \ {l}
    /\ pc' = [pc EXCEPT ![l] = "fetchCommitted"]
    /\ UNCHANGED <<brokerVars, getterVars, committed>>

\* The nil that comes with the error is stored, and the group has no inactive
\* pass.
ListFails(l) ==
    /\ Listing(l)
    /\ topicCache' = Nil
    /\ listMux' = Nobody
    /\ asking' = asking \ {l}
    /\ pc' = [pc EXCEPT ![l] = "done"]
    /\ UNCHANGED <<brokerVars, getterVars, listed, committed>>

-----------------------------------------------------------------------------
(* One lookup.                                                              *)

Key(l, kind) == <<kind, PartitionOf[l]>>

\* ListConsumerGroupOffsets: an offset the group has committed, or none.
\* An inactive partition without one is not looked up.
FetchCommitted(l) ==
    /\ pc[l] = "fetchCommitted"
    /\ \E o \in {NoOffset} \cup 0 .. hwm[PartitionOf[l]] :
        /\ committed' = [committed EXCEPT ![l] = o]
        /\ pc' = [pc EXCEPT ![l] =
                    IF l \in InactiveLookups /\ o = NoOffset THEN "done" ELSE "newest"]
    /\ UNCHANGED <<brokerVars, listerVars, getterVars, asking>>

\* Mutant: an inactive lookup, or one without an offset, goes on as well.
AfterLookup_Always(l, kind, ok) ==
    IF kind = "newest" /\ ok /\ CollectConsumerOffsetExtendedMetrics THEN "oldest" ELSE "done"

\* After the high water mark an active lookup that has a lag may go on to the
\* log start offset.
AfterLookup(l, kind, ok) ==
    IF /\ kind = "newest" /\ ok
       /\ l \notin InactiveLookups
       /\ committed[l] # NoOffset
       /\ CollectConsumerOffsetExtendedMetrics
    THEN "oldest" ELSE "done"

\* cachedOffset finds the key.
Hit(l, kind) ==
    /\ pc[l] = kind
    /\ mux = Nobody /\ cache[Key(l, kind)] # Uncached
    /\ result' = [result EXCEPT ![l][kind] = cache[Key(l, kind)]]
    /\ pc' = [pc EXCEPT ![l] = AfterLookup(l, kind, TRUE)]
    /\ UNCHANGED <<brokerVars, listerVars, cache, mux, early, asking, committed>>

\* Mutant: the cache is read without the mutex.
Ask_Unlocked(l, kind) ==
    /\ pc[l] = kind /\ l \notin asking
    /\ cache[Key(l, kind)] = Uncached
    /\ mux' = l
    /\ asking' = asking \cup {l}
    /\ UNCHANGED <<brokerVars, listerVars, cache, result, early, pc, committed>>

\* cachedOffset misses: GetOffset is called, with the mutex held.
Ask(l, kind) ==
    /\ pc[l] = kind /\ l \notin asking
    /\ mux = Nobody /\ cache[Key(l, kind)] = Uncached
    /\ mux' = l
    /\ asking' = asking \cup {l}
    /\ UNCHANGED <<brokerVars, listerVars, cache, result, early, pc, committed>>

Asking(l, kind) == pc[l] = kind /\ l \in asking

\* Mutant: the log start for the mark.
AnswerOf_Oldest(kind, p) == logStart[p]

\* The answer of the broker at this moment.
AnswerOf(kind, p) == IF kind = "newest" THEN hwm[p] ELSE logStart[p]

HaveCommitted(p) == {l \in Lookups : PartitionOf[l] = p /\ committed[l] # Unknown}

\* The answer is stored and returned.
Answer(l, kind) ==
    /\ Asking(l, kind)
    /\ cache' = [cache EXCEPT ![Key(l, kind)] = AnswerOf(kind, PartitionOf[l])]
    /\ result' = [result EXCEPT ![l][kind] = AnswerOf(kind, PartitionOf[l])]
    /\ early' = IF kind = "newest" THEN early \cup HaveCommitted(PartitionOf[l]) ELSE early
    /\ mux' = Nobody
    /\ asking' = asking \ {l}
    /\ pc' = [pc EXCEPT ![l] = AfterLookup(l, kind, TRUE)]
    /\ UNCHANGED <<brokerVars, listerVars, committed>>

\* Mutant: the mutex stays locked when the request fails.
AnswerFails_KeepsMutex(l, kind) ==
    /\ Asking(l, kind)
    /\ cache' = [cache EXCEPT ![Key(l, kind)] = NoOffset]
    /\ asking' = asking \ {l}
    /\ pc' = [pc EXCEPT ![l] = AfterLookup(l, kind, FALSE)]
    /\ UNCHANGED <<brokerVars, listerVars, mux, result, early, committed>>

\* GetOffset fails: the value that came with the error is stored all the same,
\* and the error is returned to this caller.
AnswerFails(l, kind) ==
    /\ Asking(l, kind)
    /\ cache' = [cache EXCEPT ![Key(l, kind)] = NoOffset]
    /\ mux' = Nobody
    /\ asking' = asking \ {l}
    /\ pc' = [pc EXCEPT ![l] = AfterLookup(l, kind, FALSE)]
    /\ UNCHANGED <<brokerVars, listerVars, result, early, committed>>

Lookup(l) ==
    \/ ListCached(l) \/ AskTopics(l) \/ TopicsAnswered(l) \/ ListFails(l)
    \/ FetchCommitted(l)
    \/ \E kind \in Kinds : Hit(l, kind) \/ Ask(l, kind) \/ Answer(l, kind) \/ AnswerFails(l, kind)

-----------------------------------------------------------------------------
AllDone == \A l \in Lookups : pc[l] = "done"
Rest == AllDone /\ UNCHANGED vars

Next ==
    \/ \E p \in Partitions : Append(p) \/ Truncate(p)
    \/ \E t \in Topics : CreateTopic(t)
    \/ \E l \in Lookups : Lookup(l)
    \/ Rest

Spec == Init /\ [][Next]_vars

\* While a goroutine can go on some goroutine does, and every request is answered
\* or fails.  That the mutex starves no waiter need not be assumed: each goroutine
\* has finitely many steps.
Fairness == WF_vars(\E l \in Lookups : Lookup(l))
FairSpec == Spec /\ Fairness

-----------------------------------------------------------------------------
(* Properties.                                                              *)

\* Types; the log start is asked for only by an active lookup that has a lag
\* (kafka_offset_collect.go:187-207).
TypeOK ==
    /\ hwm \in [Partitions -> Offsets]
    /\ logStart \in [Partitions -> Offsets]
    /\ topics \subseteq Topics
    /\ cache \in [Keys -> Offsets \cup {NoOffset, Uncached}]
    /\ mux \in Lookups \cup {Nobody}
    /\ topicCache \in {Nil} \cup SUBSET Topics
    /\ listMux \in Lookups \cup {Nobody}
    /\ pc \in [Lookups -> Kinds \cup {"listTopics", "fetchCommitted", "done"}]
    /\ \A l \in Lookups : pc[l] = "oldest" => l \notin InactiveLookups /\ committed[l] # NoOffset
    /\ asking \subseteq Lookups
    /\ committed \in [Lookups -> Offsets \cup {NoOffset, Unknown}]
    /\ result \in [Lookups -> [Kinds -> Offsets \cup {NoOffset, Unknown}]]
    /\ listed \in [Lookups -> {Nil} \cup SUBSET Topics]
    /\ early \subseteq Lookups

Given(l, kind) == result[l][kind] # Unknown

\* All lookups of a partition that were given a value were given the same one,
\* so that two groups of a run measure their lag against the same mark: no two
\* of them find the cache empty and both ask (topic_offset_getter.go:42).
SameMark ==
    \A kind \in Kinds : \A l1, l2 \in Lookups :
        PartitionOf[l1] = PartitionOf[l2] /\ Given(l1, kind) /\ Given(l2, kind)
        => result[l1][kind] = result[l2][kind]

\* A lag is negative only by a commit read after the mark was stored.  Whoever
\* had read its commit by then, the lookup that asked or one that found the mark
\* in the cache, has none, however far producers and the other groups have got
\* since (topic_offset_getter.go:49).
LagNegativeOnlyIfStale ==
    \A l \in early : Given(l, "newest") => committed[l] <= result[l]["newest"]

\* The list a group was given is the one the cache still holds: all groups go over
\* the same topics though topics are created, and a listing that fails does not
\* overwrite what another group was given (consumer_group_topic_lister.go:33).
SameTopics == \A l \in Lookups : listed[l] # Nil => topicCache = listed[l]

\* Every lookup returns; none waits for the mutex for ever.
LookupsEnd == <>AllDone

\* What the comments and the metric descriptions say of a lookup without an
\* error: its value is an offset of the log.
ValueIsAnOffset ==
    \A l \in Lookups, kind \in Kinds : Given(l, kind) => result[l][kind] \in Offsets
==============================================================================
