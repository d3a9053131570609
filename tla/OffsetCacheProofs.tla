-------------------------- MODULE OffsetCacheProofs --------------------------
(***************************************************************************)
(* Proofs about OffsetCache: the two caches shared by the consumer groups,  *)
(* for every number of lookups, partitions and topics and every length of a *)
(* log.                                                                     *)
(*                                                                          *)
(* The argument: a request is on its way only for the lookup that holds the *)
(* mutex (OwnersInv), and only while the cache has no entry (EmptyInv); so  *)
(* an entry is stored once, and what a lookup was given is what the cache   *)
(* still holds (GivenInv, SameTopics).  A log only grows, so an offset that *)
(* was committed before the mark was asked for does not exceed it           *)
(* (MarksInv).                                                              *)
(***************************************************************************)
EXTENDS OffsetCache, TLAPS

\* A mutex is held by the lookup whose request is on its way, and by no other.
OwnersInv ==
    /\ \A l \in Lookups : mux = l <=> l \in asking /\ pc[l] \in Kinds
    /\ \A l \in Lookups : listMux = l <=> l \in asking /\ pc[l] = "listTopics"
    /\ \A l \in asking : pc[l] \in Kinds \cup {"listTopics"}

\* A request is on its way only for what is not in the cache.
EmptyInv ==
    /\ \A l \in asking, kind \in Kinds : pc[l] = kind => cache[Key(l, kind)] = Uncached
    /\ listMux # Nobody => topicCache = Nil

\* A value that was given is still in the cache.
GivenInv ==
    \A l \in Lookups, kind \in Kinds :
        Given(l, kind) => cache[Key(l, kind)] = result[l][kind]

\* What is committed does not pass the mark of the broker, nor the one in the
\* cache if it was read before that was stored; retention does not pass the mark.
MarksInv ==
    /\ \A p \in Partitions : logStart[p] <= hwm[p]
    /\ \A l \in Lookups : committed[l] <= hwm[PartitionOf[l]]
    /\ \A l \in Lookups : pc[l] \in {"listTopics", "fetchCommitted"} => committed[l] = Unknown
    /\ \A l \in early :
          /\ committed[l] # Unknown
          /\ cache[Key(l, "newest")] # Uncached
          /\ committed[l] <= cache[Key(l, "newest")]

CacheInv == TypeOK /\ OwnersInv /\ EmptyInv /\ GivenInv /\ MarksInv /\ SameTopics

USE LookupAssumption, NobodyAssumption, NoTopicAssumption, MaxOffsetAssumption
    DEF Kinds, Keys, Offsets, NoOffset, Uncached, Unknown

-----------------------------------------------------------------------------
(* Facts about the operators.                                               *)

\* The keys of a lookup.
LEMMA KeyType ==
    ASSUME NEW l \in Lookups, NEW kind \in Kinds
    PROVE  /\ PartitionOf[l] \in Partitions
           /\ Key(l, kind) \in Keys
  BY DEF Key

\* A lookup goes on to the log start offset only from the mark, and only if it is
\* active and has a lag.
LEMMA AfterLookupType ==
    ASSUME NEW l \in Lookups, NEW kind \in Kinds, NEW ok \in BOOLEAN
    PROVE  /\ AfterLookup(l, kind, ok) \in {"oldest", "done"}
           /\ AfterLookup(l, kind, ok) = "oldest" =>
                 l \notin InactiveLookups /\ committed[l] # NoOffset
  BY DEF AfterLookup

\* What a lookup is given changes that one of its results.
LEMMA ResultUpdate ==
    ASSUME NEW l \in Lookups, NEW kind \in Kinds, NEW value \in Offsets \cup {NoOffset},
           result \in [Lookups -> [Kinds -> Offsets \cup {NoOffset, Unknown}]],
           result' = [result EXCEPT ![l][kind] = value]
    PROVE  /\ result' \in [Lookups -> [Kinds -> Offsets \cup {NoOffset, Unknown}]]
           /\ \A m \in Lookups, k \in Kinds :
                 result'[m][k] = IF m = l /\ k = kind THEN value ELSE result[m][k]
<1> DEFINE Row == [Kinds -> Offsets \cup {NoOffset, Unknown}]
<1>1. result \in [Lookups -> Row] /\ result[l] \in Row
    OBVIOUS
<1>2. [result[l] EXCEPT ![kind] = value] \in Row
    BY <1>1
<1>3. result' = [result EXCEPT ![l] = [result[l] EXCEPT ![kind] = value]]
    OBVIOUS
<1>4. result' \in [Lookups -> Row]
  <2> HIDE DEF Row
  <2> QED
      BY <1>1, <1>2, <1>3
<1>5. ASSUME NEW m \in Lookups, NEW k \in Kinds
      PROVE  result'[m][k] = IF m = l /\ k = kind THEN value ELSE result[m][k]
    BY <1>1, <1>3
<1> QED
    BY <1>4, <1>5

\* The map that is nil is no list of topics.
LEMMA NilIsNoList == Nil \notin SUBSET Topics
  BY DEF Nil

-----------------------------------------------------------------------------
(* Every action keeps the invariant.                                        *)

\* The caches are empty and no mutex is held when the collection begins.
LEMMA CacheInitInv == Init => CacheInv
<1> SUFFICES ASSUME Init PROVE CacheInv
    OBVIOUS
<1> USE DEF Init
<1>1. TypeOK
  <2>1. logStart \in [Partitions -> Offsets] /\ hwm \in [Partitions -> Offsets]
      OBVIOUS
  <2>2. pc \in [Lookups -> Kinds \cup {"listTopics", "fetchCommitted", "done"}]
      OBVIOUS
  <2>3. result \in [Lookups -> [Kinds -> Offsets \cup {NoOffset, Unknown}]]
      OBVIOUS
  <2>4. \A l \in Lookups : pc[l] # "oldest"
      OBVIOUS
  <2> QED
      BY <2>1, <2>2, <2>3, <2>4 DEF TypeOK
<1>2. OwnersInv /\ EmptyInv /\ GivenInv
    BY DEF OwnersInv, EmptyInv, GivenInv, Given
<1>3. MarksInv /\ SameTopics
    BY DEF MarksInv, SameTopics
<1> QED
    BY <1>1, <1>2, <1>3 DEF CacheInv

\* The log grows or its head is truncated, neither passes the mark; or a topic is
\* created, and the list in the cache stays as it is.
LEMMA BrokerInv ==
    ASSUME CacheInv,
           \/ \E p \in Partitions : Append(p) \/ Truncate(p)
           \/ \E t \in Topics : CreateTopic(t)
    PROVE  CacheInv'
<1> USE DEF CacheInv, getterVars, listerVars
<1>1. UNCHANGED <<getterVars, listerVars, pc, asking, committed>>
    BY DEF Append, Truncate, CreateTopic
<1>2. topics' \subseteq Topics
    BY DEF Append, Truncate, CreateTopic, TypeOK
<1>3. hwm' \in [Partitions -> Offsets] /\ logStart' \in [Partitions -> Offsets]
    BY DEF Append, Truncate, CreateTopic, TypeOK, MarksInv
<1>4. ASSUME NEW q \in Partitions PROVE hwm[q] <= hwm'[q] /\ logStart'[q] <= hwm'[q]
  <2>1. hwm[q] \in Int /\ logStart[q] \in Int /\ logStart[q] <= hwm[q]
      BY DEF TypeOK, MarksInv
  <2>2. CASE \E p \in Partitions : Append(p)
      BY <2>1, <2>2 DEF Append, TypeOK
  <2>3. CASE \E p \in Partitions : Truncate(p)
      BY <2>1, <2>3 DEF Truncate, TypeOK
  <2>4. CASE \E t \in Topics : CreateTopic(t)
      BY <2>1, <2>4 DEF CreateTopic
  <2> QED
      BY <2>2, <2>3, <2>4
<1>5. TypeOK'
    BY <1>1, <1>2, <1>3 DEF TypeOK
<1>6. OwnersInv' /\ EmptyInv' /\ GivenInv' /\ SameTopics'
    BY <1>1 DEF OwnersInv, EmptyInv, GivenInv, SameTopics, Given, Key
<1>7. MarksInv'
  <2>1. ASSUME NEW l \in Lookups PROVE committed'[l] <= hwm'[PartitionOf[l]]
      BY <1>1, <1>3, <1>4 DEF TypeOK, MarksInv
  <2> QED
      BY <1>1, <1>4, <2>1 DEF MarksInv, Key
<1> QED
    BY <1>5, <1>6, <1>7

\* Listing the topics leaves the cache of the offsets alone; only the lookup that
\* holds the mutex writes the list, and nobody was given one before.
LEMMA ListerInv ==
    ASSUME CacheInv, NEW l \in Lookups,
           ListCached(l) \/ AskTopics(l) \/ TopicsAnswered(l) \/ ListFails(l)
    PROVE  CacheInv'
<1> USE DEF CacheInv, brokerVars, getterVars
<1>1. pc[l] = "listTopics" /\ UNCHANGED <<brokerVars, getterVars, committed>>
    BY DEF ListCached, AskTopics, TopicsAnswered, ListFails, Listing
<1>2. TypeOK'
    BY <1>1 DEF TypeOK, ListCached, AskTopics, TopicsAnswered, ListFails
<1>3. OwnersInv'
    BY <1>1 DEF TypeOK, OwnersInv, ListCached, AskTopics, TopicsAnswered, ListFails, Listing
<1>4. EmptyInv'
  <2>1. ASSUME NEW m \in asking', NEW kind \in Kinds, pc'[m] = kind
        PROVE  cache'[Key(m, kind)] = Uncached
    <3>1. m \in asking /\ pc[m] = kind
        BY <1>1, <2>1 DEF TypeOK, OwnersInv, ListCached, AskTopics, TopicsAnswered, ListFails, Listing
    <3> QED
        BY <1>1, <3>1 DEF EmptyInv, Key
  <2>2. (listMux # Nobody => topicCache = Nil)'
      BY DEF EmptyInv, ListCached, AskTopics, TopicsAnswered, ListFails
  <2> QED
      BY <2>1, <2>2 DEF EmptyInv, Key
<1>5. GivenInv'
    BY <1>1 DEF GivenInv, Given, Key
<1>6. MarksInv'
    BY <1>1 DEF MarksInv, Key, TypeOK, ListCached, AskTopics, TopicsAnswered, ListFails
<1>7. SameTopics'
  <2>1. CASE ListCached(l) \/ AskTopics(l)
      BY <2>1 DEF SameTopics, TypeOK, ListCached, AskTopics
  <2>2. CASE TopicsAnswered(l) \/ ListFails(l)
    <3>1. topicCache = Nil
        BY <2>2 DEF EmptyInv, OwnersInv, TopicsAnswered, ListFails, Listing
    <3>2. \A m \in Lookups : listed[m] = Nil
        BY <3>1, NilIsNoList DEF SameTopics
    <3> QED
        BY <2>2, <3>2 DEF SameTopics, TypeOK, TopicsAnswered, ListFails
  <2> QED
      BY <2>1, <2>2
<1> QED
    BY <1>2, <1>3, <1>4, <1>5, <1>6, <1>7

\* What is committed is at most the mark of the moment.
LEMMA FetchCommittedInv ==
    ASSUME CacheInv, NEW l \in Lookups, FetchCommitted(l)
    PROVE  CacheInv'
<1> USE DEF CacheInv, brokerVars, listerVars, getterVars
<1>1. PICK o \in {NoOffset} \cup 0 .. hwm[PartitionOf[l]] :
        /\ committed' = [committed EXCEPT ![l] = o]
        /\ pc' = [pc EXCEPT ![l] =
                    IF l \in InactiveLookups /\ o = NoOffset THEN "done" ELSE "newest"]
    BY DEF FetchCommitted
<1>2. pc[l] = "fetchCommitted" /\ UNCHANGED <<brokerVars, listerVars, getterVars, asking>>
    BY DEF FetchCommitted
<1>3. /\ hwm[PartitionOf[l]] \in Offsets
      /\ o <= hwm[PartitionOf[l]] /\ o \in Offsets \cup {NoOffset}
    BY <1>1 DEF TypeOK
<1>4. l \notin asking /\ l \notin early
    BY <1>2 DEF OwnersInv, MarksInv
<1>5. TypeOK'
    BY <1>1, <1>2, <1>3 DEF TypeOK
<1>6. OwnersInv' /\ EmptyInv'
    BY <1>1, <1>2, <1>4 DEF TypeOK, OwnersInv, EmptyInv, Key
<1>7. GivenInv' /\ SameTopics'
    BY <1>2 DEF GivenInv, Given, Key, SameTopics
<1>8. MarksInv'
    BY <1>1, <1>2, <1>3, <1>4 DEF MarksInv, TypeOK, Key
<1> QED
    BY <1>5, <1>6, <1>7, <1>8

\* An entry of the cache is handed out.
LEMMA HitInv ==
    ASSUME CacheInv, NEW l \in Lookups, NEW kind \in Kinds, Hit(l, kind)
    PROVE  CacheInv'
<1> USE DEF CacheInv, brokerVars, listerVars
<1> DEFINE value == cache[Key(l, kind)]
<1>1. /\ pc[l] = kind /\ l \notin asking /\ value # Uncached
      /\ result' = [result EXCEPT ![l][kind] = value]
      /\ pc' = [pc EXCEPT ![l] = AfterLookup(l, kind, TRUE)]
      /\ UNCHANGED <<brokerVars, listerVars, cache, mux, early, asking, committed>>
    BY DEF Hit, OwnersInv, TypeOK
<1>2. /\ AfterLookup(l, kind, TRUE) \in {"oldest", "done"} /\ Key(l, kind) \in Keys
      /\ AfterLookup(l, kind, TRUE) = "oldest" => l \notin InactiveLookups /\ committed[l] # NoOffset
    BY AfterLookupType, KeyType
<1>3. value \in Offsets \cup {NoOffset}
    BY <1>1, <1>2 DEF TypeOK
<1> HIDE DEF value
<1>4. /\ result' \in [Lookups -> [Kinds -> Offsets \cup {NoOffset, Unknown}]]
      /\ \A m \in Lookups, k \in Kinds :
            result'[m][k] = IF m = l /\ k = kind THEN value ELSE result[m][k]
    BY <1>1, <1>3, ResultUpdate DEF TypeOK
<1>5. TypeOK'
  <2>1. pc' \in [Lookups -> Kinds \cup {"listTopics", "fetchCommitted", "done"}]
      BY <1>1, <1>2 DEF TypeOK
  <2>2. \A m \in Lookups : pc'[m] = "oldest" => m \notin InactiveLookups /\ committed[m] # NoOffset
      BY <1>1, <1>2 DEF TypeOK
  <2> QED
      BY <1>1, <1>4, <2>1, <2>2 DEF TypeOK
<1>6. OwnersInv'
    BY <1>1, <1>2 DEF TypeOK, OwnersInv
<1>7. EmptyInv'
  <2>1. \A m \in asking : pc'[m] = pc[m]
      BY <1>1 DEF TypeOK
  <2> QED
      BY <1>1, <2>1 DEF EmptyInv, Key
<1>8. GivenInv'
  <2> SUFFICES ASSUME NEW m \in Lookups, NEW k \in Kinds, Given(m, k)'
               PROVE  cache[Key(m, k)] = result'[m][k]
      BY <1>1 DEF GivenInv, Key
  <2>1. CASE m = l /\ k = kind
      BY <1>4, <2>1 DEF value
  <2>2. CASE ~(m = l /\ k = kind)
      BY <1>4, <2>2 DEF GivenInv, Given
  <2> QED
      BY <2>1, <2>2
<1>9. MarksInv' /\ SameTopics'
    BY <1>1, <1>2 DEF TypeOK, MarksInv, SameTopics, Key
<1> QED
    BY <1>5, <1>6, <1>7, <1>8, <1>9

\* The mutex is free and the entry missing: the request is sent.
LEMMA AskInv ==
    ASSUME CacheInv, NEW l \in Lookups, NEW kind \in Kinds, Ask(l, kind)
    PROVE  CacheInv'
<1> USE DEF CacheInv, Ask, brokerVars, listerVars
<1>1. TypeOK'
    BY DEF TypeOK
<1>2. OwnersInv'
    BY DEF TypeOK, OwnersInv
<1>3. EmptyInv' /\ GivenInv' /\ MarksInv' /\ SameTopics'
    BY DEF EmptyInv, GivenInv, MarksInv, SameTopics, Given, Key
<1> QED
    BY <1>1, <1>2, <1>3

\* The entry a request is on its way for: the asker holds the mutex, no other
\* request of the getter is on its way, and nobody was given a value of the entry.
LEMMA AskerIsAlone ==
    ASSUME CacheInv, NEW l \in Lookups, NEW kind \in Kinds, Asking(l, kind)
    PROVE  /\ mux = l /\ cache[Key(l, kind)] = Uncached
           /\ \A m \in asking : pc[m] \in Kinds => m = l
           /\ \A m \in Lookups, k \in Kinds : Key(m, k) = Key(l, kind) => ~Given(m, k)
           /\ kind = "newest" => \A m \in early : PartitionOf[m] # PartitionOf[l]
<1> USE DEF CacheInv, Asking
<1>1. mux = l /\ cache[Key(l, kind)] = Uncached
    BY DEF OwnersInv, EmptyInv
<1>2. \A m \in asking : pc[m] \in Kinds => m = l
    BY <1>1 DEF OwnersInv, TypeOK
<1>3. ASSUME NEW m \in Lookups, NEW k \in Kinds, Key(m, k) = Key(l, kind) PROVE ~Given(m, k)
    BY <1>1, <1>3 DEF GivenInv, Given, TypeOK
<1>4. ASSUME kind = "newest", NEW m \in early PROVE PartitionOf[m] # PartitionOf[l]
    BY <1>1, <1>4 DEF MarksInv, Key, TypeOK
<1> QED
    BY <1>1, <1>2, <1>3, <1>4

\* An entry is stored, and its request is over: what holds of requests and owners.
LEMMA StoreInv ==
    ASSUME CacheInv, NEW l \in Lookups, NEW kind \in Kinds, Asking(l, kind),
           NEW value \in Offsets \cup {NoOffset}, NEW ok \in BOOLEAN,
           cache' = [cache EXCEPT ![Key(l, kind)] = value],
           mux' = Nobody, asking' = asking \ {l},
           pc' = [pc EXCEPT ![l] = AfterLookup(l, kind, ok)],
           UNCHANGED <<brokerVars, listerVars, committed>>
    PROVE  /\ cache' \in [Keys -> Offsets \cup {NoOffset, Uncached}]
           /\ pc' \in [Lookups -> Kinds \cup {"listTopics", "fetchCommitted", "done"}]
           /\ \A m \in Lookups : pc'[m] = "oldest" => m \notin InactiveLookups /\ committed[m] # NoOffset
           /\ OwnersInv' /\ EmptyInv' /\ SameTopics'
<1> USE DEF CacheInv, brokerVars, listerVars
<1>1. /\ AfterLookup(l, kind, ok) \in {"oldest", "done"} /\ Key(l, kind) \in Keys
      /\ AfterLookup(l, kind, ok) = "oldest" => l \notin InactiveLookups /\ committed[l] # NoOffset
    BY AfterLookupType, KeyType
<1>2. mux = l /\ \A m \in asking : pc[m] \in Kinds => m = l
    BY AskerIsAlone
<1>3. pc[l] = kind /\ l \in asking
    BY DEF Asking
<1>4. cache' \in [Keys -> Offsets \cup {NoOffset, Uncached}]
    BY <1>1 DEF TypeOK
<1>5. pc' \in [Lookups -> Kinds \cup {"listTopics", "fetchCommitted", "done"}]
    BY <1>1 DEF TypeOK
<1>6. \A m \in Lookups : pc'[m] = "oldest" => m \notin InactiveLookups /\ committed[m] # NoOffset
    BY <1>1 DEF TypeOK
<1>7. OwnersInv'
    BY <1>1, <1>2, <1>3 DEF TypeOK, OwnersInv
<1>8. EmptyInv'
    BY <1>2, <1>3 DEF EmptyInv, TypeOK, Key
<1>9. SameTopics'
    BY DEF SameTopics
<1> QED
    BY <1>4, <1>5, <1>6, <1>7, <1>8, <1>9

\* The broker answers, and nobody was given another value for the entry before.
LEMMA AnswerInv ==
    ASSUME CacheInv, NEW l \in Lookups, NEW kind \in Kinds, Answer(l, kind)
    PROVE  CacheInv'
<1> USE DEF CacheInv, brokerVars, listerVars
<1> DEFINE value == AnswerOf(kind, PartitionOf[l])
<1>1. /\ Asking(l, kind)
      /\ cache' = [cache EXCEPT ![Key(l, kind)] = value]
      /\ result' = [result EXCEPT ![l][kind] = value]
      /\ early' = IF kind = "newest" THEN early \cup HaveCommitted(PartitionOf[l]) ELSE early
      /\ mux' = Nobody /\ asking' = asking \ {l}
      /\ pc' = [pc EXCEPT ![l] = AfterLookup(l, kind, TRUE)]
      /\ UNCHANGED <<brokerVars, listerVars, committed>>
    BY DEF Answer
<1>2. /\ Key(l, kind) \in Keys /\ PartitionOf[l] \in Partitions
      /\ value \in Offsets
      /\ kind = "newest" => value = hwm[PartitionOf[l]]
    BY KeyType DEF AnswerOf, TypeOK
<1>3. /\ \A m \in Lookups, k \in Kinds : Key(m, k) = Key(l, kind) => ~Given(m, k)
      /\ kind = "newest" => \A m \in early : PartitionOf[m] # PartitionOf[l]
    BY <1>1, AskerIsAlone
<1> HIDE DEF value
<1>4. /\ cache' \in [Keys -> Offsets \cup {NoOffset, Uncached}]
      /\ pc' \in [Lookups -> Kinds \cup {"listTopics", "fetchCommitted", "done"}]
      /\ \A m \in Lookups : pc'[m] = "oldest" => m \notin InactiveLookups /\ committed[m] # NoOffset
      /\ OwnersInv' /\ EmptyInv' /\ SameTopics'
  <2>1. value \in Offsets \cup {NoOffset} /\ TRUE \in BOOLEAN
      BY <1>2
  <2> QED
      BY <1>1, <2>1, StoreInv
<1>5. TypeOK'
  <2>1. result' \in [Lookups -> [Kinds -> Offsets \cup {NoOffset, Unknown}]]
      BY <1>1, <1>2, ResultUpdate DEF TypeOK
  <2>2. early' \subseteq Lookups /\ asking' \subseteq Lookups
      BY <1>1 DEF TypeOK, HaveCommitted
  <2> QED
      BY <1>1, <1>4, <2>1, <2>2 DEF TypeOK
<1>6. GivenInv'
  <2> SUFFICES ASSUME NEW m \in Lookups, NEW k \in Kinds, Given(m, k)'
               PROVE  cache'[Key(m, k)] = result'[m][k]
      BY DEF GivenInv, Key
  <2>1. Key(m, k) \in Keys
      BY KeyType
  <2>2. CASE m = l /\ k = kind
      BY <1>1, <1>2, <2>2 DEF TypeOK
  <2>3. CASE ~(m = l /\ k = kind)
    <3>1. result'[m][k] = result[m][k]
        BY <1>1, <2>3 DEF TypeOK
    <3>2. Given(m, k)
        BY <3>1 DEF Given
    <3>3. cache'[Key(m, k)] = cache[Key(m, k)]
        BY <1>1, <1>2, <1>3, <2>1, <3>2 DEF TypeOK
    <3> QED
        BY <3>1, <3>2, <3>3 DEF GivenInv
  <2> QED
      BY <2>2, <2>3
<1>7. MarksInv'
  <2>1. ASSUME NEW m \in early' PROVE /\ committed'[m] # Unknown
                                     /\ cache'[Key(m, "newest")] # Uncached
                                     /\ committed'[m] <= cache'[Key(m, "newest")]
    <3>1. m \in Lookups /\ Key(m, "newest") \in Keys
        BY <1>5, KeyType DEF TypeOK
    <3>2. CASE kind = "newest" /\ PartitionOf[m] = PartitionOf[l]
      <4>1. m \in HaveCommitted(PartitionOf[l])
          BY <1>1, <1>3, <3>2
      <4>2. committed[m] # Unknown /\ committed[m] <= hwm[PartitionOf[l]]
          BY <3>1, <3>2, <4>1 DEF HaveCommitted, MarksInv
      <4>3. cache'[Key(m, "newest")] = value
          BY <1>1, <1>2, <3>1, <3>2 DEF TypeOK, Key
      <4>4. committed' = committed
          BY <1>1
      <4>5. value # Uncached
          BY <1>2
      <4> QED
          BY <1>2, <3>2, <4>2, <4>3, <4>4, <4>5
    <3>3. CASE ~(kind = "newest" /\ PartitionOf[m] = PartitionOf[l])
      <4>1. m \in early
          BY <1>1, <3>3 DEF HaveCommitted
      <4>2. cache'[Key(m, "newest")] = cache[Key(m, "newest")]
          BY <1>1, <1>2, <3>1, <3>3 DEF TypeOK, Key
      <4> QED
          BY <1>1, <4>1, <4>2 DEF MarksInv
    <3> QED
        BY <3>2, <3>3
  <2>2. ASSUME NEW m \in Lookups, pc'[m] \in {"listTopics", "fetchCommitted"}
        PROVE  committed'[m] = Unknown
    <3>1. AfterLookup(l, kind, TRUE) \in {"oldest", "done"}
        BY AfterLookupType
    <3> QED
        BY <1>1, <2>2, <3>1 DEF MarksInv, TypeOK
  <2> QED
      BY <1>1, <2>1, <2>2 DEF MarksInv, Key
<1> QED
    BY <1>4, <1>5, <1>6, <1>7

\* The request fails: what is stored was given to nobody.
LEMMA AnswerFailsInv ==
    ASSUME CacheInv, NEW l \in Lookups, NEW kind \in Kinds, AnswerFails(l, kind)
    PROVE  CacheInv'
<1> USE DEF CacheInv, brokerVars, listerVars
<1>1. /\ Asking(l, kind)
      /\ cache' = [cache EXCEPT ![Key(l, kind)] = NoOffset]
      /\ mux' = Nobody /\ asking' = asking \ {l}
      /\ pc' = [pc EXCEPT ![l] = AfterLookup(l, kind, FALSE)]
      /\ UNCHANGED <<brokerVars, listerVars, result, early, committed>>
    BY DEF AnswerFails
<1>2. Key(l, kind) \in Keys
    BY KeyType
<1>3. /\ \A m \in Lookups, k \in Kinds : Key(m, k) = Key(l, kind) => ~Given(m, k)
      /\ kind = "newest" => \A m \in early : PartitionOf[m] # PartitionOf[l]
    BY <1>1, AskerIsAlone
<1>4. /\ cache' \in [Keys -> Offsets \cup {NoOffset, Uncached}]
      /\ pc' \in [Lookups -> Kinds \cup {"listTopics", "fetchCommitted", "done"}]
      /\ \A m \in Lookups : pc'[m] = "oldest" => m \notin InactiveLookups /\ committed[m] # NoOffset
      /\ OwnersInv' /\ EmptyInv' /\ SameTopics'
    BY <1>1, StoreInv
<1>5. TypeOK'
    BY <1>1, <1>4 DEF TypeOK
<1>6. GivenInv'
  <2> SUFFICES ASSUME NEW m \in Lookups, NEW k \in Kinds, Given(m, k)
               PROVE  cache'[Key(m, k)] = result[m][k]
      BY <1>1 DEF GivenInv, Given, Key
  <2>1. Key(m, k) \in Keys /\ cache[Key(m, k)] = result[m][k]
      BY KeyType DEF GivenInv
  <2> QED
      BY <1>1, <1>3, <2>1 DEF TypeOK
<1>7. MarksInv'
  <2>1. ASSUME NEW m \in early PROVE cache'[Key(m, "newest")] = cache[Key(m, "newest")]
    <3>1. m \in Lookups /\ Key(m, "newest") \in Keys
        BY KeyType DEF TypeOK
    <3>2. Key(m, "newest") # Key(l, kind)
        BY <1>3, <2>1 DEF Key
    <3> QED
        BY <1>1, <3>1, <3>2 DEF TypeOK
  <2>2. ASSUME NEW m \in Lookups, pc'[m] \in {"listTopics", "fetchCommitted"}
        PROVE  committed'[m] = Unknown
    <3>1. AfterLookup(l, kind, FALSE) \in {"oldest", "done"}
        BY AfterLookupType
    <3> QED
        BY <1>1, <2>2, <3>1 DEF MarksInv, TypeOK
  <2> QED
      BY <1>1, <2>1, <2>2 DEF MarksInv, Key
<1> QED
    BY <1>4, <1>5, <1>6, <1>7

-----------------------------------------------------------------------------
(* The theorems.                                                            *)

\* The invariant holds in every state of every collection.
THEOREM CacheInvariant == Spec => []CacheInv
<1>1. Init => CacheInv
    BY CacheInitInv
<1>2. CacheInv /\ [Next]_vars => CacheInv'
  <2> SUFFICES ASSUME CacheInv, [Next]_vars PROVE CacheInv'
      OBVIOUS
  <2>1. CASE \/ \E p \in Partitions : Append(p) \/ Truncate(p)
             \/ \E t \in Topics : CreateTopic(t)
      BY <2>1, BrokerInv
  <2>2. ASSUME NEW l \in Lookups, Lookup(l) PROVE CacheInv'
    <3>1. CASE ListCached(l) \/ AskTopics(l) \/ TopicsAnswered(l) \/ ListFails(l)
        BY <3>1, ListerInv
    <3>2. CASE FetchCommitted(l)
        BY <3>2, FetchCommittedInv
    <3>3. ASSUME NEW kind \in Kinds, Hit(l, kind) \/ Ask(l, kind) \/ Answer(l, kind) \/ AnswerFails(l, kind)
          PROVE  CacheInv'
        BY <3>3, HitInv, AskInv, AnswerInv, AnswerFailsInv
    <3> QED
        BY <2>2, <3>1, <3>2, <3>3 DEF Lookup
  <2>3. CASE UNCHANGED vars
      BY <2>3 DEF CacheInv, TypeOK, OwnersInv, EmptyInv, GivenInv, MarksInv, SameTopics, Given, Key,
                  vars, brokerVars, getterVars, listerVars
  <2> QED
      BY <2>1, <2>2, <2>3 DEF Next, Rest
<1> QED
    BY <1>1, <1>2, PTL DEF Spec

\* The variables keep their types, and the log start is asked for only by an
\* active lookup that has a lag (kafka_offset_collect.go:187-207).
THEOREM CacheTypeOK == Spec => []TypeOK
  BY CacheInvariant, PTL DEF CacheInv

\* Two groups of one run measure the lag of a partition against the same mark
\* (topic_offset_getter.go:41-55): both were given what the cache holds.
THEOREM CacheSameMark == Spec => []SameMark
<1>1. CacheInv => SameMark
    BY DEF CacheInv, GivenInv, SameMark, Key
<1> QED
    BY <1>1, CacheInvariant, PTL

\* A lag is negative only by a commit read after the mark was stored
\* (topic_offset_getter.go:49).
THEOREM CacheLagNegativeOnlyIfStale == Spec => []LagNegativeOnlyIfStale
<1>1. CacheInv => LagNegativeOnlyIfStale
    BY DEF CacheInv, GivenInv, MarksInv, TypeOK, LagNegativeOnlyIfStale
<1> QED
    BY <1>1, CacheInvariant, PTL

\* All groups go over the same topics, and a listing that fails takes them from
\* nobody (consumer_group_topic_lister.go:24-39).
THEOREM CacheSameTopics == Spec => []SameTopics
  BY CacheInvariant, PTL DEF CacheInv
==============================================================================
