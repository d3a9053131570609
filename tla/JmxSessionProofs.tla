--------------------------- MODULE JmxSessionProofs ---------------------------
(***************************************************************************)
(* For every set of tables, topics and clients, every session and every     *)
(* answer: a session that returns has lost what failed and nothing else.    *)
(*                                                                          *)
(* The invariant says which queries are left (SessionTypes) and that each   *)
(* one that was planned is left or done with (CoverInv).  What the plans    *)
(* hold, which are concatenations of sequences, comes first.                *)
(***************************************************************************)
EXTENDS JmxSession, FoldTheorems, SequenceTheorems, TLAPS

(* The queries there are.                                                   *)

Metrics == (UNION {UNION Range(Tables[t]) : t \in TableNames})
             \cup {"configs", "jvm.gcTimePerSecond", "topics", "topic.diskSize", "topic.offset"}

\* The queries for the names of MBeans, and the others.
NameQueries == {Query("names", None, None, {"client metrics"}),
                Query("names", None, None, {"app info"})}
PlainQueries ==
    [by : MetricQueries \cup {"topics"}, of : ClientIds \cup {Self},
     topic : Topics \cup {None}, metrics : SUBSET Metrics]
Queries == PlainQueries \cup NameQueries

\* The queries for metrics.
ServerQueries == {q \in PlainQueries : q.by # "topics"}

ClientKinds == {"consumer", "producer"}

SessionTypes ==
    /\ session \in Sessions
    /\ pc \in {"run", "returned", "exited"}
    /\ clients \in Seq(ClientIds)
    /\ IF session.kind \in ClientKinds THEN todo \in Seq(Queries)
                                       ELSE todo \in Seq(ServerQueries)
    /\ failed \subseteq Queries
    /\ \A p \in answered : p[1] \in Queries
    /\ reported \subseteq (ClientIds \cup {Self}) \X (Topics \cup {None})
                              \X Metrics \X Nat
    /\ pc = "returned" => todo = <<>>

\* A query failed, or it was answered and the usable numbers in it are reported.
DoneWith(q) ==
    \/ q \in failed
    \/ \E p \in answered :
          /\ p[1] = q
          /\ \A m \in q.metrics :
                Usable(q.by, p[2][m]) => <<q.of, q.topic, m, Sum(p[2][m])>> \in reported
Covered(q) == q \in Range(todo) \/ DoneWith(q)

\* The queries planned before the topics of producers are known.
PlannedFirst ==
    CASE session.kind = "broker" -> Range(BrokerPlan(session, session.topics, session.topics))
      [] session.kind = "cluster" -> Range(ClusterPlan(session))
      [] OTHER -> Range(ClientsPlan(session, clients))
PlannedOf(id) == UNION {Range(Definitions("producerTopic", id, t)) : t \in Wanted}

\* What was planned is left or done with; the queries for the topics of a producer
\* come with the answer to the query for their names.
CoverInv ==
    /\ \A q \in PlannedFirst : q.by \in MetricQueries => Covered(q)
    /\ \A id \in Range(clients) :
          Listed(id) => \/ TopicsQuery(id) \in Range(todo)
                        \/ \A q \in PlannedOf(id) : Covered(q)
    /\ session.kind \in ClientKinds /\ clients = <<>> =>
          Range(DetectionPlan(session)) \subseteq Range(todo) \cup failed \cup {p[1] : p \in answered}

SessionInv == SessionTypes /\ CoverInv

-----------------------------------------------------------------------------
(* Sequences.                                                               *)

\* A function on an initial segment of the numbers is a sequence.
LEMMA FunctionIsSeq ==
    ASSUME NEW S, NEW n \in Nat, NEW f \in [1 .. n -> S]
    PROVE  f \in Seq(S) /\ Len(f) = n
<1>1. f \in Seq(S)
  BY SeqDef
<1>2. DOMAIN f = 1 .. Len(f) /\ Len(f) \in Nat
  BY <1>1, LenProperties
<1>3. DOMAIN f = 1 .. n
  OBVIOUS
<1> QED
  BY <1>1, <1>2, <1>3

\* The members of a sequence are its head and those of its tail.
LEMMA HeadOrTail ==
    ASSUME NEW S, NEW s \in Seq(S), s # <<>>
    PROVE  /\ Head(s) \in S /\ Tail(s) \in Seq(S)
           /\ Range(s) = {Head(s)} \cup Range(Tail(s))
<1>1. /\ Head(s) = s[1] /\ Head(s) \in S /\ Tail(s) \in Seq(S)
      /\ Len(s) \in Nat \ {0} /\ Len(Tail(s)) = Len(s) - 1
      /\ \A i \in 1 .. Len(Tail(s)) : Tail(s)[i] = s[i + 1]
  BY HeadTailProperties, EmptySeq
<1>2. /\ Range(s) = {s[i] : i \in 1 .. Len(s)}
      /\ Range(Tail(s)) = {Tail(s)[i] : i \in 1 .. Len(Tail(s))}
  BY <1>1, RangeEquality
<1>3. \A i \in 1 .. Len(s) : i # 1 => i - 1 \in 1 .. Len(Tail(s)) /\ s[i] = Tail(s)[i - 1]
  BY <1>1
<1>4. \A i \in 1 .. Len(Tail(s)) : i + 1 \in 1 .. Len(s)
  BY <1>1
<1>5. 1 \in 1 .. Len(s)
  BY <1>1
<1> HIDE DEF Range
<1>6. \A x \in Range(s) : x = Head(s) \/ x \in Range(Tail(s))
  BY <1>1, <1>2, <1>3
<1>7. \A x \in Range(Tail(s)) : x \in Range(s)
  BY <1>1, <1>2, <1>4
<1>8. Head(s) \in Range(s)
  BY <1>1, <1>2, <1>5
<1> QED
  BY <1>1, <1>6, <1>7, <1>8

\* The sequences that enumerate a finite set have its members, each once.
LEMMA SetToSeqsRange ==
    ASSUME NEW S, IsFiniteSet(S), NEW s \in SetToSeqs(S)
    PROVE  /\ s \in Seq(S) /\ Range(s) = S
           /\ \A i, j \in DOMAIN s : s[i] = s[j] => i = j
<1> DEFINE D == 1 .. Cardinality(S)
<1>1. Cardinality(S) \in Nat
  BY FS_CardinalityType
<1>2. s \in [D -> S] /\ \A i, j \in D : i # j => s[i] # s[j]
  BY DEF SetToSeqs
<1>3. s \in Injection(D, S)
  BY <1>2 DEF Injection, IsInjective
<1>4. Cardinality(D) = Cardinality(S)
  <2>1. 1 \in Int /\ Cardinality(S) \in Int
    BY <1>1
  <2> QED
    BY <1>1, <2>1, FS_Interval
<1>5. s \in Surjection(D, S)
  BY <1>3, <1>4, FS_Injection
<1>6. Range(s) = S
  BY <1>2, <1>5 DEF Range, Surjection
<1> QED
  BY <1>1, <1>2, <1>6, FunctionIsSeq

-----------------------------------------------------------------------------
(* The concatenation of a sequence of sequences.                            *)

FlatStep(seqs, f, i) == IF i = 1 THEN seqs[i] ELSE f[i - 1] \o seqs[i]
Flat(seqs) == CHOOSE f : f = [i \in 1 .. Len(seqs) |-> FlatStep(seqs, f, i)]

\* It is the last of those of the prefixes.
LEMMA FlattenIsFlat ==
    ASSUME NEW seqs
    PROVE  FlattenSeq(seqs) = IF Len(seqs) = 0 THEN seqs ELSE Flat(seqs)[Len(seqs)]
  BY DEF FlattenSeq, Flat, FlatStep

\* The lengths up to which the concatenations of the prefixes exist.
Flattened(seqs) ==
    {n \in Nat : \E f : f = [i \in 1 .. n |-> FlatStep(seqs, f, i)]}

\* A step reads the concatenation of the prefix before it only.
LEMMA FlatStepReads ==
    ASSUME NEW seqs, NEW f, NEW g, NEW i, i # 1 => f[i - 1] = g[i - 1]
    PROVE  FlatStep(seqs, f, i) = FlatStep(seqs, g, i)
  BY Zenon DEF FlatStep

\* The concatenations of the prefixes exist.
LEMMA FlatExists ==
    ASSUME NEW seqs, NEW n \in Nat
    PROVE  \E f : f = [i \in 1 .. n |-> FlatStep(seqs, f, i)]
<1>1. 0 \in Flattened(seqs)
  <2> DEFINE f == [i \in 1 .. 0 |-> 0]
  <2>1. f = [i \in 1 .. 0 |-> FlatStep(seqs, f, i)]
    OBVIOUS
  <2> HIDE DEF f
  <2> QED
    BY <2>1 DEF Flattened
<1>2. \A k \in Nat : k \in Flattened(seqs) => k + 1 \in Flattened(seqs)
  <2> SUFFICES ASSUME NEW k \in Nat, k \in Flattened(seqs)
               PROVE  k + 1 \in Flattened(seqs)
    OBVIOUS
  <2>1. PICK f : f = [i \in 1 .. k |-> FlatStep(seqs, f, i)]
    BY DEF Flattened
  <2> DEFINE g == [i \in 1 .. k + 1 |-> FlatStep(seqs, f, i)]
  <2>2. \A i \in 1 .. k : i \in 1 .. k + 1 /\ g[i] = FlatStep(seqs, f, i)
    OBVIOUS
  <2>3. \A i \in 1 .. k : g[i] = f[i]
    BY <2>1, <2>2
  <2>4. \A i \in 1 .. k + 1 : i # 1 => i - 1 \in 1 .. k
    OBVIOUS
  <2>5. ASSUME NEW i \in 1 .. k + 1
        PROVE  FlatStep(seqs, g, i) = FlatStep(seqs, f, i)
    <3>1. i # 1 => g[i - 1] = f[i - 1]
      BY <2>3, <2>4
    <3> HIDE DEF g
    <3> QED
      BY <3>1, FlatStepReads, Zenon
  <2>6. g = [i \in 1 .. k + 1 |-> FlatStep(seqs, g, i)]
    BY <2>5
  <2> HIDE DEF g
  <2> QED
    BY <2>6 DEF Flattened
<1>3. \A k \in Nat : k \in Flattened(seqs)
  BY <1>1, <1>2, SuccessorInduction
<1> QED
  BY <1>3 DEF Flattened

\* The concatenation of the first n sequences has their members and no others.
FlatOf(S, seqs, n) ==
    /\ Flat(seqs)[n] \in Seq(S)
    /\ Range(Flat(seqs)[n]) = UNION {Range(seqs[i]) : i \in 1 .. n}
FlatUpTo(S, seqs) == {n \in Nat : n \in 1 .. Len(seqs) => FlatOf(S, seqs, n)}

\* The concatenation has the members of the sequences and no others.
LEMMA FlattenRange ==
    ASSUME NEW S, NEW seqs \in Seq(Seq(S))
    PROVE  /\ FlattenSeq(seqs) \in Seq(S)
           /\ Range(FlattenSeq(seqs)) = UNION {Range(seqs[i]) : i \in 1 .. Len(seqs)}
<1>1. Len(seqs) \in Nat /\ \A i \in 1 .. Len(seqs) : seqs[i] \in Seq(S)
  OBVIOUS
<1>2. Flat(seqs) = [i \in 1 .. Len(seqs) |-> FlatStep(seqs, Flat(seqs), i)]
  BY <1>1, FlatExists DEF Flat
<1>3. 0 \in FlatUpTo(S, seqs)
  BY DEF FlatUpTo
<1>4. ASSUME NEW n \in Nat, n \in FlatUpTo(S, seqs), n + 1 \in 1 .. Len(seqs)
      PROVE  FlatOf(S, seqs, n + 1)
  <2>1. Flat(seqs)[n + 1] = FlatStep(seqs, Flat(seqs), n + 1)
    BY <1>2, <1>4
  <2>2. CASE n = 0
    <3>1. Flat(seqs)[n + 1] = seqs[1]
      BY <2>1, <2>2 DEF FlatStep
    <3>2. {Range(seqs[i]) : i \in 1 .. n + 1} = {Range(seqs[1])}
      BY <2>2
    <3> QED
      BY <1>1, <1>4, <2>2, <3>1, <3>2 DEF FlatOf
  <2>3. CASE n # 0
    <3>1. Flat(seqs)[n + 1] = Flat(seqs)[n] \o seqs[n + 1]
      <4>1. n + 1 # 1 /\ (n + 1) - 1 = n
        BY <2>3
      <4> QED
        BY <2>1, <4>1, Zenon DEF FlatStep
    <3>2. n \in 1 .. Len(seqs)
      BY <1>1, <1>4, <2>3
    <3>3. FlatOf(S, seqs, n) /\ seqs[n + 1] \in Seq(S)
      BY <1>1, <1>4, <3>2 DEF FlatUpTo
    <3>4. /\ Flat(seqs)[n + 1] \in Seq(S)
          /\ Range(Flat(seqs)[n + 1]) = Range(Flat(seqs)[n]) \cup Range(seqs[n + 1])
      BY <3>1, <3>3, RangeConcatenation, ConcatProperties DEF FlatOf
    <3>5. \A i : i \in 1 .. n + 1 <=> i \in 1 .. n \/ i = n + 1
      OBVIOUS
    <3>6. UNION {Range(seqs[i]) : i \in 1 .. n + 1}
             = (UNION {Range(seqs[i]) : i \in 1 .. n}) \cup Range(seqs[n + 1])
      BY <3>5, Zenon
    <3> QED
      BY <3>3, <3>4, <3>6, Zenon DEF FlatOf
  <2> QED
    BY <2>2, <2>3
<1>5. \A n \in Nat : n \in FlatUpTo(S, seqs) => n + 1 \in FlatUpTo(S, seqs)
  <2> SUFFICES ASSUME NEW n \in Nat, n \in FlatUpTo(S, seqs)
               PROVE  n + 1 \in FlatUpTo(S, seqs)
    OBVIOUS
  <2>1. n + 1 \in Nat
    OBVIOUS
  <2> QED
    BY <1>4, <2>1, Zenon DEF FlatUpTo
<1>6. \A n \in Nat : n \in FlatUpTo(S, seqs)
  BY <1>3, <1>5, SuccessorInduction
<1>7. CASE Len(seqs) = 0
  <2>1. FlattenSeq(seqs) = <<>>
    BY <1>7, FlattenIsFlat
  <2>2. Range(<<>>) = {}
    BY DEF Range
  <2> QED
    BY <1>7, <2>1, <2>2
<1>8. CASE Len(seqs) # 0
  <2>1. FlatOf(S, seqs, Len(seqs))
    BY <1>1, <1>6, <1>8 DEF FlatUpTo
  <2> QED
    BY <1>8, <2>1, FlattenIsFlat DEF FlatOf
<1> QED
  BY <1>7, <1>8

-----------------------------------------------------------------------------
(* What is made of an answer.                                               *)

\* The attributes of a metric.
Values == Seq(Nat \cup {Text, Error})

\* The sum of the numbers among the attributes is a number.
LEMMA SumIsNumber ==
    ASSUME NEW a \in Values
    PROVE  Sum(a) \in Nat /\ IsFiniteSet(NumbersIn(a))
<1> DEFINE K == NumbersIn(a)
           U == {T \in SUBSET K : SumOver(a, T) \in Nat}
<1>1. DOMAIN a = 1 .. Len(a) /\ Len(a) \in Nat
  BY DEF Values
<1>2. IsFiniteSet(DOMAIN a)
  <2>1. 1 \in Int /\ Len(a) \in Int
    BY <1>1
  <2> QED
    BY <1>1, <2>1, FS_Interval
<1>3. IsFiniteSet(K)
  <2>1. K \subseteq DOMAIN a
    BY DEF NumbersIn
  <2> HIDE DEF K
  <2> QED
    BY <1>2, <2>1, FS_Subset
<1>4. \A k \in K : a[k] \in Nat
  BY <1>1 DEF NumbersIn, IsNumber, Values
<1> HIDE DEF K
<1>5. ASSUME NEW T \in SUBSET K, \A x \in T : T \ {x} \in U
      PROVE  T \in U
  <2>1. CASE T = {}
    BY <2>1, SumEmpty
  <2>2. CASE T # {}
    <3>1. Pick(T) \in T /\ IsFiniteSet(T)
      BY <1>3, <2>2, FS_Subset DEF Pick
    <3>2. SumOver(a, T) = a[Pick(T)] + SumOver(a, T \ {Pick(T)})
      BY <2>2, <3>1, SumFirst
    <3>3. a[Pick(T)] \in Nat /\ SumOver(a, T \ {Pick(T)}) \in Nat
      BY <1>4, <1>5, <3>1
    <3> QED
      BY <3>2, <3>3
  <2> QED
    BY <2>1, <2>2
<1> HIDE DEF U
<1>6. \A T \in SUBSET K : (\A x \in T : T \ {x} \in U) => T \in U
  BY <1>5
<1>7. SUBSET K \subseteq U
  BY <1>3, <1>6, SubsetInduction
<1>8. SumOver(a, K) \in Nat
  BY <1>7 DEF U
<1>9. Sum(a) = SumOver(a, K)
  BY SumIsFold DEF Sum, K
<1> QED
  BY <1>3, <1>8, <1>9 DEF K

\* A metric is set to a number or not set.
LEMMA ValueIsNumber ==
    ASSUME NEW by \in MetricQueries, NEW a \in Values
    PROVE  Value(by, a) \in Nat \cup {None}
<1>1. Sum(a) \in Nat
  BY SumIsNumber
<1>2. Len(a) = 1 /\ IsNumber(a[1]) => a[1] \in Nat
  BY DEF Values, IsNumber
<1> QED
  BY <1>1, <1>2 DEF Value, MetricQueries

\* A metric whose attributes hold usable numbers is set to their sum.
LEMMA ValueOfUsable ==
    ASSUME NEW by \in MetricQueries, NEW a \in Values, Usable(by, a),
           by \in {"definitions", "configs"} => Len(a) <= 1
    PROVE  Value(by, a) = Sum(a) /\ Sum(a) \in Nat
<1>1. Sum(a) \in Nat
  BY SumIsNumber
<1>2. a # <<>>
  BY DEF Usable, NumbersIn
<1>3. CASE by \in {"definitions", "configs"}
  <2>1. Len(a) = 1 /\ DOMAIN a = {1}
    <3>1. Len(a) \in Nat /\ DOMAIN a = 1 .. Len(a) /\ Len(a) # 0
      BY <1>2, LenProperties, EmptySeq DEF Values
    <3> QED
      BY <1>3, <3>1
  <2>2. NumbersIn(a) = {1} /\ IsNumber(a[1])
    BY <2>1 DEF Usable, NumbersIn
  <2>3. IsFiniteSet({1}) /\ a[1] \in Int
    <3>1. IsFiniteSet({1})
      BY <2>2, SumIsNumber
    <3>2. a[1] \in Nat \cup {Text, Error}
      BY <2>1 DEF Values
    <3> QED
      BY <2>2, <3>1, <3>2 DEF IsNumber
  <2>4. SumOver(a, {1}) = a[1] + SumOver(a, {1} \ {1})
    BY <2>3, SumRemove
  <2>5. SumOver(a, {1} \ {1}) = 0
    BY SumEmpty
  <2>6. Sum(a) = SumOver(a, {1})
    BY <2>2, SumIsFold DEF Sum
  <2>7. Sum(a) = a[1]
    BY <2>3, <2>4, <2>5, <2>6
  <2> QED
    BY <1>1, <1>3, <2>1, <2>2, <2>7 DEF Value
<1>4. CASE by \in {"requests", "gc", "size", "offset"}
  BY <1>1, <1>2, <1>4 DEF Value, Usable
<1> QED
  BY <1>3, <1>4 DEF MetricQueries

-----------------------------------------------------------------------------
(* The queries and the plans.                                               *)

\* What a session is; what the tables hold.
LEMMA SessionShape ==
    ASSUME NEW s \in Sessions
    PROVE  /\ s \in Session
           /\ s.topics \in Seq(Topics) /\ s.name \in ClientIds \cup {None}
           /\ s.kind \in {"broker", "cluster", "consumer", "producer"}
           /\ Range(s.topics) \in SUBSET Topics /\ IsFiniteSet(Range(s.topics))
<1>1. s \in Session
  BY SessionAssumption
<1>2. /\ s.topics \in Seq(Topics) /\ s.name \in ClientIds \cup {None}
      /\ s.kind \in {"broker", "cluster", "consumer", "producer"}
  BY <1>1 DEF Session
<1>3. Range(s.topics) \in SUBSET Topics
  BY <1>2, RangeOfSeq
<1>4. IsFiniteSet(Range(s.topics))
  <2>1. /\ s.topics \in [1 .. Len(s.topics) -> Topics]
        /\ Len(s.topics) \in Nat /\ 1 \in Int /\ Len(s.topics) \in Int
    BY <1>2
  <2>2. s.topics \in Surjection(1 .. Len(s.topics), Range(s.topics))
    BY <2>1 DEF Surjection, Range
  <2>3. IsFiniteSet(1 .. Len(s.topics))
    BY <2>1, FS_Interval
  <2> QED
    BY <2>2, <2>3, FS_Surjection
<1> QED
  BY <1>1, <1>2, <1>3, <1>4

\* The queries for the MBeans of a table.
LEMMA EachQueries ==
    ASSUME NEW by \in {"definitions", "requests"}, NEW table \in TableNames,
           NEW of \in ClientIds \cup {Self}, NEW topic \in Topics \cup {None}
    PROVE  /\ Each(by, table, of, topic) \in Seq(ServerQueries)
           /\ Range(Each(by, table, of, topic)) \subseteq ServerQueries
<1> DEFINE metrics == UNION Range(Tables[table])
<1>1. Tables[table] \in Seq(SUBSET metrics)
  BY SessionAssumption
<1>2. metrics \subseteq Metrics
  BY DEF Metrics
<1> HIDE DEF metrics
<1>3. /\ DOMAIN Tables[table] = 1 .. Len(Tables[table]) /\ Len(Tables[table]) \in Nat
      /\ \A k \in DOMAIN Tables[table] : Tables[table][k] \in SUBSET Metrics
  BY <1>1, <1>2
<1>4. \A m \in SUBSET Metrics : Query(by, of, topic, m) \in ServerQueries
  BY DEF Query, ServerQueries, PlainQueries, MetricQueries
<1>5. Each(by, table, of, topic) \in [1 .. Len(Tables[table]) -> ServerQueries]
  BY <1>3, <1>4 DEF Each
<1>6. Each(by, table, of, topic) \in Seq(ServerQueries)
  BY <1>3, <1>5, FunctionIsSeq
<1> QED
  BY <1>6, RangeOfSeq

\* The queries for the topics of a list, which depend on its order for theirs only.
LEMMA DefinitionsOfTopicsQueries ==
    ASSUME NEW table \in TableNames, NEW of \in ClientIds \cup {Self},
           NEW topics \in Seq(Topics)
    PROVE  /\ DefinitionsOfTopics(table, of, topics) \in Seq(ServerQueries)
           /\ Range(DefinitionsOfTopics(table, of, topics))
                = UNION {Range(Definitions(table, of, t)) : t \in Range(topics)}
<1> DEFINE seqs == [k \in DOMAIN topics |-> Definitions(table, of, topics[k])]
<1>1. DOMAIN topics = 1 .. Len(topics) /\ Len(topics) \in Nat
  OBVIOUS
<1>2. \A t \in Topics : Definitions(table, of, t) \in Seq(ServerQueries)
  BY EachQueries DEF Definitions
<1>3. seqs \in [1 .. Len(topics) -> Seq(ServerQueries)]
  BY <1>1, <1>2
<1>4. \A i \in 1 .. Len(topics) : seqs[i] = Definitions(table, of, topics[i])
  BY <1>1
<1> HIDE DEF seqs
<1>5. seqs \in Seq(Seq(ServerQueries)) /\ Len(seqs) = Len(topics)
  BY <1>1, <1>3, FunctionIsSeq
<1>6. /\ FlattenSeq(seqs) \in Seq(ServerQueries)
      /\ Range(FlattenSeq(seqs)) = UNION {Range(seqs[i]) : i \in 1 .. Len(seqs)}
  BY <1>5, FlattenRange
<1>7. /\ \A i \in 1 .. Len(topics) : topics[i] \in Range(topics)
      /\ \A t \in Range(topics) : \E i \in 1 .. Len(topics) : topics[i] = t
  BY RangeEquality
<1>8. {Range(seqs[i]) : i \in 1 .. Len(seqs)}
        = {Range(Definitions(table, of, t)) : t \in Range(topics)}
  <2>1. \A i \in 1 .. Len(seqs) :
           Range(seqs[i]) \in {Range(Definitions(table, of, t)) : t \in Range(topics)}
    BY <1>4, <1>5, <1>7, Zenon
  <2>2. \A t \in Range(topics) : \E i \in 1 .. Len(seqs) :
           Range(seqs[i]) = Range(Definitions(table, of, t))
    BY <1>4, <1>5, <1>7, Zenon
  <2> QED
    BY <2>1, <2>2, Zenon
<1> QED
  BY <1>6, <1>8 DEF DefinitionsOfTopics, seqs

\* The totals of the topics of a list, which depend on its order for theirs only.
LEMMA TotalsQueries ==
    ASSUME NEW by \in {"size", "offset"}, NEW topics \in Seq(Topics),
           NEW metric \in {"topic.diskSize", "topic.offset"}
    PROVE  /\ Totals(by, metric, topics) \in Seq(ServerQueries)
           /\ Range(Totals(by, metric, topics))
                 = {Query(by, Self, t, {metric}) : t \in Range(topics)}
<1>1. DOMAIN topics = 1 .. Len(topics) /\ Len(topics) \in Nat
  OBVIOUS
<1>2. Totals(by, metric, topics)
         = [k \in 1 .. Len(topics) |-> Query(by, Self, topics[k], {metric})]
  BY <1>1 DEF Totals
<1>3. \A t \in Topics : Query(by, Self, t, {metric}) \in ServerQueries
  BY DEF Query, ServerQueries, PlainQueries, MetricQueries, Metrics
<1>4. Totals(by, metric, topics) \in [1 .. Len(topics) -> ServerQueries]
  <2>1. \A k \in 1 .. Len(topics) : topics[k] \in Topics
    BY <1>1
  <2>2. \A k \in 1 .. Len(topics) : Query(by, Self, topics[k], {metric}) \in ServerQueries
    BY <1>3, <2>1, Zenon
  <2> QED
    BY <1>2, <2>2, Zenon
<1>5. Totals(by, metric, topics) \in Seq(ServerQueries)
  BY <1>1, <1>4, FunctionIsSeq
<1>6. Range(Totals(by, metric, topics)) = {Query(by, Self, t, {metric}) : t \in Range(topics)}
  BY <1>1, <1>2 DEF Range
<1> QED
  BY <1>5, <1>6

\* What a concatenation holds.
LEMMA ConcatQueries ==
    ASSUME NEW S, NEW s \in Seq(S), NEW t \in Seq(S)
    PROVE  s \o t \in Seq(S) /\ Range(s \o t) = Range(s) \cup Range(t)
  BY ConcatProperties, RangeConcatenation

\* The inventory and the metrics of a broker.
LEMMA MetricsPlanQueries ==
    ASSUME NEW s \in Sessions
    PROVE  InventoryPlan(s) \in Seq(ServerQueries) /\ MetricsPlan(s) \in Seq(ServerQueries)
<1>1. /\ "broker" \in TableNames /\ "request" \in TableNames /\ "extended" \in TableNames
      /\ "jvm" \in TableNames /\ "topic" \in TableNames
  BY DEF TableNames
<1>2. /\ Definitions("broker", Self, None) \in Seq(ServerQueries)
      /\ Definitions("extended", Self, None) \in Seq(ServerQueries)
      /\ Definitions("jvm", Self, None) \in Seq(ServerQueries)
      /\ Each("requests", "request", Self, None) \in Seq(ServerQueries)
  BY <1>1, EachQueries DEF Definitions
<1>3. DefinitionsOfTopics("topic", Self, s.topics) \in Seq(ServerQueries)
  BY <1>1, SessionShape, DefinitionsOfTopicsQueries
<1>4. /\ Query("configs", Self, None, {"configs"}) \in ServerQueries
      /\ Query("gc", Self, None, {"jvm.gcTimePerSecond"}) \in ServerQueries
  BY DEF Query, ServerQueries, PlainQueries, MetricQueries, Metrics
<1>5. /\ <<>> \in Seq(ServerQueries)
      /\ <<Query("configs", Self, None, {"configs"})>> \in Seq(ServerQueries)
      /\ <<Query("gc", Self, None, {"jvm.gcTimePerSecond"})>> \in Seq(ServerQueries)
  BY <1>4
<1>6. \A a, b \in Seq(ServerQueries) : a \o b \in Seq(ServerQueries)
  BY ConcatProperties
<1>7. InventoryPlan(s) \in Seq(ServerQueries)
  BY <1>5 DEF InventoryPlan
<1>8. (IF s.extended
       THEN Definitions("extended", Self, None) \o Definitions("jvm", Self, None)
            \o <<Query("gc", Self, None, {"jvm.gcTimePerSecond"})>>
       ELSE <<>>) \in Seq(ServerQueries)
  BY <1>2, <1>5, <1>6
<1>9. MetricsPlan(s) \in Seq(ServerQueries)
  BY <1>2, <1>3, <1>6, <1>8, Zenon DEF MetricsPlan
<1> QED
  BY <1>7, <1>9

\* The plan of a broker: whatever the order in which the topics are gone over, the
\* same queries.
LEMMA BrokerPlanQueries ==
    ASSUME NEW s \in Sessions,
           NEW sizes \in SetToSeqs(Range(s.topics)), NEW offsets \in SetToSeqs(Range(s.topics))
    PROVE  /\ BrokerPlan(s, sizes, offsets) \in Seq(ServerQueries)
           /\ Range(BrokerPlan(s, sizes, offsets)) = Range(BrokerPlan(s, s.topics, s.topics))
<1> DEFINE A(t) == IF s.sizes THEN Totals("size", "topic.diskSize", t) ELSE <<>>
           B(t) == IF s.offsets THEN Totals("offset", "topic.offset", t) ELSE <<>>
<1>1. /\ s.topics \in Seq(Topics) /\ Range(s.topics) \in SUBSET Topics
      /\ IsFiniteSet(Range(s.topics)) /\ <<>> \in Seq(ServerQueries)
  BY SessionShape
<1>2. /\ sizes \in Seq(Topics) /\ Range(sizes) = Range(s.topics)
      /\ offsets \in Seq(Topics) /\ Range(offsets) = Range(s.topics)
  BY <1>1, SetToSeqsRange, SeqMonotonic
<1>3. ASSUME NEW t \in Seq(Topics), Range(t) = Range(s.topics)
      PROVE  /\ A(t) \in Seq(ServerQueries) /\ B(t) \in Seq(ServerQueries)
             /\ Range(A(t)) = Range(A(s.topics)) /\ Range(B(t)) = Range(B(s.topics))
  BY <1>1, <1>3, TotalsQueries
<1>4. \A t, u : TotalsPlan(s, t, u) = A(t) \o B(u)
  BY DEF TotalsPlan
<1> HIDE DEF A, B
<1>5. /\ TotalsPlan(s, sizes, offsets) \in Seq(ServerQueries)
      /\ TotalsPlan(s, s.topics, s.topics) \in Seq(ServerQueries)
      /\ Range(TotalsPlan(s, sizes, offsets)) = Range(TotalsPlan(s, s.topics, s.topics))
  <2>1. /\ A(sizes) \in Seq(ServerQueries) /\ B(offsets) \in Seq(ServerQueries)
        /\ A(s.topics) \in Seq(ServerQueries) /\ B(s.topics) \in Seq(ServerQueries)
        /\ Range(A(sizes)) = Range(A(s.topics)) /\ Range(B(offsets)) = Range(B(s.topics))
    BY <1>1, <1>2, <1>3
  <2>2. /\ A(sizes) \o B(offsets) \in Seq(ServerQueries)
        /\ Range(A(sizes) \o B(offsets)) = Range(A(sizes)) \cup Range(B(offsets))
    BY <2>1, ConcatQueries
  <2>3. /\ A(s.topics) \o B(s.topics) \in Seq(ServerQueries)
        /\ Range(A(s.topics) \o B(s.topics)) = Range(A(s.topics)) \cup Range(B(s.topics))
    BY <2>1, ConcatQueries
  <2> QED
    BY <1>4, <2>1, <2>2, <2>3
<1>6. InventoryPlan(s) \in Seq(ServerQueries) /\ MetricsPlan(s) \in Seq(ServerQueries)
  BY MetricsPlanQueries
<1> DEFINE M(t, u) == IF s.metrics THEN MetricsPlan(s) \o TotalsPlan(s, t, u) ELSE <<>>
<1>7. /\ M(sizes, offsets) \in Seq(ServerQueries) /\ M(s.topics, s.topics) \in Seq(ServerQueries)
      /\ Range(M(sizes, offsets)) = Range(M(s.topics, s.topics))
  <2>1. /\ MetricsPlan(s) \o TotalsPlan(s, sizes, offsets) \in Seq(ServerQueries)
        /\ Range(MetricsPlan(s) \o TotalsPlan(s, sizes, offsets))
              = Range(MetricsPlan(s)) \cup Range(TotalsPlan(s, sizes, offsets))
    BY <1>5, <1>6, ConcatQueries
  <2>2. /\ MetricsPlan(s) \o TotalsPlan(s, s.topics, s.topics) \in Seq(ServerQueries)
        /\ Range(MetricsPlan(s) \o TotalsPlan(s, s.topics, s.topics))
              = Range(MetricsPlan(s)) \cup Range(TotalsPlan(s, s.topics, s.topics))
    BY <1>5, <1>6, ConcatQueries
  <2> QED
    BY <1>1, <1>5, <2>1, <2>2
<1>8. \A t, u : BrokerPlan(s, t, u) = InventoryPlan(s) \o M(t, u)
  BY DEF BrokerPlan
<1> HIDE DEF M
<1>9. /\ InventoryPlan(s) \o M(sizes, offsets) \in Seq(ServerQueries)
      /\ Range(InventoryPlan(s) \o M(sizes, offsets))
            = Range(InventoryPlan(s)) \cup Range(M(sizes, offsets))
  BY <1>6, <1>7, ConcatQueries
<1>10. Range(InventoryPlan(s) \o M(s.topics, s.topics))
            = Range(InventoryPlan(s)) \cup Range(M(s.topics, s.topics))
  BY <1>6, <1>7, ConcatQueries
<1> QED
  BY <1>7, <1>8, <1>9, <1>10

\* The plan of the cluster.
LEMMA ClusterPlanQueries ==
    ASSUME NEW s
    PROVE  ClusterPlan(s) \in Seq(ServerQueries)
<1>1. Definitions("cluster", Self, None) \in Seq(ServerQueries) /\ <<>> \in Seq(ServerQueries)
  BY EachQueries DEF Definitions, TableNames
<1> QED
  BY <1>1 DEF ClusterPlan

\* The queries by which a client is sought.
LEMMA DetectionPlanQueries ==
    ASSUME NEW s
    PROVE  DetectionPlan(s) \in Seq(NameQueries) /\ Range(DetectionPlan(s)) \subseteq NameQueries
<1> DEFINE a == Query("names", None, None, {"client metrics"})
           b == Query("names", None, None, {"app info"})
<1>1. a \in NameQueries /\ b \in NameQueries
  BY DEF NameQueries
<1>2. DetectionPlan(s) = IF s.name # None THEN <<>> ELSE <<a, b>>
  BY DEF DetectionPlan
<1> HIDE DEF a, b
<1>3. <<>> \in Seq(NameQueries) /\ <<a, b>> \in Seq(NameQueries)
  BY <1>1
<1>4. DetectionPlan(s) \in Seq(NameQueries)
  BY <1>2, <1>3
<1> QED
  BY <1>4, RangeOfSeq

\* The plan of the topics of a client; that of a producer, whatever their order.
LEMMA TopicPlanQueries ==
    ASSUME NEW s, NEW id \in ClientIds \cup {Self}, NEW topics \in Seq(Topics)
    PROVE  /\ TopicPlan(s, id, topics) \in Seq(ServerQueries)
           /\ s.kind = "producer" =>
                 Range(TopicPlan(s, id, topics))
                    = UNION {Range(Definitions("producerTopic", id, t)) : t \in Range(topics)}
<1>1. "consumerTopic" \in TableNames /\ "producerTopic" \in TableNames
  BY DEF TableNames
<1>2. CASE s.kind = "consumer"
  <2>1. TopicPlan(s, id, topics) = DefinitionsOfTopics("consumerTopic", id, topics)
    BY <1>2 DEF TopicPlan
  <2> QED
    BY <1>1, <1>2, <2>1, DefinitionsOfTopicsQueries
<1>3. CASE s.kind # "consumer"
  <2>1. TopicPlan(s, id, topics) = DefinitionsOfTopics("producerTopic", id, topics)
    BY <1>3 DEF TopicPlan
  <2> QED
    BY <1>1, <2>1, DefinitionsOfTopicsQueries
<1> QED
  BY <1>2, <1>3

\* The plan of a client; its topics are asked for only in the modes that need it.
LEMMA ClientPlanQueries ==
    ASSUME NEW s \in Sessions, s.kind \in ClientKinds, NEW id \in ClientIds
    PROVE  /\ ClientPlan(s, id) \in Seq(PlainQueries)
           /\ TopicsQuery(id) \in Range(ClientPlan(s, id)) => s.mode \in {"all", "regex"}
<1>1. /\ Definitions(s.kind, id, None) \in Seq(ServerQueries)
      /\ TopicPlan(s, id, s.topics) \in Seq(ServerQueries)
      /\ <<>> \in Seq(ServerQueries)
  <2>1. s.kind \in TableNames
    BY DEF ClientKinds, TableNames
  <2> QED
    BY <2>1, SessionShape, EachQueries, TopicPlanQueries DEF Definitions
<1>2. TopicsQuery(id) \in PlainQueries /\ TopicsQuery(id) \notin ServerQueries
  BY DEF TopicsQuery, Query, PlainQueries, ServerQueries, Metrics
<1>3. \A p \in Seq(ServerQueries) : p \in Seq(PlainQueries)
  BY SeqMonotonic DEF ServerQueries
<1>4. <<TopicsQuery(id)>> \in Seq(PlainQueries)
  BY <1>2
<1> DEFINE rest == CASE s.mode = "list" -> TopicPlan(s, id, s.topics)
                     [] AsksForTopics(s) -> <<TopicsQuery(id)>>
                     [] OTHER -> <<>>
<1>5. ClientPlan(s, id) = IF ~s.metrics THEN <<>> ELSE Definitions(s.kind, id, None) \o rest
  BY DEF ClientPlan
<1>6. CASE AsksForTopics(s)
  <2>1. rest = <<TopicsQuery(id)>> /\ s.mode \in {"all", "regex"}
    BY <1>6 DEF AsksForTopics
  <2> HIDE DEF rest
  <2>2. Definitions(s.kind, id, None) \o rest \in Seq(PlainQueries) /\ <<>> \in Seq(PlainQueries)
    BY <1>1, <1>3, <1>4, <2>1, ConcatQueries
  <2> QED
    BY <1>5, <2>1, <2>2
<1>7. CASE ~AsksForTopics(s)
  <2>1. rest \in Seq(ServerQueries)
    BY <1>1, <1>7
  <2> HIDE DEF rest
  <2>2. Definitions(s.kind, id, None) \o rest \in Seq(ServerQueries)
    BY <1>1, <2>1, ConcatQueries
  <2>3. ClientPlan(s, id) \in Seq(ServerQueries)
    BY <1>1, <1>5, <2>2
  <2>4. Range(ClientPlan(s, id)) \in SUBSET ServerQueries
    BY <2>3, RangeOfSeq
  <2> QED
    BY <1>2, <1>3, <2>3, <2>4
<1> QED
  BY <1>6, <1>7

\* The plan of all clients holds that of each.
LEMMA ClientsPlanQueries ==
    ASSUME NEW s \in Sessions, s.kind \in ClientKinds, NEW ids \in Seq(ClientIds)
    PROVE  /\ ClientsPlan(s, ids) \in Seq(PlainQueries)
           /\ \A id \in Range(ids) : Range(ClientPlan(s, id)) \subseteq Range(ClientsPlan(s, ids))
           /\ ids = <<>> => ClientsPlan(s, ids) = <<>>
<1> DEFINE seqs == [k \in DOMAIN ids |-> ClientPlan(s, ids[k])]
<1>1. DOMAIN ids = 1 .. Len(ids) /\ Len(ids) \in Nat
  OBVIOUS
<1>2. seqs \in [1 .. Len(ids) -> Seq(PlainQueries)]
  BY <1>1, ClientPlanQueries
<1>3. \A i \in 1 .. Len(ids) : seqs[i] = ClientPlan(s, ids[i])
  BY <1>1
<1> HIDE DEF seqs
<1>4. seqs \in Seq(Seq(PlainQueries)) /\ Len(seqs) = Len(ids)
  BY <1>1, <1>2, FunctionIsSeq
<1>5. /\ FlattenSeq(seqs) \in Seq(PlainQueries)
      /\ Range(FlattenSeq(seqs)) = UNION {Range(seqs[i]) : i \in 1 .. Len(seqs)}
  BY <1>4, FlattenRange
<1>6. \A id \in Range(ids) : \E i \in 1 .. Len(ids) : ids[i] = id
  BY <1>1 DEF Range
<1>7. \A id \in Range(ids) : Range(ClientPlan(s, id)) \subseteq Range(FlattenSeq(seqs))
  <2> SUFFICES ASSUME NEW id \in Range(ids)
               PROVE  Range(ClientPlan(s, id)) \subseteq Range(FlattenSeq(seqs))
    OBVIOUS
  <2>1. PICK i \in 1 .. Len(seqs) : ids[i] = id
    BY <1>4, <1>6
  <2>2. Range(seqs[i]) \subseteq UNION {Range(seqs[j]) : j \in 1 .. Len(seqs)}
    OBVIOUS
  <2>3. seqs[i] = ClientPlan(s, id)
    BY <1>3, <1>4, <2>1
  <2> QED
    BY <1>5, <2>2, <2>3
<1>8. ids = <<>> => FlattenSeq(seqs) = <<>>
  BY <1>4, FlattenIsFlat
<1> QED
  BY <1>5, <1>7, <1>8 DEF ClientsPlan, seqs

-----------------------------------------------------------------------------
(* The start of a session.                                                  *)

\* The queries of any kind.
LEMMA QueryKinds ==
    /\ PlainQueries \subseteq Queries /\ NameQueries \subseteq Queries
    /\ ServerQueries \subseteq Queries
    /\ \A q \in Queries : q.by \in Handlers /\ q.topic \in Topics \cup {None}
    /\ \A q \in ServerQueries : q.by \in MetricQueries
    /\ \A q \in NameQueries : q.by = "names"
    /\ \A q \in Queries : q.by # "names" => q \in PlainQueries
<1>1. \A q \in PlainQueries :
         q.by \in MetricQueries \cup {"topics"} /\ q.topic \in Topics \cup {None}
  BY DEF PlainQueries
<1>2. \A q \in NameQueries : q.by = "names" /\ q.topic = None
  <2>1. \A m : Query("names", None, None, m).by = "names" /\ Query("names", None, None, m).topic = None
    BY DEF Query
  <2> QED
    BY <2>1, Zenon DEF NameQueries
<1>3. \A q \in ServerQueries : q \in PlainQueries /\ q.by # "topics"
  BY DEF ServerQueries
<1> QED
  BY <1>1, <1>2, <1>3 DEF Queries, Handlers

\* What is asked first is what is planned first.
LEMMA SessionInitPlan ==
    ASSUME Init
    PROVE  /\ session \in Sessions /\ clients \in Seq(ClientIds)
           /\ IF session.kind \in ClientKinds THEN todo \in Seq(Queries)
                                              ELSE todo \in Seq(ServerQueries)
           /\ PlannedFirst \subseteq Range(todo)
           /\ session.kind \in ClientKinds /\ clients = <<>> =>
                 Range(DetectionPlan(session)) \subseteq Range(todo)
           /\ \A id \in Range(clients) : Listed(id) => TopicsQuery(id) \in Range(todo)
<1> USE DEF Init
<1>1. /\ session \in Sessions /\ session.name \in ClientIds \cup {None}
      /\ session.kind \in {"broker", "cluster", "consumer", "producer"}
      /\ clients = IF session.name = None THEN <<>> ELSE <<session.name>>
      /\ clients \in Seq(ClientIds)
  BY SessionShape
<1>2. CASE session.kind = "broker"
  <2>1. PICK sizes \in SetToSeqs(Range(session.topics)), offsets \in SetToSeqs(Range(session.topics)) :
           todo = BrokerPlan(session, sizes, offsets)
    BY <1>2
  <2>2. /\ todo \in Seq(ServerQueries)
        /\ Range(todo) = Range(BrokerPlan(session, session.topics, session.topics))
    BY <1>1, <2>1, BrokerPlanQueries
  <2>3. PlannedFirst = Range(todo)
    BY <1>2, <2>2 DEF PlannedFirst
  <2> QED
    BY <1>1, <1>2, <2>2, <2>3 DEF ClientKinds, Listed
<1>3. CASE session.kind = "cluster"
  <2>1. todo = ClusterPlan(session) /\ PlannedFirst = Range(todo)
    BY <1>3 DEF PlannedFirst
  <2>2. todo \in Seq(ServerQueries)
    BY <2>1, ClusterPlanQueries
  <2> QED
    BY <1>1, <1>3, <2>1, <2>2 DEF ClientKinds, Listed
<1>4. CASE session.kind \in ClientKinds
  <2>1. /\ todo = DetectionPlan(session) \o ClientsPlan(session, clients)
        /\ PlannedFirst = Range(ClientsPlan(session, clients))
    BY <1>4 DEF PlannedFirst, ClientKinds
  <2>2. /\ DetectionPlan(session) \in Seq(Queries)
        /\ ClientsPlan(session, clients) \in Seq(Queries)
        /\ \A id \in Range(clients) :
              Range(ClientPlan(session, id)) \subseteq Range(ClientsPlan(session, clients))
    BY <1>1, <1>4, DetectionPlanQueries, ClientsPlanQueries, SeqMonotonic, QueryKinds
  <2>3. /\ todo \in Seq(Queries)
        /\ Range(todo) = Range(DetectionPlan(session)) \cup Range(ClientsPlan(session, clients))
    BY <2>1, <2>2, ConcatQueries
  <2>4. \A id \in Range(clients) : Listed(id) => TopicsQuery(id) \in Range(ClientPlan(session, id))
    BY DEF Listed
  <2> QED
    BY <1>1, <1>4, <2>1, <2>2, <2>3, <2>4
<1> QED
  BY <1>1, <1>2, <1>3, <1>4 DEF ClientKinds

\* The start of a session.
LEMMA SessionInitInv == Init => SessionInv
<1> SUFFICES ASSUME Init PROVE SessionInv
  OBVIOUS
<1>1. SessionTypes
  BY SessionInitPlan DEF Init, SessionTypes
<1>2. CoverInv
  BY SessionInitPlan DEF CoverInv, Covered
<1> QED
  BY <1>1, <1>2 DEF SessionInv

-----------------------------------------------------------------------------
(* Steps.                                                                   *)

\* The queries for the topics of a producer are for definitions.
LEMMA TopicDefinitions ==
    ASSUME NEW id
    PROVE  \A q \in PlannedOf(id) : q.by = "definitions"
<1>1. ASSUME NEW t, NEW q \in Range(Definitions("producerTopic", id, t))
      PROVE  q.by = "definitions"
  <2>1. PICK k \in DOMAIN Tables["producerTopic"] :
           q = Query("definitions", id, t, Tables["producerTopic"][k])
    BY DEF Definitions, Each, Range
  <2> QED
    BY <2>1 DEF Query
<1> QED
  BY <1>1, Zenon DEF PlannedOf

\* A step that takes h from the queries, or leaves it, keeps what is covered, if it
\* does what it should of h.
LEMMA CoverStep ==
    ASSUME SessionInv, todo # <<>>, UNCHANGED <<session, clients>>, NEW h, h = Head(todo),
           failed \subseteq failed', answered \subseteq answered', reported \subseteq reported',
           Range(Tail(todo)) \subseteq Range(todo'),
           h.by \in MetricQueries => Covered(h)',
           h.by = "names" => h \in failed' \cup {p[1] : p \in answered'},
           \A id \in Range(clients) :
              h = TopicsQuery(id) /\ Listed(id)' => \A q \in PlannedOf(id) : Covered(q)'
    PROVE  CoverInv'
<1>1. Range(todo) = {h} \cup Range(Tail(todo))
  <2>1. \E S : todo \in Seq(S)
    BY DEF SessionInv, SessionTypes
  <2> QED
    BY <2>1, HeadOrTail
<1>2. \A q : DoneWith(q) => DoneWith(q)'
  BY DEF DoneWith
<1>3. \A q : Covered(q) /\ q # h => Covered(q)'
  BY <1>1, <1>2 DEF Covered
<1>4. /\ PlannedFirst' = PlannedFirst
      /\ \A id : Listed(id)' => Listed(id)
      /\ \A id : PlannedOf(id)' = PlannedOf(id)
  <2>1. /\ PlannedFirst' = PlannedFirst
        /\ \A id : PlannedOf(id)' = PlannedOf(id)
    BY DEF PlannedFirst, PlannedOf, Wanted
  <2>2. \A id : Listed(id)' => Listed(id)
    BY DEF Listed
  <2> QED
    BY <2>1, <2>2
<1>5. ASSUME NEW q \in PlannedFirst, q.by \in MetricQueries
      PROVE  Covered(q)'
  <2>1. Covered(q)
    BY <1>5 DEF SessionInv, CoverInv
  <2> QED
    BY <1>3, <1>5, <2>1
<1>6. ASSUME NEW id \in Range(clients), Listed(id)'
      PROVE  TopicsQuery(id) \in Range(todo') \/ \A q \in PlannedOf(id) : Covered(q)'
  <2>1. CASE TopicsQuery(id) \in Range(todo)
    BY <1>1, <1>6, <2>1
  <2>2. CASE \A q \in PlannedOf(id) : Covered(q)
    <3>1. \A q \in PlannedOf(id) : q.by = "definitions"
      BY TopicDefinitions
    <3>2. "definitions" \in MetricQueries
      BY DEF MetricQueries
    <3> QED
      BY <1>3, <2>2, <3>1, <3>2
  <2>3. Listed(id)
    BY <1>4, <1>6
  <2> QED
    BY <2>1, <2>2, <2>3 DEF SessionInv, CoverInv
<1>7. ASSUME session.kind \in ClientKinds, clients = <<>>
      PROVE  Range(DetectionPlan(session)) \subseteq Range(todo') \cup failed' \cup {p[1] : p \in answered'}
  <2>1. Range(DetectionPlan(session)) \subseteq Range(todo) \cup failed \cup {p[1] : p \in answered}
    BY <1>7 DEF SessionInv, CoverInv
  <2>2. \A q \in Range(DetectionPlan(session)) : q.by = "names"
    BY DetectionPlanQueries, QueryKinds
  <2>3. {p[1] : p \in answered} \subseteq {p[1] : p \in answered'}
    OBVIOUS
  <2> QED
    BY <1>1, <2>1, <2>2, <2>3
<1>8. /\ \A q \in PlannedFirst' : q.by \in MetricQueries => Covered(q)'
      /\ \A id \in Range(clients') :
            Listed(id)' => TopicsQuery(id) \in Range(todo') \/ \A q \in PlannedOf(id)' : Covered(q)'
  BY <1>4, <1>5, <1>6
<1>9. session'.kind \in ClientKinds /\ clients' = <<>> =>
         Range(DetectionPlan(session')) \subseteq Range(todo') \cup failed' \cup {p[1] : p \in answered'}
  BY <1>7
<1> QED
  BY <1>8, <1>9 DEF CoverInv

\* The first of the queries, and the others.
LEMMA FirstQuery ==
    ASSUME SessionInv, todo # <<>>
    PROVE  /\ session.kind \notin ClientKinds =>
                 Head(todo) \in ServerQueries /\ Tail(todo) \in Seq(ServerQueries)
           /\ Head(todo) \in Queries /\ Tail(todo) \in Seq(Queries)
           /\ Range(todo) = {Head(todo)} \cup Range(Tail(todo))
<1>1. todo \in Seq(Queries)
  BY QueryKinds, SeqMonotonic DEF SessionInv, SessionTypes
<1>2. session.kind \notin ClientKinds => todo \in Seq(ServerQueries)
  BY DEF SessionInv, SessionTypes
<1> QED
  BY <1>1, <1>2, HeadOrTail

\* A query fails and the next one follows.
LEMMA QueryFailsInv ==
    ASSUME SessionInv, NEW e \in Errors, QueryFails(e)
    PROVE  SessionInv'
<1> DEFINE h == Head(todo)
<1>1. /\ todo # <<>> /\ todo' = Tail(todo) /\ failed' = failed \cup {h}
      /\ UNCHANGED <<session, pc, clients, answered, reported>> /\ pc = "run"
  BY DEF QueryFails
<1>2. SessionTypes'
  BY <1>1, FirstQuery DEF SessionInv, SessionTypes
<1>3. CoverInv'
  <2>1. h \in failed'
    BY <1>1
  <2>3. PICK x : x = h
    OBVIOUS
  <2>4. Covered(x)' /\ x \in failed'
    BY <2>1, <2>3 DEF Covered, DoneWith
  <2>5. \A id \in Range(clients) : x = TopicsQuery(id) => ~Listed(id)'
    BY <2>4 DEF Listed
  <2> HIDE DEF h
  <2> QED
    BY <1>1, <2>3, <2>4, <2>5, CoverStep DEF h
<1> QED
  BY <1>2, <1>3 DEF SessionInv

\* A query fails and the process exits.
LEMMA QueryExitsInv ==
    ASSUME SessionInv, NEW e \in Errors, QueryExits(e)
    PROVE  SessionInv'
<1> DEFINE h == Head(todo)
<1>1. /\ todo # <<>> /\ todo' = todo /\ failed' = failed \cup {h} /\ pc' = "exited"
      /\ UNCHANGED <<session, clients, answered, reported>>
  BY DEF QueryExits
<1>2. SessionTypes'
  BY <1>1, FirstQuery DEF SessionInv, SessionTypes
<1>3. CoverInv'
  <2>1. h \in failed'
    BY <1>1
  <2>3. PICK x : x = h
    OBVIOUS
  <2>4. Covered(x)' /\ x \in failed'
    BY <2>1, <2>3 DEF Covered, DoneWith
  <2>5. \A id \in Range(clients) : x = TopicsQuery(id) => ~Listed(id)'
    BY <2>4 DEF Listed
  <2>6. Range(Tail(todo)) \subseteq Range(todo')
    BY <1>1, FirstQuery
  <2> HIDE DEF h
  <2> QED
    BY <1>1, <2>3, <2>4, <2>5, <2>6, CoverStep DEF h
<1> QED
  BY <1>2, <1>3 DEF SessionInv

\* The last query is done with.
LEMMA ReturnInv ==
    ASSUME SessionInv, Return
    PROVE  SessionInv'
<1> USE DEF Return
<1>1. SessionTypes'
  BY DEF SessionInv, SessionTypes
<1>2. CoverInv' = CoverInv
  BY DEF CoverInv, Covered, DoneWith, PlannedFirst, PlannedOf, Wanted, Listed
<1> QED
  BY <1>1, <1>2 DEF SessionInv

\* Nothing changes.
LEMMA SessionRestInv ==
    ASSUME SessionInv, UNCHANGED vars
    PROVE  SessionInv'
<1> USE DEF vars
<1>1. SessionTypes'
  BY DEF SessionInv, SessionTypes
<1>2. CoverInv' = CoverInv
  BY DEF CoverInv, Covered, DoneWith, PlannedFirst, PlannedOf, Wanted, Listed
<1> QED
  BY <1>1, <1>2 DEF SessionInv

\* The queries for metrics: whom they are about, and what they ask for.
LEMMA MetricQueryShape ==
    ASSUME NEW h \in Queries, h.by \in MetricQueries
    PROVE  /\ h.of \in ClientIds \cup {Self} /\ h.topic \in Topics \cup {None}
           /\ h.metrics \subseteq Metrics
<1>1. h \in PlainQueries
  BY QueryKinds DEF MetricQueries
<1> QED
  BY <1>1 DEF PlainQueries

\* What is reported of an answer a to query h.
News(h, a) == {<<h.of, h.topic, m, Value(h.by, a[m])>> :
                  m \in {n \in h.metrics : Value(h.by, a[n]) # None}}

\* A query is answered.
LEMMA AnswerInv ==
    ASSUME SessionInv, Answer
    PROVE  SessionInv'
<1>1. PICK h, a : /\ h = Head(todo) /\ a \in Answers(h)
                  /\ answered' = answered \cup {<<h, a>>}
                  /\ reported' = reported \cup News(h, a)
  BY DEF Answer, News
<1>2. /\ todo # <<>> /\ h.by \in MetricQueries /\ todo' = Tail(todo) /\ pc = "run"
      /\ UNCHANGED <<session, pc, clients, failed>>
  BY <1>1 DEF Answer, Asking
<1>3. h \in Queries /\ Range(todo) = {h} \cup Range(todo')
  BY <1>1, <1>2, FirstQuery
<1>4. /\ h.of \in ClientIds \cup {Self} /\ h.topic \in Topics \cup {None}
      /\ h.metrics \subseteq Metrics
  BY <1>2, <1>3, MetricQueryShape
<1>5. \A m \in h.metrics :
         a[m] \in Values /\ (h.by \in {"definitions", "configs"} => Len(a[m]) <= 1)
  BY <1>1, SessionAssumption DEF Answers, Values
<1>6. News(h, a) \subseteq (ClientIds \cup {Self}) \X (Topics \cup {None})
                              \X Metrics \X Nat
  <2>1. \A m \in h.metrics : Value(h.by, a[m]) # None => Value(h.by, a[m]) \in Nat
    BY <1>2, <1>5, ValueIsNumber
  <2> QED
    BY <1>4, <2>1 DEF News
<1>7. SessionTypes'
  <2>1. \A p \in answered' : p[1] \in Queries
    BY <1>1, <1>3 DEF SessionInv, SessionTypes
  <2>2. reported' \subseteq (ClientIds \cup {Self}) \X (Topics \cup {None})
                              \X Metrics \X Nat
    BY <1>1, <1>6 DEF SessionInv, SessionTypes
  <2> QED
    BY <1>2, <2>1, <2>2, FirstQuery DEF SessionInv, SessionTypes
<1>8. CoverInv'
  <2>1. ASSUME NEW m \in h.metrics, Usable(h.by, a[m])
        PROVE  <<h.of, h.topic, m, Sum(a[m])>> \in News(h, a)
    <3>1. Value(h.by, a[m]) = Sum(a[m]) /\ Sum(a[m]) \in Nat
      BY <1>2, <1>5, <2>1, ValueOfUsable
    <3>2. Value(h.by, a[m]) # None
      BY <3>1, SessionAssumption
    <3> QED
      BY <2>1, <3>1, <3>2 DEF News
  <2>2. DoneWith(h)'
    <3> DEFINE p == <<h, a>>
    <3>1. p \in answered' /\ p[1] = h /\ p[2] = a
      BY <1>1
    <3>2. \A m \in h.metrics :
             Usable(h.by, p[2][m]) => <<h.of, h.topic, m, Sum(p[2][m])>> \in reported'
      BY <1>1, <2>1, <3>1
    <3> HIDE DEF p
    <3> QED
      BY <3>1, <3>2 DEF DoneWith
  <2>3. Covered(h)'
    BY <2>2 DEF Covered
  <2>4. \A id : h # TopicsQuery(id)
    BY <1>2 DEF TopicsQuery, Query, MetricQueries
  <2>5. h.by # "names"
    BY <1>2 DEF MetricQueries
  <2>6. answered \subseteq answered' /\ reported \subseteq reported' /\ failed \subseteq failed'
    BY <1>1, <1>2
  <2> QED
    BY <1>1, <1>2, <2>3, <2>4, <2>5, <2>6, CoverStep
<1> QED
  BY <1>7, <1>8 DEF SessionInv

\* Only a client is sought or asked for its topics.
LEMMA ClientsOnly ==
    ASSUME SessionInv, todo # <<>>, Head(todo).by \in {"names", "topics"}
    PROVE  /\ session.kind \in ClientKinds
           /\ Tail(todo) \in Seq(Queries)
           /\ Head(todo).by = "topics" => Head(todo).of \in ClientIds \cup {Self}
<1>1. session.kind \in ClientKinds
  BY FirstQuery, QueryKinds DEF MetricQueries
<1>2. Tail(todo) \in Seq(Queries) /\ Head(todo) \in Queries
  BY FirstQuery
<1>3. Head(todo).by = "topics" => Head(todo) \in PlainQueries
  BY <1>2, QueryKinds
<1> QED
  BY <1>1, <1>2, <1>3 DEF PlainQueries

\* A source answers with the names of MBeans.
LEMMA AnswerNamesInv ==
    ASSUME SessionInv, AnswerNames
    PROVE  SessionInv'
<1>1. PICK h, ids : /\ h = Head(todo) /\ ids \in Detected
                    /\ IF ids = <<>>
                       THEN todo' = Tail(todo) /\ UNCHANGED clients
                       ELSE clients' = ids /\ todo' = ClientsPlan(session, ids)
                    /\ answered' = answered \cup {<<h, None>>}
  BY DEF AnswerNames
<1>2. /\ todo # <<>> /\ h.by = "names" /\ pc = "run"
      /\ UNCHANGED <<session, pc, failed, reported>>
  BY <1>1 DEF AnswerNames, Asking
<1>3. h \in Queries /\ session.kind \in ClientKinds /\ session \in Sessions /\ ids \in Seq(ClientIds)
  BY <1>1, <1>2, FirstQuery, ClientsOnly, SessionAssumption DEF SessionInv, SessionTypes
<1>4. todo' \in Seq(Queries) /\ clients' \in Seq(ClientIds)
  <2>1. CASE ids = <<>>
    BY <1>1, <1>2, <2>1, ClientsOnly DEF SessionInv, SessionTypes
  <2>2. CASE ids # <<>>
    <3>1. todo' \in Seq(PlainQueries)
      BY <1>1, <1>3, <2>2, ClientsPlanQueries
    <3> QED
      BY <1>1, <1>3, <2>2, <3>1, SeqMonotonic, QueryKinds
  <2> QED
    BY <2>1, <2>2
<1>5. /\ \A p \in answered' : p[1] \in Queries
      /\ h \in {p[1] : p \in answered'}
  <2> DEFINE p == <<h, None>>
  <2>1. p[1] = h /\ answered' = answered \cup {p}
    BY <1>1
  <2> HIDE DEF p
  <2> QED
    BY <1>3, <2>1 DEF SessionInv, SessionTypes
<1>6. SessionTypes'
  BY <1>2, <1>3, <1>4, <1>5 DEF SessionInv, SessionTypes
<1>7. CoverInv'
  <2>1. CASE ids = <<>>
    <3>1. h.by \notin MetricQueries /\ \A id : h # TopicsQuery(id)
      BY <1>2 DEF MetricQueries, TopicsQuery, Query
    <3>2. /\ UNCHANGED <<session, clients>> /\ Range(Tail(todo)) \subseteq Range(todo')
          /\ failed \subseteq failed' /\ answered \subseteq answered' /\ reported \subseteq reported'
      BY <1>1, <1>2, <2>1
    <3> QED
      BY <1>1, <1>2, <1>5, <3>1, <3>2, CoverStep
  <2>2. CASE ids # <<>>
    <3>1. clients' = ids /\ todo' = ClientsPlan(session, ids)
      BY <1>1, <2>2
    <3>2. PlannedFirst' = Range(todo')
      BY <1>2, <1>3, <3>1 DEF PlannedFirst, ClientKinds
    <3>3. \A id \in Range(clients') : Listed(id)' => TopicsQuery(id) \in Range(todo')
      <4>1. \A id : Listed(id)' => TopicsQuery(id) \in Range(ClientPlan(session, id))
        BY <1>2 DEF Listed
      <4>2. \A id \in Range(ids) : Range(ClientPlan(session, id)) \subseteq Range(todo')
        BY <1>3, <3>1, ClientsPlanQueries
      <4> QED
        BY <3>1, <4>1, <4>2
    <3>4. \A q \in PlannedFirst' : Covered(q)'
      BY <3>2 DEF Covered
    <3> QED
      BY <2>2, <3>1, <3>3, <3>4 DEF CoverInv
  <2> QED
    BY <2>1, <2>2
<1> QED
  BY <1>6, <1>7 DEF SessionInv

\* The topics of a producer are listed.
LEMMA AnswerTopicsInv ==
    ASSUME SessionInv, AnswerTopics
    PROVE  SessionInv'
<1> DEFINE present == IF TopicBeans = session.kind THEN Range(session.topics) ELSE {}
           wanted  == IF session.mode = "regex" THEN present \cap session.matching ELSE present
<1>1. PICK h, topics : /\ h = Head(todo) /\ topics \in SetToSeqs(wanted)
                       /\ todo' = TopicPlan(session, h.of, topics) \o Tail(todo)
  BY DEF AnswerTopics
<1>2. /\ todo # <<>> /\ h.by = "topics" /\ pc = "run"
      /\ UNCHANGED <<session, pc, clients, answered, failed, reported>>
  BY <1>1 DEF AnswerTopics, Asking
<1>3. /\ session.kind \in ClientKinds /\ session \in Sessions /\ h.of \in ClientIds \cup {Self}
      /\ Tail(todo) \in Seq(Queries)
  BY <1>1, <1>2, ClientsOnly DEF SessionInv, SessionTypes
<1>4. topics \in Seq(Topics) /\ Range(topics) = wanted
  <2>1. wanted \subseteq Range(session.topics)
    OBVIOUS
  <2> HIDE DEF wanted
  <2>2. IsFiniteSet(wanted) /\ wanted \subseteq Topics
    BY <1>3, <2>1, SessionShape, FS_Subset
  <2> QED
    BY <1>1, <2>2, SetToSeqsRange, SeqMonotonic
<1>5. /\ TopicPlan(session, h.of, topics) \in Seq(ServerQueries)
      /\ session.kind = "producer" =>
            Range(TopicPlan(session, h.of, topics))
               = UNION {Range(Definitions("producerTopic", h.of, t)) : t \in wanted}
  <2> HIDE DEF wanted
  <2>1. /\ TopicPlan(session, h.of, topics) \in Seq(ServerQueries)
        /\ session.kind = "producer" =>
              Range(TopicPlan(session, h.of, topics))
                 = UNION {Range(Definitions("producerTopic", h.of, t)) : t \in Range(topics)}
    BY <1>3, <1>4, TopicPlanQueries
  <2> QED
    BY <1>4, <2>1
<1>6. /\ todo' \in Seq(Queries)
      /\ Range(todo') = Range(TopicPlan(session, h.of, topics)) \cup Range(Tail(todo))
  <2>1. TopicPlan(session, h.of, topics) \in Seq(Queries)
    BY <1>5, SeqMonotonic, QueryKinds
  <2> DEFINE plan == TopicPlan(session, h.of, topics)
             rest == Tail(todo)
  <2>2. /\ plan \in Seq(Queries) /\ rest \in Seq(Queries)
        /\ todo' = plan \o rest
    BY <1>1, <1>3, <2>1
  <2> HIDE DEF plan, rest, wanted, present
  <2>3. /\ plan \o rest \in Seq(Queries)
        /\ Range(plan \o rest) = Range(plan) \cup Range(rest)
    BY <2>2, ConcatQueries
  <2> QED
    BY <2>2, <2>3 DEF plan, rest
<1>7. SessionTypes'
  BY <1>2, <1>3, <1>6 DEF SessionInv, SessionTypes
<1>8. CoverInv'
  <2>1. ASSUME NEW id \in Range(clients), h = TopicsQuery(id), Listed(id)'
        PROVE  \A q \in PlannedOf(id) : Covered(q)'
    <3>1. session.kind = "producer" /\ TopicsQuery(id) \in Range(ClientPlan(session, id))
      BY <1>2, <2>1 DEF Listed
    <3>2. id \in ClientIds
      BY RangeOfSeq DEF SessionInv, SessionTypes
    <3>3. session.mode \in {"all", "regex"}
      BY <1>3, <3>1, <3>2, ClientPlanQueries
    <3>4. wanted = Wanted
      BY <3>1, <3>3 DEF Wanted, TopicBeans
    <3>5. h.of = id
      BY <2>1 DEF TopicsQuery, Query
    <3>6. PlannedOf(id) = Range(TopicPlan(session, h.of, topics))
      BY <1>5, <3>1, <3>4, <3>5 DEF PlannedOf
    <3> HIDE DEF wanted
    <3> QED
      BY <1>6, <3>6 DEF Covered
  <2>2. h.by \notin MetricQueries /\ h.by # "names"
    BY <1>2 DEF MetricQueries
  <2>3. /\ UNCHANGED <<session, clients>> /\ Range(Tail(todo)) \subseteq Range(todo')
        /\ failed \subseteq failed' /\ answered \subseteq answered' /\ reported \subseteq reported'
    BY <1>2, <1>6
  <2> HIDE DEF wanted
  <2> QED
    BY <1>1, <1>2, <2>1, <2>2, <2>3, CoverStep
<1> QED
  BY <1>7, <1>8 DEF SessionInv

-----------------------------------------------------------------------------
(* The theorems.                                                            *)

\* Every step of a session keeps the invariant.
LEMMA SessionNextInv == SessionInv /\ [Next]_vars => SessionInv'
<1> SUFFICES ASSUME SessionInv, [Next]_vars PROVE SessionInv'
  OBVIOUS
<1>1. CASE Step
  <2>1. CASE Answer \/ AnswerNames \/ AnswerTopics
    BY <2>1, AnswerInv, AnswerNamesInv, AnswerTopicsInv
  <2>2. CASE \E e \in Errors : QueryFails(e) \/ QueryExits(e)
    BY <2>2, QueryFailsInv, QueryExitsInv
  <2> QED
    BY <1>1, <2>1, <2>2, ReturnInv DEF Step
<1>2. CASE Rest \/ UNCHANGED vars
  BY <1>2, SessionRestInv DEF Rest
<1> QED
  BY <1>1, <1>2 DEF Next

\* The inductive invariant of the queries over one JMX connection (metrics/metrics.go
\* and its callers).
THEOREM SessionInvariant == Spec => []SessionInv
  BY SessionInitInv, SessionNextInv, PTL DEF Spec

\* Every state of a session is well typed; what is reported is a number.
THEOREM SessionTypeOK == Spec => []TypeOK
<1>1. SessionInv => TypeOK
  <2> SUFFICES ASSUME SessionInv PROVE TypeOK
    OBVIOUS
  <2> USE DEF SessionInv, SessionTypes
  <2>1. Range(clients) \subseteq ClientIds
    BY RangeOfSeq
  <2>2. Range(todo) \subseteq Queries
    BY RangeOfSeq, QueryKinds
  <2>3. \A q \in Range(todo) \cup failed \cup {p[1] : p \in answered} : q \in Queries
    BY <2>2
  <2>4. \A r \in reported : r[1] \in ClientIds \cup {Self} /\ r[4] \in Nat
    OBVIOUS
  <2> QED
    BY <2>1, <2>3, <2>4, QueryKinds DEF TypeOK
<1> QED
  BY <1>1, SessionInvariant, PTL

\* Nothing left means that everything planned is done with: a session that returns has
\* lost the metrics of the queries that failed and no others
\* (CollectMetricDefinitions, getClientIDS).
THEOREM SessionFailuresAreLocal == Spec => []FailuresAreLocal
<1>1. SessionInv => FailuresAreLocal
  <2> SUFFICES ASSUME SessionInv, pc = "returned" PROVE FailuresAreLocal
    BY DEF FailuresAreLocal
  <2>1. todo = <<>> /\ Range(todo) = {}
    BY DEF SessionInv, SessionTypes, Range
  <2>2. \A q : Covered(q) => DoneWith(q)
    BY <2>1 DEF Covered
  <2>3. ASSUME NEW q \in Planned, q.by \in MetricQueries
        PROVE  DoneWith(q)
    <3>1. CASE q \in PlannedFirst
      BY <2>2, <2>3, <3>1 DEF SessionInv, CoverInv
    <3>2. CASE \E id \in Range(clients) : Listed(id) /\ q \in PlannedOf(id)
      BY <2>1, <2>2, <3>2 DEF SessionInv, CoverInv
    <3> QED
      BY <2>3, <3>1, <3>2 DEF Planned, PlannedFirst, PlannedOf
  <2>4. session.kind \in {"consumer", "producer"} /\ clients = <<>> =>
           Range(DetectionPlan(session)) \subseteq failed \cup {p[1] : p \in answered}
    BY <2>1 DEF SessionInv, CoverInv, ClientKinds
  <2> QED
    BY <2>3, <2>4, Zenon DEF FailuresAreLocal, DoneWith
<1> QED
  BY <1>1, SessionInvariant, PTL

==============================================================================
