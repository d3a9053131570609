----------------------- MODULE TopicSelectionProofs -----------------------
(***************************************************************************)
(* For every number of topics and instances, every limit and every width:  *)
(* no topic is collected twice; and, when the int is wider than the hash,  *)
(* no topic is lost.                                                        *)
(***************************************************************************)
EXTENDS TopicSelection, FiniteSetTheorems, TLAPS

\* The inductive invariant: types, what a listing holds, what a selection keeps.
ListingOK(i)   == phase[i] \in {"listed", "collecting"} => founding \subseteq listed[i]
SelectionOK(i) == phase[i] = "collecting" =>
                      collected[i] = IF TooMany(i) THEN {} ELSE FilterByBucket(i)
EmptyBefore(i) == phase[i] # "collecting" => collected[i] = {}
Shape ==
    /\ collected \in [Instances -> SUBSET Topics]
    /\ \A i \in Instances : ListingOK(i) /\ SelectionOK(i) /\ EmptyBefore(i)
SelectionInv == TypeOK /\ Shape

\* The share of an instance is a finite set of topics.
LEMMA ShareFinite ==
    ASSUME NEW i \in Instances, listed[i] \subseteq Topics
    PROVE  /\ FilterByBucket(i) \subseteq listed[i]
           /\ FilterByBucket(i) \subseteq Topics
           /\ Cardinality(FilterByBucket(i)) \in Nat
  <1>1. FilterByBucket(i) \subseteq listed[i] BY DEF FilterByBucket
  <1>2. FilterByBucket(i) \subseteq Topics BY <1>1
  <1>3. IsFiniteSet(Topics) BY SelectionAssumption
  <1>4. IsFiniteSet(FilterByBucket(i)) BY <1>2, <1>3, FS_Subset
  <1> QED BY <1>1, <1>2, <1>4, FS_CardinalityType

\* What an instance selects never exceeds maxTopics.
LEMMA SelectionBounded ==
    ASSUME NEW i \in Instances, listed[i] \subseteq Topics, ~TooMany(i)
    PROVE  Cardinality(FilterByBucket(i)) <= MaxTopics
  <1>1. Cardinality(FilterByBucket(i)) \in Nat BY ShareFinite
  <1>2. MaxTopics \in Nat BY SelectionAssumption
  <1> QED BY <1>1, <1>2 DEF TooMany

\* Before any instance has listed the topics.
LEMMA InitShape == Init => SelectionInv
  <1> SUFFICES ASSUME Init PROVE SelectionInv OBVIOUS
  <1>1. Cardinality({}) = 0 BY FS_EmptySet
  <1>2. MaxTopics \in Nat BY SelectionAssumption
  <1>3. TypeOK BY <1>1, <1>2 DEF Init, TypeOK
  <1>4. Shape BY DEF Init, Shape, ListingOK, SelectionOK, EmptyBefore
  <1> QED BY <1>3, <1>4 DEF SelectionInv

\* The selection of instance i keeps its own entry right and leaves the others.
LEMMA SelectStep ==
    ASSUME SelectionInv, NEW i \in Instances, SelectTopics(i)
    PROVE  SelectionInv'
  <1> USE DEF SelectionInv
  <1>0. Instances' = Instances BY DEF SelectTopics, Instances
  <1>1. listed[i] \subseteq Topics BY DEF TypeOK
  <1>2. FilterByBucket(i) \subseteq listed[i] /\ FilterByBucket(i) \subseteq Topics
      BY <1>1, ShareFinite
  <1>3. collected' = [collected EXCEPT ![i] = IF TooMany(i) THEN {} ELSE FilterByBucket(i)]
      BY DEF SelectTopics
  <1>4. collected' \in [Instances -> SUBSET Topics] BY <1>2, <1>3 DEF Shape
  <1>5. \A j \in Instances : j # i => collected'[j] = collected[j] BY <1>3 DEF Shape
  <1>6. collected'[i] = IF TooMany(i) THEN {} ELSE FilterByBucket(i) BY <1>3 DEF Shape
  <1>7. Cardinality({}) = 0 /\ MaxTopics \in Nat BY FS_EmptySet, SelectionAssumption
  <1>8. collected'[i] \subseteq listed[i] /\ Cardinality(collected'[i]) <= MaxTopics
    <2>1. CASE TooMany(i) BY <2>1, <1>6, <1>7
    <2>2. CASE ~TooMany(i) BY <2>2, <1>1, <1>2, <1>6, SelectionBounded
    <2> QED BY <2>1, <2>2
  <1>9. phase' \in [Instances -> {"start", "listed", "collecting", "failed"}]
      BY DEF SelectTopics, TypeOK
  <1>10. TypeOK'
      BY <1>0, <1>5, <1>8, <1>9 DEF TypeOK, SelectTopics
  <1>11. \A j \in Instances : (TooMany(j))' = TooMany(j) /\ (FilterByBucket(j))' = FilterByBucket(j)
      BY DEF SelectTopics, TooMany, FilterByBucket, InBucket, ToInt, Rem
  <1>12. \A j \in Instances : (ListingOK(j) /\ SelectionOK(j) /\ EmptyBefore(j))'
    <2> SUFFICES ASSUME NEW j \in Instances PROVE (ListingOK(j) /\ SelectionOK(j) /\ EmptyBefore(j))'
        OBVIOUS
    <2>1. CASE j = i
        BY <2>1, <1>6, <1>11 DEF Shape, TypeOK, SelectTopics, ListingOK, SelectionOK, EmptyBefore
    <2>2. CASE j # i
        BY <2>2, <1>5, <1>11 DEF Shape, TypeOK, SelectTopics, ListingOK, SelectionOK, EmptyBefore
    <2> QED BY <2>1, <2>2
  <1> QED BY <1>0, <1>4, <1>10, <1>12 DEF Shape

\* An instance lists the topics, or fails to.
LEMMA ListStep ==
    ASSUME SelectionInv, NEW i \in Instances, ListTopics(i) \/ ListTopicsFails(i)
    PROVE  SelectionInv'
  <1> USE DEF SelectionInv
  <1>0. Instances' = Instances BY DEF ListTopics, ListTopicsFails, Instances
  <1>1. \A j \in Instances : j # i => phase'[j] = phase[j] /\ listed'[j] = listed[j]
      BY DEF ListTopics, ListTopicsFails, TypeOK
  <1>2. collected' = collected /\ collected[i] = {}
      BY DEF ListTopics, ListTopicsFails, Shape, EmptyBefore
  <1>3. TypeOK'
    <2>1. CASE ListTopics(i)
        BY <2>1, <1>0, <1>1, <1>2 DEF TypeOK, ListTopics
    <2>2. CASE ListTopicsFails(i)
        BY <2>2, <1>0, <1>1, <1>2 DEF TypeOK, ListTopicsFails
    <2> QED BY <2>1, <2>2
  <1>4. \A j \in Instances : j # i => (TooMany(j))' = TooMany(j) /\ (FilterByBucket(j))' = FilterByBucket(j)
      BY <1>1 DEF ListTopics, ListTopicsFails, TooMany, FilterByBucket, InBucket, ToInt, Rem
  <1>5. \A j \in Instances : (ListingOK(j) /\ SelectionOK(j) /\ EmptyBefore(j))'
    <2> SUFFICES ASSUME NEW j \in Instances PROVE (ListingOK(j) /\ SelectionOK(j) /\ EmptyBefore(j))'
        OBVIOUS
    <2>1. CASE j = i
        BY <2>1, <1>2 DEF Shape, TypeOK, ListTopics, ListTopicsFails, ListingOK, SelectionOK, EmptyBefore
    <2>2. CASE j # i
        BY <2>2, <1>1, <1>2, <1>4 DEF Shape, TypeOK, ListTopics, ListTopicsFails, ListingOK, SelectionOK, EmptyBefore
    <2> QED BY <2>1, <2>2
  <1> QED BY <1>0, <1>2, <1>3, <1>5 DEF Shape

\* A step that leaves the instances alone: a topic is created, or nothing happens.
LEMMA ClusterStep ==
    ASSUME SelectionInv, (\E t \in Topics : CreateTopic(t)) \/ UNCHANGED vars
    PROVE  SelectionInv'
  <1> USE DEF SelectionInv
  <1>1. UNCHANGED <<hash, numBuckets, founding, phase, listed, collected>>
        /\ existing \subseteq existing' /\ existing' \subseteq Topics
      BY DEF CreateTopic, vars, TypeOK
  <1>2. TypeOK' BY <1>1 DEF TypeOK, Instances
  <1>3. Shape'
      BY <1>1 DEF Shape, Instances, ListingOK, SelectionOK, EmptyBefore, TooMany, FilterByBucket,
                  InBucket, ToInt, Rem
  <1> QED BY <1>2, <1>3

\* The inductive invariant holds of every behaviour: types, and each collection
\* is the share of its bucket or nothing.
THEOREM SelectionInvariant == Spec => []SelectionInv
  <1>1. SelectionInv /\ [Next]_vars => SelectionInv'
    <2> SUFFICES ASSUME SelectionInv, [Next]_vars PROVE SelectionInv' OBVIOUS
    <2>1. CASE \E t \in Topics : CreateTopic(t) BY <2>1, ClusterStep
    <2>2. CASE UNCHANGED vars BY <2>2, ClusterStep
    <2>3. ASSUME NEW i \in Instances, ListTopics(i) \/ ListTopicsFails(i) PROVE SelectionInv'
        BY <2>3, ListStep
    <2>4. ASSUME NEW i \in Instances, SelectTopics(i) PROVE SelectionInv' BY <2>4, SelectStep
    <2> QED BY <2>1, <2>2, <2>3, <2>4 DEF Next
  <1> QED BY <1>1, InitShape, PTL DEF Spec

\* Every variable has its type: the limits, the hashes and what each instance has
\* listed and collected.
THEOREM SelectionTypes == Spec => []TypeOK
  <1>1. SelectionInv => TypeOK BY DEF SelectionInv
  <1> QED BY <1>1, SelectionInvariant, PTL

\* No topic is collected by two instances (kafka.go:369), whatever the width of
\* int: a hash has one remainder.
THEOREM NoTopicTwice == Spec => []NeverTwice
  <1>1. SelectionInv => NeverTwice
    <2> SUFFICES ASSUME SelectionInv, NEW i \in Instances, NEW j \in Instances, i # j
                 PROVE  collected[i] \cap collected[j] = {}
        BY DEF NeverTwice
    <2>1. \A k \in Instances : \A t \in collected[k] : InBucket(t, k)
        BY DEF SelectionInv, Shape, SelectionOK, EmptyBefore, FilterByBucket
    <2>2. \A t : InBucket(t, i) /\ InBucket(t, j) => i = j BY DEF InBucket
    <2> QED BY <2>1, <2>2
  <1> QED BY <1>1, SelectionInvariant, PTL

\* int is wider than the hash: a 64-bit build.
WideInt == 2 * HashSize <= IntSize

\* A hash that does not fill the int falls in the bucket of an instance.
LEMMA BucketOfHash ==
    ASSUME TypeOK, WideInt, NEW t \in Topics
    PROVE  \E i \in Instances : InBucket(t, i)
  <1>1. hash[t] \in Nat /\ 2 * hash[t] < IntSize BY SelectionAssumption DEF TypeOK, WideInt
  <1>2. ToInt(hash[t]) = hash[t] BY <1>1, SelectionAssumption DEF ToInt
  <1>3. numBuckets \in Nat \ {0} BY SelectionAssumption DEF TypeOK
  <1>4. Rem(ToInt(hash[t]), numBuckets) = hash[t] % numBuckets BY <1>1, <1>2 DEF Rem
  <1>5. hash[t] % numBuckets \in 0 .. numBuckets - 1 BY <1>1, <1>3
  <1>6. (hash[t] % numBuckets) + 1 \in Instances BY <1>3, <1>5 DEF Instances
  <1> QED BY <1>4, <1>6 DEF InBucket

\* The partition of args.go:76 holds for every number of topics, of instances and
\* every limit when the int is wider than the hash, which is what the 32-bit
\* builds lack.
THEOREM NoTopicIsLost == ASSUME WideInt PROVE Spec => []NoTopicLost
  <1>1. SelectionInv => NoTopicLost
    <2> SUFFICES ASSUME SelectionInv, \A i \in Instances : phase[i] = "collecting", NEW t \in founding
                 PROVE  \E i \in Instances : InBucket(t, i) /\ (t \in collected[i] \/ OverLimit(i))
        BY DEF NoTopicLost
    <2>1. TypeOK /\ t \in Topics BY DEF SelectionInv, TypeOK
    <2>2. PICK i \in Instances : InBucket(t, i) BY <2>1, BucketOfHash
    <2>3. t \in listed[i] BY DEF SelectionInv, Shape, ListingOK
    <2>4. collected[i] = IF TooMany(i) THEN {} ELSE FilterByBucket(i)
        BY DEF SelectionInv, Shape, SelectionOK
    <2>5. CASE TooMany(i) BY <2>2, <2>5 DEF TooMany, FilterByBucket, OverLimit
    <2>6. CASE ~TooMany(i) BY <2>2, <2>3, <2>4, <2>6 DEF FilterByBucket
    <2> QED BY <2>5, <2>6
  <1> QED BY <1>1, SelectionInvariant, PTL
===========================================================================
