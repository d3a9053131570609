------------------------- MODULE PartitionPoolProofs -------------------------
(***************************************************************************)
(* For every number of workers and of partitions and every capacity of the  *)
(* channels: nothing is lost or doubled in the pipeline, no goroutine sends *)
(* on a closed channel, and the counts published for the topic are over     *)
(* exactly the partitions whose lookups succeeded.                          *)
(*                                                                          *)
(* The invariant has three parts: the queues and the goroutines that hold   *)
(* their elements (PoolTypes, StagesInv), the wait group and the order in   *)
(* which the stages end (EndsInv), and that every partition is in one place *)
(* (OnceInv).  A step of the pipeline takes the head of one queue and       *)
(* appends it to another, or drops it: one lemma each says that this keeps  *)
(* OnceInv.                                                                 *)
(***************************************************************************)
EXTENDS PartitionPool, FiniteSetTheorems, SequenceTheorems, TLAPS

PoolTypes ==
    /\ topic \in {"describe", "collect", "metrics", "done", "failed", "panicked"}
    /\ feeder \in {"ask", "send", "closed"}
    /\ count \in Counts \cup {0}
    /\ worker \in [Workers -> {"receive", "lookup", "send", "ended"}]
    /\ fwd \in [Workers -> {"receive", "send", "ended"}]
    /\ toFeed \in Seq(Indices)
    /\ in \in Seq(Indices) /\ Len(in) <= InCap
    /\ all \in Seq(Indices) /\ Len(all) <= AllCap
    /\ result \in Seq(Indices)
    /\ held \in [Workers -> Seq(Indices)]
    /\ out \in [Workers -> Seq(Indices)]
    /\ carried \in [Workers -> Seq(Indices)]
    /\ \A w \in Workers : Len(out[w]) <= OutCap
    /\ allClosed \in BOOLEAN /\ returned \in BOOLEAN
    /\ dropped \subseteq Indices

\* A goroutine holds a partition exactly between its receive and its send, and
\* nothing is in the pipeline before the feeder has asked.
StagesInv ==
    /\ \A w \in Workers : Len(held[w]) = IF worker[w] \in {"lookup", "send"} THEN 1 ELSE 0
    /\ \A w \in Workers : Len(carried[w]) = IF fwd[w] = "send" THEN 1 ELSE 0
    /\ feeder = "ask" =>
          /\ toFeed = <<>> /\ in = <<>> /\ all = <<>> /\ result = <<>>
          /\ \A w \in Workers : out[w] = <<>> /\ worker[w] = "receive" /\ fwd[w] = "receive"
          /\ count = 0 /\ dropped = {}
    /\ topic \in {"describe", "failed"} => feeder = "ask"

\* The forwarders that have not returned.
Forwarding == {w \in Workers : fwd[w] # "ended"}

\* The stages end one after the other, each with its input closed and drained.
EndsInv ==
    /\ feeder = "closed" => toFeed = <<>>
    /\ \A w \in Workers : worker[w] = "ended" => feeder = "closed" /\ in = <<>>
    /\ \A w \in Workers : fwd[w] = "ended" => worker[w] = "ended" /\ out[w] = <<>>
    /\ wg = Cardinality(Forwarding)
    /\ allClosed => wg = 0
    /\ returned => allClosed /\ all = <<>>
    /\ returned <=> topic \in {"metrics", "done", "panicked"}

\* The sample, once there is one, is that of the collected partitions.
SampleInv ==
    IF topic = "done"
    THEN \E responds \in {0, 1} :
            sample = <<[partitionCount    |-> Len(result),
                        replicationFactor |-> IF result = <<>> THEN 0 ELSE ReplicasOf[result[1]],
                        nonPreferred      |-> PartitionsIn(NonPreferred),
                        underReplicated   |-> PartitionsIn(UnderReplicated),
                        responds          |-> responds]>>
    ELSE sample = <<>>

Queues == [p \in Places |-> Queue(p)]

\* The queues of Q hold each member of K once, and nothing else.
HoldOnce(Q, K) ==
    /\ \A p, q \in DOMAIN Q : \A i \in DOMAIN Q[p], j \in DOMAIN Q[q] :
          Q[p][i] = Q[q][j] => p = q /\ i = j
    /\ \A k : k \in K <=> \E p \in DOMAIN Q : \E i \in DOMAIN Q[p] : Q[p][i] = k

\* Q is P with the head of queue a moved to the end of queue b.
Moved(P, Q, a, b) ==
    /\ a # b /\ P[a] # <<>>
    /\ Q[a] = Tail(P[a])
    /\ Q[b] = Append(P[b], Head(P[a]))
    /\ \A d \in DOMAIN P : d # a /\ d # b => Q[d] = P[d]

\* Q is P without the only element of queue a.
Emptied(P, Q, a) ==
    /\ Len(P[a]) = 1 /\ Q[a] = <<>>
    /\ \A d \in DOMAIN P : d # a => Q[d] = P[d]

Kept == (0 .. count - 1) \ dropped
OnceInv == HoldOnce(Queues, Kept)

PoolInv == PoolTypes /\ StagesInv /\ EndsInv /\ SampleInv /\ OnceInv

-----------------------------------------------------------------------------
(* Queues.                                                                  *)

\* Moving the head of one queue to the end of another keeps what they hold.
LEMMA MoveKeeps ==
  ASSUME NEW D, NEW S, NEW P \in [D -> Seq(S)], NEW Q \in [D -> Seq(S)], NEW K,
         NEW a \in D, NEW b \in D, Moved(P, Q, a, b), HoldOnce(P, K)
  PROVE  HoldOnce(Q, K)
<1>0. /\ a # b /\ P[a] # <<>>
      /\ Q[a] = Tail(P[a]) /\ Q[b] = Append(P[b], Head(P[a]))
      /\ \A d \in D : d # a /\ d # b => Q[d] = P[d]
  BY DEF Moved
<1> DEFINE From(d, i) == IF d = a THEN <<a, i + 1>>
                         ELSE IF d = b /\ i = Len(P[b]) + 1 THEN <<a, 1>> ELSE <<d, i>>
<1>1. /\ Len(P[a]) \in Nat \ {0} /\ Len(Q[a]) = Len(P[a]) - 1
      /\ \A i \in 1 .. Len(Q[a]) : i + 1 \in 1 .. Len(P[a]) /\ Q[a][i] = P[a][i + 1]
  BY <1>0
<1>2. /\ Len(P[b]) \in Nat /\ Len(Q[b]) = Len(P[b]) + 1
      /\ \A i \in 1 .. Len(P[b]) : Q[b][i] = P[b][i]
      /\ Q[b][Len(P[b]) + 1] = P[a][1]
  BY <1>0
<1>3. \A d \in D : DOMAIN P[d] = 1 .. Len(P[d]) /\ DOMAIN Q[d] = 1 .. Len(Q[d])
  OBVIOUS
<1>4. ASSUME NEW d \in D, NEW i \in DOMAIN Q[d]
      PROVE  \E e \in D : \E j \in DOMAIN P[e] : From(d, i) = <<e, j>> /\ Q[d][i] = P[e][j]
  <2>1. CASE d = a
    BY <1>0, <1>1, <1>3, <1>4, <2>1
  <2>2. CASE d = b
    <3>1. CASE i = Len(P[b]) + 1
      BY <1>0, <1>1, <1>2, <1>3, <2>2, <3>1
    <3>2. CASE i # Len(P[b]) + 1
      <4>1. i \in DOMAIN P[b] /\ Q[b][i] = P[b][i]
        <5>1. DOMAIN Q[b] = 1 .. Len(P[b]) + 1 /\ DOMAIN P[b] = 1 .. Len(P[b])
          BY <1>2, <1>3
        <5>2. i \in 1 .. Len(P[b])
          BY <1>2, <1>4, <2>2, <3>2, <5>1
        <5> QED
          BY <1>2, <5>1, <5>2
      <4>2. From(d, i) = <<b, i>>
        BY <1>0, <2>2, <3>2
      <4> QED
        BY <2>2, <4>1, <4>2
    <3> QED
      BY <3>1, <3>2
  <2>3. CASE d # a /\ d # b
    BY <1>0, <1>3, <1>4, <2>3
  <2> QED
    BY <2>1, <2>2, <2>3
<1>5. ASSUME NEW d \in D, NEW e \in D, NEW i \in DOMAIN Q[d], NEW j \in DOMAIN Q[e],
             From(d, i) = From(e, j)
      PROVE  d = e /\ i = j
  <2>1. i \in Nat \ {0} /\ j \in Nat \ {0}
    BY <1>3, <1>1, <1>2
  <2>2. /\ d = b /\ i = Len(P[b]) + 1 => From(d, i) = <<a, 1>>
        /\ e = b /\ j = Len(P[b]) + 1 => From(e, j) = <<a, 1>>
    BY <1>0
  <2>3. /\ d = a => From(d, i) = <<a, i + 1>>
        /\ e = a => From(e, j) = <<a, j + 1>>
    OBVIOUS
  <2>4. /\ d # a /\ ~(d = b /\ i = Len(P[b]) + 1) => From(d, i) = <<d, i>>
        /\ e # a /\ ~(e = b /\ j = Len(P[b]) + 1) => From(e, j) = <<e, j>>
    OBVIOUS
  <2> HIDE DEF From
  <2> QED
    BY <1>0, <1>5, <2>1, <2>2, <2>3, <2>4
<1>6. ASSUME NEW d \in D, NEW i \in DOMAIN P[d]
      PROVE  \E e \in D : \E j \in DOMAIN Q[e] : Q[e][j] = P[d][i]
  <2>1. CASE d = a /\ i = 1
    BY <1>2, <1>3, <2>1
  <2>2. CASE d = a /\ i # 1
    <3>1. i - 1 \in 1 .. Len(Q[a]) /\ (i - 1) + 1 = i
      BY <1>1, <1>3, <1>6, <2>2
    <3> QED
      BY <1>1, <1>3, <2>2, <3>1
  <2>3. CASE d = b
    <3>1. i \in DOMAIN Q[b] /\ Q[b][i] = P[b][i]
      BY <1>2, <1>3, <1>6, <2>3
    <3> QED
      BY <2>3, <3>1
  <2>4. CASE d # a /\ d # b
    BY <1>0, <2>4
  <2> QED
    BY <2>1, <2>2, <2>3, <2>4
<1>7. DOMAIN P = D /\ DOMAIN Q = D
  OBVIOUS
<1> HIDE DEF From
<1>8. ASSUME NEW d \in D, NEW e \in D, NEW i \in DOMAIN Q[d], NEW j \in DOMAIN Q[e],
             Q[d][i] = Q[e][j]
      PROVE  d = e /\ i = j
  <2>1. PICK d1 \in D : \E i1 \in DOMAIN P[d1] : From(d, i) = <<d1, i1>> /\ Q[d][i] = P[d1][i1]
    BY <1>4
  <2>2. PICK e1 \in D : \E j1 \in DOMAIN P[e1] : From(e, j) = <<e1, j1>> /\ Q[e][j] = P[e1][j1]
    BY <1>4
  <2>3. PICK i1 \in DOMAIN P[d1] : From(d, i) = <<d1, i1>> /\ Q[d][i] = P[d1][i1]
    BY <2>1
  <2>4. PICK j1 \in DOMAIN P[e1] : From(e, j) = <<e1, j1>> /\ Q[e][j] = P[e1][j1]
    BY <2>2
  <2>5. d1 = e1 /\ i1 = j1
    <3>1. P[d1][i1] = P[e1][j1]
      BY <1>8, <2>3, <2>4
    <3>2. \A p, q \in D : \A x \in DOMAIN P[p], y \in DOMAIN P[q] :
             P[p][x] = P[q][y] => p = q /\ x = y
      BY <1>7 DEF HoldOnce
    <3> QED
      BY <3>1, <3>2
  <2>6. From(d, i) = From(e, j)
    BY <2>3, <2>4, <2>5
  <2> QED
    BY <1>5, <2>6
<1>9. ASSUME NEW k
      PROVE  k \in K <=> \E d \in D : \E i \in DOMAIN Q[d] : Q[d][i] = k
  <2>1. k \in K <=> \E d \in D : \E i \in DOMAIN P[d] : P[d][i] = k
    BY <1>7 DEF HoldOnce
  <2> QED
    BY <1>4, <1>6, <2>1
<1> QED
  BY <1>7, <1>8, <1>9 DEF HoldOnce

\* Dropping the only element of a queue drops it from what they hold.
LEMMA DropKeeps ==
  ASSUME NEW D, NEW S, NEW P \in [D -> Seq(S)], NEW Q \in [D -> Seq(S)], NEW K,
         NEW a \in D, Emptied(P, Q, a), HoldOnce(P, K)
  PROVE  HoldOnce(Q, K \ {P[a][1]})
<1>1. DOMAIN P = D /\ DOMAIN Q = D /\ DOMAIN P[a] = {1} /\ DOMAIN Q[a] = {}
      /\ \A d \in D : d # a => Q[d] = P[d]
  BY DEF Emptied
<1>2. ASSUME NEW d \in D, NEW e \in D, NEW i \in DOMAIN Q[d], NEW j \in DOMAIN Q[e],
             Q[d][i] = Q[e][j]
      PROVE  d = e /\ i = j
  <2>1. d # a /\ e # a
    BY <1>1
  <2>2. Q[d] = P[d] /\ Q[e] = P[e]
    BY <1>1, <2>1
  <2> QED
    BY <1>1, <1>2, <2>2 DEF HoldOnce
<1>3. ASSUME NEW k
      PROVE  k \in K \ {P[a][1]} <=> \E d \in D : \E i \in DOMAIN Q[d] : Q[d][i] = k
  <2>1. k \in K <=> \E d \in D : \E i \in DOMAIN P[d] : P[d][i] = k
    BY <1>1 DEF HoldOnce
  <2>2. \A d \in D : \A i \in DOMAIN P[d] : P[d][i] = P[a][1] => d = a
    BY <1>1 DEF HoldOnce
  <2>3. ASSUME NEW d \in D, NEW i \in DOMAIN Q[d], Q[d][i] = k
        PROVE  k \in K /\ k # P[a][1]
    <3>1. d # a /\ Q[d] = P[d]
      BY <1>1
    <3> QED
      BY <2>1, <2>2, <2>3, <3>1
  <2>4. ASSUME NEW d \in D, NEW i \in DOMAIN P[d], P[d][i] = k, k # P[a][1]
        PROVE  d # a /\ Q[d] = P[d]
    BY <1>1, <2>4
  <2> QED
    BY <2>1, <2>3, <2>4
<1>4. DOMAIN Q = D
  BY <1>1
<1> QED
  BY ONLY <1>2, <1>3, <1>4 DEF HoldOnce

-----------------------------------------------------------------------------
(* The places of the pipeline.                                              *)

\* The queues that all goroutines share, and those of one worker.
LEMMA PlaceCases ==
  ASSUME NEW p \in Places
  PROVE  \/ p \in {<<"toFeed", "pipeline">>, <<"in", "pipeline">>, <<"all", "pipeline">>,
                   <<"result", "pipeline">>}
         \/ \E w \in Workers : p \in {<<"held", w>>, <<"out", w>>, <<"carried", w>>}
BY DEF Places, Common, Own

\* Every queue of the pipeline is a place.
LEMMA PlacesThere ==
  /\ {<<"toFeed", "pipeline">>, <<"in", "pipeline">>, <<"all", "pipeline">>,
      <<"result", "pipeline">>} \subseteq Places
  /\ \A w \in Workers : {<<"held", w>>, <<"out", w>>, <<"carried", w>>} \subseteq Places
BY DEF Places, Common, Own

\* The queue of each place, before a step and after it.
LEMMA QueuesNow ==
  /\ DOMAIN Queues = Places
  /\ Queues[<<"toFeed", "pipeline">>] = toFeed
  /\ Queues[<<"in", "pipeline">>] = in
  /\ Queues[<<"all", "pipeline">>] = all
  /\ Queues[<<"result", "pipeline">>] = result
  /\ \A w \in Workers : /\ Queues[<<"held", w>>] = held[w]
                        /\ Queues[<<"out", w>>] = out[w]
                        /\ Queues[<<"carried", w>>] = carried[w]
<1>1. /\ DOMAIN Queues = Places
      /\ Queues[<<"toFeed", "pipeline">>] = toFeed
      /\ Queues[<<"in", "pipeline">>] = in
  BY PlacesThere DEF Queues, Queue
<1>2. /\ Queues[<<"all", "pipeline">>] = all
      /\ Queues[<<"result", "pipeline">>] = result
  BY PlacesThere DEF Queues, Queue
<1>3. ASSUME NEW w \in Workers
      PROVE  /\ Queues[<<"held", w>>] = held[w]
             /\ Queues[<<"out", w>>] = out[w]
             /\ Queues[<<"carried", w>>] = carried[w]
  BY PlacesThere DEF Queues, Queue
<1> QED
  BY <1>1, <1>2, <1>3

\* What a step does to a queue is what it does to the place.
LEMMA QueuesNext ==
  /\ DOMAIN Queues' = Places
  /\ Queues'[<<"toFeed", "pipeline">>] = toFeed'
  /\ Queues'[<<"in", "pipeline">>] = in'
  /\ Queues'[<<"all", "pipeline">>] = all'
  /\ Queues'[<<"result", "pipeline">>] = result'
  /\ \A w \in Workers : /\ Queues'[<<"held", w>>] = held'[w]
                        /\ Queues'[<<"out", w>>] = out'[w]
                        /\ Queues'[<<"carried", w>>] = carried'[w]
<1>1. /\ DOMAIN Queues' = Places
      /\ Queues'[<<"toFeed", "pipeline">>] = toFeed'
      /\ Queues'[<<"in", "pipeline">>] = in'
  BY PlacesThere DEF Queues, Queue
<1>2. /\ Queues'[<<"all", "pipeline">>] = all'
      /\ Queues'[<<"result", "pipeline">>] = result'
  BY PlacesThere DEF Queues, Queue
<1>3. ASSUME NEW w \in Workers
      PROVE  /\ Queues'[<<"held", w>>] = held'[w]
             /\ Queues'[<<"out", w>>] = out'[w]
             /\ Queues'[<<"carried", w>>] = carried'[w]
  BY PlacesThere DEF Queues, Queue
<1> QED
  BY <1>1, <1>2, <1>3

\* Every queue is a sequence of indices of partitions.
LEMMA QueuesTyped ==
  /\ PoolTypes => Queues \in [Places -> Seq(Indices)]
  /\ PoolTypes' => Queues' \in [Places -> Seq(Indices)]
<1>1. ASSUME PoolTypes, NEW p \in Places
      PROVE  Queues[p] \in Seq(Indices)
  <2>1. CASE \E w \in Workers : p \in {<<"held", w>>, <<"out", w>>, <<"carried", w>>}
    <3>1. PICK w \in Workers : p \in {<<"held", w>>, <<"out", w>>, <<"carried", w>>}
      BY <2>1
    <3>2. Queues[p] \in {held[w], out[w], carried[w]}
      BY <3>1, QueuesNow
    <3> QED
      BY <1>1, <3>2 DEF PoolTypes
  <2> QED
    BY <1>1, <2>1, PlaceCases, QueuesNow DEF PoolTypes
<1>2. ASSUME PoolTypes', NEW p \in Places
      PROVE  Queues'[p] \in Seq(Indices)
  <2>1. CASE \E w \in Workers : p \in {<<"held", w>>, <<"out", w>>, <<"carried", w>>}
    <3>1. PICK w \in Workers : p \in {<<"held", w>>, <<"out", w>>, <<"carried", w>>}
      BY <2>1
    <3>2. Queues'[p] \in {held'[w], out'[w], carried'[w]}
      BY <3>1, QueuesNext
    <3> QED
      BY <1>2, <3>2 DEF PoolTypes
  <2> QED
    BY <1>2, <2>1, PlaceCases, QueuesNext DEF PoolTypes
<1>3. Queues = [p \in Places |-> Queues[p]] /\ Queues' = [p \in Places |-> Queues'[p]]
  BY DEF Queues
<1> QED
  BY <1>1, <1>2, <1>3

\* Every place but two keeps its queue, if every variable but two is left alone.
LEMMA OtherPlaces ==
  ASSUME NEW a, NEW b,
         toFeed' = toFeed \/ <<"toFeed", "pipeline">> \in {a, b},
         in' = in \/ <<"in", "pipeline">> \in {a, b},
         all' = all \/ <<"all", "pipeline">> \in {a, b},
         result' = result \/ <<"result", "pipeline">> \in {a, b},
         \A w \in Workers : /\ held'[w] = held[w] \/ <<"held", w>> \in {a, b}
                            /\ out'[w] = out[w] \/ <<"out", w>> \in {a, b}
                            /\ carried'[w] = carried[w] \/ <<"carried", w>> \in {a, b}
  PROVE  \A p \in Places : p # a /\ p # b => Queues'[p] = Queues[p]
<1> SUFFICES ASSUME NEW p \in Places, p # a, p # b
             PROVE  Queues'[p] = Queues[p]
  OBVIOUS
<1>1. CASE \E w \in Workers : p \in {<<"held", w>>, <<"out", w>>, <<"carried", w>>}
  <2>1. PICK w \in Workers : p \in {<<"held", w>>, <<"out", w>>, <<"carried", w>>}
    BY <1>1
  <2>2. CASE p = <<"held", w>>
    BY <2>2, QueuesNow, QueuesNext
  <2>3. CASE p = <<"out", w>>
    BY <2>3, QueuesNow, QueuesNext
  <2>4. CASE p = <<"carried", w>>
    BY <2>4, QueuesNow, QueuesNext
  <2> QED
    BY <2>1, <2>2, <2>3, <2>4
<1> QED
  BY <1>1, PlaceCases, QueuesNow, QueuesNext

\* Sending the one element of h on the channel s.
LEMMA AppendOne ==
  ASSUME NEW S, NEW s \in Seq(S), NEW h \in Seq(S), Len(h) = 1
  PROVE  /\ h # <<>> /\ Head(h) \in S /\ Tail(h) = <<>>
         /\ s \o h = Append(s, Head(h))
         /\ s \o h \in Seq(S) /\ Len(s \o h) = Len(s) + 1
<1>1. h # <<>> /\ Head(h) \in S /\ Tail(h) = <<>> /\ h[1] = Head(h)
  <2>1. h # <<>>
    BY EmptySeq
  <2>2. Head(h) \in S /\ Head(h) = h[1] /\ Tail(h) \in Seq(S) /\ Len(Tail(h)) = 0
    BY <2>1, HeadTailProperties
  <2> QED
    BY <2>1, <2>2, EmptySeq
<1>2. /\ s \o h \in Seq(S) /\ Len(s \o h) = Len(s) + 1
      /\ \A i \in 1 .. Len(s) : (s \o h)[i] = s[i]
      /\ (s \o h)[Len(s) + 1] = h[1]
  <2>1. Len(s) \in Nat
    OBVIOUS
  <2> QED
    BY <2>1, ConcatProperties
<1>3. /\ Append(s, Head(h)) \in Seq(S) /\ Len(Append(s, Head(h))) = Len(s) + 1
      /\ \A i \in 1 .. Len(s) : Append(s, Head(h))[i] = s[i]
      /\ Append(s, Head(h))[Len(s) + 1] = Head(h)
  BY <1>1
<1>4. s \o h = Append(s, Head(h))
  BY <1>1, <1>2, <1>3
<1> QED
  BY <1>1, <1>2, <1>4

\* A step that moves the head of one queue to the end of another.
LEMMA MoveOnce ==
  ASSUME PoolInv, PoolTypes', NEW a \in Places, NEW b \in Places,
         Moved(Queues, Queues', a, b), UNCHANGED <<count, dropped>>
  PROVE  OnceInv'
<1>1. /\ Queues \in [Places -> Seq(Indices)] /\ Queues' \in [Places -> Seq(Indices)]
      /\ HoldOnce(Queues, Kept)
  BY QueuesTyped DEF PoolInv, OnceInv
<1>2. HoldOnce(Queues', Kept)
  BY <1>1, MoveKeeps
<1>3. Kept' = Kept
  BY DEF Kept
<1> QED
  BY <1>2, <1>3 DEF OnceInv

\* A step that leaves the queues alone.
LEMMA SameOnce ==
  ASSUME PoolInv, UNCHANGED <<toFeed, in, held, out, carried, all, result, count, dropped>>
  PROVE  OnceInv'
<1>1. Queues' = Queues
  BY DEF Queues, Queue
<1>2. Kept' = Kept
  BY DEF Kept
<1> QED
  BY <1>1, <1>2 DEF PoolInv, OnceInv

-----------------------------------------------------------------------------
(* What a step leaves alone.                                                *)

\* The forwarders are finitely many; the wait group counts some of the workers.
LEMMA ForwardingFinite ==
  /\ IsFiniteSet(Forwarding)
  /\ Cardinality(Forwarding) \in 0 .. Cardinality(Workers)
<1>1. Forwarding \in SUBSET Workers
  BY DEF Forwarding
<1>2. IsFiniteSet(Forwarding) /\ Cardinality(Forwarding) <= Cardinality(Workers)
  BY <1>1, PoolAssumption, FS_Subset
<1> QED
  BY <1>2, PoolAssumption, FS_CardinalityType

\* A step before the collector has returned leaves no sample behind.
LEMMA NoSampleYet ==
  ASSUME PoolInv, UNCHANGED sample, topic # "done", topic' # "done"
  PROVE  SampleInv'
BY DEF PoolInv, SampleInv

\* A step that leaves the topic worker and the collected partitions alone.
LEMMA SampleFrame ==
  ASSUME PoolInv, UNCHANGED <<topic, sample>>, topic = "done" => UNCHANGED result
  PROVE  SampleInv'
BY DEF PoolInv, SampleInv, PartitionsIn

-----------------------------------------------------------------------------
\* Before the first partition is handed to the pipeline.
LEMMA PoolInitInv == Init => PoolInv
<1> SUFFICES ASSUME Init PROVE PoolInv
  OBVIOUS
<1> USE DEF Init
<1>1. PoolTypes
  <2>1. <<>> \in Seq(Indices) /\ Len(<<>>) = 0
    OBVIOUS
  <2>2. InCap \in Nat /\ OutCap \in Nat /\ AllCap \in Nat
    BY PoolAssumption
  <2>3. \A w \in Workers : out[w] = <<>>
    OBVIOUS
  <2>4. /\ topic = "describe" /\ feeder = "ask" /\ count \in Counts \cup {0}
        /\ worker \in [Workers -> {"receive", "lookup", "send", "ended"}]
        /\ fwd \in [Workers -> {"receive", "send", "ended"}]
        /\ allClosed \in BOOLEAN /\ returned \in BOOLEAN /\ dropped \subseteq Indices
    OBVIOUS
  <2>5. /\ toFeed \in Seq(Indices) /\ in \in Seq(Indices)
        /\ all \in Seq(Indices) /\ result \in Seq(Indices)
    BY <2>1
  <2>6. Len(in) <= InCap /\ Len(all) <= AllCap /\ \A w \in Workers : Len(out[w]) <= OutCap
    BY <2>1, <2>2, <2>3
  <2>7. /\ held \in [Workers -> Seq(Indices)] /\ out \in [Workers -> Seq(Indices)]
        /\ carried \in [Workers -> Seq(Indices)]
    BY <2>1
  <2> QED
    BY <2>4, <2>5, <2>6, <2>7 DEF PoolTypes
<1>2. StagesInv
  BY DEF StagesInv
<1>3. EndsInv
  <2>1. Forwarding = Workers
    BY DEF Forwarding
  <2> QED
    BY <2>1 DEF EndsInv
<1>4. SampleInv
  BY DEF SampleInv
<1>5. OnceInv
  <2>1. \A p \in Places : Queues[p] = <<>>
    <3> SUFFICES ASSUME NEW p \in Places PROVE Queues[p] = <<>>
      OBVIOUS
    <3>1. CASE \E w \in Workers : p \in {<<"held", w>>, <<"out", w>>, <<"carried", w>>}
      BY <3>1, QueuesNow
    <3> QED
      BY <3>1, PlaceCases, QueuesNow
  <2>2. Kept = {}
    BY DEF Kept
  <2> QED
    BY <2>1, <2>2, QueuesNow DEF OnceInv, HoldOnce
<1> QED
  BY <1>1, <1>2, <1>3, <1>4, <1>5 DEF PoolInv

-----------------------------------------------------------------------------
(* The topic worker.                                                        *)

\* The topic is described, or it is not and nothing is started.
LEMMA DescribeInv ==
  ASSUME PoolInv, Describe \/ DescribeFails
  PROVE  PoolInv'
<1> USE DEF PoolInv, Describe, DescribeFails, pipelineVars, feederVars, workerVars,
            forwarderVars, collectorVars
<1>1. PoolTypes'
  BY DEF PoolTypes
<1>2. StagesInv'
  BY DEF StagesInv
<1>3. EndsInv'
  <2>1. Forwarding' = Forwarding
    BY DEF Forwarding
  <2> QED
    BY <2>1 DEF EndsInv
<1>4. SampleInv'
  BY NoSampleYet
<1>5. OnceInv'
  BY SameOnce
<1> QED
  BY <1>1, <1>2, <1>3, <1>4, <1>5

\* The sample is made from what was collected.
LEMMA PopulateInv ==
  ASSUME PoolInv, Populate \/ PopulatePanics
  PROVE  PoolInv'
<1> USE DEF PoolInv, Populate, PopulatePanics, pipelineVars, feederVars, workerVars,
            forwarderVars, collectorVars
<1>1. PoolTypes'
  BY DEF PoolTypes
<1>2. StagesInv'
  BY DEF StagesInv
<1>3. EndsInv'
  <2>1. Forwarding' = Forwarding
    BY DEF Forwarding
  <2> QED
    BY <2>1 DEF EndsInv
<1>4. SampleInv'
  BY DEF SampleInv, PartitionsIn
<1>5. OnceInv'
  BY SameOnce
<1> QED
  BY <1>1, <1>2, <1>3, <1>4, <1>5

-----------------------------------------------------------------------------
(* The feeder.                                                              *)

\* The feeder gets the indices 0 .. c - 1, each once; the pipeline is empty.
LEMMA AskPartitionsInv ==
  ASSUME PoolInv, NEW c \in Counts \cup {0}, AskPartitions(c)
  PROVE  PoolInv'
<1> USE DEF PoolInv, AskPartitions, topicVars, workerVars, forwarderVars, collectorVars
<1>1. /\ c \in Nat
      /\ toFeed' = [k \in 1 .. c |-> k - 1]
      /\ Len(toFeed') = c /\ DOMAIN toFeed' = 1 .. c
      /\ 0 .. c - 1 \subseteq Indices
  BY PoolAssumption DEF Indices
<1>2. PoolTypes'
  <2>1. toFeed' \in Seq(Indices)
    <3>1. \A k \in 1 .. c : k - 1 \in 0 .. c - 1
      BY <1>1
    <3> QED
      BY <1>1, <3>1
  <2> QED
    BY <2>1 DEF PoolTypes
<1>3. StagesInv'
  BY DEF StagesInv
<1>4. EndsInv'
  BY DEF EndsInv, Forwarding
<1>5. SampleInv'
  BY SampleFrame
<1>6. OnceInv'
  <2>1. \A p \in Places : p # <<"toFeed", "pipeline">> => Queues'[p] = <<>>
    <3> SUFFICES ASSUME NEW p \in Places, p # <<"toFeed", "pipeline">>
                 PROVE  Queues'[p] = <<>>
      OBVIOUS
    <3>1. CASE \E w \in Workers : p \in {<<"held", w>>, <<"out", w>>, <<"carried", w>>}
      <4>1. PICK w \in Workers : p \in {<<"held", w>>, <<"out", w>>, <<"carried", w>>}
        BY <3>1
      <4>2. Len(held[w]) = 0 /\ out[w] = <<>> /\ Len(carried[w]) = 0
        BY DEF StagesInv
      <4>3. held[w] = <<>> /\ out[w] = <<>> /\ carried[w] = <<>>
        BY <4>2 DEF PoolTypes
      <4> QED
        BY <4>1, <4>3, QueuesNext
    <3> QED
      BY <3>1, PlaceCases, QueuesNext DEF StagesInv
  <2>2. Queues'[<<"toFeed", "pipeline">>] = [k \in 1 .. c |-> k - 1]
    BY <1>1, QueuesNext
  <2>3. DOMAIN Queues' = Places /\ <<"toFeed", "pipeline">> \in Places
    BY QueuesNext, PlacesThere
  <2>4. Kept' = 0 .. c - 1
    BY DEF Kept, StagesInv
  <2>5. ASSUME NEW p \in Places, NEW q \in Places, NEW i \in DOMAIN Queues'[p],
               NEW j \in DOMAIN Queues'[q], Queues'[p][i] = Queues'[q][j]
        PROVE  p = q /\ i = j
    <3>1. p = <<"toFeed", "pipeline">> /\ q = <<"toFeed", "pipeline">>
      BY <2>1
    <3>2. i \in 1 .. c /\ j \in 1 .. c /\ i - 1 = j - 1
      BY <2>2, <2>5, <3>1
    <3> QED
      BY <1>1, <3>1, <3>2
  <2>6. ASSUME NEW k
        PROVE  k \in 0 .. c - 1 <=> \E p \in Places : \E i \in DOMAIN Queues'[p] : Queues'[p][i] = k
    <3>1. ASSUME k \in 0 .. c - 1
          PROVE  \E p \in Places : \E i \in DOMAIN Queues'[p] : Queues'[p][i] = k
      <4>1. k + 1 \in 1 .. c /\ (k + 1) - 1 = k
        BY <1>1, <3>1
      <4> QED
        BY <2>2, <2>3, <4>1
    <3>2. ASSUME NEW p \in Places, NEW i \in DOMAIN Queues'[p], Queues'[p][i] = k
          PROVE  k \in 0 .. c - 1
      <4>1. p = <<"toFeed", "pipeline">>
        BY <2>1
      <4> QED
        BY <1>1, <2>2, <3>2, <4>1
    <3> QED
      BY <3>1, <3>2
  <2> QED
    BY <2>3, <2>4, <2>5, <2>6 DEF OnceInv, HoldOnce
<1> QED
  BY <1>2, <1>3, <1>4, <1>5, <1>6

\* The feeder sends the next index.
LEMMA FeedInv ==
  ASSUME PoolInv, Feed
  PROVE  PoolInv'
<1> USE DEF PoolInv, Feed, topicVars, workerVars, forwarderVars, collectorVars
<1>1. PoolTypes'
  BY PoolAssumption DEF PoolTypes
<1>2. StagesInv'
  BY DEF StagesInv
<1>3. EndsInv'
  <2>1. Forwarding' = Forwarding
    BY DEF Forwarding
  <2> QED
    BY <2>1 DEF EndsInv
<1>4. SampleInv'
  BY SampleFrame
<1>5. OnceInv'
  <2> DEFINE a == <<"toFeed", "pipeline">>
             b == <<"in", "pipeline">>
  <2>1. \A p \in Places : p # a /\ p # b => Queues'[p] = Queues[p]
    BY OtherPlaces DEF PoolTypes
  <2>2. a \in Places /\ b \in Places /\ a # b
    BY PlacesThere
  <2>3. Moved(Queues, Queues', a, b)
    BY <2>1, <2>2, QueuesNow, QueuesNext DEF Moved
  <2> QED
    BY <1>1, <2>2, <2>3, MoveOnce
<1> QED
  BY <1>1, <1>2, <1>3, <1>4, <1>5

\* The feeder closes `in` when it has nothing left to send.
LEMMA CloseInInv ==
  ASSUME PoolInv, CloseIn
  PROVE  PoolInv'
<1> USE DEF PoolInv, CloseIn, topicVars, workerVars, forwarderVars, collectorVars
<1>1. PoolTypes'
  BY DEF PoolTypes
<1>2. StagesInv'
  BY DEF StagesInv
<1>3. EndsInv'
  <2>1. Forwarding' = Forwarding
    BY DEF Forwarding
  <2> QED
    BY <2>1 DEF EndsInv
<1>4. SampleInv'
  BY SampleFrame
<1>5. OnceInv'
  BY SameOnce
<1> QED
  BY <1>1, <1>2, <1>3, <1>4, <1>5

-----------------------------------------------------------------------------
(* One worker.                                                              *)

\* A worker takes an index off the channel of the pool.
LEMMA WorkerReceiveInv ==
  ASSUME PoolInv, NEW w \in Workers, WorkerReceive(w)
  PROVE  PoolInv'
<1> USE DEF PoolInv, WorkerReceive, topicVars, feederVars, forwarderVars, collectorVars
<1>0. /\ in # <<>> /\ in \in Seq(Indices) /\ Head(in) \in Indices /\ Tail(in) \in Seq(Indices)
      /\ Len(Tail(in)) <= InCap /\ InCap \in Nat
      /\ <<Head(in)>> \in Seq(Indices) /\ Len(<<Head(in)>>) = 1
  BY PoolAssumption DEF PoolTypes
<1>1. PoolTypes'
  BY <1>0 DEF PoolTypes
<1>2. StagesInv'
  BY <1>0 DEF StagesInv, PoolTypes
<1>3. EndsInv'
  <2>1. Forwarding' = Forwarding
    BY DEF Forwarding
  <2> QED
    BY <2>1 DEF EndsInv, PoolTypes
<1>4. SampleInv'
  BY SampleFrame
<1>5. OnceInv'
  <2> DEFINE a == <<"in", "pipeline">>
             b == <<"held", w>>
  <2>1. \A p \in Places : p # a /\ p # b => Queues'[p] = Queues[p]
    BY OtherPlaces DEF PoolTypes
  <2>2. a \in Places /\ b \in Places /\ a # b
    BY PlacesThere
  <2>3. held[w] = <<>> /\ held'[w] = <<Head(in)>>
    BY DEF StagesInv, PoolTypes
  <2>4. Append(<<>>, Head(in)) = <<Head(in)>>
    BY <1>0
  <2>5. Moved(Queues, Queues', a, b)
    BY <1>0, <2>1, <2>2, <2>3, <2>4, QueuesNow, QueuesNext DEF Moved
  <2> QED
    BY <1>1, <2>2, <2>5, MoveOnce
<1> QED
  BY <1>1, <1>2, <1>3, <1>4, <1>5

\* The partition of the index a worker has goes to the worker's own channel.
LEMMA LookupSucceedsInv ==
  ASSUME PoolInv, NEW w \in Workers, LookupSucceeds(w)
  PROVE  PoolInv'
<1> USE DEF PoolInv, LookupSucceeds, topicVars, feederVars, forwarderVars, collectorVars
<1>1. PoolTypes'
  BY DEF PoolTypes
<1>2. StagesInv'
  BY DEF StagesInv, PoolTypes
<1>3. EndsInv'
  <2>1. Forwarding' = Forwarding
    BY DEF Forwarding
  <2> QED
    BY <2>1 DEF EndsInv, PoolTypes
<1>4. SampleInv'
  BY SampleFrame
<1>5. OnceInv'
  BY SameOnce
<1> QED
  BY <1>1, <1>2, <1>3, <1>4, <1>5

\* A failed lookup drops the partition the worker holds, and only that one.
LEMMA LookupFailsInv ==
  ASSUME PoolInv, NEW w \in Workers, LookupFails(w)
  PROVE  PoolInv'
<1> USE DEF PoolInv, LookupFails, topicVars, feederVars, forwarderVars, collectorVars
<1>0. /\ held[w] \in Seq(Indices) /\ Len(held[w]) = 1
      /\ Range(held[w]) = {held[w][1]} /\ held[w][1] \in Indices
      /\ <<>> \in Seq(Indices) /\ Len(<<>>) = 0
  <2>1. held[w] \in Seq(Indices) /\ Len(held[w]) = 1
    BY DEF PoolTypes, StagesInv
  <2>2. DOMAIN held[w] = {1}
    BY <2>1
  <2> QED
    BY <2>1, <2>2 DEF Range
<1>1. PoolTypes'
  BY <1>0 DEF PoolTypes
<1>2. StagesInv'
  <2>1. feeder # "ask"
    BY DEF StagesInv
  <2>2. \A v \in Workers : Len(held'[v]) = IF worker'[v] \in {"lookup", "send"} THEN 1 ELSE 0
    <3>1. Len(held'[w]) = 0 /\ worker'[w] = "receive"
      BY <1>0 DEF PoolTypes
    <3>2. \A v \in Workers : v # w => held'[v] = held[v] /\ worker'[v] = worker[v]
      BY DEF PoolTypes
    <3> QED
      BY <3>1, <3>2 DEF StagesInv
  <2> QED
    BY <2>1, <2>2 DEF StagesInv
<1>3. EndsInv'
  <2>1. Forwarding' = Forwarding
    BY DEF Forwarding
  <2> QED
    BY <2>1 DEF EndsInv, PoolTypes
<1>4. SampleInv'
  BY SampleFrame
<1>5. OnceInv'
  <2> DEFINE a == <<"held", w>>
  <2>1. \A p \in Places : p # a => Queues'[p] = Queues[p]
    <3>1. \A v \in Workers : held'[v] = held[v] \/ <<"held", v>> \in {a, a}
      BY DEF PoolTypes
    <3>2. UNCHANGED <<toFeed, in, out, carried, all, result>>
      OBVIOUS
    <3>3. \A p \in Places : p # a /\ p # a => Queues'[p] = Queues[p]
      BY ONLY <3>1, <3>2, OtherPlaces
    <3> QED
      BY <3>3
  <2>2. a \in Places
    BY PlacesThere
  <2>3. Queues[a] = held[w] /\ Queues'[a] = <<>>
    BY QueuesNow, QueuesNext DEF PoolTypes
  <2>4. Emptied(Queues, Queues', a)
    BY <1>0, <2>1, <2>3, QueuesNow DEF Emptied
  <2>5. HoldOnce(Queues', Kept \ {Queues[a][1]})
    <3>1. /\ Queues \in [Places -> Seq(Indices)] /\ Queues' \in [Places -> Seq(Indices)]
          /\ HoldOnce(Queues, Kept)
      BY <1>1, QueuesTyped DEF OnceInv
    <3> QED
      BY <2>2, <2>4, <3>1, DropKeeps
  <2>6. Kept' = Kept \ {Queues[a][1]}
    BY <1>0, <2>3 DEF Kept
  <2> QED
    BY <2>5, <2>6 DEF OnceInv
<1> QED
  BY <1>1, <1>2, <1>3, <1>4, <1>5

\* The worker's own channel takes what the worker holds.
LEMMA WorkerSendInv ==
  ASSUME PoolInv, NEW w \in Workers, WorkerSend(w)
  PROVE  PoolInv'
<1> USE DEF PoolInv, WorkerSend, topicVars, feederVars, forwarderVars, collectorVars
<1>0. /\ held[w] \in Seq(Indices) /\ Len(held[w]) = 1 /\ held[w] # <<>>
      /\ out[w] \in Seq(Indices)
      /\ out[w] \o held[w] = Append(out[w], Head(held[w]))
      /\ out[w] \o held[w] \in Seq(Indices)
      /\ Len(out[w] \o held[w]) <= OutCap
      /\ Tail(held[w]) = <<>>
      /\ <<>> \in Seq(Indices) /\ Len(<<>>) = 0
  <2>1. /\ held[w] \in Seq(Indices) /\ Len(held[w]) = 1 /\ out[w] \in Seq(Indices)
        /\ OutCap \in Nat /\ Len(out[w]) \in Nat
    BY PoolAssumption DEF PoolTypes, StagesInv
  <2>2. Len(out[w]) + 1 <= OutCap
    BY <2>1
  <2>3. /\ held[w] # <<>> /\ Tail(held[w]) = <<>>
        /\ out[w] \o held[w] = Append(out[w], Head(held[w]))
        /\ out[w] \o held[w] \in Seq(Indices) /\ Len(out[w] \o held[w]) = Len(out[w]) + 1
    BY <2>1, AppendOne
  <2>4. <<>> \in Seq(Indices) /\ Len(<<>>) = 0
    OBVIOUS
  <2> QED
    BY <2>1, <2>2, <2>3, <2>4
<1>1. PoolTypes'
  BY <1>0 DEF PoolTypes
<1>2. StagesInv'
  BY <1>0 DEF StagesInv, PoolTypes
<1>3. EndsInv'
  <2>1. Forwarding' = Forwarding
    BY DEF Forwarding
  <2>2. fwd[w] # "ended"
    BY DEF EndsInv
  <2> QED
    BY <2>1, <2>2 DEF EndsInv, PoolTypes
<1>4. SampleInv'
  BY SampleFrame
<1>5. OnceInv'
  <2> DEFINE a == <<"held", w>>
             b == <<"out", w>>
  <2>1. \A p \in Places : p # a /\ p # b => Queues'[p] = Queues[p]
    BY OtherPlaces DEF PoolTypes
  <2>2. a \in Places /\ b \in Places /\ a # b
    BY PlacesThere
  <2>3. held'[w] = <<>> /\ out'[w] = out[w] \o held[w]
    BY DEF PoolTypes
  <2>4. Moved(Queues, Queues', a, b)
    BY <1>0, <2>1, <2>2, <2>3, QueuesNow, QueuesNext DEF Moved
  <2> QED
    BY <1>1, <2>2, <2>4, MoveOnce
<1> QED
  BY <1>1, <1>2, <1>3, <1>4, <1>5

\* A worker ends when `in` is closed and drained.
LEMMA WorkerEndsInv ==
  ASSUME PoolInv, NEW w \in Workers, WorkerEnds(w)
  PROVE  PoolInv'
<1> USE DEF PoolInv, WorkerEnds, topicVars, feederVars, forwarderVars, collectorVars
<1>1. PoolTypes'
  BY DEF PoolTypes
<1>2. StagesInv'
  BY DEF StagesInv, PoolTypes
<1>3. EndsInv'
  <2>1. Forwarding' = Forwarding
    BY DEF Forwarding
  <2> QED
    BY <2>1 DEF EndsInv, PoolTypes
<1>4. SampleInv'
  BY SampleFrame
<1>5. OnceInv'
  BY SameOnce
<1> QED
  BY <1>1, <1>2, <1>3, <1>4, <1>5

-----------------------------------------------------------------------------
(* The forwarder of one worker.                                             *)

\* A forwarder takes a partition off the channel of its worker.
LEMMA ForwarderReceiveInv ==
  ASSUME PoolInv, NEW w \in Workers, ForwarderReceive(w)
  PROVE  PoolInv'
<1> USE DEF PoolInv, ForwarderReceive, topicVars, feederVars, collectorVars
<1>0. /\ out[w] # <<>> /\ out[w] \in Seq(Indices) /\ Head(out[w]) \in Indices
      /\ Tail(out[w]) \in Seq(Indices) /\ Len(Tail(out[w])) <= OutCap
      /\ <<Head(out[w])>> \in Seq(Indices) /\ Len(<<Head(out[w])>>) = 1
      /\ Append(<<>>, Head(out[w])) = <<Head(out[w])>>
  <2>1. out[w] # <<>> /\ out[w] \in Seq(Indices) /\ Len(out[w]) <= OutCap /\ OutCap \in Nat
    BY PoolAssumption DEF PoolTypes
  <2>2. Head(out[w]) \in Indices /\ Tail(out[w]) \in Seq(Indices) /\ Len(Tail(out[w])) = Len(out[w]) - 1
    BY <2>1, HeadTailProperties
  <2> QED
    BY <2>1, <2>2
<1>1. PoolTypes'
  <2>1. out'[w] = Tail(out[w]) /\ \A v \in Workers : v # w => out'[v] = out[v]
    BY DEF PoolTypes
  <2> QED
    BY <1>0, <2>1 DEF PoolTypes
<1>2. StagesInv'
  <2>1. Len(carried'[w]) = 1 /\ fwd'[w] = "send"
    BY <1>0 DEF PoolTypes
  <2>2. \A v \in Workers : v # w => carried'[v] = carried[v] /\ fwd'[v] = fwd[v]
    BY DEF PoolTypes
  <2>3. feeder # "ask"
    BY DEF StagesInv
  <2> QED
    BY <2>1, <2>2, <2>3 DEF StagesInv
<1>3. EndsInv'
  <2>1. Forwarding' = Forwarding
    BY DEF Forwarding, PoolTypes
  <2> QED
    BY <2>1 DEF EndsInv, PoolTypes
<1>4. SampleInv'
  BY SampleFrame
<1>5. OnceInv'
  <2> DEFINE a == <<"out", w>>
             b == <<"carried", w>>
  <2>1. \A p \in Places : p # a /\ p # b => Queues'[p] = Queues[p]
    BY OtherPlaces DEF PoolTypes
  <2>2. a \in Places /\ b \in Places /\ a # b
    BY PlacesThere
  <2>3. out'[w] = Tail(out[w]) /\ carried'[w] = <<Head(out[w])>>
    BY DEF PoolTypes
  <2>4. carried[w] = <<>>
    BY DEF StagesInv, PoolTypes
  <2>5. Moved(Queues, Queues', a, b)
    BY <1>0, <2>1, <2>2, <2>3, <2>4, QueuesNow, QueuesNext DEF Moved
  <2> QED
    BY <1>1, <2>2, <2>5, MoveOnce
<1> QED
  BY <1>1, <1>2, <1>3, <1>4, <1>5

\* The common channel takes what the forwarder carries.
LEMMA ForwarderSendInv ==
  ASSUME PoolInv, NEW w \in Workers, ForwarderSend(w)
  PROVE  PoolInv'
<1> USE DEF PoolInv, ForwarderSend, topicVars, feederVars, workerVars, collectorVars
<1>0. /\ carried[w] \in Seq(Indices) /\ Len(carried[w]) = 1 /\ carried[w] # <<>>
      /\ all \o carried[w] = Append(all, Head(carried[w]))
      /\ all \o carried[w] \in Seq(Indices)
      /\ Len(all \o carried[w]) <= AllCap
      /\ Tail(carried[w]) = <<>>
      /\ <<>> \in Seq(Indices) /\ Len(<<>>) = 0
  <2>1. /\ carried[w] \in Seq(Indices) /\ Len(carried[w]) = 1 /\ all \in Seq(Indices)
        /\ AllCap \in Nat /\ Len(all) \in Nat
    BY PoolAssumption DEF PoolTypes, StagesInv
  <2>2. Len(all) + 1 <= AllCap
    BY <2>1
  <2>3. /\ carried[w] # <<>> /\ Tail(carried[w]) = <<>>
        /\ all \o carried[w] = Append(all, Head(carried[w]))
        /\ all \o carried[w] \in Seq(Indices) /\ Len(all \o carried[w]) = Len(all) + 1
    BY <2>1, AppendOne
  <2>4. <<>> \in Seq(Indices) /\ Len(<<>>) = 0
    OBVIOUS
  <2> QED
    BY <2>1, <2>2, <2>3, <2>4
<1>1. PoolTypes'
  BY <1>0 DEF PoolTypes
<1>2. StagesInv'
  <2>1. Len(carried'[w]) = 0 /\ fwd'[w] = "receive"
    BY <1>0 DEF PoolTypes
  <2>2. \A v \in Workers : v # w => carried'[v] = carried[v] /\ fwd'[v] = fwd[v]
    BY DEF PoolTypes
  <2>3. feeder # "ask"
    BY DEF StagesInv
  <2> QED
    BY <2>1, <2>2, <2>3 DEF StagesInv
<1>3. EndsInv'
  <2>1. Forwarding' = Forwarding
    BY DEF Forwarding, PoolTypes
  <2>2. ~returned
    <3>1. w \in Forwarding
      BY DEF Forwarding
    <3>2. wg # 0
      BY <3>1, ForwardingFinite, FS_EmptySet DEF EndsInv
    <3> QED
      BY <3>2 DEF EndsInv
  <2> QED
    BY <2>1, <2>2 DEF EndsInv, PoolTypes
<1>4. SampleInv'
  BY SampleFrame
<1>5. OnceInv'
  <2> DEFINE a == <<"carried", w>>
             b == <<"all", "pipeline">>
  <2>1. \A p \in Places : p # a /\ p # b => Queues'[p] = Queues[p]
    BY OtherPlaces DEF PoolTypes
  <2>2. a \in Places /\ b \in Places /\ a # b
    BY PlacesThere
  <2>3. carried'[w] = <<>> /\ all' = all \o carried[w]
    BY DEF PoolTypes
  <2>4. Moved(Queues, Queues', a, b)
    BY <1>0, <2>1, <2>2, <2>3, QueuesNow, QueuesNext DEF Moved
  <2> QED
    BY <1>1, <2>2, <2>4, MoveOnce
<1> QED
  BY <1>1, <1>2, <1>3, <1>4, <1>5

\* The forwarder that returns is taken off the wait group.
LEMMA ForwarderEndsInv ==
  ASSUME PoolInv, NEW w \in Workers, ForwarderEnds(w)
  PROVE  PoolInv'
<1> USE DEF PoolInv, ForwarderEnds, topicVars, feederVars, workerVars, collectorVars
<1>1. PoolTypes'
  BY DEF PoolTypes
<1>2. StagesInv'
  <2>1. feeder # "ask"
    BY DEF StagesInv
  <2> QED
    BY <2>1 DEF StagesInv, PoolTypes
<1>3. EndsInv'
  <2>1. Forwarding' = Forwarding \ {w} /\ w \in Forwarding
    BY DEF Forwarding, PoolTypes
  <2>2. Cardinality(Forwarding') = Cardinality(Forwarding) - 1
    BY <2>1, ForwardingFinite, FS_RemoveElement
  <2>3. wg # 0
    BY <2>1, ForwardingFinite, FS_EmptySet DEF EndsInv
  <2> QED
    BY <2>2, <2>3 DEF EndsInv, PoolTypes
<1>4. SampleInv'
  BY SampleFrame
<1>5. OnceInv'
  BY SameOnce
<1> QED
  BY <1>1, <1>2, <1>3, <1>4, <1>5

-----------------------------------------------------------------------------
(* The closer and the collector.                                            *)

\* Once every forwarder has returned nothing is left before the common channel.
LEMMA AllEnded ==
  ASSUME PoolInv, wg = 0
  PROVE  /\ feeder = "closed" /\ toFeed = <<>> /\ in = <<>>
         /\ \A w \in Workers : /\ fwd[w] = "ended" /\ worker[w] = "ended"
                               /\ held[w] = <<>> /\ out[w] = <<>> /\ carried[w] = <<>>
<1> USE DEF PoolInv
<1>1. Forwarding = {}
  BY ForwardingFinite, FS_EmptySet DEF EndsInv
<1>2. \A w \in Workers : fwd[w] = "ended"
  BY <1>1 DEF Forwarding
<1>3. \A w \in Workers : worker[w] = "ended" /\ out[w] = <<>> /\ feeder = "closed" /\ in = <<>>
  BY <1>2 DEF EndsInv
<1>4. PICK v \in Workers : TRUE
  BY PoolAssumption
<1>5. feeder = "closed" /\ toFeed = <<>> /\ in = <<>>
  BY <1>3, <1>4 DEF EndsInv
<1>6. \A w \in Workers : Len(held[w]) = 0 /\ Len(carried[w]) = 0
  BY <1>2, <1>3 DEF StagesInv
<1>7. \A w \in Workers : held[w] = <<>> /\ carried[w] = <<>>
  BY <1>6, EmptySeq DEF PoolTypes
<1> QED
  BY <1>2, <1>3, <1>5, <1>7

\* The closer has waited for every forwarder: nothing will be sent any more.
LEMMA CloseAllInv ==
  ASSUME PoolInv, CloseAll
  PROVE  PoolInv'
<1> USE DEF PoolInv, CloseAll, topicVars, feederVars, workerVars, forwarderVars
<1>1. PoolTypes'
  BY DEF PoolTypes
<1>2. StagesInv'
  BY DEF StagesInv
<1>3. EndsInv'
  <2>1. Forwarding' = Forwarding
    BY DEF Forwarding
  <2> QED
    BY <2>1 DEF EndsInv
<1>4. SampleInv'
  BY SampleFrame
<1>5. OnceInv'
  BY SameOnce
<1> QED
  BY <1>1, <1>2, <1>3, <1>4, <1>5

\* The collector takes the next partition.
LEMMA CollectInv ==
  ASSUME PoolInv, Collect
  PROVE  PoolInv'
<1> USE DEF PoolInv, Collect, topicVars, feederVars, workerVars, forwarderVars
<1>0. /\ all \in Seq(Indices) /\ Head(all) \in Indices /\ Tail(all) \in Seq(Indices)
      /\ Len(Tail(all)) <= AllCap
      /\ Append(result, Head(all)) \in Seq(Indices)
  <2>1. all \in Seq(Indices) /\ Len(all) <= AllCap /\ AllCap \in Nat /\ result \in Seq(Indices)
    BY PoolAssumption DEF PoolTypes
  <2>2. Head(all) \in Indices /\ Tail(all) \in Seq(Indices) /\ Len(Tail(all)) = Len(all) - 1
    BY <2>1, HeadTailProperties
  <2> QED
    BY <2>1, <2>2, AppendProperties
<1>1. PoolTypes'
  BY <1>0 DEF PoolTypes
<1>2. StagesInv'
  <2>1. feeder # "ask"
    BY DEF StagesInv
  <2> QED
    BY <2>1 DEF StagesInv
<1>3. EndsInv'
  <2>1. Forwarding' = Forwarding
    BY DEF Forwarding
  <2> QED
    BY <2>1 DEF EndsInv
<1>4. SampleInv'
  BY NoSampleYet DEF EndsInv
<1>5. OnceInv'
  <2> DEFINE a == <<"all", "pipeline">>
             b == <<"result", "pipeline">>
  <2>1. \A p \in Places : p # a /\ p # b => Queues'[p] = Queues[p]
    BY OtherPlaces
  <2>2. a \in Places /\ b \in Places /\ a # b
    BY PlacesThere
  <2>3. Moved(Queues, Queues', a, b)
    BY <2>1, <2>2, QueuesNow, QueuesNext DEF Moved
  <2> QED
    BY <1>1, <2>2, <2>3, MoveOnce
<1> QED
  BY <1>1, <1>2, <1>3, <1>4, <1>5

\* The collector has drained the closed channel.
LEMMA CollectReturnsInv ==
  ASSUME PoolInv, CollectReturns
  PROVE  PoolInv'
<1> USE DEF PoolInv, CollectReturns, feederVars, workerVars, forwarderVars
<1>1. PoolTypes'
  BY DEF PoolTypes
<1>2. StagesInv'
  BY DEF StagesInv
<1>3. EndsInv'
  <2>1. Forwarding' = Forwarding
    BY DEF Forwarding
  <2> QED
    BY <2>1 DEF EndsInv
<1>4. SampleInv'
  BY NoSampleYet DEF EndsInv
<1>5. OnceInv'
  BY SameOnce
<1> QED
  BY <1>1, <1>2, <1>3, <1>4, <1>5

\* A step that changes nothing.
LEMMA PoolRestInv ==
  ASSUME PoolInv, UNCHANGED vars
  PROVE  PoolInv'
<1> USE DEF PoolInv, vars
<1>1. PoolTypes' /\ StagesInv'
  BY DEF PoolTypes, StagesInv
<1>2. EndsInv'
  <2>1. Forwarding' = Forwarding
    BY DEF Forwarding
  <2> QED
    BY <2>1 DEF EndsInv
<1>3. SampleInv' /\ OnceInv'
  BY SampleFrame, SameOnce
<1> QED
  BY <1>1, <1>2, <1>3

-----------------------------------------------------------------------------
\* Every step of the pipeline preserves the invariant.
LEMMA PoolNextInv == PoolInv /\ [Next]_vars => PoolInv'
<1> SUFFICES ASSUME PoolInv, [Next]_vars PROVE PoolInv'
  OBVIOUS
<1>1. CASE TopicWorker
  BY <1>1, DescribeInv, PopulateInv DEF TopicWorker
<1>2. CASE Feeder
  BY <1>2, AskPartitionsInv, FeedInv, CloseInInv DEF Feeder
<1>3. CASE CloseAll \/ Collector
  BY <1>3, CloseAllInv, CollectInv, CollectReturnsInv DEF Collector
<1>4. ASSUME NEW w \in Workers, Worker(w)
      PROVE  PoolInv'
  BY <1>4, WorkerReceiveInv, LookupSucceedsInv, LookupFailsInv, WorkerSendInv, WorkerEndsInv
     DEF Worker
<1>5. ASSUME NEW w \in Workers, Forwarder(w)
      PROVE  PoolInv'
  BY <1>5, ForwarderReceiveInv, ForwarderSendInv, ForwarderEndsInv DEF Forwarder
<1>6. CASE UNCHANGED vars
  BY <1>6, PoolRestInv
<1> QED
  BY <1>1, <1>2, <1>3, <1>4, <1>5, <1>6 DEF Next

\* The parts of the invariant hold in every state of the pipeline.
THEOREM PoolInvariant == Spec => []PoolInv
<1>1. Init => PoolInv
  BY PoolInitInv
<1>2. PoolInv /\ [Next]_vars => PoolInv'
  BY PoolNextInv
<1> QED
  BY <1>1, <1>2, PTL DEF Spec

-----------------------------------------------------------------------------
(* The properties.                                                          *)

\* The members of a sequence over S are members of S.
LEMMA RangeIn ==
  ASSUME NEW S, NEW s \in Seq(S)
  PROVE  Range(s) \subseteq S
BY DEF Range

\* Every variable has its type, and no channel holds more than its capacity.
THEOREM PoolTypeOK == Spec => []TypeOK
<1>1. PoolInv => TypeOK
  <2> SUFFICES ASSUME PoolInv PROVE TypeOK
    OBVIOUS
  <2> USE DEF PoolInv
  <2>1. Len(sample) = IF topic = "done" THEN 1 ELSE 0
    BY DEF SampleInv
  <2>2. AtMost(InCap, in) /\ AtMost(AllCap, all)
    BY RangeIn DEF PoolTypes, AtMost
  <2>3. Range(toFeed) \subseteq Indices /\ Range(result) \subseteq Indices
    BY RangeIn DEF PoolTypes
  <2>4. ASSUME NEW w \in Workers
        PROVE  AtMost(1, held[w]) /\ AtMost(1, carried[w]) /\ AtMost(OutCap, out[w])
    <3>1. held[w] \in Seq(Indices) /\ carried[w] \in Seq(Indices) /\ out[w] \in Seq(Indices)
      BY DEF PoolTypes
    <3>2. Len(held[w]) <= 1 /\ Len(carried[w]) <= 1 /\ Len(out[w]) <= OutCap
      <4>1. /\ Len(held[w]) = 0 \/ Len(held[w]) = 1
            /\ Len(carried[w]) = 0 \/ Len(carried[w]) = 1
        BY DEF StagesInv
      <4>2. \A n \in {0, 1} : n <= 1
        OBVIOUS
      <4>3. Len(held[w]) <= 1 /\ Len(carried[w]) <= 1
        BY <4>1, <4>2
      <4>4. Len(out[w]) <= OutCap
        BY DEF PoolTypes
      <4> QED
        BY <4>3, <4>4
    <3> QED
      BY <3>1, <3>2, RangeIn DEF AtMost
  <2>5. wg \in 0 .. Cardinality(Workers)
    BY ForwardingFinite DEF EndsInv
  <2>6. {allClosed, returned} \subseteq BOOLEAN
    BY DEF PoolTypes
  <2> QED
    BY <2>1, <2>2, <2>3, <2>4, <2>5, <2>6 DEF TypeOK, PoolTypes
<1> QED
  BY <1>1, PoolInvariant, PTL

\* No goroutine ever sends on a channel that is closed.
THEOREM PoolNoSendAfterClose == Spec => []NoSendAfterClose
<1>1. PoolInv => NoSendAfterClose
  BY AllEnded DEF PoolInv, EndsInv, NoSendAfterClose
<1> QED
  BY <1>1, PoolInvariant, PTL

\* At every moment each partition the client reported is in exactly one place of
\* the pipeline, collected, or dropped for a failed lookup.
THEOREM PoolEachPartitionOnce == Spec => []EachPartitionOnce
<1>1. PoolInv => EachPartitionOnce
  <2> SUFFICES ASSUME PoolInv, NEW k \in 0 .. count - 1
               PROVE  Cardinality(Spots(k)) = IF k \in dropped THEN 0 ELSE 1
    BY DEF EachPartitionOnce
  <2>1. /\ DOMAIN Queues = Places
        /\ \A p \in Places : Queues[p] = Queue(p)
    BY DEF Queues
  <2>2. \A p \in Places : \A i : i \in DOMAIN Queue(p) /\ Queue(p)[i] = k <=> <<p, i>> \in Spots(k)
    BY DEF Spots
  <2>3. \A s \in Spots(k) : \E p \in Places : \E i \in DOMAIN Queue(p) : s = <<p, i>> /\ Queue(p)[i] = k
    BY DEF Spots
  <2>4. k \in Kept <=> \E p \in Places : \E i \in DOMAIN Queue(p) : Queue(p)[i] = k
    BY <2>1 DEF PoolInv, OnceInv, HoldOnce
  <2>5. CASE k \in dropped
    <3>1. Spots(k) = {}
      BY <2>3, <2>4, <2>5 DEF Kept
    <3> QED
      BY <2>5, <3>1, FS_EmptySet
  <2>6. CASE k \notin dropped
    <3>1. k \in Kept
      BY <2>6 DEF Kept
    <3>2. PICK p \in Places : \E i \in DOMAIN Queue(p) : Queue(p)[i] = k
      BY <2>4, <3>1
    <3>3. PICK i \in DOMAIN Queue(p) : Queue(p)[i] = k
      BY <3>2
    <3>4. \A q \in Places : \A j \in DOMAIN Queue(q) : Queue(q)[j] = k => q = p /\ j = i
      BY <2>1, <3>3 DEF PoolInv, OnceInv, HoldOnce
    <3>5. Spots(k) = {<<p, i>>}
      BY <2>2, <2>3, <3>3, <3>4
    <3> QED
      BY <2>6, <3>5, FS_Singleton
  <2> QED
    BY <2>5, <2>6
<1> QED
  BY <1>1, PoolInvariant, PTL

\* Counting the positions of an injective sequence counts its members.
LEMMA CountMembers ==
  ASSUME NEW S, NEW s \in Seq(S), IsInjective(s), NEW A
  PROVE  Cardinality({j \in DOMAIN s : s[j] \in A}) = Cardinality(Range(s) \cap A)
<1> DEFINE J == {j \in DOMAIN s : s[j] \in A}
           T == Range(s) \cap A
           f == [j \in J |-> s[j]]
<1>1. f \in Injection(J, T)
  BY DEF Injection, IsInjective, Range
<1>2. f \in Surjection(J, T)
  BY DEF Surjection, Range
<1>3. ExistsBijection(J, T)
  BY <1>1, <1>2 DEF ExistsBijection, Bijection
<1>4. IsFiniteSet(J)
  <2>1. Len(s) \in Nat /\ DOMAIN s = 1 .. Len(s)
    OBVIOUS
  <2>2. J \in SUBSET (1 .. Len(s))
    BY <2>1
  <2> QED
    <3>1. IsFiniteSet(1 .. Len(s))
      <4>1. 1 \in Int /\ Len(s) \in Int
        BY <2>1
      <4> QED
        BY <4>1, FS_Interval
    <3> QED
      BY <2>2, <3>1, FS_Subset
<1> QED
  BY <1>3, <1>4, FS_Bijection

\* What was collected is exactly what was kept.
LEMMA ResultIsKept ==
  ASSUME PoolInv, returned
  PROVE  feeder = "closed" /\ IsInjective(result) /\ Range(result) = Kept
<1>1. /\ feeder = "closed" /\ toFeed = <<>> /\ in = <<>> /\ all = <<>>
      /\ \A w \in Workers : held[w] = <<>> /\ out[w] = <<>> /\ carried[w] = <<>>
  BY AllEnded DEF PoolInv, EndsInv
<1> DEFINE r == <<"result", "pipeline">>
<1>2. r \in Places /\ DOMAIN Queues = Places /\ Queues[r] = result
  BY PlacesThere, QueuesNow
<1>3. \A p \in Places : p # r => Queues[p] = <<>>
  <2> SUFFICES ASSUME NEW p \in Places, p # r PROVE Queues[p] = <<>>
    OBVIOUS
  <2>1. CASE \E w \in Workers : p \in {<<"held", w>>, <<"out", w>>, <<"carried", w>>}
    BY <1>1, <2>1, QueuesNow
  <2> QED
    BY <1>1, <2>1, PlaceCases, QueuesNow
<1>4. IsInjective(result)
  BY <1>2 DEF PoolInv, OnceInv, HoldOnce, IsInjective
<1>5. Range(result) = Kept
  <2>1. \A p \in Places : p # r => DOMAIN Queues[p] = {}
    BY <1>3
  <2> HIDE DEF r
  <2>2. \A k : k \in Kept <=> \E p \in Places : \E i \in DOMAIN Queues[p] : Queues[p][i] = k
    BY <1>2 DEF PoolInv, OnceInv, HoldOnce
  <2>3. \A k : k \in Kept <=> \E i \in DOMAIN result : result[i] = k
    BY <1>2, <2>1, <2>2
  <2> QED
    BY <2>3 DEF Range
<1> QED
  BY <1>1, <1>4, <1>5

\* The counts published for a topic are over exactly the partitions whose lookups
\* succeeded, whatever order they arrived in.
THEOREM PoolResultIsComplete == Spec => []ResultIsComplete
<1>1. PoolInv => ResultIsComplete
  <2> SUFFICES ASSUME PoolInv PROVE ResultIsComplete
    OBVIOUS
  <2>1. returned => feeder = "closed" /\ IsInjective(result) /\ Range(result) = Kept
    BY ResultIsKept
  <2>2. ASSUME NEW j \in DOMAIN sample
        PROVE  /\ sample[j].partitionCount = Cardinality(Kept)
               /\ sample[j].nonPreferred = Cardinality(Kept \cap NonPreferred)
               /\ sample[j].underReplicated = Cardinality(Kept \cap UnderReplicated)
               /\ sample[j].replicationFactor \in
                     IF Kept = {} THEN {0} ELSE {ReplicasOf[p] : p \in Kept}
    <3>1. topic = "done" /\ returned
      BY <2>2 DEF PoolInv, SampleInv, EndsInv
    <3>2. /\ sample[j].partitionCount = Len(result)
          /\ sample[j].replicationFactor = IF result = <<>> THEN 0 ELSE ReplicasOf[result[1]]
          /\ sample[j].nonPreferred = PartitionsIn(NonPreferred)
          /\ sample[j].underReplicated = PartitionsIn(UnderReplicated)
      BY <2>2, <3>1 DEF PoolInv, SampleInv
    <3>3. result \in Seq(Indices) /\ IsInjective(result) /\ Range(result) = Kept
      BY <2>1, <3>1 DEF PoolInv, PoolTypes
    <3>4. PartitionsIn(NonPreferred) = Cardinality(Kept \cap NonPreferred)
      BY <3>3, CountMembers DEF PartitionsIn
    <3>5. PartitionsIn(UnderReplicated) = Cardinality(Kept \cap UnderReplicated)
      BY <3>3, CountMembers DEF PartitionsIn
    <3>6. Len(result) = Cardinality(Kept)
      <4>1. {i \in DOMAIN result : result[i] \in Kept} = 1 .. Len(result)
        BY <3>3 DEF Range
      <4>2. Cardinality({i \in DOMAIN result : result[i] \in Kept}) = Cardinality(Kept)
        <5>1. Cardinality({i \in DOMAIN result : result[i] \in Kept}) = Cardinality(Kept \cap Kept)
          BY <3>3, CountMembers
        <5> QED
          BY <5>1
      <4>3. Len(result) \in Nat
        BY <3>3
      <4>4. Cardinality(1 .. Len(result)) = Len(result)
        <5>1. 1 \in Int /\ Len(result) \in Int
          BY <4>3
        <5>2. Cardinality(1 .. Len(result)) = IF 1 > Len(result) THEN 0 ELSE Len(result) - 1 + 1
          BY <5>1, FS_Interval
        <5> QED
          BY <4>3, <5>2
      <4> QED
        BY <4>1, <4>2, <4>4
    <3>7. sample[j].replicationFactor \in IF Kept = {} THEN {0} ELSE {ReplicasOf[p] : p \in Kept}
      <4>1. CASE result = <<>>
        BY <3>2, <3>3, <4>1 DEF Range
      <4>2. CASE result # <<>>
        <5>1. 1 \in DOMAIN result
          BY <3>3, <4>2
        <5>2. result[1] \in Kept
          BY <3>3, <5>1 DEF Range
        <5> QED
          BY <3>2, <4>2, <5>2
      <4> QED
        BY <4>1, <4>2
    <3> QED
      BY <3>2, <3>4, <3>5, <3>6, <3>7
  <2> QED
    BY <2>1, <2>2 DEF ResultIsComplete, Kept
<1> QED
  BY <1>1, PoolInvariant, PTL
==============================================================================
