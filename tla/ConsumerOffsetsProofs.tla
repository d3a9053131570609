------------------------ MODULE ConsumerOffsetsProofs ------------------------
(***************************************************************************)
(* For every group, every assignment and every size of the buffer: no       *)
(* goroutine sends on a closed channel, no partition is counted twice, none *)
(* is lost without a reason, and the collection implements LagRollup.       *)
(*                                                                          *)
(* The invariant says what the collecting goroutine can have started        *)
(* (PhasesInv), which pass a block belongs to (PassesInv), what the         *)
(* inactive pass leaves out (VisitsInv), where a measured lag is (LagsInv)  *)
(* and what the wait groups count (WaitGroupsInv).                          *)
(***************************************************************************)
EXTENDS ConsumerOffsets, FoldTheorems

BeforeMembers == Requests \cup {"failed", "skipped"}
AfterPasses == {"aggregate", "wait", "published"}

\* The collecting goroutine has got to a block: it is in the response at hand,
\* or its goroutine was started.
Touched(b) == b \in blocks \/ worker[b] # "none"

\* Where the collecting goroutine is decides what it can have started.
PhasesInv ==
    /\ pc \notin AfterPasses => \A ch \in Chans : aggregator[ch] = "off"
    /\ pc = "aggregate" => aggregator["group"] = "off"
    /\ pc \in {"wait", "published"} => \A ch \in Chans : aggregator[ch] # "off"
    /\ pc = "published" => LagResultsDone
    /\ blocks # {} => pc \in {"members", "inactive"}
    /\ todoTopics # {} => pc \in {"inactive", "panicked"}

\* A block belongs to one of the two passes: to that of the members, if it is in
\* the answer for a member's assignment, or to the inactive one, if its topic is
\* in none of these answers.
PassesInv ==
    /\ topicExclusions = InternalTopics \cup {t \in Topics : ConsumedByAnswered(t)}
    /\ todoTopics \cap topicExclusions = {}
    /\ \A b \in blocks : worker[b] = "none"
    /\ \A b \in Blocks : Touched(b) =>
          /\ pc \notin BeforeMembers
          /\ Owner(b) \in Members =>
                Owner(b) \in answered \ todoMembers /\ TP(b) \in assignment[Owner(b)]
          /\ Owner(b) = NoMember =>
                pc # "members" /\ TopicOf(b) \notin todoTopics \cup topicExclusions

\* The inactive pass leaves out a topic only for a reason.
VisitsInv ==
    pc \in {"inactive"} \cup AfterPasses =>
        \A t \in Topics \ topicExclusions :
            \/ t \in todoTopics \cup unvisited
            \/ \A p \in Partitions : Touched(<<NoMember, <<t, p>>>>)

\* The states of a goroutine that has sent on a channel, if it had a lag to send.
Past(ch) == IF ch = "client" THEN {"sendGroup", "exiting", "done"} ELSE {"exiting", "done"}

\* A lag is on its way to an aggregator or counted exactly if it was measured,
\* is due there and was sent.
LagsInv ==
    /\ \A b \in Blocks :
          /\ worker[b] \in {"none", "measuring"} => b \notin partitionLag
          /\ worker[b] \in {"sendClient", "sendGroup"} => b \in partitionLag
          /\ worker[b] = "sendClient" => Owner(b) \in Members
    /\ \A ch \in Chans :
          /\ chan[ch] \cap counted[ch] = {}
          /\ \A b \in Blocks :
                b \in chan[ch] \cup counted[ch]
                    <=> b \in partitionLag /\ ch \in WaitGroupsOf(b) /\ worker[b] \in Past(ch)

\* The goroutines a wait group counts.
InFlight(ch) ==
    {b \in Blocks : ch \in WaitGroupsOf(b) /\ worker[b] \notin {"none", "done"}}

WaitGroupsInv ==
    /\ \A ch \in Chans : wg[ch] = Cardinality(InFlight(ch))
    /\ \A ch \in closed : aggregator[ch] # "off" /\ wg[ch] = 0
    /\ \A ch \in Chans : aggregator[ch] = "done" => ch \in closed /\ chan[ch] = {}

OffsetsInv == TypeOK /\ PhasesInv /\ PassesInv /\ VisitsInv /\ LagsInv /\ WaitGroupsInv

\* The rollups are those of the lags that were received so far.
RollupsInv ==
    /\ clientRollup = ClientTotals(counted["client"])
    /\ groupRollup = GroupTotals(counted["group"])


-----------------------------------------------------------------------------
(* Blocks and the set a wait group counts.                                  *)

\* A block is the pair of its owner and its partition.
LEMMA BlockShape ==
  /\ \A b \in Blocks : /\ Owner(b) \in Owners
                       /\ TP(b) \in TopicPartitions
                       /\ TopicOf(b) \in Topics
                       /\ b = <<Owner(b), TP(b)>>
  /\ \A o \in Owners, t \in Topics, p \in Partitions :
        /\ <<o, <<t, p>>>> \in Blocks
        /\ Owner(<<o, <<t, p>>>>) = o
        /\ TP(<<o, <<t, p>>>>) = <<t, p>>
        /\ TopicOf(<<o, <<t, p>>>>) = t
BY DEF Blocks, TopicPartitions, Owner, TP, TopicOf

\* There are finitely many blocks.
LEMMA BlocksFinite == IsFiniteSet(Blocks)
<1>1. IsFiniteSet(TopicPartitions)
  BY FiniteAssumption, FS_Product DEF TopicPartitions
<1>2. IsFiniteSet(Owners)
  BY FiniteAssumption, FS_AddElement DEF Owners
<1> QED
  BY <1>1, <1>2, FS_Product DEF Blocks

\* The goroutines a wait group counts are a finite set.
LEMMA InFlightFinite ==
  \A ch \in Chans : IsFiniteSet(InFlight(ch)) /\ Cardinality(InFlight(ch)) \in Nat
<1> SUFFICES ASSUME NEW ch \in Chans
             PROVE  IsFiniteSet(InFlight(ch)) /\ Cardinality(InFlight(ch)) \in Nat
  OBVIOUS
<1>1. InFlight(ch) \in SUBSET Blocks
  BY DEF InFlight
<1>2. IsFiniteSet(InFlight(ch))
  BY <1>1, BlocksFinite, FS_Subset
<1> QED
  BY <1>2, FS_CardinalityType

-----------------------------------------------------------------------------
(* What a step leaves alone.                                                *)

\* A step that touches neither the goroutines' states nor the channels.
LEMMA LagsFrame ==
  ASSUME LagsInv, UNCHANGED <<worker, partitionLag, chan, counted>>
  PROVE  LagsInv'
BY DEF LagsInv, Past

\* A step that touches neither the goroutines nor a closer or aggregator.
LEMMA WaitGroupsFrame ==
  ASSUME WaitGroupsInv, UNCHANGED <<worker, wg, chan, closed, aggregator>>
  PROVE  WaitGroupsInv'
BY DEF WaitGroupsInv, InFlight

\* A step of a goroutine that was started leaves the passes alone.
LEMMA PassesFrame ==
  ASSUME PassesInv, VisitsInv, TypeOK, UNCHANGED collectorVars,
         \A b \in Blocks : worker'[b] = "none" <=> worker[b] = "none"
  PROVE  PassesInv' /\ VisitsInv'
<1> USE DEF collectorVars, given
<1>1. \A b \in Blocks : Touched(b)' <=> Touched(b)
  BY DEF Touched
<1>2. PassesInv'
  BY <1>1 DEF PassesInv, TypeOK, ConsumedByAnswered
<1>3. VisitsInv'
  <2>1. \A t \in Topics, p \in Partitions : <<NoMember, <<t, p>>>> \in Blocks
    BY BlockShape DEF Owners
  <2> QED
    BY <1>1, <2>1 DEF VisitsInv, TypeOK
<1> QED
  BY <1>2, <1>3

-----------------------------------------------------------------------------
\* Before Collect has asked for anything.
LEMMA OffsetsInitInv == Init => OffsetsInv
<1> SUFFICES ASSUME Init PROVE OffsetsInv
  OBVIOUS
<1> USE DEF Init
<1>1. TypeOK
  BY InternalAssumption DEF TypeOK, Requests
<1>2. PhasesInv
  BY DEF PhasesInv, AfterPasses, LagResultsDone
<1>3. PassesInv
  BY InternalAssumption DEF PassesInv, Touched, ConsumedByAnswered
<1>4. VisitsInv
  BY DEF VisitsInv, AfterPasses
<1>5. LagsInv
  BY DEF LagsInv, Past
<1>6. WaitGroupsInv
  <2>1. \A ch \in Chans : InFlight(ch) = {}
    BY DEF InFlight
  <2> QED
    BY <2>1, FS_EmptySet DEF WaitGroupsInv
<1> QED
  BY <1>1, <1>2, <1>3, <1>4, <1>5, <1>6 DEF OffsetsInv

-----------------------------------------------------------------------------
(* Collect: nothing is started yet.                                         *)

\* The requests before the goroutine of the group leave nothing to invalidate.
LEMMA CollectInv ==
  ASSUME OffsetsInv, Collect
  PROVE  OffsetsInv'
<1> USE DEF OffsetsInv, CollectVars, given, goroutineVars, channelVars
<1>1. /\ pc \in Requests
      /\ pc' \in {"failed", "skipped", "list", "describe", "members"}
      /\ todoMembers' \in SUBSET Members
      /\ UNCHANGED CollectVars
  BY DEF Collect, CreateAdmin, ListGroups, DescribeGroup, RequestFails, TypeOK, Requests
<1>2. TypeOK'
  BY <1>1 DEF TypeOK, Requests
<1>3. PhasesInv'
  BY <1>1 DEF PhasesInv, AfterPasses, Requests, LagResultsDone
<1>4. \A b \in Blocks : ~Touched(b) /\ ~Touched(b)'
  BY <1>1 DEF PassesInv, BeforeMembers, Touched
<1>5. PassesInv'
  BY <1>1, <1>4 DEF PassesInv, TypeOK, Touched, ConsumedByAnswered
<1>6. VisitsInv'
  BY <1>1 DEF VisitsInv, AfterPasses
<1>7. LagsInv' /\ WaitGroupsInv'
  BY <1>1, LagsFrame, WaitGroupsFrame
<1> QED
  BY <1>2, <1>3, <1>5, <1>6, <1>7

-----------------------------------------------------------------------------
(* The collecting goroutine.                                                *)

\* A member that is skipped gets no block and excludes no topic.
LEMMA SkipMemberInv ==
  ASSUME OffsetsInv, NEW m \in Members, SkipMember(m)
  PROVE  OffsetsInv'
<1> USE DEF OffsetsInv, SkipMember, given, goroutineVars, channelVars
<1>1. TypeOK'
  BY DEF TypeOK
<1>2. PhasesInv'
  BY DEF PhasesInv, AfterPasses, LagResultsDone
<1>3. PassesInv'
  BY DEF PassesInv, TypeOK, Touched, ConsumedByAnswered
<1>4. VisitsInv'
  BY DEF VisitsInv, AfterPasses
<1>5. LagsInv' /\ WaitGroupsInv'
  BY LagsFrame, WaitGroupsFrame
<1> QED
  BY <1>1, <1>2, <1>3, <1>4, <1>5

\* The blocks of a member's answer are new: none of its goroutines was started.
LEMMA AnswerMemberInv ==
  ASSUME OffsetsInv, NEW m \in Members, AnswerMember(m)
  PROVE  OffsetsInv'
<1> USE DEF OffsetsInv, AnswerMember, given, goroutineVars, channelVars
<1>1. assignment[m] \subseteq TopicPartitions
  BY AssignmentAssumption DEF TypeOK
<1>2. {tp[1] : tp \in assignment[m]} = {t \in Topics : \E p \in Partitions : <<t, p>> \in assignment[m]}
  <2>1. \A tp \in assignment[m] : tp[1] \in Topics /\ tp[2] \in Partitions /\ tp = <<tp[1], tp[2]>>
    BY <1>1 DEF TopicPartitions
  <2>2. ASSUME NEW t \in Topics, NEW p \in Partitions, <<t, p>> \in assignment[m]
        PROVE  t \in {tp[1] : tp \in assignment[m]}
    <3>1. <<t, p>>[1] = t
      OBVIOUS
    <3> QED
      BY <2>2, <3>1
  <2>3. ASSUME NEW tp \in assignment[m]
        PROVE  tp[1] \in {t \in Topics : \E p \in Partitions : <<t, p>> \in assignment[m]}
    BY <2>1
  <2> QED
    BY <2>2, <2>3
<1>3. \A b \in blocks' : b \in Blocks /\ Owner(b) = m /\ TP(b) \in assignment[m]
  BY <1>1 DEF Blocks, Owners, Owner, TP
<1>4. TypeOK'
  BY <1>2, <1>3 DEF TypeOK
<1>5. PhasesInv'
  BY DEF PhasesInv, AfterPasses, LagResultsDone
<1>6. PassesInv'
  <2>1. topicExclusions' = InternalTopics \cup {t \in Topics : ConsumedByAnswered(t)'}
    BY <1>2 DEF PassesInv, ConsumedByAnswered
  <2>2. \A b \in blocks' : worker'[b] = "none"
    BY <1>3 DEF PassesInv, Touched
  <2>3. ASSUME NEW b \in Blocks, Touched(b)'
        PROVE  /\ pc \notin BeforeMembers
               /\ Owner(b) \in Members
               /\ Owner(b) \in answered' \ todoMembers' /\ TP(b) \in assignment[Owner(b)]
    <3>1. CASE b \in blocks'
      BY <3>1, <1>3 DEF BeforeMembers, Requests
    <3>2. CASE worker[b] # "none"
      BY <3>2, BlockShape DEF PassesInv, Touched, Owners
    <3> QED
      BY <2>3, <3>1, <3>2 DEF Touched
  <2> QED
    BY <2>1, <2>2, <2>3, NoMemberAssumption DEF PassesInv, PhasesInv
<1>7. VisitsInv'
  BY DEF VisitsInv, AfterPasses
<1>8. LagsInv' /\ WaitGroupsInv'
  BY LagsFrame, WaitGroupsFrame
<1> QED
  BY <1>4, <1>5, <1>6, <1>7, <1>8

\* The wait groups are raised before the goroutine runs; the channels are open,
\* since no aggregator has been started.
LEMMA StartGoroutineInv ==
  ASSUME OffsetsInv, NEW b \in Blocks, StartGoroutine(b)
  PROVE  OffsetsInv'
<1> USE DEF OffsetsInv, StartGoroutine, given, channelVars
<1>1. /\ worker[b] = "none"
      /\ worker'[b] = "measuring"
      /\ \A d \in Blocks : d # b => worker'[d] = worker[d]
  BY DEF PassesInv, TypeOK
<1>2. TypeOK'
  BY DEF TypeOK
<1>3. PhasesInv'
  BY DEF PhasesInv, AfterPasses, LagResultsDone
<1>4. \A d \in Blocks : Touched(d)' <=> Touched(d)
  BY <1>1 DEF Touched
<1>5. PassesInv'
  BY <1>1, <1>4 DEF PassesInv, TypeOK, ConsumedByAnswered
<1>6. VisitsInv'
  <2>1. \A t \in Topics, p \in Partitions : <<NoMember, <<t, p>>>> \in Blocks
    BY BlockShape DEF Owners
  <2> QED
    BY <1>4, <2>1 DEF VisitsInv
<1>7. LagsInv'
  BY <1>1 DEF LagsInv, Past
<1>8. WaitGroupsInv'
  <2>1. \A ch \in Chans : aggregator[ch] = "off"
    BY DEF PhasesInv, AfterPasses
  <2>2. ASSUME NEW ch \in Chans
        PROVE  wg'[ch] = Cardinality(InFlight(ch)')
    <3>1. CASE ch \in WaitGroupsOf(b)
      <4>1. InFlight(ch)' = InFlight(ch) \cup {b} /\ b \notin InFlight(ch)
        BY <1>1, <3>1 DEF InFlight
      <4>2. Cardinality(InFlight(ch)') = Cardinality(InFlight(ch)) + 1
        BY <4>1, InFlightFinite, FS_AddElement
      <4> QED
        BY <3>1, <4>2 DEF WaitGroupsInv
    <3>2. CASE ch \notin WaitGroupsOf(b)
      <4>1. InFlight(ch)' = InFlight(ch)
        BY <1>1, <3>2 DEF InFlight
      <4> QED
        BY <3>2, <4>1 DEF WaitGroupsInv
    <3> QED
      BY <3>1, <3>2
  <2>3. closed = {}
    BY <2>1 DEF WaitGroupsInv, TypeOK
  <2> QED
    BY <2>1, <2>2, <2>3 DEF WaitGroupsInv
<1> QED
  BY <1>2, <1>3, <1>5, <1>6, <1>7, <1>8

\* Without the inactive pass every topic counts as unvisited.
LEMMA SkipInactiveInv ==
  ASSUME OffsetsInv, SkipInactive
  PROVE  OffsetsInv'
<1> USE DEF OffsetsInv, SkipInactive, MembersDone, given, goroutineVars, channelVars
<1>1. TypeOK'
  BY DEF TypeOK
<1>2. PhasesInv'
  BY DEF PhasesInv, AfterPasses, Chans
<1>3. PassesInv'
  BY BlockShape, NoMemberAssumption DEF PassesInv, Touched, ConsumedByAnswered, BeforeMembers, Requests
<1>4. VisitsInv'
  BY DEF VisitsInv
<1>5. LagsInv' /\ WaitGroupsInv'
  BY LagsFrame, WaitGroupsFrame
<1> QED
  BY <1>1, <1>2, <1>3, <1>4, <1>5

\* The inactive pass starts with every topic that is not excluded.
LEMMA ListTopicsInv ==
  ASSUME OffsetsInv, ListTopics
  PROVE  OffsetsInv'
<1> USE DEF OffsetsInv, ListTopics, MembersDone, given, goroutineVars, channelVars
<1>1. TypeOK'
  BY DEF TypeOK
<1>2. PhasesInv'
  BY DEF PhasesInv, AfterPasses, LagResultsDone
<1>3. PassesInv'
  BY BlockShape, NoMemberAssumption DEF PassesInv, Touched, ConsumedByAnswered, BeforeMembers, Requests
<1>4. VisitsInv'
  BY DEF VisitsInv, AfterPasses
<1>5. LagsInv' /\ WaitGroupsInv'
  BY LagsFrame, WaitGroupsFrame
<1> QED
  BY <1>1, <1>2, <1>3, <1>4, <1>5

\* The blocks of a topic nobody consumes are new, and they are all of its
\* partitions.
LEMMA AnswerTopicInv ==
  ASSUME OffsetsInv, NEW t \in Topics, AnswerTopic(t)
  PROVE  OffsetsInv'
<1> USE DEF OffsetsInv, AnswerTopic, given, goroutineVars, channelVars
<1>1. \A d : d \in blocks' <=> \E p \in Partitions : d = <<NoMember, <<t, p>>>>
  OBVIOUS
<1>2. \A d \in blocks' : d \in Blocks /\ Owner(d) = NoMember /\ TopicOf(d) = t
  BY <1>1, BlockShape DEF Owners
<1>3. TypeOK'
  BY <1>2 DEF TypeOK
<1>4. PhasesInv'
  BY DEF PhasesInv, AfterPasses, LagResultsDone
<1>5. t \notin topicExclusions
  BY DEF PassesInv
<1>6. PassesInv'
  <2>1. \A b \in blocks' : worker'[b] = "none"
    BY <1>2 DEF PassesInv, Touched
  <2>2. ASSUME NEW b \in Blocks, Touched(b)'
        PROVE  /\ Owner(b) \in Members =>
                    Owner(b) \in answered \ todoMembers /\ TP(b) \in assignment[Owner(b)]
               /\ Owner(b) = NoMember => TopicOf(b) \notin todoTopics' \cup topicExclusions
    <3>1. CASE b \in blocks'
      BY <3>1, <1>2, <1>5, NoMemberAssumption
    <3>2. CASE worker[b] # "none"
      BY <3>2 DEF PassesInv, Touched
    <3> QED
      BY <2>2, <3>1, <3>2 DEF Touched
  <2> QED
    BY <2>1, <2>2 DEF PassesInv, BeforeMembers, Requests, ConsumedByAnswered
<1>7. VisitsInv'
  <2>1. ASSUME NEW u \in Topics \ topicExclusions, NEW p \in Partitions, u # t,
               Touched(<<NoMember, <<u, p>>>>)
        PROVE  Touched(<<NoMember, <<u, p>>>>)'
    BY <2>1 DEF Touched
  <2>2. \A p \in Partitions : Touched(<<NoMember, <<t, p>>>>)'
    BY <1>1 DEF Touched
  <2> QED
    BY <2>1, <2>2 DEF VisitsInv
<1>8. LagsInv' /\ WaitGroupsInv'
  BY LagsFrame, WaitGroupsFrame
<1> QED
  BY <1>3, <1>4, <1>6, <1>7, <1>8

\* A topic whose answer is empty is noted as unvisited; without an answer the
\* process ends.
LEMMA AnswerTopicEmptyInv ==
  ASSUME OffsetsInv, NEW t \in Topics, AnswerTopicEmpty(t) \/ AnswerTopicNil(t)
  PROVE  OffsetsInv'
<1> USE DEF OffsetsInv, AnswerTopicEmpty, AnswerTopicNil, given, goroutineVars, channelVars
<1>1. TypeOK'
  BY DEF TypeOK
<1>2. PhasesInv'
  BY DEF PhasesInv, AfterPasses, LagResultsDone
<1>3. PassesInv'
  BY DEF PassesInv, Touched, ConsumedByAnswered, BeforeMembers, Requests
<1>4. VisitsInv'
  BY DEF VisitsInv, AfterPasses, Touched
<1>5. LagsInv' /\ WaitGroupsInv'
  BY LagsFrame, WaitGroupsFrame
<1> QED
  BY <1>1, <1>2, <1>3, <1>4, <1>5

\* Every topic of the inactive pass was answered.
LEMMA InactiveDoneInv ==
  ASSUME OffsetsInv, InactiveDone
  PROVE  OffsetsInv'
<1> USE DEF OffsetsInv, InactiveDone, given, goroutineVars, channelVars
<1>1. TypeOK'
  BY DEF TypeOK
<1>2. PhasesInv'
  BY DEF PhasesInv, AfterPasses, Chans
<1>3. PassesInv'
  BY DEF PassesInv, Touched, ConsumedByAnswered, BeforeMembers, Requests
<1>4. VisitsInv'
  BY DEF VisitsInv, Touched
<1>5. LagsInv' /\ WaitGroupsInv'
  BY LagsFrame, WaitGroupsFrame
<1> QED
  BY <1>1, <1>2, <1>3, <1>4, <1>5

\* The aggregators are started after both passes, the group's one last.
LEMMA StartAggregatorInv ==
  ASSUME OffsetsInv, NEW ch \in Chans, StartAggregator(ch)
  PROVE  OffsetsInv'
<1> USE DEF OffsetsInv, StartAggregator, given, goroutineVars
<1>1. TypeOK'
  BY DEF TypeOK
<1>2. PhasesInv'
  BY DEF PhasesInv, AfterPasses, Chans, TypeOK
<1>3. PassesInv'
  BY DEF PassesInv, Touched, ConsumedByAnswered, BeforeMembers, Requests
<1>4. VisitsInv'
  BY DEF VisitsInv, AfterPasses, Touched
<1>5. LagsInv'
  BY LagsFrame
<1>6. WaitGroupsInv'
  <2>1. \A c \in Chans : InFlight(c)' = InFlight(c)
    BY DEF InFlight
  <2>2. ch \notin closed
    BY DEF WaitGroupsInv
  <2> QED
    BY <2>1, <2>2 DEF WaitGroupsInv, TypeOK
<1> QED
  BY <1>1, <1>2, <1>3, <1>4, <1>5, <1>6

\* Nothing is started once the rollups are published.
LEMMA PublishInv ==
  ASSUME OffsetsInv, Publish
  PROVE  OffsetsInv'
<1> USE DEF OffsetsInv, Publish, given, goroutineVars, channelVars
<1>1. TypeOK'
  BY DEF TypeOK
<1>2. PhasesInv'
  BY DEF PhasesInv, AfterPasses, LagResultsDone
<1>3. PassesInv'
  BY DEF PassesInv, Touched, ConsumedByAnswered, BeforeMembers, Requests
<1>4. VisitsInv'
  BY DEF VisitsInv, AfterPasses, Touched
<1>5. LagsInv' /\ WaitGroupsInv'
  BY LagsFrame, WaitGroupsFrame
<1> QED
  BY <1>1, <1>2, <1>3, <1>4, <1>5

-----------------------------------------------------------------------------
(* The goroutine of one block.                                              *)

\* A goroutine that goes on without ending changes no wait group.
LEMMA GoingOn ==
  ASSUME OffsetsInv, NEW b \in Blocks, worker[b] \notin {"none", "done"},
         NEW s, s \notin {"none", "done"}, worker' = [worker EXCEPT ![b] = s],
         UNCHANGED <<wg, closed, aggregator>>,
         \A ch \in Chans : aggregator[ch] = "done" => chan'[ch] = chan[ch]
  PROVE  WaitGroupsInv'
<1>1. \A ch \in Chans : InFlight(ch)' = InFlight(ch)
  BY DEF InFlight, OffsetsInv, TypeOK
<1> QED
  BY <1>1 DEF OffsetsInv, WaitGroupsInv

\* The measured lag is still to be sent, and was not measured before.
LEMMA MeasureInv ==
  ASSUME OffsetsInv, NEW b \in Blocks, Measure(b)
  PROVE  OffsetsInv'
<1> USE DEF OffsetsInv, Measure, channelVars
<1>1. /\ worker'[b] = IF Owner(b) = NoMember THEN "sendGroup" ELSE "sendClient"
      /\ \A d \in Blocks : d # b => worker'[d] = worker[d]
  BY DEF TypeOK
<1>2. TypeOK'
  BY DEF TypeOK, collectorVars, given
<1>3. PhasesInv'
  BY DEF PhasesInv, collectorVars, LagResultsDone
<1>4. PassesInv' /\ VisitsInv'
  BY <1>1, PassesFrame
<1>5. LagsInv'
  <2>1. Owner(b) \in Members \cup {NoMember}
    BY BlockShape DEF Owners
  <2> QED
    BY <1>1, <2>1 DEF LagsInv, Past, WaitGroupsOf, Chans
<1>6. WaitGroupsInv'
  BY GoingOn
<1> QED
  BY <1>2, <1>3, <1>4, <1>5, <1>6

\* A goroutine that measures nothing has nothing to send.
LEMMA SkipInv ==
  ASSUME OffsetsInv, NEW b \in Blocks, Skip(b)
  PROVE  OffsetsInv'
<1> USE DEF OffsetsInv, Skip, channelVars
<1>1. /\ worker'[b] = "exiting"
      /\ \A d \in Blocks : d # b => worker'[d] = worker[d]
  BY DEF TypeOK
<1>2. TypeOK'
  BY DEF TypeOK, collectorVars, given
<1>3. PhasesInv'
  BY DEF PhasesInv, collectorVars, LagResultsDone
<1>4. PassesInv' /\ VisitsInv'
  BY <1>1, PassesFrame
<1>5. LagsInv'
  BY <1>1 DEF LagsInv, Past
<1>6. WaitGroupsInv'
  BY GoingOn
<1> QED
  BY <1>2, <1>3, <1>4, <1>5, <1>6

\* A lag that is sent was not in the channel and not counted yet.
LEMMA SendInv ==
  ASSUME OffsetsInv, NEW b \in Blocks, NEW ch \in Chans, Send(b, ch)
  PROVE  OffsetsInv'
<1> USE DEF OffsetsInv, Send
<1>1. /\ worker'[b] = AfterSend(ch)
      /\ \A d \in Blocks : d # b => worker'[d] = worker[d]
      /\ chan'[ch] = chan[ch] \cup {b}
      /\ \A c \in Chans : c # ch => chan'[c] = chan[c]
  BY DEF TypeOK
<1>2. AfterSend(ch) \in {"sendGroup", "exiting"} /\ worker[b] \in {"sendClient", "sendGroup"}
  BY DEF AfterSend, SendState, Chans
<1>3. ch \in WaitGroupsOf(b)
  BY NoMemberAssumption DEF LagsInv, SendState, WaitGroupsOf, Chans
<1>4. aggregator[ch] # "done"
  <2>1. b \in InFlight(ch)
    BY <1>2, <1>3 DEF InFlight
  <2>2. wg[ch] # 0
    BY <2>1, InFlightFinite, FS_EmptySet DEF WaitGroupsInv
  <2> QED
    BY <2>2 DEF WaitGroupsInv
<1>5. TypeOK'
  BY <1>2 DEF TypeOK, collectorVars, given
<1>6. PhasesInv'
  BY DEF PhasesInv, collectorVars, LagResultsDone
<1>7. PassesInv' /\ VisitsInv'
  BY <1>1, <1>2, PassesFrame
<1>8. LagsInv'
  BY <1>1, <1>3 DEF LagsInv, Past, AfterSend, SendState, Chans, WaitGroupsOf
<1>9. WaitGroupsInv'
  BY <1>1, <1>2, <1>4, GoingOn
<1> QED
  BY <1>5, <1>6, <1>7, <1>8, <1>9

\* The deferred calls take the goroutine off the wait groups it was added to.
LEMMA ExitInv ==
  ASSUME OffsetsInv, NEW b \in Blocks, Exit(b)
  PROVE  OffsetsInv'
<1> USE DEF OffsetsInv, Exit, channelVars
<1>1. /\ worker[b] = "exiting" /\ worker'[b] = "done"
      /\ \A d \in Blocks : d # b => worker'[d] = worker[d]
  BY DEF TypeOK
<1>2. \A ch \in Chans : wg'[ch] = Cardinality(InFlight(ch)') /\ (wg[ch] = 0 => wg'[ch] = 0)
  <2> SUFFICES ASSUME NEW ch \in Chans
               PROVE  wg'[ch] = Cardinality(InFlight(ch)') /\ (wg[ch] = 0 => wg'[ch] = 0)
    OBVIOUS
  <2>1. CASE ch \in WaitGroupsOf(b)
    <3>1. InFlight(ch)' = InFlight(ch) \ {b} /\ b \in InFlight(ch)
      BY <1>1, <2>1 DEF InFlight
    <3>2. Cardinality(InFlight(ch)') = Cardinality(InFlight(ch)) - 1
      BY <3>1, InFlightFinite, FS_RemoveElement
    <3>3. wg[ch] # 0
      BY <3>1, InFlightFinite, FS_EmptySet DEF WaitGroupsInv
    <3> QED
      BY <2>1, <3>2, <3>3 DEF WaitGroupsInv
  <2>2. CASE ch \notin WaitGroupsOf(b)
    <3>1. InFlight(ch)' = InFlight(ch)
      BY <1>1, <2>2 DEF InFlight
    <3> QED
      BY <2>2, <3>1 DEF WaitGroupsInv
  <2> QED
    BY <2>1, <2>2
<1>3. \A ch \in Chans : wg'[ch] \in Nat
  <2> SUFFICES ASSUME NEW ch \in Chans PROVE wg'[ch] \in Nat
    OBVIOUS
  <2>1. InFlight(ch)' \in SUBSET Blocks
    BY DEF InFlight
  <2>2. Cardinality(InFlight(ch)') \in Nat
    BY <2>1, BlocksFinite, FS_Subset, FS_CardinalityType
  <2> QED
    BY <1>2, <2>2
<1>4. TypeOK'
  BY <1>3 DEF TypeOK, collectorVars, given
<1>5. PhasesInv'
  BY DEF PhasesInv, collectorVars, LagResultsDone
<1>6. PassesInv' /\ VisitsInv'
  BY <1>1, PassesFrame
<1>7. LagsInv'
  BY <1>1 DEF LagsInv, Past
<1>8. WaitGroupsInv'
  BY <1>2 DEF WaitGroupsInv, TypeOK
<1> QED
  BY <1>4, <1>5, <1>6, <1>7, <1>8

-----------------------------------------------------------------------------
(* Closer and aggregator of one channel.                                    *)

\* A channel is closed while its wait group counts nobody.
LEMMA CloseInv ==
  ASSUME OffsetsInv, NEW ch \in Chans, Close(ch)
  PROVE  OffsetsInv'
<1> USE DEF OffsetsInv, Close, goroutineVars
<1>1. TypeOK'
  BY DEF TypeOK, collectorVars, given
<1>2. PhasesInv'
  BY DEF PhasesInv, collectorVars, LagResultsDone
<1>3. PassesInv' /\ VisitsInv'
  BY PassesFrame
<1>4. LagsInv'
  BY LagsFrame
<1>5. WaitGroupsInv'
  BY DEF WaitGroupsInv, InFlight
<1> QED
  BY <1>1, <1>2, <1>3, <1>4, <1>5

\* A received lag moves from the channel to the lags that are counted.
LEMMA Received ==
  ASSUME OffsetsInv, NEW b \in Blocks, NEW ch \in Chans, b \in chan[ch],
         aggregator[ch] = "running",
         chan' = [chan EXCEPT ![ch] = @ \ {b}],
         counted' = [counted EXCEPT ![ch] = @ \cup {b}],
         DOMAIN clientRollup' \subseteq Clients, DOMAIN groupRollup' \subseteq Scopes,
         UNCHANGED <<closed, aggregator, collectorVars, goroutineVars>>
  PROVE  OffsetsInv'
<1> USE DEF OffsetsInv, goroutineVars
<1>1. /\ chan'[ch] = chan[ch] \ {b}
      /\ counted'[ch] = counted[ch] \cup {b}
      /\ \A c \in Chans : c # ch => chan'[c] = chan[c] /\ counted'[c] = counted[c]
  BY DEF TypeOK
<1>2. TypeOK'
  BY DEF TypeOK, collectorVars, given
<1>3. PhasesInv'
  BY DEF PhasesInv, collectorVars, LagResultsDone
<1>4. PassesInv' /\ VisitsInv'
  BY PassesFrame
<1>5. LagsInv'
  <2>1. \A c \in Chans : /\ chan'[c] \cup counted'[c] = chan[c] \cup counted[c]
                         /\ chan'[c] \cap counted'[c] = {}
    BY <1>1 DEF LagsInv
  <2> QED
    BY <2>1 DEF LagsInv, Past
<1>6. WaitGroupsInv'
  <2>1. \A c \in Chans : InFlight(c)' = InFlight(c)
    BY DEF InFlight
  <2> QED
    BY <1>1, <2>1 DEF WaitGroupsInv
<1> QED
  BY <1>2, <1>3, <1>4, <1>5, <1>6

\* Only a member's lag reaches the client channel, so that the rollup's key is
\* the client id of a member.
LEMMA ReceiveClientInv ==
  ASSUME OffsetsInv, NEW b \in Blocks, ReceiveClient(b)
  PROVE  OffsetsInv'
<1> USE DEF ReceiveClient
<1>1. Owner(b) \in Members
  <2>1. "client" \in WaitGroupsOf(b) /\ Owner(b) \in Owners
    BY BlockShape DEF OffsetsInv, LagsInv, Chans
  <2> QED
    BY <2>1 DEF WaitGroupsOf, Owners
<1>2. DOMAIN clientRollup' \subseteq Clients
  BY <1>1, ClientAssumption DEF AddToClient, OffsetsInv, TypeOK
<1>3. DOMAIN groupRollup' \subseteq Scopes
  BY DEF OffsetsInv, TypeOK
<1> QED
  BY <1>2, <1>3, Received DEF Chans

\* Every lag reaches the group channel: the keys are the group and a topic.
LEMMA ReceiveGroupInv ==
  ASSUME OffsetsInv, NEW b \in Blocks, ReceiveGroup(b)
  PROVE  OffsetsInv'
<1> USE DEF ReceiveGroup
<1>1. ScopesOf(b) \subseteq Scopes
  BY BlockShape DEF ScopesOf, Scopes
<1>2. DOMAIN groupRollup' \subseteq Scopes
  BY <1>1 DEF AddToGroup, OffsetsInv, TypeOK
<1>3. DOMAIN clientRollup' \subseteq Clients
  BY DEF OffsetsInv, TypeOK
<1> QED
  BY <1>2, <1>3, Received DEF Chans

\* An aggregator returns when its channel is closed and drained.
LEMMA AggregatorReturnsInv ==
  ASSUME OffsetsInv, NEW ch \in Chans, AggregatorReturns(ch)
  PROVE  OffsetsInv'
<1> USE DEF OffsetsInv, AggregatorReturns, goroutineVars
<1>1. /\ aggregator'[ch] = "done" /\ aggregator[ch] = "running"
      /\ \A c \in Chans : c # ch => aggregator'[c] = aggregator[c]
  BY DEF TypeOK
<1>2. TypeOK'
  BY DEF TypeOK, collectorVars, given
<1>3. PhasesInv'
  BY <1>1 DEF PhasesInv, collectorVars, LagResultsDone, AfterPasses, Chans
<1>4. PassesInv' /\ VisitsInv'
  BY PassesFrame
<1>5. LagsInv'
  BY LagsFrame
<1>6. WaitGroupsInv'
  <2>1. \A c \in Chans : InFlight(c)' = InFlight(c)
    BY DEF InFlight
  <2> QED
    BY <1>1, <2>1 DEF WaitGroupsInv, TypeOK
<1> QED
  BY <1>2, <1>3, <1>4, <1>5, <1>6

\* A step that changes nothing.
LEMMA OffsetsRestInv ==
  ASSUME OffsetsInv, UNCHANGED vars
  PROVE  OffsetsInv'
<1> USE DEF OffsetsInv, vars, goroutineVars, channelVars
<1>1. TypeOK'
  BY DEF TypeOK, collectorVars, given
<1>2. PhasesInv'
  BY DEF PhasesInv, collectorVars, LagResultsDone
<1>3. PassesInv' /\ VisitsInv'
  BY PassesFrame
<1>4. LagsInv' /\ WaitGroupsInv'
  BY LagsFrame, WaitGroupsFrame
<1> QED
  BY <1>1, <1>2, <1>3, <1>4

-----------------------------------------------------------------------------
\* Every step of the collection preserves the invariant.
LEMMA OffsetsNextInv == OffsetsInv /\ [Next]_vars => OffsetsInv'
<1> SUFFICES ASSUME OffsetsInv, [Next]_vars PROVE OffsetsInv'
  OBVIOUS
<1>1. CASE Collector
  <2>1. CASE Collect
    BY <2>1, CollectInv
  <2>2. CASE \E m \in Members : SkipMember(m) \/ AnswerMember(m)
    BY <2>2, SkipMemberInv, AnswerMemberInv
  <2>3. CASE \E b \in Blocks : StartGoroutine(b)
    BY <2>3, StartGoroutineInv
  <2>4. CASE SkipInactive \/ ListTopics \/ InactiveDone
    BY <2>4, SkipInactiveInv, ListTopicsInv, InactiveDoneInv
  <2>5. CASE \E t \in Topics : AnswerTopic(t) \/ AnswerTopicEmpty(t) \/ AnswerTopicNil(t)
    BY <2>5, AnswerTopicInv, AnswerTopicEmptyInv
  <2>6. CASE (\E ch \in Chans : StartAggregator(ch)) \/ Publish
    BY <2>6, StartAggregatorInv, PublishInv
  <2> QED
    BY <1>1, <2>1, <2>2, <2>3, <2>4, <2>5, <2>6 DEF Collector
<1>2. ASSUME NEW b \in Blocks, Goroutine(b)
      PROVE  OffsetsInv'
  BY <1>2, MeasureInv, SkipInv, ExitInv, SendInv DEF Goroutine
<1>3. ASSUME NEW ch \in Chans, Close(ch) \/ Aggregate(ch)
      PROVE  OffsetsInv'
  BY <1>3, CloseInv, ReceiveClientInv, ReceiveGroupInv, AggregatorReturnsInv DEF Aggregate
<1>4. CASE UNCHANGED vars
  BY <1>4, OffsetsRestInv
<1> QED
  BY <1>1, <1>2, <1>3, <1>4 DEF Next, Rest

\* The parts of the invariant hold in every state of every collection.
THEOREM OffsetsInvariant == Spec => []OffsetsInv
<1>1. Init => OffsetsInv
  BY OffsetsInitInv
<1>2. OffsetsInv /\ [Next]_vars => OffsetsInv'
  BY OffsetsNextInv
<1> QED
  BY <1>1, <1>2, PTL DEF Spec

\* Every variable has its type: no wait group becomes negative, and only client
\* ids and scopes that exist are keys of the rollups.
THEOREM OffsetsTypes == Spec => []TypeOK
<1>1. OffsetsInv => TypeOK
  BY DEF OffsetsInv
<1> QED
  BY <1>1, OffsetsInvariant, PTL

\* No goroutine can send on a closed channel, and none is started any more.
THEOREM OffsetsNoSendAfterClose == Spec => []NoSendAfterClose
<1>1. OffsetsInv => NoSendAfterClose
  <2> SUFFICES ASSUME OffsetsInv, NEW ch \in closed
               PROVE  /\ StillToSend(ch) = {}
                      /\ \A b \in blocks : ch \notin WaitGroupsOf(b)
                      /\ pc \in {"aggregate", "wait", "published", "panicked"}
    BY DEF NoSendAfterClose
  <2>1. ch \in Chans /\ aggregator[ch] # "off" /\ wg[ch] = 0
    BY DEF OffsetsInv, TypeOK, WaitGroupsInv
  <2>2. InFlight(ch) = {}
    BY <2>1, InFlightFinite, FS_EmptySet DEF OffsetsInv, WaitGroupsInv
  <2>3. StillToSend(ch) = {}
    BY <2>2 DEF StillToSend, InFlight
  <2>4. pc \in AfterPasses
    BY <2>1 DEF OffsetsInv, PhasesInv
  <2>5. blocks = {}
    BY <2>4 DEF OffsetsInv, PhasesInv, AfterPasses
  <2> QED
    BY <2>3, <2>4, <2>5 DEF AfterPasses
<1> QED
  BY <1>1, OffsetsInvariant, PTL

\* A partition is counted at most once in the group's lag: a block of a member is
\* in an answer for its assignment, assignments are disjoint, and the inactive
\* pass leaves out every topic of an answered assignment.
THEOREM OffsetsCountedOnce == Spec => []NoPartitionCountedTwice
<1>1. OffsetsInv => NoPartitionCountedTwice
  <2> SUFFICES ASSUME OffsetsInv,
                      NEW b1 \in chan["group"] \cup counted["group"],
                      NEW b2 \in chan["group"] \cup counted["group"],
                      TP(b1) = TP(b2)
               PROVE  b1 = b2
    BY DEF NoPartitionCountedTwice
  <2>1. b1 \in Blocks /\ b2 \in Blocks
    BY DEF OffsetsInv, TypeOK, Chans
  <2>2. Touched(b1) /\ Touched(b2)
    BY <2>1 DEF OffsetsInv, LagsInv, Past, Touched, Chans
  <2>3. ASSUME NEW b \in Blocks, Touched(b), Owner(b) \in Members
        PROVE  /\ Owner(b) \in answered
               /\ TP(b) \in assignment[Owner(b)]
               /\ TopicOf(b) \in topicExclusions
    <3>1. Owner(b) \in answered /\ TP(b) \in assignment[Owner(b)]
      BY <2>3 DEF OffsetsInv, PassesInv
    <3>2. TP(b) \in TopicPartitions /\ TopicOf(b) \in Topics
      BY BlockShape
    <3>3. \E p \in Partitions : TP(b) = <<TopicOf(b), p>>
      BY <3>2 DEF TopicPartitions, TopicOf, TP
    <3>4. ConsumedByAnswered(TopicOf(b))
      BY <3>1, <3>3 DEF ConsumedByAnswered
    <3> QED
      BY <3>1, <3>2, <3>4 DEF OffsetsInv, PassesInv
  <2>4. ASSUME NEW b \in Blocks, Touched(b), Owner(b) \notin Members
        PROVE  Owner(b) = NoMember /\ TopicOf(b) \notin topicExclusions
    BY <2>4, BlockShape DEF OffsetsInv, PassesInv, Owners
  <2>5. TopicOf(b1) = TopicOf(b2)
    BY DEF TopicOf, TP
  <2>6. Owner(b1) = Owner(b2)
    <3>1. CASE Owner(b1) \in Members /\ Owner(b2) \in Members
      <4>1. Disjoint(assignment)
        BY AssignmentAssumption DEF OffsetsInv, TypeOK
      <4> QED
        BY <2>1, <2>2, <2>3, <3>1, <4>1 DEF Disjoint
    <3>2. CASE Owner(b1) \notin Members /\ Owner(b2) \notin Members
      BY <2>1, <2>2, <2>4, <3>2
    <3> QED
      BY <2>1, <2>2, <2>3, <2>4, <2>5, <3>1, <3>2
  <2> QED
    BY <2>1, <2>6, BlockShape
<1> QED
  BY <1>1, OffsetsInvariant, PTL

\* A partition is missing from the published group lag for a known reason only.
THEOREM OffsetsNoPartitionLost == Spec => []NoPartitionLost
<1>1. OffsetsInv => NoPartitionLost
  <2> SUFFICES ASSUME OffsetsInv, pc = "published",
                      NEW t \in Topics \ InternalTopics, NEW p \in Partitions
               PROVE  Started(<<t, p>>) \/ t \in unvisited \/ ConsumedByAnswered(t)
    BY DEF NoPartitionLost
  <2>1. todoTopics = {} /\ blocks = {}
    BY DEF OffsetsInv, PhasesInv
  <2>2. CASE t \in topicExclusions
    BY <2>2 DEF OffsetsInv, PassesInv
  <2>3. CASE t \notin topicExclusions
    <3>1. t \in unvisited \/ Touched(<<NoMember, <<t, p>>>>)
      BY <2>1, <2>3 DEF OffsetsInv, VisitsInv, AfterPasses
    <3> QED
      BY <2>1, <3>1 DEF Touched, Started, Owners
  <2> QED
    BY <2>2, <2>3
<1> QED
  BY <1>1, OffsetsInvariant, PTL

-----------------------------------------------------------------------------
(* The collection implements the abstract rollup.                           *)

\* Measuring a lag is the abstract step: nothing is published while a goroutine
\* has still to measure.
LEMMA MeasureRefines ==
  ASSUME OffsetsInv, NEW b \in Blocks, Measure(b)
  PROVE  Rollup!Measure(b)
<1> USE DEF OffsetsInv, Measure
<1>1. pc # "published"
  <2>1. "group" \in WaitGroupsOf(b)
    BY DEF WaitGroupsOf, Chans
  <2>2. b \in InFlight("group")
    BY <2>1 DEF InFlight
  <2>3. wg["group"] # 0
    BY <2>2, InFlightFinite, FS_EmptySet DEF WaitGroupsInv, Chans
  <2> QED
    BY <2>3 DEF WaitGroupsInv, PhasesInv, LagResultsDone, Chans
<1> QED
  BY <1>1 DEF Rollup!Measure, collectorVars, channelVars

\* A received lag is due in the rollup of its channel and was not counted yet.
LEMMA ReceiveRefines ==
  ASSUME OffsetsInv, NEW b \in Blocks, ReceiveClient(b) \/ ReceiveGroup(b)
  PROVE  \E r \in Rollup!Rollups : Rollup!Count(r, b)
<1> USE DEF OffsetsInv, ReceiveClient, ReceiveGroup, collectorVars, goroutineVars
<1>1. ASSUME NEW ch \in Chans, b \in chan[ch],
             counted' = [counted EXCEPT ![ch] = @ \cup {b}]
      PROVE  Rollup!Count(ch, b)
  <2>1. b \in partitionLag /\ ch \in WaitGroupsOf(b) /\ b \notin counted[ch]
    BY <1>1 DEF LagsInv
  <2>2. ch = "client" => b \in MemberBlocks
    BY <2>1, BlockShape DEF WaitGroupsOf, MemberBlocks, Owners
  <2>3. b \in Rollup!DueIn(ch)
    BY <2>1, <2>2 DEF Rollup!DueIn
  <2> QED
    BY <1>1, <2>1, <2>3 DEF Rollup!Count
<1> QED
  BY <1>1 DEF Chans, Rollup!Rollups

\* When both aggregators have returned, every goroutine has ended and both
\* channels are drained: what was measured is what was counted.
LEMMA CountedIsDue ==
  ASSUME OffsetsInv, LagResultsDone
  PROVE  /\ counted["client"] = partitionLag \cap MemberBlocks
         /\ counted["group"] = partitionLag
<1> USE DEF OffsetsInv
<1>1. ASSUME NEW ch \in Chans
      PROVE  counted[ch] = {b \in partitionLag : ch \in WaitGroupsOf(b)}
  <2>1. chan[ch] = {} /\ InFlight(ch) = {}
    BY InFlightFinite, FS_EmptySet DEF WaitGroupsInv, LagResultsDone
  <2>2. \A b \in Blocks : ch \in WaitGroupsOf(b) => worker[b] \in {"none", "done"}
    BY <2>1 DEF InFlight
  <2>3. \A b \in partitionLag : ch \in WaitGroupsOf(b) => worker[b] \in Past(ch)
    BY <2>2 DEF LagsInv, Past, TypeOK
  <2>4. \A b \in Blocks : b \in counted[ch] <=> b \in partitionLag /\ ch \in WaitGroupsOf(b)
    BY <2>1, <2>3 DEF LagsInv
  <2> QED
    BY <2>4 DEF TypeOK
<1>2. counted["group"] = partitionLag
  BY <1>1 DEF WaitGroupsOf, Chans
<1>3. counted["client"] = partitionLag \cap MemberBlocks
  <2>1. \A b \in partitionLag : "client" \in WaitGroupsOf(b) <=> b \in MemberBlocks
    BY BlockShape, NoMemberAssumption
       DEF TypeOK, WaitGroupsOf, MemberBlocks, Owners, Chans, Owner
  <2> QED
    BY <1>1, <2>1 DEF Chans
<1> QED
  BY <1>2, <1>3

\* The rollups are published when nothing that was measured is left uncounted.
LEMMA PublishRefines ==
  ASSUME OffsetsInv, Publish
  PROVE  Rollup!Publish
BY CountedIsDue DEF Publish, goroutineVars, channelVars, Rollup!Publish, Rollup!Rollups, Rollup!DueIn

\* Every step of the collection is a step of the rollup or leaves it alone.
LEMMA RollupStep == OffsetsInv /\ [Next]_vars => [Rollup!Next]_Rollup!vars
<1> SUFFICES ASSUME OffsetsInv, [Next]_vars PROVE [Rollup!Next]_Rollup!vars
  OBVIOUS
<1> USE DEF Rollup!vars, goroutineVars, channelVars
<1>1. ASSUME NEW b \in Blocks, Measure(b)
      PROVE  Rollup!Next
  BY <1>1, MeasureRefines DEF Rollup!Next
<1>2. ASSUME NEW b \in Blocks, ReceiveClient(b) \/ ReceiveGroup(b)
      PROVE  Rollup!Next
  BY <1>2, ReceiveRefines DEF Rollup!Next
<1>3. CASE Publish
  BY <1>3, PublishRefines DEF Rollup!Next
<1>4. ASSUME Collector, ~Publish
      PROVE  UNCHANGED Rollup!vars
  <2>1. CASE Collect
    BY <2>1 DEF Collect, CreateAdmin, ListGroups, DescribeGroup, RequestFails, CollectVars, Requests
  <2>2. CASE \E m \in Members : SkipMember(m) \/ AnswerMember(m)
    BY <2>2 DEF SkipMember, AnswerMember
  <2>3. CASE \E b \in Blocks : StartGoroutine(b)
    BY <2>3 DEF StartGoroutine
  <2>4. CASE SkipInactive \/ ListTopics \/ InactiveDone
    BY <2>4 DEF SkipInactive, ListTopics, InactiveDone, MembersDone
  <2>5. CASE \E t \in Topics : AnswerTopic(t) \/ AnswerTopicEmpty(t) \/ AnswerTopicNil(t)
    BY <2>5 DEF AnswerTopic, AnswerTopicEmpty, AnswerTopicNil
  <2>6. CASE \E ch \in Chans : StartAggregator(ch)
    BY <2>6 DEF StartAggregator
  <2> QED
    BY <1>4, <2>1, <2>2, <2>3, <2>4, <2>5, <2>6 DEF Collector
<1>5. ASSUME NEW b \in Blocks, Skip(b) \/ Exit(b) \/ \E ch \in Chans : Send(b, ch)
      PROVE  UNCHANGED Rollup!vars
  BY <1>5 DEF Skip, Exit, Send, collectorVars
<1>6. ASSUME NEW ch \in Chans, Close(ch) \/ AggregatorReturns(ch)
      PROVE  UNCHANGED Rollup!vars
  BY <1>6 DEF Close, AggregatorReturns, collectorVars
<1>7. CASE UNCHANGED vars
  BY <1>7 DEF vars, collectorVars
<1>8. CASE Collector
  BY <1>3, <1>4, <1>8
<1>9. ASSUME NEW b \in Blocks, Goroutine(b)
      PROVE  [Rollup!Next]_Rollup!vars
  BY <1>1, <1>5, <1>9 DEF Goroutine
<1>10. ASSUME NEW ch \in Chans, Close(ch) \/ Aggregate(ch)
       PROVE  [Rollup!Next]_Rollup!vars
  BY <1>2, <1>6, <1>10 DEF Aggregate
<1> QED
  BY <1>7, <1>8, <1>9, <1>10 DEF Next, Rest

\* The collection of a group's offsets implements the abstract rollup: every
\* measured lag is counted once in each rollup it is due in, and the rollups are
\* published only when nothing measured is left uncounted.
THEOREM OffsetsImplementRollup == Spec => ImplementsRollup
<1>1. Init => Rollup!Init
  BY DEF Init, Rollup!Init, Rollup!Rollups, Chans
<1>2. OffsetsInv /\ [Next]_vars => [Rollup!Next]_Rollup!vars
  BY RollupStep
<1> QED
  BY <1>1, <1>2, OffsetsInvariant, PTL DEF Spec, ImplementsRollup, Rollup!Spec

-----------------------------------------------------------------------------
(* The rollups that are published are those of everything measured.         *)

\* The total of no lag is 0, and a lag that joins a set raises the set's total by
\* its amount, in whatever order the lags arrive.
LEMMA TotalGrows ==
  /\ SumLag({}) = 0
  /\ \A bs \in SUBSET Blocks :
        /\ SumLag(bs) \in Int
        /\ \A b \in Blocks \ bs : SumLag(bs \cup {b}) = SumLag(bs) + LagOf[TP(b)]
<1>1. \A b \in Blocks : LagOfBlock[b] = LagOf[TP(b)] /\ LagOf[TP(b)] \in Int
  BY LagAssumption, BlockShape DEF LagOfBlock
<1>2. SumLag({}) = 0
  BY SumIsFold, SumEmpty DEF SumLag
<1>3. ASSUME NEW bs \in SUBSET Blocks
      PROVE  /\ SumLag(bs) \in Int
             /\ \A b \in bs : SumLag(bs) = LagOf[TP(b)] + SumLag(bs \ {b})
  <2>1. IsFiniteSet(bs)
    BY BlocksFinite, FS_Subset
  <2>2. \A b \in bs : LagOfBlock[b] \in Int
    BY <1>1
  <2>3. /\ SumOver(LagOfBlock, bs) \in Int
        /\ \A b \in bs : SumOver(LagOfBlock, bs) = LagOfBlock[b] + SumOver(LagOfBlock, bs \ {b})
    BY <2>1, <2>2, SumRemove
  <2> QED
    BY <1>1, <2>3, SumIsFold DEF SumLag
<1>4. ASSUME NEW bs \in SUBSET Blocks, NEW b \in Blocks \ bs
      PROVE  SumLag(bs \cup {b}) = SumLag(bs) + LagOf[TP(b)]
  <2>1. bs \cup {b} \in SUBSET Blocks /\ (bs \cup {b}) \ {b} = bs
    OBVIOUS
  <2>2. SumLag(bs \cup {b}) = LagOf[TP(b)] + SumLag(bs)
    BY <1>3, <2>1
  <2> QED
    BY <1>1, <1>3, <2>2
<1> QED
  BY <1>2, <1>3, <1>4

\* The maximum of no lag is 0, and a lag that joins a set is the set's maximum if
\* it is greater than the maximum before.
LEMMA MaxGrows ==
  /\ MaxLag({}) = 0
  /\ \A bs \in SUBSET Blocks : \A b \in Blocks :
        MaxLag(bs \cup {b}) = IF LagOf[TP(b)] > MaxLag(bs) THEN LagOf[TP(b)] ELSE MaxLag(bs)
<1> DEFINE Lags(bs) == {0} \cup {LagOf[TP(b)] : b \in bs}
<1>1. \A b \in Blocks : LagOf[TP(b)] \in Int
  BY LagAssumption, BlockShape
<1>2. ASSUME NEW bs \in SUBSET Blocks
      PROVE  MaxLag(bs) \in Lags(bs) /\ \A y \in Lags(bs) : MaxLag(bs) \geq y
  <2>1. Lags(bs) \in SUBSET Int
    BY <1>1
  <2>2. IsFiniteSet(Lags(bs))
    <3>1. IsFiniteSet(bs)
      BY BlocksFinite, FS_Subset
    <3>2. [b \in bs |-> LagOf[TP(b)]] \in Surjection(bs, {LagOf[TP(b)] : b \in bs})
      BY DEF Surjection
    <3>3. IsFiniteSet({LagOf[TP(b)] : b \in bs})
      BY <3>1, <3>2, FS_Surjection
    <3>4. IsFiniteSet({0})
      BY FS_Singleton
    <3> QED
      BY <3>3, <3>4, FS_Union
  <2>3. Lags(bs) # {}
    OBVIOUS
  <2> HIDE DEF Lags
  <2>4. \E m \in Lags(bs) : \A y \in Lags(bs) : m \geq y
    BY <2>1, <2>2, <2>3, GreatestExists
  <2>5. MaxLag(bs) = Max(Lags(bs))
    BY DEF MaxLag, Lags
  <2> QED
    BY <2>4, <2>5 DEF Max
<1>3. ASSUME NEW bs \in SUBSET Blocks
      PROVE  MaxLag(bs) \in Int
  BY <1>1, <1>2
<1>4. MaxLag({}) = 0
  <2>1. Lags({}) = {0}
    OBVIOUS
  <2> QED
    BY <1>2, <2>1
<1>5. ASSUME NEW bs \in SUBSET Blocks, NEW b \in Blocks
      PROVE  MaxLag(bs \cup {b})
                 = IF LagOf[TP(b)] > MaxLag(bs) THEN LagOf[TP(b)] ELSE MaxLag(bs)
  <2>1. Lags(bs \cup {b}) = Lags(bs) \cup {LagOf[TP(b)]}
    OBVIOUS
  <2>2. bs \cup {b} \in SUBSET Blocks
    OBVIOUS
  <2>3. /\ MaxLag(bs \cup {b}) \in Lags(bs) \cup {LagOf[TP(b)]}
        /\ \A y \in Lags(bs) \cup {LagOf[TP(b)]} : MaxLag(bs \cup {b}) \geq y
    BY <1>2, <2>1, <2>2
  <2>4. MaxLag(bs) \in Int /\ MaxLag(bs \cup {b}) \in Int /\ LagOf[TP(b)] \in Int
    BY <1>1, <1>3, <2>2
  <2>5. MaxLag(bs) \in Lags(bs) /\ \A y \in Lags(bs) : MaxLag(bs) \geq y
    BY <1>2
  <2> HIDE DEF Lags
  <2> QED
    BY <2>3, <2>4, <2>5
<1> QED
  BY <1>4, <1>5

\* The client rollup of a set of lags and one more is what the aggregator makes
\* of the rollup when it receives that one.
LEMMA ClientGrows ==
  ASSUME NEW bs \in SUBSET Blocks, NEW b \in Blocks \ bs
  PROVE  ClientTotals(bs \cup {b}) = AddToClient(ClientTotals(bs), b)
<1> DEFINE Of(S, c) == {d \in S : ClientOf[Owner(d)] = c}
           Ids(S) == {ClientOf[Owner(d)] : d \in S}
           k == ClientOf[Owner(b)]
<1>1. Ids(bs \cup {b}) = Ids(bs) \cup {k}
  OBVIOUS
<1>2. \A S : ClientTotals(S) = [c \in Ids(S) |-> SumLag(Of(S, c))]
  BY DEF ClientTotals
<1>3. \A S : DOMAIN ClientTotals(S) = Ids(S)
  BY <1>2
<1>4. Of(bs \cup {b}, k) = Of(bs, k) \cup {b} /\ Of(bs, k) \in SUBSET Blocks /\ b \notin Of(bs, k)
  OBVIOUS
<1>5. \A c : c # k => Of(bs \cup {b}, c) = Of(bs, c)
  OBVIOUS
<1>6. k \notin Ids(bs) => Of(bs, k) = {}
  OBVIOUS
<1> HIDE DEF Of, Ids, k
<1>7. SumLag(Of(bs \cup {b}, k)) = ValueOr(ClientTotals(bs), k, 0) + LagOf[TP(b)]
  <2>1. SumLag(Of(bs \cup {b}, k)) = SumLag(Of(bs, k)) + LagOf[TP(b)]
    BY <1>4, TotalGrows
  <2>2. ValueOr(ClientTotals(bs), k, 0) = SumLag(Of(bs, k))
    BY <1>2, <1>3, <1>6, TotalGrows DEF ValueOr
  <2> QED
    BY <2>1, <2>2
<1>8. AddToClient(ClientTotals(bs), b)
        = [c \in Ids(bs) \cup {k} |-> IF c = k THEN ValueOr(ClientTotals(bs), k, 0) + LagOf[TP(b)]
                                              ELSE ClientTotals(bs)[c]]
  BY <1>3 DEF AddToClient, k
<1>9. \A c \in Ids(bs) \cup {k} : c # k => SumLag(Of(bs \cup {b}, c)) = ClientTotals(bs)[c]
  BY <1>2, <1>5
<1>10. ClientTotals(bs \cup {b}) = [c \in Ids(bs) \cup {k} |-> SumLag(Of(bs \cup {b}, c))]
  BY <1>1, <1>2
<1> QED
  BY <1>7, <1>8, <1>9, <1>10

\* The same of the group's rollup, whose entries also have the maximum and the
\* active clients.
LEMMA GroupGrows ==
  ASSUME NEW bs \in SUBSET Blocks, NEW b \in Blocks \ bs
  PROVE  GroupTotals(bs \cup {b}) = AddToGroup(GroupTotals(bs), b)
<1> DEFINE Keys(S) == UNION {ScopesOf(d) : d \in S}
           Active(S) == UNION {ClientsOf(d) : d \in S}
           Entry(S) == [total |-> SumLag(S), max |-> MaxLag(S), active |-> Active(S)]
<1>1. Keys(bs \cup {b}) = Keys(bs) \cup ScopesOf(b)
  OBVIOUS
<1>2. \A S : GroupTotals(S) = [s \in Keys(S) |-> Entry(InScope(S, s))]
  BY DEF GroupTotals
<1>3. \A S : DOMAIN GroupTotals(S) = Keys(S)
  BY <1>2
<1>4. \A s \in ScopesOf(b) : /\ InScope(bs \cup {b}, s) = InScope(bs, s) \cup {b}
                             /\ InScope(bs, s) \in SUBSET Blocks
                             /\ b \notin InScope(bs, s)
  BY DEF InScope
<1>5. \A s : s \notin ScopesOf(b) => InScope(bs \cup {b}, s) = InScope(bs, s)
  BY DEF InScope
<1>6. \A s : s \notin Keys(bs) => InScope(bs, s) = {}
  BY DEF InScope
<1>7. ASSUME NEW S \in SUBSET Blocks, b \notin S
      PROVE  Entry(S \cup {b}) = AddToScope(Entry(S), b)
  <2>1. SumLag(S \cup {b}) = SumLag(S) + LagOf[TP(b)]
    BY <1>7, TotalGrows
  <2>2. MaxLag(S \cup {b}) = IF LagOf[TP(b)] > MaxLag(S) THEN LagOf[TP(b)] ELSE MaxLag(S)
    BY <1>7, MaxGrows
  <2>3. Active(S \cup {b}) = Active(S) \cup ClientsOf(b)
    OBVIOUS
  <2> HIDE DEF Active
  <2> QED
    BY <2>1, <2>2, <2>3 DEF AddToScope
<1>8. Entry({}) = EmptyRollup
  <2>1. Active({}) = {}
    OBVIOUS
  <2> QED
    BY <2>1, TotalGrows, MaxGrows DEF EmptyRollup
<1> HIDE DEF Keys, Active, Entry
<1>9. ASSUME NEW s \in ScopesOf(b)
      PROVE  Entry(InScope(bs \cup {b}, s))
                 = AddToScope(ValueOr(GroupTotals(bs), s, EmptyRollup), b)
  <2>1. ValueOr(GroupTotals(bs), s, EmptyRollup) = Entry(InScope(bs, s))
    BY <1>2, <1>3, <1>6, <1>8 DEF ValueOr
  <2>2. Entry(InScope(bs, s) \cup {b}) = AddToScope(Entry(InScope(bs, s)), b)
    BY <1>4, <1>7
  <2> QED
    BY <1>4, <2>1, <2>2
<1>10. ASSUME NEW s \in Keys(bs), s \notin ScopesOf(b)
       PROVE  Entry(InScope(bs \cup {b}, s)) = GroupTotals(bs)[s]
  BY <1>2, <1>5, <1>10
<1>11. GroupTotals(bs \cup {b})
         = [s \in Keys(bs) \cup ScopesOf(b) |-> Entry(InScope(bs \cup {b}, s))]
  BY <1>1, <1>2
<1>12. AddToGroup(GroupTotals(bs), b)
         = [s \in Keys(bs) \cup ScopesOf(b) |->
               IF s \in ScopesOf(b) THEN AddToScope(ValueOr(GroupTotals(bs), s, EmptyRollup), b)
                                    ELSE GroupTotals(bs)[s]]
  BY <1>3 DEF AddToGroup
<1> QED
  BY <1>9, <1>10, <1>11, <1>12

\* Every step keeps the rollups those of the lags received.
LEMMA RollupsNext == OffsetsInv /\ RollupsInv /\ [Next]_vars => RollupsInv'
<1> SUFFICES ASSUME OffsetsInv, RollupsInv, [Next]_vars PROVE RollupsInv'
  OBVIOUS
<1>1. ASSUME NEW b \in Blocks, ReceiveClient(b)
      PROVE  RollupsInv'
  <2>1. /\ counted["client"] \in SUBSET Blocks
        /\ counted'["client"] = counted["client"] \cup {b}
        /\ counted'["group"] = counted["group"]
        /\ b \notin counted["client"]
    BY <1>1 DEF ReceiveClient, OffsetsInv, TypeOK, LagsInv, Chans
  <2>2. clientRollup' = AddToClient(ClientTotals(counted["client"]), b)
    BY <1>1 DEF ReceiveClient, RollupsInv
  <2>3. clientRollup' = ClientTotals(counted'["client"])
    BY <2>1, <2>2, ClientGrows
  <2>4. groupRollup' = GroupTotals(counted'["group"])
    BY <1>1, <2>1 DEF ReceiveClient, RollupsInv
  <2> QED
    BY <2>3, <2>4 DEF RollupsInv
<1>2. ASSUME NEW b \in Blocks, ReceiveGroup(b)
      PROVE  RollupsInv'
  <2>1. /\ counted["group"] \in SUBSET Blocks
        /\ counted'["group"] = counted["group"] \cup {b}
        /\ counted'["client"] = counted["client"]
        /\ b \notin counted["group"]
    BY <1>2 DEF ReceiveGroup, OffsetsInv, TypeOK, LagsInv, Chans
  <2>2. groupRollup' = AddToGroup(GroupTotals(counted["group"]), b)
    BY <1>2 DEF ReceiveGroup, RollupsInv
  <2>3. groupRollup' = GroupTotals(counted'["group"])
    BY <2>1, <2>2, GroupGrows
  <2>4. clientRollup' = ClientTotals(counted'["client"])
    BY <1>2, <2>1 DEF ReceiveGroup, RollupsInv
  <2> QED
    BY <2>3, <2>4 DEF RollupsInv
<1>3. ASSUME UNCHANGED <<counted, clientRollup, groupRollup>>
      PROVE  RollupsInv'
  BY <1>3 DEF RollupsInv
<1>4. CASE Collector
  <2> USE DEF channelVars
  <2>1. CASE Collect
    BY <1>3, <2>1 DEF Collect, CreateAdmin, ListGroups, DescribeGroup, RequestFails, CollectVars
  <2>2. CASE \E m \in Members : SkipMember(m) \/ AnswerMember(m)
    BY <1>3, <2>2 DEF SkipMember, AnswerMember
  <2>3. CASE \E b \in Blocks : StartGoroutine(b)
    BY <1>3, <2>3 DEF StartGoroutine
  <2>4. CASE SkipInactive \/ ListTopics \/ InactiveDone
    BY <1>3, <2>4 DEF SkipInactive, ListTopics, InactiveDone
  <2>5. CASE \E t \in Topics : AnswerTopic(t) \/ AnswerTopicEmpty(t) \/ AnswerTopicNil(t)
    BY <1>3, <2>5 DEF AnswerTopic, AnswerTopicEmpty, AnswerTopicNil
  <2>6. CASE (\E ch \in Chans : StartAggregator(ch)) \/ Publish
    BY <1>3, <2>6 DEF StartAggregator, Publish
  <2> QED
    BY <1>4, <2>1, <2>2, <2>3, <2>4, <2>5, <2>6 DEF Collector
<1>5. ASSUME NEW b \in Blocks, Goroutine(b)
      PROVE  RollupsInv'
  BY <1>3, <1>5 DEF Goroutine, Measure, Skip, Exit, Send, channelVars
<1>6. ASSUME NEW ch \in Chans, Close(ch) \/ Aggregate(ch)
      PROVE  RollupsInv'
  <2>1. CASE Close(ch) \/ AggregatorReturns(ch)
    BY <1>3, <2>1 DEF Close, AggregatorReturns
  <2> QED
    BY <1>1, <1>2, <1>6, <2>1 DEF Aggregate
<1>7. CASE UNCHANGED vars
  BY <1>3, <1>7 DEF vars, channelVars
<1> QED
  BY <1>4, <1>5, <1>6, <1>7 DEF Next, Rest

\* What is published is complete: the total, the maximum and the active clients of
\* every client, of the group and of every topic are those of exactly the lags
\* that were measured, whatever the order in which they were received.
THEOREM OffsetsPublishedComplete == Spec => []PublishedRollupsComplete
<1>1. Init => RollupsInv
  <2> SUFFICES ASSUME Init PROVE RollupsInv
    OBVIOUS
  <2>1. counted["client"] = {} /\ counted["group"] = {}
    BY DEF Init, Chans
  <2>2. ClientTotals({}) = [c \in {} |-> 0]
    BY DEF ClientTotals
  <2>3. GroupTotals({}) = [s \in {} |-> EmptyRollup]
    BY DEF GroupTotals
  <2> QED
    BY <2>1, <2>2, <2>3 DEF Init, RollupsInv
<1>2. OffsetsInv /\ RollupsInv /\ [Next]_vars => RollupsInv'
  BY RollupsNext
<1>3. OffsetsInv /\ RollupsInv => PublishedRollupsComplete
  <2> SUFFICES ASSUME OffsetsInv, RollupsInv, pc = "published"
               PROVE  /\ clientRollup = ClientTotals(DueIn("client"))
                      /\ groupRollup = GroupTotals(DueIn("group"))
    BY DEF PublishedRollupsComplete
  <2>1. LagResultsDone
    BY DEF OffsetsInv, PhasesInv
  <2>2. counted["client"] = DueIn("client") /\ counted["group"] = DueIn("group")
    BY <2>1, CountedIsDue DEF DueIn
  <2> QED
    BY <2>2 DEF RollupsInv
<1> QED
  BY <1>1, <1>2, <1>3, OffsetsInvariant, PTL DEF Spec
==============================================================================
