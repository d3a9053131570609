--------------------------- MODULE ConsumerOffsets ---------------------------
(***************************************************************************)
(* Collect and collectOffsetsForConsumerGroup: the lag of one consumer      *)
(* group.                                                                   *)
(*                                                                          *)
(* Collect lists and describes the groups of the cluster and starts one     *)
(* goroutine for each group whose name matches; the module follows one of   *)
(* them.  It asks for the committed offsets of each member's assignment and *)
(* starts one goroutine per partition of every answer; with                 *)
(* InactiveConsumerGroupOffset it then does the same for the topics no      *)
(* answer named.  A partition goroutine measures one lag and sends it on    *)
(* the client channel and on the group channel (inactive partitions: group  *)
(* channel only).  Per channel an aggregator receives until a closer, which *)
(* waits for the channel's wait group, closes it.  When both aggregators    *)
(* have returned, the rollups are published.                                *)
(*                                                                          *)
(* Left out: metric formatting and entity attributes.  The lookup of the    *)
(* high water mark, which several groups share, is module OffsetCache; here *)
(* it either yields the lag of the partition or fails.                      *)
(***************************************************************************)
EXTENDS Integers, FiniteSets, FiniteSetsExt, Functions

CONSTANTS
    Members,         \* the members DescribeConsumerGroups returned
    Topics,          \* the topics of the cluster
    InternalTopics,  \* __consumer_offsets and _schema
    Partitions,      \* partition numbers; every topic has all of them
    Clients,         \* client ids
    ClientOf,        \* client id of each member
    Assignments,     \* the assignments to explore, Members -> set of partitions
    LagOf,           \* lag of each topic partition, when it can be measured
    InactiveConsumerGroupOffset,   \* flag of the same name
    ConsumerGroupOffsetByTopic,    \* flag of the same name
    Buffer,          \* partitionLagChannelsBuffer
    NoMember         \* owner of a partition no member consumes (ClientID "")

TopicPartitions == Topics \X Partitions
Owners == Members \cup {NoMember}

\* One block of an offset response: whose assignment it answers, and for what.
Blocks == Owners \X TopicPartitions
Owner(b) == b[1]
TP(b) == b[2]
TopicOf(b) == b[2][1]
MemberBlocks == Members \X TopicPartitions

\* Kafka assigns a partition of a group to at most one of its members.
Disjoint(asg) == \A m, n \in Members : m # n => asg[m] \cap asg[n] = {}

ASSUME FiniteAssumption ==
    IsFiniteSet(Members) /\ IsFiniteSet(Topics) /\ IsFiniteSet(Partitions)
ASSUME NoMemberAssumption == NoMember \notin Members
ASSUME InternalAssumption == InternalTopics \subseteq Topics
ASSUME ClientAssumption == ClientOf \in [Members -> Clients]
ASSUME AssignmentAssumption ==
    /\ Assignments \subseteq [Members -> SUBSET TopicPartitions]
    /\ \A asg \in Assignments : Disjoint(asg)
ASSUME LagAssumption == LagOf \in [TopicPartitions -> Int]
ASSUME FlagAssumption ==
    InactiveConsumerGroupOffset \in BOOLEAN /\ ConsumerGroupOffsetByTopic \in BOOLEAN
ASSUME BufferAssumption == Buffer \in Nat \ {0}

Chans == {"client", "group"}

VARIABLES
    assignment,      \* what each member reports as its assignment
    regex,           \* consumer_group_regex: not given, or does it match the group
    pc,              \* where the collecting goroutine is
    todoMembers,     \* members still to be asked for
    answered,        \* members whose committed offsets arrived
    topicExclusions, \* topics the inactive pass skips
    todoTopics,      \* topics still to be visited by the inactive pass
    unvisited,       \* topics the inactive pass could not ask about (history)
    blocks,          \* blocks of the current response still to be started
    worker,          \* state of the goroutine of each block
    partitionLag,    \* blocks whose goroutine has measured a lag
    wg,              \* clientPartitionWg, consumerGroupPartitionWg
    chan,            \* lags in each channel
    closed,          \* channels that are closed
    aggregator,      \* state of each aggregator: "off", "running", "done"
    counted,         \* lags each aggregator has received
    clientRollup,    \* ClientAggregations: client id -> total lag
    groupRollup      \* CGroupAggregations, per scope: the group or one topic

given == <<assignment, regex>>
collectorVars == <<given, pc, todoMembers, answered, topicExclusions, todoTopics, unvisited,
                   blocks>>
goroutineVars == <<worker, partitionLag, wg>>
channelVars   == <<chan, closed, aggregator, counted, clientRollup, groupRollup>>
vars == <<collectorVars, goroutineVars, channelVars>>

-----------------------------------------------------------------------------
(* Rollups.                                                                 *)

GroupScope == "group"
Scopes == {GroupScope} \cup Topics

\* The scopes a lag is added to: the group, and its topic when asked for.
ScopesOf(b) ==
    {GroupScope} \cup (IF ConsumerGroupOffsetByTopic THEN {TopicOf(b)} ELSE {})

\* The active clients a block stands for: none when nobody consumes it.
ClientsOf(b) == IF Owner(b) = NoMember THEN {} ELSE {ClientOf[Owner(b)]}

EmptyRollup == [total |-> 0, max |-> 0, active |-> {}]

ValueOr(f, k, default) == IF k \in DOMAIN f THEN f[k] ELSE default

\* A map of the code has a key only once a result for it has arrived.
AddToClient(rollup, b) ==
    LET c == ClientOf[Owner(b)]
    IN  [k \in DOMAIN rollup \cup {c} |->
            IF k = c THEN ValueOr(rollup, c, 0) + LagOf[TP(b)] ELSE rollup[k]]

\* Mutant: the total is set to the last lag instead of growing by it.
AddToScope_LastLag(entry, b) ==
    [total  |-> LagOf[TP(b)],
     max    |-> IF LagOf[TP(b)] > entry.max THEN LagOf[TP(b)] ELSE entry.max,
     active |-> entry.active \cup ClientsOf(b)]

AddToScope(entry, b) ==
    [total  |-> entry.total + LagOf[TP(b)],
     max    |-> IF LagOf[TP(b)] > entry.max THEN LagOf[TP(b)] ELSE entry.max,
     active |-> entry.active \cup ClientsOf(b)]

AddToGroup(rollup, b) ==
    [s \in DOMAIN rollup \cup ScopesOf(b) |->
        IF s \in ScopesOf(b) THEN AddToScope(ValueOr(rollup, s, EmptyRollup), b)
                             ELSE rollup[s]]

-----------------------------------------------------------------------------
Init ==
    /\ assignment \in Assignments
    /\ regex \in {"none", "matches", "differs"}
    /\ pc = "admin"
    /\ todoMembers = {}
    /\ answered = {}
    /\ topicExclusions = InternalTopics
    /\ todoTopics = {}
    /\ unvisited = {}
    /\ blocks = {}
    /\ worker = [b \in Blocks |-> "none"]
    /\ partitionLag = {}
    /\ wg = [ch \in Chans |-> 0]
    /\ chan = [ch \in Chans |-> {}]
    /\ closed = {}
    /\ aggregator = [ch \in Chans |-> "off"]
    /\ counted = [ch \in Chans |-> {}]
    /\ clientRollup = [c \in {} |-> 0]
    /\ groupRollup = [s \in {} |-> EmptyRollup]

-----------------------------------------------------------------------------
(* Collect, up to the goroutine of the group.                               *)

Requests == {"admin", "list", "describe"}
CollectVars == <<given, answered, topicExclusions, todoTopics, unvisited, blocks,
                 goroutineVars, channelVars>>

\* The cluster admin client comes up.  The groups are listed only with a regex.
CreateAdmin ==
    /\ pc = "admin"
    /\ pc' = IF regex = "none" THEN "failed" ELSE "list"
    /\ UNCHANGED <<todoMembers, CollectVars>>

ListGroups ==
    /\ pc = "list"
    /\ pc' = "describe"
    /\ UNCHANGED <<todoMembers, CollectVars>>

\* The description of the group arrives.  The error it may carry of its own is
\* not read: the group then looks like one without members.
DescribeGroup ==
    /\ pc = "describe"
    /\ pc' = IF regex = "matches" THEN "members" ELSE "skipped"
    /\ todoMembers' \in IF regex = "matches" THEN {Members, {}} ELSE {{}}
    /\ UNCHANGED CollectVars

\* An error of any of the three requests is returned by Collect; main exits.
RequestFails ==
    /\ pc \in Requests
    /\ pc' = "failed"
    /\ UNCHANGED <<todoMembers, CollectVars>>

Collect == CreateAdmin \/ ListGroups \/ DescribeGroup \/ RequestFails

-----------------------------------------------------------------------------
(* The collecting goroutine.                                                *)

\* Mutant: the topics are excluded before the request is known to have worked.
SkipMember_Excludes(m) ==
    /\ pc = "members" /\ blocks = {}
    /\ m \in todoMembers
    /\ todoMembers' = todoMembers \ {m}
    /\ topicExclusions' = topicExclusions \cup {tp[1] : tp \in assignment[m]}
    /\ UNCHANGED <<given, pc, answered, todoTopics, unvisited, blocks,
                   goroutineVars, channelVars>>

\* The assignment does not decode, is empty, or its offsets cannot be fetched.
SkipMember(m) ==
    /\ pc = "members" /\ blocks = {}
    /\ m \in todoMembers
    /\ todoMembers' = todoMembers \ {m}
    /\ UNCHANGED <<given, pc, answered, topicExclusions, todoTopics, unvisited, blocks,
                   goroutineVars, channelVars>>

\* Mutant: the topics of the answer are not excluded.
AnswerMember_NoExclusion(m) ==
    /\ pc = "members" /\ blocks = {}
    /\ m \in todoMembers
    /\ assignment[m] # {}
    /\ todoMembers' = todoMembers \ {m}
    /\ answered' = answered \cup {m}
    /\ blocks' = {m} \X assignment[m]
    /\ UNCHANGED <<given, pc, topicExclusions, todoTopics, unvisited,
                   goroutineVars, channelVars>>

\* The answer has one block per assigned partition; its topics are excluded
\* from the inactive pass.
AnswerMember(m) ==
    /\ pc = "members" /\ blocks = {}
    /\ m \in todoMembers
    /\ assignment[m] # {}
    /\ todoMembers' = todoMembers \ {m}
    /\ answered' = answered \cup {m}
    /\ blocks' = {m} \X assignment[m]
    /\ topicExclusions' = topicExclusions \cup {tp[1] : tp \in assignment[m]}
    /\ UNCHANGED <<given, pc, todoTopics, unvisited, goroutineVars, channelVars>>

\* The channels whose wait group counts the goroutine of a block.
WaitGroupsOf(b) == IF Owner(b) = NoMember THEN {"group"} ELSE Chans

\* Add(1), then go func().
StartGoroutine(b) ==
    /\ pc \in {"members", "inactive"}
    /\ b \in blocks
    /\ blocks' = blocks \ {b}
    /\ wg' = [ch \in Chans |-> IF ch \in WaitGroupsOf(b) THEN wg[ch] + 1 ELSE wg[ch]]
    /\ worker' = [worker EXCEPT ![b] = "measuring"]
    /\ UNCHANGED <<given, pc, todoMembers, answered, topicExclusions, todoTopics, unvisited,
                   partitionLag, channelVars>>

MembersDone ==
    /\ pc = "members" /\ todoMembers = {} /\ blocks = {}

\* No inactive pass asked for, or ListTopics failed.
SkipInactive ==
    /\ MembersDone
    /\ pc' = "aggregate"
    /\ unvisited' = Topics
    /\ UNCHANGED <<given, todoMembers, answered, topicExclusions, todoTopics, blocks,
                   goroutineVars, channelVars>>

ListTopics ==
    /\ MembersDone
    /\ InactiveConsumerGroupOffset
    /\ pc' = "inactive"
    /\ todoTopics' = Topics \ topicExclusions
    /\ UNCHANGED <<given, todoMembers, answered, topicExclusions, unvisited, blocks,
                   goroutineVars, channelVars>>

\* The answer for a topic nobody consumes has a block for every partition.
AnswerTopic(t) ==
    /\ pc = "inactive" /\ blocks = {}
    /\ t \in todoTopics
    /\ todoTopics' = todoTopics \ {t}
    /\ blocks' = {NoMember} \X ({t} \X Partitions)
    /\ UNCHANGED <<given, pc, todoMembers, answered, topicExclusions, unvisited,
                   goroutineVars, channelVars>>

\* The error of the request is dropped.  With an answer that carries a group
\* error there are no blocks to range over.
AnswerTopicEmpty(t) ==
    /\ pc = "inactive" /\ blocks = {}
    /\ t \in todoTopics
    /\ todoTopics' = todoTopics \ {t}
    /\ unvisited' = unvisited \cup {t}
    /\ UNCHANGED <<given, pc, todoMembers, answered, topicExclusions, blocks,
                   goroutineVars, channelVars>>

\* Without any answer the response is nil, and reading its Blocks panics: the
\* whole process ends.
AnswerTopicNil(t) ==
    /\ pc = "inactive" /\ blocks = {}
    /\ t \in todoTopics
    /\ pc' = "panicked"
    /\ UNCHANGED <<given, todoMembers, answered, topicExclusions, todoTopics, unvisited, blocks,
                   goroutineVars, channelVars>>

InactiveDone ==
    /\ pc = "inactive" /\ todoTopics = {} /\ blocks = {}
    /\ pc' = "aggregate"
    /\ UNCHANGED <<given, todoMembers, answered, topicExclusions, todoTopics, unvisited, blocks,
                   goroutineVars, channelVars>>

\* lagResultsWg.Add(1); go aggregateLagData(...), for one channel after the other.
StartAggregator(ch) ==
    /\ pc = "aggregate"
    /\ aggregator[ch] = "off"
    /\ ch = "group" => aggregator["client"] # "off"
    /\ aggregator' = [aggregator EXCEPT ![ch] = "running"]
    /\ pc' = IF ch = "group" THEN "wait" ELSE pc
    /\ UNCHANGED <<given, todoMembers, answered, topicExclusions, todoTopics, unvisited, blocks,
                   goroutineVars, chan, closed, counted, clientRollup, groupRollup>>

\* Mutant: lagResultsWg counts one of the two aggregators.
LagResultsDone_Any == \E ch \in Chans : aggregator[ch] = "done"

\* lagResultsWg counts the aggregators that have not returned.
LagResultsDone == \A ch \in Chans : aggregator[ch] = "done"

\* lagResultsWg.Wait(), then both rollups become metrics of the integration.
Publish ==
    /\ pc = "wait"
    /\ LagResultsDone
    /\ pc' = "published"
    /\ UNCHANGED <<given, todoMembers, answered, topicExclusions, todoTopics, unvisited, blocks,
                   goroutineVars, channelVars>>

Collector ==
    \/ Collect
    \/ \E m \in Members : SkipMember(m) \/ AnswerMember(m)
    \/ \E b \in Blocks : StartGoroutine(b)
    \/ SkipInactive
    \/ ListTopics
    \/ \E t \in Topics : AnswerTopic(t) \/ AnswerTopicEmpty(t) \/ AnswerTopicNil(t)
    \/ InactiveDone
    \/ \E ch \in Chans : StartAggregator(ch)
    \/ Publish

-----------------------------------------------------------------------------
(* The goroutine of one block.                                              *)

Alive == pc # "panicked"

\* The high water mark was found and the committed offset is one.
Measure(b) ==
    /\ Alive
    /\ worker[b] = "measuring"
    /\ partitionLag' = partitionLag \cup {b}
    /\ worker' = [worker EXCEPT ![b] = IF Owner(b) = NoMember THEN "sendGroup" ELSE "sendClient"]
    /\ UNCHANGED <<wg, collectorVars, channelVars>>

\* Mutant: the early return does not run the deferred Done calls.
Skip_NoDone(b) ==
    /\ Alive
    /\ worker[b] = "measuring"
    /\ worker' = [worker EXCEPT ![b] = "done"]
    /\ UNCHANGED <<partitionLag, wg, collectorVars, channelVars>>

\* No high water mark, or no committed offset: nothing is sent.
Skip(b) ==
    /\ Alive
    /\ worker[b] = "measuring"
    /\ worker' = [worker EXCEPT ![b] = "exiting"]
    /\ UNCHANGED <<partitionLag, wg, collectorVars, channelVars>>

SendState(ch) == IF ch = "client" THEN "sendClient" ELSE "sendGroup"
AfterSend(ch) == IF ch = "client" THEN "sendGroup" ELSE "exiting"

\* A send blocks while the buffer is full.
Send(b, ch) ==
    /\ Alive
    /\ worker[b] = SendState(ch)
    /\ Cardinality(chan[ch]) < Buffer
    /\ chan' = [chan EXCEPT ![ch] = @ \cup {b}]
    /\ worker' = [worker EXCEPT ![b] = AfterSend(ch)]
    /\ UNCHANGED <<partitionLag, wg, collectorVars,
                   closed, aggregator, counted, clientRollup, groupRollup>>

\* Mutant: an inactive block is also taken off the client wait group.
Exit_BothGroups(b) ==
    /\ Alive
    /\ worker[b] = "exiting"
    /\ worker' = [worker EXCEPT ![b] = "done"]
    /\ wg' = [ch \in Chans |-> wg[ch] - 1]
    /\ UNCHANGED <<partitionLag, collectorVars, channelVars>>

\* The deferred Done calls: two for a member's block, one for an inactive one.
Exit(b) ==
    /\ Alive
    /\ worker[b] = "exiting"
    /\ worker' = [worker EXCEPT ![b] = "done"]
    /\ wg' = [ch \in Chans |-> IF ch \in WaitGroupsOf(b) THEN wg[ch] - 1 ELSE wg[ch]]
    /\ UNCHANGED <<partitionLag, collectorVars, channelVars>>

Goroutine(b) ==
    Measure(b) \/ Skip(b) \/ Exit(b) \/ (\E ch \in Chans : Send(b, ch))

-----------------------------------------------------------------------------
(* Aggregator and closer of one channel.                                    *)

\* Mutant: the channel is closed without waiting for its goroutines.
Close_NoWait(ch) ==
    /\ Alive
    /\ aggregator[ch] # "off"
    /\ ch \notin closed
    /\ closed' = closed \cup {ch}
    /\ UNCHANGED <<chan, aggregator, counted, clientRollup, groupRollup,
                   collectorVars, goroutineVars>>

\* The closer: partitionWg.Wait(), then close.
Close(ch) ==
    /\ Alive
    /\ aggregator[ch] # "off"
    /\ ch \notin closed
    /\ wg[ch] = 0
    /\ closed' = closed \cup {ch}
    /\ UNCHANGED <<chan, aggregator, counted, clientRollup, groupRollup,
                   collectorVars, goroutineVars>>

ReceiveClient(b) ==
    /\ Alive
    /\ aggregator["client"] = "running"
    /\ b \in chan["client"]
    /\ chan' = [chan EXCEPT !["client"] = @ \ {b}]
    /\ counted' = [counted EXCEPT !["client"] = @ \cup {b}]
    /\ clientRollup' = AddToClient(clientRollup, b)
    /\ UNCHANGED <<closed, aggregator, groupRollup, collectorVars, goroutineVars>>

ReceiveGroup(b) ==
    /\ Alive
    /\ aggregator["group"] = "running"
    /\ b \in chan["group"]
    /\ chan' = [chan EXCEPT !["group"] = @ \ {b}]
    /\ counted' = [counted EXCEPT !["group"] = @ \cup {b}]
    /\ groupRollup' = AddToGroup(groupRollup, b)
    /\ UNCHANGED <<closed, aggregator, clientRollup, collectorVars, goroutineVars>>

\* The receive reports a closed and drained channel; lagResultsWg.Done().
AggregatorReturns(ch) ==
    /\ Alive
    /\ aggregator[ch] = "running"
    /\ ch \in closed
    /\ chan[ch] = {}
    /\ aggregator' = [aggregator EXCEPT ![ch] = "done"]
    /\ UNCHANGED <<chan, closed, counted, clientRollup, groupRollup,
                   collectorVars, goroutineVars>>

Aggregate(ch) ==
    \/ ch = "client" /\ \E b \in Blocks : ReceiveClient(b)
    \/ ch = "group" /\ \E b \in Blocks : ReceiveGroup(b)
    \/ AggregatorReturns(ch)

-----------------------------------------------------------------------------
\* The collection has ended, well or not: nothing more happens.
Ended == pc \in {"published", "panicked", "failed", "skipped"}
Rest == Ended /\ UNCHANGED vars

Next ==
    \/ Collector
    \/ \E b \in Blocks : Goroutine(b)
    \/ \E ch \in Chans : Close(ch) \/ Aggregate(ch)
    \/ Rest

Spec == Init /\ [][Next]_vars

\* Every goroutine that can run is eventually scheduled by the Go runtime, and
\* every request to the cluster is answered or fails.
Fairness ==
    /\ WF_vars(Collector)
    /\ \A b \in Blocks : WF_vars(Goroutine(b))
    /\ \A ch \in Chans : WF_vars(Close(ch)) /\ WF_vars(Aggregate(ch))

FairSpec == Spec /\ Fairness

-----------------------------------------------------------------------------
(* Properties.                                                              *)

TypeOK ==
    /\ assignment \in Assignments
    /\ pc \in Requests \cup {"failed", "skipped", "members", "inactive", "aggregate", "wait",
                         "published", "panicked"}
    /\ todoMembers \subseteq Members
    /\ answered \subseteq Members
    /\ topicExclusions \subseteq Topics
    /\ todoTopics \subseteq Topics
    /\ unvisited \subseteq Topics
    /\ blocks \subseteq Blocks
    /\ worker \in [Blocks -> {"none", "measuring", "sendClient", "sendGroup", "exiting", "done"}]
    /\ partitionLag \subseteq Blocks
    /\ wg \in [Chans -> Nat]
    /\ chan \in [Chans -> SUBSET Blocks]
    /\ closed \subseteq Chans
    /\ aggregator \in [Chans -> {"off", "running", "done"}]
    /\ counted \in [Chans -> SUBSET Blocks]
    /\ DOMAIN clientRollup \subseteq Clients
    /\ DOMAIN groupRollup \subseteq Scopes

\* Blocks whose goroutine has still to send on a channel.
StillToSend(ch) ==
    {b \in Blocks : /\ ch \in WaitGroupsOf(b)
                    /\ \/ worker[b] \in {"measuring", "sendClient"}
                       \/ ch = "group" /\ worker[b] = "sendGroup"}

\* A channel is closed only when no goroutine will ever send on it again, those
\* not yet started included: a send on a closed channel panics.
NoSendAfterClose ==
    \A ch \in closed :
        /\ StillToSend(ch) = {}
        /\ \A b \in blocks : ch \notin WaitGroupsOf(b)
        /\ pc \in {"aggregate", "wait", "published", "panicked"}

\* The results each rollup has to count.
DueIn(ch) == IF ch = "client" THEN partitionLag \cap MemberBlocks ELSE partitionLag

LagOfBlock == [b \in Blocks |-> LagOf[TP(b)]]
SumLag(bs) == SumFunctionOnSet(LagOfBlock, bs)
MaxLag(bs) == Max({0} \cup {LagOf[TP(b)] : b \in bs})

\* The rollups of a set of lags.
ClientTotals(bs) ==
    [c \in {ClientOf[Owner(b)] : b \in bs} |-> SumLag({b \in bs : ClientOf[Owner(b)] = c})]

InScope(bs, s) == {b \in bs : s \in ScopesOf(b)}
GroupTotals(bs) ==
    [s \in UNION {ScopesOf(b) : b \in bs} |->
        [total  |-> SumLag(InScope(bs, s)),
         max    |-> MaxLag(InScope(bs, s)),
         active |-> UNION {ClientsOf(b) : b \in InScope(bs, s)}]]

\* When the rollups are published they hold every lag that was measured, once:
\* totals, maxima (never below zero) and sets of active clients, for the
\* clients, the group and, when asked for, each topic.
PublishedRollupsComplete ==
    pc = "published" =>
        /\ clientRollup = ClientTotals(DueIn("client"))
        /\ groupRollup = GroupTotals(DueIn("group"))

\* A partition is counted at most once in the group's lag: never both for the
\* member that owns it and as a partition nobody consumes.
NoPartitionCountedTwice ==
    \A b1, b2 \in chan["group"] \cup counted["group"] : TP(b1) = TP(b2) => b1 = b2

\* A partition is missing from the published group lag for a known reason only:
\* its goroutine ran and measured nothing, its topic could not be asked about,
\* or a member whose offsets arrived consumes the topic.  A member whose offsets
\* did not arrive hides no partition from the inactive pass.
Started(tp) == \E o \in Owners : worker[<<o, tp>>] # "none"
ConsumedByAnswered(t) == \E m \in answered : \E p \in Partitions : <<t, p>> \in assignment[m]
NoPartitionLost ==
    pc = "published" =>
        \A tp \in (Topics \ InternalTopics) \X Partitions :
            Started(tp) \/ tp[1] \in unvisited \/ ConsumedByAnswered(tp[1])

\* Every collection ends: with the error of a request, with a group that is not
\* to be collected, or with the rollups published, whatever fails from there on,
\* unless the process panics.  No goroutine, closer or aggregator waits for ever, however
\* small the buffer.
CollectionEnds == <>Ended

\* The collection implements the abstract rollup.
Rollup == INSTANCE LagRollup WITH
    Lags <- Blocks, MemberLags <- MemberBlocks, measured <- partitionLag,
    published <- (pc = "published")
ImplementsRollup == Rollup!Spec
==============================================================================
