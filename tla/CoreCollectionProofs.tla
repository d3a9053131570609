------------------------ MODULE CoreCollectionProofs ------------------------
(***************************************************************************)
(* For any brokers, topics, hosts, workers and limit: the whole program     *)
(* keeps to the limit of JMX connections, publishes only once every worker  *)
(* is done with everything that was asked for, and leaves no connection     *)
(* behind.                                                                  *)
(*                                                                          *)
(* The provider's own invariant carries over because every step of the      *)
(* program is a step of the provider or leaves it alone.  Publication needs *)
(* that the wait group counts the running workers, and then the chain from  *)
(* a worker that is gone to its closed channel, to the empty queue of its   *)
(* feeder, to the items that are no longer pending.                         *)
(***************************************************************************)
EXTENDS CoreCollection, FiniteSetTheorems, TLAPS

-----------------------------------------------------------------------------
(* The provider, whoever uses it.  The invariant is the conjunction of its   *)
(* properties: the limit needs cur to count the holders, the hand-over of a  *)
(* unit needs the queue to hold blocked callers only, and a caller that      *)
(* queues needs to know that a non-empty queue means that every unit is      *)
(* taken.                                                                    *)

JmxInv ==
    /\ JmxTypeOK
    /\ UnitsHeld
    /\ cur <= MaxJMXConnections
    /\ NoLostWakeup
    /\ QueueIsTheBlocked

\* The holders are a finite set, and counting them after one joined or left is
\* what it should be.
LEMMA HoldersFinite == IsFiniteSet(Holders) /\ Cardinality(Holders) \in Nat
<1>1. Holders \subseteq Callers
  BY DEF Holders
<1>2. IsFiniteSet(Holders)
  BY <1>1, CallersAssumption, FS_Subset
<1> QED
  BY <1>2, FS_CardinalityType

\* A caller that is not a holder takes a unit.
LEMMA HolderJoins ==
  ASSUME NEW S, NEW c, IsFiniteSet(S), c \notin S
  PROVE  Cardinality(S \cup {c}) = Cardinality(S) + 1
BY FS_AddElement

\* A holder gives its unit back.
LEMMA HolderLeaves ==
  ASSUME NEW S, NEW c, IsFiniteSet(S), c \in S
  PROVE  IsFiniteSet(S \ {c}) /\ Cardinality(S \ {c}) = Cardinality(S) - 1
BY FS_RemoveElement

\* No caller has a unit and none waits.
LEMMA JmxInitInv == JmxInit => JmxInv
<1> SUFFICES ASSUME JmxInit PROVE JmxInv
  OBVIOUS
<1>1. Holders = {}
  BY DEF JmxInit, Holders
<1>2. Cardinality(Holders) = 0
  BY <1>1, FS_EmptySet
<1>3. JmxTypeOK
  BY DEF JmxInit, JmxTypeOK, ConnStates
<1>4. UnitsHeld /\ cur <= MaxJMXConnections
  BY <1>2, LimitAssumption DEF JmxInit, UnitsHeld
<1>5. NoLostWakeup /\ QueueIsTheBlocked
  BY DEF JmxInit, NoLostWakeup, QueueIsTheBlocked
<1> QED
  BY <1>3, <1>4, <1>5 DEF JmxInv

-----------------------------------------------------------------------------
(* One lemma per step of the semaphore.                                     *)

\* A caller takes a free unit.
LEMMA AcquireFreeInv ==
  ASSUME JmxInv, NEW c \in Callers, AcquireFree(c)
  PROVE  JmxInv'
<1> USE DEF JmxInv, AcquireFree
<1>1. JmxTypeOK'
  BY DEF JmxTypeOK, ConnStates
<1>2. Holders' = Holders \cup {c} /\ c \notin Holders
  BY DEF JmxTypeOK, Holders
<1>3. UnitsHeld' /\ (cur <= MaxJMXConnections)'
  <2>1. Cardinality(Holders') = Cardinality(Holders) + 1
    BY <1>2, HoldersFinite, HolderJoins
  <2> QED
    BY <2>1, LimitAssumption DEF UnitsHeld, JmxTypeOK
<1>4. NoLostWakeup' /\ QueueIsTheBlocked'
  BY DEF NoLostWakeup, QueueIsTheBlocked, JmxTypeOK
<1> QED
  BY <1>1, <1>3, <1>4

\* A caller that finds no free unit joins the queue.
LEMMA AcquireWaitInv ==
  ASSUME JmxInv, NEW c \in Callers, AcquireWait(c)
  PROVE  JmxInv'
<1> USE DEF JmxInv, AcquireWait
<1>1. JmxTypeOK'
  BY DEF JmxTypeOK, ConnStates
<1>2. Holders' = Holders
  BY DEF JmxTypeOK, Holders
<1>3. UnitsHeld' /\ (cur <= MaxJMXConnections)'
  BY <1>2 DEF UnitsHeld
<1>4. NoLostWakeup'
  BY LimitAssumption DEF NoLostWakeup, JmxTypeOK
<1>5. QueueIsTheBlocked'
  <2>1. /\ Len(waiters') = Len(waiters) + 1
        /\ waiters'[Len(waiters) + 1] = c
        /\ \A i \in 1 .. Len(waiters) : waiters'[i] = waiters[i]
    BY DEF JmxTypeOK
  <2>2. \A i \in 1 .. Len(waiters) : waiters[i] # c
    BY DEF JmxTypeOK, QueueIsTheBlocked
  <2>3. Len(waiters) \in Nat
    BY DEF JmxTypeOK
  <2>4. ASSUME NEW d \in Callers
        PROVE  conn'[d] = "waiting" <=> \E i \in 1 .. Len(waiters') : waiters'[i] = d
    BY <2>1, <2>3 DEF JmxTypeOK, QueueIsTheBlocked
  <2>5. ASSUME NEW i \in 1 .. Len(waiters'), NEW j \in 1 .. Len(waiters'),
               waiters'[i] = waiters'[j]
        PROVE  i = j
    BY <2>1, <2>2, <2>3, <2>5 DEF QueueIsTheBlocked
  <2> QED
    BY <2>4, <2>5 DEF QueueIsTheBlocked
<1> QED
  BY <1>1, <1>3, <1>4, <1>5

\* A connection is opened: its caller keeps the unit.
LEMMA OpenedInv ==
  ASSUME JmxInv, NEW c \in Callers, Opened(c)
  PROVE  JmxInv'
<1> USE DEF JmxInv, Opened
<1>1. JmxTypeOK'
  BY DEF JmxTypeOK, ConnStates
<1>2. Holders' = Holders
  BY DEF JmxTypeOK, Holders
<1>3. UnitsHeld' /\ (cur <= MaxJMXConnections)'
  BY <1>2 DEF UnitsHeld
<1>4. NoLostWakeup' /\ QueueIsTheBlocked'
  BY DEF NoLostWakeup, QueueIsTheBlocked, JmxTypeOK
<1> QED
  BY <1>1, <1>3, <1>4

\* A unit is released and nobody waits for it.
LEMMA ReleaseFreeInv ==
  ASSUME JmxInv, NEW c \in Callers, c \in Holders, ReleaseFree(c)
  PROVE  JmxInv'
<1> USE DEF JmxInv, ReleaseFree
<1>1. Holders' = Holders \ {c}
  BY DEF JmxTypeOK, Holders
<1>2. Cardinality(Holders') = Cardinality(Holders) - 1 /\ Cardinality(Holders') \in Nat
  <2>1. IsFiniteSet(Holders \ {c}) /\ Cardinality(Holders \ {c}) = Cardinality(Holders) - 1
    BY HoldersFinite, HolderLeaves
  <2> QED
    BY <2>1, <1>1, FS_CardinalityType
<1>3. JmxTypeOK' /\ UnitsHeld' /\ (cur <= MaxJMXConnections)'
  BY <1>2, LimitAssumption DEF UnitsHeld, JmxTypeOK, ConnStates
<1>4. NoLostWakeup' /\ QueueIsTheBlocked'
  BY DEF NoLostWakeup, QueueIsTheBlocked, JmxTypeOK, Holders
<1> QED
  BY <1>3, <1>4

\* A unit is released to the first caller of the queue.
LEMMA ReleaseHandOverInv ==
  ASSUME JmxInv, NEW c \in Callers, c \in Holders, ReleaseHandOver(c)
  PROVE  JmxInv'
<1> USE DEF JmxInv, ReleaseHandOver
<1> DEFINE h == Head(waiters)
<1>1. /\ waiters # <<>> /\ Len(waiters) \in Nat \ {0}
      /\ h = waiters[1]
      /\ h \in Callers
  BY DEF JmxTypeOK
<1>2. conn[h] = "waiting"
  BY <1>1 DEF QueueIsTheBlocked
<1>3. h # c /\ h \notin Holders
  BY <1>2 DEF Holders
<1>4. conn' = [conn EXCEPT ![c] = "none", ![h] = "opening"]
  OBVIOUS
<1>5. JmxTypeOK'
  BY <1>1, <1>4 DEF JmxTypeOK, ConnStates
<1>6. Holders' = (Holders \ {c}) \cup {h}
  BY <1>1, <1>3, <1>4 DEF JmxTypeOK, Holders
<1>7. Cardinality(Holders') = Cardinality(Holders)
  <2>1. IsFiniteSet(Holders \ {c}) /\ Cardinality(Holders \ {c}) = Cardinality(Holders) - 1
    BY HoldersFinite, HolderLeaves
  <2>2. Cardinality((Holders \ {c}) \cup {h}) = Cardinality(Holders \ {c}) + 1
    BY <2>1, <1>3, HolderJoins
  <2> QED
    BY <2>1, <2>2, <1>6, HoldersFinite
<1>8. UnitsHeld' /\ (cur <= MaxJMXConnections)' /\ NoLostWakeup'
  BY <1>1, <1>7 DEF UnitsHeld, NoLostWakeup
<1>9. QueueIsTheBlocked'
  <2>1. /\ waiters' = Tail(waiters)
        /\ Len(waiters') = Len(waiters) - 1
        /\ \A i \in 1 .. Len(waiters') : waiters'[i] = waiters[i + 1]
    BY <1>1 DEF JmxTypeOK
  <2>2. \A i \in 2 .. Len(waiters) : waiters[i] # h
    BY <1>1 DEF QueueIsTheBlocked
  <2>3. ASSUME NEW d \in Callers
        PROVE  conn'[d] = "waiting" <=> \E i \in 1 .. Len(waiters') : waiters'[i] = d
    <3>1. conn'[d] = "waiting" <=> conn[d] = "waiting" /\ d # h
      BY <1>2, <1>3, <1>4 DEF JmxTypeOK, Holders
    <3>2. (\E i \in 1 .. Len(waiters') : waiters'[i] = d)
          <=> \E i \in 2 .. Len(waiters) : waiters[i] = d
      <4>1. ASSUME NEW i \in 2 .. Len(waiters), waiters[i] = d
            PROVE  \E k \in 1 .. Len(waiters') : waiters'[k] = d
        <5>1. i - 1 \in 1 .. Len(waiters') /\ waiters'[i - 1] = waiters[i]
          BY <2>1, <1>1
        <5> QED
          BY <5>1, <4>1
      <4> QED
        BY <2>1, <1>1, <4>1
    <3>3. (\E i \in 2 .. Len(waiters) : waiters[i] = d)
          <=> (\E i \in 1 .. Len(waiters) : waiters[i] = d) /\ d # h
      BY <1>1, <2>2
    <3> QED
      BY <3>1, <3>2, <3>3 DEF QueueIsTheBlocked
  <2>4. ASSUME NEW i \in 1 .. Len(waiters'), NEW j \in 1 .. Len(waiters'),
               waiters'[i] = waiters'[j]
        PROVE  i = j
    <3>1. i + 1 \in 1 .. Len(waiters) /\ j + 1 \in 1 .. Len(waiters)
      BY <2>1, <1>1
    <3>2. i + 1 = j + 1
      BY <3>1, <2>1, <2>4 DEF QueueIsTheBlocked
    <3> QED
      BY <3>2
  <2> QED
    BY <2>3, <2>4 DEF QueueIsTheBlocked
<1> QED
  BY <1>5, <1>8, <1>9

-----------------------------------------------------------------------------
\* Every operation of the provider preserves the invariant.
LEMMA JmxStepInv ==
  ASSUME JmxInv, JmxNext
  PROVE  JmxInv'
<1> SUFFICES ASSUME NEW c \in Callers,
                    NewConnection(c) \/ Opened(c) \/ OpenFails(c) \/ Close(c)
             PROVE  JmxInv'
  BY DEF JmxNext
<1>1. CASE NewConnection(c)
  BY <1>1, AcquireFreeInv, AcquireWaitInv DEF NewConnection
<1>2. CASE Opened(c)
  BY <1>2, OpenedInv
<1>3. CASE OpenFails(c)
  BY <1>3, ReleaseFreeInv, ReleaseHandOverInv DEF OpenFails, Release, Holders
<1>4. CASE Close(c)
  BY <1>4, ReleaseFreeInv, ReleaseHandOverInv DEF Close, Release, Holders
<1> QED
  BY <1>1, <1>2, <1>3, <1>4

\* A step that leaves the provider alone.
LEMMA JmxStutterInv ==
  ASSUME JmxInv, UNCHANGED jmxVars
  PROVE  JmxInv'
BY DEF JmxInv, jmxVars, JmxTypeOK, UnitsHeld, NoLostWakeup, QueueIsTheBlocked, Holders

\* The invariant of the provider (JMXProviderWithConnectionsLimit), whoever
\* uses it.
THEOREM JmxInvariant == JmxSpec => []JmxInv
<1>1. JmxInit => JmxInv
  BY JmxInitInv
<1>2. JmxInv /\ [JmxNext]_jmxVars => JmxInv'
  BY JmxStepInv, JmxStutterInv
<1> QED
  BY <1>1, <1>2, PTL DEF JmxSpec

\* NewConnection never lets more than MaxJMXConnections connections be open or
\* in the course of being opened.
THEOREM JmxLimit == JmxSpec => []ConnectionLimit
<1>1. JmxInv => ConnectionLimit
  BY DEF JmxInv, UnitsHeld, ConnectionLimit
<1> QED
  BY <1>1, JmxInvariant, PTL

-----------------------------------------------------------------------------
(* The program.                                                             *)

Early      == {"start", "probe", "topics", "pools"}
AfterPools == {"controllers", "counting", "cluster", "collecting", "feed", "clients", "wait"}
Working    == Early \cup AfterPools

\* The items the feeder of a pool is given.
Fed(p) == {x \in Items : \/ p = "broker" /\ x \in Brokers
                         \/ p = "topic" /\ x \in topics
                         \/ p = "consumer" /\ x \in Consumers
                         \/ p = "producer" /\ x \in Producers}

WorkersStarted(p) ==
    IF p \in {"broker", "topic"}
    THEN config.collectBrokers /\ (p = "topic" => config.topicPool) /\ pc \in AfterPools
    ELSE pc = "wait"

FeederStarted(p) ==
    IF p = "broker" THEN config.collectBrokers /\ pc \in {"clients", "wait"}
                    ELSE WorkersStarted(p)

PoolsFollowMain ==
    pc \in Working =>
        /\ \A w \in Workers : worker[w] # "off" <=> WorkersStarted(PoolOf[w])
        /\ \A p \in Pools : feeder[p] # "off" <=> FeederStarted(p)

BrokersFound == pc \in Working \ {"start", "clients", "wait"} => config.collectBrokers

WgCounts == wg = Cardinality(Running)

GoneIsClosed  == \A w \in Workers : worker[w] = "gone" => feeder[PoolOf[w]] = "closed"
ClosedIsEmpty == \A p \in Pools : feeder[p] = "closed" => queue[p] = {}

PendingIsQueued ==
    pc \in Working =>
        \A x \in Items, p \in Pools :
            outcome[x] = "pending" /\ feeder[p] # "off" /\ x \in Fed(p) => x \in queue[p]

TakenIsHeld ==
    \A x \in Items : outcome[x] = "taken" => \E w \in Workers : worker[w] = "item" /\ item[w] = x

NothingTakenEarly == pc \in Early => \A x \in Items : outcome[x] = "pending"

ConnOwners ==
    /\ conn[Main] # "none" => pc \in {"counting", "collecting", "exited", "panicked"}
    /\ \A w \in Workers : conn[w] # "none" => worker[w] = "item" /\ NeedsJmx(w)

ProgramInv ==
    /\ TypeOK
    /\ PoolsFollowMain
    /\ BrokersFound
    /\ WgCounts
    /\ GoneIsClosed
    /\ ClosedIsEmpty
    /\ PendingIsQueued
    /\ TakenIsHeld
    /\ NothingTakenEarly
    /\ ConnOwners
    /\ PublishAfterAllWork

CoreInv == JmxInv /\ ProgramInv

\* Who has an item: the queue of its own pool, while it is pending, or one worker,
\* while it is taken.
QueuedIsPending ==
    \A p \in Pools : queue[p] \subseteq ItemsOf(p) /\ \A x \in queue[p] : outcome[x] = "pending"
UnfedIsPending ==
    \A p \in Pools : feeder[p] = "off" => \A x \in ItemsOf(p) : outcome[x] = "pending"
HeldIsTaken ==
    \A w \in Workers : worker[w] = "item" => item[w] \in Items /\ outcome[item[w]] = "taken"
HeldByOne ==
    \A w, v \in Workers :
        worker[w] = "item" /\ worker[v] = "item" /\ item[w] = item[v] => w = v
HandInv == QueuedIsPending /\ UnfedIsPending /\ HeldIsTaken /\ HeldByOne

-----------------------------------------------------------------------------
(* The provider inside the program.                                         *)

\* The main goroutine and the workers are the callers of the provider.
LEMMA MainIsCaller == Main \in Callers /\ Workers \subseteq Callers /\ Main \notin Workers
BY CoreAssumption

\* Whatever the program does is one operation of the provider or none.
LEMMA StepIsJmxStep ==
  ASSUME [Next]_vars
  PROVE  [JmxNext]_jmxVars
<1> USE MainIsCaller DEF JmxNext
<1>1. CASE MainStep
  <2>1. CASE MainConnects
    BY <2>1 DEF MainConnects
  <2>2. CASE MainOpened
    BY <2>2 DEF MainOpened
  <2>3. CASE CountController
    BY <2>3 DEF CountController
  <2>4. CASE CollectCluster
    BY <2>4 DEF CollectCluster
  <2>5. CASE ClientsOnly \/ FindBrokers \/ FindBrokersFails \/ ProbeJmx \/ ProbeJmxFails
             \/ ListTopics \/ ListTopicsNoZk
    BY <2>5 DEF ClientsOnly, FindBrokers, FindBrokersFails, ProbeJmx, ProbeJmxFails,
                ListTopics, ListTopicsNoZk
  <2>6. CASE StartBrokerAndTopicPools \/ CollectClusterExits \/ FeedBrokers
             \/ StartClientPools \/ WaitForWorkers \/ Publish
    BY <2>6 DEF StartBrokerAndTopicPools, CollectClusterExits, FeedBrokers,
                StartClientPools, WaitForWorkers, Publish
  <2> QED
    BY <1>1, <2>1, <2>2, <2>3, <2>4, <2>5, <2>6 DEF MainStep
<1>2. ASSUME NEW w \in Workers, WorkerStep(w)
      PROVE  [JmxNext]_jmxVars
  <2>1. CASE Feed(w) \/ Return(w) \/ CollectWithoutJmx(w) \/ TopicPanics(w) \/ CollectExits(w)
    BY <2>1 DEF Feed, Return, CollectWithoutJmx, TopicPanics, CollectExits
  <2>2. CASE Connect(w) \/ ConnectionOpened(w) \/ ConnectionFails(w) \/ Collect(w)
    BY <2>2 DEF Connect, ConnectionOpened, ConnectionFails, Collect
  <2> QED
    BY <1>2, <2>1, <2>2 DEF WorkerStep
<1>3. ASSUME NEW p \in Pools, CloseFeed(p)
      PROVE  [JmxNext]_jmxVars
  BY <1>3 DEF CloseFeed
<1>4. CASE Rest \/ UNCHANGED vars
  BY <1>4 DEF Rest, vars
<1> QED
  BY <1>1, <1>2, <1>3, <1>4 DEF Next

\* The whole program keeps to max_jmx_connections: the main goroutine and the
\* workers of all pools together never hold more connections.
THEOREM CoreLimit == Spec => []ConnectionLimit
<1>1. Init => JmxInv
  BY JmxInitInv DEF Init
<1>2. JmxInv /\ [Next]_vars => JmxInv'
  BY StepIsJmxStep, JmxStepInv, JmxStutterInv
<1>3. JmxInv => ConnectionLimit
  BY DEF JmxInv, UnitsHeld, ConnectionLimit
<1> QED
  BY <1>1, <1>2, <1>3, PTL DEF Spec

-----------------------------------------------------------------------------
(* What the operations of the provider do to its callers.                   *)

\* NewConnection gives a connection, or a place in the queue, to its caller and to nobody else.
LEMMA AcquireConn ==
  ASSUME JmxTypeOK, NEW c \in Callers, NewConnection(c)
  PROVE  \A d \in Callers : conn'[d] # "none" <=> conn[d] # "none" \/ d = c
BY DEF JmxTypeOK, NewConnection, AcquireFree, AcquireWait

\* A connection that is opened stays with its caller.
LEMMA OpenedConn ==
  ASSUME JmxTypeOK, NEW c \in Callers, Opened(c)
  PROVE  \A d \in Callers : conn'[d] # "none" <=> conn[d] # "none"
BY DEF JmxTypeOK, Opened

\* A release frees its caller only: who is woken was waiting.
LEMMA ReleaseConn ==
  ASSUME JmxInv, NEW c \in Callers, Close(c) \/ OpenFails(c)
  PROVE  \A d \in Callers : conn'[d] # "none" <=> conn[d] # "none" /\ d # c
<1>1. Release(c) /\ conn[c] \in {"open", "opening"}
  BY DEF Close, OpenFails
<1>2. CASE ReleaseFree(c)
  BY <1>2 DEF JmxInv, JmxTypeOK, ReleaseFree
<1>3. CASE ReleaseHandOver(c)
  <2> DEFINE h == Head(waiters)
  <2>1. waiters # <<>> /\ Len(waiters) \in Nat \ {0} /\ h = waiters[1] /\ h \in Callers
    BY <1>3 DEF JmxInv, JmxTypeOK, ReleaseHandOver
  <2>2. conn[h] = "waiting"
    BY <2>1 DEF JmxInv, QueueIsTheBlocked
  <2>3. conn' = [conn EXCEPT ![c] = "none", ![h] = "opening"]
    BY <1>3 DEF ReleaseHandOver
  <2> QED
    BY <1>1, <2>1, <2>2, <2>3 DEF JmxInv, JmxTypeOK
<1> QED
  BY <1>1, <1>2, <1>3 DEF Release

-----------------------------------------------------------------------------
(* The initial state, and the moves of the main goroutine before the pools. *)

\* The running workers are a finite set.
LEMMA RunningFinite == IsFiniteSet(Running) /\ Cardinality(Running) \in Nat
<1>1. Running \subseteq Workers
  BY DEF Running
<1> QED
  BY <1>1, PoolAssumption, FS_Subset, FS_CardinalityType

\* Before the main goroutine has started anything.
LEMMA CoreInitInv == Init => CoreInv
<1> SUFFICES ASSUME Init PROVE CoreInv
  OBVIOUS
<1> USE DEF Init, PoolInit
<1>1. JmxInv
  BY JmxInitInv
<1>2. TypeOK
  BY <1>1 DEF JmxInv, TypeOK, PoolTypeOK, Outcomes, MainPlaces
<1>3. WgCounts
  <2>1. Running = {}
    BY DEF Running
  <2> QED
    BY <2>1, FS_EmptySet DEF WgCounts
<1>4. PoolsFollowMain /\ BrokersFound /\ GoneIsClosed /\ ClosedIsEmpty
  BY DEF PoolsFollowMain, BrokersFound, GoneIsClosed, ClosedIsEmpty, WorkersStarted,
         FeederStarted, Working, Early, AfterPools
<1>5. PendingIsQueued /\ TakenIsHeld /\ NothingTakenEarly /\ PublishAfterAllWork
  BY DEF PendingIsQueued, TakenIsHeld, NothingTakenEarly, PublishAfterAllWork
<1>6. ConnOwners
  BY MainIsCaller DEF ConnOwners, JmxInit
<1> QED
  BY <1>1, <1>2, <1>3, <1>4, <1>5, <1>6 DEF CoreInv, ProgramInv

\* Nothing runs before the pools are started.
LEMMA NobodyRunsEarly ==
  ASSUME PoolsFollowMain, pc \in Early
  PROVE  Running = {}
BY PoolAssumption DEF PoolsFollowMain, WorkersStarted, Running, Working, Early, AfterPools

\* Up to the pools the main goroutine is alone.
LEMMA EarlyMoveInv ==
  ASSUME CoreInv,
         ClientsOnly \/ FindBrokers \/ FindBrokersFails \/ ProbeJmx \/ ProbeJmxFails
           \/ ListTopics \/ ListTopicsNoZk
  PROVE  ProgramInv'
<1> USE DEF CoreInv, ProgramInv, ClientsOnly, FindBrokers, FindBrokersFails, ProbeJmx,
            ProbeJmxFails, ListTopics, ListTopicsNoZk, GoTo, ExitProcess
<1>1. UNCHANGED <<poolVars, jmxVars, config, todo>>
  OBVIOUS
<1>2. pc \in Early
  BY DEF Early
<1>3. TypeOK'
  BY <1>1 DEF TypeOK, PoolTypeOK, JmxTypeOK, poolVars, jmxVars, MainPlaces, Ends
<1>4. Running = {}
  BY <1>2, NobodyRunsEarly
<1>5. PoolsFollowMain'
  BY <1>1, <1>2 DEF PoolsFollowMain, WorkersStarted, FeederStarted, Working, Early, AfterPools,
         poolVars
<1>6. BrokersFound'
  BY <1>1 DEF BrokersFound, Working, Early, AfterPools
<1>7. WgCounts' /\ GoneIsClosed' /\ ClosedIsEmpty' /\ TakenIsHeld'
  BY <1>1 DEF WgCounts, Running, GoneIsClosed, ClosedIsEmpty, TakenIsHeld, poolVars
<1>8. PendingIsQueued'
  BY <1>1, <1>2 DEF PendingIsQueued, PoolsFollowMain, FeederStarted, WorkersStarted, Working,
         Early, AfterPools, poolVars
<1>9. NothingTakenEarly'
  BY <1>1, <1>2 DEF NothingTakenEarly, poolVars
<1>10. ConnOwners'
  BY <1>1 DEF ConnOwners, NeedsJmx, poolVars, jmxVars
<1>11. PublishAfterAllWork'
  BY <1>1, <1>2, <1>4 DEF PublishAfterAllWork, NothingTakenEarly, Running, poolVars
<1> QED
  BY <1>3, <1>5, <1>6, <1>7, <1>8, <1>9, <1>10, <1>11

-----------------------------------------------------------------------------
(* The main goroutine starts the pools.                                     *)

\* wg.Add of workers that were off: the wait group counts them, too.
LEMMA StartPoolsCounts ==
  ASSUME CoreInv, NEW ps \in SUBSET Pools, StartPools(ps),
         \A w \in Workers : PoolOf[w] \in ps => worker[w] = "off"
  PROVE  WgCounts'
<1> DEFINE new == {w \in Workers : PoolOf[w] \in ps}
<1>1. worker' = [w \in Workers |-> IF w \in new THEN "receive" ELSE worker[w]]
      /\ wg' = wg + Cardinality(new)
  BY DEF StartPools
<1>2. Running' = Running \cup new /\ Running \cap new = {}
  BY <1>1 DEF Running
<1>3. IsFiniteSet(new)
  BY PoolAssumption, FS_Subset
<1>4. Cardinality(Running \cup new) = Cardinality(Running) + Cardinality(new)
  <2>1. Cardinality(Running \cup new)
          = Cardinality(Running) + Cardinality(new) - Cardinality(Running \cap new)
    BY <1>3, RunningFinite, FS_Union
  <2>2. Cardinality(Running \cap new) = 0
    BY <1>2, FS_EmptySet
  <2> QED
    BY <2>1, <2>2, <1>3, RunningFinite, FS_CardinalityType
<1> QED
  BY <1>1, <1>2, <1>4 DEF CoreInv, ProgramInv, WgCounts

\* The broker and the topic workers start, and with them the feeder of the topics.
LEMMA StartBrokerAndTopicPoolsInv ==
  ASSUME CoreInv, StartBrokerAndTopicPools
  PROVE  ProgramInv'
<1> USE DEF CoreInv, ProgramInv, StartBrokerAndTopicPools, GoTo
<1> DEFINE tp == IF config.topicPool THEN {"topic"} ELSE {}
<1>1. /\ UNCHANGED <<item, outcome, jmxVars, config, topics, zkNil, exitCause>>
      /\ StartPools({"broker"} \cup tp) /\ StartFeeders(tp, [p \in Pools |-> topics])
      /\ pc = "pools" /\ pc' \in {"controllers", "feed"}
      /\ config.collectBrokers
  BY DEF BrokersFound, Working, Early
<1>2. \A w \in Workers : worker[w] = "off"
  BY <1>1, PoolAssumption DEF PoolsFollowMain, WorkersStarted, Working, Early, AfterPools
<1>3. \A p \in Pools : feeder[p] = "off"
  BY <1>1 DEF PoolsFollowMain, FeederStarted, WorkersStarted, Working, Early, AfterPools
<1>4. WgCounts' /\ wg' \in Nat
  <2>1. {"broker"} \cup tp \in SUBSET Pools
    BY CoreAssumption DEF PoolNames
  <2>2. WgCounts'
    BY <1>1, <1>2, <2>1, StartPoolsCounts
  <2>3. IsFiniteSet(Running')
    BY PoolAssumption, FS_Subset DEF Running
  <2> QED
    BY <2>2, <2>3, FS_CardinalityType DEF WgCounts
<1>5. worker' = [w \in Workers |-> IF PoolOf[w] \in {"broker"} \cup tp THEN "receive" ELSE "off"]
  BY <1>1, <1>2 DEF StartPools
<1>6. /\ feeder' = [p \in Pools |-> IF p \in tp THEN "feeding" ELSE "off"]
      /\ queue' = [p \in Pools |-> IF p \in tp THEN topics ELSE queue[p]]
  BY <1>1, <1>3 DEF StartFeeders
<1>7. TypeOK'
  BY <1>1, <1>4, <1>5, <1>6, CoreAssumption
     DEF TypeOK, PoolTypeOK, JmxTypeOK, jmxVars, MainPlaces, Ends
<1>8. PoolsFollowMain'
  BY <1>1, <1>5, <1>6, PoolAssumption
     DEF PoolsFollowMain, WorkersStarted, FeederStarted, Working, Early, AfterPools
<1>9. BrokersFound'
  BY <1>1 DEF BrokersFound
<1>10. GoneIsClosed' /\ ClosedIsEmpty'
  BY <1>5, <1>6 DEF GoneIsClosed, ClosedIsEmpty
<1>11. PendingIsQueued'
  BY <1>1, <1>6 DEF PendingIsQueued, Fed
<1>12. TakenIsHeld' /\ NothingTakenEarly' /\ PublishAfterAllWork'
  BY <1>1 DEF TakenIsHeld, NothingTakenEarly, PublishAfterAllWork, Early
<1>13. ConnOwners'
  BY <1>1, <1>2 DEF ConnOwners, NeedsJmx, jmxVars
<1> QED
  BY <1>4, <1>7, <1>8, <1>9, <1>10, <1>11, <1>12, <1>13

\* The feeder of the brokers starts with every broker.
LEMMA FeedBrokersInv ==
  ASSUME CoreInv, FeedBrokers
  PROVE  ProgramInv'
<1> USE DEF CoreInv, ProgramInv, FeedBrokers, GoTo
<1>1. /\ UNCHANGED <<worker, item, outcome, wg, jmxVars, config, topics, zkNil, todo, exitCause>>
      /\ pc = "feed" /\ pc' = "clients"
      /\ config.collectBrokers
  BY DEF BrokersFound, Working, Early, AfterPools
<1>2. feeder["broker"] = "off"
  BY <1>1, CoreAssumption DEF PoolsFollowMain, FeederStarted, Working, AfterPools, PoolNames
<1>3. /\ feeder' = [p \in Pools |-> IF p = "broker" THEN "feeding" ELSE feeder[p]]
      /\ queue' = [p \in Pools |-> IF p = "broker" THEN Brokers ELSE queue[p]]
  BY DEF StartFeeders
<1>4. TypeOK'
  BY <1>1, <1>3, CoreAssumption
     DEF TypeOK, PoolTypeOK, JmxTypeOK, jmxVars, MainPlaces, Ends
<1>5. PoolsFollowMain'
  BY <1>1, <1>3, PoolAssumption
     DEF PoolsFollowMain, WorkersStarted, FeederStarted, Working, Early, AfterPools
<1>6. BrokersFound'
  BY <1>1 DEF BrokersFound
<1>7. WgCounts'
  BY <1>1 DEF WgCounts, Running
<1>8. GoneIsClosed' /\ ClosedIsEmpty'
  BY <1>1, <1>2, <1>3, PoolAssumption DEF GoneIsClosed, ClosedIsEmpty
<1>9. PendingIsQueued'
  BY <1>1, <1>3 DEF PendingIsQueued, Fed, Working, AfterPools
<1>10. TakenIsHeld' /\ NothingTakenEarly' /\ PublishAfterAllWork'
  BY <1>1 DEF TakenIsHeld, NothingTakenEarly, PublishAfterAllWork, Early
<1>11. ConnOwners'
  BY <1>1 DEF ConnOwners, NeedsJmx, jmxVars
<1> QED
  BY <1>4, <1>5, <1>6, <1>7, <1>8, <1>9, <1>10, <1>11

\* The client workers start with their feeders, and main goes on to wait for them.
LEMMA StartClientPoolsInv ==
  ASSUME CoreInv, StartClientPools
  PROVE  ProgramInv'
<1> USE DEF CoreInv, ProgramInv, StartClientPools, GoTo
<1> DEFINE cp == {"consumer", "producer"}
           hosts == [p \in Pools |-> IF p = "consumer" THEN Consumers ELSE Producers]
<1>1. /\ UNCHANGED <<item, outcome, jmxVars, config, topics, zkNil, todo, exitCause>>
      /\ StartPools(cp) /\ StartFeeders(cp, hosts)
      /\ pc = "clients" /\ pc' = "wait"
  OBVIOUS
<1>2. \A w \in Workers : PoolOf[w] \in cp => worker[w] = "off"
  BY <1>1, PoolAssumption DEF PoolsFollowMain, WorkersStarted, Working, AfterPools
<1>3. \A p \in cp : p \in Pools /\ feeder[p] = "off"
  BY <1>1, CoreAssumption DEF PoolsFollowMain, FeederStarted, WorkersStarted, Working, AfterPools,
                              PoolNames
<1>4. WgCounts' /\ wg' \in Nat
  <2>1. WgCounts'
    BY <1>1, <1>2, <1>3, StartPoolsCounts
  <2>2. IsFiniteSet(Running')
    BY PoolAssumption, FS_Subset DEF Running
  <2> QED
    BY <2>1, <2>2, FS_CardinalityType DEF WgCounts
<1>5. worker' = [w \in Workers |-> IF PoolOf[w] \in cp THEN "receive" ELSE worker[w]]
  BY <1>1 DEF StartPools
<1>6. /\ feeder' = [p \in Pools |-> IF p \in cp THEN "feeding" ELSE feeder[p]]
      /\ queue' = [p \in Pools |-> IF p \in cp THEN hosts[p] ELSE queue[p]]
  BY <1>1 DEF StartFeeders
<1>7. TypeOK'
  BY <1>1, <1>4, <1>5, <1>6, CoreAssumption
     DEF TypeOK, PoolTypeOK, JmxTypeOK, jmxVars, MainPlaces, Ends
<1>8. PoolsFollowMain'
  BY <1>1, <1>5, <1>6, PoolAssumption, CoreAssumption
     DEF PoolsFollowMain, WorkersStarted, FeederStarted, Working, Early, AfterPools, PoolNames
<1>9. BrokersFound'
  BY <1>1 DEF BrokersFound
<1>10. GoneIsClosed' /\ ClosedIsEmpty'
  BY <1>3, <1>5, <1>6, PoolAssumption DEF GoneIsClosed, ClosedIsEmpty
<1>11. PendingIsQueued'
  BY <1>1, <1>6 DEF PendingIsQueued, Fed, Working, AfterPools
<1>12. TakenIsHeld' /\ NothingTakenEarly' /\ PublishAfterAllWork'
  BY <1>1, <1>2, <1>5 DEF TakenIsHeld, NothingTakenEarly, PublishAfterAllWork, Early
<1>13. ConnOwners'
  BY <1>1, <1>2, <1>5 DEF ConnOwners, NeedsJmx, jmxVars
<1> QED
  BY <1>4, <1>7, <1>8, <1>9, <1>10, <1>11, <1>12, <1>13

-----------------------------------------------------------------------------
(* The main goroutine waits, publishes, and uses connections itself.        *)

\* The wait group is at zero: every worker of a started pool is gone, so its
\* channel is closed, its feeder has nothing left, and no item is pending.
LEMMA WaitForWorkersInv ==
  ASSUME CoreInv, WaitForWorkers
  PROVE  ProgramInv'
<1> USE DEF CoreInv, ProgramInv, WaitForWorkers, GoTo
<1>1. /\ UNCHANGED <<poolVars, jmxVars, config, topics, zkNil, todo, exitCause>>
      /\ pc = "wait" /\ pc' \in {"panicked", "publish"}
  OBVIOUS
<1>2. Running = {}
  <2>1. Cardinality(Running) = 0
    BY DEF WgCounts
  <2> QED
    BY <2>1, RunningFinite, FS_EmptySet
<1>3. ASSUME NEW p \in Pools, WorkersStarted(p)
      PROVE  feeder[p] = "closed" /\ queue[p] = {}
  <2>1. PICK w \in Workers : PoolOf[w] = p
    BY CoreAssumption
  <2>2. worker[w] = "gone"
    BY <1>1, <1>2, <1>3, <2>1
       DEF PoolsFollowMain, Working, AfterPools, Running, TypeOK, PoolTypeOK
  <2> QED
    BY <2>1, <2>2 DEF GoneIsClosed, ClosedIsEmpty
<1>4. ASSUME NEW x \in Wanted
      PROVE  x \in Items /\ outcome[x] \in {"collected", "failed"}
  <2>1. PICK p \in Pools : WorkersStarted(p) /\ x \in Fed(p)
    BY <1>1, <1>4, CoreAssumption DEF Wanted, WorkersStarted, Fed, PoolNames, AfterPools, TypeOK
  <2>2. x \in Items /\ outcome[x] # "pending"
    BY <1>1, <1>3, <2>1 DEF PendingIsQueued, Working, AfterPools, Fed
  <2>3. outcome[x] # "taken"
    BY <1>2, <2>2 DEF TakenIsHeld, Running
  <2> QED
    BY <2>2, <2>3 DEF TypeOK, PoolTypeOK, Outcomes
<1>5. TypeOK'
  BY <1>1 DEF TypeOK, PoolTypeOK, JmxTypeOK, poolVars, jmxVars, MainPlaces, Ends
<1>6. PoolsFollowMain' /\ BrokersFound' /\ PendingIsQueued' /\ NothingTakenEarly'
  BY <1>1 DEF PoolsFollowMain, BrokersFound, PendingIsQueued, NothingTakenEarly, Working, Early,
              AfterPools
<1>7. WgCounts' /\ GoneIsClosed' /\ ClosedIsEmpty' /\ TakenIsHeld'
  BY <1>1 DEF WgCounts, Running, GoneIsClosed, ClosedIsEmpty, TakenIsHeld, poolVars
<1>8. ConnOwners'
  BY <1>1 DEF ConnOwners, NeedsJmx, poolVars, jmxVars
<1>9. PublishAfterAllWork'
  BY <1>1, <1>2, <1>4 DEF PublishAfterAllWork, Running, Wanted, poolVars
<1> QED
  BY <1>5, <1>6, <1>7, <1>8, <1>9

\* Publish, and the exits and panics of the process.
LEMMA EndInv ==
  ASSUME CoreInv, UNCHANGED <<poolVars, jmxVars, config, topics, zkNil, todo>>,
         \/ Publish
         \/ CollectClusterExits
         \/ \E w \in Workers : TopicPanics(w) \/ CollectExits(w)
  PROVE  ProgramInv'
<1> USE DEF CoreInv, ProgramInv
<1>1. pc' \in {"published", "exited", "panicked"} /\ (pc' = "published" => pc = "publish")
      /\ exitCause' \in {exitCause, "query", "publish"}
  BY DEF Publish, CollectClusterExits, TopicPanics, CollectExits, GoTo, ExitProcess
<1>2. TypeOK'
  BY <1>1 DEF TypeOK, PoolTypeOK, JmxTypeOK, poolVars, jmxVars, MainPlaces, Ends
<1>3. PoolsFollowMain' /\ BrokersFound' /\ PendingIsQueued' /\ NothingTakenEarly'
  BY <1>1 DEF PoolsFollowMain, BrokersFound, PendingIsQueued, NothingTakenEarly, Working, Early,
              AfterPools
<1>4. WgCounts' /\ GoneIsClosed' /\ ClosedIsEmpty' /\ TakenIsHeld'
  BY DEF WgCounts, Running, GoneIsClosed, ClosedIsEmpty, TakenIsHeld, poolVars
<1>5. ConnOwners'
  BY <1>1 DEF ConnOwners, NeedsJmx, poolVars, jmxVars
<1>6. PublishAfterAllWork'
  BY <1>1 DEF PublishAfterAllWork, Running, Wanted, poolVars
<1> QED
  BY <1>2, <1>3, <1>4, <1>5, <1>6

\* The main goroutine opens and closes connections between the pools and the feed.
LEMMA MainConnectionInv ==
  ASSUME CoreInv, JmxInv', MainConnects \/ MainOpened \/ CountController \/ CollectCluster
  PROVE  ProgramInv'
<1> USE DEF CoreInv, ProgramInv
<1> DEFINE Places == {"controllers", "counting", "cluster", "collecting", "feed"}
<1>1. /\ UNCHANGED <<poolVars, config, topics, zkNil, exitCause>>
      /\ pc \in Places \ {"feed"} /\ pc' \in Places
      /\ todo' \subseteq todo
  BY DEF MainConnects, MainOpened, CountController, NextBroker, CollectCluster, GoTo, mainVars
<1>2. \A w \in Workers : conn'[w] # "none" <=> conn[w] # "none"
  <2>1. CASE MainConnects
    BY <2>1, MainIsCaller, AcquireConn DEF MainConnects, JmxInv
  <2>2. CASE MainOpened
    BY <2>2, MainIsCaller, OpenedConn DEF MainOpened, JmxInv
  <2>3. CASE CountController \/ CollectCluster
    BY <2>3, MainIsCaller, ReleaseConn DEF CountController, CollectCluster
  <2> QED
    BY <2>1, <2>2, <2>3
<1>3. conn'[Main] # "none" => pc' \in {"counting", "collecting"}
  <2>1. CASE MainConnects
    BY <2>1 DEF MainConnects
  <2>2. CASE MainOpened
    BY <2>2 DEF MainOpened, mainVars
  <2>3. CASE CountController \/ CollectCluster
    BY <2>3, MainIsCaller, ReleaseConn DEF CountController, CollectCluster
  <2> QED
    BY <2>1, <2>2, <2>3
<1>4. TypeOK'
  BY <1>1 DEF TypeOK, PoolTypeOK, JmxInv, poolVars, MainPlaces, Ends
<1>5. PoolsFollowMain' /\ BrokersFound' /\ NothingTakenEarly' /\ PublishAfterAllWork'
  BY <1>1 DEF PoolsFollowMain, WorkersStarted, FeederStarted, BrokersFound, NothingTakenEarly,
              PublishAfterAllWork, Working, Early, AfterPools, poolVars
<1>6. WgCounts' /\ GoneIsClosed' /\ ClosedIsEmpty' /\ TakenIsHeld'
  BY <1>1 DEF WgCounts, Running, GoneIsClosed, ClosedIsEmpty, TakenIsHeld, poolVars
<1>7. PendingIsQueued'
  BY <1>1 DEF PendingIsQueued, Fed, Working, AfterPools, poolVars
<1>8. ConnOwners'
  BY <1>1, <1>2, <1>3 DEF ConnOwners, NeedsJmx, poolVars
<1> QED
  BY <1>4, <1>5, <1>6, <1>7, <1>8

-----------------------------------------------------------------------------
(* The workers and the feeders.                                             *)

\* Nobody moves once the integration publishes, but for feeders that close.
LEMMA WorkingWhileRunning ==
  ASSUME CoreInv, Alive, Running # {}
  PROVE  pc \in Working
BY DEF CoreInv, ProgramInv, PublishAfterAllWork, TypeOK, MainPlaces, Ends, Alive, Working, Early,
       AfterPools

\* An item goes from the queue of a feeder to a worker that receives.
LEMMA FeedInv ==
  ASSUME CoreInv, NEW w \in Workers, Feed(w)
  PROVE  ProgramInv'
<1> USE DEF CoreInv, ProgramInv
<1>1. PICK x \in Items : Deliver(w, x)
  BY DEF Feed
<1>2. UNCHANGED <<jmxVars, mainVars, feeder, wg>> /\ Alive
  BY <1>1 DEF Feed, Deliver
<1>3. /\ worker[w] = "receive" /\ worker' = [worker EXCEPT ![w] = "item"]
      /\ item' = [item EXCEPT ![w] = x]
      /\ outcome' = [outcome EXCEPT ![x] = "taken"]
      /\ feeder[PoolOf[w]] = "feeding"
      /\ queue' = [queue EXCEPT ![PoolOf[w]] = @ \ {x}]
  BY <1>1 DEF Deliver
<1>4. pc \in Working
  BY <1>2, <1>3, WorkingWhileRunning DEF Running
<1>5. TypeOK'
  BY <1>2, <1>3, PoolAssumption DEF TypeOK, PoolTypeOK, JmxTypeOK, Outcomes, jmxVars, mainVars
<1>6. Running' = Running
  BY <1>3 DEF Running, TypeOK, PoolTypeOK
<1>7. PoolsFollowMain' /\ BrokersFound' /\ WgCounts'
  BY <1>2, <1>3, <1>6, PoolAssumption
     DEF PoolsFollowMain, WorkersStarted, FeederStarted, BrokersFound, WgCounts, mainVars,
         TypeOK, PoolTypeOK
<1>8. GoneIsClosed' /\ ClosedIsEmpty'
  BY <1>2, <1>3, PoolAssumption DEF GoneIsClosed, ClosedIsEmpty, TypeOK, PoolTypeOK
<1>9. PendingIsQueued'
  BY <1>2, <1>3, PoolAssumption DEF PendingIsQueued, Fed, mainVars, TypeOK, PoolTypeOK
<1>10. TakenIsHeld'
  BY <1>3 DEF TakenIsHeld, TypeOK, PoolTypeOK
<1>11. NothingTakenEarly'
  BY <1>2, <1>3, NobodyRunsEarly DEF NothingTakenEarly, Running, mainVars
<1>12. ConnOwners'
  BY <1>2, <1>3 DEF ConnOwners, NeedsJmx, jmxVars, mainVars, TypeOK, PoolTypeOK
<1>13. PublishAfterAllWork'
  BY <1>2, <1>4 DEF PublishAfterAllWork, mainVars, Working, Early, AfterPools
<1> QED
  BY <1>5, <1>7, <1>8, <1>9, <1>10, <1>11, <1>12, <1>13

\* A feeder that has sent everything closes its channel.
LEMMA CloseFeedInv ==
  ASSUME CoreInv, NEW p \in Pools, CloseFeed(p)
  PROVE  ProgramInv'
<1> USE DEF CoreInv, ProgramInv
<1>1. /\ UNCHANGED <<jmxVars, mainVars, queue, worker, item, outcome, wg>>
      /\ feeder[p] = "feeding" /\ queue[p] = {}
      /\ feeder' = [feeder EXCEPT ![p] = "closed"]
  BY DEF CloseFeed, CloseChannel
<1>2. TypeOK'
  BY <1>1 DEF TypeOK, PoolTypeOK, JmxTypeOK, jmxVars, mainVars
<1>3. PoolsFollowMain' /\ BrokersFound' /\ WgCounts'
  BY <1>1 DEF PoolsFollowMain, WorkersStarted, FeederStarted, BrokersFound, WgCounts, Running,
              mainVars, TypeOK, PoolTypeOK
<1>4. GoneIsClosed' /\ ClosedIsEmpty'
  BY <1>1, PoolAssumption DEF GoneIsClosed, ClosedIsEmpty, TypeOK, PoolTypeOK
<1>5. PendingIsQueued' /\ TakenIsHeld' /\ NothingTakenEarly'
  BY <1>1 DEF PendingIsQueued, Fed, TakenIsHeld, NothingTakenEarly, mainVars, TypeOK, PoolTypeOK
<1>6. ConnOwners' /\ PublishAfterAllWork'
  BY <1>1 DEF ConnOwners, NeedsJmx, PublishAfterAllWork, Running, Wanted, jmxVars, mainVars
<1> QED
  BY <1>2, <1>3, <1>4, <1>5, <1>6

\* A worker leaves the wait group once its channel is closed.
LEMMA ReturnInv ==
  ASSUME CoreInv, NEW w \in Workers, Return(w)
  PROVE  ProgramInv'
<1> USE DEF CoreInv, ProgramInv
<1>1. /\ UNCHANGED <<jmxVars, mainVars, queue, feeder, item, outcome>> /\ Alive
      /\ worker[w] = "receive" /\ feeder[PoolOf[w]] = "closed"
      /\ worker' = [worker EXCEPT ![w] = "gone"] /\ wg' = wg - 1
  BY DEF Return, WorkerReturns
<1>2. pc \in Working
  BY <1>1, WorkingWhileRunning DEF Running
<1>3. WgCounts' /\ wg' \in Nat
  <2>1. Running' = Running \ {w} /\ w \in Running
    BY <1>1 DEF Running, TypeOK, PoolTypeOK
  <2>2. IsFiniteSet(Running \ {w}) /\ Cardinality(Running \ {w}) = Cardinality(Running) - 1
    BY <2>1, RunningFinite, HolderLeaves
  <2> QED
    BY <1>1, <2>1, <2>2, FS_CardinalityType DEF WgCounts
<1>4. TypeOK'
  BY <1>1, <1>3 DEF TypeOK, PoolTypeOK, JmxTypeOK, jmxVars, mainVars
<1>5. PoolsFollowMain' /\ BrokersFound'
  BY <1>1 DEF PoolsFollowMain, WorkersStarted, FeederStarted, BrokersFound, mainVars,
              TypeOK, PoolTypeOK
<1>6. GoneIsClosed' /\ ClosedIsEmpty' /\ TakenIsHeld'
  BY <1>1 DEF GoneIsClosed, ClosedIsEmpty, TakenIsHeld, TypeOK, PoolTypeOK
<1>7. PendingIsQueued' /\ NothingTakenEarly'
  BY <1>1 DEF PendingIsQueued, Fed, NothingTakenEarly, mainVars
<1>8. ConnOwners'
  BY <1>1 DEF ConnOwners, NeedsJmx, jmxVars, mainVars, TypeOK, PoolTypeOK
<1>9. PublishAfterAllWork'
  BY <1>1, <1>2 DEF PublishAfterAllWork, mainVars, Working, Early, AfterPools
<1> QED
  BY <1>3, <1>4, <1>5, <1>6, <1>7, <1>8, <1>9

\* A worker is done with its item and holds no connection.
LEMMA HandleItemInv ==
  ASSUME CoreInv, JmxInv', NEW w \in Workers, NEW result \in {"collected", "failed"},
         HandleItem(w, result), Alive, UNCHANGED mainVars,
         conn'[w] = "none",
         \A d \in Callers : conn'[d] # "none" => conn[d] # "none"
  PROVE  ProgramInv'
<1> USE DEF CoreInv, ProgramInv
<1>1. /\ UNCHANGED <<queue, feeder, wg>>
      /\ worker[w] = "item" /\ worker' = [worker EXCEPT ![w] = "receive"]
      /\ outcome' = [outcome EXCEPT ![item[w]] = result]
      /\ item' = [item EXCEPT ![w] = NoItem]
  BY DEF HandleItem
<1>2. pc \in Working
  BY <1>1, WorkingWhileRunning DEF Running
<1>3. TypeOK'
  BY <1>1 DEF TypeOK, PoolTypeOK, JmxInv, Outcomes, mainVars
<1>4. WgCounts'
  <2>1. Running' = Running
    BY <1>1 DEF Running, TypeOK, PoolTypeOK
  <2> QED
    BY <1>1, <2>1 DEF WgCounts
<1>5. PoolsFollowMain' /\ BrokersFound'
  BY <1>1 DEF PoolsFollowMain, WorkersStarted, FeederStarted, BrokersFound, mainVars,
              TypeOK, PoolTypeOK
<1>6. GoneIsClosed' /\ ClosedIsEmpty'
  BY <1>1 DEF GoneIsClosed, ClosedIsEmpty, TypeOK, PoolTypeOK
<1>7. TakenIsHeld'
  BY <1>1 DEF TakenIsHeld, TypeOK, PoolTypeOK
<1>8. PendingIsQueued'
  BY <1>1 DEF PendingIsQueued, Fed, mainVars, TypeOK, PoolTypeOK
<1>9. NothingTakenEarly'
  BY <1>1, NobodyRunsEarly DEF NothingTakenEarly, Running, mainVars
<1>10. ConnOwners'
  BY <1>1, MainIsCaller DEF ConnOwners, NeedsJmx, mainVars, TypeOK, PoolTypeOK
<1>11. PublishAfterAllWork'
  BY <1>2 DEF PublishAfterAllWork, mainVars, Working, Early, AfterPools
<1> QED
  BY <1>3, <1>4, <1>5, <1>6, <1>7, <1>8, <1>9, <1>10, <1>11

\* A worker with an item asks for its connection and gets it.
LEMMA WorkerConnectsInv ==
  ASSUME CoreInv, JmxInv', NEW w \in Workers, Connect(w) \/ ConnectionOpened(w)
  PROVE  ProgramInv'
<1> USE DEF CoreInv, ProgramInv
<1>1. UNCHANGED <<poolVars, mainVars>>
  BY DEF Connect, ConnectionOpened
<1>2. /\ \A d \in Callers \ {w} : conn'[d] # "none" <=> conn[d] # "none"
      /\ conn'[w] # "none" => worker[w] = "item" /\ NeedsJmx(w)
  <2>1. CASE Connect(w)
    BY <2>1, MainIsCaller, AcquireConn DEF Connect, JmxInv
  <2>2. CASE ConnectionOpened(w)
    BY <2>2, MainIsCaller, OpenedConn DEF ConnectionOpened, JmxInv, ConnOwners
  <2> QED
    BY <2>1, <2>2
<1>3. TypeOK'
  BY <1>1 DEF TypeOK, PoolTypeOK, JmxInv, poolVars, mainVars
<1>4. PoolsFollowMain' /\ BrokersFound' /\ WgCounts' /\ GoneIsClosed' /\ ClosedIsEmpty'
  BY <1>1 DEF PoolsFollowMain, WorkersStarted, FeederStarted, BrokersFound, WgCounts, Running,
              GoneIsClosed, ClosedIsEmpty, poolVars, mainVars
<1>5. PendingIsQueued' /\ TakenIsHeld' /\ NothingTakenEarly' /\ PublishAfterAllWork'
  BY <1>1 DEF PendingIsQueued, Fed, TakenIsHeld, NothingTakenEarly, PublishAfterAllWork, Wanted,
              Running, poolVars, mainVars
<1>6. ConnOwners'
  BY <1>1, <1>2, MainIsCaller DEF ConnOwners, NeedsJmx, poolVars, mainVars
<1> QED
  BY <1>3, <1>4, <1>5, <1>6

\* Every step of a worker.
LEMMA WorkerStepInv ==
  ASSUME CoreInv, JmxInv', NEW w \in Workers, WorkerStep(w)
  PROVE  ProgramInv'
<1>1. CASE Feed(w) \/ Return(w)
  BY <1>1, FeedInv, ReturnInv
<1>2. CASE CollectWithoutJmx(w)
  <2>1. conn[w] = "none" /\ UNCHANGED conn
    BY <1>2 DEF CollectWithoutJmx, CoreInv, ProgramInv, ConnOwners, jmxVars
  <2> QED
    BY <1>2, <2>1, HandleItemInv DEF CollectWithoutJmx
<1>3. CASE ConnectionFails(w) \/ Collect(w)
  <2>1. \A d \in Callers : conn'[d] # "none" <=> conn[d] # "none" /\ d # w
    BY <1>3, MainIsCaller, ReleaseConn DEF ConnectionFails, Collect, CoreInv
  <2> QED
    BY <1>3, <2>1, MainIsCaller, HandleItemInv DEF ConnectionFails, Collect
<1>4. CASE Connect(w) \/ ConnectionOpened(w)
  BY <1>4, WorkerConnectsInv
<1>5. CASE TopicPanics(w) \/ CollectExits(w)
  <2>1. UNCHANGED <<poolVars, jmxVars, config, topics, zkNil, todo>>
    BY <1>5 DEF TopicPanics, CollectExits
  <2> QED
    BY <1>5, <2>1, EndInv
<1> QED
  BY <1>1, <1>2, <1>3, <1>4, <1>5 DEF WorkerStep

\* Every step of the main goroutine.
LEMMA MainStepInv ==
  ASSUME CoreInv, JmxInv', MainStep
  PROVE  ProgramInv'
<1>1. CASE ClientsOnly \/ FindBrokers \/ FindBrokersFails \/ ProbeJmx \/ ProbeJmxFails
           \/ ListTopics \/ ListTopicsNoZk
  BY <1>1, EarlyMoveInv
<1>2. CASE StartBrokerAndTopicPools \/ FeedBrokers \/ StartClientPools \/ WaitForWorkers
  BY <1>2, StartBrokerAndTopicPoolsInv, FeedBrokersInv, StartClientPoolsInv, WaitForWorkersInv
<1>3. CASE MainConnects \/ MainOpened \/ CountController \/ CollectCluster
  BY <1>3, MainConnectionInv
<1>4. CASE CollectClusterExits \/ Publish
  <2>1. UNCHANGED <<poolVars, jmxVars, config, topics, zkNil, todo>>
    BY <1>4 DEF CollectClusterExits, Publish
  <2> QED
    BY <1>4, <2>1, EndInv
<1> QED
  BY <1>1, <1>2, <1>3, <1>4 DEF MainStep

\* Every step of the program preserves the invariant.
LEMMA CoreStepInv ==
  ASSUME CoreInv, [Next]_vars
  PROVE  CoreInv'
<1>1. JmxInv'
  BY StepIsJmxStep, JmxStepInv, JmxStutterInv DEF CoreInv
<1>2. CASE MainStep
  BY <1>1, <1>2, MainStepInv DEF CoreInv
<1>3. ASSUME NEW w \in Workers, WorkerStep(w)
      PROVE  CoreInv'
  BY <1>1, <1>3, WorkerStepInv DEF CoreInv
<1>4. ASSUME NEW p \in Pools, CloseFeed(p)
      PROVE  CoreInv'
  BY <1>1, <1>4, CloseFeedInv DEF CoreInv
<1>5. CASE UNCHANGED vars
  BY <1>1, <1>5
     DEF CoreInv, ProgramInv, TypeOK, PoolTypeOK, JmxTypeOK, PoolsFollowMain, WorkersStarted,
         FeederStarted, BrokersFound, WgCounts, Running, GoneIsClosed, ClosedIsEmpty,
         PendingIsQueued, Fed, TakenIsHeld, NothingTakenEarly, ConnOwners, NeedsJmx,
         PublishAfterAllWork, Wanted, vars, poolVars, jmxVars, mainVars
<1> QED
  BY <1>2, <1>3, <1>4, <1>5 DEF Next, Rest

-----------------------------------------------------------------------------
\* The inductive invariant of the whole program (kafka.go and its pools).
THEOREM CoreInvariant == Spec => []CoreInv
<1>1. Init => CoreInv
  BY CoreInitInv
<1>2. CoreInv /\ [Next]_vars => CoreInv'
  BY CoreStepInv
<1> QED
  BY <1>1, <1>2, PTL DEF Spec

\* The states of the program have the types the model gives them, the counter of
\* the wait group above all: it never gets below zero.
THEOREM CoreTypes == Spec => []TypeOK
<1>1. CoreInv => TypeOK
  BY DEF CoreInv, ProgramInv
<1> QED
  BY <1>1, CoreInvariant, PTL

\* The integration publishes only when everything that was asked for has been
\* handled and no worker runs, however the pools, the feeders and the failures
\* interleave (kafka.go:277).
THEOREM CorePublishes == Spec => []PublishAfterAllWork
<1>1. CoreInv => PublishAfterAllWork
  BY DEF CoreInv, ProgramInv
<1> QED
  BY <1>1, CoreInvariant, PTL

-----------------------------------------------------------------------------
(* The way of an item through its pool.                                     *)

\* A feeder hands an item over only while it is pending, and only to one worker.
LEMMA DeliverHands ==
  ASSUME CoreInv, HandInv, NEW w \in Workers, NEW x \in Items, Deliver(w, x)
  PROVE  HandInv' /\ outcome[x] = "pending"
<1> USE DEF CoreInv, ProgramInv, TypeOK, PoolTypeOK
<1>1. /\ x \in queue[PoolOf[w]] /\ PoolOf[w] \in Pools
      /\ \A v \in Workers : v # w => worker'[v] = worker[v] /\ item'[v] = item[v]
      /\ item'[w] = x
      /\ outcome'[x] = "taken" /\ \A y \in Items : y # x => outcome'[y] = outcome[y]
      /\ queue'[PoolOf[w]] = queue[PoolOf[w]] \ {x}
      /\ \A p \in Pools : p # PoolOf[w] => queue'[p] = queue[p]
      /\ feeder' = feeder /\ feeder[PoolOf[w]] = "feeding"
  BY PoolAssumption DEF Deliver
<1>2. outcome[x] = "pending" /\ x \in ItemsOf(PoolOf[w])
  BY <1>1 DEF HandInv, QueuedIsPending
<1>3. \A p \in Pools : p # PoolOf[w] => x \notin ItemsOf(p)
  BY <1>1, <1>2, ItemsAssumption
<1>4. \A p \in Pools : ItemsOf(p) \subseteq Items
  BY CoreAssumption DEF ItemsOf, PoolNames
<1>5. QueuedIsPending'
  BY <1>1, <1>3, <1>4 DEF HandInv, QueuedIsPending
<1>6. UnfedIsPending'
  BY <1>1, <1>3, <1>4 DEF HandInv, UnfedIsPending
<1>7. HeldIsTaken' /\ HeldByOne'
  BY <1>1, <1>2 DEF HandInv, HeldIsTaken, HeldByOne
<1> QED
  BY <1>2, <1>5, <1>6, <1>7 DEF HandInv

\* A worker ends with its item only while the item is taken, and it is not taken
\* by anyone else.
LEMMA HandleHands ==
  ASSUME CoreInv, HandInv, NEW w \in Workers, NEW result \in {"collected", "failed"},
         HandleItem(w, result)
  PROVE  HandInv' /\ item[w] \in Items /\ outcome[item[w]] = "taken"
<1> USE DEF CoreInv, ProgramInv, TypeOK, PoolTypeOK
<1>1. item[w] \in Items /\ outcome[item[w]] = "taken"
  BY DEF HandleItem, HandInv, HeldIsTaken
<1>2. /\ \A v \in Workers : v # w => worker'[v] = worker[v] /\ item'[v] = item[v]
      /\ worker[w] = "item" /\ worker'[w] = "receive"
      /\ \A y \in Items : y # item[w] => outcome'[y] = outcome[y]
      /\ UNCHANGED <<queue, feeder>>
  BY <1>1 DEF HandleItem
<1>3. \A p \in Pools : ItemsOf(p) \subseteq Items
  BY CoreAssumption DEF ItemsOf, PoolNames
<1>4. QueuedIsPending' /\ UnfedIsPending'
  BY <1>1, <1>2, <1>3 DEF HandInv, QueuedIsPending, UnfedIsPending
<1>5. HeldIsTaken' /\ HeldByOne'
  BY <1>2 DEF HandInv, HeldIsTaken, HeldByOne
<1> QED
  BY <1>1, <1>4, <1>5 DEF HandInv

\* A feeder that starts has the items of its pool, all of them still pending; no
\* other item, and no worker with one, is touched.
LEMMA StartHands ==
  ASSUME CoreInv, HandInv, NEW ps \in SUBSET Pools, NEW items,
         StartFeeders(ps, items), UNCHANGED <<item, outcome>>,
         \A p \in ps : items[p] \subseteq ItemsOf(p) /\ feeder[p] = "off",
         \A w \in Workers : worker'[w] = "item" => worker[w] = "item"
  PROVE  HandInv'
<1>1. /\ \A p \in ps : queue'[p] = items[p] /\ feeder'[p] = "feeding"
      /\ \A p \in Pools \ ps : queue'[p] = queue[p] /\ feeder'[p] = feeder[p]
  BY DEF StartFeeders
<1>2. QueuedIsPending' /\ UnfedIsPending'
  BY <1>1 DEF HandInv, QueuedIsPending, UnfedIsPending
<1>3. HeldIsTaken' /\ HeldByOne'
  BY DEF HandInv, HeldIsTaken, HeldByOne
<1> QED
  BY <1>2, <1>3 DEF HandInv

\* Every step of the program keeps track of its items and moves an item on by one
\* place at most.
MovesOn ==
    \A x \in Items :
        outcome'[x] # outcome[x] =>
            \/ outcome[x] = "pending" /\ outcome'[x] = "taken"
            \/ outcome[x] = "taken" /\ outcome'[x] \in {"collected", "failed"}

\* Every step of the program keeps track of its items and moves none on by more than a place.
LEMMA HandNext ==
  ASSUME CoreInv, HandInv, [Next]_vars
  PROVE  HandInv' /\ MovesOn
<1> USE DEF MovesOn
<1>1. ASSUME NEW w \in Workers, NEW x \in Items, Deliver(w, x)
      PROVE  HandInv' /\ MovesOn
  BY <1>1, DeliverHands DEF Deliver, CoreInv, ProgramInv, TypeOK, PoolTypeOK
<1>2. ASSUME NEW w \in Workers, NEW result \in {"collected", "failed"}, HandleItem(w, result)
      PROVE  HandInv' /\ MovesOn
  BY <1>2, HandleHands DEF HandleItem, CoreInv, ProgramInv, TypeOK, PoolTypeOK
<1>3. ASSUME UNCHANGED <<queue, item, outcome>>,
             \A p \in Pools : feeder'[p] = "off" => feeder[p] = "off",
             \A w \in Workers : worker'[w] = "item" => worker[w] = "item"
      PROVE  HandInv' /\ MovesOn
  BY <1>3 DEF HandInv, QueuedIsPending, UnfedIsPending, HeldIsTaken, HeldByOne
<1>4. CASE StartBrokerAndTopicPools
  <2>1. feeder["topic"] = "off" /\ topics \subseteq TopicNames /\ "topic" \in Pools
    BY <1>4, CoreAssumption
       DEF StartBrokerAndTopicPools, CoreInv, ProgramInv, PoolsFollowMain, FeederStarted,
           WorkersStarted, Working, Early, AfterPools, PoolNames, TypeOK
  <2>2. (IF config.topicPool THEN {"topic"} ELSE {}) \in SUBSET Pools
    BY <2>1
  <2>3. \A p \in (IF config.topicPool THEN {"topic"} ELSE {}) :
           [q \in Pools |-> topics][p] \subseteq ItemsOf(p) /\ feeder[p] = "off"
    BY <2>1 DEF ItemsOf
  <2>4. \A w \in Workers : worker'[w] = "item" => worker[w] = "item"
    BY <1>4 DEF StartBrokerAndTopicPools, StartPools
  <2> QED
    BY <1>4, <2>2, <2>3, <2>4, StartHands DEF StartBrokerAndTopicPools
<1>5. CASE FeedBrokers
  <2>1. feeder["broker"] = "off" /\ "broker" \in Pools
    BY <1>5, CoreAssumption
       DEF FeedBrokers, CoreInv, ProgramInv, PoolsFollowMain, FeederStarted,
           Working, Early, AfterPools, PoolNames
  <2>2. \A p \in {"broker"} : [q \in Pools |-> Brokers][p] \subseteq ItemsOf(p) /\ feeder[p] = "off"
    BY <2>1 DEF ItemsOf
  <2> QED
    BY <1>5, <2>1, <2>2, StartHands DEF FeedBrokers
<1>6. CASE StartClientPools
  <2>1. \A p \in {"consumer", "producer"} : feeder[p] = "off" /\ p \in Pools
    BY <1>6, CoreAssumption
       DEF StartClientPools, CoreInv, ProgramInv, PoolsFollowMain, FeederStarted,
           WorkersStarted, Working, Early, AfterPools, PoolNames
  <2>2. \A p \in {"consumer", "producer"} :
           [q \in Pools |-> IF q = "consumer" THEN Consumers ELSE Producers][p] \subseteq ItemsOf(p)
    BY <2>1 DEF ItemsOf
  <2>3. \A w \in Workers : worker'[w] = "item" => worker[w] = "item"
    BY <1>6 DEF StartClientPools, StartPools
  <2> QED
    BY <1>6, <2>1, <2>2, <2>3, StartHands DEF StartClientPools
<1>7. CASE \/ ClientsOnly \/ FindBrokers \/ FindBrokersFails \/ ProbeJmx \/ ProbeJmxFails
           \/ ListTopics \/ ListTopicsNoZk \/ MainConnects \/ MainOpened \/ CountController
           \/ CollectCluster \/ CollectClusterExits \/ WaitForWorkers \/ Publish
  <2>1. UNCHANGED poolVars
    BY <1>7 DEF ClientsOnly, FindBrokers, FindBrokersFails, ProbeJmx, ProbeJmxFails, ListTopics,
        ListTopicsNoZk, MainConnects, MainOpened, CountController, CollectCluster,
        CollectClusterExits, WaitForWorkers, Publish
  <2> QED
    BY <1>3, <2>1 DEF poolVars
<1>8. ASSUME NEW w \in Workers, WorkerStep(w)
      PROVE  HandInv' /\ MovesOn
  <2>1. CASE Feed(w)
    BY <1>1, <2>1 DEF Feed
  <2>2. CASE Return(w)
    <3>1. \A v \in Workers : worker'[v] = "item" => worker[v] = "item"
      BY <2>2 DEF Return, WorkerReturns, CoreInv, ProgramInv, TypeOK, PoolTypeOK
    <3> QED
      BY <1>3, <2>2, <3>1 DEF Return, WorkerReturns
  <2>3. CASE CollectWithoutJmx(w) \/ ConnectionFails(w) \/ Collect(w)
    BY <1>2, <2>3 DEF CollectWithoutJmx, ConnectionFails, Collect
  <2>4. CASE TopicPanics(w) \/ Connect(w) \/ ConnectionOpened(w) \/ CollectExits(w)
    BY <1>3, <2>4 DEF TopicPanics, Connect, ConnectionOpened, CollectExits, poolVars
  <2> QED
    BY <1>8, <2>1, <2>2, <2>3, <2>4 DEF WorkerStep
<1>9. ASSUME NEW p \in Pools, CloseFeed(p)
      PROVE  HandInv' /\ MovesOn
  BY <1>3, <1>9 DEF CloseFeed, CloseChannel, CoreInv, ProgramInv, TypeOK, PoolTypeOK
<1>10. CASE UNCHANGED vars
  BY <1>3, <1>10 DEF vars, poolVars
<1>11. CASE MainStep
  BY <1>4, <1>5, <1>6, <1>7, <1>11 DEF MainStep
<1> QED
  BY <1>8, <1>9, <1>10, <1>11 DEF Next, Rest

\* Of every pool: an item goes to one worker, that worker ends with it, and nobody
\* has it again.
THEOREM CoreHandsOutOnce == Spec => HandledOnce
<1>1. Init => HandInv
  <2>1. \A p \in Pools : ItemsOf(p) \subseteq Items
    BY CoreAssumption DEF ItemsOf, PoolNames
  <2> QED
    BY <2>1 DEF Init, PoolInit, HandInv, QueuedIsPending, UnfedIsPending, HeldIsTaken, HeldByOne
<1>2. CoreInv /\ HandInv /\ [Next]_vars => HandInv' /\ [MovesOn]_vars
  BY HandNext
<1> QED
  BY <1>1, <1>2, CoreInvariant, PTL DEF Spec, HandledOnce, MovesOn

\* Every unit of the semaphore that is taken is held by one caller: no worker, nor
\* main, leaks one or gives it back twice, whatever fails (jmx.go:43-90).
THEOREM CoreUnitsHeld == Spec => []UnitsHeld
<1>1. CoreInv => UnitsHeld
  BY DEF CoreInv, JmxInv
<1> QED
  BY <1>1, CoreInvariant, PTL

\* No JMX connection is left when the integration publishes, and the main
\* goroutine holds none while it waits for workers that need them.
THEOREM CoreLeavesNoConnection == Spec => []NoConnectionLeft
<1>1. ASSUME CoreInv, pc \in {"publish", "published"}
      PROVE  cur = 0 /\ waiters = <<>>
  <2>1. \A c \in Callers : conn[c] = "none"
    BY <1>1, CoreAssumption DEF CoreInv, ProgramInv, ConnOwners, PublishAfterAllWork, Running
  <2>2. cur = 0
    <3>1. Holders = {}
      BY <2>1 DEF Holders
    <3> QED
      BY <1>1, <3>1, FS_EmptySet DEF CoreInv, JmxInv, UnitsHeld
  <2>3. waiters = <<>>
    <3>1. waiters \in Seq(Callers)
      BY <1>1 DEF CoreInv, JmxInv, JmxTypeOK
    <3>2. ASSUME waiters # <<>>
          PROVE  FALSE
      <4>1. Len(waiters) \in Nat \ {0} /\ waiters[1] \in Callers
        BY <3>1, <3>2
      <4>2. conn[waiters[1]] = "waiting"
        BY <1>1, <4>1 DEF CoreInv, JmxInv, QueueIsTheBlocked
      <4> QED
        BY <2>1, <4>1, <4>2
    <3> QED
      BY <3>2
  <2> QED
    BY <2>2, <2>3
<1>2. CoreInv => NoConnectionLeft
  BY <1>1 DEF CoreInv, ProgramInv, ConnOwners, NoConnectionLeft
<1> QED
  BY <1>2, CoreInvariant, PTL
=============================================================================
