------------------------ MODULE ControllerChoiceProofs ------------------------
(***************************************************************************)
(* Proofs about BrokerDiscovery and ControllerChoice, for every set of      *)
(* brokers, every list of endpoints, all arguments and every number of      *)
(* elections.                                                               *)
(*                                                                          *)
(* The discovery: what is still to be connected to and what was found are   *)
(* disjoint lists without repetitions (ListsInv), and nothing was tried on  *)
(* a broker whose turn has not come (TurnsInv).  With that, a bootstrap     *)
(* discovery accounts for the whole answer (BootstrapInv) and a Zookeeper   *)
(* discovery for every endpoint it passed over (ZookeeperInv).              *)
(*                                                                          *)
(* The count: what was added up is over the brokers asked so far (AskedInv) *)
(* and the brokers that ever took themselves for the controller are at most *)
(* one more than the elections (ElectedInv).                                *)
(***************************************************************************)
EXTENDS ControllerChoice, FiniteSetTheorems, SequenceTheorems, TLAPS

Found == [id : Brokers, endpoint : Nat]
FoundIds == [k \in DOMAIN found |-> found[k].id]

\* The lists of the discovery and where it stands.
ListsInv ==
    /\ todo \in Seq(Brokers) /\ found \in Seq(Found)
    /\ dialed \subseteq Brokers \X Nat
    /\ pc = "brokers" => next = 1
    /\ pc \in {"brokers", "endpoints"} => arguments.strategy \in {"bootstrap", "zookeeper"}
    /\ pc = "endpoints" => arguments.strategy = "zookeeper" /\ todo # <<>>
    /\ pc \in {"start", "list"} =>
          /\ listed = {} /\ todo = <<>> /\ next = 1 /\ found = <<>>
          /\ dialed = {} /\ refused = {} /\ unread = {}

\* Nothing was tried on a broker whose turn has not come, and of the one whose
\* turn it is only the endpoints before the next.
TurnsInv ==
    pc \notin {"ok", "error"} =>
        \A a \in dialed :
            a[1] \in Range(todo) => pc = "endpoints" /\ a[1] = Current /\ a[2] < next

\* In a bootstrap discovery of all brokers each broker of the answer was added or
\* is still to be; in a local-only one nothing is added before the match.
BootstrapInv ==
    arguments.strategy = "bootstrap" =>
        IF arguments.localOnly
        THEN /\ dialed = {}
             /\ found # <<>> => pc = "ok"
             /\ pc = "ok" => Ids = {arguments.bootstrap}
        ELSE /\ listed = Ids \cup Range(todo)
             /\ refused # {} => pc = "error"
             /\ pc = "ok" => todo = <<>>

\* The endpoints before the next were refused, if they are usable at all.
ZookeeperInv ==
    /\ FirstThatWorks
    /\ pc = "endpoints" => RefusedBefore(Current, next)

DiscoveryInv ==
    DiscoveryTypeOK /\ ListsInv /\ TurnsInv /\ BootstrapInv /\ ZookeeperInv /\ SessionClosed

\* Brokers that ever took themselves for the controller.
ElectedInv ==
    /\ kraft \in BOOLEAN
    /\ active \subseteq everActive /\ steady \subseteq active /\ everActive \subseteq Brokers
    /\ elections \in 0 .. MaxElections
    /\ IsFiniteSet(everActive) /\ Cardinality(everActive) <= 1 + elections

AskedIds == {found[k].id : k \in 1 .. asked}

\* What was counted is over the brokers asked, each of them once; whoever was the
\* controller all along was counted when it was asked, unless it did not answer.
AskedInv ==
    /\ asked \in 0 .. Len(found)
    /\ pc # "ok" => asked = 0
    /\ counted \subseteq AskedIds /\ unanswered \subseteq AskedIds
    /\ activeCount = Cardinality(counted)
    /\ counted \subseteq everActive
    /\ steady \cap AskedIds \subseteq counted \cup unanswered

\* The controller is chosen when all were asked, and the sample is made of it.
ChosenInv ==
    /\ phase \in {"count", "collect", "done", "exited"}
    /\ pc # "ok" => phase = "count"
    /\ phase = "count" => controller = NoBroker /\ chosen = NoBroker
    /\ phase # "count" => asked = Len(found)
    /\ controller \in Named \cup {NoBroker}
    /\ chosen \in Ids \cup {NoBroker}
    /\ phase # "count" /\ controller \in Ids => chosen = controller \/ found = <<>>
    /\ sample \in {<<>>} \cup {<<[broker |-> chosen, count |-> activeCount]>>}
    /\ phase # "done" => sample = <<>>

ChoiceInv == DiscoveryInv /\ ElectedInv /\ AskedInv /\ ChosenInv

-----------------------------------------------------------------------------
(* Sequences without repetitions.                                           *)

\* The tail of such a sequence has all its members but the head.
LEMMA TailOfInjective ==
    ASSUME NEW S, NEW s \in Seq(S), s # <<>>, IsInjective(s)
    PROVE  /\ Tail(s) \in Seq(S) /\ IsInjective(Tail(s))
           /\ Head(s) \in S /\ Head(s) \in Range(s)
           /\ Range(Tail(s)) = Range(s) \ {Head(s)}
<1>1. /\ Head(s) = s[1] /\ Head(s) \in S /\ Tail(s) \in Seq(S)
      /\ Len(s) \in Nat \ {0} /\ Len(Tail(s)) = Len(s) - 1
      /\ \A i \in 1 .. Len(Tail(s)) : Tail(s)[i] = s[i + 1]
    BY HeadTailProperties, EmptySeq
<1>2. DOMAIN s = 1 .. Len(s) /\ DOMAIN Tail(s) = 1 .. Len(s) - 1
    BY <1>1
<1>3. \A i \in DOMAIN Tail(s) : i + 1 \in DOMAIN s /\ i + 1 # 1 /\ Tail(s)[i] = s[i + 1]
    BY <1>1, <1>2
<1>4. \A i, j \in DOMAIN s : s[i] = s[j] => i = j
    BY DEF IsInjective
<1>5. IsInjective(Tail(s))
  <2> SUFFICES ASSUME NEW i \in DOMAIN Tail(s), NEW j \in DOMAIN Tail(s), Tail(s)[i] = Tail(s)[j]
               PROVE  i = j
      BY DEF IsInjective
  <2>1. i + 1 = j + 1
      BY <1>3, <1>4
  <2> QED
      BY <1>2, <2>1
<1>6. 1 \in DOMAIN s
    BY <1>1, <1>2
<1>7. Range(Tail(s)) \subseteq Range(s) \ {Head(s)}
  <2> SUFFICES ASSUME NEW i \in DOMAIN Tail(s) PROVE Tail(s)[i] \in Range(s) \ {Head(s)}
      BY DEF Range
  <2>1. Tail(s)[i] = s[i + 1] /\ s[i + 1] # s[1] /\ i + 1 \in DOMAIN s
      BY <1>3, <1>4, <1>6
  <2> QED
      BY <1>1, <2>1 DEF Range
<1>8. Range(s) \ {Head(s)} \subseteq Range(Tail(s))
  <2> SUFFICES ASSUME NEW i \in DOMAIN s, s[i] # s[1] PROVE s[i] \in Range(Tail(s))
      BY <1>1 DEF Range
  <2>1. i # 1
      OBVIOUS
  <2>2. i - 1 \in DOMAIN Tail(s) /\ (i - 1) + 1 = i
      BY <1>1, <1>2, <2>1
  <2>3. Tail(s)[i - 1] = s[i]
      BY <1>3, <2>2
  <2> QED
      BY <2>2, <2>3 DEF Range
<1> QED
    BY <1>1, <1>5, <1>6, <1>7, <1>8 DEF Range

\* A listing of a finite set holds each member once.
LEMMA ListingOfSet ==
    ASSUME NEW S, S \subseteq Brokers, NEW s \in SetToSeqs(S)
    PROVE  s \in Seq(Brokers) /\ IsInjective(s) /\ Range(s) = S
<1>1. IsFiniteSet(S) /\ Cardinality(S) \in Nat
    BY DiscoveryAssumption, FS_Subset, FS_CardinalityType
<1>2. s \in [1 .. Cardinality(S) -> S] /\ \A i, j \in 1 .. Cardinality(S) : i # j => s[i] # s[j]
    BY DEF SetToSeqs
<1>3. s \in Seq(Brokers)
    BY <1>1, <1>2
<1>4. IsInjective(s)
    BY <1>2 DEF IsInjective
<1>5. s \in Injection(1 .. Cardinality(S), S)
    BY <1>2, <1>4 DEF Injection
<1>6. Cardinality(1 .. Cardinality(S)) = Cardinality(S)
  <2>1. 1 \in Int /\ Cardinality(S) \in Int
      BY <1>1
  <2> QED
      BY <1>1, <2>1, FS_Interval
<1>7. s \in Surjection(1 .. Cardinality(S), S)
    BY <1>1, <1>5, <1>6, FS_Injection
<1>8. Range(s) = S
    BY <1>2, <1>7 DEF Range, Surjection
<1> QED
    BY <1>3, <1>4, <1>8

-----------------------------------------------------------------------------
(* What the steps of the discovery have in common.                          *)

\* The broker whose turn it is.
LEMMA CurrentBroker ==
    ASSUME DiscoveryInv, todo # <<>>
    PROVE  /\ Current \in Brokers /\ Current \in listed
           /\ Current \in Range(todo) /\ Current \notin Ids
<1>1. Current \in Brokers /\ Current \in Range(todo)
    BY TailOfInjective DEF DiscoveryInv, DiscoveryTypeOK, ListsInv, Current
<1> QED
    BY <1>1 DEF DiscoveryInv, DiscoveryTypeOK

\* On to the next broker: the others are still to be connected to.
LEMMA Advance ==
    ASSUME DiscoveryInv, todo # <<>>, NextBroker
    PROVE  /\ todo' \in Seq(Brokers) /\ IsInjective(todo') /\ next' = 1
           /\ Range(todo') = Range(todo) \ {Current}
  BY TailOfInjective DEF DiscoveryInv, DiscoveryTypeOK, ListsInv, NextBroker, Current

\* Adding a broker that was not found yet.
LEMMA Added ==
    ASSUME DiscoveryInv, NEW b \in Brokers, NEW k \in Nat, b \notin Ids, Add(b, k)
    PROVE  /\ found' \in Seq(Found) /\ found' # <<>>
           /\ IsInjective(FoundIds)' /\ Ids' = Ids \cup {b}
           /\ \A i \in DOMAIN found' :
                 \/ i \in DOMAIN found /\ found'[i] = found[i]
                 \/ found'[i] = [id |-> b, endpoint |-> k]
<1> DEFINE f == [id |-> b, endpoint |-> k]
<1>1. f \in Found /\ f.id = b
    BY DEF Found
<1>2. found \in Seq(Found) /\ IsInjective(FoundIds) /\ found' = Append(found, f)
    BY DEF DiscoveryInv, DiscoveryTypeOK, ListsInv, FoundIds, Add
<1> HIDE DEF f
<1>3. /\ found' \in Seq(Found) /\ Len(found') = Len(found) + 1 /\ Len(found) \in Nat
      /\ \A i \in 1 .. Len(found) : found'[i] = found[i]
      /\ found'[Len(found) + 1] = f
    BY <1>1, <1>2, AppendProperties
<1>4. DOMAIN found = 1 .. Len(found) /\ DOMAIN found' = 1 .. Len(found) + 1
    BY <1>2, <1>3
<1>5. \A i \in DOMAIN found' :
        \/ i \in DOMAIN found /\ found'[i] = found[i]
        \/ i = Len(found) + 1 /\ found'[i] = f
    BY <1>3, <1>4
<1>6. /\ \A i \in DOMAIN found : i \in DOMAIN found' /\ found'[i] = found[i]
      /\ Len(found) + 1 \in DOMAIN found'
    BY <1>3, <1>4
<1>7. Ids' = Ids \cup {b}
  <2>1. Ids' = {found'[i].id : i \in DOMAIN found'}
      BY DEF Ids
  <2>2. ASSUME NEW i \in DOMAIN found' PROVE found'[i].id \in Ids \cup {b}
      BY <1>1, <1>5 DEF Ids
  <2>3. ASSUME NEW x \in Ids PROVE x \in Ids'
      BY <1>6 DEF Ids
  <2>4. b \in Ids'
      BY <1>1, <1>3, <1>6, <2>1
  <2> QED
      BY <2>1, <2>2, <2>3, <2>4
<1>8. IsInjective(FoundIds)'
  <2>1. FoundIds' = [i \in DOMAIN found' |-> found'[i].id]
      BY DEF FoundIds
  <2> SUFFICES ASSUME NEW i \in DOMAIN found', NEW j \in DOMAIN found', found'[i].id = found'[j].id
               PROVE  i = j
      BY <2>1 DEF IsInjective
  <2>2. \A m \in DOMAIN found : found[m].id # b
      BY DEF Ids
  <2>3. \A m, n \in DOMAIN found : found[m].id = found[n].id => m = n
      BY <1>2 DEF FoundIds, IsInjective
  <2>4. CASE i \in DOMAIN found /\ j \in DOMAIN found
      BY <1>6, <2>3, <2>4
  <2>5. CASE i \notin DOMAIN found /\ j \notin DOMAIN found
      BY <1>5, <2>5
  <2>6. CASE ~(i \in DOMAIN found <=> j \in DOMAIN found)
      BY <1>1, <1>5, <2>2, <2>6
  <2> QED
      BY <2>4, <2>5, <2>6
<1>9. found' # <<>>
    BY <1>3, EmptySeq
<1> QED
    BY <1>3, <1>5, <1>7, <1>8, <1>9 DEF f

\* The usable endpoints of b before its k-th are all in R: RefusedBefore(b, k)
\* with R for the endpoints that were refused.
Passed(b, k, R) == \A j \in 1 .. k - 1 : Usable(EndpointsOf[b][j]) => <<b, j>> \in R

\* What was refused stays refused.
LEMMA PassedKept ==
    ASSUME NEW b, NEW k, NEW R, NEW Q, R \subseteq Q, Passed(b, k, R)
    PROVE  Passed(b, k, Q)
  BY DEF Passed

\* FirstThatWorks in these terms.
LEMMA FirstThatWorksNow ==
    ASSUME FirstThatWorks, arguments.strategy = "zookeeper"
    PROVE  /\ \A k \in DOMAIN found :
                 /\ Usable(EndpointsOf[found[k].id][found[k].endpoint])
                 /\ <<found[k].id, found[k].endpoint>> \in dialed \ refused
                 /\ Passed(found[k].id, found[k].endpoint, refused)
           /\ \A b \in listed \ (Range(todo) \cup Ids \cup unread) :
                 Passed(b, Len(EndpointsOf[b]) + 1, refused)
  BY DEF FirstThatWorks, RefusedBefore, Passed

\* What makes it hold after a step.
LEMMA FirstThatWorksNext ==
    ASSUME arguments' = arguments,
           \A k \in DOMAIN found' :
                 /\ Usable(EndpointsOf[found'[k].id][found'[k].endpoint])
                 /\ <<found'[k].id, found'[k].endpoint>> \in dialed' \ refused'
                 /\ Passed(found'[k].id, found'[k].endpoint, refused'),
           \A b \in listed' \ (Range(todo') \cup Ids' \cup unread') :
                 Passed(b, Len(EndpointsOf[b]) + 1, refused')
    PROVE  FirstThatWorks'
  BY DEF FirstThatWorks, RefusedBefore, Passed, Usable

-----------------------------------------------------------------------------
(* Every step of the discovery keeps its invariant.                         *)

\* Before anything is asked for there is nothing.
LEMMA DiscoveryInitInv == DiscoveryInit => DiscoveryInv
<1> SUFFICES ASSUME DiscoveryInit PROVE DiscoveryInv
    OBVIOUS
<1> USE DEF DiscoveryInit
<1>1. /\ DOMAIN found = {} /\ DOMAIN todo = {}
      /\ found \in Seq(Found) /\ todo \in Seq(Brokers)
    OBVIOUS
<1>2. Ids = {} /\ Range(todo) = {}
    BY <1>1 DEF Ids, Range
<1>3. DiscoveryTypeOK
  <2>1. IsInjective(todo) /\ IsInjective(FoundIds)
      BY <1>1 DEF FoundIds, IsInjective
  <2>2. /\ Range(todo) \subseteq listed /\ Ids \subseteq listed /\ Ids \cap Range(todo) = {}
        /\ next \in Nat \ {0} /\ refused \subseteq dialed
        /\ \A a \in dialed : a[1] \in Brokers /\ a[2] \in 0 .. Len(EndpointsOf[a[1]])
      BY <1>2
  <2> QED
      BY <2>1, <2>2 DEF DiscoveryTypeOK, FoundIds
<1>4. ListsInv /\ TurnsInv
    BY <1>1 DEF ListsInv, TurnsInv
<1>5. BootstrapInv
    BY <1>2 DEF BootstrapInv
<1>6. ZookeeperInv
    BY <1>1 DEF ZookeeperInv, FirstThatWorks
<1>7. SessionClosed
    BY DEF SessionClosed, Ended
<1> QED
    BY <1>3, <1>4, <1>5, <1>6, <1>7 DEF DiscoveryInv

\* A step that leaves the lists alone keeps what is said of them.
LEMMA ListsUnchanged ==
    ASSUME DiscoveryInv,
           UNCHANGED <<arguments, listed, todo, next, found, history>>,
           clusterID' \in BOOLEAN,
           session' \in {"none", "open", "closed"},
           pc' \in {"start", "list", "brokers", "endpoints", "ok", "error"}
    PROVE  /\ DiscoveryTypeOK' /\ FirstThatWorks'
           /\ Ids' = Ids /\ Range(todo)' = Range(todo) /\ Current' = Current
<1> USE DEF history
<1>1. /\ Ids' = Ids /\ Range(todo)' = Range(todo) /\ Current' = Current
      /\ IsInjective(FoundIds)' = IsInjective(FoundIds) /\ IsInjective(todo)' = IsInjective(todo)
    BY DEF Ids, Current, FoundIds
<1>2. DiscoveryTypeOK'
    BY <1>1 DEF DiscoveryInv, DiscoveryTypeOK, FoundIds
<1>3. FirstThatWorks'
    BY <1>1 DEF DiscoveryInv, ZookeeperInv, FirstThatWorks, RefusedBefore, Usable
<1> QED
    BY <1>1, <1>2, <1>3

\* Returning closes the session.
LEMMA ReturnCloses ==
    ASSUME DiscoveryInv, NEW outcome, Return(outcome)
    PROVE  session' \in {"none", "closed"}
  BY DEF DiscoveryInv, DiscoveryTypeOK, Return, CloseSession

\* Connecting to the bootstrap broker, or to Zookeeper.
LEMMA ConnectInv ==
    ASSUME DiscoveryInv, UNCHANGED arguments, ConnectBootstrap \/ ConnectZookeeper
    PROVE  DiscoveryInv'
<1> USE DEF DiscoveryInv, answer
<1>1. /\ UNCHANGED <<arguments, listed, clusterID, todo, next, found, history>>
      /\ pc = "start" /\ pc' = "list"
      /\ session' \in {"none", "open", "closed"}
    BY DEF ConnectBootstrap, ConnectZookeeper, DiscoveryTypeOK
<1>2. /\ DiscoveryTypeOK' /\ FirstThatWorks'
      /\ Ids' = Ids /\ Range(todo)' = Range(todo) /\ Current' = Current
    BY <1>1, ListsUnchanged DEF DiscoveryTypeOK
<1>3. ListsInv'
    BY <1>1 DEF ListsInv, history
<1>4. TurnsInv'
    BY <1>1 DEF TurnsInv, ListsInv, history
<1>5. BootstrapInv'
    BY <1>1, <1>2 DEF BootstrapInv, ListsInv, history
<1>6. ZookeeperInv' /\ SessionClosed'
    BY <1>1, <1>2 DEF ZookeeperInv, SessionClosed, Ended
<1> QED
    BY <1>2, <1>3, <1>4, <1>5, <1>6

\* Any failure that ends the discovery before a broker is tried.
LEMMA FailInv ==
    ASSUME DiscoveryInv, UNCHANGED arguments,
           \/ BootstrapFails \/ ConnectZookeeperFails \/ ListIdsFails \/ InvalidStrategy
           \/ BootstrapDone /\ found = <<>>
    PROVE  DiscoveryInv'
<1> USE DEF DiscoveryInv, answer
<1>1. /\ UNCHANGED <<arguments, listed, clusterID, todo, next, found, history>>
      /\ pc \notin {"ok", "error"} /\ Return("error")
    BY DEF BootstrapFails, ConnectZookeeperFails, ListIdsFails, InvalidStrategy, BootstrapDone
<1>2. pc' = "error" /\ session' \in {"none", "closed"}
    BY <1>1, ReturnCloses DEF Return
<1>3. /\ DiscoveryTypeOK' /\ FirstThatWorks'
      /\ Ids' = Ids /\ Range(todo)' = Range(todo) /\ Current' = Current
    BY <1>1, <1>2, ListsUnchanged DEF DiscoveryTypeOK
<1>4. ListsInv' /\ TurnsInv'
    BY <1>1, <1>2 DEF ListsInv, TurnsInv, history
<1>5. BootstrapInv'
    BY <1>1, <1>2, <1>3 DEF BootstrapInv, history
<1>6. ZookeeperInv' /\ SessionClosed'
    BY <1>2, <1>3 DEF ZookeeperInv, SessionClosed, Ended
<1> QED
    BY <1>3, <1>4, <1>5, <1>6

\* The list is at its end and there is something to return.
LEMMA DoneInv ==
    ASSUME DiscoveryInv, UNCHANGED arguments,
           \/ BootstrapDone /\ found # <<>>
           \/ ZookeeperDone
    PROVE  DiscoveryInv'
<1> USE DEF DiscoveryInv, answer
<1>1. /\ UNCHANGED <<arguments, listed, todo, next, found, history>>
      /\ pc = "brokers" /\ todo = <<>> /\ Return("ok")
    BY DEF BootstrapDone, ZookeeperDone
<1>2. pc' = "ok" /\ session' \in {"none", "closed"}
    BY <1>1, ReturnCloses DEF Return
<1>3. clusterID' \in BOOLEAN
    BY DEF BootstrapDone, ZookeeperDone, DiscoveryTypeOK
<1>4. /\ DiscoveryTypeOK' /\ FirstThatWorks'
      /\ Ids' = Ids /\ Range(todo)' = Range(todo) /\ Current' = Current
    BY <1>1, <1>2, <1>3, ListsUnchanged DEF DiscoveryTypeOK
<1>5. ListsInv' /\ TurnsInv'
    BY <1>1, <1>2 DEF ListsInv, TurnsInv, history
<1>6. BootstrapInv'
  <2> SUFFICES ASSUME arguments.strategy = "bootstrap" PROVE BootstrapInv'
      BY <1>1 DEF BootstrapInv
  <2>1. found # <<>>
      BY DEF BootstrapDone, ZookeeperDone
  <2>2. ~arguments.localOnly
      BY <1>1, <2>1 DEF BootstrapInv
  <2> QED
      BY <1>1, <1>2, <1>4, <2>2 DEF BootstrapInv, history
<1>7. ZookeeperInv' /\ SessionClosed'
    BY <1>2, <1>4 DEF ZookeeperInv, SessionClosed, Ended
<1> QED
    BY <1>4, <1>5, <1>6, <1>7

\* The brokers of the answer become the list of those to connect to.
LEMMA ListInv ==
    ASSUME DiscoveryInv, UNCHANGED arguments, GetMetadata \/ ListIds
    PROVE  DiscoveryInv'
<1> USE DEF DiscoveryInv
<1>1. /\ UNCHANGED <<arguments, next, found, session, history>>
      /\ listed' \subseteq Brokers /\ todo' \in SetToSeqs(listed') /\ clusterID' \in BOOLEAN
      /\ pc = "list" /\ pc' = "brokers"
      /\ arguments.strategy \in {"bootstrap", "zookeeper"}
    BY DEF GetMetadata, ListIds, DiscoveryTypeOK
<1>2. todo' \in Seq(Brokers) /\ IsInjective(todo') /\ Range(todo') = listed'
    BY <1>1, ListingOfSet
<1>3. /\ listed = {} /\ todo = <<>> /\ next = 1 /\ found = <<>>
      /\ dialed = {} /\ refused = {} /\ unread = {}
    BY <1>1 DEF ListsInv
<1>4. DOMAIN found = {} /\ Ids = {} /\ Ids' = {} /\ IsInjective(FoundIds)'
  <2>1. DOMAIN found = {} /\ DOMAIN found' = {}
      BY <1>1, <1>3
  <2> QED
      BY <2>1 DEF Ids, FoundIds, IsInjective
<1>5. DiscoveryTypeOK'
    BY <1>1, <1>2, <1>3, <1>4 DEF DiscoveryTypeOK, FoundIds, history
<1>6. ListsInv' /\ TurnsInv'
    BY <1>1, <1>2, <1>3 DEF ListsInv, TurnsInv, history
<1>7. BootstrapInv'
    BY <1>1, <1>2, <1>3, <1>4 DEF BootstrapInv, history
<1>8. ZookeeperInv' /\ SessionClosed'
    BY <1>1, <1>2, <1>3, <1>4 DEF ZookeeperInv, FirstThatWorks, SessionClosed, Ended
<1> QED
    BY <1>5, <1>6, <1>7, <1>8

\* In a local-only discovery the first broker with the address ends it.
LEMMA KeepLocalInv ==
    ASSUME DiscoveryInv, UNCHANGED arguments, KeepLocal
    PROVE  DiscoveryInv'
<1> USE DEF DiscoveryInv, answer, history
<1>1. /\ pc = "brokers" /\ arguments.strategy = "bootstrap" /\ todo # <<>>
      /\ arguments.localOnly /\ Current = arguments.bootstrap
      /\ Add(Current, 0) /\ NextBroker /\ Return("ok")
      /\ UNCHANGED <<arguments, answer, history>>
    BY DEF KeepLocal, AtBroker, Advertised
<1>2. Current \in Brokers /\ Current \in listed /\ Current \in Range(todo) /\ Current \notin Ids
    BY <1>1, CurrentBroker
<1>3. /\ todo' \in Seq(Brokers) /\ IsInjective(todo') /\ next' = 1
      /\ Range(todo') = Range(todo) \ {Current}
    BY <1>1, Advance
<1>4. /\ found' \in Seq(Found) /\ IsInjective(FoundIds)' /\ Ids' = Ids \cup {Current}
    BY <1>1, <1>2, Added
<1>5. pc' = "ok" /\ session' \in {"none", "closed"}
    BY <1>1, ReturnCloses DEF Return
<1>6. Ids = {}
  <2>1. found = <<>>
      BY <1>1 DEF BootstrapInv
  <2> QED
      BY <2>1 DEF Ids
<1>7. DiscoveryTypeOK'
    BY <1>1, <1>2, <1>3, <1>4, <1>5 DEF DiscoveryTypeOK, FoundIds
<1>8. ListsInv' /\ TurnsInv'
    BY <1>1, <1>3, <1>4, <1>5 DEF ListsInv, TurnsInv
<1>9. BootstrapInv'
    BY <1>1, <1>4, <1>5, <1>6 DEF BootstrapInv
<1>10. ZookeeperInv' /\ SessionClosed'
    BY <1>1, <1>5 DEF ZookeeperInv, FirstThatWorks, SessionClosed
<1> QED
    BY <1>7, <1>8, <1>9, <1>10

\* In a local-only discovery every other broker is passed over.
LEMMA SkipRemoteInv ==
    ASSUME DiscoveryInv, UNCHANGED arguments, SkipRemote
    PROVE  DiscoveryInv'
<1> USE DEF DiscoveryInv, answer, history
<1>1. /\ pc = "brokers" /\ arguments.strategy = "bootstrap" /\ todo # <<>>
      /\ arguments.localOnly /\ NextBroker
      /\ UNCHANGED <<arguments, answer, pc, found, session, history>>
    BY DEF SkipRemote, AtBroker
<1>2. /\ todo' \in Seq(Brokers) /\ IsInjective(todo') /\ next' = 1
      /\ Range(todo') = Range(todo) \ {Current}
    BY <1>1, Advance
<1>3. Ids' = Ids /\ IsInjective(FoundIds)' = IsInjective(FoundIds)
    BY <1>1 DEF Ids, FoundIds
<1>4. DiscoveryTypeOK'
    BY <1>1, <1>2, <1>3 DEF DiscoveryTypeOK, FoundIds
<1>5. ListsInv' /\ TurnsInv'
    BY <1>1, <1>2 DEF ListsInv, TurnsInv, BootstrapInv
<1>6. BootstrapInv'
    BY <1>1, <1>3 DEF BootstrapInv
<1>7. ZookeeperInv' /\ SessionClosed'
    BY <1>1 DEF ZookeeperInv, FirstThatWorks, SessionClosed, Ended
<1> QED
    BY <1>4, <1>5, <1>6, <1>7

\* A broker of the answer is connected to at its address.
LEMMA OpenBrokerInv ==
    ASSUME DiscoveryInv, UNCHANGED arguments, OpenBroker
    PROVE  DiscoveryInv'
<1> USE DEF DiscoveryInv, answer
<1>1. /\ pc = "brokers" /\ arguments.strategy = "bootstrap" /\ todo # <<>>
      /\ ~arguments.localOnly /\ dialed' = dialed \cup {<<Current, 0>>}
      /\ Add(Current, 0) /\ NextBroker
      /\ UNCHANGED <<arguments, answer, pc, session, refused, unread>>
    BY DEF OpenBroker, AtBroker, Advertised
<1>2. Current \in Brokers /\ Current \in listed /\ Current \in Range(todo) /\ Current \notin Ids
    BY <1>1, CurrentBroker
<1>3. /\ todo' \in Seq(Brokers) /\ IsInjective(todo') /\ next' = 1
      /\ Range(todo') = Range(todo) \ {Current}
    BY <1>1, Advance
<1>4. /\ found' \in Seq(Found) /\ IsInjective(FoundIds)' /\ Ids' = Ids \cup {Current}
    BY <1>1, <1>2, Added
<1>5. Len(EndpointsOf[Current]) \in Nat
    BY <1>2, DiscoveryAssumption
<1>6. DiscoveryTypeOK'
  <2>1. \A a \in dialed' : a[1] \in Brokers /\ a[2] \in 0 .. Len(EndpointsOf[a[1]])
      BY <1>1, <1>2, <1>5 DEF DiscoveryTypeOK
  <2> QED
      BY <1>1, <1>2, <1>3, <1>4, <2>1 DEF DiscoveryTypeOK, FoundIds
<1>7. ListsInv'
    BY <1>1, <1>2, <1>3, <1>4 DEF ListsInv
<1>8. TurnsInv'
    BY <1>1, <1>2, <1>3 DEF TurnsInv
<1>9. BootstrapInv'
    BY <1>1, <1>2, <1>3, <1>4 DEF BootstrapInv
<1>10. ZookeeperInv' /\ SessionClosed'
    BY <1>1 DEF ZookeeperInv, FirstThatWorks, SessionClosed, Ended
<1> QED
    BY <1>6, <1>7, <1>8, <1>9, <1>10

\* A broker of the answer cannot be connected to: the discovery fails.
LEMMA OpenBrokerFailsInv ==
    ASSUME DiscoveryInv, UNCHANGED arguments, OpenBrokerFails
    PROVE  DiscoveryInv'
<1> USE DEF DiscoveryInv, answer
<1>1. /\ pc = "brokers" /\ arguments.strategy = "bootstrap" /\ todo # <<>>
      /\ ~arguments.localOnly /\ dialed' = dialed \cup {<<Current, 0>>}
      /\ refused' = refused \cup {<<Current, 0>>} /\ Return("error")
      /\ UNCHANGED <<arguments, answer, todo, next, found, unread>>
    BY DEF OpenBrokerFails, AtBroker, Advertised
<1>2. Current \in Brokers
    BY <1>1, CurrentBroker
<1>3. Len(EndpointsOf[Current]) \in Nat
    BY <1>2, DiscoveryAssumption
<1>4. pc' = "error" /\ session' \in {"none", "closed"}
    BY <1>1, ReturnCloses DEF Return
<1>5. Ids' = Ids /\ IsInjective(FoundIds)' = IsInjective(FoundIds)
    BY <1>1 DEF Ids, FoundIds
<1>6. DiscoveryTypeOK'
  <2>1. \A a \in dialed' : a[1] \in Brokers /\ a[2] \in 0 .. Len(EndpointsOf[a[1]])
      BY <1>1, <1>2, <1>3 DEF DiscoveryTypeOK
  <2> QED
      BY <1>1, <1>2, <1>4, <1>5, <2>1 DEF DiscoveryTypeOK, FoundIds
<1>7. ListsInv' /\ TurnsInv'
    BY <1>1, <1>2, <1>4 DEF ListsInv, TurnsInv
<1>8. BootstrapInv'
    BY <1>1, <1>4, <1>5 DEF BootstrapInv
<1>9. ZookeeperInv' /\ SessionClosed'
    BY <1>1, <1>4 DEF ZookeeperInv, FirstThatWorks, SessionClosed
<1> QED
    BY <1>6, <1>7, <1>8, <1>9

\* The registration of the next broker is read: none of its endpoints was tried.
LEMMA ReadBrokerInv ==
    ASSUME DiscoveryInv, UNCHANGED arguments, ReadBroker
    PROVE  DiscoveryInv'
<1> USE DEF DiscoveryInv, answer
<1>1. /\ pc = "brokers" /\ arguments.strategy = "zookeeper" /\ todo # <<>>
      /\ pc' = "endpoints"
      /\ UNCHANGED <<arguments, listed, clusterID, todo, next, found, session, history>>
    BY DEF ReadBroker, AtBroker
<1>2. /\ DiscoveryTypeOK' /\ FirstThatWorks'
      /\ Ids' = Ids /\ Range(todo)' = Range(todo) /\ Current' = Current
    BY <1>1, ListsUnchanged DEF DiscoveryTypeOK
<1>3. ListsInv'
    BY <1>1 DEF ListsInv, history
<1>4. TurnsInv'
    BY <1>1, <1>2 DEF TurnsInv, history
<1>5. BootstrapInv' /\ SessionClosed'
    BY <1>1 DEF BootstrapInv, SessionClosed, Ended
<1>6. RefusedBefore(Current, next)'
  <2>1. next' = 1
      BY <1>1 DEF ListsInv
  <2>2. 1 .. next' - 1 = {}
      BY <2>1
  <2> QED
      BY <2>2 DEF RefusedBefore
<1> QED
    BY <1>2, <1>3, <1>4, <1>5, <1>6 DEF ZookeeperInv

\* A broker that is given up, for a registration that cannot be read or because
\* every endpoint was passed over, is accounted for.
LEMMA GiveUpInv ==
    ASSUME DiscoveryInv, UNCHANGED arguments, ReadBrokerFails \/ NoEndpoint
    PROVE  DiscoveryInv'
<1> USE DEF DiscoveryInv, answer
<1>1. /\ pc \in {"brokers", "endpoints"} /\ pc' = "brokers"
      /\ arguments.strategy = "zookeeper" /\ todo # <<>> /\ NextBroker
      /\ UNCHANGED <<arguments, answer, found, session, dialed, refused>>
    BY DEF ReadBrokerFails, NoEndpoint, AtBroker, ListsInv, history
<1>2. \/ unread' = unread \cup {Current}
      \/ /\ unread' = unread /\ RefusedBefore(Current, next)
         /\ next > Len(EndpointsOf[Current])
    BY DEF ReadBrokerFails, NoEndpoint, ZookeeperInv, history
<1>3. Current \in Brokers /\ Current \in listed /\ Current \in Range(todo) /\ Current \notin Ids
    BY <1>1, CurrentBroker
<1>4. /\ todo' \in Seq(Brokers) /\ IsInjective(todo') /\ next' = 1
      /\ Range(todo') = Range(todo) \ {Current}
    BY <1>1, Advance
<1>5. Ids' = Ids /\ IsInjective(FoundIds)' = IsInjective(FoundIds)
    BY <1>1 DEF Ids, FoundIds
<1>6. DiscoveryTypeOK'
    BY <1>1, <1>2, <1>3, <1>4, <1>5 DEF DiscoveryTypeOK, FoundIds
<1>7. ListsInv'
    BY <1>1, <1>4 DEF ListsInv
<1>8. TurnsInv'
    BY <1>1, <1>4 DEF TurnsInv
<1>9. BootstrapInv' /\ SessionClosed'
    BY <1>1 DEF BootstrapInv, SessionClosed, Ended
<1>10. \A b \in listed' \ (Range(todo') \cup Ids' \cup unread') :
            RefusedBefore(b, Len(EndpointsOf[b]) + 1)
  <2> SUFFICES ASSUME NEW b \in listed' \ (Range(todo') \cup Ids' \cup unread')
               PROVE  RefusedBefore(b, Len(EndpointsOf[b]) + 1)
      OBVIOUS
  <2>1. CASE b = Current
    <3>1. RefusedBefore(Current, next) /\ next > Len(EndpointsOf[Current])
        BY <1>2, <2>1
    <3>2. next \in Nat /\ Len(EndpointsOf[Current]) \in Nat
        BY <1>3, DiscoveryAssumption DEF DiscoveryTypeOK
    <3>3. 1 .. Len(EndpointsOf[b]) \subseteq 1 .. next - 1
        BY <2>1, <3>1, <3>2
    <3>4. 1 .. (Len(EndpointsOf[b]) + 1) - 1 = 1 .. Len(EndpointsOf[b])
        BY <2>1, <3>2
    <3> QED
        BY <2>1, <3>1, <3>3, <3>4 DEF RefusedBefore
  <2>2. CASE b # Current
    <3>1. b \in listed \ (Range(todo) \cup Ids \cup unread)
        BY <1>1, <1>2, <1>4, <1>5, <2>2
    <3> QED
        BY <1>1, <3>1 DEF ZookeeperInv, FirstThatWorks
  <2> QED
      BY <2>1, <2>2
<1>11. FirstThatWorks'
    BY <1>1, <1>10 DEF ZookeeperInv, FirstThatWorks, RefusedBefore, Usable
<1>12. ZookeeperInv'
    BY <1>1, <1>11 DEF ZookeeperInv
<1> QED
    BY <1>6, <1>7, <1>8, <1>9, <1>12

\* The endpoint whose turn it is.
LEMMA NextEndpoint ==
    ASSUME DiscoveryInv, AtEndpoint
    PROVE  /\ pc = "endpoints" /\ arguments.strategy = "zookeeper" /\ todo # <<>>
           /\ Current \in Brokers /\ Current \in listed
           /\ Current \in Range(todo) /\ Current \notin Ids
           /\ next \in Nat \ {0} /\ next \in 0 .. Len(EndpointsOf[Current])
           /\ <<Current, next>> \in Brokers \X Nat
           /\ <<Current, next>> \notin dialed
           /\ RefusedBefore(Current, next)
<1> USE DEF DiscoveryInv
<1>1. pc = "endpoints" /\ arguments.strategy = "zookeeper" /\ todo # <<>>
    BY DEF AtEndpoint, ListsInv
<1>2. /\ Current \in Brokers /\ Current \in listed
      /\ Current \in Range(todo) /\ Current \notin Ids
    BY <1>1, CurrentBroker
<1>3. next \in Nat \ {0} /\ Len(EndpointsOf[Current]) \in Nat
    BY <1>2, DiscoveryAssumption DEF DiscoveryTypeOK
<1>4. next \in 0 .. Len(EndpointsOf[Current])
    BY <1>3 DEF AtEndpoint
<1>5. <<Current, next>> \notin dialed
    BY <1>1, <1>2, <1>3 DEF TurnsInv
<1> QED
    BY <1>1, <1>2, <1>3, <1>4, <1>5 DEF ZookeeperInv

\* An endpoint is passed over because it is not usable, or was refused.
LEMMA PassEndpointInv ==
    ASSUME DiscoveryInv, UNCHANGED arguments, SkipEndpoint \/ ConnectEndpointFails
    PROVE  DiscoveryInv'
<1> USE DEF DiscoveryInv, answer
<1> DEFINE a == <<Current, next>>
<1>1. /\ AtEndpoint /\ pc' = pc /\ next' = next + 1
      /\ UNCHANGED <<arguments, answer, todo, found, session, unread>>
    BY DEF SkipEndpoint, ConnectEndpointFails, history
<1>2. \/ /\ ~Usable(EndpointsOf[Current][next])
         /\ dialed' = dialed /\ refused' = refused
      \/ dialed' = dialed \cup {a} /\ refused' = refused \cup {a}
    BY DEF SkipEndpoint, ConnectEndpointFails, history
<1>3. /\ pc = "endpoints" /\ arguments.strategy = "zookeeper" /\ todo # <<>>
      /\ Current \in Brokers /\ Current \in Range(todo) /\ Current \notin Ids
      /\ next \in Nat \ {0} /\ next \in 0 .. Len(EndpointsOf[Current])
      /\ a \in Brokers \X Nat /\ a \notin dialed /\ RefusedBefore(Current, next)
    BY <1>1, NextEndpoint
<1>4. /\ Ids' = Ids /\ IsInjective(FoundIds)' = IsInjective(FoundIds) /\ Current' = Current
      /\ Range(todo)' = Range(todo)
    BY <1>1 DEF Ids, FoundIds, Current
<1>5. DiscoveryTypeOK'
  <2>1. \A d \in dialed' : d[1] \in Brokers /\ d[2] \in 0 .. Len(EndpointsOf[d[1]])
      BY <1>2, <1>3 DEF DiscoveryTypeOK
  <2>2. refused' \subseteq dialed'
      BY <1>2 DEF DiscoveryTypeOK
  <2> QED
      BY <1>1, <1>3, <1>4, <2>1, <2>2 DEF DiscoveryTypeOK, FoundIds
<1>6. ListsInv'
    BY <1>1, <1>2, <1>3 DEF ListsInv
<1>7. TurnsInv'
  <2> SUFFICES ASSUME NEW d \in dialed', d[1] \in Range(todo)
               PROVE  d[1] = Current /\ d[2] < next + 1
      BY <1>1, <1>3, <1>4 DEF TurnsInv
  <2>1. CASE d = a
      BY <1>3, <2>1
  <2>2. CASE d # a
    <3>1. d \in dialed
        BY <1>2, <2>2
    <3>2. d[1] = Current /\ d[2] < next /\ d[2] \in Nat
        BY <1>3, <3>1 DEF TurnsInv, ListsInv
    <3> QED
        BY <1>3, <3>2
  <2> QED
      BY <2>1, <2>2
<1>8. BootstrapInv' /\ SessionClosed'
    BY <1>1, <1>3 DEF BootstrapInv, SessionClosed, Ended
<1>9. \A b, k : Passed(b, k, refused) => Passed(b, k, refused')
  <2>1. refused \subseteq refused'
      BY <1>2
  <2> QED
      BY <2>1, PassedKept
<1>10. RefusedBefore(Current, next)'
  <2>1. Passed(Current, next, refused')
      BY <1>3, <1>9 DEF RefusedBefore, Passed
  <2>2. Usable(EndpointsOf[Current][next]) => a \in refused'
      BY <1>2
  <2>3. \A j \in 1 .. (next + 1) - 1 : j \in 1 .. next - 1 \/ j = next
      BY <1>3
  <2>4. Passed(Current, next + 1, refused')
      BY <2>1, <2>2, <2>3 DEF Passed
  <2> QED
      BY <1>1, <1>4, <2>4 DEF RefusedBefore, Passed, Usable
<1>11. FirstThatWorks'
  <2>1. ASSUME NEW k \in DOMAIN found'
        PROVE  /\ Usable(EndpointsOf[found'[k].id][found'[k].endpoint])
               /\ <<found'[k].id, found'[k].endpoint>> \in dialed' \ refused'
               /\ Passed(found'[k].id, found'[k].endpoint, refused')
    <3>1. /\ Usable(EndpointsOf[found[k].id][found[k].endpoint])
          /\ <<found[k].id, found[k].endpoint>> \in dialed \ refused
          /\ Passed(found[k].id, found[k].endpoint, refused)
        BY <1>1, <1>3, FirstThatWorksNow DEF ZookeeperInv
    <3>2. found[k].id # Current
        BY <1>1, <1>3 DEF Ids
    <3>3. <<found[k].id, found[k].endpoint>> \in dialed' \ refused'
        BY <1>2, <3>1, <3>2
    <3> QED
        BY <1>1, <1>9, <3>1, <3>3
  <2>2. ASSUME NEW b \in listed' \ (Range(todo') \cup Ids' \cup unread')
        PROVE  Passed(b, Len(EndpointsOf[b]) + 1, refused')
    <3>1. b \in listed \ (Range(todo) \cup Ids \cup unread)
        BY <1>1, <1>4
    <3> QED
        BY <1>3, <1>9, <3>1, FirstThatWorksNow DEF ZookeeperInv
  <2> QED
      BY <1>1, <2>1, <2>2, FirstThatWorksNext
<1>12. ZookeeperInv'
    BY <1>10, <1>11 DEF ZookeeperInv
<1> QED
    BY <1>5, <1>6, <1>7, <1>8, <1>12

\* The first endpoint that works is the one the broker is returned with.
LEMMA ConnectEndpointInv ==
    ASSUME DiscoveryInv, UNCHANGED arguments, ConnectEndpoint
    PROVE  DiscoveryInv'
<1> USE DEF DiscoveryInv, answer
<1> DEFINE a == <<Current, next>>
           f == [id |-> Current, endpoint |-> next]
<1>1. /\ AtEndpoint /\ Usable(EndpointsOf[Current][next])
      /\ dialed' = dialed \cup {a} /\ Add(Current, next) /\ NextBroker /\ pc' = "brokers"
      /\ UNCHANGED <<arguments, answer, session, refused, unread>>
    BY DEF ConnectEndpoint
<1>2. /\ pc = "endpoints" /\ arguments.strategy = "zookeeper" /\ todo # <<>>
      /\ Current \in Brokers /\ Current \in listed
      /\ Current \in Range(todo) /\ Current \notin Ids
      /\ next \in Nat \ {0} /\ next \in 0 .. Len(EndpointsOf[Current])
      /\ a \in Brokers \X Nat /\ a \notin dialed /\ RefusedBefore(Current, next)
    BY <1>1, NextEndpoint
<1>3. /\ todo' \in Seq(Brokers) /\ IsInjective(todo') /\ next' = 1
      /\ Range(todo') = Range(todo) \ {Current}
    BY <1>1, <1>2, Advance
<1>4. /\ found' \in Seq(Found) /\ found' # <<>>
      /\ IsInjective(FoundIds)' /\ Ids' = Ids \cup {Current}
      /\ \A i \in DOMAIN found' : (i \in DOMAIN found /\ found'[i] = found[i]) \/ found'[i] = f
    BY <1>1, <1>2, Added
<1>5. DiscoveryTypeOK'
  <2>1. \A d \in dialed' : d[1] \in Brokers /\ d[2] \in 0 .. Len(EndpointsOf[d[1]])
      BY <1>1, <1>2 DEF DiscoveryTypeOK
  <2>2. refused' \subseteq dialed'
      BY <1>1 DEF DiscoveryTypeOK
  <2> QED
      BY <1>1, <1>2, <1>3, <1>4, <2>1, <2>2 DEF DiscoveryTypeOK, FoundIds
<1>6. ListsInv'
    BY <1>1, <1>2, <1>3, <1>4 DEF ListsInv
<1>7. TurnsInv'
    BY <1>1, <1>2, <1>3 DEF TurnsInv
<1>8. BootstrapInv' /\ SessionClosed'
    BY <1>1, <1>2 DEF BootstrapInv, SessionClosed, Ended
<1>9. FirstThatWorks'
  <2>1. ASSUME NEW k \in DOMAIN found'
        PROVE  /\ Usable(EndpointsOf[found'[k].id][found'[k].endpoint])
               /\ <<found'[k].id, found'[k].endpoint>> \in dialed' \ refused'
               /\ Passed(found'[k].id, found'[k].endpoint, refused')
    <3>1. CASE k \in DOMAIN found /\ found'[k] = found[k]
      <4>1. /\ Usable(EndpointsOf[found[k].id][found[k].endpoint])
            /\ <<found[k].id, found[k].endpoint>> \in dialed \ refused
            /\ Passed(found[k].id, found[k].endpoint, refused)
          BY <1>2, <3>1, FirstThatWorksNow DEF ZookeeperInv
      <4> QED
          BY <1>1, <3>1, <4>1
    <3>2. CASE found'[k] = f
      <4>1. found'[k].id = Current /\ found'[k].endpoint = next
          BY <3>2
      <4>2. a \in dialed' \ refused'
          BY <1>1, <1>2 DEF DiscoveryTypeOK
      <4>3. Passed(Current, next, refused')
          BY <1>1, <1>2 DEF RefusedBefore, Passed
      <4> QED
          BY <1>1, <4>1, <4>2, <4>3
    <3> QED
        BY <1>4, <3>1, <3>2
  <2>2. ASSUME NEW b \in listed' \ (Range(todo') \cup Ids' \cup unread')
        PROVE  Passed(b, Len(EndpointsOf[b]) + 1, refused')
    <3>1. b \in listed \ (Range(todo) \cup Ids \cup unread)
        BY <1>1, <1>3, <1>4
    <3> QED
        BY <1>1, <1>2, <3>1, FirstThatWorksNow DEF ZookeeperInv
  <2> QED
      BY <1>1, <2>1, <2>2, FirstThatWorksNext
<1>10. ZookeeperInv'
    BY <1>1, <1>9 DEF ZookeeperInv
<1> QED
    BY <1>5, <1>6, <1>7, <1>8, <1>10

\* Every step of the discovery keeps its invariant.
LEMMA DiscoverInv ==
    ASSUME DiscoveryInv, Discover
    PROVE  DiscoveryInv'
<1>1. UNCHANGED arguments
    BY DEF Discover
<1>2. CASE Bootstrap
  <2>1. CASE ConnectBootstrap
      BY <1>1, <2>1, ConnectInv
  <2>2. CASE BootstrapFails \/ BootstrapDone
      BY <1>1, <2>2, FailInv, DoneInv
  <2>3. CASE GetMetadata
      BY <1>1, <2>3, ListInv
  <2>4. CASE KeepLocal \/ SkipRemote
      BY <1>1, <2>4, KeepLocalInv, SkipRemoteInv
  <2>5. CASE OpenBroker \/ OpenBrokerFails
      BY <1>1, <2>5, OpenBrokerInv, OpenBrokerFailsInv
  <2> QED
      BY <1>2, <2>1, <2>2, <2>3, <2>4, <2>5 DEF Bootstrap
<1>3. CASE Zookeeper
  <2>1. CASE ConnectZookeeper \/ ConnectZookeeperFails
      BY <1>1, <2>1, ConnectInv, FailInv
  <2>2. CASE ListIds \/ ListIdsFails
      BY <1>1, <2>2, ListInv, FailInv
  <2>3. CASE ReadBroker \/ ReadBrokerFails \/ NoEndpoint
      BY <1>1, <2>3, ReadBrokerInv, GiveUpInv
  <2>4. CASE SkipEndpoint \/ ConnectEndpoint \/ ConnectEndpointFails
      BY <1>1, <2>4, PassEndpointInv, ConnectEndpointInv
  <2>5. CASE ZookeeperDone
      BY <1>1, <2>5, DoneInv
  <2> QED
      BY <1>3, <2>1, <2>2, <2>3, <2>4, <2>5 DEF Zookeeper
<1>4. CASE InvalidStrategy
    BY <1>1, <1>4, FailInv
<1> QED
    BY <1>2, <1>3, <1>4 DEF Discover

-----------------------------------------------------------------------------
(* The cluster moves, and the brokers are asked.                            *)

\* Nobody is asked before the discovery returned, and it returns once.
LEMMA DiscoverBefore ==
    ASSUME Discover
    PROVE  pc \notin {"ok", "error"}
  BY DEF Discover, Bootstrap, Zookeeper, InvalidStrategy, ConnectBootstrap, BootstrapFails,
         GetMetadata, KeepLocal, SkipRemote, OpenBroker, OpenBrokerFails, BootstrapDone,
         ConnectZookeeper, ConnectZookeeperFails, ListIds, ListIdsFails, ReadBroker,
         ReadBrokerFails, SkipEndpoint, ConnectEndpoint, ConnectEndpointFails, NoEndpoint,
         ZookeeperDone, AtBroker, AtEndpoint

\* What does not touch the discovery keeps its invariant.
LEMMA DiscoveryFrame ==
    ASSUME DiscoveryInv, UNCHANGED discoveryVars
    PROVE  DiscoveryInv' /\ Ids' = Ids
<1> USE DEF discoveryVars, answer, history
<1>1. /\ Ids' = Ids /\ Range(todo)' = Range(todo) /\ Current' = Current
      /\ FoundIds' = FoundIds
    BY DEF Ids, Current, FoundIds
<1>2. DiscoveryTypeOK' /\ ListsInv'
    BY <1>1 DEF DiscoveryInv, DiscoveryTypeOK, ListsInv, FoundIds
<1>3. TurnsInv' /\ BootstrapInv' /\ SessionClosed'
    BY <1>1 DEF DiscoveryInv, TurnsInv, BootstrapInv, SessionClosed, Ended
<1>4. ZookeeperInv'
    BY <1>1 DEF DiscoveryInv, ZookeeperInv, FirstThatWorks, RefusedBefore, Usable
<1> QED
    BY <1>1, <1>2, <1>3, <1>4 DEF DiscoveryInv

\* The lists of a discovery that returned.
LEMMA FoundList ==
    ASSUME DiscoveryInv
    PROVE  /\ Len(found) \in Nat /\ DOMAIN found = 1 .. Len(found)
           /\ Ids \subseteq Brokers
           /\ \A i \in 1 .. Len(found) : found[i].id \in Ids
           /\ \A i, j \in 1 .. Len(found) : found[i].id = found[j].id => i = j
<1>1. found \in Seq(Found) /\ IsInjective(FoundIds) /\ Ids \subseteq Brokers
    BY DEF DiscoveryInv, DiscoveryTypeOK, ListsInv, FoundIds
<1>2. Len(found) \in Nat /\ DOMAIN found = 1 .. Len(found)
    BY <1>1
<1> QED
    BY <1>1, <1>2 DEF Ids, FoundIds, IsInjective

\* The controller at the start of the collection is the only one so far.
LEMMA ChoiceInitInv == Init => ChoiceInv
<1> SUFFICES ASSUME Init PROVE ChoiceInv
    OBVIOUS
<1> USE DEF Init
<1>1. DiscoveryInv
    BY DiscoveryInitInv
<1>2. ElectedInv
  <2>1. /\ active = {} \/ \E b \in Brokers : active = {b}
        /\ everActive = active /\ steady = active /\ elections = 0 /\ kraft \in BOOLEAN
      OBVIOUS
  <2>2. IsFiniteSet(active) /\ (Cardinality(active) = 0 \/ Cardinality(active) = 1)
    <3> HIDE DEF Init
    <3>1. CASE active = {}
        BY <3>1, FS_EmptySet
    <3>2. CASE \E b \in Brokers : active = {b}
        BY <3>2, FS_Singleton
    <3> QED
        BY <2>1, <3>1, <3>2
  <2>3. 0 \in 0 .. MaxElections /\ active \subseteq Brokers
      BY <2>1, ElectionsAssumption
  <2> HIDE DEF Init
  <2>4. Cardinality(active) <= 1 + 0
      BY <2>2
  <2> QED
      BY <2>1, <2>2, <2>3, <2>4 DEF ElectedInv
<1>3. AskedInv
  <2>1. Len(found) = 0 /\ Cardinality({}) = 0
      BY FS_EmptySet DEF DiscoveryInit
  <2>2. AskedIds = {}
      BY DEF AskedIds
  <2> QED
      BY <2>1, <2>2 DEF AskedInv
<1>4. ChosenInv
    BY DEF ChosenInv
<1> QED
    BY <1>1, <1>2, <1>3, <1>4 DEF ChoiceInv

\* While the brokers are discovered nothing is counted yet.
LEMMA ChoiceDiscoverInv ==
    ASSUME ChoiceInv, Discover,
           UNCHANGED <<clusterVars, phase, tally, controller, chosen, sample>>
    PROVE  ChoiceInv'
<1> USE DEF ChoiceInv, clusterVars, tally
<1>1. DiscoveryInv'
    BY DiscoverInv
<1>2. /\ pc \notin {"ok", "error"} /\ asked = 0 /\ phase = "count"
      /\ chosen = NoBroker /\ controller = NoBroker /\ sample = <<>>
    BY DiscoverBefore DEF AskedInv, ChosenInv
<1>3. ElectedInv'
    BY DEF ElectedInv
<1>4. AskedInv'
  <2>1. AskedIds = {} /\ AskedIds' = {}
      BY <1>2 DEF AskedIds
  <2>2. Len(found') \in Nat
      BY <1>1 DEF DiscoveryInv, ListsInv
  <2> QED
      BY <1>2, <2>1, <2>2 DEF AskedInv
<1>5. ChosenInv'
    BY <1>2 DEF ChosenInv
<1> QED
    BY <1>1, <1>3, <1>4, <1>5

\* An election adds at most one broker to those that ever were the controller.
LEMMA ElectInv ==
    ASSUME ChoiceInv, NEW b \in Brokers, Elect(b)
    PROVE  ChoiceInv'
<1> USE DEF ChoiceInv, tally
<1>1. /\ elections < MaxElections /\ active' = active \cup {b}
      /\ everActive' = everActive \cup {b} /\ elections' = elections + 1
      /\ UNCHANGED <<discoveryVars, kraft, steady, phase, tally, controller, chosen, sample>>
    BY DEF Elect
<1>2. DiscoveryInv' /\ Ids' = Ids /\ found' = found /\ pc' = pc
    BY <1>1, DiscoveryFrame DEF discoveryVars
<1>3. ElectedInv'
  <2>1. /\ IsFiniteSet(everActive') /\ Cardinality(everActive) \in Nat
        /\ Cardinality(everActive') <= Cardinality(everActive) + 1
    <3>1. IsFiniteSet(everActive)
        BY DEF ElectedInv
    <3>2. Cardinality(everActive) \in Nat
        BY <3>1, FS_CardinalityType
    <3>3. /\ IsFiniteSet(everActive \cup {b})
          /\ Cardinality(everActive \cup {b}) =
                IF b \in everActive THEN Cardinality(everActive) ELSE Cardinality(everActive) + 1
        BY <3>1, FS_AddElement
    <3> QED
        BY <1>1, <3>2, <3>3
  <2>2. Cardinality(everActive') \in Nat
      BY <2>1, FS_CardinalityType
  <2>3. elections \in Nat /\ elections' \in 0 .. MaxElections
      BY <1>1, ElectionsAssumption DEF ElectedInv
  <2>4. Cardinality(everActive') <= 1 + elections'
      BY <1>1, <2>1, <2>2, <2>3 DEF ElectedInv
  <2> QED
      BY <1>1, <2>1, <2>3, <2>4 DEF ElectedInv
<1>4. AskedInv'
    BY <1>1, <1>2 DEF AskedInv, AskedIds
<1>5. ChosenInv'
    BY <1>1, <1>2 DEF ChosenInv, Named
<1> QED
    BY <1>2, <1>3, <1>4, <1>5

\* A broker that resigns is no longer one that was the controller throughout.
LEMMA ResignInv ==
    ASSUME ChoiceInv, NEW b \in Brokers, Resign(b)
    PROVE  ChoiceInv'
<1> USE DEF ChoiceInv, tally
<1>1. /\ active' = active \ {b} /\ steady' = steady \ {b}
      /\ UNCHANGED <<discoveryVars, kraft, everActive, elections, phase, tally, controller, chosen, sample>>
    BY DEF Resign
<1>2. DiscoveryInv' /\ Ids' = Ids /\ found' = found /\ pc' = pc
    BY <1>1, DiscoveryFrame DEF discoveryVars
<1>3. ElectedInv'
    BY <1>1 DEF ElectedInv
<1>4. AskedInv'
    BY <1>1, <1>2 DEF AskedInv, AskedIds
<1>5. ChosenInv'
    BY <1>1, <1>2 DEF ChosenInv, Named
<1> QED
    BY <1>2, <1>3, <1>4, <1>5

\* The broker asked next was not asked before.
LEMMA NextAsked ==
    ASSUME ChoiceInv, Counting, asked' = asked + 1, UNCHANGED discoveryVars
    PROVE  /\ asked' \in 0 .. Len(found) /\ AskedIds' = AskedIds \cup {Asked}
           /\ Asked \notin AskedIds /\ Asked \in Ids /\ AskedIds \subseteq Ids
<1> USE DEF ChoiceInv
<1>1. asked \in Nat /\ Len(found) \in Nat /\ asked + 1 \in 1 .. Len(found) /\ found' = found
    BY FoundList DEF AskedInv, Counting, discoveryVars
<1>2. \A k \in 1 .. asked : k \in 1 .. Len(found) /\ k # asked + 1
    BY <1>1
<1>3. Asked \notin AskedIds /\ Asked \in Ids /\ AskedIds \subseteq Ids
    BY <1>1, <1>2, FoundList DEF Asked, AskedIds
<1>4. 1 .. asked + 1 = (1 .. asked) \cup {asked + 1}
    BY <1>1
<1>5. AskedIds' = AskedIds \cup {Asked}
    BY <1>1, <1>4 DEF AskedIds, Asked
<1> QED
    BY <1>1, <1>3, <1>5

\* A broker is asked, and answers or not.
LEMMA CountInv ==
    ASSUME ChoiceInv, CountBroker \/ CountFails
    PROVE  ChoiceInv'
<1> USE DEF ChoiceInv, clusterVars
<1>1. /\ Counting /\ asked' = asked + 1
      /\ UNCHANGED <<discoveryVars, clusterVars, phase, controller, chosen, sample>>
    BY DEF CountBroker, CountFails
<1>2. DiscoveryInv' /\ Ids' = Ids /\ found' = found /\ pc' = pc
    BY <1>1, DiscoveryFrame DEF discoveryVars
<1>3. /\ asked' \in 0 .. Len(found) /\ AskedIds' = AskedIds \cup {Asked}
      /\ Asked \notin AskedIds /\ Asked \in Ids /\ AskedIds \subseteq Ids
    BY <1>1, NextAsked
<1>4. /\ counted' \subseteq counted \cup ({Asked} \cap active)
      /\ counted \subseteq counted' /\ unanswered \subseteq unanswered'
      /\ unanswered' \subseteq unanswered \cup {Asked}
      /\ {Asked} \cap active \subseteq counted' \cup unanswered'
    BY DEF CountBroker, CountFails
<1>5. activeCount' = Cardinality(counted')
  <2>1. CASE CountBroker /\ Asked \in active
    <3>1. {Asked} \cap active = {Asked}
        BY <2>1
    <3>2. counted' = counted \cup {Asked} /\ activeCount' = activeCount + Cardinality({Asked})
        BY <2>1, <3>1 DEF CountBroker
    <3>3. Asked \notin counted
        BY <1>3 DEF AskedInv
    <3>4. IsFiniteSet(counted)
        BY FS_Subset DEF AskedInv, ElectedInv
    <3>5. Cardinality(counted') = Cardinality(counted) + 1
        BY <3>2, <3>3, <3>4, FS_AddElement
    <3>6. Cardinality({Asked}) = 1
        BY FS_Singleton
    <3> QED
        BY <3>2, <3>5, <3>6 DEF AskedInv
  <2>2. CASE CountBroker /\ Asked \notin active
    <3>1. {Asked} \cap active = {}
        BY <2>2
    <3>2. counted' = counted /\ activeCount' = activeCount + Cardinality({})
        BY <2>2, <3>1 DEF CountBroker
    <3>3. Cardinality({}) = 0 /\ Cardinality(counted) \in Nat
        BY FS_EmptySet, FS_Subset, FS_CardinalityType DEF AskedInv, ElectedInv
    <3> QED
        BY <3>2, <3>3 DEF AskedInv
  <2>3. CASE CountFails
      BY <2>3 DEF CountFails, AskedInv
  <2> QED
      BY <2>1, <2>2, <2>3
<1>6. ElectedInv'
    BY <1>1 DEF ElectedInv
<1>7. AskedInv'
  <2>1. pc = "ok"
      BY <1>1 DEF Counting
  <2>2. counted' \subseteq AskedIds' /\ unanswered' \subseteq AskedIds'
      BY <1>3, <1>4 DEF AskedInv
  <2>3. counted' \subseteq everActive'
      BY <1>1, <1>4 DEF AskedInv, ElectedInv
  <2>4. steady' \cap AskedIds' \subseteq counted' \cup unanswered'
      BY <1>1, <1>3, <1>4 DEF AskedInv, ElectedInv
  <2> QED
      BY <1>2, <1>3, <1>5, <2>1, <2>2, <2>3, <2>4 DEF AskedInv
<1>8. ChosenInv'
  <2>1. phase = "count" /\ sample = <<>>
      BY <1>1 DEF Counting, ChosenInv
  <2> QED
      BY <1>1, <1>2, <2>1 DEF ChosenInv, Named
<1> QED
    BY <1>2, <1>6, <1>7, <1>8

\* Once all were asked the connection for the sample is chosen.
LEMMA FindInv ==
    ASSUME ChoiceInv, FindController \/ FindControllerFails
    PROVE  ChoiceInv'
<1> USE DEF ChoiceInv, clusterVars, tally
<1>1. /\ pc = "ok" /\ phase = "count" /\ found # <<>> /\ asked = Len(found) /\ phase' = "collect"
      /\ UNCHANGED <<discoveryVars, clusterVars, tally, sample>>
    BY DEF FindController, FindControllerFails, AllAsked
<1>2. DiscoveryInv' /\ Ids' = Ids /\ found' = found /\ pc' = pc
    BY <1>1, DiscoveryFrame DEF discoveryVars
<1>3. found[1].id \in Ids
  <2>1. Len(found) \in Nat \ {0}
      BY <1>1, EmptySeq DEF DiscoveryInv, ListsInv
  <2> QED
      BY <2>1, FoundList
<1>4. \/ \E c \in Named : controller' = c /\ chosen' = IF c \in Ids THEN c ELSE found[1].id
      \/ controller' = NoBroker /\ chosen' = found[1].id
    BY DEF FindController, FindControllerFails
<1>5. ElectedInv' /\ AskedInv'
    BY <1>1, <1>2 DEF ElectedInv, AskedInv, AskedIds
<1>6. sample = <<>>
    BY <1>1 DEF ChosenInv
<1>7. /\ controller' \in Named \cup {NoBroker}
      /\ chosen' \in Ids
      /\ controller' \in Ids => chosen' = controller'
  <2>1. NoBroker \notin Ids
      BY FoundList, DiscoveryAssumption
  <2> QED
      BY <1>3, <1>4, <2>1
<1>8. ChosenInv'
    BY <1>1, <1>2, <1>6, <1>7 DEF ChosenInv, Named
<1> QED
    BY <1>2, <1>5, <1>8

\* The sample is made of what was counted and chosen, or not made at all.
LEMMA CollectMetricsInv ==
    ASSUME ChoiceInv, NoBrokers \/ CollectMetrics \/ CollectMetricsFails \/ CollectMetricsExits
    PROVE  ChoiceInv'
<1> USE DEF ChoiceInv, clusterVars, tally
<1>1. /\ UNCHANGED <<discoveryVars, clusterVars, tally, controller, chosen>>
      /\ phase' \in {"done", "exited"}
    BY DEF NoBrokers, CollectMetrics, CollectMetricsFails, CollectMetricsExits
<1>2. DiscoveryInv' /\ Ids' = Ids /\ found' = found /\ pc' = pc
    BY <1>1, DiscoveryFrame DEF discoveryVars
<1>3. ElectedInv' /\ AskedInv'
    BY <1>1, <1>2 DEF ElectedInv, AskedInv, AskedIds
<1>4. phase = "collect" \/ (pc = "ok" /\ phase = "count" /\ found = <<>>)
    BY DEF NoBrokers, CollectMetrics, CollectMetricsFails, CollectMetricsExits
<1>5. pc = "ok" /\ asked = Len(found)
  <2>1. found = <<>> => Len(found) = 0
      OBVIOUS
  <2>2. found = <<>> => asked = 0
      BY <2>1 DEF AskedInv
  <2> QED
      BY <1>4, <2>1, <2>2 DEF ChosenInv
<1>6. /\ sample' \in {<<>>} \cup {<<[broker |-> chosen, count |-> activeCount]>>}
      /\ phase' # "done" => sample' = <<>>
    BY <1>4 DEF NoBrokers, CollectMetrics, CollectMetricsFails, CollectMetricsExits, ChosenInv
<1>7. ChosenInv'
    BY <1>1, <1>2, <1>4, <1>5, <1>6 DEF ChosenInv, Named
<1> QED
    BY <1>2, <1>3, <1>7

-----------------------------------------------------------------------------
(* The theorems.                                                            *)

\* The invariant holds in every state of every run.
THEOREM ChoiceInvariant == Spec => []ChoiceInv
<1>1. Init => ChoiceInv
    BY ChoiceInitInv
<1>2. ChoiceInv /\ [Next]_vars => ChoiceInv'
  <2> SUFFICES ASSUME ChoiceInv, [Next]_vars PROVE ChoiceInv'
      OBVIOUS
  <2>1. CASE Discover /\ UNCHANGED <<clusterVars, phase, tally, controller, chosen, sample>>
      BY <2>1, ChoiceDiscoverInv
  <2>2. CASE Cluster
      BY <2>2, ElectInv, ResignInv DEF Cluster
  <2>3. CASE Collection
    <3>1. CASE CountBroker \/ CountFails
        BY <3>1, CountInv
    <3>2. CASE FindController \/ FindControllerFails
        BY <3>2, FindInv
    <3>3. CASE NoBrokers \/ CollectMetrics \/ CollectMetricsFails \/ CollectMetricsExits
        BY <3>3, CollectMetricsInv
    <3> QED
        BY <2>3, <3>1, <3>2, <3>3 DEF Collection
  <2>4. CASE UNCHANGED vars
    <3>1. UNCHANGED <<discoveryVars, clusterVars, phase, tally, controller, chosen, sample>>
        BY <2>4 DEF vars
    <3>2. DiscoveryInv' /\ Ids' = Ids /\ found' = found /\ pc' = pc
        BY <3>1, DiscoveryFrame DEF ChoiceInv, discoveryVars
    <3>3. ElectedInv' /\ AskedInv' /\ ChosenInv'
        BY <3>1, <3>2 DEF ChoiceInv, ElectedInv, AskedInv, AskedIds, ChosenInv,
                          Named, clusterVars, tally
    <3> QED
        BY <3>2, <3>3 DEF ChoiceInv
  <2> QED
      BY <2>1, <2>2, <2>3, <2>4 DEF Next
<1> QED
    BY <1>1, <1>2, PTL DEF Spec

\* The variables keep their types; the count is that of the brokers counted.
THEOREM ChoiceTypeOK == Spec => []TypeOK
<1>1. ChoiceInv => TypeOK
  <2> SUFFICES ASSUME ChoiceInv PROVE TypeOK
      OBVIOUS
  <2> USE DEF ChoiceInv
  <2>1. AskedIds \subseteq Ids
    <3>1. asked \in 0 .. Len(found) /\ Len(found) \in Nat
        BY FoundList DEF AskedInv
    <3>2. \A k \in 1 .. asked : k \in 1 .. Len(found)
        BY <3>1
    <3> QED
        BY <3>2, FoundList DEF AskedIds
  <2>2. controller \in Brokers \cup {NoBroker}
      BY DEF ChosenInv, ElectedInv, Named
  <2> QED
      BY <2>1, <2>2 DEF TypeOK, DiscoveryInv, ElectedInv, AskedInv, ChosenInv
<1> QED
    BY <1>1, ChoiceInvariant, PTL

\* A discovery through the bootstrap broker leaves no broker of the answer out.
THEOREM DiscoveryAllOrNothing == Spec => []AllOrNothing
<1>1. ChoiceInv => AllOrNothing
  <2>1. ASSUME todo = <<>> PROVE Range(todo) = {}
    <3>1. DOMAIN todo = {}
        BY <2>1
    <3> QED
        BY <3>1 DEF Range
  <2> QED
      BY <2>1 DEF ChoiceInv, DiscoveryInv, BootstrapInv, AllOrNothing
<1> QED
    BY <1>1, ChoiceInvariant, PTL

\* A local-only collection connects to no other broker and returns none.
THEOREM DiscoveryLocalOnlyAlone == Spec => []LocalOnlyAlone
<1>1. ChoiceInv => LocalOnlyAlone
    BY DEF ChoiceInv, DiscoveryInv, BootstrapInv, LocalOnlyAlone
<1> QED
    BY <1>1, ChoiceInvariant, PTL

\* A registered broker is reached through the first of its endpoints that works,
\* and left out only if none does.
THEOREM DiscoveryFirstThatWorks == Spec => []FirstThatWorks
  BY ChoiceInvariant, PTL DEF ChoiceInv, DiscoveryInv, ZookeeperInv

\* The session with Zookeeper is closed on every return.
THEOREM DiscoverySessionClosed == Spec => []SessionClosed
  BY ChoiceInvariant, PTL DEF ChoiceInv, DiscoveryInv

\* The sum of the active controllers exceeds one only by the elections.
THEOREM ChoiceCountBounded == Spec => []CountBounded
<1>1. ChoiceInv => CountBounded
  <2> SUFFICES ASSUME ChoiceInv PROVE activeCount <= 1 + elections
      BY DEF CountBounded
  <2>1. IsFiniteSet(everActive) /\ counted \subseteq everActive
      BY DEF ChoiceInv, ElectedInv, AskedInv
  <2>2. Cardinality(counted) <= Cardinality(everActive) /\ IsFiniteSet(counted)
      BY <2>1, FS_Subset
  <2>3. Cardinality(counted) \in Nat /\ Cardinality(everActive) \in Nat
      BY <2>1, <2>2, FS_CardinalityType
  <2>4. elections \in Nat
      BY ElectionsAssumption DEF ChoiceInv, ElectedInv
  <2> QED
      BY <2>2, <2>3, <2>4 DEF ChoiceInv, ElectedInv, AskedInv
<1> QED
    BY <1>1, ChoiceInvariant, PTL

\* The controller that stayed one is in the sum of the sample, if it answered.
THEOREM ChoiceSteadyIsCounted == Spec => []SteadyIsCounted
<1>1. ChoiceInv => SteadyIsCounted
  <2> SUFFICES ASSUME ChoiceInv, sample # <<>> PROVE steady \cap Ids \subseteq counted \cup unanswered
      BY DEF SteadyIsCounted
  <2>1. asked = Len(found)
      BY DEF ChoiceInv, ChosenInv
  <2>2. Ids = AskedIds
      BY <2>1, FoundList DEF ChoiceInv, Ids, AskedIds
  <2> QED
      BY <2>2 DEF ChoiceInv, AskedInv
<1> QED
    BY <1>1, ChoiceInvariant, PTL

\* With Zookeeper and a controller that did not move, that broker alone is counted
\* and gives the sample, if it is in the list, answers and is named.
THEOREM ChoiceStableClusterSample == Spec => []StableClusterSample
<1>1. ChoiceInv => StableClusterSample
  <2> SUFFICES ASSUME ChoiceInv, NEW c \in steady \cap Ids, ~kraft, elections = 0, sample # <<>>
               PROVE  /\ c \notin unanswered => sample[1].count = 1
                      /\ controller # NoBroker => sample[1].broker = c
      BY DEF StableClusterSample
  <2> USE DEF ChoiceInv
  <2>1. sample[1].broker = chosen /\ sample[1].count = activeCount /\ phase = "done"
      BY DEF ChosenInv
  <2>2. everActive = {c}
    <3>1. {c} \subseteq everActive /\ IsFiniteSet(everActive) /\ Cardinality(everActive) <= 1
        BY DEF ElectedInv
    <3>2. /\ Cardinality({c}) = 1 /\ Cardinality({c}) <= Cardinality(everActive)
          /\ Cardinality({c}) = Cardinality(everActive) => {c} = everActive
        BY <3>1, FS_Singleton, FS_Subset
    <3>3. Cardinality(everActive) \in Nat
        BY <3>1, FS_CardinalityType
    <3> QED
        BY <3>1, <3>2, <3>3
  <2>3. ASSUME c \notin unanswered PROVE activeCount = 1
    <3>1. c \in AskedIds
      <4>1. asked = Len(found)
          BY <2>1 DEF ChosenInv
      <4> QED
          BY <4>1, FoundList DEF Ids, AskedIds
    <3>2. counted = {c}
        BY <2>2, <2>3, <3>1 DEF AskedInv
    <3>3. Cardinality({c}) = 1
        BY FS_Singleton
    <3> QED
        BY <3>2, <3>3 DEF AskedInv
  <2>4. ASSUME controller # NoBroker PROVE chosen = c
    <3>1. controller = c
        BY <2>2, <2>4 DEF ChosenInv, Named
    <3>2. found # <<>>
        BY DEF Ids
    <3> QED
        BY <2>1, <3>1, <3>2 DEF ChosenInv
  <2> QED
      BY <2>1, <2>3, <2>4
<1> QED
    BY <1>1, ChoiceInvariant, PTL
==============================================================================
