------------------------------ MODULE WorkerPool ------------------------------
(***************************************************************************)
(* The worker pools of the integration: brokers, topics, consumers and      *)
(* producers each have an unbuffered channel, a fixed number of workers     *)
(* that receive from it until it is closed, and a feeder goroutine that     *)
(* sends every item and then closes it.  One wait group counts the workers  *)
(* of all pools.                                                            *)
(*                                                                          *)
(* A send on an unbuffered channel and its receive are one step.  What a    *)
(* worker does with an item is up to the module that uses the pools: it     *)
(* ends with HandleItem.                                                    *)
(***************************************************************************)
EXTENDS Integers, FiniteSets

CONSTANTS
    Pools,        \* names of the pools
    Workers,      \* worker goroutines of all pools
    PoolOf,       \* the pool of each worker
    Items         \* what the feeders send: brokers, topics, hosts

ASSUME PoolAssumption == PoolOf \in [Workers -> Pools] /\ IsFiniteSet(Workers)

VARIABLES
    queue,        \* items the feeder of each pool has still to send
    feeder,       \* feeder of each pool: "off", "feeding", "closed" (the channel)
    worker,       \* state of each worker: "off", "receive", "item", "gone"
    item,         \* item each worker has last received
    outcome,      \* "pending", "taken", then what became of the item
    wg            \* the wait group

poolVars == <<queue, feeder, worker, item, outcome, wg>>

NoItem == "no item"
WorkersOf(p) == {w \in Workers : PoolOf[w] = p}
Outcomes == {"pending", "taken", "collected", "failed"}

PoolInit ==
    /\ queue = [p \in Pools |-> {}]
    /\ feeder = [p \in Pools |-> "off"]
    /\ worker = [w \in Workers |-> "off"]
    /\ item = [w \in Workers |-> NoItem]
    /\ outcome = [x \in Items |-> "pending"]
    /\ wg = 0

-----------------------------------------------------------------------------
\* Mutant: the workers are started without wg.Add.
StartPools_NoAdd(ps) ==
    /\ worker' = [w \in Workers |-> IF PoolOf[w] \in ps THEN "receive" ELSE worker[w]]
    /\ UNCHANGED wg

\* wg.Add(1) and go, for every worker of the pools.
StartPools(ps) ==
    /\ worker' = [w \in Workers |-> IF PoolOf[w] \in ps THEN "receive" ELSE worker[w]]
    /\ wg' = wg + Cardinality({w \in Workers : PoolOf[w] \in ps})

\* go Feed...(): the feeders of the pools start with these items.
StartFeeders(ps, items) ==
    /\ feeder' = [p \in Pools |-> IF p \in ps THEN "feeding" ELSE feeder[p]]
    /\ queue' = [p \in Pools |-> IF p \in ps THEN items[p] ELSE queue[p]]

\* Mutant: the item is sent again.
Deliver_Resend(w, x) ==
    LET p == PoolOf[w]
    IN  /\ feeder[p] = "feeding"
        /\ worker[w] = "receive"
        /\ x \in queue[p]
        /\ worker' = [worker EXCEPT ![w] = "item"]
        /\ item' = [item EXCEPT ![w] = x]
        /\ outcome' = [outcome EXCEPT ![x] = "taken"]
        /\ UNCHANGED <<queue, feeder, wg>>

\* A feeder sends an item to a worker that is receiving.
Deliver(w, x) ==
    LET p == PoolOf[w]
    IN  /\ feeder[p] = "feeding"
        /\ worker[w] = "receive"
        /\ x \in queue[p]
        /\ queue' = [queue EXCEPT ![p] = @ \ {x}]
        /\ worker' = [worker EXCEPT ![w] = "item"]
        /\ item' = [item EXCEPT ![w] = x]
        /\ outcome' = [outcome EXCEPT ![x] = "taken"]
        /\ UNCHANGED <<feeder, wg>>

\* Mutant: the channel is closed before every item was sent.
CloseChannel_Early(p) ==
    /\ feeder[p] = "feeding"
    /\ feeder' = [feeder EXCEPT ![p] = "closed"]
    /\ UNCHANGED <<queue, worker, item, outcome, wg>>

\* The feeder has sent everything: its deferred close.
CloseChannel(p) ==
    /\ feeder[p] = "feeding"
    /\ queue[p] = {}
    /\ feeder' = [feeder EXCEPT ![p] = "closed"]
    /\ UNCHANGED <<queue, worker, item, outcome, wg>>

\* The worker is done with its item and receives again.
HandleItem(w, result) ==
    /\ worker[w] = "item"
    /\ worker' = [worker EXCEPT ![w] = "receive"]
    /\ outcome' = [outcome EXCEPT ![item[w]] = result]
    /\ item' = [item EXCEPT ![w] = NoItem]
    /\ UNCHANGED <<queue, feeder, wg>>

\* The receive reports a closed channel: the worker returns, wg.Done().
WorkerReturns(w) ==
    /\ worker[w] = "receive"
    /\ feeder[PoolOf[w]] = "closed"
    /\ worker' = [worker EXCEPT ![w] = "gone"]
    /\ wg' = wg - 1
    /\ UNCHANGED <<queue, feeder, item, outcome>>

-----------------------------------------------------------------------------
PoolTypeOK ==
    /\ queue \in [Pools -> SUBSET Items]
    /\ feeder \in [Pools -> {"off", "feeding", "closed"}]
    /\ worker \in [Workers -> {"off", "receive", "item", "gone"}]
    /\ item \in [Workers -> Items \cup {NoItem}]
    /\ outcome \in [Items -> Outcomes]
    /\ wg \in Nat

Running == {w \in Workers : worker[w] \in {"receive", "item"}}
==============================================================================
