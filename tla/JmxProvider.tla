----------------------------- MODULE JmxProvider -----------------------------
(***************************************************************************)
(* JMXProviderWithConnectionsLimit: at most MaxJMXConnections JMX           *)
(* connections at a time, over the goroutines that collect with them.       *)
(*                                                                          *)
(* The limit is a weighted semaphore (golang.org/x/sync, external): Acquire *)
(* takes a unit at once when one is free and nobody waits, otherwise joins  *)
(* a queue; Release hands its unit to the head of the queue.  Both are      *)
(* atomic under the semaphore's own mutex.  NewConnection acquires and then *)
(* opens, giving the unit back if the open fails; Close closes and gives it *)
(* back, whatever Close returns.                                            *)
(***************************************************************************)
EXTENDS Integers, Sequences, FiniteSets

CONSTANTS
    Callers,             \* goroutines that open JMX connections
    MaxJMXConnections    \* argument of the same name; zero is accepted too

ASSUME CallersAssumption == IsFiniteSet(Callers)
ASSUME LimitAssumption == MaxJMXConnections \in Nat

VARIABLES
    cur,        \* units of the semaphore that are taken
    waiters,    \* callers blocked in Acquire, in order
    conn        \* per caller: "none", "waiting", "opening" or "open"

jmxVars == <<cur, waiters, conn>>

ConnStates == {"none", "waiting", "opening", "open"}

JmxInit ==
    /\ cur = 0
    /\ waiters = <<>>
    /\ conn = [c \in Callers |-> "none"]

-----------------------------------------------------------------------------
\* Mutant: one connection too many.
AcquireFree_OffByOne(c) ==
    /\ conn[c] = "none"
    /\ cur <= MaxJMXConnections /\ waiters = <<>>
    /\ cur' = cur + 1
    /\ conn' = [conn EXCEPT ![c] = "opening"]
    /\ UNCHANGED waiters

\* sem.Acquire succeeds at once.
AcquireFree(c) ==
    /\ conn[c] = "none"
    /\ cur < MaxJMXConnections /\ waiters = <<>>
    /\ cur' = cur + 1
    /\ conn' = [conn EXCEPT ![c] = "opening"]
    /\ UNCHANGED waiters

\* sem.Acquire blocks.
AcquireWait(c) ==
    /\ conn[c] = "none"
    /\ ~(cur < MaxJMXConnections /\ waiters = <<>>)
    /\ waiters' = Append(waiters, c)
    /\ conn' = [conn EXCEPT ![c] = "waiting"]
    /\ UNCHANGED cur

\* The open function returned a client.
Opened(c) ==
    /\ conn[c] = "opening"
    /\ conn' = [conn EXCEPT ![c] = "open"]
    /\ UNCHANGED <<cur, waiters>>

\* sem.Release(1) with nobody waiting.
ReleaseFree(c) ==
    /\ waiters = <<>>
    /\ cur' = cur - 1
    /\ conn' = [conn EXCEPT ![c] = "none"]
    /\ UNCHANGED waiters

\* sem.Release(1) hands the unit over: the head of the queue returns from Acquire.
ReleaseHandOver(c) ==
    /\ waiters # <<>>
    /\ waiters' = Tail(waiters)
    /\ conn' = [conn EXCEPT ![c] = "none", ![Head(waiters)] = "opening"]
    /\ UNCHANGED cur

Release(c) == ReleaseFree(c) \/ ReleaseHandOver(c)

NewConnection(c) == AcquireFree(c) \/ AcquireWait(c)

\* Mutant: a failed open keeps its unit.
OpenFails_Leak(c) ==
    /\ conn[c] = "opening"
    /\ conn' = [conn EXCEPT ![c] = "none"]
    /\ UNCHANGED <<cur, waiters>>

OpenFails(c) == conn[c] = "opening" /\ Release(c)

\* Mutant: a close that fails returns before its release.
Close_OnlyWhenOk(c) ==
    /\ conn[c] = "open"
    /\ \/ Release(c)
       \/ conn' = [conn EXCEPT ![c] = "none"] /\ UNCHANGED <<cur, waiters>>

\* The release is deferred: it is done whether the client closes well or not.
Close(c) == conn[c] = "open" /\ Release(c)

-----------------------------------------------------------------------------
\* The provider with callers that only open and close.
JmxNext ==
    \E c \in Callers : NewConnection(c) \/ Opened(c) \/ OpenFails(c) \/ Close(c)

JmxSpec == JmxInit /\ [][JmxNext]_jmxVars

-----------------------------------------------------------------------------
(* Properties.                                                              *)

JmxTypeOK ==
    /\ cur \in Nat
    /\ waiters \in Seq(Callers)
    /\ conn \in [Callers -> ConnStates]

Holders == {c \in Callers : conn[c] \in {"opening", "open"}}

\* There are never more connections than the limit, those being opened included.
ConnectionLimit == Cardinality(Holders) <= MaxJMXConnections

\* Every unit taken is held by exactly one caller: no open or close, whether it
\* ends well or not, leaks a unit or gives one back twice (jmx.go:54, 88), in
\* whatever order the callers take, wait for and give back theirs.
UnitsHeld == cur = Cardinality(Holders)

\* A caller waits only while every unit is taken (the semaphore's own promise).
NoLostWakeup == waiters # <<>> => cur = MaxJMXConnections

\* The queue holds each blocked caller once, and nobody else.
QueueIsTheBlocked ==
    /\ \A c \in Callers : conn[c] = "waiting" <=> \E i \in 1 .. Len(waiters) : waiters[i] = c
    /\ \A i, j \in 1 .. Len(waiters) : waiters[i] = waiters[j] => i = j
==============================================================================
