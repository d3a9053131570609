-------------------------- MODULE MCConsumerOffsets --------------------------
(* A group with two members of one client id and one member of another, a    *)
(* consumed topic, a topic nobody consumes in some assignments, and an       *)
(* internal topic.  The lags add up differently for every set of partitions. *)
EXTENDS ConsumerOffsets, TLC

CONSTANTS m1, m2, m3, t1, t2, internal, c1, c2

MCClientOf == m1 :> c1 @@ m2 :> c1 @@ m3 :> c2

\* A topic split over two members of one client; a topic with an unassigned
\* partition beside one that is fully unassigned; nothing assigned.
MCAssignments ==
    { m1 :> {<<t1, 0>>} @@ m2 :> {<<t1, 1>>} @@ m3 :> {},
      m1 :> {<<t1, 0>>} @@ m2 :> {} @@ m3 :> {<<t2, 1>>},
      m1 :> {<<t2, 0>>} @@ m2 :> {} @@ m3 :> {} }

MCLagOf ==
    <<t1, 0>> :> 1 @@ <<t1, 1>> :> 2 @@ <<t2, 0>> :> 4 @@ <<t2, 1>> :> -8
    @@ <<internal, 0>> :> 16 @@ <<internal, 1>> :> 32
==============================================================================
