------------------------------ MODULE LagRollup ------------------------------
(***************************************************************************)
(* What the offset collection of one consumer group promises, without its   *)
(* goroutines, wait groups and channels: partition lags are measured, every *)
(* measured lag is counted once in each rollup it is due in, and the        *)
(* rollups are published only when nothing measured is left uncounted.      *)
(*                                                                          *)
(* A lag measured for a member's assignment is due in the client rollup and *)
(* in the group rollup, one measured for a partition nobody consumes only   *)
(* in the group rollup.                                                     *)
(***************************************************************************)

CONSTANTS
    Lags,         \* the lags that may be measured
    MemberLags    \* those of them measured for a partition assigned to a member

VARIABLES
    measured,     \* the lags measured so far
    counted,      \* per rollup, the lags it has counted
    published     \* whether the rollups have been handed to the integration

vars == <<measured, counted, published>>

Rollups == {"client", "group"}

DueIn(r) == IF r = "client" THEN measured \cap MemberLags ELSE measured

Init ==
    /\ measured = {}
    /\ counted = [r \in Rollups |-> {}]
    /\ published = FALSE

Measure(x) ==
    /\ ~published
    /\ measured' = measured \cup {x}
    /\ UNCHANGED <<counted, published>>

Count(r, x) ==
    /\ x \in DueIn(r) \ counted[r]
    /\ counted' = [counted EXCEPT ![r] = @ \cup {x}]
    /\ UNCHANGED <<measured, published>>

Publish ==
    /\ \A r \in Rollups : counted[r] = DueIn(r)
    /\ published' = TRUE
    /\ UNCHANGED <<measured, counted>>

Next ==
    \/ \E x \in Lags : Measure(x)
    \/ \E r \in Rollups, x \in Lags : Count(r, x)
    \/ Publish

Spec == Init /\ [][Next]_vars
==============================================================================
