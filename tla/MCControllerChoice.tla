-------------------------- MODULE MCControllerChoice --------------------------
(* A broker with two listeners, one behind an endpoint that does not parse and *)
(* a listener without protocol, and one with the listener nobody prefers.      *)
EXTENDS ControllerChoice, TLC

CONSTANTS b1, b2, b3

In(l)     == [parses |-> TRUE, listener |-> l, mapped |-> TRUE]
Broken(l) == [parses |-> FALSE, listener |-> l, mapped |-> TRUE]
Orphan(l) == [parses |-> TRUE, listener |-> l, mapped |-> FALSE]

MCEndpointsOf ==
    b1 :> <<In("inside"), In("outside")>>
    @@ b2 :> <<Broken("outside"), Orphan("inside"), In("outside"), In("inside")>>
    @@ b3 :> <<In("outside")>>

MCArguments ==
    [strategy : {"bootstrap"}, localOnly : BOOLEAN, bootstrap : {b2, NoBroker},
     preferred : {NoPreference}, named : BOOLEAN, metrics : {TRUE}]
    \cup
    [strategy : {"zookeeper"}, localOnly : {FALSE}, bootstrap : {NoBroker},
     preferred : {NoPreference, "inside"}, named : {TRUE}, metrics : {TRUE}]
    \cup
    [strategy : {"unknown", "bootstrap"}, localOnly : {FALSE}, bootstrap : {NoBroker},
     preferred : {NoPreference}, named : {TRUE}, metrics : {FALSE}]
==============================================================================
