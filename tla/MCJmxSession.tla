----------------------------- MODULE MCJmxSession -----------------------------
(* A table of two MBeans, one of them with two metrics, tables of one MBean, and *)
(* sessions of every kind with the options that change the plan.                 *)
EXTENDS JmxSession

CONSTANTS t1, t2, c1, c2

MCTables ==
    [t \in TableNames |-> IF t = "cluster" THEN <<{t}, {"a", "b"}>> ELSE <<{t}>>]

MCAttributes == {<<>>, <<3>>, <<Error>>, <<Text, 1>>, <<1, Error, 2>>}
MCDetected == {<<>>, <<c1>>, <<c2, c1>>}

Plain == [kind |-> "broker", metrics |-> TRUE, inventory |-> FALSE, extended |-> FALSE,
        sizes |-> FALSE, offsets |-> FALSE, name |-> None, mode |-> "none", matching |-> {t1},
        validRegex |-> TRUE, topics |-> <<t1, t2>>]

ClientSessions ==
    {[Plain EXCEPT !.kind = k, !.mode = m] :
        k \in {"consumer", "producer"}, m \in {"list", "regex", "all", "invalid"}}

MCSessions ==
    {[Plain EXCEPT !.inventory = TRUE, !.extended = TRUE, !.topics = <<t1>>],
     [Plain EXCEPT !.sizes = TRUE],
     [Plain EXCEPT !.sizes = TRUE, !.offsets = TRUE, !.topics = <<t1>>],
     [Plain EXCEPT !.inventory = TRUE, !.metrics = FALSE],
     [Plain EXCEPT !.kind = "cluster"],
     [Plain EXCEPT !.kind = "cluster", !.metrics = FALSE],
     [Plain EXCEPT !.kind = "producer", !.name = c1],
     [Plain EXCEPT !.kind = "producer", !.mode = "regex", !.validRegex = FALSE, !.name = c1],
     [Plain EXCEPT !.kind = "consumer", !.metrics = FALSE]}
    \cup ClientSessions
==============================================================================
