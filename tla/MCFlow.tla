------------------------------- MODULE MCFlow -------------------------------
(* Instances of FlowExecutor for TLC: two small graphs in the style of      *)
(* tests/flow_plugin/flowtest_flows.py and of the guess example of the      *)
(* user guide.                                                              *)
EXTENDS FlowExecutor, TLC

CONSTANTS alice, bob, room, r1, r2, na, nb, nc, end, ca, cb, f1, f2, w1, w2, e1, e2

MCNodes == {r1, na, nb, nc, end}
\* r1 -> a -> {b, FLOW_END}, b -> a; c, which shares its command with b, is a
\* node of another graph.  The edges from a have a predicate of the plugin.
MCChildren ==
    [n \in MCNodes |-> IF n \in {r1, nb} THEN <<na>>
                       ELSE IF n = na THEN <<nb, end>> ELSE << >>]
MCCommandOf ==
    [n \in MCNodes |-> IF n = na THEN ca ELSE IF n = nb THEN cb
                       ELSE IF n = nc THEN cb ELSE None]
MCTriggers == [r \in {r1} |-> {ca}]
MCAutoEdges == {<<na, nb>>, <<na, end>>}

MCRoomOf == [s \in Senders |-> IF s = alice THEN room ELSE None]

\* r1 -> a: the flow ends with its only command.
ShortChildren == [n \in MCNodes |-> IF n = r1 THEN <<na>> ELSE << >>]

\* b was connected with hints=False.
QuietNode == MCNodes \ {nb}

FlowSymmetry == Permutations({w1, w2}) \cup Permutations({e1, e2})
=============================================================================
