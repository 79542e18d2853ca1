------------------------------ MODULE MCBackends ------------------------------
(* Small instances of Backends for TLC.                                        *)
EXTENDS Backends

\* The graph the baselines search: it branches, it has a cycle and two ways to one node.
MCGraph ==
  {[src |-> 0, relation |-> 1, dst |-> 1], [src |-> 0, relation |-> 1, dst |-> 2],
   [src |-> 0, relation |-> 2, dst |-> 2], [src |-> 1, relation |-> 2, dst |-> 3],
   [src |-> 2, relation |-> 2, dst |-> 3], [src |-> 2, relation |-> 1, dst |-> 0],
   [src |-> 3, relation |-> 1, dst |-> 2]}

Triple(h, r, t) == [head |-> h, relation |-> r, tail |-> t]
Texts   == {"a", "b", "c"}
Triples == {Triple(h, r, t) : h \in Texts, r \in {"p", "q", "r"}, t \in Texts}

\* Every file of up to two triples, and three that start alike.
MCRowSets ==
  UNION {[1 .. n -> Triples] : n \in 1 .. 2}
    \cup {<<Triple("a", "p", "b"), x, y>> : x \in Triples, y \in Triples}

MCDeviceRows ==
  {<<Triple("a", "p", "b"), Triple("a", "q", "c"), Triple("b", "p", "c"), Triple("a", "p", "b")>>,
   <<Triple("a", "p", "a"), Triple("b", "q", "a")>>}

MCFrontiers  == {<< >>, <<0>>, <<0, 1>>, <<0, 0>>, <<0, 1, 0>>, <<1, 3>>}
MCCapacities == {None, 1, 5}
MCScoreSets  == UNION {[1 .. n -> 0 .. 2] : n \in 1 .. 5}
=============================================================================
