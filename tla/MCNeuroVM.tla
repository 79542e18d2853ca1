----------------------------- MODULE MCNeuroVM -----------------------------
(* Small instances of NeuroVM for TLC.                                     *)
EXTENDS NeuroVM

\* A diamond 0 -> {1, 2} -> 3 with a parallel edge and a cycle back to 0;
\* node 4 is an id the graph does not have.
Ids == 0 .. 4
E(s, r, d) == [src |-> s, relation |-> r, dst |-> d]
Diamond == {E(0, 1, 1), E(0, 1, 2), E(1, 1, 3), E(1, 2, 3), E(2, 2, 3), E(3, 2, 0)}

\* ANN replies: a duplicate of one node, two ranks, and an id off the graph.
S(n, s) == [node |-> n, score |-> s]
Replies == {{S(2, 0), S(2, 2), S(1, 1)}, {S(4, 1)}}
============================================================================
