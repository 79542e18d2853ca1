---------------------------- MODULE MCSearchEnv ----------------------------
(* Small instances of SearchEnv for TLC.                                   *)
EXTENDS SearchEnv

E(s, r, d) == [src |-> s, relation |-> r, dst |-> d]
Nodes4 == 0 .. 3

\* A diamond with a way back: two predecessors of node 3, two relations,
\* and fan-in for intersections.
Diamond == {E(0, 1, 1), E(0, 1, 2), E(1, 1, 3), E(2, 1, 3), E(2, 2, 3), E(3, 2, 0)}
\* The diamond with a loop at its source in place of the way back, so that a
\* walk may use a first-hop edge later.
DiamondLoop == (Diamond \ {E(3, 2, 0)}) \cup {E(0, 1, 0)}

\* Two sources are indexed; the embedding space has node 3 near both.
Reply == [n \in {0, 1} |-> IF n = 0 THEN {0, 3} ELSE {3}]
=============================================================================
