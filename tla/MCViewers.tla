------------------------------ MODULE MCViewers -----------------------------
EXTENDS Viewers

CONSTANTS Q1, Q2, Q3, P1, P2, P3

\* Two local items of three, two local properties of three.
SmallGraph == (Q1 :> <<<<Q2, P1>>, <<Q2, P2>>, <<Q1, P1>>>>) @@ (Q2 :> <<<<Q1, P2>>>>)
=============================================================================
