---------------------------- MODULE MCDataRelease ----------------------------
(* Small instances of DataRelease for TLC.                                   *)
EXTENDS DataRelease
\* The middle batch samples only heads without outgoing edges.
SomeEdges == {0, 2}
=============================================================================
