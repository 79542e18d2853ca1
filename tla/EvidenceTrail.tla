--------------------------- MODULE EvidenceTrail ---------------------------
(***************************************************************************)
(* What a NEURO-ISA search promises about its evidence, whatever program   *)
(* runs on it: the evidence is a trail of batches of graph edges that only *)
(* grows at its end, every branch point keeps the trail it was made at,    *)
(* the only way to lose evidence is to go back to the newest branch point  *)
(* (or to nothing when there is none), every batch is paid for out of a    *)
(* budget that is never refunded, and a closed search never changes again. *)
(***************************************************************************)
EXTENDS Naturals, Sequences

CONSTANTS
  Edges,     \* the edges of the graph
  Budget,    \* what the search may spend in all
  Price(_)   \* the least a batch of edges costs

VARIABLES trail, branches, spent, closed

tvars == <<trail, branches, spent, closed>>

Init == trail = << >> /\ branches = << >> /\ spent = 0 /\ closed = FALSE

Spend(least) == spent' \in Nat /\ spent' >= spent + least /\ spent' <= Budget

\* A new branch point, with or without a new batch of evidence.
Advance ==
  /\ ~closed
  /\ branches' = Append(branches, trail)
  /\ \/ trail' = trail /\ Spend(0)
     \/ \E batch \in SUBSET Edges :
          trail' = Append(trail, batch) /\ Spend(Price(batch))
  /\ UNCHANGED closed

\* Back to the newest branch point; going back costs something.
Return ==
  /\ ~closed
  /\ IF branches = << >>
       THEN trail' = << >> /\ UNCHANGED branches
       ELSE /\ trail' = branches[Len(branches)]
            /\ branches' = SubSeq(branches, 1, Len(branches) - 1)
  /\ Spend(1)
  /\ UNCHANGED closed

\* Work on the frontier, which leaves the evidence alone.
Work ==
  /\ ~closed
  /\ Spend(0)
  /\ UNCHANGED <<trail, branches, closed>>

Close ==
  /\ ~closed
  /\ closed' = TRUE
  /\ Spend(1)
  /\ UNCHANGED <<trail, branches>>

Next == Advance \/ Return \/ Work \/ Close

Spec == Init /\ [][Next]_tvars
=============================================================================
