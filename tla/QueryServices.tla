---------------------------- MODULE QueryServices ---------------------------
(***************************************************************************)
(* What the read-only front ends share: the lookups of the compiled graph  *)
(* (data/graph.py), the resolution of a word to Wikidata identifiers       *)
(* (search_console.py) and the run of the learned policy on one task.      *)
(* An identifier is a model value and stands for the local id too, since   *)
(* the lookup table is one to one; labels and texts are left out.          *)
(***************************************************************************)
EXTENDS Naturals, SequencesExt

CONSTANTS Items,       \* the Q-IDs of Wikidata
          Properties,  \* the P-IDs of Wikidata
          Edges,       \* the local graph: per local item its <<target, property>>
          Word,        \* a search term that is no identifier
          MaxFound,    \* results of one Wikidata search
          Nothing      \* no value

ASSUME QueryAssumption ==
  /\ DOMAIN Edges \subseteq Items
  /\ \A item \in DOMAIN Edges : Edges[item] \in Seq((DOMAIN Edges) \X Properties)
  /\ Items \cap Properties = {}
  /\ MaxFound \in Nat
  /\ Word \notin Items \cup Properties
  /\ Nothing \notin Items \cup Properties \cup {Word}

LocalItems == DOMAIN Edges
LocalProperties ==
  UNION {{Edges[item][i][2] : i \in DOMAIN Edges[item]} : item \in LocalItems}

\* find_entity_identifier and find_relation_identifier
IsLocal(id) == id \in LocalItems \cup LocalProperties

\* wikidata_candidates, past the shortcut for a term that is an identifier: the
\* set of possible results, Nothing among them when the request fails.
Resolutions(term, universe) ==
  IF term = Word THEN {Nothing} \cup BoundedSeq(universe, MaxFound) ELSE {<<term>>}

FirstLocal(found) ==
  LET local == {i \in DOMAIN found : IsLocal(found[i])}
  IN  IF local = {} THEN Nothing ELSE CHOOSE i \in local : \A j \in local : i <= j

\* neighbors(entity), the filter on the relation, the first edges of the rest.
Passes(edge, property) == property = Nothing \/ edge[2] = property
Matching(item, property) ==
  LET edges == Edges[item]
      among[i \in 0 .. Len(edges)] ==  \* those of the first i edges
        IF i = 0 THEN <<>>
        ELSE IF Passes(edges[i], property) THEN Append(among[i - 1], edges[i])
        ELSE among[i - 1]
  IN  among[Len(edges)]
Facts(item, property, limit) ==
  LET all == Matching(item, property)
  IN  SubSeq(all, 1, IF Len(all) < limit THEN Len(all) ELSE limit)

\* The policy on one task: it takes the best action until the environment is
\* done, and after maxSteps a STOP is executed for it.
Episodes(task, maxSteps) ==
  [task : {task}, steps : 1 .. maxSteps, forced : {FALSE}]
    \cup {[task |-> task, steps |-> maxSteps + 1, forced |-> TRUE]}
=============================================================================
