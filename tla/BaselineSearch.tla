----------------------------- MODULE BaselineSearch -----------------------------
(***************************************************************************)
(* The baselines of python/neuroseek/evaluation/baselines.py: the fixed    *)
(* relation plan, the breadth-first search and the hybrid, run one after   *)
(* the other on one task, a hop (or a constraint) at a time.               *)
(*                                                                         *)
(* A node that several frontier nodes reach keeps the first of them, in    *)
(* ascending order, as its parent at that depth.  Latencies are left out.  *)
(***************************************************************************)
EXTENDS TaskGenerator, Integers

\* The graph is a file.
ASSUME FileAssumption == IsFiniteSet(Graph)

VARIABLES
  query,    \* the task
  search,   \* the baseline that is running
  reports   \* the results so far

baselineVars == <<query, search, reports>>

NoAnswer     == -1
Plans        == <<"fixed_relation", "bfs", "hybrid">>
PathFamilies == {"path", "distractor", "robustness"}

NoSearch == [pc |-> "idle", plan |-> "", depth |-> 0, frontier |-> {}, parents |-> << >>,
             edges |-> 0, nodes |-> 0, credits |-> 0]

BaselineInit(q) ==
  /\ query = q
  /\ search = NoSearch
  /\ reports = << >>

Out(v)      == {e \in Graph : e.src = v}
OutOf(S)    == {e \in Graph : e.src \in S}
LeastOf(S)  == CHOOSE v \in S : \A w \in S : v <= w

\* _result
Result(s, applicable, answer, valid, steps, proof, exhausted) ==
  [plan |-> s.plan, applicable |-> applicable, answer |-> answer, correct |-> answer = query.answer,
   valid |-> valid, nodes |-> s.nodes, edges |-> s.edges, steps |-> steps, credits |-> s.credits,
   proof |-> proof, exhausted |-> exhausted]

Report(result) ==
  /\ reports' = Append(reports, result)
  /\ search' = NoSearch
  /\ UNCHANGED query

-----------------------------------------------------------------------------
(* One hop of the two path searches *)

\* Variant: the overlay of the episode is ignored.
Followed_NoOverlay(s) ==
  {e \in OutOf(s.frontier) : s.plan = "bfs" \/ e.relation = query.relations[s.depth + 1]}

\* The edges a search follows: the wanted relation only, or any; never a disabled one.
Followed(s) ==
  {e \in OutOf(s.frontier) :
     /\ s.plan = "bfs" \/ e.relation = query.relations[s.depth + 1]
     /\ e \notin query.disabled}

\* parents[(depth, child)]
Parents(s, followed) ==
  LET keys == {<<s.depth + 1, e.dst>> : e \in followed}
  IN  [key \in DOMAIN s.parents \cup keys |->
         IF key \in keys THEN LeastOf({e.src : e \in {f \in followed : f.dst = key[2]}})
         ELSE s.parents[key]]

\* The path back from the answer at the given depth.
PathBack(parents, depth) ==
  LET node[d \in 0 .. depth] == IF d = depth THEN query.answer ELSE parents[<<d + 1, node[d + 1]>>]
  IN  [i \in 1 .. depth + 1 |-> node[i - 1]]

ValidProof(proof) ==
  ValidatePathProof(query, proof) /\
  \A i \in 1 .. Len(query.relations) : Claimed(query, proof, i) \notin query.disabled

SearchStart ==
  /\ search.pc = "idle" /\ Len(reports) < Len(Plans)
  /\ LET plan == Plans[Len(reports) + 1]
         s    == [NoSearch EXCEPT !.plan = plan]
         path == query.family \in PathFamilies
     IN  IF path /\ plan # "hybrid"
         THEN /\ search' = [s EXCEPT !.pc = "hop", !.frontier = {query.source}]
              /\ UNCHANGED <<query, reports>>
         ELSE IF path     \* the hybrid is the fixed plan for a path
         THEN Report([reports[1] EXCEPT !.plan = plan])
         ELSE IF plan = "hybrid"
         THEN /\ search' = [s EXCEPT !.pc = "constraint", !.frontier = Nodes]
              /\ UNCHANGED <<query, reports>>
         ELSE Report(Result(s, FALSE, NoAnswer, FALSE, 0, << >>, FALSE))

\* One depth: the frontier is expanded and paid for; an exhausted budget, an empty
\* frontier, the last relation or, for the breadth-first search, the answer ends it.
SearchHop ==
  /\ search.pc = "hop"
  /\ LET followed == Followed(search)
         next     == {e.dst : e \in followed}
         s == [search EXCEPT !.depth = @ + 1, !.frontier = next, !.parents = Parents(search, followed),
                             !.edges = @ + Cardinality(OutOf(search.frontier)),
                             !.nodes = @ + Cardinality(next), !.credits = @ + 1 + Cardinality(next)]
         found == query.answer \in next
         hops  == Len(query.relations)
         proof == PathBack(s.parents, s.depth)
     IN  IF s.credits > query.budget
         THEN Report(Result(s, TRUE, NoAnswer, FALSE, s.depth, << >>, TRUE))
         ELSE IF s.plan = "bfs" /\ found
         THEN Report(Result(s, TRUE, query.answer, s.depth = hops /\ ValidProof(proof), s.depth, proof, FALSE))
         ELSE IF next # {} /\ s.depth < hops
         THEN search' = s /\ UNCHANGED <<query, reports>>
         ELSE IF s.plan = "fixed_relation" /\ found /\ s.depth = hops
         THEN Report(Result(s, TRUE, query.answer, ValidProof(proof), hops, proof, FALSE))
         ELSE Report(Result(s, TRUE, NoAnswer, FALSE, hops, << >>, FALSE))

Candidates(s, reached) == s.frontier \cap reached

\* One constraint of an intersection: its answers are paid for, then intersected.
SearchConstraint ==
  /\ search.pc = "constraint"
  /\ LET c       == query.constraints[search.depth + 1]
         reached == {e.dst : e \in {f \in Out(c[1]) : f.relation = c[2]}}
         s == [search EXCEPT !.depth = @ + 1, !.frontier = Candidates(search, reached),
                             !.edges = @ + Cardinality(Out(c[1])),
                             !.nodes = @ + Cardinality(reached), !.credits = @ + 1 + Cardinality(reached)]
         steps == Len(query.constraints)
         found == query.answer \in s.frontier
     IN  IF s.credits > query.budget
         THEN Report(Result(s, TRUE, NoAnswer, FALSE, steps, << >>, TRUE))
         ELSE IF s.depth < steps
         THEN search' = s /\ UNCHANGED <<query, reports>>
         ELSE Report(Result(s, TRUE, IF found THEN query.answer ELSE NoAnswer,
                            found /\ ValidateIntersectionProof(query), steps, << >>, FALSE))

BaselineNext == SearchStart \/ SearchHop \/ SearchConstraint

=============================================================================
