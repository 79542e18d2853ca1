--------------------------- MODULE TaskGenerator ---------------------------
(***************************************************************************)
(* The query families of python/neuroseek/data/tasks.py: which tasks the   *)
(* seeded generator can hand to a search, whatever its random stream, and  *)
(* the two validators that judge a search without trusting the generator   *)
(* or the policy.                                                          *)
(*                                                                         *)
(* Abstractions.  The random stream is a choice from the set of tasks that *)
(* a family can produce.  Task ids, seeds, splits and the distractor count *)
(* are left out: no search step reads them.  A parallel duplicate of an    *)
(* edge is the edge.                                                       *)
(***************************************************************************)
EXTENDS Naturals, Sequences, FiniteSets

CONSTANTS
  Nodes,      \* compact entity ids
  Relations,  \* compact relation ids
  Graph,      \* the mmap CSR graph, as its set of edges
  MinHops, MaxHops,  \* TaskGenerator.min_hops, max_hops
  Budget,     \* the budget given to each query
  Families    \* the families the caller asks for

Edge == [src : Nodes, relation : Relations, dst : Nodes]

ASSUME TaskAssumption ==
  /\ Nodes \subseteq Nat /\ IsFiniteSet(Nodes)
  /\ Graph \subseteq Edge
  /\ MinHops \in Nat \ {0} /\ MaxHops \in Nat /\ MinHops <= MaxHops
  /\ Budget \in Nat \ {0}

QuerySpec == [family      : {"path", "distractor", "robustness", "intersection"},
              source      : Nodes,
              answer      : Nodes,
              relations   : Seq(Relations),
              budget      : Nat,
              constraints : Seq(Nodes \X Relations),
              disabled    : SUBSET Edge,
              proof       : Seq(Nodes)]

\* TaskGenerator.next: the walks of h hops along real edges.
Walks(h) == {w \in [1 .. h -> Graph] : \A i \in 1 .. h - 1 : w[i].dst = w[i + 1].src}

PathTask(w) ==
  [family |-> "path", source |-> w[1].src, answer |-> w[Len(w)].dst,
   relations |-> [i \in 1 .. Len(w) |-> w[i].relation], budget |-> Budget,
   constraints |-> << >>, disabled |-> {},
   proof |-> [i \in 1 .. Len(w) + 1 |-> IF i = 1 THEN w[1].src ELSE w[i - 1].dst]]

PathTasks == UNION {{PathTask(w) : w \in Walks(h)} : h \in MinHops .. MaxHops}

\* The edges out of the source other than the first demonstrated one.
Alternatives(q) ==
  {e \in Graph : e.src = q.source /\ ~(e.dst = q.proof[2] /\ e.relation = q.relations[1])}

DistractorTasks ==
  {[q EXCEPT !.family = "distractor"] : q \in {p \in PathTasks : Alternatives(p) # {}}}

\* next_robustness: one irrelevant first-hop edge is hidden from the episode.
RobustnessTasks ==
  UNION {{[q EXCEPT !.family = "robustness", !.disabled = {e}] : e \in Alternatives(q)} :
           q \in DistractorTasks}

\* next_intersection: two different (source, relation) pairs into one answer.
IntersectionTasks ==
  {[family |-> "intersection", source |-> p[1].src, answer |-> p[1].dst,
    relations |-> <<p[1].relation>>, budget |-> Budget,
    constraints |-> <<<<p[1].src, p[1].relation>>, <<p[2].src, p[2].relation>>>>,
    disabled |-> {}, proof |-> << >>] :
     p \in {pair \in Graph \X Graph : pair[1] # pair[2] /\ pair[1].dst = pair[2].dst}}

Tasks == {q \in PathTasks \cup DistractorTasks \cup RobustnessTasks \cup IntersectionTasks :
            q.family \in Families}

\* The i-th edge that a node path claims for q.
Claimed(q, path, i) == [src |-> path[i], relation |-> q.relations[i], dst |-> path[i + 1]]

ValidatePathProof(q, path) ==
  /\ Len(path) = Len(q.relations) + 1
  /\ path[1] = q.source /\ path[Len(path)] = q.answer
  /\ \A i \in 1 .. Len(q.relations) : Claimed(q, path, i) \in Graph

ValidateIntersectionProof(q) ==
  /\ q.family = "intersection"
  /\ Len(q.constraints) >= 2
  /\ \A i \in 1 .. Len(q.constraints) :
       [src |-> q.constraints[i][1], relation |-> q.constraints[i][2], dst |-> q.answer] \in Graph
=============================================================================
