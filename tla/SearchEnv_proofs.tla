-------------------------- MODULE SearchEnv_proofs --------------------------
(***************************************************************************)
(* Proofs about SearchEnv for every graph, task, ranking, semantic store   *)
(* and program.                                                            *)
(***************************************************************************)
EXTENDS SearchEnv, FiniteSetTheorems, SequenceTheorems, WellFoundedInduction, TLAPS

-----------------------------------------------------------------------------
(* Helpers *)

\* A non-empty set of nodes has a least node, and Least finds it.
LEMMA LeastNode ==
  ASSUME NEW S \in SUBSET Nodes, S # {}
  PROVE  Least(S) \in S
<1>1. IsWellFoundedOn(OpToRel(<, Nat), Nat)
  BY NatLessThanWellFounded
<1>2. S \subseteq Nat
  BY TaskAssumption
<1>3. PICK n \in S : \A m \in S : ~ (<<m, n>> \in OpToRel(<, Nat))
  BY <1>1, <1>2, WFMin
<1>4. \A m \in S : ~ (m < n)
  BY <1>2, <1>3 DEF OpToRel
<1>5. \A m \in S : n <= m
  BY <1>2, <1>4
<1>. QED
  BY <1>5 DEF Least

\* The size of a set of nodes is a natural number.
LEMMA NodeCount ==
  ASSUME NEW S \in SUBSET Nodes
  PROVE  Cardinality(S) \in Nat
  BY FS_Subset, FS_CardinalityType, TaskAssumption

\* Every task a generator can produce is well formed.
LEMMA PathTaskTyped ==
  ASSUME NEW h \in MinHops .. MaxHops, NEW w \in Walks(h)
  PROVE  PathTask(w) \in QuerySpec
<1>1. h \in Nat \ {0}
  BY TaskAssumption
<1>2. w \in [1 .. h -> Graph]
  BY DEF Walks
<1>3. w \in Seq(Graph) /\ Len(w) = h
  BY <1>1, <1>2
<1>4. \A i \in 1 .. h : w[i].src \in Nodes /\ w[i].dst \in Nodes /\ w[i].relation \in Relations
  BY <1>2, TaskAssumption DEF Edge
<1>5. [i \in 1 .. Len(w) |-> w[i].relation] \in Seq(Relations)
  BY <1>1, <1>3, <1>4
<1>6. [i \in 1 .. Len(w) + 1 |-> IF i = 1 THEN w[1].src ELSE w[i - 1].dst] \in Seq(Nodes)
  <2>1. ASSUME NEW i \in 1 .. Len(w) + 1
        PROVE  (IF i = 1 THEN w[1].src ELSE w[i - 1].dst) \in Nodes
    <3>1. CASE i = 1
      BY <1>1, <1>3, <1>4, <3>1
    <3>2. CASE i # 1
      <4>1. i - 1 \in 1 .. h
        BY <1>1, <1>3, <3>2
      <4>. QED
        BY <1>4, <3>2, <4>1
    <3>. QED
      BY <3>1, <3>2
  <2>2. Len(w) + 1 \in Nat
    BY <1>1, <1>3
  <2>. QED
    BY <2>1, <2>2
<1>7. << >> \in Seq(Nodes \X Relations)
  OBVIOUS
<1>8. w[1].src \in Nodes /\ w[Len(w)].dst \in Nodes /\ Budget \in Nat
  BY <1>1, <1>3, <1>4, TaskAssumption
<1>. QED
  BY <1>5, <1>6, <1>7, <1>8 DEF PathTask, QuerySpec

LEMMA TasksTyped == Tasks \subseteq QuerySpec
<1>1. PathTasks \subseteq QuerySpec
  BY PathTaskTyped DEF PathTasks
<1>2. DistractorTasks \subseteq QuerySpec
  BY <1>1 DEF DistractorTasks, QuerySpec
<1>3. ASSUME NEW q \in DistractorTasks, NEW e \in Alternatives(q)
      PROVE  [q EXCEPT !.family = "robustness", !.disabled = {e}] \in QuerySpec
  <2>1. {e} \in SUBSET Edge
    BY TaskAssumption DEF Alternatives
  <2>. QED
    BY <1>2, <2>1 DEF QuerySpec
<1>4. RobustnessTasks \subseteq QuerySpec
  <2>1. SUFFICES ASSUME NEW t \in RobustnessTasks PROVE t \in QuerySpec
    OBVIOUS
  <2>2. PICK q \in DistractorTasks :
          t \in {[q EXCEPT !.family = "robustness", !.disabled = {e}] : e \in Alternatives(q)}
    BY DEF RobustnessTasks
  <2>. QED
    BY <1>3, <2>2
<1>5. ASSUME NEW a \in Graph, NEW b \in Graph
      PROVE  [family |-> "intersection", source |-> a.src, answer |-> a.dst,
              relations |-> <<a.relation>>, budget |-> Budget,
              constraints |-> <<<<a.src, a.relation>>, <<b.src, b.relation>>>>,
              disabled |-> {}, proof |-> << >>] \in QuerySpec
  <2>1. /\ a.src \in Nodes /\ a.dst \in Nodes /\ a.relation \in Relations
        /\ b.src \in Nodes /\ b.relation \in Relations /\ Budget \in Nat
    BY TaskAssumption DEF Edge
  <2>2. <<a.relation>> \in Seq(Relations)
    BY <2>1
  <2>3. <<<<a.src, a.relation>>, <<b.src, b.relation>>>> \in Seq(Nodes \X Relations)
    BY <2>1
  <2>4. << >> \in Seq(Nodes)
    OBVIOUS
  <2>. QED
    BY <2>1, <2>2, <2>3, <2>4 DEF QuerySpec
<1>6. IntersectionTasks \subseteq QuerySpec
  BY <1>5 DEF IntersectionTasks
<1>. QED
  BY <1>1, <1>2, <1>4, <1>6 DEF Tasks

-----------------------------------------------------------------------------
(* Type correctness *)

Ops == {"EXPAND_REL", "EXPAND_ANY"}

LEMMA QueryTyped ==
  ASSUME query \in QuerySpec
  PROVE  /\ query.source \in Nodes /\ query.answer \in Nodes
         /\ query.relations \in Seq(Relations) /\ Len(query.relations) \in Nat
         /\ query.budget \in Nat /\ query.constraints \in Seq(Nodes \X Relations)
         /\ query.disabled \in SUBSET Edge
         /\ MaxIssued \in Nat
  BY EnvAssumption DEF QuerySpec, MaxIssued

\* What an expansion produces: nodes, edges of the graph, and for each node
\* a predecessor in the frontier it came from.
LEMMA ExpansionTyped ==
  ASSUME query \in QuerySpec, frontier \subseteq Nodes, NEW op \in Ops
  PROVE  /\ NextFrontier(op) \in SUBSET Nodes
         /\ Admitted(op) \in SUBSET Graph
         /\ Predecessors(op) \in Layer
         /\ DOMAIN Predecessors(op) \subseteq Targets(Admitted(op))
         /\ \A c \in DOMAIN Predecessors(op) : Predecessors(op)[c] \in frontier
<1>1. Touched \subseteq Graph /\ Admitted(op) \subseteq Touched
  BY DEF Touched, Admitted
<1>2. \A e \in Graph : e.src \in Nodes /\ e.dst \in Nodes
  BY TaskAssumption DEF Edge
<1>3. NextFrontier(op) \in SUBSET Nodes
  BY <1>1, <1>2 DEF NextFrontier, CpuFrontier, CudaFrontier, KernelReturns, Targets
<1>. DEFINE D == NextFrontier(op) \cap Targets(Admitted(op))
            S(c) == {e.src : e \in {a \in Admitted(op) : a.dst = c}}
<1>4. ASSUME NEW c \in D
      PROVE  Least(S(c)) \in frontier
  <2>1. S(c) \in SUBSET frontier
    BY DEF Admitted, Touched
  <2>2. S(c) # {}
    BY DEF Targets
  <2>3. S(c) \in SUBSET Nodes
    BY <2>1
  <2>4. Least(S(c)) \in S(c)
    BY <2>2, <2>3, LeastNode
  <2>. QED
    BY <2>1, <2>4
<1>5. Predecessors(op) = [c \in D |-> Least(S(c))]
  BY DEF Predecessors
<1>. HIDE DEF S
<1>6. Predecessors(op) \in [D -> Nodes] /\ DOMAIN Predecessors(op) = D
  BY <1>4, <1>5
<1>7. D \in SUBSET Nodes
  BY <1>3
<1>. HIDE DEF D
<1>8. Predecessors(op) \in Layer
  BY <1>6, <1>7 DEF Layer
<1>9. D \subseteq Targets(Admitted(op))
  BY DEF D
<1>. QED
  BY <1>1, <1>3, <1>4, <1>5, <1>6, <1>8, <1>9

LEMMA TypeInit == Init => TypeOK
<1>. SUFFICES ASSUME Init PROVE TypeOK
  OBVIOUS
<1>1. query \in QuerySpec
  BY TasksTyped DEF Init
<1>2. MaxIssued \in Nat
  BY <1>1, QueryTyped
<1>3. /\ parents = << >> /\ walked = << >> /\ depth = 0 /\ path = << >>
      /\ parents \in Seq(Layer) /\ walked \in Seq(SUBSET Graph) /\ path \in Seq(Nodes)
  BY DEF Init
<1>4. result \in [valid : BOOLEAN, correct : BOOLEAN]
  BY DEF Init, Judged
<1>5. session \in BOOLEAN /\ issued \in 0 .. MaxIssued + 1
  BY <1>2, EnvAssumption DEF Init
<1>6. frontier \subseteq Nodes /\ aux \subseteq Nodes /\ saved \subseteq Nodes
  BY DEF Init
<1>7. credits \in Nat /\ done \in BOOLEAN /\ onScript \in BOOLEAN /\ answer \in {NoAnswer, query.answer}
  BY DEF Init
<1>8. depth = Len(parents) /\ depth = Len(walked)
  BY <1>3
<1>. QED
  BY <1>1, <1>3, <1>4, <1>5, <1>6, <1>7, <1>8 DEF TypeOK

\* The bookkeeping that every operator shares.
LEMMA IssueTyped ==
  ASSUME TypeOK, NEW op, Issue(op)
  PROVE  /\ query' \in QuerySpec /\ session' \in BOOLEAN
         /\ issued' \in 0 .. MaxIssued' + 1 /\ onScript' \in BOOLEAN
         /\ query' = query /\ session' = session /\ issued' = issued + 1 /\ ~done
<1>1. query' = query /\ session' = session /\ issued' = issued + 1 /\ issued < MaxIssued /\ ~done
  BY DEF Issue
<1>2. MaxIssued' = MaxIssued /\ MaxIssued \in Nat
  BY <1>1, QueryTyped DEF MaxIssued, TypeOK
<1>3. onScript' \in BOOLEAN
  BY DEF Issue, TypeOK
<1>. QED
  BY <1>1, <1>2, <1>3 DEF TypeOK

\* An operator that only pays, or only works on the frontier registers.
LEMMA WorkTyped ==
  ASSUME TypeOK, NEW op, Issue(op),
         UNCHANGED <<parents, depth, path, walked, answer>>,
         frontier' \subseteq Nodes, aux' \subseteq Nodes, saved' \subseteq Nodes,
         credits' \in Nat, done' \in BOOLEAN, UNCHANGED result
  PROVE  TypeOK'
  BY IssueTyped DEF TypeOK, Layer

LEMMA RestartTyped ==
  ASSUME TypeOK, NEW op, Issue(op), Restarted, aux' \subseteq Nodes, Pay(1), UNCHANGED answer
  PROVE  TypeOK'
<1>1. query.source \in Nodes
  BY QueryTyped DEF TypeOK
<1>2. /\ frontier' \subseteq Nodes /\ saved' \subseteq Nodes
      /\ parents' \in Seq(Layer) /\ walked' \in Seq(SUBSET Graph)
      /\ depth' = Len(parents') /\ depth' = Len(walked') /\ path' \in Seq(Nodes)
  BY <1>1 DEF Restarted
<1>3. credits' \in Nat /\ done' \in BOOLEAN /\ result' = result
  BY DEF Pay, TypeOK
<1>4. Layer' = Layer
  BY DEF Layer
<1>. QED
  BY <1>2, <1>3, <1>4, IssueTyped DEF TypeOK

\* A path that is found runs over the recorded predecessors.
LEMMA ReconstructedPath ==
  ASSUME TypeOK, NEW n \in Nodes, NEW p, p = ReconstructPath(n)
  PROVE  /\ p \in Seq(Nodes)
         /\ p # << >> => p \in Chains(n) /\ Len(p) = Len(parents) + 1
<1>. DEFINE fromSource == {c \in Chains(n) : c[1] = query.source}
<1>1. CASE fromSource = {}
  BY <1>1 DEF ReconstructPath
<1>2. CASE fromSource # {}
  <2>1. p \in fromSource
    BY <1>2 DEF ReconstructPath
  <2>2. Len(parents) + 1 \in Nat
    BY DEF TypeOK
  <2>3. p \in [1 .. Len(parents) + 1 -> Nodes]
    BY <2>1 DEF Chains
  <2>. QED
    BY <2>1, <2>2, <2>3
<1>. QED
  BY <1>1, <1>2

\* Closing the episode only sets the verdict.
LEMMA CloseTyped ==
  ASSUME TypeOK, Close, query' = query, session' = session,
         issued' \in 0 .. MaxIssued' + 1, onScript' \in BOOLEAN
  PROVE  TypeOK'
<1>1. result' \in [valid : BOOLEAN, correct : BOOLEAN]
  BY DEF Close, Judged, Valid, ValidateIntersectionProof, ValidatePathProof, AvoidsDisabled
<1>2. credits' \in Nat /\ done' \in BOOLEAN
  BY DEF Close, TypeOK
<1>3. UNCHANGED <<branch, answer>>
  BY DEF Close
<1>4. Layer' = Layer
  BY DEF Layer
<1>. QED
  BY <1>1, <1>2, <1>3, <1>4 DEF TypeOK, branch

LEMMA TypeStep == TypeOK /\ [Next]_vars => TypeOK'
<1>. SUFFICES ASSUME TypeOK, [Next]_vars PROVE TypeOK'
  OBVIOUS
<1>q. /\ query.source \in Nodes /\ query.constraints \in Seq(Nodes \X Relations)
      /\ Len(query.relations) \in Nat
  BY QueryTyped DEF TypeOK
<1>1. CASE Seed
  <2>1. aux' \subseteq Nodes
    BY <1>1, <1>q DEF Seed
  <2>. QED
    BY <1>1, <2>1, RestartTyped DEF Seed
<1>2. CASE AnnUnavailable
  BY <1>2, WorkTyped DEF AnnUnavailable, Pay, branch, TypeOK
<1>3. CASE Ann
  <2>1. SemanticReply[query.source] \in SUBSET Nodes
    BY <1>3, EnvAssumption DEF Ann
  <2>2. credits' \in Nat /\ done' \in BOOLEAN /\ result' = result
    BY <1>3, EnvAssumption DEF Ann, PayChecked, Exhausted, TypeOK
  <2>. QED
    BY <1>3, <2>1, <2>2, WorkTyped DEF Ann, TypeOK
<1>4. ASSUME NEW op \in Ops, ExpandNothing(op) PROVE TypeOK'
  BY <1>4, WorkTyped DEF ExpandNothing, Pay, branch, TypeOK
<1>5. ASSUME NEW op \in Ops, ExpandOverCap(op) PROVE TypeOK'
  BY <1>5, WorkTyped DEF ExpandOverCap, branch, TypeOK
<1>6. ASSUME NEW op \in Ops, Expand(op) PROVE TypeOK'
  <2>. DEFINE cost == 1 + Cardinality(NextFrontier(op))
  <2>1. /\ NextFrontier(op) \in SUBSET Nodes /\ Admitted(op) \in SUBSET Graph
        /\ Predecessors(op) \in Layer
    BY <1>6, ExpansionTyped DEF TypeOK
  <2>2. cost \in Nat
    BY <2>1, NodeCount
  <2>. HIDE DEF cost
  <2>3. credits' \in Nat /\ done' \in BOOLEAN /\ result' = result /\ answer' = answer
    BY <1>6, <2>2 DEF Expand, cost, PayChecked, Exhausted, TypeOK
  <2>4. CASE Exhausted(cost)
    BY <1>6, <2>3, <2>4, WorkTyped DEF Expand, cost, branch, TypeOK
  <2>5. CASE ~Exhausted(cost)
    <3>1. /\ frontier' \subseteq Nodes /\ aux' = aux /\ saved' = saved /\ path' = path
          /\ depth' = depth + 1
      BY <1>6, <2>1, <2>5 DEF Expand, cost
    <3>2. /\ parents' = Append(parents, Predecessors(op))
          /\ walked' = Append(walked, Admitted(op))
      BY <1>6, <2>5 DEF Expand, cost
    <3>3. /\ parents' \in Seq(Layer) /\ walked' \in Seq(SUBSET Graph)
          /\ Len(parents') = Len(parents) + 1 /\ Len(walked') = Len(walked) + 1
      <4>1. parents \in Seq(Layer) /\ walked \in Seq(SUBSET Graph)
        BY DEF TypeOK
      <4>2. parents' \in Seq(Layer) /\ Len(parents') = Len(parents) + 1
        BY <2>1, <3>2, <4>1, AppendProperties
      <4>3. walked' \in Seq(SUBSET Graph) /\ Len(walked') = Len(walked) + 1
        BY <2>1, <3>2, <4>1, AppendProperties
      <4>. QED
        BY <4>2, <4>3
    <3>4. Layer' = Layer
      BY DEF Layer
    <3>5. Issue(op)
      BY <1>6 DEF Expand
    <3>. QED
      BY <2>3, <3>1, <3>3, <3>4, <3>5, IssueTyped DEF TypeOK
  <2>. QED
    BY <2>4, <2>5
<1>7. ASSUME NEW op, TopK(op) PROVE TypeOK'
  BY <1>7, WorkTyped DEF TopK, Pay, TypeOK
<1>8. CASE Filter
  <2>1. Cardinality(frontier) \in Nat
    BY NodeCount DEF TypeOK
  <2>2. credits' \in Nat /\ done' \in BOOLEAN /\ result' = result
    BY <1>8, <2>1 DEF Filter, PayChecked, Exhausted, TypeOK
  <2>3. frontier' \subseteq Nodes
    BY <1>8 DEF Filter, TypeOK
  <2>. QED
    BY <1>8, <2>2, <2>3, WorkTyped DEF Filter, TypeOK
<1>9. CASE IntersectInapplicable
  BY <1>9, WorkTyped DEF IntersectInapplicable, Pay, branch, TypeOK
<1>10. CASE Intersect
  <2>1. Other \in SUBSET Nodes
    BY TaskAssumption DEF Other, Targets, Edge
  <2>2. Cardinality(Other) \in Nat
    BY <2>1, NodeCount
  <2>3. credits' \in Nat /\ done' \in BOOLEAN /\ result' = result
    BY <1>10, <2>2 DEF Intersect, PayChecked, Exhausted, TypeOK
  <2>4. frontier' \subseteq Nodes
    BY <1>10 DEF Intersect, TypeOK
  <2>. QED
    BY <1>10, <2>3, <2>4, WorkTyped DEF Intersect, TypeOK
<1>11. CASE Union
  <2>1. frontier' \in SUBSET Nodes
    BY <1>11 DEF Union, TypeOK
  <2>2. Cardinality(frontier') \in Nat
    BY <2>1, NodeCount
  <2>3. credits' \in Nat /\ done' \in BOOLEAN /\ result' = result
    BY <1>11, <2>2 DEF Union, PayChecked, Exhausted, TypeOK
  <2>. QED
    BY <1>11, <2>1, <2>3, WorkTyped DEF Union, TypeOK
<1>12. CASE Verify
  <2>1. /\ Issue("VERIFY") /\ UNCHANGED <<frontier, aux, saved, parents, depth, walked>>
        /\ credits' \in Nat /\ done' = done /\ result' = result
    BY <1>12 DEF Verify, Pay, TypeOK
  <2>2. query.answer \in Nodes
    BY QueryTyped DEF TypeOK
  <2>3. answer' \in {NoAnswer, query.answer} /\ path' \in Seq(Nodes)
    <3>1. ReconstructPath(query.answer) \in Seq(Nodes)
      BY <2>2, ReconstructedPath
    <3>2. CASE query.answer \in frontier
      <4>1. path' = (IF IsIntersection(query) THEN << >> ELSE ReconstructPath(query.answer))
        BY <1>12, <3>2 DEF Verify
      <4>2. << >> \in Seq(Nodes)
        OBVIOUS
      <4>3. answer' = query.answer
        BY <1>12, <3>2 DEF Verify
      <4>. QED
        BY <3>1, <4>1, <4>2, <4>3
    <3>3. CASE query.answer \notin frontier
      BY <1>12, <3>3 DEF Verify, TypeOK
    <3>. QED
      BY <3>2, <3>3
  <2>4. Layer' = Layer
    BY DEF Layer
  <2>. QED
    BY <2>1, <2>3, <2>4, IssueTyped DEF TypeOK
<1>13. CASE Stop
  BY <1>13, CloseTyped, IssueTyped DEF Stop
<1>14. CASE CallerStop
  <2>1. MaxIssued \in Nat /\ query' = query /\ session' = session /\ issued' = MaxIssued + 1
    BY <1>14, QueryTyped DEF CallerStop, TypeOK
  <2>2. MaxIssued' = MaxIssued
    BY <2>1 DEF MaxIssued
  <2>3. issued' \in 0 .. MaxIssued' + 1
    BY <2>1, <2>2
  <2>4. onScript' \in BOOLEAN /\ Close
    BY <1>14 DEF CallerStop
  <2>. QED
    BY <2>1, <2>3, <2>4, CloseTyped
<1>15. CASE Backtrack
  BY <1>15, RestartTyped DEF Backtrack, TypeOK
<1>16. CASE UNCHANGED vars
  BY <1>16 DEF vars, TypeOK, Layer, MaxIssued
<1>. QED
  BY <1>1, <1>2, <1>3, <1>4, <1>5, <1>6, <1>7, <1>8, <1>9, <1>10, <1>11, <1>12,
     <1>13, <1>14, <1>15, <1>16 DEF Next, Ops

(* Every reachable state of the environment is well typed, and it always   *)
(* has one layer of predecessors and one set of admitted edges per level   *)
(* of depth: depth, parents and the evidence never drift apart.            *)
THEOREM TypeCorrect == Spec => []TypeOK
  BY TypeInit, TypeStep, PTL DEF Spec

-----------------------------------------------------------------------------
(* The evidence behind a verdict *)

(* What an expansion recorded as a predecessor it also walked: every edge  *)
(* of the query's next relation from the predecessor to the node, unless   *)
(* the episode hides it, is among the edges of that expansion.             *)
LayersWalked ==
  \A i \in 1 .. Len(parents) : i <= Len(query.relations) =>
    \A c \in DOMAIN parents[i] : \A e \in Graph \ query.disabled :
      e.src = parents[i][c] /\ e.relation = query.relations[i] /\ e.dst = c => e \in walked[i]

\* proof_path, whenever it was verified, still runs over the predecessors.
PathRecorded ==
  \A i \in 1 .. Len(path) - 1 :
    /\ i <= Len(parents)
    /\ path[i + 1] \in DOMAIN parents[i] /\ path[i] = parents[i][path[i + 1]]

\* Only a closed episode is judged valid.
JudgedWhenDone == result.valid => done

IInv == /\ TypeOK /\ LayersWalked /\ PathRecorded /\ JudgedWhenDone
        /\ ValidProofIsExecuted

(* The heart of the argument: a path the validator accepts was recorded    *)
(* layer by layer, and each of its edges was walked by its own expansion.  *)
LEMMA AcceptedPathWalked ==
  ASSUME TypeOK, LayersWalked, PathRecorded, Valid, ~IsIntersection(query)
  PROVE  \E c \in [1 .. Len(query.relations) + 1 -> Nodes] : ExecutedPath(c)
<1>. DEFINE n == Len(query.relations)
<1>1. n \in Nat
  BY QueryTyped DEF TypeOK
<1>2. ValidatePathProof(query, path) /\ AvoidsDisabled(path)
  BY DEF Valid
<1>3. path \in Seq(Nodes) /\ Len(path) = n + 1
  BY <1>2 DEF ValidatePathProof, TypeOK
<1>4. path \in [1 .. n + 1 -> Nodes]
  BY <1>3
<1>5. ASSUME NEW i \in 1 .. n
      PROVE  i <= Len(walked) /\ Claimed(query, path, i) \in walked[i] \ query.disabled
  <2>1. i \in 1 .. Len(path) - 1
    BY <1>1, <1>3
  <2>2. /\ i <= Len(parents)
        /\ path[i + 1] \in DOMAIN parents[i] /\ path[i] = parents[i][path[i + 1]]
    BY <2>1 DEF PathRecorded
  <2>3. Claimed(query, path, i) \in Graph \ query.disabled
    BY <1>2 DEF ValidatePathProof, AvoidsDisabled
  <2>4. i \in 1 .. Len(parents) /\ Len(parents) = Len(walked)
    BY <2>2 DEF TypeOK
  <2>5. /\ Claimed(query, path, i).src = path[i]
        /\ Claimed(query, path, i).relation = query.relations[i]
        /\ Claimed(query, path, i).dst = path[i + 1]
    BY DEF Claimed
  <2>6. Claimed(query, path, i) \in walked[i]
    BY <1>1, <2>2, <2>3, <2>4, <2>5 DEF LayersWalked
  <2>. QED
    BY <2>2, <2>3, <2>4, <2>6
<1>6. n <= Len(walked)
  <2>1. Len(walked) \in Nat
    BY DEF TypeOK
  <2>2. CASE n = 0
    BY <2>1, <2>2
  <2>3. CASE n # 0
    BY <1>1, <1>5, <2>3
  <2>. QED
    BY <2>2, <2>3
<1>7. path[1] = query.source /\ path[Len(path)] = query.answer
  BY <1>2 DEF ValidatePathProof
<1>8. ExecutedPath(path)
  BY <1>5, <1>6, <1>7 DEF ExecutedPath
<1>. QED
  BY <1>4, <1>8

\* Operators that leave the evidence and the verdict alone.
LEMMA EvidenceKept ==
  ASSUME IInv, ~done, query' = query,
         UNCHANGED <<parents, walked, path, result>>
  PROVE  LayersWalked' /\ PathRecorded' /\ JudgedWhenDone' /\ ValidProofIsExecuted'
<1>1. ~result.valid /\ ~result'.valid
  BY DEF IInv, JudgedWhenDone
<1>2. LayersWalked'
  BY DEF IInv, LayersWalked
<1>3. PathRecorded'
  BY DEF IInv, PathRecorded
<1>. QED
  BY <1>1, <1>2, <1>3 DEF JudgedWhenDone, ValidProofIsExecuted

LEMMA EvidenceDropped ==
  ASSUME IInv, ~done, Restarted, query' = query, result' = result
  PROVE  LayersWalked' /\ PathRecorded' /\ JudgedWhenDone' /\ ValidProofIsExecuted'
<1>1. ~result.valid /\ ~result'.valid
  BY DEF IInv, JudgedWhenDone
<1>2. parents' = << >> /\ path' = << >>
  BY DEF Restarted
<1>3. LayersWalked'
  BY <1>2 DEF LayersWalked
<1>4. PathRecorded'
  BY <1>2 DEF PathRecorded
<1>. QED
  BY <1>1, <1>3, <1>4 DEF JudgedWhenDone, ValidProofIsExecuted

\* The layer that an expansion adds.
LEMMA NewLayerWalked ==
  ASSUME TypeOK, NEW op \in Ops, NEW c \in DOMAIN Predecessors(op),
         NEW e \in Graph \ query.disabled, Len(parents) < Len(query.relations),
         e.src = Predecessors(op)[c], e.relation = query.relations[Len(parents) + 1]
  PROVE  e \in Admitted(op)
<1>1. e.src \in frontier
  BY ExpansionTyped DEF TypeOK
<1>2. e.relation \in Relations
  BY TaskAssumption DEF Edge
<1>3. e.relation \in Wanted
  BY DEF Wanted, TypeOK
<1>. QED
  BY <1>1, <1>2, <1>3 DEF Admitted, Touched, Selects

LEMMA EvidenceGrown ==
  ASSUME IInv, ~done, query' = query, result' = result, path' = path, NEW op \in Ops,
         parents' = Append(parents, Predecessors(op)), walked' = Append(walked, Admitted(op))
  PROVE  LayersWalked' /\ PathRecorded' /\ JudgedWhenDone' /\ ValidProofIsExecuted'
<1>1. ~result.valid /\ ~result'.valid
  BY DEF IInv, JudgedWhenDone
<1>2. /\ Len(parents) \in Nat /\ Len(walked) = Len(parents)
      /\ Len(parents') = Len(parents) + 1
      /\ \A i \in 1 .. Len(parents) : parents'[i] = parents[i] /\ walked'[i] = walked[i]
      /\ parents'[Len(parents) + 1] = Predecessors(op)
      /\ walked'[Len(parents) + 1] = Admitted(op)
  <2>1. parents \in Seq(Layer) /\ walked \in Seq(SUBSET Graph) /\ Len(walked) = Len(parents)
    BY DEF IInv, TypeOK
  <2>2. Len(parents) \in Nat
    BY <2>1
  <2>3. Predecessors(op) \in Layer /\ Admitted(op) \in SUBSET Graph
    BY ExpansionTyped DEF IInv, TypeOK
  <2>4. /\ Len(parents') = Len(parents) + 1 /\ parents'[Len(parents) + 1] = Predecessors(op)
        /\ \A i \in 1 .. Len(parents) : parents'[i] = parents[i]
    BY <2>1, <2>3, AppendProperties
  <2>5. /\ walked'[Len(parents) + 1] = Admitted(op)
        /\ \A i \in 1 .. Len(parents) : walked'[i] = walked[i]
    BY <2>1, <2>3, AppendProperties
  <2>. QED
    BY <2>1, <2>2, <2>4, <2>5
<1>3. LayersWalked'
  <2>1. SUFFICES ASSUME NEW i \in 1 .. Len(parents'), i <= Len(query.relations),
                        NEW c \in DOMAIN parents'[i], NEW e \in Graph \ query.disabled,
                        e.src = parents'[i][c], e.relation = query.relations[i], e.dst = c
                 PROVE  e \in walked'[i]
    BY DEF LayersWalked
  <2>2. CASE i \in 1 .. Len(parents)
    <3>1. parents'[i] = parents[i] /\ walked'[i] = walked[i]
      BY <1>2, <2>2
    <3>. QED
      BY <2>1, <2>2, <3>1 DEF IInv, LayersWalked
  <2>3. CASE i = Len(parents) + 1
    <3>1. parents'[i] = Predecessors(op) /\ walked'[i] = Admitted(op)
      BY <1>2, <2>3
    <3>2. Len(parents) < Len(query.relations)
      BY <1>2, <2>1, <2>3, QueryTyped DEF IInv, TypeOK
    <3>. QED
      BY <2>1, <2>3, <3>1, <3>2, NewLayerWalked DEF IInv
  <2>. QED
    BY <1>2, <2>2, <2>3
<1>4. PathRecorded'
  <2>1. SUFFICES ASSUME NEW i \in 1 .. Len(path) - 1
                 PROVE  /\ i <= Len(parents')
                        /\ path[i + 1] \in DOMAIN parents'[i] /\ path[i] = parents'[i][path[i + 1]]
    BY DEF PathRecorded
  <2>2. /\ i <= Len(parents)
        /\ path[i + 1] \in DOMAIN parents[i] /\ path[i] = parents[i][path[i + 1]]
    BY DEF IInv, PathRecorded
  <2>3. i \in 1 .. Len(parents)
    BY <1>2, <2>2
  <2>. QED
    BY <1>2, <2>2, <2>3
<1>. QED
  BY <1>1, <1>3, <1>4 DEF JudgedWhenDone, ValidProofIsExecuted

LEMMA EvidenceVerified ==
  ASSUME IInv, Verify
  PROVE  LayersWalked' /\ PathRecorded' /\ JudgedWhenDone' /\ ValidProofIsExecuted'
<1>1. ~done /\ query' = query /\ parents' = parents /\ walked' = walked /\ result' = result
  BY DEF Verify, Issue, Pay
<1>2. ~result.valid /\ ~result'.valid
  BY <1>1 DEF IInv, JudgedWhenDone
<1>3. LayersWalked'
  BY <1>1 DEF IInv, LayersWalked
<1>4. PathRecorded'
  <2>1. CASE path' = path
    BY <1>1, <2>1 DEF IInv, PathRecorded
  <2>2. CASE path' = << >>
    BY <2>2 DEF PathRecorded
  <2>3. CASE path' # << >> /\ path' = ReconstructPath(query.answer)
    <3>1. path' \in Chains(query.answer) /\ Len(path') = Len(parents) + 1
      BY <2>3, ReconstructedPath, QueryTyped DEF IInv, TypeOK
    <3>2. Len(parents) \in Nat
      BY DEF IInv, TypeOK
    <3>3. \A i \in 1 .. Len(parents) :
            path'[i + 1] \in DOMAIN parents[i] /\ path'[i] = parents[i][path'[i + 1]]
      BY <3>1 DEF Chains
    <3>. QED
      BY <1>1, <3>1, <3>2, <3>3 DEF PathRecorded
  <2>. QED
    BY <2>1, <2>2, <2>3 DEF Verify
<1>. QED
  BY <1>2, <1>3, <1>4 DEF JudgedWhenDone, ValidProofIsExecuted

LEMMA EvidenceJudged ==
  ASSUME IInv, Close, query' = query
  PROVE  LayersWalked' /\ PathRecorded' /\ JudgedWhenDone' /\ ValidProofIsExecuted'
<1>1. parents' = parents /\ walked' = walked /\ path' = path /\ done'
  BY DEF Close, branch
<1>2. LayersWalked'
  BY <1>1 DEF IInv, LayersWalked
<1>3. PathRecorded'
  BY <1>1 DEF IInv, PathRecorded
<1>4. JudgedWhenDone'
  BY <1>1 DEF JudgedWhenDone
<1>5. ASSUME result'.valid, ~IsIntersection(query)
      PROVE  \E c \in [1 .. Len(query.relations) + 1 -> Nodes] : ExecutedPath(c)
  <2>1. Valid
    BY <1>5 DEF Close, Judged
  <2>. QED
    BY <1>5, <2>1, AcceptedPathWalked DEF IInv
<1>6. ValidProofIsExecuted'
  BY <1>1, <1>5 DEF ValidProofIsExecuted, IsIntersection, ExecutedPath, Claimed
<1>. QED
  BY <1>2, <1>3, <1>4, <1>6

LEMMA IInvInit == Init => IInv
<1>. SUFFICES ASSUME Init PROVE IInv
  OBVIOUS
<1>1. parents = << >> /\ path = << >> /\ result.valid = FALSE
  BY DEF Init, Judged
<1>2. LayersWalked /\ PathRecorded
  BY <1>1 DEF LayersWalked, PathRecorded
<1>. QED
  BY <1>1, <1>2, TypeInit DEF IInv, JudgedWhenDone, ValidProofIsExecuted

LEMMA IInvStep == IInv /\ [Next]_vars => IInv'
<1>. SUFFICES ASSUME IInv, [Next]_vars PROVE IInv'
  OBVIOUS
<1>t. TypeOK'
  BY TypeStep DEF IInv
<1>. DEFINE Goal == LayersWalked' /\ PathRecorded' /\ JudgedWhenDone' /\ ValidProofIsExecuted'
<1>g. SUFFICES Goal
  BY <1>t DEF IInv
<1>1. CASE Seed
  BY <1>1, EvidenceDropped DEF Seed, Issue, Pay
<1>2. CASE AnnUnavailable
  BY <1>2, EvidenceKept DEF AnnUnavailable, Issue, Pay, branch
<1>3. CASE Ann
  BY <1>3, EvidenceKept DEF Ann, Issue, PayChecked
<1>4. ASSUME NEW op \in Ops, ExpandNothing(op) PROVE Goal
  BY <1>4, EvidenceKept DEF ExpandNothing, Issue, Pay, branch
<1>5. ASSUME NEW op \in Ops, ExpandOverCap(op) PROVE Goal
  BY <1>5, EvidenceKept DEF ExpandOverCap, Issue, branch
<1>6. ASSUME NEW op \in Ops, Expand(op) PROVE Goal
  <2>1. ~done /\ query' = query /\ result' = result
    BY <1>6 DEF Expand, Issue, PayChecked
  <2>2. CASE UNCHANGED branch
    BY <2>1, <2>2, EvidenceKept DEF branch
  <2>3. CASE /\ parents' = Append(parents, Predecessors(op))
             /\ walked' = Append(walked, Admitted(op)) /\ path' = path
    BY <2>1, <2>3, EvidenceGrown
  <2>. QED
    BY <1>6, <2>2, <2>3 DEF Expand
<1>7. ASSUME NEW op, TopK(op) PROVE Goal
  BY <1>7, EvidenceKept DEF TopK, Issue, Pay
<1>8. CASE Filter
  BY <1>8, EvidenceKept DEF Filter, Issue, PayChecked
<1>9. CASE IntersectInapplicable
  BY <1>9, EvidenceKept DEF IntersectInapplicable, Issue, Pay, branch
<1>10. CASE Intersect
  BY <1>10, EvidenceKept DEF Intersect, Issue, PayChecked
<1>11. CASE Union
  BY <1>11, EvidenceKept DEF Union, Issue, PayChecked
<1>12. CASE Verify
  BY <1>12, EvidenceVerified
<1>13. CASE Stop
  BY <1>13, EvidenceJudged DEF Stop, Issue
<1>14. CASE CallerStop
  BY <1>14, EvidenceJudged DEF CallerStop
<1>15. CASE Backtrack
  BY <1>15, EvidenceDropped DEF Backtrack, Issue, Pay
<1>16. CASE UNCHANGED vars
  BY <1>16 DEF vars, IInv, LayersWalked, PathRecorded, JudgedWhenDone, ValidProofIsExecuted,
     IsIntersection, ExecutedPath, Claimed
<1>. QED
  BY <1>1, <1>2, <1>3, <1>4, <1>5, <1>6, <1>7, <1>8, <1>9, <1>10, <1>11, <1>12,
     <1>13, <1>14, <1>15, <1>16 DEF Next, Ops

(* A path query is judged valid only on the strength of edges that the     *)
(* program itself walked since the last SEED or BACKTRACK, in the order of *)
(* the query's relations and avoiding the hidden ones: for every graph,    *)
(* task, ranker, embedding store, CPU or CUDA expansion and program.       *)
THEOREM ProofAlwaysExecuted == Spec => []ValidProofIsExecuted
<1>1. IInv => ValidProofIsExecuted
  BY DEF IInv
<1>. QED
  BY <1>1, IInvInit, IInvStep, PTL DEF Spec

-----------------------------------------------------------------------------
(* What a frontier may hold *)

\* Operators that add no evidence, and take nodes from what the attempt owns.
LEMMA OwnKept ==
  ASSUME NothingRevived, UNCHANGED <<query, session, aux, walked, depth>>,
         frontier' \cup saved' \subseteq frontier \cup saved \cup OwnNodes
  PROVE  NothingRevived'
  BY DEF NothingRevived, OwnNodes, Targets

\* A recorded expansion reaches nothing but targets of the edges it walked.
LEMMA ReachedIsWalked ==
  ASSUME TypeOK, NEW op \in Ops, session => depth < Len(query.relations)
  PROVE  NextFrontier(op) \subseteq Targets(Admitted(op))
<1>1. CASE ~session
  BY <1>1 DEF NextFrontier, CpuFrontier
<1>2. CASE session
  <2>1. Wanted # {}
    BY <1>2 DEF Wanted
  <2>2. ASSUME NEW e \in Touched, e.relation \in Selects(op), e.dst \notin BlockedTargets(op)
        PROVE  e \in Admitted(op)
    <3>1. e.src \in frontier
      BY DEF Touched
    <3>2. e \notin query.disabled
      BY <2>2, <3>1 DEF BlockedTargets, Targets
    <3>. QED
      BY <2>2, <3>2 DEF Admitted
  <2>. QED
    BY <1>2, <2>1, <2>2 DEF NextFrontier, CudaFrontier, KernelReturns, Targets
<1>. QED
  BY <1>1, <1>2

LEMMA OwnGrown ==
  ASSUME TypeOK, NothingRevived, NEW op \in Ops,
         UNCHANGED <<query, session, aux, saved>>, depth' = depth + 1,
         frontier' = NextFrontier(op), walked' = Append(walked, Admitted(op))
  PROVE  NothingRevived'
<1>. SUFFICES ASSUME session => depth' <= Len(query.relations)
              PROVE  frontier' \cup saved' \subseteq OwnNodes'
  BY DEF NothingRevived
<1>1. depth \in Nat /\ Len(query.relations) \in Nat /\ walked \in Seq(SUBSET Graph)
  BY QueryTyped DEF TypeOK
<1>2. session => depth < Len(query.relations) /\ depth <= Len(query.relations)
  BY <1>1
<1>3. Admitted(op) \in SUBSET Graph
  BY ExpansionTyped DEF TypeOK
<1>4. /\ Len(walked') = Len(walked) + 1 /\ Len(walked) \in Nat
      /\ walked'[Len(walked) + 1] = Admitted(op)
      /\ \A i \in 1 .. Len(walked) : walked'[i] = walked[i]
  BY <1>1, <1>3, AppendProperties
<1>5. UNION {walked[i] : i \in 1 .. Len(walked)} \subseteq UNION {walked'[i] : i \in 1 .. Len(walked')}
  BY <1>4
<1>6. Admitted(op) \subseteq UNION {walked'[i] : i \in 1 .. Len(walked')}
  BY <1>4
<1>7. OwnNodes \subseteq OwnNodes' /\ Targets(Admitted(op)) \subseteq OwnNodes'
  BY <1>5, <1>6 DEF OwnNodes, Targets
<1>8. frontier' \subseteq Targets(Admitted(op))
  BY <1>2, ReachedIsWalked
<1>9. saved' \subseteq OwnNodes
  BY <1>2 DEF NothingRevived
<1>. QED
  BY <1>7, <1>8, <1>9

LEMMA OwnRestarted ==
  ASSUME Restarted, query' = query
  PROVE  NothingRevived'
  BY DEF Restarted, NothingRevived, OwnNodes

LEMMA OwnStep == TypeOK /\ NothingRevived /\ [Next]_vars => NothingRevived'
<1>. SUFFICES ASSUME TypeOK, NothingRevived, [Next]_vars PROVE NothingRevived'
  OBVIOUS
<1>1. CASE Seed
  BY <1>1, OwnRestarted DEF Seed, Issue
<1>2. CASE AnnUnavailable
  BY <1>2, OwnKept DEF AnnUnavailable, Issue, branch
<1>3. CASE Ann
  <2>1. frontier' \subseteq OwnNodes /\ saved' = frontier
    BY <1>3 DEF Ann, OwnNodes
  <2>. QED
    BY <1>3, <2>1, OwnKept DEF Ann, Issue
<1>4. ASSUME NEW op \in Ops, ExpandNothing(op) PROVE NothingRevived'
  BY <1>4, OwnKept DEF ExpandNothing, Issue, branch
<1>5. ASSUME NEW op \in Ops, ExpandOverCap(op) PROVE NothingRevived'
  BY <1>5, OwnKept DEF ExpandOverCap, Issue, branch
<1>6. ASSUME NEW op \in Ops, Expand(op) PROVE NothingRevived'
  <2>1. UNCHANGED <<query, session>>
    BY <1>6 DEF Expand, Issue
  <2>2. CASE UNCHANGED branch
    BY <2>1, <2>2, OwnKept DEF branch
  <2>3. CASE /\ frontier' = NextFrontier(op) /\ walked' = Append(walked, Admitted(op))
             /\ depth' = depth + 1 /\ UNCHANGED <<aux, saved>>
    BY <2>1, <2>3, OwnGrown
  <2>. QED
    BY <1>6, <2>2, <2>3 DEF Expand
<1>7. ASSUME NEW op, TopK(op) PROVE NothingRevived'
  BY <1>7, OwnKept DEF TopK, Issue
<1>8. CASE Filter
  <2>1. frontier' \subseteq frontier
    BY <1>8 DEF Filter
  <2>. QED
    BY <1>8, <2>1, OwnKept DEF Filter, Issue
<1>9. CASE IntersectInapplicable
  BY <1>9, OwnKept DEF IntersectInapplicable, Issue, branch
<1>10. CASE Intersect
  BY <1>10, OwnKept DEF Intersect, Issue
<1>11. CASE Union
  <2>1. frontier' \subseteq frontier \cup saved \cup OwnNodes
    BY <1>11 DEF Union, OwnNodes
  <2>. QED
    BY <1>11, <2>1, OwnKept DEF Union, Issue
<1>12. CASE Verify
  BY <1>12, OwnKept DEF Verify, Issue
<1>13. CASE Stop
  BY <1>13, OwnKept DEF Stop, Close, Issue, branch
<1>14. CASE CallerStop
  BY <1>14, OwnKept DEF CallerStop, Close, branch
<1>15. CASE Backtrack
  BY <1>15, OwnRestarted DEF Backtrack, Issue
<1>16. CASE UNCHANGED vars
  BY <1>16, OwnKept DEF vars
<1>. QED
  BY <1>1, <1>2, <1>3, <1>4, <1>5, <1>6, <1>7, <1>8, <1>9, <1>10, <1>11, <1>12,
     <1>13, <1>14, <1>15, <1>16 DEF Next, Ops

(* After a restart nothing of an abandoned attempt comes back into the     *)
(* frontier or the saved register, whatever mix of ANN, UNION, PRUNE and   *)
(* expansions follows.                                                     *)
THEOREM NothingEverRevived == Spec => []NothingRevived
<1>1. Init => NothingRevived
  BY DEF Init, NothingRevived
<1>. QED
  BY <1>1, OwnStep, TypeCorrect, PTL DEF Spec

-----------------------------------------------------------------------------
(* What a closed or running episode may have spent *)

Accounts == TypeOK /\ JudgedWhenDone /\ OverrunBounded

LEMMA PaidOne ==
  ASSUME Accounts, NEW op, Issue(op), Pay(1)
  PROVE  JudgedWhenDone' /\ OverrunBounded'
<1>1. /\ ~done /\ ~result.valid /\ issued' = issued + 1 /\ query' = query
      /\ credits' = credits + 1 /\ done' = done /\ result' = result
  BY DEF Accounts, JudgedWhenDone, Issue, Pay
<1>2. credits \in Nat /\ issued \in Nat /\ query.budget \in Nat
  BY QueryTyped DEF Accounts, TypeOK
<1>3. credits <= query.budget + issued
  BY <1>1 DEF Accounts, OverrunBounded
<1>. QED
  BY <1>1, <1>2, <1>3 DEF JudgedWhenDone, OverrunBounded

LEMMA PaidChecked ==
  ASSUME Accounts, NEW op, Issue(op), NEW cost \in Nat, PayChecked(cost)
  PROVE  JudgedWhenDone' /\ OverrunBounded'
<1>1. /\ ~result.valid /\ issued' = issued + 1 /\ query' = query
      /\ credits' = credits + cost /\ done' = (credits' > query.budget) /\ result' = result
  BY DEF Accounts, JudgedWhenDone, Issue, PayChecked, Exhausted
<1>2. credits' \in Nat /\ issued' \in Nat /\ query.budget \in Nat
  BY <1>1, QueryTyped DEF Accounts, TypeOK
<1>3. ~result'.valid
  BY <1>1
<1>4. CASE credits' > query.budget
  <2>1. done'
    BY <1>1, <1>4
  <2>. QED
    BY <1>3, <2>1 DEF JudgedWhenDone, OverrunBounded
<1>5. CASE ~ (credits' > query.budget)
  <2>1. credits' <= query.budget' + issued'
    BY <1>1, <1>2, <1>5
  <2>. QED
    BY <1>3, <2>1 DEF JudgedWhenDone, OverrunBounded
<1>. QED
  BY <1>4, <1>5

LEMMA PaidClose ==
  ASSUME Accounts, ~done, Close, query' = query, issued' = issued + 1
  PROVE  JudgedWhenDone' /\ OverrunBounded'
<1>1. credits \in Nat /\ issued \in Nat /\ query.budget \in Nat
  BY QueryTyped DEF Accounts, TypeOK
<1>2. credits <= query.budget + issued /\ credits' = credits + 1 /\ done'
  BY DEF Accounts, OverrunBounded, Close
<1>. QED
  BY <1>1, <1>2 DEF JudgedWhenDone, OverrunBounded

LEMMA AccountsStep == Accounts /\ [Next]_vars => Accounts'
<1>. SUFFICES ASSUME Accounts, [Next]_vars PROVE Accounts'
  OBVIOUS
<1>g. SUFFICES JudgedWhenDone' /\ OverrunBounded'
  BY TypeStep DEF Accounts
<1>t. frontier \in SUBSET Nodes /\ query \in QuerySpec /\ saved \in SUBSET Nodes /\ aux \in SUBSET Nodes
  BY DEF Accounts, TypeOK
<1>1. CASE Seed
  BY <1>1, PaidOne DEF Seed
<1>2. CASE AnnUnavailable
  BY <1>2, PaidOne DEF AnnUnavailable
<1>3. CASE Ann
  BY <1>3, PaidChecked, EnvAssumption DEF Ann
<1>4. ASSUME NEW op \in Ops, ExpandNothing(op) PROVE JudgedWhenDone' /\ OverrunBounded'
  BY <1>4, PaidOne DEF ExpandNothing
<1>5. ASSUME NEW op \in Ops, ExpandOverCap(op) PROVE JudgedWhenDone' /\ OverrunBounded'
  BY <1>5 DEF ExpandOverCap, Issue, Accounts, JudgedWhenDone, OverrunBounded
<1>6. ASSUME NEW op \in Ops, Expand(op) PROVE JudgedWhenDone' /\ OverrunBounded'
  <2>1. 1 + Cardinality(NextFrontier(op)) \in Nat
    BY <1>t, ExpansionTyped, NodeCount
  <2>. QED
    BY <1>6, <2>1, PaidChecked DEF Expand
<1>7. ASSUME NEW op, TopK(op) PROVE JudgedWhenDone' /\ OverrunBounded'
  BY <1>7, PaidOne DEF TopK
<1>8. CASE Filter
  <2>1. 1 + Cardinality(frontier) \in Nat
    BY <1>t, NodeCount
  <2>. QED
    BY <1>8, <2>1, PaidChecked DEF Filter
<1>9. CASE IntersectInapplicable
  BY <1>9, PaidOne DEF IntersectInapplicable
<1>10. CASE Intersect
  <2>1. Other \in SUBSET Nodes
    BY TaskAssumption DEF Other, Targets, Edge
  <2>2. 1 + Cardinality(Other) \in Nat
    BY <2>1, NodeCount
  <2>. QED
    BY <1>10, <2>2, PaidChecked DEF Intersect
<1>11. CASE Union
  <2>1. frontier' \in SUBSET Nodes
    BY <1>11, <1>t DEF Union
  <2>2. 1 + Cardinality(frontier') \in Nat
    BY <2>1, NodeCount
  <2>. QED
    BY <1>11, <2>2, PaidChecked DEF Union
<1>12. CASE Verify
  BY <1>12, PaidOne DEF Verify
<1>13. CASE Stop
  BY <1>13, PaidClose DEF Stop, Issue
<1>14. CASE CallerStop
  BY <1>14, PaidClose DEF CallerStop
<1>15. CASE Backtrack
  BY <1>15, PaidOne DEF Backtrack
<1>16. CASE UNCHANGED vars
  BY <1>16 DEF vars, Accounts, JudgedWhenDone, OverrunBounded
<1>. QED
  BY <1>1, <1>2, <1>3, <1>4, <1>5, <1>6, <1>7, <1>8, <1>9, <1>10, <1>11, <1>12,
     <1>13, <1>14, <1>15, <1>16 DEF Next, Ops

(* The budget of a query can be overrun by the operators that do not check *)
(* it, but never by more than one credit for each operator issued.         *)
THEOREM OverrunAlwaysBounded == Spec => []OverrunBounded
<1>1. Init => Accounts
  <2>. SUFFICES ASSUME Init PROVE Accounts
    OBVIOUS
  <2>1. query.budget \in Nat /\ credits = 0 /\ issued = 0 /\ result.valid = FALSE
    BY TypeInit, QueryTyped DEF Init, TypeOK, Judged
  <2>. QED
    BY <2>1, TypeInit DEF Accounts, JudgedWhenDone, OverrunBounded
<1>2. Accounts => OverrunBounded
  BY DEF Accounts
<1>. QED
  BY <1>1, <1>2, AccountsStep, PTL DEF Spec
-----------------------------------------------------------------------------
(* The demonstrated program *)

LEMMA LeastIs ==
  ASSUME NEW S, S \subseteq Nat, S # {}
  PROVE  \E m \in S : \A k \in S : m <= k
<1>1. IsWellFoundedOn(OpToRel(<, Nat), Nat)
  BY NatLessThanWellFounded
<1>2. PICK m \in S : \A k \in S : ~ (<<k, m>> \in OpToRel(<, Nat))
  BY <1>1, WFMin
<1>3. \A k \in S : ~ (k < m)
  BY <1>2 DEF OpToRel
<1>. QED
  BY <1>3

\* The facts behind a task: its edges are in the graph.
WalkShown ==
  /\ Len(query.relations) >= 1 /\ Len(query.proof) = Len(query.relations) + 1
  /\ query.proof[1] = query.source /\ query.proof[Len(query.relations) + 1] = query.answer
  /\ \A i \in 1 .. Len(query.relations) : Claimed(query, query.proof, i) \in Graph

PairShown ==
  /\ Len(query.relations) = 1 /\ query.disabled = {}
  /\ query.constraints = <<query.constraints[1], query.constraints[2]>>
  /\ query.constraints[1] = <<query.source, query.relations[1]>>
  /\ \A i \in 1 .. 2 : [src |-> query.constraints[i][1], relation |-> query.constraints[i][2],
                        dst |-> query.answer] \in Graph

Shown == IF IsIntersection(query) THEN PairShown ELSE WalkShown

LEMMA WalkTaskShown ==
  ASSUME NEW h \in MinHops .. MaxHops, NEW w \in Walks(h), NEW q, q = PathTask(w)
  PROVE  /\ q.family = "path" /\ Len(q.relations) >= 1 /\ Len(q.proof) = Len(q.relations) + 1
         /\ q.proof[1] = q.source /\ q.proof[Len(q.relations) + 1] = q.answer
         /\ \A i \in 1 .. Len(q.relations) : Claimed(q, q.proof, i) \in Graph
<1>1. h \in Nat \ {0} /\ w \in [1 .. h -> Graph] /\ \A i \in 1 .. h - 1 : w[i].dst = w[i + 1].src
  BY TaskAssumption DEF Walks
<1>2. w \in Seq(Graph) /\ Len(w) = h
  BY <1>1
<1>3. /\ q.family = "path" /\ q.source = w[1].src /\ q.answer = w[h].dst
      /\ q.relations = [i \in 1 .. h |-> w[i].relation]
      /\ q.proof = [i \in 1 .. h + 1 |-> IF i = 1 THEN w[1].src ELSE w[i - 1].dst]
  BY <1>2 DEF PathTask
<1>4. Len(q.relations) = h /\ Len(q.proof) = h + 1
  BY <1>1, <1>3
<1>5. q.proof[1] = q.source /\ q.proof[h + 1] = q.answer
  BY <1>1, <1>3
<1>6. ASSUME NEW i \in 1 .. h
      PROVE  Claimed(q, q.proof, i) \in Graph
  <2>1. q.proof[i + 1] = w[i].dst /\ q.relations[i] = w[i].relation
    BY <1>1, <1>3
  <2>2. q.proof[i] = w[i].src
    <3>1. CASE i = 1
      BY <1>1, <1>3, <3>1
    <3>2. CASE i # 1
      <4>1. i - 1 \in 1 .. h - 1 /\ i \in 1 .. h + 1
        BY <1>1, <3>2
      <4>2. q.proof[i] = w[i - 1].dst
        BY <1>3, <3>2, <4>1
      <4>3. w[i - 1].dst = w[i - 1 + 1].src /\ i - 1 + 1 = i
        BY <1>1, <4>1
      <4>. QED
        BY <4>2, <4>3
    <3>. QED
      BY <3>1, <3>2
  <2>3. w[i] \in Edge
    BY <1>1, TaskAssumption
  <2>4. w[i] = [src |-> w[i].src, relation |-> w[i].relation, dst |-> w[i].dst]
    BY <2>3 DEF Edge
  <2>. QED
    BY <1>1, <2>1, <2>2, <2>4 DEF Claimed
<1>. QED
  BY <1>1, <1>3, <1>4, <1>5, <1>6

LEMMA TaskShown ==
  ASSUME query \in Tasks
  PROVE  Shown
<1>. DEFINE Walked(q) ==
       /\ q.family # "intersection"
       /\ Len(q.relations) >= 1 /\ Len(q.proof) = Len(q.relations) + 1
       /\ q.proof[1] = q.source /\ q.proof[Len(q.relations) + 1] = q.answer
       /\ \A i \in 1 .. Len(q.relations) : Claimed(q, q.proof, i) \in Graph
<1>1. \A q \in PathTasks : Walked(q) /\ q \in QuerySpec
  <2>1. SUFFICES ASSUME NEW q \in PathTasks PROVE Walked(q) /\ q \in QuerySpec
    OBVIOUS
  <2>2. PICK h \in MinHops .. MaxHops : \E w \in Walks(h) : q = PathTask(w)
    BY DEF PathTasks
  <2>3. PICK w \in Walks(h) : q = PathTask(w)
    BY <2>2
  <2>. QED
    BY <2>3, WalkTaskShown, PathTaskTyped
<1>2. \A q \in DistractorTasks : Walked(q) /\ q \in QuerySpec
  <2>1. SUFFICES ASSUME NEW p \in PathTasks, NEW q, q = [p EXCEPT !.family = "distractor"]
                 PROVE  Walked(q) /\ q \in QuerySpec
    BY DEF DistractorTasks
  <2>2. Walked(p) /\ p \in QuerySpec
    BY <1>1
  <2>3. /\ q.family = "distractor" /\ q.relations = p.relations /\ q.proof = p.proof
        /\ q.source = p.source /\ q.answer = p.answer /\ q \in QuerySpec
    BY <2>1, <2>2 DEF QuerySpec
  <2>. QED
    BY <2>2, <2>3 DEF Claimed
<1>3. \A q \in RobustnessTasks : Walked(q)
  <2>. SUFFICES ASSUME NEW q \in RobustnessTasks PROVE Walked(q)
    OBVIOUS
  <2>0. PICK p \in DistractorTasks :
          q \in {[p EXCEPT !.family = "robustness", !.disabled = {e}] : e \in Alternatives(p)}
    BY DEF RobustnessTasks
  <2>1. PICK e : q = [p EXCEPT !.family = "robustness", !.disabled = {e}]
    BY <2>0
  <2>2. Walked(p) /\ p \in QuerySpec
    BY <1>2
  <2>3. /\ q.family = "robustness" /\ q.relations = p.relations /\ q.proof = p.proof
        /\ q.source = p.source /\ q.answer = p.answer
    BY <2>1, <2>2 DEF QuerySpec
  <2>. QED
    BY <2>2, <2>3 DEF Claimed
<1>4. ASSUME query \in IntersectionTasks
      PROVE  PairShown /\ IsIntersection(query)
  <2>1. PICK p \in Graph \X Graph :
          /\ p[1].dst = p[2].dst
          /\ query = [family |-> "intersection", source |-> p[1].src, answer |-> p[1].dst,
                      relations |-> <<p[1].relation>>, budget |-> Budget,
                      constraints |-> <<<<p[1].src, p[1].relation>>, <<p[2].src, p[2].relation>>>>,
                      disabled |-> {}, proof |-> << >>]
    BY <1>4 DEF IntersectionTasks
  <2>2. PICK a \in Graph, b \in Graph : p = <<a, b>>
    BY <2>1
  <2>3. a \in Edge /\ b \in Edge /\ a.dst = b.dst
    BY <2>1, <2>2, TaskAssumption
  <2>4. /\ query.family = "intersection" /\ query.source = a.src /\ query.answer = a.dst
        /\ query.relations = <<a.relation>> /\ query.disabled = {}
        /\ query.constraints = <<<<a.src, a.relation>>, <<b.src, b.relation>>>>
    BY <2>1, <2>2
  <2>5. /\ a = [src |-> a.src, relation |-> a.relation, dst |-> a.dst]
        /\ b = [src |-> b.src, relation |-> b.relation, dst |-> b.dst]
    BY <2>3 DEF Edge
  <2>6. query.constraints[1] = <<a.src, a.relation>> /\ query.constraints[2] = <<b.src, b.relation>>
    BY <2>4
  <2>7. \A i \in 1 .. 2 : [src |-> query.constraints[i][1], relation |-> query.constraints[i][2],
                           dst |-> query.answer] \in Graph
    BY <2>3, <2>4, <2>5, <2>6
  <2>8. Len(query.relations) = 1 /\ query.relations[1] = a.relation
    BY <2>4
  <2>. QED
    BY <2>4, <2>6, <2>7, <2>8 DEF PairShown, IsIntersection
<1>5. ASSUME Walked(query)
      PROVE  Shown
  BY <1>5 DEF Shown, WalkShown, IsIntersection
<1>. HIDE DEF Walked
<1>6. \/ query \in PathTasks \/ query \in DistractorTasks \/ query \in RobustnessTasks
      \/ query \in IntersectionTasks
  BY DEF Tasks
<1>. QED
  BY <1>1, <1>2, <1>3, <1>4, <1>5, <1>6 DEF Shown

\* The operators of the demonstration, by their place in it.
LEMMA DemonstrationFacts ==
  ASSUME query \in QuerySpec
  PROVE  /\ Len(Demonstration) = IF IsIntersection(query) THEN 5 ELSE Len(query.relations) + 3
         /\ IsIntersection(query) =>
              /\ Demonstration[1] = "SEED" /\ Demonstration[2] = "EXPAND_REL"
              /\ Demonstration[3] = "INTERSECT" /\ Demonstration[4] = "VERIFY"
              /\ Demonstration[5] = "STOP"
         /\ ~IsIntersection(query) =>
              /\ Demonstration[1] = "SEED"
              /\ \A i \in 2 .. Len(query.relations) + 1 : Demonstration[i] = "EXPAND_REL"
              /\ Demonstration[Len(query.relations) + 2] = "VERIFY"
              /\ Demonstration[Len(query.relations) + 3] = "STOP"
<1>1. CASE IsIntersection(query)
  BY <1>1 DEF Demonstration
<1>2. CASE ~IsIntersection(query)
  <2>1. PICK h \in Nat : h = Len(query.relations)
    BY QueryTyped
  <2>2. PICK e : e = [i \in 1 .. h |-> "EXPAND_REL"]
    OBVIOUS
  <2>3. e \in Seq({"EXPAND_REL"}) /\ Len(e) = h
    BY <2>2
  <2>4. Demonstration = <<"SEED">> \o e \o <<"VERIFY", "STOP">>
    BY <1>2, <2>1, <2>2 DEF Demonstration
  <2>5. PICK s : s = <<"SEED">> \o e
    OBVIOUS
  <2>6. /\ Len(s) = h + 1 /\ s \in Seq({"SEED", "EXPAND_REL"}) /\ s[1] = "SEED"
        /\ \A i \in 2 .. h + 1 : s[i] = "EXPAND_REL"
    <3>1. <<"SEED">> \in Seq({"SEED", "EXPAND_REL"}) /\ Len(<<"SEED">>) = 1
      OBVIOUS
    <3>2. e \in Seq({"SEED", "EXPAND_REL"})
      BY <2>3
    <3>3. \A i \in 1 .. h : e[i] = "EXPAND_REL"
      BY <2>2
    <3>. QED
      BY <2>3, <2>5, <3>1, <3>2, <3>3, ConcatProperties
  <2>7. /\ Len(Demonstration) = h + 3
        /\ \A i \in 1 .. h + 1 : Demonstration[i] = s[i]
        /\ Demonstration[h + 2] = "VERIFY" /\ Demonstration[h + 3] = "STOP"
    <3>. DEFINE t == <<"VERIFY", "STOP">>
               A == {"SEED", "EXPAND_REL", "VERIFY", "STOP"}
    <3>1. s \in Seq(A) /\ t \in Seq(A) /\ Len(t) = 2 /\ t[1] = "VERIFY" /\ t[2] = "STOP"
      BY <2>6
    <3>2. Demonstration = s \o t
      BY <2>4, <2>5
    <3>. HIDE DEF t, A
    <3>. DEFINE st == s \o t
    <3>3. /\ Len(st) = Len(s) + Len(t)
          /\ \A i \in 1 .. Len(s) + Len(t) : st[i] = IF i <= Len(s) THEN s[i] ELSE t[i - Len(s)]
      BY ONLY <3>1, ConcatProperties
    <3>. HIDE DEF st
    <3>4. /\ st[h + 2] = t[1] /\ st[h + 3] = t[2] /\ \A i \in 1 .. h + 1 : st[i] = s[i]
      BY <2>6, <3>1, <3>3
    <3>5. Demonstration = st
      BY <3>2 DEF st
    <3>. QED
      BY <2>6, <3>1, <3>3, <3>4, <3>5
  <2>. QED
    BY <1>2, <2>1, <2>6, <2>7
<1>. QED
  BY <1>1, <1>2

\* The nodes a program on the script may hold before its i-th expansion.
LayerBefore(i) == IF i = 1 THEN {query.source} ELSE DOMAIN parents[i - 1]

\* Each recorded predecessor is a node of the layer before, and stands for an
\* edge of the query's relation that the episode does not hide.
Linked ==
  /\ Len(parents) <= Len(query.relations)
  /\ \A i \in 1 .. Len(parents) : \A c \in DOMAIN parents[i] :
       /\ parents[i][c] \in LayerBefore(i)
       /\ [src |-> parents[i][c], relation |-> query.relations[i], dst |-> c]
            \in Graph \ query.disabled

\* After SEED and some expansions the frontier is a layer with a demonstrated node.
AtLayer(i) ==
  /\ depth = i - 1 /\ frontier = LayerBefore(i) /\ query.proof[i] \in frontier /\ Linked

OnWalk ==
  /\ \A i \in 1 .. Len(query.relations) + 1 : issued = i => AtLayer(i)
  /\ issued = Len(query.relations) + 2 => Valid

OnPair ==
  /\ issued = 1 => depth = 0 /\ frontier = {query.source}
  /\ issued \in 1 .. 3 => aux = {query.constraints[2][1]}
  /\ issued \in 2 .. 3 => query.answer \in frontier
  /\ issued = 4 => answer = query.answer

Scripted == onScript /\ ~done /\ Demonstrable => IF IsIntersection(query) THEN OnPair ELSE OnWalk

ScriptInv == TypeOK /\ Shown /\ Scripted /\ DemonstrationAccepted

\* A chain of recorded predecessors from the source.
Chain(c, k, n) ==
  /\ c \in [1 .. k -> Nodes] /\ c[1] = query.source /\ c[k] = n
  /\ \A i \in 1 .. k - 1 : c[i + 1] \in DOMAIN parents[i] /\ c[i] = parents[i][c[i + 1]]

\* Every node of a layer is at the end of a chain from the source.
LEMMA Chained ==
  ASSUME TypeOK, Linked
  PROVE  \A k \in 1 .. Len(parents) + 1 : \A n \in LayerBefore(k) : \E c : Chain(c, k, n)
<1>. DEFINE Bad == {k \in 1 .. Len(parents) + 1 :
                      \E n \in LayerBefore(k) : \A c : ~Chain(c, k, n)}
<1>1. Len(parents) \in Nat /\ query.source \in Nodes
  BY QueryTyped DEF TypeOK
<1>2. SUFFICES ASSUME Bad # {} PROVE FALSE
  OBVIOUS
<1>3. PICK k \in Bad : \A j \in Bad : k <= j
  <2>1. Bad \subseteq Nat
    BY <1>1
  <2>. HIDE DEF Bad
  <2>. QED
    BY <1>2, <2>1, LeastIs
<1>4. k \in 1 .. Len(parents) + 1
  BY <1>3
<1>5. PICK n \in LayerBefore(k) : \A c : ~Chain(c, k, n)
  BY <1>3
<1>6. CASE k = 1
  <2>. DEFINE d == [i \in 1 .. 1 |-> n]
  <2>1. n = query.source
    BY <1>5, <1>6 DEF LayerBefore
  <2>2. d \in [1 .. 1 -> Nodes] /\ d[1] = n
    BY <1>1, <2>1
  <2>. HIDE DEF d
  <2>3. Chain(d, 1, n)
    BY <2>1, <2>2 DEF Chain
  <2>. QED
    BY <1>5, <1>6, <2>3
<1>7. CASE k # 1
  <2>1. k - 1 \in 1 .. Len(parents) /\ k \in Nat
    BY <1>1, <1>4, <1>7
  <2>2. n \in DOMAIN parents[k - 1]
    BY <1>5, <1>7 DEF LayerBefore
  <2>3. PICK m : m = parents[k - 1][n]
    OBVIOUS
  <2>4. m \in LayerBefore(k - 1)
    BY <2>1, <2>2, <2>3 DEF Linked
  <2>5. k - 1 \notin Bad /\ k - 1 \in 1 .. Len(parents) + 1
    BY <1>1, <1>3, <2>1
  <2>6. PICK c : Chain(c, k - 1, m)
    BY <2>4, <2>5
  <2>7. n \in Nodes
    <3>1. parents \in Seq(Layer)
      BY DEF TypeOK
    <3>2. parents[k - 1] \in Layer
      BY ONLY <2>1, <3>1
    <3>. QED
      BY <2>2, <3>2 DEF Layer
  <2>. DEFINE d == [i \in 1 .. k |-> IF i = k THEN n ELSE c[i]]
  <2>8. c \in [1 .. k - 1 -> Nodes] /\ c[1] = query.source /\ c[k - 1] = m
    BY <2>6 DEF Chain
  <2>9. d \in [1 .. k -> Nodes] /\ d[1] = query.source /\ d[k] = n /\ d[k - 1] = m
    BY <2>1, <2>7, <2>8, <1>7
  <2>10. ASSUME NEW i \in 1 .. k - 1
         PROVE  d[i + 1] \in DOMAIN parents[i] /\ d[i] = parents[i][d[i + 1]]
    <3>1. CASE i = k - 1
      <4>1. i + 1 = k
        BY <2>1, <3>1
      <4>. HIDE DEF d
      <4>. QED
        BY <2>2, <2>3, <2>9, <3>1, <4>1
    <3>2. CASE i # k - 1
      <4>1. i \in 1 .. k - 1 - 1 /\ i + 1 \in 1 .. k - 1
        BY <2>1, <3>2
      <4>2. d[i] = c[i] /\ d[i + 1] = c[i + 1]
        BY <2>1, <4>1
      <4>. HIDE DEF d
      <4>. QED
        BY <2>6, <4>1, <4>2 DEF Chain
    <3>. QED
      BY <3>1, <3>2
  <2>. HIDE DEF d
  <2>11. Chain(d, k, n)
    BY <2>9, <2>10 DEF Chain
  <2>. QED
    BY <1>5, <2>11
<1>. QED
  BY <1>6, <1>7

\* VERIFY then proposes a path that the validator accepts.
LEMMA ChainAccepted ==
  ASSUME TypeOK, WalkShown, AtLayer(Len(query.relations) + 1)
  PROVE  LET p == ReconstructPath(query.answer)
         IN  ValidatePathProof(query, p) /\ AvoidsDisabled(p)
<1>1. PICK h \in Nat : h = Len(query.relations)
  BY QueryTyped DEF TypeOK
<1>2. Len(parents) = h /\ Linked /\ query.answer \in LayerBefore(h + 1) /\ h >= 1
  BY <1>1 DEF AtLayer, WalkShown, TypeOK
<1>3. PICK c : Chain(c, h + 1, query.answer)
  <2>1. h + 1 \in 1 .. Len(parents) + 1
    BY <1>1, <1>2
  <2>. QED
    BY <1>2, <2>1, Chained
<1>4. c \in Seq(Nodes) /\ Len(c) = h + 1
  BY <1>1, <1>3 DEF Chain
<1>5. c \in Chains(query.answer) /\ c[1] = query.source
  <2>1. c \in [1 .. Len(parents) + 1 -> Nodes] /\ c[Len(c)] = query.answer
    BY <1>2, <1>3, <1>4 DEF Chain
  <2>2. \A i \in 1 .. Len(parents) : c[i + 1] \in DOMAIN parents[i] /\ c[i] = parents[i][c[i + 1]]
    BY <1>1, <1>2, <1>3 DEF Chain
  <2>. QED
    BY <1>3, <2>1, <2>2 DEF Chains, Chain
<1>6. PICK p : p = ReconstructPath(query.answer)
  OBVIOUS
<1>7. p \in Chains(query.answer) /\ p[1] = query.source
  <2>. DEFINE fromSource == {x \in Chains(query.answer) : x[1] = query.source}
  <2>1. c \in fromSource
    BY <1>5
  <2>2. p = CHOOSE x \in fromSource : TRUE
    BY <1>6, <2>1 DEF ReconstructPath
  <2>3. p \in fromSource
    BY <2>1, <2>2
  <2>. QED
    BY <2>3
<1>8. p \in [1 .. h + 1 -> Nodes] /\ p[Len(p)] = query.answer
  BY <1>2, <1>7 DEF Chains
<1>9. Len(p) = h + 1
  BY <1>1, <1>8
<1>10. ASSUME NEW i \in 1 .. h
       PROVE  Claimed(query, p, i) \in Graph \ query.disabled
  <2>1. p[i + 1] \in DOMAIN parents[i] /\ p[i] = parents[i][p[i + 1]] /\ i \in 1 .. Len(parents)
    BY <1>2, <1>7 DEF Chains
  <2>. QED
    BY <1>2, <2>1 DEF Linked, Claimed
<1>11. ValidatePathProof(query, p) /\ AvoidsDisabled(p)
  BY <1>1, <1>7, <1>8, <1>9, <1>10 DEF ValidatePathProof, AvoidsDisabled
<1>. QED
  BY <1>6, <1>11

\* An operator that is not the next one of the demonstration leaves the script.
LEMMA OffScript ==
  ASSUME query \in QuerySpec, NEW op, Issue(op), onScript', issued \in Nat
  PROVE  /\ onScript /\ ~done /\ query' = query /\ session' = session /\ issued' = issued + 1
         /\ op = Demonstration[issued + 1]
         /\ IF IsIntersection(query)
              THEN \/ issued = 0 /\ op = "SEED"
                   \/ issued = 1 /\ op = "EXPAND_REL"
                   \/ issued = 2 /\ op = "INTERSECT"
                   \/ issued = 3 /\ op = "VERIFY"
                   \/ issued = 4 /\ op = "STOP"
              ELSE \/ issued = 0 /\ op = "SEED"
                   \/ issued \in 1 .. Len(query.relations) /\ op = "EXPAND_REL"
                   \/ issued = Len(query.relations) + 1 /\ op = "VERIFY"
                   \/ issued = Len(query.relations) + 2 /\ op = "STOP"
<1>1. /\ onScript /\ ~done /\ query' = query /\ session' = session /\ issued' = issued + 1
      /\ issued < Len(Demonstration) /\ op = Demonstration[issued + 1]
  BY DEF Issue
<1>2. Len(query.relations) \in Nat
  BY QueryTyped
<1>3. CASE IsIntersection(query)
  <2>1. Len(Demonstration) = 5
    BY <1>3, DemonstrationFacts
  <2>2. issued = 0 \/ issued = 1 \/ issued = 2 \/ issued = 3 \/ issued = 4
    BY <1>1, <2>1
  <2>. QED
    BY <1>1, <1>3, <2>2, DemonstrationFacts
<1>4. CASE ~IsIntersection(query)
  <2>1. PICK h \in Nat : h = Len(query.relations)
    BY <1>2
  <2>2. issued < h + 3
    BY <1>1, <1>4, <2>1, DemonstrationFacts
  <2>3. issued = 0 \/ issued \in 1 .. h \/ issued = h + 1 \/ issued = h + 2
    BY <2>1, <2>2
  <2>4. issued \in 1 .. h => issued + 1 \in 2 .. h + 1
    BY <2>1
  <2>5. 0 + 1 = 1 /\ h + 1 + 1 = h + 2 /\ h + 2 + 1 = h + 3
    BY <2>1
  <2>. QED
    BY <1>1, <1>4, <2>1, <2>3, <2>4, <2>5, DemonstrationFacts
<1>. QED
  BY <1>1, <1>3, <1>4

\* What the next expansion of the script records.
LEMMA ScriptExpansion ==
  ASSUME TypeOK, AtLayer(issued), issued \in 1 .. Len(query.relations), Demonstrable,
         WalkShown,
         NEW e, e = Claimed(query, query.proof, issued)
  PROVE  /\ NextFrontier("EXPAND_REL") = DOMAIN Predecessors("EXPAND_REL")
         /\ e.dst \in NextFrontier("EXPAND_REL")
         /\ \A c \in DOMAIN Predecessors("EXPAND_REL") :
              LET p == Predecessors("EXPAND_REL")[c]
              IN  /\ p \in frontier
                  /\ [src |-> p, relation |-> query.relations[issued], dst |-> c]
                       \in Graph \ query.disabled
<1>. DEFINE A == Admitted("EXPAND_REL")
<1>1. PICK h \in Nat : h = Len(query.relations)
  BY QueryTyped DEF TypeOK
<1>2. depth = issued - 1 /\ issued \in 1 .. h /\ query.proof[issued] \in frontier
  BY <1>1 DEF AtLayer
<1>3. depth < h /\ depth + 1 = issued
  BY <1>1, <1>2
<1>4. Wanted = {query.relations[issued]}
  BY <1>1, <1>3 DEF Wanted
<1>5. A = {a \in Touched \ query.disabled : a.relation = query.relations[issued]}
  BY <1>4 DEF Admitted, Selects
<1>6. NextFrontier("EXPAND_REL") = Targets(A)
  <2>1. CASE ~session
    BY <2>1 DEF NextFrontier, CpuFrontier
  <2>2. CASE session
    <3>1. query.disabled = {}
      BY <2>2 DEF Demonstrable
    <3>2. BlockedTargets("EXPAND_REL") = {}
      BY <3>1 DEF BlockedTargets, Targets
    <3>3. KernelReturns("EXPAND_REL") = Targets(A)
      BY <1>4, <3>1 DEF KernelReturns, Admitted, Selects
    <3>. QED
      BY <2>2, <3>2, <3>3 DEF NextFrontier, CudaFrontier
  <2>. QED
    BY <2>1, <2>2
<1>7. e \in A
  <2>1. e.src = query.proof[issued] /\ e.relation = query.relations[issued]
    BY DEF Claimed
  <2>2. e \in Touched
    BY <1>2, <2>1 DEF Touched, WalkShown
  <2>3. e \in ProofEdges(query)
    <3>1. issued \in 1 .. (Len(query.proof) - 1)
      BY DEF WalkShown
    <3>. QED
      BY <3>1 DEF ProofEdges
  <2>4. e \notin query.disabled
    BY <2>3 DEF Demonstrable
  <2>. QED
    BY <1>5, <2>1, <2>2, <2>4
<1>. DEFINE S(c) == {a.src : a \in {b \in A : b.dst = c}}
<1>8. Predecessors("EXPAND_REL") = [c \in Targets(A) |-> Least(S(c))]
  BY <1>6 DEF Predecessors
<1>9. ASSUME NEW c \in Targets(A)
      PROVE  /\ Least(S(c)) \in frontier
             /\ [src |-> Least(S(c)), relation |-> query.relations[issued], dst |-> c]
                  \in Graph \ query.disabled
  <2>1. A \subseteq Graph /\ \A a \in A : a.src \in frontier /\ a.src \in Nodes
    BY <1>5, TaskAssumption DEF Touched, TypeOK
  <2>2. S(c) \in SUBSET Nodes /\ S(c) # {}
    BY <2>1 DEF Targets
  <2>3. Least(S(c)) \in S(c)
    <3>. HIDE DEF S
    <3>. QED
      BY <2>2, LeastNode
  <2>4. PICK a \in A : a.src = Least(S(c)) /\ a.dst = c
    BY <2>3
  <2>5. a.relation = query.relations[issued] /\ a \in Graph \ query.disabled
    BY <1>5, <2>1
  <2>6. a \in Edge
    BY <2>5, TaskAssumption
  <2>7. a = [src |-> a.src, relation |-> a.relation, dst |-> a.dst]
    BY <2>6 DEF Edge
  <2>. HIDE DEF S
  <2>. QED
    BY <2>1, <2>4, <2>5, <2>7
<1>10. e.dst \in Targets(A)
  BY <1>7 DEF Targets
<1>. HIDE DEF A, S
<1>. QED
  BY <1>6, <1>8, <1>9, <1>10

\* The operators that are not part of any demonstration.
LEMMA OutsideScript ==
  ASSUME ScriptInv, NEW op, Issue(op),
         op \notin {"SEED", "EXPAND_REL", "INTERSECT", "VERIFY", "STOP"}
  PROVE  ~onScript'
<1>1. query \in QuerySpec /\ issued \in Nat
  BY QueryTyped DEF ScriptInv, TypeOK
<1>. QED
  BY <1>1, OffScript

\* Shown and Demonstrable speak of the query alone.
LEMMA ShownStays ==
  ASSUME Shown, query' = query
  PROVE  Shown'
  BY DEF Shown, PairShown, WalkShown, IsIntersection, Claimed

LEMMA ScriptFacts ==
  ASSUME ScriptInv, NEW op, Issue(op), onScript'
  PROVE  /\ query \in QuerySpec /\ issued \in Nat /\ Len(query.relations) \in Nat
         /\ onScript /\ ~done /\ query' = query /\ session' = session /\ issued' = issued + 1
         /\ Shown' /\ (Demonstrable' <=> Demonstrable)
         /\ Demonstrable => IF IsIntersection(query) THEN OnPair ELSE OnWalk
<1>1. query \in QuerySpec /\ issued \in Nat /\ Len(query.relations) \in Nat
  BY QueryTyped DEF ScriptInv, TypeOK
<1>2. onScript /\ ~done /\ query' = query /\ session' = session /\ issued' = issued + 1
  BY <1>1, OffScript
<1>3. Shown'
  BY <1>2, ShownStays DEF ScriptInv
<1>4. Demonstrable' <=> Demonstrable
  BY <1>2 DEF Demonstrable, ProofEdges, Claimed
<1>. QED
  BY <1>1, <1>2, <1>3, <1>4 DEF ScriptInv, Scripted

\* An operator that leaves the episode open has no verdict to defend.
LEMMA StillOpen ==
  ASSUME ~done'
  PROVE  DemonstrationAccepted'
  BY DEF DemonstrationAccepted

\* Only STOP is the last operator of a demonstration.
LEMMA NotTheLast ==
  ASSUME ScriptInv, NEW op, Issue(op), op # "STOP"
  PROVE  DemonstrationAccepted'
<1>1. SUFFICES ASSUME onScript', issued' = Len(Demonstration)' PROVE FALSE
  BY DEF DemonstrationAccepted
<1>2. query \in QuerySpec /\ issued \in Nat /\ query' = query /\ issued' = issued + 1
  BY <1>1, ScriptFacts
<1>3. op = Demonstration[issued + 1]
  BY <1>1, <1>2, OffScript
<1>4. Len(Demonstration)' = Len(Demonstration)
  BY <1>2 DEF Demonstration, IsIntersection
<1>5. Demonstration[Len(Demonstration)] = "STOP"
  BY <1>2, DemonstrationFacts
<1>. QED
  BY <1>1, <1>2, <1>3, <1>4, <1>5

LEMMA ScriptSeed ==
  ASSUME ScriptInv, Seed
  PROVE  Scripted'
<1>1. SUFFICES ASSUME onScript', Demonstrable'
               PROVE  IF IsIntersection(query') THEN OnPair' ELSE OnWalk'
  BY DEF Scripted, IsIntersection
<1>2. Issue("SEED")
  BY DEF Seed
<1>3. /\ query \in QuerySpec /\ issued \in Nat /\ Len(query.relations) \in Nat
      /\ query' = query /\ issued' = issued + 1 /\ Demonstrable /\ issued = 0
  BY <1>1, <1>2, ScriptFacts, OffScript
<1>4. frontier' = {query.source} /\ depth' = 0 /\ parents' = << >>
  BY DEF Seed, Restarted
<1>5. CASE IsIntersection(query)
  <2>1. Len(query.constraints) = 2
    BY <1>5 DEF ScriptInv, Shown, PairShown
  <2>2. aux' = {query.constraints[2][1]}
    BY <1>5, <2>1 DEF Seed
  <2>. QED
    BY <1>3, <1>4, <1>5, <2>2 DEF OnPair, IsIntersection
<1>6. CASE ~IsIntersection(query)
  <2>1. query.proof[1] = query.source /\ Len(query.relations) >= 1
    BY <1>6 DEF ScriptInv, Shown, WalkShown
  <2>2. Linked'
    BY <1>3, <1>4 DEF Linked
  <2>3. AtLayer(1)'
    BY <1>3, <1>4, <2>1, <2>2 DEF AtLayer, LayerBefore
  <2>4. issued' = 1 /\ Len(query.relations)' = Len(query.relations)
    BY <1>3
  <2>5. OnWalk'
    <3>1. \A i \in 1 .. Len(query.relations) + 1 : issued' = i => AtLayer(i)'
      BY <2>3, <2>4
    <3>. QED
      BY <1>3, <2>1, <2>4, <3>1 DEF OnWalk
  <2>. QED
    BY <1>3, <1>6, <2>5 DEF IsIntersection
<1>. QED
  BY <1>5, <1>6

LEMMA ScriptExpandedPair ==
  ASSUME ScriptInv, Expand("EXPAND_REL"), onScript', ~done', Demonstrable, IsIntersection(query)
  PROVE  OnPair'
<1>1. Issue("EXPAND_REL")
  BY DEF Expand
<1>2. /\ query \in QuerySpec /\ issued = 1 /\ query' = query /\ issued' = 2 /\ OnPair
  BY <1>1, ScriptFacts, OffScript
<1>3. /\ frontier = {query.source} /\ depth = 0 /\ aux = {query.constraints[2][1]}
  BY <1>2 DEF OnPair
<1>4. PairShown
  BY DEF ScriptInv, Shown
<1>5. frontier' = NextFrontier("EXPAND_REL") /\ aux' = aux
  BY DEF Expand, PayChecked
<1>6. PICK e : e = [src |-> query.source, relation |-> query.relations[1], dst |-> query.answer]
  OBVIOUS
<1>7. e \in Graph
  <2>1. /\ query.constraints[1] = <<query.source, query.relations[1]>>
        /\ [src |-> query.constraints[1][1], relation |-> query.constraints[1][2],
            dst |-> query.answer] \in Graph
    BY <1>4 DEF PairShown
  <2>. QED
    BY <1>6, <2>1
<1>8. Wanted = {query.relations[1]} /\ query.disabled = {}
  BY <1>3, <1>4 DEF Wanted, PairShown
<1>9. e \in Touched /\ e \in Admitted("EXPAND_REL")
  BY <1>3, <1>6, <1>7, <1>8 DEF Touched, Admitted, Selects
<1>10. query.answer \in frontier'
  <2>1. CASE ~session
    BY <1>5, <1>6, <1>9, <2>1 DEF NextFrontier, CpuFrontier, Targets
  <2>2. CASE session
    <3>1. BlockedTargets("EXPAND_REL") = {}
      BY <1>8 DEF BlockedTargets, Targets
    <3>2. query.answer \in KernelReturns("EXPAND_REL")
      BY <1>6, <1>8, <1>9 DEF KernelReturns, Selects, Targets
    <3>. QED
      BY <1>5, <2>2, <3>1, <3>2 DEF NextFrontier, CudaFrontier
  <2>. QED
    BY <2>1, <2>2
<1>. QED
  BY <1>2, <1>3, <1>5, <1>10 DEF OnPair

\* What an expansion on the script adds keeps the layers linked.
LEMMA LinkedGrown ==
  ASSUME TypeOK, Linked, query' = query, NEW i \in Nat, i = Len(parents) + 1,
         i <= Len(query.relations), frontier = LayerBefore(i),
         NEW layer, layer \in Layer, parents' = Append(parents, layer),
         \A c \in DOMAIN layer :
           /\ layer[c] \in frontier
           /\ [src |-> layer[c], relation |-> query.relations[i], dst |-> c] \in Graph \ query.disabled
  PROVE  Linked' /\ LayerBefore(i + 1)' = DOMAIN layer
<1>1. parents \in Seq(Layer) /\ Len(parents) \in Nat
  BY DEF TypeOK
<1>2. /\ Len(parents') = i /\ parents'[i] = layer
      /\ \A j \in 1 .. Len(parents) : parents'[j] = parents[j]
  BY <1>1, AppendProperties
<1>3. \A j \in 1 .. i : LayerBefore(j)' = LayerBefore(j)
  <2>1. SUFFICES ASSUME NEW j \in 1 .. i PROVE LayerBefore(j)' = LayerBefore(j)
    OBVIOUS
  <2>2. CASE j = 1
    BY <2>2 DEF LayerBefore
  <2>3. CASE j # 1
    <3>1. j - 1 \in 1 .. Len(parents)
      BY <1>1, <2>3
    <3>2. parents'[j - 1] = parents[j - 1]
      BY <1>2, <3>1
    <3>. QED
      BY <2>3, <3>2 DEF LayerBefore
  <2>. QED
    BY <2>2, <2>3
<1>4. ASSUME NEW j \in 1 .. i, NEW c \in DOMAIN parents'[j]
      PROVE  /\ parents'[j][c] \in LayerBefore(j)'
             /\ [src |-> parents'[j][c], relation |-> query.relations[j], dst |-> c]
                  \in Graph \ query.disabled
  <2>1. CASE j = i
    BY <1>2, <1>3, <1>4, <2>1
  <2>2. CASE j # i
    <3>1. j \in 1 .. Len(parents)
      BY <1>1, <2>2
    <3>2. parents'[j] = parents[j] /\ LayerBefore(j)' = LayerBefore(j)
      BY <1>2, <1>3, <3>1
    <3>. QED
      BY <1>4, <3>1, <3>2 DEF Linked
  <2>. QED
    BY <2>1, <2>2
<1>5. Linked'
  BY <1>2, <1>4 DEF Linked
<1>6. LayerBefore(i + 1)' = DOMAIN layer
  <2>1. i + 1 # 1 /\ i + 1 - 1 = i
    OBVIOUS
  <2>. QED
    BY <1>2, <2>1 DEF LayerBefore
<1>. QED
  BY <1>5, <1>6

LEMMA ScriptExpandedWalk ==
  ASSUME ScriptInv, Expand("EXPAND_REL"), onScript', ~done', Demonstrable, ~IsIntersection(query)
  PROVE  OnWalk'
<1>1. Issue("EXPAND_REL")
  BY DEF Expand
<1>2. PICK h \in Nat : h = Len(query.relations)
  BY QueryTyped DEF ScriptInv, TypeOK
<1>3. /\ query \in QuerySpec /\ issued \in 1 .. h /\ query' = query /\ issued' = issued + 1 /\ OnWalk
  BY <1>1, <1>2, ScriptFacts, OffScript
<1>4. AtLayer(issued) /\ WalkShown
  <2>1. issued \in 1 .. Len(query.relations) + 1
    BY <1>2, <1>3
  <2>. QED
    BY <1>3, <2>1 DEF OnWalk, ScriptInv, Shown
<1>5. /\ ~Exhausted(1 + Cardinality(NextFrontier("EXPAND_REL")))
  BY DEF Expand, PayChecked
<1>6. /\ frontier' = NextFrontier("EXPAND_REL") /\ depth' = depth + 1
      /\ parents' = Append(parents, Predecessors("EXPAND_REL"))
  BY <1>5 DEF Expand
<1>7. PICK e : e = Claimed(query, query.proof, issued)
  OBVIOUS
<1>8. PICK layer : layer = Predecessors("EXPAND_REL")
  OBVIOUS
<1>9. /\ frontier' = DOMAIN layer /\ e.dst \in frontier'
      /\ \A c \in DOMAIN layer :
           /\ layer[c] \in frontier
           /\ [src |-> layer[c], relation |-> query.relations[issued], dst |-> c]
                \in Graph \ query.disabled
  BY <1>2, <1>3, <1>4, <1>6, <1>7, <1>8, ScriptExpansion DEF ScriptInv
<1>10. layer \in Layer
  BY <1>8, ExpansionTyped DEF ScriptInv, TypeOK, Ops
<1>11. /\ depth = issued - 1 /\ depth = Len(parents) /\ frontier = LayerBefore(issued) /\ Linked
  BY <1>4 DEF AtLayer, ScriptInv, TypeOK
<1>12. PICK n \in Nat : n = issued
  BY <1>3
<1>13. n = Len(parents) + 1 /\ n <= Len(query.relations) /\ frontier = LayerBefore(n)
  BY <1>2, <1>3, <1>11, <1>12
<1>14. Linked' /\ LayerBefore(n + 1)' = DOMAIN layer
  <2>1. \A c \in DOMAIN layer :
           /\ layer[c] \in frontier
           /\ [src |-> layer[c], relation |-> query.relations[n], dst |-> c] \in Graph \ query.disabled
    BY <1>9, <1>12
  <2>2. TypeOK /\ parents' = Append(parents, layer) /\ query' = query
    BY <1>3, <1>6, <1>8 DEF ScriptInv
  <2>. QED
    BY <1>10, <1>11, <1>13, <2>1, <2>2, LinkedGrown
<1>15. query.proof[n + 1] = e.dst
  BY <1>7, <1>12 DEF Claimed
<1>16. depth' = n + 1 - 1 /\ depth' = n /\ issued' = n + 1 /\ n \in 1 .. h
  BY <1>3, <1>6, <1>11, <1>12
<1>17. AtLayer(n + 1)'
  BY <1>3, <1>9, <1>14, <1>15, <1>16 DEF AtLayer
<1>18. issued' # h + 2
  BY <1>16
<1>19. \A i \in 1 .. h + 1 : issued' = i => AtLayer(i)'
  BY <1>16, <1>17
<1>. QED
  BY <1>2, <1>3, <1>18, <1>19 DEF OnWalk

LEMMA ScriptIntersect ==
  ASSUME ScriptInv, Intersect \/ IntersectInapplicable
  PROVE  Scripted'
<1>1. SUFFICES ASSUME onScript', ~done', Demonstrable'
               PROVE  IF IsIntersection(query') THEN OnPair' ELSE OnWalk'
  BY DEF Scripted, IsIntersection
<1>2. Issue("INTERSECT")
  BY DEF Intersect, IntersectInapplicable
<1>3. /\ query \in QuerySpec /\ query' = query /\ issued' = issued + 1 /\ issued = 2
      /\ IsIntersection(query) /\ Demonstrable
  BY <1>1, <1>2, ScriptFacts, OffScript
<1>4. OnPair /\ PairShown
  BY <1>1, <1>2, <1>3, ScriptFacts DEF ScriptInv, Shown
<1>5. aux = {query.constraints[2][1]} /\ query.answer \in frontier
  BY <1>3, <1>4 DEF OnPair
<1>6. Len(query.constraints) = 2
  BY <1>4 DEF PairShown
<1>7. Applicable
  BY <1>3, <1>5, <1>6 DEF Applicable
<1>8. frontier' = frontier \cap Other /\ aux' = aux
  BY <1>7 DEF Intersect, IntersectInapplicable
<1>9. query.answer \in Other
  <2>1. [src |-> query.constraints[2][1], relation |-> query.constraints[2][2],
         dst |-> query.answer] \in Graph
    BY <1>4 DEF PairShown
  <2>. QED
    BY <2>1 DEF Other, Targets
<1>10. OnPair'
  BY <1>3, <1>5, <1>8, <1>9 DEF OnPair
<1>. QED
  BY <1>3, <1>10 DEF IsIntersection

LEMMA ScriptVerify ==
  ASSUME ScriptInv, Verify
  PROVE  Scripted'
<1>1. SUFFICES ASSUME onScript', Demonstrable'
               PROVE  IF IsIntersection(query') THEN OnPair' ELSE OnWalk'
  BY DEF Scripted, IsIntersection
<1>2. Issue("VERIFY")
  BY DEF Verify
<1>3. PICK h \in Nat : h = Len(query.relations)
  BY QueryTyped DEF ScriptInv, TypeOK
<1>4. /\ query \in QuerySpec /\ query' = query /\ issued' = issued + 1 /\ Demonstrable
      /\ IsIntersection(query) => issued = 3 /\ OnPair
      /\ ~IsIntersection(query) => issued = h + 1 /\ OnWalk
  BY <1>1, <1>2, <1>3, ScriptFacts, OffScript
<1>5. CASE IsIntersection(query)
  <2>1. query.answer \in frontier
    BY <1>4, <1>5 DEF OnPair
  <2>2. answer' = query.answer /\ issued' = 4
    BY <1>4, <1>5, <2>1 DEF Verify
  <2>. QED
    BY <1>4, <1>5, <2>2 DEF OnPair, IsIntersection
<1>6. CASE ~IsIntersection(query)
  <2>1. WalkShown /\ AtLayer(h + 1)
    BY <1>3, <1>4, <1>6 DEF OnWalk, ScriptInv, Shown
  <2>2. query.answer \in frontier
    BY <1>3, <2>1 DEF AtLayer, WalkShown
  <2>3. answer' = query.answer /\ path' = ReconstructPath(query.answer)
    BY <1>6, <2>2 DEF Verify
  <2>4. ValidatePathProof(query, path') /\ AvoidsDisabled(path')
    BY <1>3, <2>1, <2>3, ChainAccepted DEF ScriptInv
  <2>5. Valid'
    BY <1>4, <1>6, <2>3, <2>4
       DEF Valid, ValidatePathProof, AvoidsDisabled, IsIntersection, Claimed
  <2>6. issued' = h + 2
    BY <1>4, <1>6
  <2>7. OnWalk'
    BY <1>3, <1>4, <2>5, <2>6 DEF OnWalk
  <2>. QED
    BY <1>4, <1>6, <2>7 DEF IsIntersection
<1>. QED
  BY <1>5, <1>6

\* STOP then finds a proof to accept.
LEMMA ScriptStop ==
  ASSUME ScriptInv, Stop
  PROVE  DemonstrationAccepted'
<1>1. SUFFICES ASSUME onScript', Demonstrable' PROVE result'.valid
  BY DEF DemonstrationAccepted
<1>2. Issue("STOP") /\ Close
  BY DEF Stop
<1>3. PICK h \in Nat : h = Len(query.relations)
  BY QueryTyped DEF ScriptInv, TypeOK
<1>4. /\ IsIntersection(query) => issued = 4 /\ OnPair
      /\ ~IsIntersection(query) => issued = h + 2 /\ OnWalk
  BY <1>1, <1>2, <1>3, ScriptFacts, OffScript
<1>5. Valid
  <2>1. CASE IsIntersection(query)
    <3>1. answer = query.answer /\ PairShown
      BY <1>4, <2>1 DEF OnPair, ScriptInv, Shown
    <3>2. Len(query.constraints) = 2
      BY <3>1 DEF PairShown
    <3>3. ValidateIntersectionProof(query)
      BY <2>1, <3>1, <3>2 DEF ValidateIntersectionProof, PairShown, IsIntersection
    <3>. QED
      BY <2>1, <3>1, <3>3 DEF Valid
  <2>2. CASE ~IsIntersection(query)
    BY <1>3, <1>4, <2>2 DEF OnWalk
  <2>. QED
    BY <2>1, <2>2
<1>. QED
  BY <1>2, <1>5 DEF Close, Judged

LEMMA ScriptInit == Init => ScriptInv
<1>. SUFFICES ASSUME Init PROVE ScriptInv
  OBVIOUS
<1>1. TypeOK
  BY TypeInit
<1>2. Shown
  BY TaskShown DEF Init
<1>3. ~done /\ issued = 0
  BY DEF Init
<1>4. PICK h \in Nat : h = Len(query.relations)
  BY <1>1, QueryTyped DEF TypeOK
<1>5. OnPair
  BY <1>3 DEF OnPair
<1>6. OnWalk
  <2>1. \A i \in 1 .. h + 1 : 0 # i
    BY <1>4
  <2>. QED
    BY <1>3, <1>4, <2>1 DEF OnWalk
<1>. QED
  BY <1>1, <1>2, <1>3, <1>5, <1>6 DEF ScriptInv, Scripted, DemonstrationAccepted

LEMMA ScriptStep == ScriptInv /\ [Next]_vars => ScriptInv'
<1>. SUFFICES ASSUME ScriptInv, [Next]_vars PROVE ScriptInv'
  OBVIOUS
<1>t. TypeOK'
  BY TypeStep DEF ScriptInv
<1>q. query' = query
  BY DEF Next, Seed, AnnUnavailable, Ann, ExpandNothing, ExpandOverCap, Expand, TopK, Filter,
         IntersectInapplicable, Intersect, Union, Verify, Stop, CallerStop, Backtrack, Issue, vars
<1>s. Shown'
  BY <1>q, ShownStays DEF ScriptInv
<1>. DEFINE Goal == Scripted' /\ DemonstrationAccepted'
<1>g. SUFFICES Goal
  BY <1>t, <1>s DEF ScriptInv
<1>o. ~onScript' => Goal
  BY DEF Scripted, DemonstrationAccepted
<1>1. CASE Seed
  <2>1. Issue("SEED")
    BY <1>1 DEF Seed
  <2>. QED
    BY <1>1, <2>1, ScriptSeed, NotTheLast
<1>2. CASE AnnUnavailable
  <2>1. Issue("ANN")
    BY <1>2 DEF AnnUnavailable
  <2>. QED
    BY <1>o, <2>1, OutsideScript
<1>3. CASE Ann
  <2>1. Issue("ANN")
    BY <1>3 DEF Ann
  <2>. QED
    BY <1>o, <2>1, OutsideScript
<1>4. ASSUME NEW op \in Ops, ExpandNothing(op) \/ ExpandOverCap(op) \/ Expand(op) PROVE Goal
  <2>1. Issue(op)
    BY <1>4 DEF ExpandNothing, ExpandOverCap, Expand
  <2>2. DemonstrationAccepted'
    BY <2>1, NotTheLast DEF Ops
  <2>3. CASE op = "EXPAND_ANY"
    BY <1>o, <2>1, <2>3, OutsideScript
  <2>4. CASE op = "EXPAND_REL"
    <3>1. SUFFICES ASSUME onScript', ~done', Demonstrable'
                   PROVE  IF IsIntersection(query') THEN OnPair' ELSE OnWalk'
      BY <2>2 DEF Scripted, IsIntersection
    <3>2. PICK h \in Nat : h = Len(query.relations)
      BY QueryTyped DEF ScriptInv, TypeOK
    <3>3. /\ Demonstrable
          /\ IsIntersection(query) => issued = 1 /\ OnPair
          /\ ~IsIntersection(query) => issued \in 1 .. h /\ OnWalk
      BY <2>1, <2>4, <3>1, <3>2, ScriptFacts, OffScript
    <3>4. frontier # {}
      <4>1. CASE IsIntersection(query)
        BY <3>3, <4>1 DEF OnPair
      <4>2. CASE ~IsIntersection(query)
        <5>1. issued \in 1 .. h + 1
          BY <3>3, <4>2
        <5>2. AtLayer(issued)
          BY <3>2, <3>3, <4>2, <5>1 DEF OnWalk
        <5>. QED
          BY <5>2 DEF AtLayer
      <4>. QED
        BY <4>1, <4>2
    <3>5. Expand("EXPAND_REL")
      BY <1>4, <2>4, <3>1, <3>4 DEF ExpandNothing, ExpandOverCap
    <3>6. IF IsIntersection(query) THEN OnPair' ELSE OnWalk'
      BY <3>1, <3>3, <3>5, ScriptExpandedPair, ScriptExpandedWalk
    <3>. QED
      BY <1>q, <3>6 DEF IsIntersection
  <2>. QED
    BY <2>3, <2>4 DEF Ops
<1>5. ASSUME NEW op \in {"PRUNE", "TOPK"}, TopK(op) PROVE Goal
  <2>1. Issue(op)
    BY <1>5 DEF TopK
  <2>. QED
    BY <1>o, <2>1, OutsideScript
<1>6. CASE Filter
  <2>1. Issue("FILTER")
    BY <1>6 DEF Filter
  <2>. QED
    BY <1>o, <2>1, OutsideScript
<1>7. CASE IntersectInapplicable \/ Intersect
  <2>1. Issue("INTERSECT")
    BY <1>7 DEF IntersectInapplicable, Intersect
  <2>. QED
    BY <1>7, <2>1, ScriptIntersect, NotTheLast
<1>8. CASE Union
  <2>1. Issue("UNION")
    BY <1>8 DEF Union
  <2>. QED
    BY <1>o, <2>1, OutsideScript
<1>9. CASE Verify
  <2>1. Issue("VERIFY")
    BY <1>9 DEF Verify
  <2>. QED
    BY <1>9, <2>1, ScriptVerify, NotTheLast
<1>10. CASE Stop
  <2>1. done'
    BY <1>10 DEF Stop, Close
  <2>. QED
    BY <1>10, <2>1, ScriptStop DEF Scripted
<1>11. CASE CallerStop
  BY <1>o, <1>11 DEF CallerStop
<1>12. CASE Backtrack
  <2>1. Issue("BACKTRACK")
    BY <1>12 DEF Backtrack
  <2>. QED
    BY <1>o, <2>1, OutsideScript
<1>13. CASE UNCHANGED vars
  BY <1>13 DEF vars, ScriptInv, Scripted, DemonstrationAccepted, Demonstration, Demonstrable,
     ProofEdges, IsIntersection, OnPair, OnWalk, AtLayer, LayerBefore, Linked, Valid,
     ValidatePathProof, AvoidsDisabled, ValidateIntersectionProof, Claimed
<1>. QED
  BY <1>1, <1>2, <1>3, <1>4, <1>5, <1>6, <1>7, <1>8, <1>9, <1>10, <1>11, <1>12, <1>13
     DEF Next, Ops

(* The behaviour-cloning target works for every graph, task and embedding  *)
(* store, with and without a CUDA session (environment.py, demonstration;  *)
(* tasks.py): issued to its STOP, within budget and edge cap, it is judged *)
(* valid, whatever nodes its expansions reach besides the demonstrated     *)
(* ones and whatever predecessors they record.                             *)
THEOREM DemonstrationAlwaysAccepted == Spec => []DemonstrationAccepted
<1>1. ScriptInv => DemonstrationAccepted
  BY DEF ScriptInv
<1>. QED
  BY <1>1, ScriptInit, ScriptStep, PTL DEF Spec
=============================================================================
