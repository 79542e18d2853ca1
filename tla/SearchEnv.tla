----------------------------- MODULE SearchEnv -----------------------------
(***************************************************************************)
(* GraphSearchEnv of python/neuroseek/search/environment.py: one budgeted  *)
(* query, answered by the NEURO-ISA operators a policy issues, and judged  *)
(* at STOP.  The policy is any sequence of operators; the caller is the    *)
(* rollout loop of training/trainer.py, which issues at most               *)
(* len(relations) + Slack of them and then STOP.                           *)
(*                                                                         *)
(* Abstractions.  Rewards, the observation vector, the trace and the       *)
(* counters of nodes, edges and ANN vectors are left out: no step reads    *)
(* them.  parent_relations is left out: nothing reads it.  A learned       *)
(* candidate ranker may order a frontier in any way.                       *)
(***************************************************************************)
EXTENDS TaskGenerator

CONSTANTS
  Sessions,       \* BOOLEAN values: is a CUDA CSR session supplied?
  MaxCudaEdges,   \* max_cuda_expand_edges
  SemanticReply,  \* the ids semantic_search returns, by indexed source
  AnnCost,        \* max(1, vectors examined // 1024)
  TopKeep,        \* the 64 of PRUNE and TOPK
  Slack,          \* the 6 of the rollout loop
  NoAnswer

ASSUME EnvAssumption ==
  /\ Sessions \subseteq BOOLEAN
  /\ MaxCudaEdges \in Nat /\ AnnCost \in Nat \ {0} /\ TopKeep \in Nat \ {0} /\ Slack \in Nat
  /\ SemanticReply \in UNION {[S -> SUBSET Nodes] : S \in SUBSET Nodes}
  /\ NoAnswer \notin Nodes

VARIABLES
  query, session,           \* fixed when the environment is built
  frontier, aux, saved,     \* frontier, aux_frontier, saved_frontier
  parents,                  \* one map of predecessors per expansion
  depth, credits, done,
  answer, path,             \* answer, proof_path
  result,                   \* valid_proof and answer_correct of the last step
  issued,                   \* operators the caller has issued
  walked,                   \* ghost: the edges each expansion of this attempt admitted
  onScript                  \* ghost: the program is a prefix of demonstration()

branch == <<frontier, aux, saved, parents, depth, path, walked>>
vars   == <<query, session, frontier, aux, saved, parents, depth, credits, done,
            answer, path, result, issued, walked, onScript>>

IsIntersection(q) == q.family = "intersection"
Judged(valid, correct) == [valid |-> valid, correct |-> correct]

Demonstration ==
  IF IsIntersection(query)
    THEN <<"SEED", "EXPAND_REL", "INTERSECT", "VERIFY", "STOP">>
    ELSE <<"SEED">> \o [i \in 1 .. Len(query.relations) |-> "EXPAND_REL"] \o <<"VERIFY", "STOP">>

Init ==
  /\ query \in Tasks
  /\ session \in Sessions
  /\ frontier = {} /\ aux = {} /\ saved = {}
  /\ parents = << >> /\ depth = 0 /\ credits = 0 /\ done = FALSE
  /\ answer = NoAnswer /\ path = << >>
  /\ result = Judged(FALSE, FALSE)
  /\ issued = 0 /\ walked = << >> /\ onScript = TRUE

-----------------------------------------------------------------------------
(* What every operator does: the caller's loop counts it; it is paid for;  *)
(* those that check the budget end the episode when it is exceeded.        *)
MaxIssued == Len(query.relations) + Slack

Issue(op) ==
  /\ ~done
  /\ issued < MaxIssued
  /\ issued' = issued + 1
  /\ onScript' = (onScript /\ issued < Len(Demonstration) /\ Demonstration[issued + 1] = op)
  /\ UNCHANGED <<query, session>>

Pay(cost) == credits' = credits + cost /\ UNCHANGED <<done, result>>

Exhausted(cost) == credits + cost > query.budget

\* The effects of the operator stay; _fail_budget ends the episode.
PayChecked(cost) ==
  /\ credits' = credits + cost
  /\ done' = Exhausted(cost)
  /\ UNCHANGED result

-----------------------------------------------------------------------------
(* Expansion *)

Wanted_Ahead == IF depth + 1 < Len(query.relations) THEN {query.relations[depth + 2]} ELSE {}

\* The next requested relation, if the program is not past the last one.
Wanted == IF depth < Len(query.relations) THEN {query.relations[depth + 1]} ELSE {}

Touched       == {e \in Graph : e.src \in frontier}
Selects(op)   == IF op = "EXPAND_ANY" THEN Relations ELSE Wanted
Admitted(op)  == {e \in Touched \ query.disabled : e.relation \in Selects(op)}
Targets(E)    == {e.dst : e \in E}

\* The kernel takes a missing relation as no predicate at all.
KernelReturns(op) ==
  Targets({e \in Touched : Wanted = {} \/ e.relation \in Selects(op)})

\* The overlay is applied to the kernel's targets, not to its edges.
BlockedTargets(op) ==
  Targets({e \in query.disabled : e.src \in frontier /\ e.relation \in Selects(op)})

CpuFrontier(op)  == Targets(Admitted(op))
CudaFrontier(op) == KernelReturns(op) \ BlockedTargets(op)
NextFrontier(op) == IF session THEN CudaFrontier(op) ELSE CpuFrontier(op)

Least(S) == CHOOSE n \in S : \A m \in S : n <= m

\* The first predecessor in ascending order of frontier nodes.
Predecessors(op) ==
  [c \in NextFrontier(op) \cap Targets(Admitted(op)) |->
     Least({e.src : e \in {a \in Admitted(op) : a.dst = c}})]

-----------------------------------------------------------------------------
(* One action per operator *)

Restarted_KeepsDepth == /\ frontier' = {query.source} /\ saved' = {}
                        /\ parents' = << >> /\ depth' = depth /\ path' = << >> /\ walked' = << >>
Restarted_KeepsSaved == /\ frontier' = {query.source} /\ saved' = saved
                        /\ parents' = << >> /\ depth' = 0 /\ path' = << >> /\ walked' = << >>
Restarted_KeepsPath == /\ frontier' = {query.source} /\ saved' = {}
                       /\ parents' = << >> /\ depth' = 0 /\ path' = path /\ walked' = << >>

Restarted == /\ frontier' = {query.source} /\ saved' = {}
             /\ parents' = << >> /\ depth' = 0 /\ path' = << >> /\ walked' = << >>

Seed ==
  /\ Issue("SEED")
  /\ Restarted
  /\ aux' = IF IsIntersection(query) /\ Len(query.constraints) >= 2
              THEN {query.constraints[2][1]} ELSE {}
  /\ Pay(1)
  /\ UNCHANGED answer

\* No semantic store, or one that does not cover the source.
AnnUnavailable ==
  /\ Issue("ANN")
  /\ query.source \notin DOMAIN SemanticReply
  /\ Pay(1)
  /\ UNCHANGED <<branch, answer>>

Ann ==
  /\ Issue("ANN")
  /\ query.source \in DOMAIN SemanticReply
  /\ saved' = frontier
  /\ frontier' = SemanticReply[query.source]
  /\ PayChecked(1 + AnnCost)
  /\ UNCHANGED <<aux, parents, depth, path, walked, answer>>

ExpandNothing(op) ==
  /\ Issue(op)
  /\ frontier = {}
  /\ Pay(1)
  /\ UNCHANGED <<branch, answer>>

OverCap == session /\ Cardinality(Touched) > MaxCudaEdges

ExpandOverCap(op) ==
  /\ Issue(op)
  /\ frontier # {}
  /\ OverCap
  /\ done' = TRUE
  /\ UNCHANGED <<branch, answer, credits, result>>

\* An expansion the budget does not allow leaves the frontier as it was.
Expand(op) ==
  LET cost == 1 + Cardinality(NextFrontier(op)) IN
  /\ Issue(op)
  /\ frontier # {} /\ ~OverCap
  /\ PayChecked(cost)
  /\ IF Exhausted(cost)
       THEN UNCHANGED branch
       ELSE /\ frontier' = NextFrontier(op)
            /\ parents'  = Append(parents, Predecessors(op))
            /\ walked'   = Append(walked, Admitted(op))
            /\ depth'    = depth + 1
            /\ UNCHANGED <<aux, saved, path>>
  /\ UNCHANGED answer

\* PRUNE and TOPK: any ranking of the frontier, cut to TopKeep nodes.
TopK(op) ==
  /\ Issue(op)
  /\ frontier' \in {S \in SUBSET frontier :
       Cardinality(S) = IF Cardinality(frontier) < TopKeep THEN Cardinality(frontier) ELSE TopKeep}
  /\ Pay(1)
  /\ UNCHANGED <<aux, saved, parents, depth, path, walked, answer>>

Filter ==
  /\ Issue("FILTER")
  /\ frontier' = {n \in frontier :
       Wanted = {} \/ \E e \in Graph : e.src = n /\ e.relation \in Wanted}
  /\ PayChecked(1 + Cardinality(frontier))
  /\ UNCHANGED <<aux, saved, parents, depth, path, walked, answer>>

Applicable == IsIntersection(query) /\ Len(query.constraints) >= 2 /\ aux # {}

\* The nodes that the second constraint reaches.
Other == Targets({e \in Graph : e.src = query.constraints[2][1]
                                /\ e.relation = query.constraints[2][2]})

IntersectInapplicable ==
  /\ Issue("INTERSECT")
  /\ ~Applicable
  /\ Pay(1)
  /\ UNCHANGED <<branch, answer>>

Intersect ==
  /\ Issue("INTERSECT")
  /\ Applicable
  /\ frontier' = frontier \cap Other
  /\ PayChecked(1 + Cardinality(Other))
  /\ UNCHANGED <<aux, saved, parents, depth, path, walked, answer>>

Union ==
  /\ Issue("UNION")
  /\ frontier' = frontier \cup (IF saved # {} THEN saved ELSE aux)
  /\ PayChecked(1 + Cardinality(frontier'))
  /\ UNCHANGED <<aux, saved, parents, depth, path, walked, answer>>

-----------------------------------------------------------------------------
(* The verdict *)

(* The node paths from the first layer to n along the recorded             *)
(* predecessors: at most one, since each layer gives a node one.           *)
Chains(n) ==
  {c \in [1 .. Len(parents) + 1 -> Nodes] :
     /\ c[Len(c)] = n
     /\ \A i \in 1 .. Len(parents) : c[i + 1] \in DOMAIN parents[i] /\ c[i] = parents[i][c[i + 1]]}

ReconstructPath(n) ==
  LET fromSource == {c \in Chains(n) : c[1] = query.source}
  IN IF fromSource = {} THEN << >> ELSE CHOOSE c \in fromSource : TRUE

\* VERIFY proposes the answer only if the frontier holds it.
Verify ==
  /\ Issue("VERIFY")
  /\ IF query.answer \in frontier
       THEN /\ answer' = query.answer
            /\ path' = IF IsIntersection(query) THEN << >> ELSE ReconstructPath(query.answer)
       ELSE UNCHANGED <<answer, path>>
  /\ Pay(1)
  /\ UNCHANGED <<frontier, aux, saved, parents, depth, walked>>

AvoidsDisabled(p) ==
  \A i \in 1 .. Len(query.relations) : Claimed(query, p, i) \notin query.disabled

Valid ==
  /\ answer = query.answer
  /\ IF IsIntersection(query)
       THEN ValidateIntersectionProof(query)
       ELSE ValidatePathProof(query, path) /\ AvoidsDisabled(path)

Close ==
  /\ credits' = credits + 1
  /\ done' = TRUE
  /\ result' = Judged(Valid, answer = query.answer)
  /\ UNCHANGED <<branch, answer>>

Stop == Issue("STOP") /\ Close

CallerStop_Late ==
  /\ ~done
  /\ issued = MaxIssued + 1
  /\ Close
  /\ issued' = issued + 1
  /\ onScript' = FALSE
  /\ UNCHANGED <<query, session>>

\* "bounded environment always closes the trace": the caller's own STOP.
CallerStop ==
  /\ ~done
  /\ issued = MaxIssued
  /\ Close
  /\ issued' = issued + 1
  /\ onScript' = FALSE
  /\ UNCHANGED <<query, session>>

Backtrack ==
  /\ Issue("BACKTRACK")
  /\ Restarted
  /\ Pay(1)
  /\ UNCHANGED <<aux, answer>>

Next ==
  \/ Seed \/ AnnUnavailable \/ Ann
  \/ \E op \in {"EXPAND_REL", "EXPAND_ANY"} : ExpandNothing(op) \/ ExpandOverCap(op) \/ Expand(op)
  \/ \E op \in {"PRUNE", "TOPK"} : TopK(op)
  \/ Filter \/ IntersectInapplicable \/ Intersect \/ Union
  \/ Verify \/ Stop \/ CallerStop \/ Backtrack

Spec == Init /\ [][Next]_vars /\ WF_vars(Next)

-----------------------------------------------------------------------------
(* Properties *)

Layer == UNION {[S -> Nodes] : S \in SUBSET Nodes}

(* Types; and one layer of predecessors, one set of admitted edges, per    *)
(* level of depth.                                                         *)
TypeOK ==
  /\ query \in QuerySpec /\ session \in BOOLEAN
  /\ frontier \subseteq Nodes /\ aux \subseteq Nodes /\ saved \subseteq Nodes
  /\ parents \in Seq(Layer) /\ walked \in Seq(SUBSET Graph)
  /\ depth = Len(parents) /\ depth = Len(walked)
  /\ credits \in Nat /\ done \in BOOLEAN
  /\ answer \in {NoAnswer, query.answer} /\ path \in Seq(Nodes)
  /\ result \in [valid : BOOLEAN, correct : BOOLEAN]
  /\ issued \in 0 .. MaxIssued + 1 /\ onScript \in BOOLEAN

(* "Validation reconstructs the actual predecessor chain produced by the   *)
(* executed instructions": a path query is judged valid only if the        *)
(* expansions since the last SEED or BACKTRACK themselves admitted, in     *)
(* order, the edges of a path with the query's relations from its source   *)
(* to its answer, none of them hidden from the episode.  In particular a   *)
(* path verified before a BACKTRACK is not evidence after it, and the      *)
(* teacher's path never is.                                                *)
ExecutedPath(c) ==
  /\ c[1] = query.source /\ c[Len(c)] = query.answer
  /\ Len(query.relations) <= Len(walked)
  /\ \A i \in 1 .. Len(query.relations) :
       Claimed(query, c, i) \in walked[i] \ query.disabled
ValidProofIsExecuted ==
  result.valid /\ ~IsIntersection(query) =>
    \E c \in [1 .. Len(query.relations) + 1 -> Nodes] : ExecutedPath(c)

(* The behaviour-cloning target is a program that works: whatever edge is  *)
(* chosen as a node's predecessor, issuing demonstration() to its STOP is  *)
(* judged valid, if the overlay hides no demonstrated edge and is not      *)
(* applied by the CUDA path (both can fail: see DemonstratedEdgeEnabled    *)
(* and CudaFrontierAgrees).                                                *)
ProofEdges(q) == {Claimed(q, q.proof, i) : i \in 1 .. (Len(q.proof) - 1)}
Demonstrable == query.disabled \cap ProofEdges(query) = {} /\ (session => query.disabled = {})
DemonstrationAccepted ==
  onScript /\ done /\ issued = Len(Demonstration) /\ Demonstrable => result.valid

(* After BACKTRACK or SEED no node that only an abandoned attempt reached  *)
(* can come back, through UNION with the saved register or otherwise.      *)
(* (A CUDA expansion past the last relation records no edges at all, see   *)
(* CudaFrontierAgrees: such attempts are left out.)                        *)
OwnNodes ==
  {query.source} \cup aux \cup Targets(UNION {walked[i] : i \in 1 .. Len(walked)})
    \cup (IF query.source \in DOMAIN SemanticReply THEN SemanticReply[query.source] ELSE {})
NothingRevived ==
  (session => depth <= Len(query.relations)) => frontier \cup saved \subseteq OwnNodes

(* Only the operators whose cost depends on the graph check the budget;    *)
(* the others may overrun it, but by no more than one credit each.         *)
OverrunBounded ==
  ~done \/ result.valid => credits <= query.budget + issued

(* The rollout loop always ends with a closed episode.                     *)
EpisodeCloses == <>done

(* tasks.py: "The correct demonstrated edge is never disabled."            *)
DemonstratedEdgeEnabled ==
  query.family = "robustness" => query.disabled \cap ProofEdges(query) = {}

(* docs/NEURO_ISA.md: CUDA output must preserve the reference's accounting *)
(* and evidence; a session's next frontier is the CPU reference's.         *)
CudaFrontierAgrees ==
  session /\ ~done =>
    \A op \in {"EXPAND_REL", "EXPAND_ANY"} : CudaFrontier(op) = CpuFrontier(op)

(* docs/TRAINING.md: "A policy result receives answer credit only after    *)
(* the independent proof validator accepts its graph evidence."            *)
AnswerCreditNeedsProof == result.correct => result.valid
=============================================================================
