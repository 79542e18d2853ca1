------------------------------ MODULE NeuroVM ------------------------------
(***************************************************************************)
(* The NEURO-ISA search virtual machine of rust/core/src/lib.rs: four      *)
(* frontier registers, the verified answers, the observed proof, a credit  *)
(* budget, and a history of branch points that BACKTRACK returns to.       *)
(*                                                                         *)
(* One action per instruction, each the whole of SearchVm::execute_traced  *)
(* for an instruction that succeeds; Reject is execute_traced for one that *)
(* fails.  The scheduler (CLI, native caller) may issue any instruction at *)
(* any time, so every program is a behaviour.                              *)
(*                                                                         *)
(* Abstractions.  A frontier Vec<ScoredNode> never holds a node twice, so  *)
(* it is a function from its nodes to their scores together with the order *)
(* it is in: ascending node id (normalized) or rank (after TOPK).  Scores  *)
(* are small naturals: only their order matters.  proof.edges is kept as   *)
(* one set of edges per expansion, with the length of the vector beside    *)
(* it.  Counters no property tells apart (bytes, ANN calls, backtracks,    *)
(* prefetches, evictions, the frontier peak) are left out.                 *)
(***************************************************************************)
EXTENDS Naturals, Sequences, FiniteSets

CONSTANTS
  NodeIds,        \* the u32 node ids in use; an ANN provider may return any of them
  NodeCount,      \* CsrGraph::node_count: the ids below it are in the graph
  Relations,      \* the relation ids
  Graph,          \* the CSR graph, as its set of edges
  MaxScore,       \* scores are 0 .. MaxScore
  SeedScore,      \* the score 1.0 that SEED gives
  AnnReplies,     \* what AnnProvider::search may return; {} if no provider is set
  Limits,         \* the k of ANN, PRUNE and TOPK
  StoreRegisters, \* the registers F1..F3 that a native caller writes
  InitialBudget,  \* the credits given to SearchVm::new
  NoAnswer,       \* Option::None in Proof::answer
  MaxAttempts     \* bound of the model: instructions issued in one behaviour

Scores     == 0 .. MaxScore
GraphNodes == {n \in NodeIds : n < NodeCount}
Edge       == [src : GraphNodes, relation : Relations, dst : GraphNodes]
ScoredNode == [node : NodeIds, score : Scores]

ASSUME NodesAssumption == /\ NodeIds \subseteq Nat
                          /\ IsFiniteSet(NodeIds)
                          /\ NoAnswer \notin NodeIds
ASSUME GraphAssumption == Graph \subseteq Edge /\ IsFiniteSet(Graph)
ASSUME ScoreAssumption == MaxScore \in Nat /\ SeedScore \in Scores
ASSUME AnnAssumption   == AnnReplies \subseteq SUBSET ScoredNode
ASSUME LimitAssumption == /\ Limits \subseteq Nat
                          /\ StoreRegisters \subseteq 1 .. 3
                          /\ InitialBudget \in Nat
                          /\ MaxAttempts \in Nat

VARIABLES
  registers,  \* F0..F3
  answers,    \* the frontier that VERIFY last copied
  proof,      \* evidence and proposed answer
  depth,
  history,    \* the branch points, oldest first
  budget,
  stopped,
  stats,
  injected    \* ghost: nodes that SEED or ANN put into the live branch

machine == <<registers, answers, proof, depth, history, budget, stopped, injected>>
vars    == <<registers, answers, proof, depth, history, budget, stopped, stats, injected>>

-----------------------------------------------------------------------------
(* Frontiers *)

PartialScores == UNION {[S -> Scores] : S \in SUBSET NodeIds}
Frontier      == [score : PartialScores, ranked : BOOLEAN]
Nodes(F)      == DOMAIN F.score
Size(F)       == Cardinality(Nodes(F))
EmptyFrontier == [score |-> [n \in {} |-> 0], ranked |-> FALSE]

\* The greatest of a set of scores.
Best(S) == CHOOSE s \in S : \A t \in S : t <= s

\* SearchVm::normalized: one entry per node, the best score, ascending ids.
Normalized(scored) ==
  [score  |-> [n \in {s.node : s \in scored} |->
                 Best({s.score : s \in {t \in scored : t.node = n}})],
   ranked |-> FALSE]

Entries(F) == {[node |-> n, score |-> F.score[n]] : n \in Nodes(F)}

\* retain: the order of what stays does not change.
Retain(F, S) == [F EXCEPT !.score = [n \in Nodes(F) \cap S |-> F.score[n]]]

\* sort_by of PRUNE and TOPK: descending score, then ascending node id.
Outranks(F, m, n) == \/ F.score[m] > F.score[n]
                     \/ F.score[m] = F.score[n] /\ m < n

Top(F, k) ==
  [score  |-> [n \in {m \in Nodes(F) :
                        Cardinality({l \in Nodes(F) : Outranks(F, l, m)}) < k} |->
                 F.score[n]],
   ranked |-> TRUE]

\* answers.first(): by rank if the frontier was sorted by rank, else by id.
First(F) ==
  IF Nodes(F) = {} THEN NoAnswer
  ELSE CHOOSE n \in Nodes(F) : \A m \in Nodes(F) \ {n} :
         IF F.ranked THEN Outranks(F, n, m) ELSE n < m

(* The edges that an expansion along the relations rels selects, those it  *)
(* examines, and the entries of the next frontier before normalization.    *)
Examined       == {e \in Graph : e.src \in Nodes(registers[0])}
Observed(rels) == {e \in Examined : e.relation \in rels}
Reached(rels)  == {[node |-> e.dst, score |-> registers[0].score[e.src]] :
                     e \in Observed(rels)}

-----------------------------------------------------------------------------
(* Evidence *)

NoProof  == [edges |-> << >>, listed |-> 0, answer |-> NoAnswer]
Proofs   == [edges : Seq(SUBSET Graph), listed : Nat, answer : NodeIds \cup {NoAnswer}]
Evidence(p) == UNION {p.edges[i] : i \in 1 .. Len(p.edges)}

HistoryEntry == [registers : [0 .. 3 -> Frontier], answers : Frontier,
                 proof : Proofs, depth : Nat, injected : SUBSET NodeIds]

\* The branch that is live, as push_history would save it.
Branch == [registers |-> registers, answers |-> answers, proof |-> proof,
           depth |-> depth, injected |-> injected]

\* What BACKTRACK leaves when there is no branch point to return to.
FreshBranch == [registers |-> [r \in 0 .. 3 |-> EmptyFrontier], answers |-> EmptyFrontier,
                proof |-> NoProof, depth |-> 0, injected |-> {}]

(* validate_proof: an allowed answer, the required edges all observed,     *)
(* every edge in the graph, and an edge into the answer unless no edge is  *)
(* required.                                                               *)
ValidateProof(query, p) ==
  /\ p.answer \in query.answers
  /\ query.required \subseteq Evidence(p)
  /\ Evidence(p) \subseteq Graph
  /\ \/ \E e \in Evidence(p) : e.dst = p.answer
     \/ query.required = {}

-----------------------------------------------------------------------------
(* Accounting *)

Stats == [attempted : Nat, instructions : Nat, failed : Nat, nodes_visited : Nat,
          edges_examined : Nat, credits : Nat, max_depth : Nat]

ZeroStats == [attempted |-> 0, instructions |-> 0, failed |-> 0, nodes_visited |-> 0,
              edges_examined |-> 0, credits |-> 0, max_depth |-> 0]

MaxOf(a, b) == IF a > b THEN a ELSE b

Issued == stats.attempted < MaxAttempts

(* An instruction that runs: charge(cost), then one more attempted and     *)
(* successful instruction.                                                 *)
\* Variants: the charge is not checked against the budget; a saturating subtraction in place of the budget check.
Runs_Unchecked(cost) ==
  /\ Issued
  /\ ~stopped
  /\ budget' = budget - cost

Runs_Saturating(cost) ==
  /\ Issued
  /\ ~stopped
  /\ budget' = IF budget >= cost THEN budget - cost ELSE 0

Runs(cost) ==
  /\ Issued
  /\ ~stopped
  /\ budget >= cost
  /\ budget' = budget - cost

Counted(cost, visited, examined) ==
  stats' = [stats EXCEPT !.attempted      = @ + 1,
                         !.instructions   = @ + 1,
                         !.credits        = @ + cost,
                         !.nodes_visited  = @ + visited,
                         !.edges_examined = @ + examined,
                         !.max_depth      = MaxOf(@, depth')]

PushHistory == history' = Append(history, Branch)

SetF0(F) == registers' = [registers EXCEPT ![0] = F]

\* Variants: BACKTRACK forgets the evidence; F1..F3.
Restore_KeepsProof(b) ==
  /\ registers' = b.registers /\ UNCHANGED proof
  /\ answers' = b.answers /\ depth' = b.depth /\ injected' = b.injected

Restore_OnlyF0(b) ==
  /\ registers' = [registers EXCEPT ![0] = b.registers[0]]
  /\ answers' = b.answers /\ proof' = b.proof /\ depth' = b.depth
  /\ injected' = b.injected

Restore(b) ==
  /\ registers' = b.registers
  /\ answers'   = b.answers
  /\ proof'     = b.proof
  /\ depth'     = b.depth
  /\ injected'  = b.injected

\* history.pop(): what BACKTRACK returns to.
NewestBranch == history[Len(history)]

-----------------------------------------------------------------------------
(* Instructions *)

Init ==
  /\ registers = FreshBranch.registers
  /\ answers   = EmptyFrontier
  /\ proof     = NoProof
  /\ depth     = 0
  /\ history   = << >>
  /\ budget    = InitialBudget
  /\ stopped   = FALSE
  /\ stats     = ZeroStats
  /\ injected  = {}

Seed(node) ==
  /\ node < NodeCount
  /\ Runs(1)
  /\ PushHistory
  /\ SetF0([score |-> [n \in {node} |-> SeedScore], ranked |-> FALSE])
  /\ injected' = injected \cup {node}
  /\ UNCHANGED <<answers, proof, depth, stopped>>
  /\ Counted(1, 0, 0)

\* The provider's reply is neither cut to k nor checked against the graph.
Ann(k, reply) ==
  /\ Runs(k)
  /\ PushHistory
  /\ SetF0(Normalized(reply))
  /\ injected' = injected \cup {s.node : s \in reply}
  /\ UNCHANGED <<answers, proof, depth, stopped>>
  /\ Counted(k, 0, 0)

\* Variant: the charge counts the normalized frontier, not the emitted edges.
ExpandCost_Normalized(rels) == Cardinality({e.dst : e \in Observed(rels)})

\* charge(next.len()): one credit for every emitted edge.
ExpandCost(rels) == Cardinality(Observed(rels))

\* EXPAND_REL(r) is Expand({r}); EXPAND_ANY is Expand(Relations).
Expand(rels) ==
  LET emitted == Cardinality(Observed(rels)) IN
  /\ Nodes(registers[0]) \subseteq GraphNodes
  /\ Runs(ExpandCost(rels))
  /\ PushHistory
  /\ SetF0(Normalized(Reached(rels)))
  /\ proof' = [proof EXCEPT !.edges  = Append(@, Observed(rels)),
                            !.listed = @ + emitted]
  /\ depth' = depth + 1
  /\ UNCHANGED <<answers, stopped, injected>>
  /\ Counted(ExpandCost(rels), emitted, Cardinality(Examined))

FilterRelation(rel) ==
  /\ Runs(Size(registers[0]))
  /\ SetF0(Retain(registers[0], {e.src : e \in {d \in Graph : d.relation = rel}}))
  /\ UNCHANGED <<answers, proof, depth, history, stopped, injected>>
  /\ Counted(Size(registers[0]), 0, 0)

Intersect(r) ==
  LET cost == Size(registers[0]) + Size(registers[r]) IN
  /\ Runs(cost)
  /\ SetF0(Retain(registers[0], Nodes(registers[r])))
  /\ UNCHANGED <<answers, proof, depth, history, stopped, injected>>
  /\ Counted(cost, 0, 0)

Union(r) ==
  LET cost == Size(registers[0]) + Size(registers[r]) IN
  /\ Runs(cost)
  /\ SetF0(Normalized(Entries(registers[0]) \cup Entries(registers[r])))
  /\ UNCHANGED <<answers, proof, depth, history, stopped, injected>>
  /\ Counted(cost, 0, 0)

\* PRUNE(k) and TOPK(k) are the same arm.
TopK(k) ==
  /\ Runs(Size(registers[0]))
  /\ SetF0(Top(registers[0], k))
  /\ UNCHANGED <<answers, proof, depth, history, stopped, injected>>
  /\ Counted(Size(registers[0]), 0, 0)

Verify ==
  /\ Runs(1)
  /\ answers' = registers[0]
  /\ proof' = [proof EXCEPT !.answer = First(registers[0])]
  /\ UNCHANGED <<registers, depth, history, stopped, injected>>
  /\ Counted(1, 0, 0)

Backtrack ==
  /\ Runs(1)
  /\ IF history = << >>
       THEN Restore(FreshBranch) /\ UNCHANGED history
       ELSE /\ Restore(NewestBranch)
            /\ history' = SubSeq(history, 1, Len(history) - 1)
  /\ UNCHANGED stopped
  /\ Counted(1, 0, 0)

\* PREFETCH and EVICT: cache intents that only cost a credit.
CacheHint ==
  /\ Runs(1)
  /\ UNCHANGED <<registers, answers, proof, depth, history, stopped, injected>>
  /\ Counted(1, 0, 0)

Stop ==
  /\ Runs(1)
  /\ stopped' = TRUE
  /\ UNCHANGED <<registers, answers, proof, depth, history, injected>>
  /\ Counted(1, 0, 0)

(* What an instruction needs before it can charge, and what it charges.    *)
Instructions ==
  [op : {"SEED"}, node : NodeIds] \cup [op : {"ANN", "TOPK"}, k : Limits]
    \cup [op : {"EXPAND"}, rels : {{r} : r \in Relations} \cup {Relations}]
    \cup [op : {"FILTER"}, rel : Relations] \cup [op : {"SET"}, r : 0 .. 4]
    \cup [op : {"UNIT"}]

Cost(i) == CASE i.op = "ANN"    -> i.k
             [] i.op = "EXPAND" -> ExpandCost(i.rels)
             [] i.op \in {"TOPK", "FILTER"} -> Size(registers[0])
             [] i.op = "SET"    -> Size(registers[0]) + Size(registers[i.r])
             [] OTHER           -> 1

Legal(i) == /\ i.op = "SEED"   => i.node < NodeCount
            /\ i.op = "EXPAND" => Nodes(registers[0]) \subseteq GraphNodes
            /\ i.op = "SET"    => i.r <= 3

(* execute_traced on an error: the snapshot is restored and only the       *)
(* attempt is counted.  "SET" is INTERSECT or UNION, "UNIT" one of VERIFY, *)
(* BACKTRACK, PREFETCH, EVICT and STOP; ANN also fails when its provider   *)
(* does or there is none.                                                  *)
Reject(i) ==
  /\ Issued
  /\ (~stopped /\ i.op # "ANN" /\ Legal(i)) => budget < Cost(i)
  /\ stats' = [stats EXCEPT !.attempted = @ + 1, !.failed = @ + 1]
  /\ UNCHANGED machine

\* External: a native caller keeps the current frontier in F1..F3.
StoreRegister(r) ==
  /\ registers' = [registers EXCEPT ![r] = registers[0]]
  /\ UNCHANGED <<answers, proof, depth, history, budget, stopped, stats, injected>>

Next ==
  \/ \E n \in NodeIds : Seed(n)
  \/ \E k \in Limits, reply \in AnnReplies : Ann(k, reply)
  \/ \E r \in Relations : Expand({r})
  \/ Expand(Relations)
  \/ \E r \in Relations : FilterRelation(r)
  \/ \E r \in 0 .. 3 : Intersect(r)
  \/ \E r \in 0 .. 3 : Union(r)
  \/ \E k \in Limits : TopK(k)
  \/ Verify
  \/ Backtrack
  \/ CacheHint
  \/ Stop
  \/ \E i \in Instructions : Reject(i)
  \/ \E r \in StoreRegisters : StoreRegister(r)

Spec == Init /\ [][Next]_vars

-----------------------------------------------------------------------------
(* Properties *)

TypeOK ==
  /\ registers \in [0 .. 3 -> Frontier]
  /\ answers \in Frontier
  /\ proof \in Proofs
  /\ depth \in Nat
  /\ history \in Seq(HistoryEntry)
  /\ budget \in Nat
  /\ stopped \in BOOLEAN
  /\ stats \in Stats
  /\ injected \in SUBSET NodeIds

\* The live branch and every branch point.
Branches == {Branch} \cup {history[i] : i \in 1 .. Len(history)}

(* Credits are neither created nor lost by any mix of accepted, rejected   *)
(* and undone instructions, and every attempt is counted exactly once as a *)
(* success or as a failure (charge, and the counters execute_traced        *)
(* updates around the restored snapshot).                                  *)
AccountsBalance ==
  /\ budget + stats.credits = InitialBudget
  /\ stats.attempted = stats.instructions + stats.failed

(* No branch holds more evidence than the search visited, and it visited   *)
(* no more than it paid credits for: a proof cannot outgrow the budget,    *)
(* even when many edges lead to one node.                                  *)
EvidencePaidFor ==
  /\ \A b \in Branches : b.proof.listed <= stats.nodes_visited
  /\ stats.nodes_visited <= stats.credits
  /\ stats.nodes_visited <= stats.edges_examined

(* The depth of a branch is the number of expansions in its own evidence,  *)
(* on the live branch and on every branch point, however often the search  *)
(* backtracked; max_depth covers them all.                                 *)
DepthIsEvidence ==
  \A b \in Branches : b.depth = Len(b.proof.edges) /\ b.depth <= stats.max_depth

\* Branch a was left for branch b: b continues a's evidence.
Continues(b, a) ==
  /\ Len(a.proof.edges) <= Len(b.proof.edges)
  /\ \A i \in 1 .. Len(a.proof.edges) : b.proof.edges[i] = a.proof.edges[i]
  /\ a.injected \subseteq b.injected

(* Each branch point is a prefix of the next one and the newest of the     *)
(* live branch: BACKTRACK can never bring back evidence that another       *)
(* branch gathered.                                                        *)
BranchesNest ==
  /\ \A i \in 1 .. Len(history) - 1 : Continues(history[i + 1], history[i])
  /\ Len(history) > 0 => Continues(Branch, history[Len(history)])

\* The nodes the first i batches of b's evidence account for.
KnownAfter(b, i) ==
  b.injected \cup {e.dst : e \in UNION {b.proof.edges[j] : j \in 1 .. i}}
Known(b) == KnownAfter(b, Len(b.proof.edges))

\* Every traversed edge is in the graph and left a node known before it.
EvidenceGrounded(b) ==
  \A i \in 1 .. Len(b.proof.edges) :
    \A e \in b.proof.edges[i] : e \in Graph /\ e.src \in KnownAfter(b, i - 1)

\* Every node held anywhere on b is accounted for by b's own evidence.
NodesAccounted(b) ==
  /\ \A r \in 0 .. 3 : Nodes(b.registers[r]) \subseteq Known(b)
  /\ Nodes(b.answers) \subseteq Known(b)
  /\ b.proof.answer # NoAnswer => b.proof.answer \in Nodes(b.answers)

(* "A proof could accidentally retain edges from a branch the VM has       *)
(* abandoned" is what HistoryEntry guards against; the converse is as      *)
(* harmful, a node whose evidence was abandoned.  On every branch each     *)
(* edge starts at a node that is already accounted for, and each node in   *)
(* F0..F3, in the answers and in the proof is accounted for.               *)
BranchesSupported == \A b \in Branches : EvidenceGrounded(b) /\ NodesAccounted(b)

(* The proposed answer is reached from a node that SEED or ANN supplied on *)
(* the same branch by edges of the proof alone: every set of nodes that    *)
(* holds those nodes and is closed under the evidence holds the answer.    *)
AnswerReachable ==
  proof.answer # NoAnswer =>
    \A C \in SUBSET NodeIds :
      (/\ injected \subseteq C
       /\ \A e \in Evidence(proof) : e.src \in C => e.dst \in C)
      => proof.answer \in C

(* The VM implements the abstract trail of evidence.                       *)
Trail == INSTANCE EvidenceTrail WITH
           Edges    <- Graph,
           Budget   <- InitialBudget,
           Price    <- Cardinality,
           trail    <- proof.edges,
           branches <- [i \in 1 .. Len(history) |-> history[i].proof.edges],
           spent    <- stats.credits,
           closed   <- stopped
TrailSpec == Trail!Spec

(* docs/NEURO_ISA.md: the validator accepts "an allowed answer supported   *)
(* by evidence".                                                           *)
ValidatedAnswerSupported ==
  \A required \in SUBSET Graph, allowed \in (SUBSET NodeIds) \ {{}} :
    ValidateProof([required |-> required, answers |-> allowed], proof)
      => \E e \in Evidence(proof) : e.dst = proof.answer
=============================================================================
