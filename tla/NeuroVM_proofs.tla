--------------------------- MODULE NeuroVM_proofs ---------------------------
(***************************************************************************)
(* Proofs about NeuroVM for every graph, budget, provider and program.     *)
(***************************************************************************)
EXTENDS NeuroVM, FiniteSetTheorems, SequenceTheorems, WellFoundedInduction, TLAPS

-----------------------------------------------------------------------------
(* Numbers: every non-empty set of naturals has a least element, and every *)
(* non-empty set of scores a greatest one.                                 *)

LEMMA LeastNatural ==
  ASSUME NEW S \in SUBSET Nat, S # {}
  PROVE  \E x \in S : \A y \in S : x <= y
<1>1. IsWellFoundedOn(OpToRel(<, Nat), Nat)
  BY NatLessThanWellFounded
<1>2. PICK x \in S : \A y \in S : ~ (<<y, x>> \in OpToRel(<, Nat))
  BY <1>1, WFMin
<1>3. \A y \in S : ~ (y < x)
  BY <1>2 DEF OpToRel
<1>. QED
  BY <1>3

LEMMA GreatestScore ==
  ASSUME NEW S \in SUBSET Scores, S # {}
  PROVE  Best(S) \in S /\ \A t \in S : t <= Best(S)
<1>1. MaxScore \in Nat
  BY ScoreAssumption
<1>. DEFINE D == {MaxScore - s : s \in S}
<1>2. D \in SUBSET Nat /\ D # {}
  <2>1. ASSUME NEW s \in S PROVE MaxScore - s \in Nat
    BY <1>1 DEF Scores
  <2>. QED
    BY <2>1
<1>3. PICK d \in D : \A y \in D : d <= y
  BY <1>2, LeastNatural
<1>4. PICK s \in S : d = MaxScore - s
  OBVIOUS
<1>5. \A t \in S : t <= s
  <2>1. TAKE t \in S
  <2>2. MaxScore - s <= MaxScore - t
    BY <1>3, <1>4
  <2>. QED
    BY <1>1, <2>2 DEF Scores
<1>. QED
  BY <1>5 DEF Best

-----------------------------------------------------------------------------
(* Frontiers *)

LEMMA FrontierIs ==
  ASSUME NEW f, NEW S \in SUBSET NodeIds, f \in [S -> Scores], NEW r \in BOOLEAN
  PROVE  [score |-> f, ranked |-> r] \in Frontier
  BY DEF Frontier, PartialScores

LEMMA FrontierHas ==
  ASSUME NEW F \in Frontier
  PROVE  /\ Nodes(F) \in SUBSET NodeIds
         /\ F.score \in [Nodes(F) -> Scores]
         /\ F.ranked \in BOOLEAN
         /\ Size(F) \in Nat
<1>1. PICK S \in SUBSET NodeIds : F.score \in [S -> Scores]
  BY DEF Frontier, PartialScores
<1>2. Nodes(F) = S
  BY <1>1 DEF Nodes
<1>3. IsFiniteSet(Nodes(F))
  BY <1>2, FS_Subset, NodesAssumption
<1>. QED
  BY <1>1, <1>2, <1>3, FS_CardinalityType DEF Frontier, Size

LEMMA EmptyFrontierType == EmptyFrontier \in Frontier /\ Nodes(EmptyFrontier) = {}
<1>1. [n \in {} |-> 0] \in [{} -> Scores]
  OBVIOUS
<1>. QED
  BY <1>1, FrontierIs DEF EmptyFrontier, Nodes

LEMMA NormalizedType ==
  ASSUME NEW scored \in SUBSET ScoredNode
  PROVE  /\ Normalized(scored) \in Frontier
         /\ Nodes(Normalized(scored)) = {s.node : s \in scored}
<1>. DEFINE N == {s.node : s \in scored}
            M(n) == {s.score : s \in {t \in scored : t.node = n}}
            f == [n \in N |-> Best(M(n))]
<1>1. N \in SUBSET NodeIds
  BY DEF ScoredNode
<1>2. ASSUME NEW n \in N PROVE Best(M(n)) \in Scores
  <2>1. M(n) \in SUBSET Scores /\ M(n) # {}
    BY DEF ScoredNode
  <2>. QED
    BY <2>1, GreatestScore
<1>3. f \in [N -> Scores]
  BY <1>2
<1>4. Normalized(scored) = [score |-> f, ranked |-> FALSE]
  BY DEF Normalized
<1>. HIDE DEF N, M, f
<1>5. [score |-> f, ranked |-> FALSE] \in Frontier
  BY <1>1, <1>3, FrontierIs
<1>6. Nodes([score |-> f, ranked |-> FALSE]) = N
  BY <1>3 DEF Nodes
<1>. QED
  BY <1>4, <1>5, <1>6 DEF N

LEMMA RetainType ==
  ASSUME NEW F \in Frontier, NEW S
  PROVE  Retain(F, S) \in Frontier /\ Nodes(Retain(F, S)) = Nodes(F) \cap S
<1>. DEFINE T == Nodes(F) \cap S
            f == [n \in T |-> F.score[n]]
<1>1. T \in SUBSET NodeIds /\ f \in [T -> Scores] /\ F.ranked \in BOOLEAN
  BY FrontierHas
<1>2. Retain(F, S) = [score |-> f, ranked |-> F.ranked]
  BY DEF Retain, Frontier
<1>. QED
  BY <1>1, <1>2, FrontierIs DEF Nodes

LEMMA TopType ==
  ASSUME NEW F \in Frontier, NEW k \in Nat
  PROVE  Top(F, k) \in Frontier /\ Nodes(Top(F, k)) \subseteq Nodes(F)
<1>. DEFINE T == {m \in Nodes(F) : Cardinality({l \in Nodes(F) : Outranks(F, l, m)}) < k}
            f == [n \in T |-> F.score[n]]
<1>1. T \in SUBSET NodeIds /\ T \subseteq Nodes(F) /\ f \in [T -> Scores]
  BY FrontierHas
<1>2. Top(F, k) = [score |-> f, ranked |-> TRUE]
  BY DEF Top
<1>. HIDE DEF T, f
<1>3. Nodes([score |-> f, ranked |-> TRUE]) = T
  BY <1>1 DEF Nodes
<1>. QED
  BY <1>1, <1>2, <1>3, FrontierIs

\* The first node of a non-empty frontier exists, in either order.
LEMMA FirstType ==
  ASSUME NEW F \in Frontier
  PROVE  First(F) \in Nodes(F) \cup {NoAnswer}
<1>1. CASE Nodes(F) = {}
  BY <1>1 DEF First
<1>2. CASE Nodes(F) # {} /\ ~F.ranked
  <2>1. PICK n \in Nodes(F) : \A m \in Nodes(F) : n <= m
    BY <1>2, LeastNatural, FrontierHas, NodesAssumption
  <2>2. \A m \in Nodes(F) \ {n} : n < m
    <3>1. Nodes(F) \subseteq Nat
      BY FrontierHas, NodesAssumption
    <3>. QED
      BY <2>1, <3>1
  <2>. QED
    BY <1>2, <2>2 DEF First
<1>3. CASE Nodes(F) # {} /\ F.ranked
  <2>. DEFINE S == {F.score[n] : n \in Nodes(F)}
              B == {n \in Nodes(F) : F.score[n] = Best(S)}
  <2>1. S \in SUBSET Scores /\ S # {}
    BY <1>3, FrontierHas
  <2>2. Best(S) \in S /\ \A t \in S : t <= Best(S)
    BY <2>1, GreatestScore
  <2>3. B \in SUBSET Nat /\ B # {}
    BY <2>2, FrontierHas, NodesAssumption
  <2>4. PICK n \in B : \A m \in B : n <= m
    BY <2>3, LeastNatural
  <2>5. ASSUME NEW m \in Nodes(F) \ {n} PROVE Outranks(F, n, m)
    <3>1. F.score[m] \in Nat /\ F.score[n] \in Nat /\ F.score[m] <= F.score[n]
      BY <2>1, <2>2, ScoreAssumption DEF Scores
    <3>2. n \in Nat /\ m \in Nat
      BY FrontierHas, NodesAssumption
    <3>3. F.score[m] = F.score[n] => n <= m
      BY <2>4
    <3>. QED
      BY <3>1, <3>2, <3>3 DEF Outranks
  <2>. QED
    BY <1>3, <2>5 DEF First
<1>. QED
  BY <1>1, <1>2, <1>3

-----------------------------------------------------------------------------
(* Type correctness *)

LEMMA EdgesFinite ==
  ASSUME NEW rels
  PROVE  /\ Observed(rels) \in SUBSET Graph
         /\ Observed(rels) \subseteq Examined
         /\ Cardinality(Observed(rels)) \in Nat
         /\ Cardinality(Examined) \in Nat
         /\ Cardinality(Observed(rels)) <= Cardinality(Examined)
<1>1. Examined \in SUBSET Graph /\ Observed(rels) \in SUBSET Examined
  BY DEF Examined, Observed
<1>2. IsFiniteSet(Examined)
  BY <1>1, FS_Subset, GraphAssumption
<1>3. IsFiniteSet(Observed(rels)) /\ Cardinality(Observed(rels)) <= Cardinality(Examined)
  BY <1>1, <1>2, FS_Subset
<1>. QED
  BY <1>1, <1>2, <1>3, FS_CardinalityType

LEMMA ReachedType ==
  ASSUME NEW rels, registers[0] \in Frontier
  PROVE  /\ Reached(rels) \in SUBSET ScoredNode
         /\ {s.node : s \in Reached(rels)} = {e.dst : e \in Observed(rels)}
<1>1. ASSUME NEW e \in Observed(rels)
      PROVE  e.dst \in NodeIds /\ registers[0].score[e.src] \in Scores
  <2>1. e \in Graph /\ e.src \in Nodes(registers[0])
    BY DEF Observed, Examined
  <2>2. e.dst \in NodeIds
    BY <2>1, GraphAssumption DEF Edge, GraphNodes
  <2>. QED
    BY <2>1, <2>2, FrontierHas
<1>. DEFINE entry(e) == [node |-> e.dst, score |-> registers[0].score[e.src]]
<1>2. Reached(rels) = {entry(e) : e \in Observed(rels)}
  BY DEF Reached
<1>3. \A e \in Observed(rels) : entry(e) \in ScoredNode /\ entry(e).node = e.dst
  BY <1>1 DEF ScoredNode
<1>. HIDE DEF entry
<1>. QED
  BY <1>2, <1>3

LEMMA EntriesType ==
  ASSUME NEW F \in Frontier
  PROVE  Entries(F) \in SUBSET ScoredNode /\ {s.node : s \in Entries(F)} = Nodes(F)
<1>. DEFINE entry(n) == [node |-> n, score |-> F.score[n]]
<1>1. Entries(F) = {entry(n) : n \in Nodes(F)}
  BY DEF Entries
<1>2. \A n \in Nodes(F) : entry(n) \in ScoredNode /\ entry(n).node = n
  BY FrontierHas DEF ScoredNode
<1>. HIDE DEF entry
<1>. QED
  BY <1>1, <1>2

LEMMA CountedType ==
  ASSUME stats \in Stats, depth' \in Nat,
         NEW cost \in Nat, NEW visited \in Nat, NEW examined \in Nat,
         Counted(cost, visited, examined)
  PROVE  /\ stats' \in Stats
         /\ stats'.attempted = stats.attempted + 1
         /\ stats'.instructions = stats.instructions + 1
         /\ stats'.failed = stats.failed
         /\ stats'.credits = stats.credits + cost
         /\ stats'.nodes_visited = stats.nodes_visited + visited
         /\ stats'.edges_examined = stats.edges_examined + examined
         /\ stats'.max_depth >= stats.max_depth /\ stats'.max_depth >= depth'
<1>1. /\ MaxOf(stats.max_depth, depth') \in Nat
      /\ MaxOf(stats.max_depth, depth') >= stats.max_depth
      /\ MaxOf(stats.max_depth, depth') >= depth'
  BY DEF Stats, MaxOf
<1>2. stats' = [attempted      |-> stats.attempted + 1,
                instructions   |-> stats.instructions + 1,
                failed         |-> stats.failed,
                nodes_visited  |-> stats.nodes_visited + visited,
                edges_examined |-> stats.edges_examined + examined,
                credits        |-> stats.credits + cost,
                max_depth      |-> MaxOf(stats.max_depth, depth')]
  BY DEF Counted, Stats
<1>. QED
  BY <1>1, <1>2 DEF Stats

LEMMA RejectIs ==
  ASSUME stats \in Stats, NEW i \in Instructions, Reject(i)
  PROVE  /\ stats' \in Stats
         /\ stats'.attempted = stats.attempted + 1
         /\ stats'.failed = stats.failed + 1
         /\ stats'.instructions = stats.instructions
         /\ stats'.credits = stats.credits
         /\ stats'.nodes_visited = stats.nodes_visited
         /\ stats'.edges_examined = stats.edges_examined
         /\ stats'.max_depth = stats.max_depth
<1>1. stats' = [attempted      |-> stats.attempted + 1,
                instructions   |-> stats.instructions,
                failed         |-> stats.failed + 1,
                nodes_visited  |-> stats.nodes_visited,
                edges_examined |-> stats.edges_examined,
                credits        |-> stats.credits,
                max_depth      |-> stats.max_depth]
  BY DEF Reject, Stats
<1>. QED
  BY <1>1 DEF Stats

LEMMA FreshBranchType == FreshBranch \in HistoryEntry
<1>1. NoProof \in Proofs
  BY DEF NoProof, Proofs
<1>. QED
  BY <1>1, EmptyFrontierType DEF FreshBranch, HistoryEntry

LEMMA BranchType ==
  ASSUME TypeOK
  PROVE  Branch \in HistoryEntry
  BY DEF TypeOK, Branch, HistoryEntry

LEMMA SetF0Type ==
  ASSUME TypeOK, NEW F \in Frontier, SetF0(F)
  PROVE  /\ registers' \in [0 .. 3 -> Frontier]
         /\ registers'[0] = F
         /\ \A r \in 1 .. 3 : registers'[r] = registers[r]
  BY DEF TypeOK, SetF0

LEMMA PushType ==
  ASSUME TypeOK, PushHistory
  PROVE  /\ history' \in Seq(HistoryEntry)
         /\ Len(history') = Len(history) + 1
         /\ \A i \in 1 .. Len(history) : history'[i] = history[i]
         /\ history'[Len(history) + 1] = Branch
  BY BranchType, AppendProperties DEF TypeOK, PushHistory

LEMMA DropLast ==
  ASSUME NEW S, NEW q \in Seq(S), Len(q) > 0
  PROVE  LET p == SubSeq(q, 1, Len(q) - 1) IN
           /\ p \in Seq(S)
           /\ Len(p) = Len(q) - 1
           /\ \A i \in 1 .. Len(q) - 1 : p[i] = q[i]
<1>. DEFINE n == Len(q) - 1
            p == SubSeq(q, 1, n)
<1>1. n \in Nat /\ Len(q) \in Nat
  OBVIOUS
<1>2. \A i \in 1 .. n : q[i] \in S
  BY <1>1
<1>. HIDE DEF n
<1>3. /\ p \in Seq(S)
      /\ Len(p) = IF 1 <= n THEN n - 1 + 1 ELSE 0
      /\ \A i \in 1 .. n - 1 + 1 : p[i] = q[1 + i - 1]
  BY <1>1, <1>2, SubSeqProperties
<1>4. Len(p) = n /\ \A i \in 1 .. n : p[i] = q[i]
  BY <1>1, <1>3
<1>. QED
  BY <1>3, <1>4 DEF n

\* BACKTRACK goes to a branch that was saved, or to the fresh one.
LEMMA BacktrackCases ==
  ASSUME TypeOK, Backtrack
  PROVE  /\ \/ /\ history = << >> /\ Restore(FreshBranch) /\ history' = << >>
            \/ /\ Len(history) > 0 /\ Restore(history[Len(history)])
               /\ history[Len(history)] \in HistoryEntry
               /\ history' \in Seq(HistoryEntry)
               /\ Len(history') = Len(history) - 1
               /\ \A i \in 1 .. Len(history) - 1 : history'[i] = history[i]
         /\ registers' \in [0 .. 3 -> Frontier] /\ answers' \in Frontier
         /\ proof' \in Proofs /\ depth' \in Nat /\ injected' \in SUBSET NodeIds
<1>1. CASE history = << >>
  BY <1>1, FreshBranchType DEF Backtrack, Restore, HistoryEntry
<1>2. CASE history # << >>
  <2>1. Len(history) \in Nat /\ Len(history) > 0
    BY <1>2 DEF TypeOK
  <2>2. history[Len(history)] \in HistoryEntry
    BY <2>1 DEF TypeOK
  <2>3. Restore(history[Len(history)]) /\ history' = SubSeq(history, 1, Len(history) - 1)
    BY <1>2 DEF Backtrack, NewestBranch
  <2>4. /\ history' \in Seq(HistoryEntry)
        /\ Len(history') = Len(history) - 1
        /\ \A i \in 1 .. Len(history) - 1 : history'[i] = history[i]
    BY <2>1, <2>3, DropLast DEF TypeOK
  <2>5. /\ registers' \in [0 .. 3 -> Frontier] /\ answers' \in Frontier
        /\ proof' \in Proofs /\ depth' \in Nat /\ injected' \in SUBSET NodeIds
    BY <2>2, <2>3 DEF Restore, HistoryEntry
  <2>. QED
    BY <2>1, <2>2, <2>3, <2>4, <2>5
<1>. QED
  BY <1>1, <1>2

(* The four arms that shrink or merge F0 and leave the evidence alone:     *)
(* what they charge, and where the nodes of the new F0 come from.          *)
FrontierWork ==
  \/ \E r \in Relations : FilterRelation(r)
  \/ \E r \in 0 .. 3 : Intersect(r)
  \/ \E r \in 0 .. 3 : Union(r)
  \/ \E k \in Limits : TopK(k)

LEMMA FrontierWorkIs ==
  ASSUME TypeOK, FrontierWork
  PROVE  /\ UNCHANGED <<answers, proof, depth, history, stopped, injected>>
         /\ registers' \in [0 .. 3 -> Frontier]
         /\ \A r \in 1 .. 3 : registers'[r] = registers[r]
         /\ \E r \in 0 .. 3 : Nodes(registers'[0]) \subseteq
                                Nodes(registers[0]) \cup Nodes(registers[r])
         /\ \E cost \in Nat : Runs(cost) /\ Counted(cost, 0, 0)
<1>1. /\ registers \in [0 .. 3 -> Frontier] /\ registers[0] \in Frontier
      /\ Size(registers[0]) \in Nat
  BY FrontierHas DEF TypeOK
<1>2. ASSUME NEW rel \in Relations, FilterRelation(rel)
      PROVE  \E r \in 0 .. 3, F \in Frontier : /\ SetF0(F)
               /\ Nodes(F) \subseteq Nodes(registers[0]) \cup Nodes(registers[r])
  BY <1>1, <1>2, RetainType DEF FilterRelation
<1>3. ASSUME NEW r \in 0 .. 3, Intersect(r)
      PROVE  \E F \in Frontier : /\ SetF0(F)
               /\ Nodes(F) \subseteq Nodes(registers[0]) \cup Nodes(registers[r])
  BY <1>1, <1>3, RetainType DEF Intersect
<1>4. ASSUME NEW r \in 0 .. 3, Union(r)
      PROVE  \E F \in Frontier : /\ SetF0(F)
               /\ Nodes(F) \subseteq Nodes(registers[0]) \cup Nodes(registers[r])
  <2>1. registers[r] \in Frontier
    BY <1>1
  <2>. DEFINE All == Entries(registers[0]) \cup Entries(registers[r])
  <2>2. /\ All \in SUBSET ScoredNode
        /\ {s.node : s \in All} = Nodes(registers[0]) \cup Nodes(registers[r])
    BY <1>1, <2>1, EntriesType
  <2>3. SetF0(Normalized(All))
    BY <1>4 DEF Union
  <2>. HIDE DEF All
  <2>. QED
    BY <2>2, <2>3, NormalizedType
<1>5. ASSUME NEW k \in Limits, TopK(k)
      PROVE  \E r \in 0 .. 3, F \in Frontier : /\ SetF0(F)
               /\ Nodes(F) \subseteq Nodes(registers[0]) \cup Nodes(registers[r])
  BY <1>1, <1>5, TopType, LimitAssumption DEF TopK
<1>6. \E r \in 0 .. 3, F \in Frontier :
        SetF0(F) /\ Nodes(F) \subseteq Nodes(registers[0]) \cup Nodes(registers[r])
  BY <1>2, <1>3, <1>4, <1>5 DEF FrontierWork
<1>7. \E cost \in Nat : Runs(cost) /\ Counted(cost, 0, 0)
  <2>1. \A r \in 0 .. 3 : Size(registers[0]) + Size(registers[r]) \in Nat
    BY <1>1, FrontierHas
  <2>. QED
    BY <1>1, <2>1 DEF FrontierWork, FilterRelation, Intersect, Union, TopK
<1>8. UNCHANGED <<answers, proof, depth, history, stopped, injected>>
  BY DEF FrontierWork, FilterRelation, Intersect, Union, TopK
<1>. QED
  BY <1>6, <1>7, <1>8, SetF0Type

\* What SEED does to the machine, for a node of the graph.
LEMMA SeedIs ==
  ASSUME TypeOK, NEW node \in NodeIds, Seed(node)
  PROVE  /\ registers' \in [0 .. 3 -> Frontier]
         /\ Nodes(registers'[0]) = {node}
         /\ \A r \in 1 .. 3 : registers'[r] = registers[r]
         /\ PushHistory /\ UNCHANGED <<answers, proof, depth, stopped>>
         /\ injected' = injected \cup {node}
         /\ Runs(1) /\ Counted(1, 0, 0)
<1>. DEFINE f == [n \in {node} |-> SeedScore]
            F == [score |-> f, ranked |-> FALSE]
<1>1. f \in [{node} -> Scores]
  BY ScoreAssumption
<1>2. F \in Frontier /\ Nodes(F) = {node}
  BY <1>1, FrontierIs DEF Nodes
<1>3. SetF0(F)
  BY DEF Seed
<1>. HIDE DEF F
<1>4. /\ registers' \in [0 .. 3 -> Frontier]
      /\ registers'[0] = F
      /\ \A r \in 1 .. 3 : registers'[r] = registers[r]
  BY <1>2, <1>3, SetF0Type
<1>. QED
  BY <1>2, <1>4 DEF Seed

LEMMA AnnIs ==
  ASSUME TypeOK, NEW k \in Limits, NEW reply \in AnnReplies, Ann(k, reply)
  PROVE  /\ registers' \in [0 .. 3 -> Frontier]
         /\ Nodes(registers'[0]) = {s.node : s \in reply}
         /\ \A r \in 1 .. 3 : registers'[r] = registers[r]
         /\ PushHistory /\ UNCHANGED <<answers, proof, depth, stopped>>
         /\ injected' = injected \cup {s.node : s \in reply}
         /\ injected' \in SUBSET NodeIds
         /\ k \in Nat /\ Runs(k) /\ Counted(k, 0, 0)
<1>1. reply \in SUBSET ScoredNode /\ k \in Nat
  BY AnnAssumption, LimitAssumption
<1>2. Normalized(reply) \in Frontier /\ Nodes(Normalized(reply)) = {s.node : s \in reply}
  BY <1>1, NormalizedType
<1>3. SetF0(Normalized(reply))
  BY DEF Ann
<1>4. /\ registers' \in [0 .. 3 -> Frontier]
      /\ registers'[0] = Normalized(reply)
      /\ \A r \in 1 .. 3 : registers'[r] = registers[r]
  BY <1>2, <1>3, SetF0Type
<1>5. {s.node : s \in reply} \in SUBSET NodeIds
  BY <1>1 DEF ScoredNode
<1>. QED
  BY <1>1, <1>2, <1>4, <1>5 DEF Ann, TypeOK

LEMMA ExpandIs ==
  ASSUME TypeOK, NEW rels, Expand(rels)
  PROVE  LET batch == Observed(rels)
             emitted == Cardinality(batch) IN
         /\ registers' \in [0 .. 3 -> Frontier]
         /\ Nodes(registers'[0]) = {e.dst : e \in batch}
         /\ \A r \in 1 .. 3 : registers'[r] = registers[r]
         /\ proof' \in Proofs
         /\ proof'.edges = Append(proof.edges, batch)
         /\ proof'.listed = proof.listed + emitted
         /\ proof'.answer = proof.answer
         /\ depth' = depth + 1
         /\ PushHistory /\ UNCHANGED <<answers, stopped, injected>>
         /\ Runs(emitted) /\ Counted(emitted, emitted, Cardinality(Examined))
<1>1. registers[0] \in Frontier
  BY DEF TypeOK
<1>2. /\ Normalized(Reached(rels)) \in Frontier
      /\ Nodes(Normalized(Reached(rels))) = {e.dst : e \in Observed(rels)}
  BY <1>1, ReachedType, NormalizedType
<1>3. SetF0(Normalized(Reached(rels)))
  BY DEF Expand
<1>4. /\ registers' \in [0 .. 3 -> Frontier]
      /\ registers'[0] = Normalized(Reached(rels))
      /\ \A r \in 1 .. 3 : registers'[r] = registers[r]
  BY <1>2, <1>3, SetF0Type
<1>5. /\ Observed(rels) \in SUBSET Graph
      /\ Cardinality(Observed(rels)) \in Nat
  BY EdgesFinite
<1>6. /\ proof' = [edges  |-> Append(proof.edges, Observed(rels)),
                   listed |-> proof.listed + Cardinality(Observed(rels)),
                   answer |-> proof.answer]
  BY DEF Expand, TypeOK, Proofs
<1>7. proof' \in Proofs
  BY <1>5, <1>6 DEF Proofs, TypeOK
<1>. QED
  BY <1>2, <1>4, <1>6, <1>7 DEF Expand, ExpandCost

LEMMA VerifyIs ==
  ASSUME TypeOK, Verify
  PROVE  /\ answers' = registers[0] /\ answers' \in Frontier
         /\ proof' \in Proofs
         /\ proof'.edges = proof.edges /\ proof'.listed = proof.listed
         /\ proof'.answer \in Nodes(answers') \cup {NoAnswer}
         /\ UNCHANGED <<registers, depth, history, stopped, injected>>
         /\ Runs(1) /\ Counted(1, 0, 0)
<1>1. registers[0] \in Frontier
  BY DEF TypeOK
<1>2. /\ First(registers[0]) \in Nodes(registers[0]) \cup {NoAnswer}
      /\ Nodes(registers[0]) \subseteq NodeIds
  BY <1>1, FirstType, FrontierHas
<1>3. proof' = [edges |-> proof.edges, listed |-> proof.listed,
                answer |-> First(registers[0])]
  BY DEF Verify, TypeOK, Proofs
<1>. QED
  BY <1>1, <1>2, <1>3 DEF Verify, TypeOK, Proofs

LEMMA RunsType ==
  ASSUME TypeOK, NEW cost \in Nat, Runs(cost)
  PROVE  budget' \in Nat /\ cost <= budget /\ budget' = budget - cost
  BY DEF Runs, TypeOK

LEMMA InitTypeOK == Init => TypeOK
<1>. SUFFICES ASSUME Init PROVE TypeOK
  OBVIOUS
<1>1. FreshBranch \in HistoryEntry
  BY FreshBranchType
<1>2. /\ registers \in [0 .. 3 -> Frontier] /\ answers \in Frontier
      /\ proof \in Proofs /\ depth \in Nat /\ injected \in SUBSET NodeIds
  BY <1>1 DEF Init, FreshBranch, HistoryEntry
<1>3. stats \in Stats /\ history \in Seq(HistoryEntry) /\ budget \in Nat
  BY LimitAssumption DEF Init, ZeroStats, Stats
<1>. QED
  BY <1>2, <1>3 DEF Init, TypeOK

LEMMA NextTypeOK ==
  ASSUME TypeOK, [Next]_vars
  PROVE  TypeOK'
<1>0. /\ registers \in [0 .. 3 -> Frontier] /\ answers \in Frontier /\ proof \in Proofs
      /\ depth \in Nat /\ history \in Seq(HistoryEntry) /\ budget \in Nat
      /\ stopped \in BOOLEAN /\ stats \in Stats /\ injected \in SUBSET NodeIds
  BY DEF TypeOK
<1>1. ASSUME NEW n \in NodeIds, Seed(n) PROVE TypeOK'
  BY <1>0, <1>1, SeedIs, PushType, CountedType, RunsType DEF TypeOK
<1>2. ASSUME NEW k \in Limits, NEW reply \in AnnReplies, Ann(k, reply) PROVE TypeOK'
  BY <1>0, <1>2, AnnIs, PushType, CountedType, RunsType DEF TypeOK
<1>3. ASSUME NEW rels, Expand(rels) PROVE TypeOK'
  BY <1>0, <1>3, ExpandIs, EdgesFinite, PushType, CountedType, RunsType DEF TypeOK
<1>4. ASSUME FrontierWork PROVE TypeOK'
  <2>1. PICK cost \in Nat : Runs(cost) /\ Counted(cost, 0, 0)
    BY <1>4, FrontierWorkIs
  <2>. QED
    BY <1>0, <1>4, <2>1, FrontierWorkIs, CountedType, RunsType DEF TypeOK
<1>5. CASE Verify
  BY <1>0, <1>5, VerifyIs, CountedType, RunsType DEF TypeOK
<1>6. CASE Backtrack
  <2>1. Runs(1) /\ Counted(1, 0, 0) /\ UNCHANGED stopped
    BY <1>6 DEF Backtrack
  <2>2. history' \in Seq(HistoryEntry)
    BY <1>0, <1>6, BacktrackCases
  <2>. QED
    BY <1>0, <1>6, <2>1, <2>2, BacktrackCases, CountedType, RunsType DEF TypeOK
<1>7. CASE CacheHint
  BY <1>0, <1>7, CountedType, RunsType DEF CacheHint, TypeOK
<1>8. CASE Stop
  BY <1>0, <1>8, CountedType, RunsType DEF Stop, TypeOK
<1>9. ASSUME NEW i \in Instructions, Reject(i) PROVE TypeOK'
  <2>1. stats' \in Stats
    BY <1>0, <1>9, RejectIs
  <2>. QED
    BY <1>0, <1>9, <2>1 DEF Reject, machine, TypeOK
<1>10. ASSUME NEW r \in StoreRegisters, StoreRegister(r) PROVE TypeOK'
  <2>1. r \in 1 .. 3
    BY LimitAssumption
  <2>. QED
    BY <1>0, <1>10, <2>1 DEF StoreRegister, TypeOK
<1>11. CASE UNCHANGED vars
  BY <1>0, <1>11 DEF vars, TypeOK
<1>. QED
  BY <1>1, <1>2, <1>3, <1>4, <1>5, <1>6, <1>7, <1>8, <1>9, <1>10, <1>11
  DEF Next, FrontierWork

(* Type correctness: whatever program runs, the VM stays in its state      *)
(* space; in particular the budget never becomes negative.                 *)
THEOREM TypeCorrect == Spec => []TypeOK
<1>1. Init => TypeOK
  BY InitTypeOK
<1>2. TypeOK /\ [Next]_vars => TypeOK'
  BY NextTypeOK
<1>. QED
  BY <1>1, <1>2, PTL DEF Spec

-----------------------------------------------------------------------------
(* The accounts *)

KeepsEvidence == /\ proof'.edges = proof.edges /\ proof'.listed = proof.listed
                 /\ depth' = depth

\* The steps, by what they do to the evidence and to the counters.
LEMMA StepKinds ==
  ASSUME TypeOK, Next
  PROVE  \/ /\ KeepsEvidence /\ (PushHistory \/ UNCHANGED history)
            /\ \E cost \in Nat : Runs(cost) /\ Counted(cost, 0, 0)
         \/ \E rels : Expand(rels)
         \/ Backtrack
         \/ /\ KeepsEvidence /\ UNCHANGED <<history, budget, stats>>
         \/ /\ UNCHANGED machine /\ \E i \in Instructions : Reject(i)
<1>1. ASSUME NEW n \in NodeIds, Seed(n) PROVE KeepsEvidence /\ PushHistory /\ Runs(1) /\ Counted(1, 0, 0)
  BY <1>1, SeedIs DEF KeepsEvidence
<1>2. ASSUME NEW k \in Limits, NEW reply \in AnnReplies, Ann(k, reply)
      PROVE  KeepsEvidence /\ PushHistory /\ k \in Nat /\ Runs(k) /\ Counted(k, 0, 0)
  BY <1>2, AnnIs DEF KeepsEvidence
<1>3. ASSUME FrontierWork
      PROVE  KeepsEvidence /\ UNCHANGED history /\ \E cost \in Nat : Runs(cost) /\ Counted(cost, 0, 0)
  BY <1>3, FrontierWorkIs DEF KeepsEvidence
<1>4. ASSUME Verify PROVE KeepsEvidence /\ UNCHANGED history /\ Runs(1) /\ Counted(1, 0, 0)
  BY <1>4, VerifyIs DEF KeepsEvidence
<1>5. ASSUME CacheHint \/ Stop PROVE KeepsEvidence /\ UNCHANGED history /\ Runs(1) /\ Counted(1, 0, 0)
  BY <1>5 DEF CacheHint, Stop, KeepsEvidence
<1>6. ASSUME NEW r \in StoreRegisters, StoreRegister(r)
      PROVE  KeepsEvidence /\ UNCHANGED <<history, budget, stats>>
  BY <1>6 DEF StoreRegister, KeepsEvidence
<1>7. ASSUME NEW i \in Instructions, Reject(i) PROVE UNCHANGED machine
  BY <1>7 DEF Reject
<1>. QED
  BY <1>1, <1>2, <1>3, <1>4, <1>5, <1>6, <1>7 DEF Next, FrontierWork

\* Every branch after a step is the live one or was there before.
LEMMA NextBranches ==
  ASSUME TypeOK, [Next]_vars
  PROVE  \A b \in Branches' : b \in Branches \cup {Branch'}
<1>1. \/ UNCHANGED history
      \/ PushHistory
      \/ Backtrack
  <2>1. ASSUME Next PROVE UNCHANGED history \/ PushHistory \/ Backtrack
    BY <2>1, StepKinds DEF machine, Expand
  <2>. QED
    BY <2>1 DEF vars
<1>2. Len(history) \in Nat
  BY DEF TypeOK
<1>3. CASE UNCHANGED history
  BY <1>3 DEF Branches
<1>4. CASE PushHistory
  BY <1>2, <1>4, PushType DEF Branches
<1>5. CASE Backtrack
  BY <1>2, <1>5, BacktrackCases DEF Branches
<1>. QED
  BY <1>1, <1>3, <1>4, <1>5

LEMMA BranchFields ==
  /\ Branch.registers = registers /\ Branch.answers = answers
  /\ Branch.proof = proof /\ Branch.depth = depth /\ Branch.injected = injected
  BY DEF Branch

\* The branch that BACKTRACK makes live is one that was there, or fresh.
LEMMA BacktrackBranch ==
  ASSUME TypeOK, Backtrack
  PROVE  \E b \in Branches \cup {FreshBranch} :
           /\ registers' = b.registers /\ answers' = b.answers /\ proof' = b.proof
           /\ depth' = b.depth /\ injected' = b.injected
<1>1. Len(history) > 0 => history[Len(history)] \in Branches
  BY DEF TypeOK, Branches
<1>. QED
  BY <1>1, BacktrackCases DEF Restore

Accounts == AccountsBalance /\ EvidencePaidFor /\ DepthIsEvidence

LEMMA InitAccounts == Init => Accounts
<1>. SUFFICES ASSUME Init PROVE Accounts
  OBVIOUS
<1>1. Branches = {Branch}
  BY DEF Init, Branches
<1>2. Branch.depth = 0 /\ Branch.proof = NoProof
  BY DEF Init, Branch
<1>3. AccountsBalance
  BY LimitAssumption DEF Init, AccountsBalance, ZeroStats
<1>4. EvidencePaidFor /\ DepthIsEvidence
  BY <1>1, <1>2 DEF Init, EvidencePaidFor, DepthIsEvidence, ZeroStats, NoProof
<1>. QED
  BY <1>3, <1>4 DEF Accounts

\* What the accounts say of one branch, given the counters.
PaidBranch(b) == /\ b.proof.listed <= stats.nodes_visited
                 /\ b.depth = Len(b.proof.edges) /\ b.depth <= stats.max_depth

LEMMA AccountsByBranch ==
  Accounts <=> /\ AccountsBalance
               /\ stats.nodes_visited <= stats.credits
               /\ stats.nodes_visited <= stats.edges_examined
               /\ \A b \in Branches : PaidBranch(b)
  BY DEF Accounts, EvidencePaidFor, DepthIsEvidence, PaidBranch

\* How a step moves the counters and the live branch.
BalancedStep == /\ AccountsBalance'
                /\ stats'.nodes_visited <= stats'.credits
                /\ stats'.nodes_visited <= stats'.edges_examined
                /\ stats'.nodes_visited >= stats.nodes_visited
                /\ stats'.max_depth >= stats.max_depth
                /\ proof'.listed <= stats'.nodes_visited
                /\ depth' = Len(proof'.edges) /\ depth' <= stats'.max_depth

\* An instruction that pays for what it visits keeps the counters in balance.
LEMMA CountedBalance ==
  ASSUME TypeOK, Accounts, depth' \in Nat,
         NEW cost \in Nat, NEW visited \in Nat, NEW examined \in Nat,
         visited <= cost, visited <= examined,
         Runs(cost), Counted(cost, visited, examined)
  PROVE  /\ AccountsBalance'
         /\ stats'.nodes_visited <= stats'.credits
         /\ stats'.nodes_visited <= stats'.edges_examined
         /\ stats'.nodes_visited = stats.nodes_visited + visited
         /\ stats'.max_depth >= stats.max_depth /\ depth' <= stats'.max_depth
<1>1. /\ stats \in Stats /\ budget \in Nat
      /\ stats.nodes_visited \in Nat /\ stats.credits \in Nat
      /\ stats.max_depth \in Nat /\ stats.edges_examined \in Nat
      /\ stats.attempted \in Nat /\ stats.instructions \in Nat /\ stats.failed \in Nat
  BY DEF TypeOK, Stats
<1>2. /\ stats'.attempted = stats.attempted + 1
      /\ stats'.instructions = stats.instructions + 1
      /\ stats'.failed = stats.failed
      /\ stats'.credits = stats.credits + cost
      /\ stats'.nodes_visited = stats.nodes_visited + visited
      /\ stats'.edges_examined = stats.edges_examined + examined
      /\ stats'.max_depth >= stats.max_depth /\ stats'.max_depth >= depth'
      /\ stats' \in Stats
  BY <1>1, CountedType
<1>3. cost <= budget /\ budget' = budget - cost
  BY RunsType
<1>4. /\ budget + stats.credits = InitialBudget
      /\ stats.attempted = stats.instructions + stats.failed
      /\ stats.nodes_visited <= stats.credits
      /\ stats.nodes_visited <= stats.edges_examined
  BY DEF Accounts, AccountsBalance, EvidencePaidFor
<1>5. budget' + stats'.credits = InitialBudget
  <2>1. stats'.credits = stats.credits + cost
    BY <1>2
  <2>2. ASSUME NEW b \in Nat, NEW c \in Nat PROVE (b - cost) + (c + cost) = b + c
    OBVIOUS
  <2>3. budget \in Nat /\ stats.credits \in Nat
    BY <1>1
  <2>4. (budget - cost) + (stats.credits + cost) = budget + stats.credits
    BY <2>2, <2>3
  <2>. QED
    BY <1>3, <1>4, <2>1, <2>4
<1>6. stats'.attempted = stats'.instructions + stats'.failed
  BY <1>1, <1>2, <1>4
<1>7. /\ stats'.nodes_visited <= stats'.credits
      /\ stats'.nodes_visited <= stats'.edges_examined
  BY <1>1, <1>2, <1>4
<1>8. depth' <= stats'.max_depth
  BY <1>2 DEF Stats
<1>. QED
  BY <1>2, <1>5, <1>6, <1>7, <1>8 DEF AccountsBalance

LEMMA NextAccounts ==
  ASSUME TypeOK, Accounts, [Next]_vars
  PROVE  Accounts'
<1>0. /\ stats \in Stats /\ depth \in Nat /\ budget \in Nat /\ proof \in Proofs
      /\ stats.nodes_visited \in Nat /\ stats.credits \in Nat /\ stats.max_depth \in Nat
      /\ stats.edges_examined \in Nat /\ stats.attempted \in Nat
      /\ stats.instructions \in Nat /\ stats.failed \in Nat
  BY DEF TypeOK, Stats
<1>1. TypeOK'
  BY NextTypeOK
<1>2. PaidBranch(Branch) /\ \A b \in Branches : PaidBranch(b)
  BY AccountsByBranch DEF Branches
<1>3. CASE UNCHANGED vars
  BY <1>3 DEF vars, Accounts, AccountsBalance, EvidencePaidFor, DepthIsEvidence, Branches, Branch
<1>4. ASSUME Next PROVE BalancedStep
  <2>0. /\ proof.listed <= stats.nodes_visited /\ depth = Len(proof.edges)
        /\ depth <= stats.max_depth /\ proof.listed \in Nat
    BY <1>0, <1>2, BranchFields DEF PaidBranch, Proofs
  <2>a. AccountsBalance /\ stats.nodes_visited <= stats.credits
        /\ stats.nodes_visited <= stats.edges_examined
    BY AccountsByBranch
  <2>1. ASSUME KeepsEvidence, NEW cost \in Nat, Runs(cost), Counted(cost, 0, 0)
        PROVE  BalancedStep
    <3>1. depth' \in Nat
      BY <1>1 DEF TypeOK
    <3>2. /\ AccountsBalance'
          /\ stats'.nodes_visited <= stats'.credits
          /\ stats'.nodes_visited <= stats'.edges_examined
          /\ stats'.nodes_visited = stats.nodes_visited + 0
          /\ stats'.max_depth >= stats.max_depth /\ depth' <= stats'.max_depth
      BY <2>1, <3>1, CountedBalance
    <3>. QED
      BY <1>0, <2>0, <2>1, <3>2 DEF BalancedStep, KeepsEvidence
  <2>2. ASSUME NEW rels, Expand(rels) PROVE BalancedStep
    <3>. DEFINE m == Cardinality(Observed(rels))
    <3>1. depth' \in Nat
      BY <1>1 DEF TypeOK
    <3>2. /\ m \in Nat /\ Cardinality(Examined) \in Nat /\ m <= Cardinality(Examined)
          /\ Runs(m) /\ Counted(m, m, Cardinality(Examined))
          /\ depth' = depth + 1 /\ proof'.listed = proof.listed + m
          /\ proof'.edges = Append(proof.edges, Observed(rels))
          /\ Observed(rels) \in SUBSET Graph
      BY <2>2, ExpandIs, EdgesFinite
    <3>3. Len(proof'.edges) = Len(proof.edges) + 1
      BY <1>0, <3>2 DEF Proofs
    <3>. HIDE DEF m
    <3>4. /\ AccountsBalance'
          /\ stats'.nodes_visited <= stats'.credits
          /\ stats'.nodes_visited <= stats'.edges_examined
          /\ stats'.nodes_visited = stats.nodes_visited + m
          /\ stats'.max_depth >= stats.max_depth /\ depth' <= stats'.max_depth
      BY <3>1, <3>2, CountedBalance
    <3>5. /\ proof'.listed <= stats'.nodes_visited
          /\ stats'.nodes_visited >= stats.nodes_visited
      BY <1>0, <2>0, <3>2, <3>4
    <3>. QED
      BY <2>0, <3>2, <3>3, <3>4, <3>5 DEF BalancedStep
  <2>3. ASSUME Backtrack PROVE BalancedStep
    <3>1. PaidBranch(FreshBranch)
      BY <1>0 DEF PaidBranch, FreshBranch, NoProof
    <3>2. /\ proof'.listed <= stats.nodes_visited /\ depth' = Len(proof'.edges)
      BY <1>2, <2>3, <3>1, BacktrackBranch DEF PaidBranch
    <3>3. depth' \in Nat /\ Runs(1) /\ Counted(1, 0, 0)
      BY <1>1, <2>3 DEF TypeOK, Backtrack
    <3>4. /\ AccountsBalance'
          /\ stats'.nodes_visited <= stats'.credits
          /\ stats'.nodes_visited <= stats'.edges_examined
          /\ stats'.nodes_visited = stats.nodes_visited + 0
          /\ stats'.max_depth >= stats.max_depth /\ depth' <= stats'.max_depth
      BY <3>3, CountedBalance
    <3>. QED
      BY <1>0, <3>2, <3>4 DEF BalancedStep
  <2>4. ASSUME KeepsEvidence, UNCHANGED <<history, budget, stats>> PROVE BalancedStep
    BY <1>0, <2>0, <2>a, <2>4 DEF BalancedStep, KeepsEvidence, AccountsBalance
  <2>5. ASSUME NEW i \in Instructions, Reject(i), UNCHANGED machine PROVE BalancedStep
    <3>1. /\ stats'.attempted = stats.attempted + 1
          /\ stats'.failed = stats.failed + 1
          /\ stats'.instructions = stats.instructions
          /\ stats'.credits = stats.credits
          /\ stats'.nodes_visited = stats.nodes_visited
          /\ stats'.edges_examined = stats.edges_examined
          /\ stats'.max_depth = stats.max_depth
      BY <1>0, <2>5, RejectIs
    <3>2. UNCHANGED <<budget, proof, depth>>
      BY <2>5 DEF machine
    <3>3. AccountsBalance'
      BY <1>0, <2>a, <3>1, <3>2 DEF AccountsBalance
    <3>. QED
      BY <1>0, <2>0, <2>a, <3>1, <3>2, <3>3 DEF BalancedStep
  <2>. QED
    BY <1>4, <2>1, <2>2, <2>3, <2>4, <2>5, StepKinds
<1>5. ASSUME Next PROVE \A b \in Branches' : PaidBranch(b)'
  <2>1. BalancedStep
    BY <1>4, <1>5
  <2>2. stats'.nodes_visited \in Nat /\ stats'.max_depth \in Nat
    BY <1>1 DEF TypeOK, Stats
  <2>3. PaidBranch(Branch)'
    BY <2>1 DEF BalancedStep, PaidBranch, Branch
  <2>4. ASSUME NEW b \in Branches PROVE b \in HistoryEntry
    BY <2>4, BranchType DEF Branches, TypeOK
  <2>5. ASSUME NEW b \in Branches, NEW c, c = b
        PROVE  /\ c.proof.listed <= stats'.nodes_visited
               /\ c.depth = Len(c.proof.edges) /\ c.depth <= stats'.max_depth
    <3>1. PaidBranch(c) /\ c.proof.listed \in Nat /\ c.depth \in Nat
      BY <1>2, <2>4, <2>5 DEF HistoryEntry, Proofs
    <3>2. /\ stats'.nodes_visited >= stats.nodes_visited
          /\ stats'.max_depth >= stats.max_depth
      BY <2>1 DEF BalancedStep
    <3>. QED
      BY <1>0, <2>2, <3>1, <3>2 DEF PaidBranch
  <2>. QED
    BY <2>3, <2>5, NextBranches DEF PaidBranch
<1>6. ASSUME Next PROVE Accounts'
  BY <1>4, <1>5, <1>6
  DEF BalancedStep, Accounts, EvidencePaidFor, DepthIsEvidence, PaidBranch
<1>. QED
  BY <1>3, <1>6

-----------------------------------------------------------------------------
(* The branch stack *)

LEMMA ContinuesSelf == ASSUME NEW b \in HistoryEntry PROVE Continues(b, b)
  BY DEF Continues, HistoryEntry, Proofs

LEMMA ContinuesTransitive ==
  ASSUME NEW a \in HistoryEntry, NEW b \in HistoryEntry, NEW c \in HistoryEntry,
         Continues(b, a), Continues(c, b)
  PROVE  Continues(c, a)
<1>1. /\ Len(a.proof.edges) \in Nat /\ Len(b.proof.edges) \in Nat
      /\ Len(c.proof.edges) \in Nat
  BY DEF HistoryEntry, Proofs
<1>. QED
  BY <1>1 DEF Continues

\* A step goes back to a branch point, or forward from the live branch.
LEMMA ForwardOrBack ==
  ASSUME TypeOK, [Next]_vars
  PROVE  \/ Backtrack
         \/ Continues(Branch', Branch) /\ (UNCHANGED history \/ PushHistory)
<1>1. Branch' \in HistoryEntry
  BY NextTypeOK DEF TypeOK, Branch, HistoryEntry
<1>2. /\ Branch'.proof = proof' /\ Branch'.injected = injected'
      /\ Branch.proof = proof /\ Branch.injected = injected
  BY DEF Branch
<1>3. proof \in Proofs /\ Len(proof.edges) \in Nat
  BY DEF TypeOK, Proofs
<1>4. ASSUME proof'.edges = proof.edges, injected \subseteq injected'
      PROVE  Continues(Branch', Branch)
  BY <1>2, <1>3, <1>4 DEF Continues
<1>5. ASSUME NEW n \in NodeIds, Seed(n)
      PROVE  PushHistory /\ Continues(Branch', Branch)
  BY <1>4, <1>5, SeedIs
<1>6. ASSUME NEW k \in Limits, NEW reply \in AnnReplies, Ann(k, reply)
      PROVE  PushHistory /\ Continues(Branch', Branch)
  BY <1>4, <1>6, AnnIs
<1>7. ASSUME NEW rels, Expand(rels)
      PROVE  PushHistory /\ Continues(Branch', Branch)
  <2>1. /\ proof'.edges = Append(proof.edges, Observed(rels))
        /\ Observed(rels) \in SUBSET Graph /\ injected' = injected /\ PushHistory
    BY <1>7, ExpandIs, EdgesFinite
  <2>2. /\ Len(proof'.edges) = Len(proof.edges) + 1
        /\ \A i \in 1 .. Len(proof.edges) : proof'.edges[i] = proof.edges[i]
    BY <1>3, <2>1, AppendProperties DEF Proofs
  <2>. QED
    BY <1>2, <1>3, <2>1, <2>2 DEF Continues
<1>8. ASSUME FrontierWork PROVE UNCHANGED history /\ Continues(Branch', Branch)
  BY <1>4, <1>8, FrontierWorkIs
<1>9. ASSUME Verify PROVE UNCHANGED history /\ Continues(Branch', Branch)
  BY <1>4, <1>9, VerifyIs
<1>10. ASSUME CacheHint \/ Stop PROVE UNCHANGED history /\ Continues(Branch', Branch)
  BY <1>4, <1>10 DEF CacheHint, Stop
<1>11. ASSUME NEW r \in StoreRegisters, StoreRegister(r)
       PROVE  UNCHANGED history /\ Continues(Branch', Branch)
  BY <1>4, <1>11 DEF StoreRegister
<1>12. ASSUME NEW i \in Instructions, Reject(i)
       PROVE  UNCHANGED history /\ Continues(Branch', Branch)
  BY <1>4, <1>12 DEF Reject, machine
<1>13. ASSUME UNCHANGED vars PROVE UNCHANGED history /\ Continues(Branch', Branch)
  BY <1>4, <1>13 DEF vars
<1>. QED
  BY <1>5, <1>6, <1>7, <1>8, <1>9, <1>10, <1>11, <1>12, <1>13 DEF Next, FrontierWork

LEMMA NextBranchesNest ==
  ASSUME TypeOK, BranchesNest, [Next]_vars
  PROVE  BranchesNest'
<1>1. /\ Branch \in HistoryEntry /\ Branch' \in HistoryEntry
      /\ history \in Seq(HistoryEntry) /\ Len(history) \in Nat
  BY NextTypeOK DEF TypeOK, Branch, HistoryEntry
<1>2. CASE Continues(Branch', Branch) /\ UNCHANGED history
  <2>1. ASSUME Len(history) > 0 PROVE Continues(Branch', history[Len(history)])
    <3>1. history[Len(history)] \in HistoryEntry
      BY <1>1, <2>1
    <3>. QED
      BY <1>1, <1>2, <2>1, <3>1, ContinuesTransitive DEF BranchesNest
  <2>. QED
    BY <1>2, <2>1 DEF BranchesNest, Continues
<1>3. CASE Continues(Branch', Branch) /\ PushHistory
  <2>1. /\ Len(history') = Len(history) + 1
        /\ \A i \in 1 .. Len(history) : history'[i] = history[i]
        /\ history'[Len(history) + 1] = Branch
    BY <1>3, PushType
  <2>2. ASSUME NEW i \in 1 .. Len(history') - 1
        PROVE  Continues(history'[i + 1], history'[i])
    <3>1. CASE i = Len(history)
      BY <1>1, <2>1, <2>2, <3>1 DEF BranchesNest
    <3>2. CASE i \in 1 .. Len(history) - 1
      BY <1>1, <2>1, <2>2, <3>2 DEF BranchesNest
    <3>. QED
      BY <1>1, <2>1, <2>2, <3>1, <3>2
  <2>3. Continues(Branch', history'[Len(history')])
    BY <1>3, <2>1
  <2>. QED
    BY <2>2, <2>3 DEF BranchesNest, Continues
<1>4. CASE Backtrack
  <2>1. CASE history' = << >>
    BY <2>1 DEF BranchesNest
  <2>2. CASE /\ Len(history) > 0 /\ Restore(history[Len(history)])
             /\ Len(history') = Len(history) - 1
             /\ \A i \in 1 .. Len(history) - 1 : history'[i] = history[i]
    <3>1. ASSUME NEW i \in 1 .. Len(history') - 1
          PROVE  Continues(history'[i + 1], history'[i])
      BY <1>1, <2>2, <3>1 DEF BranchesNest
    <3>2. ASSUME Len(history') > 0 PROVE Continues(Branch', history'[Len(history')])
      <4>1. Continues(history[Len(history)], history[Len(history) - 1])
        BY <1>1, <2>2, <3>2 DEF BranchesNest
      <4>2. history'[Len(history')] = history[Len(history) - 1]
        BY <1>1, <2>2, <3>2
      <4>3. /\ Branch'.proof = history[Len(history)].proof
            /\ Branch'.injected = history[Len(history)].injected
        BY <2>2 DEF Branch, Restore
      <4>. QED
        BY <4>1, <4>2, <4>3 DEF Continues
    <3>. QED
      BY <3>1, <3>2 DEF BranchesNest, Continues
  <2>. QED
    BY <1>4, <2>1, <2>2, BacktrackCases
<1>. QED
  BY <1>2, <1>3, <1>4, ForwardOrBack

-----------------------------------------------------------------------------
(* Support *)

LEMMA KnownSubset ==
  ASSUME NEW b, NEW i \in Nat, i <= Len(b.proof.edges), Len(b.proof.edges) \in Nat
  PROVE  KnownAfter(b, i) \subseteq Known(b)
  BY DEF KnownAfter, Known

\* Evidence that stays the same remains grounded, whatever is injected.
LEMMA SameEvidence ==
  ASSUME NEW b, NEW c, Len(b.proof.edges) \in Nat,
         c.proof.edges = b.proof.edges, b.injected \subseteq c.injected
  PROVE  /\ EvidenceGrounded(b) => EvidenceGrounded(c)
         /\ Known(b) \subseteq Known(c)
         /\ c.injected \subseteq Known(c)
<1>1. ASSUME NEW i PROVE KnownAfter(b, i) \subseteq KnownAfter(c, i)
  BY DEF KnownAfter
<1>. QED
  BY <1>1 DEF EvidenceGrounded, Known, KnownAfter

\* A batch whose edges leave known nodes extends grounded evidence.
LEMMA LongerEvidence ==
  ASSUME NEW b, NEW c, NEW batch \in SUBSET Graph,
         b.proof.edges \in Seq(SUBSET Graph),
         c.proof.edges = Append(b.proof.edges, batch), c.injected = b.injected,
         EvidenceGrounded(b), \A e \in batch : e.src \in Known(b)
  PROVE  /\ EvidenceGrounded(c)
         /\ Known(b) \subseteq Known(c)
         /\ {e.dst : e \in batch} \subseteq Known(c)
<1>. DEFINE n == Len(b.proof.edges)
<1>1. /\ n \in Nat /\ Len(c.proof.edges) = n + 1
      /\ \A i \in 1 .. n : c.proof.edges[i] = b.proof.edges[i]
      /\ c.proof.edges[n + 1] = batch
  BY AppendProperties
<1>2. ASSUME NEW i \in 0 .. n PROVE KnownAfter(c, i) = KnownAfter(b, i)
  <2>1. \A j \in 1 .. i : c.proof.edges[j] = b.proof.edges[j]
    BY <1>1, <1>2
  <2>. QED
    BY <2>1 DEF KnownAfter
<1>3. Known(b) = KnownAfter(c, n)
  BY <1>1, <1>2 DEF Known
<1>4. KnownAfter(c, n) \subseteq KnownAfter(c, n + 1) /\ Known(c) = KnownAfter(c, n + 1)
  BY <1>1 DEF KnownAfter, Known
<1>5. {e.dst : e \in batch} \subseteq KnownAfter(c, n + 1)
  <2>1. n + 1 \in 1 .. n + 1
    BY <1>1
  <2>. QED
    BY <1>1, <2>1 DEF KnownAfter
<1>6. ASSUME NEW i \in 1 .. n + 1, NEW e \in c.proof.edges[i]
      PROVE  e \in Graph /\ e.src \in KnownAfter(c, i - 1)
  <2>1. CASE i = n + 1
    BY <1>1, <1>3, <1>6, <2>1
  <2>2. CASE i \in 1 .. n
    <3>1. i - 1 \in 0 .. n /\ e \in b.proof.edges[i]
      BY <1>1, <1>6, <2>2
    <3>. QED
      BY <1>2, <2>2, <3>1 DEF EvidenceGrounded
  <2>. QED
    BY <1>1, <2>1, <2>2
<1>. QED
  BY <1>1, <1>3, <1>4, <1>5, <1>6 DEF EvidenceGrounded

Supported(b) == EvidenceGrounded(b) /\ NodesAccounted(b)

LEMMA FreshSupported == Supported(FreshBranch)
  BY EmptyFrontierType
  DEF Supported, EvidenceGrounded, NodesAccounted, FreshBranch, NoProof

\* The nodes of the live branch after a step come from where they may.
LEMMA ForwardSupported ==
  ASSUME TypeOK, Supported(Branch), [Next]_vars, ~Backtrack
  PROVE  Supported(Branch')
<1>0. /\ Branch.registers = registers /\ Branch.answers = answers /\ Branch.proof = proof
      /\ Branch.injected = injected
      /\ Branch'.registers = registers' /\ Branch'.answers = answers'
      /\ Branch'.proof = proof' /\ Branch'.injected = injected'
  BY DEF Branch
<1>1. /\ proof.edges \in Seq(SUBSET Graph) /\ Len(proof.edges) \in Nat
      /\ registers \in [0 .. 3 -> Frontier]
  BY DEF TypeOK, Proofs
<1>2. /\ EvidenceGrounded(Branch)
      /\ \A r \in 0 .. 3 : Nodes(registers[r]) \subseteq Known(Branch)
      /\ Nodes(answers) \subseteq Known(Branch)
      /\ proof.answer # NoAnswer => proof.answer \in Nodes(answers)
  BY <1>0 DEF Supported, NodesAccounted
<1>3. ASSUME proof'.edges = proof.edges, injected \subseteq injected'
      PROVE  /\ EvidenceGrounded(Branch') /\ Known(Branch) \subseteq Known(Branch')
             /\ injected' \subseteq Known(Branch')
  BY <1>0, <1>1, <1>2, <1>3, SameEvidence
<1>4. ASSUME NEW n \in NodeIds, Seed(n) PROVE Supported(Branch')
  <2>1. /\ EvidenceGrounded(Branch') /\ Known(Branch) \subseteq Known(Branch')
        /\ injected' \subseteq Known(Branch')
    BY <1>3, <1>4, SeedIs
  <2>2. \A r \in 0 .. 3 : Nodes(registers'[r]) \subseteq Known(Branch')
    BY <1>2, <1>4, <2>1, SeedIs
  <2>. QED
    BY <1>0, <1>2, <1>4, <2>1, <2>2, SeedIs DEF Supported, NodesAccounted
<1>5. ASSUME NEW k \in Limits, NEW reply \in AnnReplies, Ann(k, reply)
      PROVE  Supported(Branch')
  <2>1. /\ EvidenceGrounded(Branch') /\ Known(Branch) \subseteq Known(Branch')
        /\ injected' \subseteq Known(Branch')
    BY <1>3, <1>5, AnnIs
  <2>2. \A r \in 0 .. 3 : Nodes(registers'[r]) \subseteq Known(Branch')
    BY <1>2, <1>5, <2>1, AnnIs
  <2>. QED
    BY <1>0, <1>2, <1>5, <2>1, <2>2, AnnIs DEF Supported, NodesAccounted
<1>6. ASSUME NEW rels, Expand(rels) PROVE Supported(Branch')
  <2>. DEFINE batch == Observed(rels)
  <2>1. batch \in SUBSET Graph /\ \A e \in batch : e.src \in Known(Branch)
    BY <1>2, EdgesFinite DEF Observed, Examined
  <2>2. /\ proof'.edges = Append(proof.edges, batch) /\ injected' = injected
        /\ proof'.answer = proof.answer /\ answers' = answers
        /\ Nodes(registers'[0]) = {e.dst : e \in batch}
        /\ \A r \in 1 .. 3 : registers'[r] = registers[r]
    BY <1>6, ExpandIs
  <2>. HIDE DEF batch
  <2>3. /\ EvidenceGrounded(Branch') /\ Known(Branch) \subseteq Known(Branch')
        /\ {e.dst : e \in batch} \subseteq Known(Branch')
    BY <1>0, <1>1, <1>2, <2>1, <2>2, LongerEvidence
  <2>4. \A r \in 0 .. 3 : Nodes(registers'[r]) \subseteq Known(Branch')
    BY <1>2, <2>2, <2>3
  <2>. QED
    BY <1>0, <1>2, <2>2, <2>3, <2>4 DEF Supported, NodesAccounted
<1>7. ASSUME FrontierWork PROVE Supported(Branch')
  <2>1. UNCHANGED <<answers, proof, injected>>
    BY <1>7, FrontierWorkIs
  <2>2. EvidenceGrounded(Branch') /\ Known(Branch) \subseteq Known(Branch')
    BY <1>3, <2>1
  <2>3. \A r \in 0 .. 3 : Nodes(registers'[r]) \subseteq Known(Branch')
    <3>1. PICK r \in 0 .. 3 : Nodes(registers'[0]) \subseteq
                                Nodes(registers[0]) \cup Nodes(registers[r])
      BY <1>7, FrontierWorkIs
    <3>2. \A q \in 1 .. 3 : registers'[q] = registers[q]
      BY <1>7, FrontierWorkIs
    <3>. QED
      BY <1>2, <2>2, <3>1, <3>2
  <2>. QED
    BY <1>0, <1>2, <2>1, <2>2, <2>3 DEF Supported, NodesAccounted
<1>8. ASSUME Verify PROVE Supported(Branch')
  <2>1. EvidenceGrounded(Branch') /\ Known(Branch) \subseteq Known(Branch')
    BY <1>3, <1>8, VerifyIs
  <2>. QED
    BY <1>0, <1>2, <1>8, <2>1, VerifyIs DEF Supported, NodesAccounted
<1>9. ASSUME UNCHANGED <<registers, answers, proof, injected>> PROVE Supported(Branch')
  <2>1. EvidenceGrounded(Branch') /\ Known(Branch) \subseteq Known(Branch')
    BY <1>3, <1>9
  <2>. QED
    BY <1>0, <1>2, <1>9, <2>1 DEF Supported, NodesAccounted
<1>10. ASSUME NEW r \in StoreRegisters, StoreRegister(r) PROVE Supported(Branch')
  <2>1. UNCHANGED <<answers, proof, injected>>
        /\ \A q \in 0 .. 3 : registers'[q] \in {registers[q], registers[0]}
    BY <1>1, <1>10 DEF StoreRegister
  <2>2. EvidenceGrounded(Branch') /\ Known(Branch) \subseteq Known(Branch')
    BY <1>3, <2>1
  <2>. QED
    BY <1>0, <1>2, <2>1, <2>2 DEF Supported, NodesAccounted
<1>11. ASSUME CacheHint \/ Stop \/ (\E i \in Instructions : Reject(i)) \/ UNCHANGED vars
       PROVE  UNCHANGED <<registers, answers, proof, injected>>
  BY <1>11 DEF CacheHint, Stop, Reject, machine, vars
<1>. QED
  BY <1>4, <1>5, <1>6, <1>7, <1>8, <1>9, <1>10, <1>11 DEF Next, FrontierWork

LEMMA NextBranchesSupported ==
  ASSUME TypeOK, BranchesSupported, [Next]_vars
  PROVE  BranchesSupported'
<1>1. \A b \in Branches : Supported(b)
  BY DEF BranchesSupported, Supported
<1>2. Supported(Branch)
  BY <1>1 DEF Branches
<1>3. Supported(Branch')
  <2>1. CASE Backtrack
    <3>1. PICK b \in Branches \cup {FreshBranch} :
            /\ registers' = b.registers /\ answers' = b.answers /\ proof' = b.proof
            /\ depth' = b.depth /\ injected' = b.injected
      BY <2>1, BacktrackBranch
    <3>2. Supported(b)
      BY <1>1, FreshSupported
    <3>3. /\ Branch'.registers = b.registers /\ Branch'.answers = b.answers
          /\ Branch'.proof = b.proof /\ Branch'.injected = b.injected
      BY <3>1 DEF Branch
    <3>. QED
      BY <3>2, <3>3
      DEF Supported, EvidenceGrounded, NodesAccounted, Known, KnownAfter
  <2>2. CASE ~Backtrack
    BY <1>2, <2>2, ForwardSupported
  <2>. QED
    BY <2>1, <2>2
<1>4. \A b \in Branches' : Supported(b)
  BY <1>1, <1>3, NextBranches
<1>. QED
  BY <1>4 DEF BranchesSupported, Supported, EvidenceGrounded, NodesAccounted, Known, KnownAfter

-----------------------------------------------------------------------------
(* Theorems *)

IInv == TypeOK /\ Accounts /\ BranchesNest /\ BranchesSupported

LEMMA InitIInv == Init => IInv
<1>. SUFFICES ASSUME Init PROVE IInv
  OBVIOUS
<1>1. TypeOK /\ Accounts
  BY InitTypeOK, InitAccounts
<1>2. BranchesNest
  BY DEF Init, BranchesNest
<1>3. Branches = {Branch}
  BY DEF Init, Branches
<1>4. Branch = FreshBranch
  BY DEF Init, Branch, FreshBranch
<1>5. BranchesSupported
  BY <1>3, <1>4, FreshSupported DEF BranchesSupported, Supported
<1>. QED
  BY <1>1, <1>2, <1>5 DEF IInv

LEMMA NextIInv == IInv /\ [Next]_vars => IInv'
<1>. SUFFICES ASSUME IInv, [Next]_vars PROVE IInv'
  OBVIOUS
<1>1. TypeOK' /\ Accounts'
  BY NextTypeOK, NextAccounts DEF IInv
<1>2. BranchesNest' /\ BranchesSupported'
  BY NextBranchesNest, NextBranchesSupported DEF IInv
<1>. QED
  BY <1>1, <1>2 DEF IInv

LEMMA Inductive == Spec => []IInv
  BY InitIInv, NextIInv, PTL DEF Spec

(* Credits and attempts balance in every program (charge, execute_traced). *)
THEOREM AccountsAlwaysBalance == Spec => []AccountsBalance
<1>1. IInv => AccountsBalance
  BY DEF IInv, Accounts
<1>. QED
  BY <1>1, Inductive, PTL

(* No branch carries more evidence than the budget paid for.               *)
THEOREM EvidenceAlwaysPaidFor == Spec => []EvidencePaidFor
<1>1. IInv => EvidencePaidFor
  BY DEF IInv, Accounts
<1>. QED
  BY <1>1, Inductive, PTL

(* BACKTRACK restores depth and evidence together, at any nesting.         *)
THEOREM DepthAlwaysEvidence == Spec => []DepthIsEvidence
<1>1. IInv => DepthIsEvidence
  BY DEF IInv, Accounts
<1>. QED
  BY <1>1, Inductive, PTL

(* The branch points form a stack of prefixes of the live evidence.        *)
THEOREM BranchesAlwaysNest == Spec => []BranchesNest
<1>1. IInv => BranchesNest
  BY DEF IInv
<1>. QED
  BY <1>1, Inductive, PTL

(* No node and no edge survives from an abandoned branch.                  *)
THEOREM BranchesAlwaysSupported == Spec => []BranchesSupported
<1>1. IInv => BranchesSupported
  BY DEF IInv
<1>. QED
  BY <1>1, Inductive, PTL

\* A set that holds the injected nodes and is closed under grounded evidence
\* holds every node the evidence accounts for: the least batch that left it
\* would have an edge from a node the set does not hold.
LEMMA ClosedHoldsKnown ==
  ASSUME NEW b, Len(b.proof.edges) \in Nat, EvidenceGrounded(b),
         NEW C, b.injected \subseteq C,
         \A i \in 1 .. Len(b.proof.edges) :
           \A e \in b.proof.edges[i] : e.src \in C => e.dst \in C
  PROVE  Known(b) \subseteq C
<1>. DEFINE n == Len(b.proof.edges)
            Bad == {i \in 0 .. n : ~ (KnownAfter(b, i) \subseteq C)}
<1>1. SUFFICES ASSUME Bad # {} PROVE FALSE
  BY DEF Known
<1>2. Bad \in SUBSET Nat
  OBVIOUS
<1>3. PICK i \in Bad : \A j \in Bad : i <= j
  BY <1>1, <1>2, LeastNatural
<1>4. KnownAfter(b, 0) \subseteq C
  BY DEF KnownAfter
<1>5. i \in 1 .. n /\ i - 1 \in 0 .. n
  BY <1>3, <1>4
<1>6. KnownAfter(b, i - 1) \subseteq C
  BY <1>3, <1>5
<1>7. \A e \in b.proof.edges[i] : e.dst \in C
  BY <1>5, <1>6 DEF EvidenceGrounded
<1>8. KnownAfter(b, i) \subseteq KnownAfter(b, i - 1) \cup {e.dst : e \in b.proof.edges[i]}
  <2>1. \A j \in 1 .. i : j = i \/ j \in 1 .. i - 1
    BY <1>5
  <2>. QED
    BY <2>1 DEF KnownAfter
<1>. QED
  BY <1>3, <1>6, <1>7, <1>8

(* The answer a search proposes is connected by the edges of its own proof *)
(* to a node that SEED or ANN supplied on the same branch.                 *)
THEOREM AnswerAlwaysReachable == Spec => []AnswerReachable
<1>1. ASSUME IInv PROVE AnswerReachable
  <2>1. SUFFICES ASSUME proof.answer # NoAnswer, NEW C \in SUBSET NodeIds,
                        injected \subseteq C,
                        \A e \in Evidence(proof) : e.src \in C => e.dst \in C
                 PROVE  proof.answer \in C
    BY DEF AnswerReachable
  <2>2. /\ Branch.proof = proof /\ Branch.injected = injected /\ Branch.answers = answers
        /\ Branch \in Branches
    BY DEF Branch, Branches
  <2>3. /\ EvidenceGrounded(Branch) /\ proof.answer \in Nodes(answers)
        /\ Nodes(answers) \subseteq Known(Branch)
    BY <1>1, <2>1, <2>2 DEF IInv, BranchesSupported, NodesAccounted
  <2>4. Len(proof.edges) \in Nat
    BY <1>1 DEF IInv, TypeOK, Proofs
  <2>5. \A i \in 1 .. Len(proof.edges) :
          \A e \in proof.edges[i] : e.src \in C => e.dst \in C
    BY <2>1 DEF Evidence
  <2>6. Known(Branch) \subseteq C
    BY <2>1, <2>2, <2>3, <2>4, <2>5, ClosedHoldsKnown
  <2>. QED
    BY <2>3, <2>6
<1>. QED
  BY <1>1, Inductive, PTL

-----------------------------------------------------------------------------
(* Refinement of the abstract trail of evidence *)

Trails == [i \in 1 .. Len(history) |-> history[i].proof.edges]

LEMMA SavedEdges ==
  ASSUME TypeOK
  PROVE  \A i \in 1 .. Len(history) : history[i].proof.edges \in Seq(SUBSET Graph)
<1>1. ASSUME NEW i \in 1 .. Len(history) PROVE history[i].proof.edges \in Seq(SUBSET Graph)
  <2>1. history[i] \in HistoryEntry
    BY DEF TypeOK
  <2>. QED
    BY <2>1 DEF HistoryEntry, Proofs
<1>. QED
  BY <1>1

LEMMA TrailsPush ==
  ASSUME TypeOK, PushHistory
  PROVE  Trails' = Append(Trails, proof.edges)
<1>1. /\ history \in Seq(HistoryEntry) /\ Len(history) \in Nat
      /\ history' \in Seq(HistoryEntry)
      /\ Len(history') = Len(history) + 1
      /\ \A i \in 1 .. Len(history) : history'[i] = history[i]
      /\ history'[Len(history) + 1] = Branch
      /\ Branch.proof = proof
  BY PushType DEF TypeOK, Branch
<1>2. Trails \in Seq(Seq(SUBSET Graph)) /\ Len(Trails) = Len(history)
  <2>1. \A i \in 1 .. Len(history) : history[i].proof.edges \in Seq(SUBSET Graph)
    BY SavedEdges
  <2>. QED
    BY <1>1, <2>1 DEF Trails
<1>3. proof.edges \in Seq(SUBSET Graph)
  BY DEF TypeOK, Proofs
<1>4. /\ Append(Trails, proof.edges) = [i \in 1 .. Len(history) + 1 |->
           IF i \in 1 .. Len(history) THEN Trails[i] ELSE proof.edges]
  BY <1>1, <1>2, <1>3
<1>5. Trails' = [i \in 1 .. Len(history) + 1 |-> history'[i].proof.edges]
  BY <1>1 DEF Trails
<1>6. \A i \in 1 .. Len(history) + 1 : history'[i].proof.edges =
        IF i \in 1 .. Len(history) THEN Trails[i] ELSE proof.edges
  BY <1>1 DEF Trails
<1>. QED
  BY <1>4, <1>5, <1>6

LEMMA TrailsPop ==
  ASSUME TypeOK, Backtrack
  PROVE  IF Trails = << >>
           THEN proof'.edges = << >> /\ UNCHANGED Trails
           ELSE /\ proof'.edges = Trails[Len(Trails)]
                /\ Trails' = SubSeq(Trails, 1, Len(Trails) - 1)
<1>1. /\ history \in Seq(HistoryEntry) /\ Len(history) \in Nat
      /\ Len(Trails) = Len(history) /\ DOMAIN Trails = 1 .. Len(history)
  <2>1. \A i \in 1 .. Len(history) : history[i].proof.edges \in Seq(SUBSET Graph)
    BY SavedEdges
  <2>2. Trails \in Seq(Seq(SUBSET Graph)) /\ history \in Seq(HistoryEntry)
    BY <2>1 DEF Trails, TypeOK
  <2>. QED
    BY <2>2 DEF Trails
<1>2. CASE history = << >> /\ Restore(FreshBranch) /\ history' = << >>
  <2>1. Trails = << >> /\ Trails' = << >>
    BY <1>2 DEF Trails
  <2>. QED
    BY <1>2, <2>1 DEF Restore, FreshBranch, NoProof
<1>3. CASE /\ Len(history) > 0 /\ Restore(history[Len(history)])
           /\ Len(history') = Len(history) - 1
           /\ \A i \in 1 .. Len(history) - 1 : history'[i] = history[i]
  <2>1. Trails # << >> /\ Trails[Len(Trails)] = history[Len(history)].proof.edges
    BY <1>1, <1>3 DEF Trails
  <2>2. SubSeq(Trails, 1, Len(Trails) - 1) =
          [i \in 1 .. Len(history) - 1 |-> history[i].proof.edges]
    <3>1. SubSeq(Trails, 1, Len(Trails) - 1) = [i \in 1 .. Len(history) - 1 |-> Trails[i]]
      BY <1>1, <1>3
    <3>. QED
      BY <1>1, <3>1 DEF Trails
  <2>3. Trails' = [i \in 1 .. Len(history) - 1 |-> history'[i].proof.edges]
    BY <1>3 DEF Trails
  <2>4. Trails' = SubSeq(Trails, 1, Len(Trails) - 1)
    BY <1>1, <1>3, <2>2, <2>3
  <2>. QED
    BY <1>3, <2>1, <2>4 DEF Restore
<1>. QED
  BY <1>2, <1>3, BacktrackCases

\* A charge is spent, and never beyond the budget.
LEMMA Spends ==
  ASSUME TypeOK, IInv', NEW cost \in Nat, NEW visited \in Nat, NEW examined \in Nat,
         NEW least \in Nat, least <= cost, Counted(cost, visited, examined)
  PROVE  Trail!Spend(least)
<1>1. /\ stats \in Stats /\ stats.credits \in Nat /\ depth' \in Nat
      /\ stats'.credits \in Nat /\ budget' \in Nat
  BY DEF IInv, TypeOK, Stats
<1>2. stats'.credits = stats.credits + cost
  BY <1>1, CountedType
<1>3. budget' + stats'.credits = InitialBudget
  BY DEF IInv, Accounts, AccountsBalance
<1>4. stats'.credits <= InitialBudget
  BY <1>1, <1>3, LimitAssumption
<1>5. stats'.credits >= stats.credits + least
  BY <1>1, <1>2
<1>. QED
  BY <1>1, <1>4, <1>5 DEF Trail!Spend

LEMMA NextTrail ==
  ASSUME IInv, [Next]_vars
  PROVE  [Trail!Next]_(Trail!tvars)
<1>1. TypeOK /\ IInv'
  BY NextIInv DEF IInv
<1>2. ASSUME PushHistory, KeepsEvidence, UNCHANGED stopped,
             NEW cost \in Nat, Runs(cost), Counted(cost, 0, 0)
      PROVE  Trail!Advance
  <2>1. Trail!Spend(0)
    BY <1>1, <1>2, Spends
  <2>2. ~stopped
    BY <1>2 DEF Runs
  <2>. QED
    BY <1>1, <1>2, <2>1, <2>2, TrailsPush DEF Trail!Advance, Trails, KeepsEvidence
<1>3. ASSUME NEW rels, Expand(rels) PROVE Trail!Advance
  <2>. DEFINE batch == Observed(rels)
              m == Cardinality(batch)
  <2>1. /\ batch \in SUBSET Graph /\ m \in Nat /\ Cardinality(Examined) \in Nat
        /\ proof'.edges = Append(proof.edges, batch)
        /\ PushHistory /\ UNCHANGED stopped
        /\ Runs(m) /\ Counted(m, m, Cardinality(Examined))
    BY <1>1, <1>3, ExpandIs, EdgesFinite
  <2>2. Trail!Spend(m)
    BY <1>1, <2>1, Spends
  <2>3. ~stopped
    BY <2>1 DEF Runs
  <2>4. Trails' = Append(Trails, proof.edges)
    BY <1>1, <2>1, TrailsPush
  <2>. HIDE DEF batch
  <2>5. \E b \in SUBSET Graph :
          proof'.edges = Append(proof.edges, b) /\ Trail!Spend(Cardinality(b))
    BY <2>1, <2>2
  <2>6. ~stopped /\ stopped' = stopped /\ Trails' = Append(Trails, proof.edges)
    BY <2>1, <2>3, <2>4
  <2>. QED
    BY <2>5, <2>6 DEF Trail!Advance, Trails
<1>4. ASSUME Backtrack PROVE Trail!Return
  <2>1. Runs(1) /\ Counted(1, 0, 0) /\ UNCHANGED stopped
    BY <1>4 DEF Backtrack
  <2>2. Trail!Spend(1)
    BY <1>1, <2>1, Spends
  <2>3. ~stopped
    BY <2>1 DEF Runs
  <2>. QED
    BY <1>1, <1>4, <2>1, <2>2, <2>3, TrailsPop DEF Trail!Return, Trails
<1>5. ASSUME KeepsEvidence, UNCHANGED <<history, stopped>>,
             NEW cost \in Nat, Runs(cost), Counted(cost, 0, 0)
      PROVE  Trail!Work
  <2>1. Trail!Spend(0)
    BY <1>1, <1>5, Spends
  <2>. QED
    BY <1>5, <2>1 DEF Trail!Work, KeepsEvidence, Runs
<1>6. ASSUME Stop PROVE Trail!Close
  <2>1. Runs(1) /\ Counted(1, 0, 0)
    BY <1>6 DEF Stop
  <2>2. Trail!Spend(1)
    BY <1>1, <2>1, Spends
  <2>. QED
    BY <1>6, <2>1, <2>2 DEF Trail!Close, Stop, Runs
<1>7. ASSUME NEW n \in NodeIds, Seed(n) PROVE Trail!Advance
  BY <1>1, <1>2, <1>7, SeedIs DEF KeepsEvidence
<1>8. ASSUME NEW k \in Limits, NEW reply \in AnnReplies, Ann(k, reply) PROVE Trail!Advance
  BY <1>1, <1>2, <1>8, AnnIs DEF KeepsEvidence
<1>9. ASSUME FrontierWork PROVE Trail!Work
  <2>1. PICK cost \in Nat : Runs(cost) /\ Counted(cost, 0, 0)
    BY <1>1, <1>9, FrontierWorkIs
  <2>2. UNCHANGED <<history, stopped>> /\ KeepsEvidence
    BY <1>1, <1>9, FrontierWorkIs DEF KeepsEvidence
  <2>. QED
    BY <1>5, <2>1, <2>2
<1>10. ASSUME Verify PROVE Trail!Work
  BY <1>1, <1>5, <1>10, VerifyIs DEF KeepsEvidence
<1>11. ASSUME CacheHint PROVE Trail!Work
  BY <1>5, <1>11 DEF CacheHint, KeepsEvidence
<1>12. ASSUME NEW r \in StoreRegisters, StoreRegister(r) PROVE UNCHANGED Trail!tvars
  BY <1>12 DEF StoreRegister, Trail!tvars
<1>13. ASSUME NEW i \in Instructions, Reject(i) PROVE UNCHANGED Trail!tvars
  <2>1. stats'.credits = stats.credits
    BY <1>1, <1>13, RejectIs DEF TypeOK
  <2>. QED
    BY <1>13, <2>1 DEF Reject, machine, Trail!tvars
<1>14. ASSUME UNCHANGED vars PROVE UNCHANGED Trail!tvars
  BY <1>14 DEF vars, Trail!tvars
<1>. QED
  BY <1>3, <1>4, <1>6, <1>7, <1>8, <1>9, <1>10, <1>11, <1>12, <1>13, <1>14
  DEF Next, FrontierWork, Trail!Next

(* The VM implements the abstract trail: every instruction of every        *)
(* program extends the evidence, returns to the newest branch point, works *)
(* on the frontier, closes the search, or leaves the promise alone.        *)
THEOREM ImplementsTrail == Spec => TrailSpec
<1>1. Init => Trail!Init
  BY DEF Init, Trail!Init, NoProof, ZeroStats
<1>2. IInv /\ [Next]_vars => [Trail!Next]_(Trail!tvars)
  BY NextTrail
<1>. QED
  BY <1>1, <1>2, Inductive, PTL DEF Spec, TrailSpec, Trail!Spec
=============================================================================
