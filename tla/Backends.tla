-------------------------------- MODULE Backends --------------------------------
(***************************************************************************)
(* Four pieces that compute over one compiled graph, each against the      *)
(* definition of what it computes: the compiler itself, the expansion on   *)
(* the GPU, the nearest-vector search and the baselines.  A behaviour is   *)
(* one job of one of them.                                                 *)
(***************************************************************************)
EXTENDS CudaExpand, AnnSearch, BaselineSearch

CONSTANTS
  RowSets,      \* triple files the compiler is given
  DeviceRows,   \* triple files whose graph is expanded on the GPU
  Frontiers, Capacities,
  ScoreSets,    \* rows of scores
  Budgets       \* budgets of the tasks

ASSUME RowsAssumption == \A rows \in RowSets \cup DeviceRows : IsRows(rows)

ASSUME ScoresAssumption == ScoreSets \subseteq Seq(Int)

ASSUME BudgetsAssumption == Budgets \subseteq Nat

ASSUME CallsAssumption == Frontiers \subseteq Seq(Nat) /\ Capacities \subseteq Nat \cup {None}

VARIABLES
  job,     \* which of the four
  input,   \* of a compilation or a search
  answer   \* what it returned, None before

vars == <<job, input, answer, cudaVars, baselineVars>>

\* TaskGenerator and CudaExpand both have relations; the codes of a compiled graph.
Codes == {AnyRelation} \cup (0 .. RelationLimit - 1)

NoQuery == [family |-> "path", source |-> 0, answer |-> 0, relations |-> << >>, budget |-> 1,
            constraints |-> << >>, disabled |-> {}, proof |-> << >>]

\* entity_ids of a store of n rows: of a complete one, and of a partial one.
Stores(n) == {[i \in 1 .. n |-> i - 1], [i \in 1 .. n |-> 2 * i]}

Init ==
  /\ answer = None
  /\ \/ /\ job = "compile"
        /\ \E rows \in RowSets : input = [rows |-> rows]
        /\ CudaInit(None) /\ BaselineInit(NoQuery)
     \/ /\ job = "expand"
        /\ input = None
        /\ \E rows \in DeviceRows : CudaInit(Compile(rows))
        /\ BaselineInit(NoQuery)
     \/ /\ job = "nearest"
        /\ \E scores \in ScoreSets : \E k \in 1 .. Len(scores), batch \in 1 .. Len(scores) :
             \E ids \in Stores(Len(scores)) :
               input = [scores |-> scores, ids |-> ids, k |-> k, batch |-> batch]
        /\ CudaInit(None) /\ BaselineInit(NoQuery)
     \/ /\ job = "baseline"
        /\ input = None
        /\ CudaInit(None)
        /\ \E task \in Tasks, budget \in Budgets : BaselineInit([task EXCEPT !.budget = budget])

RunCompile ==
  /\ job = "compile" /\ answer = None
  /\ answer' = IF Compilable(input.rows) THEN Compile(input.rows) ELSE [refused |-> TRUE]
  /\ UNCHANGED <<job, input, cudaVars, baselineVars>>

RunNearest ==
  /\ job = "nearest" /\ answer = None
  /\ LET rows == [stable  |-> StableTopK(input.scores, 0, Len(input.scores) - 1, input.k),
                  batched |-> BatchedSearch(input.scores, input.k, input.batch),
                  kernel  |-> KernelTopK(input.scores, input.k)]
     IN  answer' = [b \in DOMAIN rows |-> EntitiesOf(input.ids, rows[b])]
  /\ UNCHANGED <<job, input, cudaVars, baselineVars>>

RunExpand ==
  /\ job = "expand"
  /\ CudaNext(Frontiers, Codes, Capacities)
  /\ UNCHANGED <<job, input, answer, baselineVars>>

RunBaselines ==
  /\ job = "baseline"
  /\ BaselineNext
  /\ UNCHANGED <<job, input, answer, cudaVars>>

Next == RunCompile \/ RunNearest \/ RunExpand \/ RunBaselines

Spec == Init /\ [][Next]_vars

-----------------------------------------------------------------------------
(* Properties *)

(* Shapes of the calls and of the reports. *)
TypeOK ==
  /\ job \in {"compile", "expand", "nearest", "baseline"}
  /\ CudaTypeOK
  /\ search.pc \in {"idle", "hop", "constraint"} /\ Len(reports) <= Len(Plans)
  /\ \A i \in DOMAIN reports : reports[i].plan = Plans[i] /\ reports[i].credits \in Nat

\* How often a direction of a compiled graph holds a triple of the file.
Copies(g, reverse, triple) ==
  LET csr == Direction(g, reverse)
      decoded(v, e) ==
        LET near == g.entities[v + 1]
            far  == g.entities[e.target + 1]
        IN  [head |-> IF reverse THEN far ELSE near, relation |-> g.relations[e.relation + 1],
             tail |-> IF reverse THEN near ELSE far]
      at(v) == {i \in DOMAIN Neighbors(csr, v) : decoded(v, Neighbors(csr, v)[i]) = triple}
  IN  Cardinality(UNION {{v} \X at(v) : v \in 0 .. g.n - 1})

(* preprocess.py:58-95 and graph.py:47-54: a graph that is compiled holds, in each of
   its two directions, exactly the triples of the file, parallel ones included, under
   ids without gaps, and the native library accepts its arrays. *)
CompiledExactly ==
  job = "compile" /\ answer # None /\ answer # [refused |-> TRUE] =>
    \A reverse \in BOOLEAN :
      /\ \A i \in DOMAIN input.rows :
           Copies(answer, reverse, input.rows[i])
             = Cardinality({j \in DOMAIN input.rows : input.rows[j] = input.rows[i]})
      /\ ValidateCsr(Direction(answer, reverse), answer.n, Len(input.rows))

\* The edges an expansion has to return: those of each frontier entry, repeated or not.
Traversed(target) ==
  {x \in (DOMAIN call.frontier) \X (DOMAIN Csr.targets) :
     /\ x[2] \in Csr.offsets[call.frontier[x[1]]] .. Csr.offsets[call.frontier[x[1]] + 1] - 1
     /\ call.relation \in {AnyRelation, Csr.relations[x[2]]}
     /\ Csr.targets[x[2]] = target}

(* cuda_backend.py:80-107, 165-224: an expansion that returns has returned one node per
   traversed edge, no fewer and no other, in whatever order the threads ran. *)
ExpandExact ==
  call.pc = "done" =>
    /\ \A v \in 0 .. graph.n - 1 :
         Cardinality({p \in DOMAIN call.output : call.output[p] = v}) = Cardinality(Traversed(v))
    /\ \A p \in DOMAIN call.output : call.output[p] \in 0 .. graph.n - 1

(* neuroseek_cuda.cu:38-46, 105-125, 170-180, 194-218: wherever among the buffers an
   operation failed, between two entries of the library the device holds the arrays of
   an open session and nothing else; nothing is freed twice; and a kernel runs on
   buffers that are allocated. *)
NoDeviceLeak ==
  /\ native = NoNative => device = IF session = "open" THEN SessionBuffers ELSE {}
  /\ native.pc = "free" =>
       \A j \in native.at .. Len(Cleanup(native.stage)) :
         Cleanup(native.stage)[j] \in native.ptrs => Cleanup(native.stage)[j] \in device
  /\ kernel # NoKernel =>
       CallBuffers \cup (IF call.resident THEN SessionBuffers ELSE GraphBuffers) \subseteq device

\* The k best entities in order: none repeated, and none left out that is ahead of
\* one taken; of equal ones the lower id is.
IsTopK(scores, ids, k, found) ==
  LET score == [e \in {ids[i] : i \in DOMAIN ids} |-> scores[CHOOSE i \in DOMAIN ids : ids[i] = e]]
      ahead(e) == {d \in DOMAIN score : score[d] > score[e] \/ (score[d] = score[e] /\ d < e)}
  IN  /\ DOMAIN found = 1 .. k
      /\ \A i \in 1 .. k : found[i] \in DOMAIN score /\ ahead(found[i]) = {found[j] : j \in 1 .. i - 1}

(* semantic.py:131-150, 201-211, neuroseek_cuda.cu:148-155: the batched search and the
   native kernel both return the exact stable top-k, ties, batch borders and a store of
   some of the entities included. *)
TopKExact ==
  job = "nearest" /\ answer # None =>
    \A b \in DOMAIN answer : IsTopK(input.scores, input.ids, input.k, answer[b])

\* The nodes that exactly follow the first d relations of the query, off disabled edges.
Reach(d) ==
  LET at[i \in 0 .. d] ==
        IF i = 0 THEN {query.source}
        ELSE {e.dst : e \in {f \in Graph : /\ f.src \in at[i - 1]
                                           /\ f.relation = query.relations[i]
                                           /\ f \notin query.disabled}}
  IN  at[d]

(* baselines.py:108-163, 228-261: within its budget the fixed plan answers exactly the
   questions that have an answer and proves each one it answers, and so does the
   hybrid for an intersection; and it proves, for no more credits, whatever the
   breadth-first search (166-225) proves. *)
PlansComplete ==
  /\ \A i \in DOMAIN reports : LET r == reports[i] IN
       r.applicable /\ ~r.exhausted /\ r.plan # "bfs" =>
         /\ r.correct <=> (query.family = "intersection" \/ query.answer \in Reach(Len(query.relations)))
         /\ r.correct => r.valid
  /\ Len(reports) >= 2 /\ reports[2].valid =>
       reports[1].valid /\ reports[1].credits <= reports[2].credits /\ reports[1].edges <= reports[2].edges
=============================================================================
