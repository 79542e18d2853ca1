------------------------------ MODULE DataRelease ------------------------------
(***************************************************************************)
(* The preparation of data/processed: preprocess.py, build_semantic.py and *)
(* materialize_task_splits.py, which share the directory without a lock,   *)
(* and production_preflight.py, which decides whether what is in it may be *)
(* trained on.  One process of each runs at a time; each may be killed.    *)
(* Calls that follow one another with nothing long in between are one step.*)
(***************************************************************************)
EXTENDS SemanticBuild, HeldoutSplits

VARIABLE preflight   \* the running production_preflight.py

vars == <<out, previous, compiler, compiled, kills, runs, builder, splitter, preflight>>

-----------------------------------------------------------------------------
(* production_preflight.py: three groups of reads, by path *)

PreflightStart(mode) ==
  /\ preflight.pc \in {"idle", "accepted"}
  /\ HasGraph(out) /\ out.marker # None
  /\ preflight' = [pc |-> "splits", mode |-> mode, graph |-> out.graph, hash |-> None, store |-> None]
  /\ CountRun

\* The marker names the manifest, each split matches its digest; whether the proofs
\* of another graph's tasks hold in this one is left open.
PreflightSplits ==
  /\ preflight.pc = "splits"
  /\ HasGraph(out) /\ out.marker \notin {None, Torn} /\ out.marker.hash = out.graph
  /\ \A p \in Parts : CompletePair(out.heldout[p])
  /\ preflight' = [preflight EXCEPT !.pc = "store"]
  /\ UNCHANGED runs

\* The store is whole and names the manifest as it is now.
PreflightStore ==
  /\ preflight.pc = "store"
  /\ HasGraph(out) /\ out.semantic[preflight.mode] # None
  /\ out.semantic[preflight.mode].hash = out.graph
  /\ preflight' = [preflight EXCEPT !.pc = "accepted", !.hash = out.graph,
                                    !.store = out.semantic[preflight.mode]]
  /\ UNCHANGED runs

\* Any check that does not hold raises.
PreflightFails ==
  /\ preflight.pc \in {"splits", "store"}
  /\ preflight' = Idle
  /\ UNCHANGED runs

PreflightNext ==
  \/ \E mode \in Kinds : PreflightStart(mode)
  \/ PreflightSplits \/ PreflightStore \/ PreflightFails

-----------------------------------------------------------------------------

Init ==
  /\ GraphDirInit
  /\ builder = Idle
  /\ splitter = Idle
  /\ preflight = Idle

Next ==
  \/ CompileNext /\ UNCHANGED <<builder, splitter, preflight>>
  \/ BuildNext /\ UNCHANGED <<splitter, preflight>>
  \/ SplitNext /\ UNCHANGED <<builder, preflight>>
  \/ PreflightNext /\ UNCHANGED <<out, previous, compiler, compiled, kills, builder, splitter>>

Spec == Init /\ [][Next]_vars

-----------------------------------------------------------------------------
(* Properties *)

Hashes == Graphs \cup {None}

\* What is in the directories, by type.  A bounded training has the schedule itself.
Batches   == Graphs \X (0 .. Steps - 1)
Schedules == {Schedule(g, Steps) : g \in Graphs}
Lengths   == Nat \cup {Len(s) : s \in Schedules}
Store      == [hash : Graphs, requested : {Steps}, withEdges : Lengths,
               table : Seq(Batches) \cup Schedules]
Checkpoint == [hash : Graphs, next : 0 .. Steps, table : Seq(Batches), losses : 0 .. History]
Tasks      == [graph : Graphs, seed : Seeds]
Metadata   == [seed : Seeds, sha256 : Tasks]
Marker     == [hash : Graphs, seed : Seeds]
Directory ==
  [graph    : Hashes,
   semantic : [Kinds -> Store \cup {None}],
   replaced : [Kinds -> Store \cup {None}],
   ckpt     : Checkpoint \cup {None},
   stages   : SUBSET {"live", "debris"},
   taskDir  : BOOLEAN,
   heldout  : [Parts -> [content : Tasks \cup {None}, meta : Metadata \cup {None, Torn}]],
   marker   : Marker \cup {None, Torn}]

\* Nothing that is there is taken for something that is not.
ASSUME AbsenceAssumption ==
  /\ None \notin Directory /\ None \notin Store /\ None \notin Checkpoint /\ None \notin Tasks
  /\ {None, Torn} \cap Metadata = {} /\ {None, Torn} \cap Marker = {}

Stores == {s \in UNION {{d.semantic[k], d.replaced[k]} : k \in Kinds, d \in {out, previous} \ {None}} :
             s # None}

(* The shape of the directories, of what is in them and of the running tools. *)
TypeOK ==
  /\ {out, previous} \subseteq Directory \cup {None}
  /\ \A s \in Stores : s.withEdges \in 1 .. Steps /\ Len(s.table) <= Steps
  /\ compiler.pc \in {"idle", "staged", "publish", "discard"}
  /\ compiled \in 0 .. MaxCompiles /\ kills \in 0 .. MaxKills /\ runs \in 0 .. MaxRuns
  /\ builder.pc \in {"idle", "output", "graph", "resume", "train", "rename", "unlink", "end"}
  /\ builder # Idle => /\ builder.hash \in Graphs /\ builder.graph \in Hashes
                       /\ builder.step \in 0 .. Steps /\ Len(builder.table) <= Steps
  /\ splitter.pc \in {"idle", "hash", "check", "content", "meta", "marker"}
  /\ preflight.pc \in {"idle", "splits", "store", "accepted"}

Holds(d, kind) == d.semantic[kind] # None \/ d.replaced[kind] # None

(* preprocess.py:112-126 and build_semantic.py:91-105: whatever is killed or fails
   and whatever else writes into the directory meanwhile, from the first publication
   on a whole compiled graph is in data/processed or in its retained backup; and as
   long as that graph stays in place, a semantic artifact once published for it is
   there, under its name or as the backup of a replacement, however that ends. *)
NothingLost ==
  [][/\ HasGraph(out) \/ HasGraph(previous) => HasGraph(out)' \/ HasGraph(previous)'
     /\ \A kind \in Kinds :
          HasGraph(out) /\ HasGraph(out') /\ out.graph = out'.graph /\ Holds(out, kind)
            => Holds(out', kind)]_<<out, previous>>

(* semantic.py:359-439: every published table is the one an uninterrupted run of the
   same configuration produces over one graph: no batch lost, applied twice or
   sampled from another graph, over any kills, stops and resumed checkpoints. *)
ResumeIsExact ==
  \A s \in Stores : Len(s.table) > 0 /\ s.table = Schedule(s.table[1][1], Steps)

Accepted == preflight.pc = "accepted" /\ preflight.hash = preflight.graph

(* production_preflight.py:63-109: when the graph was not replaced while it ran, an
   accepting preflight has seen a store trained on the very graph it opened, though
   the tools that filled the directory may have started before that graph was there. *)
PreflightSound ==
  Accepted => \A i \in DOMAIN preflight.store.table : preflight.store.table[i][1] = preflight.graph

(* materialize_task_splits.py:47-53: a marker that names the graph it lies beside is
   there only when both splits are complete and drawn with the seed it states. *)
MarkerIsLast ==
  HasGraph(out) /\ out.marker \notin {None, Torn} /\ out.marker.hash = out.graph
    => \A p \in Parts : CompletePair(out.heldout[p]) /\ out.heldout[p].meta.seed = out.marker.seed

(* baselines.py:295-297: a held-out set, once complete, is never replaced by another
   while its graph stays in place. *)
HeldoutFrozen ==
  [][HasGraph(out) /\ HasGraph(out') /\ out.graph = out'.graph
       => \A p \in Parts : CompletePair(out.heldout[p]) => out'.heldout[p] = out.heldout[p]]_out

(* semantic.py:335-336: the store records the steps its table was really trained for. *)
StepsReported == \A s \in Stores : s.withEdges = Len(s.table)
=============================================================================
