----------------------------- MODULE SemanticBuild -----------------------------
(***************************************************************************)
(* scripts/build_semantic.py and the training and publication it calls     *)
(* (python/neuroseek/semantic.py): train_full_transe, which checkpoints and*)
(* resumes, train_bounded_transe, which does neither, and the two ways of  *)
(* publishing a store, both by a staging directory and a rename.           *)
(*                                                                         *)
(* A trained table is the sequence of the batches applied to it, a batch   *)
(* being <<the graph it was sampled from, its position in the stream of the*)
(* seeded generator>>: two runs that apply the same batches to the same    *)
(* initial weights have the same table.  The configuration (dimension,     *)
(* seed, steps, batch size) is the same in every run.                      *)
(***************************************************************************)
EXTENDS GraphDirectory

CONSTANTS
  Steps,        \* --steps
  Every,        \* --checkpoint-every-steps, 0 for none
  History,      \* losses a checkpoint retains (256 in the code)
  EdgeBatches   \* the batches in which some sampled head has an outgoing edge

ASSUME SemanticAssumption ==
  /\ Steps \in Nat \ {0}
  /\ Every \in Nat
  /\ History \in Nat \ {0}
  /\ EdgeBatches \subseteq 0 .. Steps - 1

VARIABLE builder   \* the running build_semantic.py

ShorterOf(a, b) == IF a < b THEN a ELSE b

\* The batches with edges among the first ones of the stream.
WithEdges[steps \in 0 .. Steps] ==
  IF steps = 0 THEN <<>>
  ELSE IF steps - 1 \in EdgeBatches THEN Append(WithEdges[steps - 1], steps - 1)
  ELSE WithEdges[steps - 1]

\* The batches of the graph an uninterrupted run of the given steps applies.
Schedule(g, steps) ==
  [i \in DOMAIN WithEdges[steps] |-> <<g, WithEdges[steps][i]>>]

Slot == out.semantic[builder.kind]

\* rmtree of this build's staging directory, wherever it has been renamed to.
Unstaged(d) == IF Exists(d) THEN [d EXCEPT !.stages = @ \ {"live"}] ELSE d
Abandoned(d) ==
  IF Exists(d) /\ "live" \in d.stages
  THEN [d EXCEPT !.stages = (@ \ {"live"}) \cup {"debris"}] ELSE d

-----------------------------------------------------------------------------
(* main: which artifact, and where the previous one goes *)

\* The manifest is hashed first, and the graph it describes opened later.
BuildStart(kind, replace) ==
  /\ builder = Idle
  /\ HasGraph(out)
  /\ builder' = [pc |-> "output", kind |-> kind, replace |-> replace, moved |-> FALSE,
                 hash |-> out.graph, graph |-> None, step |-> 0, table |-> <<>>, losses |-> 0]
  /\ CountRun
  /\ UNCHANGED <<out, previous, compiler, compiled, kills>>

\* An existing artifact is reused or refused, and under --replace moved aside
\* unless an earlier one is still there.
BuildOutput ==
  /\ builder.pc = "output"
  /\ IF ~Exists(out) \/ Slot = None
     THEN builder' = [builder EXCEPT !.pc = "graph"] /\ UNCHANGED out
     ELSE IF ~builder.replace \/ out.replaced[builder.kind] # None
     THEN builder' = Idle /\ UNCHANGED out
     ELSE /\ out' = [out EXCEPT !.replaced[builder.kind] = Slot, !.semantic[builder.kind] = None]
          /\ builder' = [builder EXCEPT !.pc = "graph", !.moved = TRUE]
  /\ UNCHANGED <<previous, compiler, compiled, kills, runs>>

\* GraphMmap(args.graph): the path is resolved again.
BuildGraph ==
  /\ builder.pc = "graph"
  /\ HasGraph(out)
  /\ builder' = [builder EXCEPT !.graph = out.graph,
                                !.pc = IF builder.kind = "full" THEN "resume" ELSE "train"]
  /\ UNCHANGED compileVars

\* Any exception: no graph, no traversable edge, an incompatible checkpoint, a
\* non-finite loss, a failing device or file.  The handler of --replace renames
\* the absent output onto the backup, which raises too and changes nothing: the
\* previous artifact stays where it was moved.
BuildFails ==
  /\ builder.pc \in {"graph", "resume", "train", "rename"}
  /\ builder' = Idle
  /\ out' = Unstaged(out)
  /\ previous' = Unstaged(previous)
  /\ UNCHANGED <<compiler, compiled, kills, runs>>

-----------------------------------------------------------------------------
(* train_full_transe: resume, batches, stop requests *)

\* Variant: the recovery point names the step in progress, not the next one.
Progress_SameStep(b, step) ==
  [hash |-> b.hash, next |-> IF step = 0 THEN 0 ELSE step - 1, table |-> b.table,
   losses |-> ShorterOf(b.losses, History)]

\* Variant: every loss is retained.
Progress_AllLosses(b, step) ==
  [hash |-> b.hash, next |-> step, table |-> b.table, losses |-> b.losses]

\* What save_progress writes after the given step.
Progress(b, step) ==
  [hash |-> b.hash, next |-> step, table |-> b.table, losses |-> ShorterOf(b.losses, History)]

SaveProgress(b, step) ==
  /\ Exists(out)
  /\ out' = [out EXCEPT !.ckpt = Progress(b, step)]

Compatible(saved, b) == saved.hash = b.hash

\* A checkpoint is resumed or refused; without one, the table of step zero is saved
\* before the first batch, where a test option stops.
BuildResume ==
  /\ builder.pc = "resume"
  /\ Exists(out)
  /\ IF out.ckpt = None
     THEN /\ SaveProgress(builder, 0)
          /\ \/ builder' = [builder EXCEPT !.pc = "train"]
             \/ ~builder.replace /\ builder' = Idle
     ELSE /\ Compatible(out.ckpt, builder)
          /\ builder' = [builder EXCEPT !.pc = "train", !.step = out.ckpt.next,
                                        !.table = out.ckpt.table, !.losses = out.ckpt.losses]
          /\ UNCHANGED out
  /\ UNCHANGED <<previous, compiler, compiled, kills, runs>>

\* One pass of the loop.  A batch without edges is skipped, and its interval
\* checkpoint with it.
BuildBatch ==
  /\ builder.pc = "train" /\ builder.kind = "full" /\ builder.step < Steps
  /\ LET edges == builder.step \in EdgeBatches
         after == [builder EXCEPT
                     !.step   = @ + 1,
                     !.table  = IF edges THEN Append(@, <<builder.graph, builder.step>>) ELSE @,
                     !.losses = IF edges THEN @ + 1 ELSE @]
     IN  /\ builder' = after
         /\ IF edges /\ Every # 0 /\ after.step % Every = 0
            THEN SaveProgress(after, after.step)
            ELSE UNCHANGED out
  /\ UNCHANGED <<previous, compiler, compiled, kills, runs>>

\* SIGTERM, SIGINT or the wall limit, seen before a batch is sampled.
BuildStopped ==
  /\ builder.pc = "train" /\ builder.kind = "full" /\ builder.step < Steps
  /\ SaveProgress(builder, builder.step)
  /\ builder' = Idle
  /\ UNCHANGED <<previous, compiler, compiled, kills, runs>>

\* train_bounded_transe: no stop request, no checkpoint.
BuildBounded ==
  /\ builder.pc = "train" /\ builder.kind = "bounded" /\ builder.step < Steps
  /\ builder' = [builder EXCEPT !.step = Steps, !.table = Schedule(builder.graph, Steps),
                                !.losses = Len(Schedule(builder.graph, Steps))]
  /\ UNCHANGED compileVars

-----------------------------------------------------------------------------
(* _publish_streamed_full_store, write_embedding_store, and the end of main *)

\* Variant: the manifest is hashed when the store is published.
BuildRename_HashNow ==
  /\ builder.pc = "rename"
  /\ Exists(out) /\ "live" \in out.stages
  /\ out' = [Unstaged(out) EXCEPT !.semantic[builder.kind] =
               [hash |-> out.graph, requested |-> Steps,
                withEdges |-> builder.losses, table |-> builder.table]]
  /\ builder' = [builder EXCEPT !.pc = IF builder.kind = "full" THEN "unlink" ELSE "end"]
  /\ UNCHANGED <<previous, compiler, compiled, kills, runs>>

\* The staging directory is made, its parents too, and filled.
BuildStage ==
  /\ builder.pc = "train" /\ builder.step >= Steps /\ builder.losses > 0
  /\ Made(out).semantic[builder.kind] = None
  /\ out' = [Made(out) EXCEPT !.stages = @ \cup {"live"}]
  /\ builder' = [builder EXCEPT !.pc = "rename"]
  /\ UNCHANGED <<previous, compiler, compiled, kills, runs>>

\* The store and the manifest that describes it appear at once.
BuildRename ==
  /\ builder.pc = "rename"
  /\ Exists(out) /\ "live" \in out.stages
  /\ out' = [Unstaged(out) EXCEPT !.semantic[builder.kind] =
               [hash |-> builder.hash, requested |-> Steps,
                withEdges |-> builder.losses, table |-> builder.table]]
  /\ builder' = [builder EXCEPT !.pc = IF builder.kind = "full" THEN "unlink" ELSE "end"]
  /\ UNCHANGED <<previous, compiler, compiled, kills, runs>>

\* The progress checkpoint of a full build goes after the store is published.
BuildUnlink ==
  /\ builder.pc = "unlink"
  /\ out' = IF Exists(out) THEN [out EXCEPT !.ckpt = None] ELSE out
  /\ builder' = [builder EXCEPT !.pc = "end"]
  /\ UNCHANGED <<previous, compiler, compiled, kills, runs>>

\* rmtree(backup) under --replace; the store is opened and checked, and reported.
BuildEnd ==
  /\ builder.pc = "end"
  /\ out' = IF Exists(out) /\ builder.moved THEN [out EXCEPT !.replaced[builder.kind] = None] ELSE out
  /\ builder' = Idle
  /\ UNCHANGED <<previous, compiler, compiled, kills, runs>>

BuildKilled ==
  /\ builder # Idle
  /\ kills < MaxKills
  /\ kills' = kills + 1
  /\ out' = Abandoned(out)
  /\ previous' = Abandoned(previous)
  /\ builder' = Idle
  /\ UNCHANGED <<compiler, compiled, runs>>

BuildNext ==
  \/ \E kind \in Kinds, replace \in BOOLEAN : BuildStart(kind, replace)
  \/ BuildOutput \/ BuildGraph \/ BuildFails
  \/ BuildResume \/ BuildBatch \/ BuildStopped \/ BuildBounded
  \/ BuildStage \/ BuildRename \/ BuildUnlink \/ BuildEnd
  \/ BuildKilled
=============================================================================
