----------------------------- MODULE HeldoutSplits -----------------------------
(***************************************************************************)
(* scripts/materialize_task_splits.py and materialize_heldout_tasks        *)
(* (python/neuroseek/evaluation/baselines.py): the validation and the test *)
(* tasks drawn from a graph, each a file with a manifest beside it, and the*)
(* marker that names the graph both belong to.                             *)
(*                                                                         *)
(* The tasks are a function of the graph and the seed.  The files are      *)
(* written by path, so a directory that has been replaced meanwhile        *)
(* receives them.                                                          *)
(***************************************************************************)
EXTENDS GraphDirectory

CONSTANTS
  Torn,   \* what a kill leaves of a file that was being written in place
  Seeds   \* the seeds it is called with (--count would tell as much)

ASSUME SeedAssumption == Torn # None /\ None \notin Seeds

VARIABLE splitter   \* the running materialize_task_splits.py

Content(graph, seed) == [graph |-> graph, seed |-> seed]

HasTaskDir(d) == Exists(d) /\ d.taskDir

\* The generation parameters and the digest of the content, as a manifest has them.
Describes(meta, seed, content) == meta = [seed |-> seed, sha256 |-> content]

CompletePair(pair) ==
  pair.content # None /\ pair.meta # None /\ pair.meta # Torn /\ pair.meta.sha256 = pair.content

SplitStart(seed) ==
  /\ splitter = Idle
  /\ HasGraph(out)
  /\ splitter' = [pc |-> "hash", seed |-> seed, graph |-> out.graph, hash |-> None, part |-> "validation"]
  /\ CountRun
  /\ UNCHANGED <<out, previous, compiler, compiled, kills>>

\* Variant: the marker is written before the files it names.
SplitHash_MarkerFirst ==
  /\ splitter.pc = "hash"
  /\ IF HasGraph(out) /\ out.marker \in {None, [hash |-> out.graph, seed |-> splitter.seed]}
     THEN /\ splitter' = [splitter EXCEPT !.pc = "check", !.hash = out.graph]
          /\ out' = [out EXCEPT !.taskDir = TRUE,
                                 !.marker = [hash |-> out.graph, seed |-> splitter.seed]]
     ELSE splitter' = Idle /\ UNCHANGED out
  /\ UNCHANGED <<previous, compiler, compiled, kills, runs>>

\* The manifest is hashed, and a marker that says anything else is refused.
SplitHash ==
  /\ splitter.pc = "hash"
  /\ splitter' =
       IF HasGraph(out) /\ out.marker \in {None, [hash |-> out.graph, seed |-> splitter.seed]}
       THEN [splitter EXCEPT !.pc = "check", !.hash = out.graph] ELSE Idle
  /\ UNCHANGED compileVars

SplitAdvance(s) ==
  IF s.part = "validation" THEN [s EXCEPT !.pc = "check", !.part = "test"]
  ELSE [s EXCEPT !.pc = "marker"]

\* Variant: a pair of other parameters is generated again.
SplitCheck_Overwrite ==
  /\ splitter.pc = "check"
  /\ LET pair == Made(out).heldout[splitter.part]
     IN  IF pair.content = None \/ ~Describes(pair.meta, splitter.seed, pair.content)
         THEN /\ splitter' = [splitter EXCEPT !.pc = "content"]
              /\ out' = [Made(out) EXCEPT !.taskDir = TRUE]
         ELSE splitter' = SplitAdvance(splitter) /\ UNCHANGED out
  /\ UNCHANGED <<previous, compiler, compiled, kills, runs>>

\* A complete pair of the same parameters is kept, for an absent one the directory
\* is made, its parents too, and anything else is refused.
SplitCheck ==
  /\ splitter.pc = "check"
  /\ LET pair == Made(out).heldout[splitter.part]
     IN  IF pair = NoPair
         THEN /\ splitter' = [splitter EXCEPT !.pc = "content"]
              /\ out' = [Made(out) EXCEPT !.taskDir = TRUE]
         ELSE /\ splitter' = IF pair.content # None /\ Describes(pair.meta, splitter.seed, pair.content)
                             THEN SplitAdvance(splitter) ELSE Idle
              /\ UNCHANGED out
  /\ UNCHANGED <<previous, compiler, compiled, kills, runs>>

\* The tasks are drawn, written aside and renamed to their name.
SplitContent ==
  /\ splitter.pc = "content"
  /\ HasTaskDir(out)
  /\ out' = [out EXCEPT !.heldout[splitter.part].content = Content(splitter.graph, splitter.seed)]
  /\ splitter' = [splitter EXCEPT !.pc = "meta"]
  /\ UNCHANGED <<previous, compiler, compiled, kills, runs>>

\* The manifest is written in place.
SplitMeta ==
  /\ splitter.pc = "meta"
  /\ HasTaskDir(out)
  /\ out' = [out EXCEPT !.heldout[splitter.part].meta =
               [seed |-> splitter.seed, sha256 |-> Content(splitter.graph, splitter.seed)]]
  /\ splitter' = SplitAdvance(splitter)
  /\ UNCHANGED <<previous, compiler, compiled, kills, runs>>

SplitMarker ==
  /\ splitter.pc = "marker"
  /\ HasTaskDir(out)
  /\ out' = [out EXCEPT !.marker = [hash |-> splitter.hash, seed |-> splitter.seed]]
  /\ splitter' = Idle
  /\ UNCHANGED <<previous, compiler, compiled, kills, runs>>

\* The directory has gone, or a generation or a write fails.
SplitFails ==
  /\ splitter.pc \in {"content", "meta", "marker"}
  /\ splitter' = Idle
  /\ UNCHANGED compileVars

\* A kill, between two steps or in the middle of a write in place.
SplitKilled ==
  /\ splitter # Idle
  /\ kills < MaxKills
  /\ kills' = kills + 1
  /\ splitter' = Idle
  /\ \/ UNCHANGED out
     \/ splitter.pc = "meta" /\ HasTaskDir(out) /\ out' = [out EXCEPT !.heldout[splitter.part].meta = Torn]
     \/ splitter.pc = "marker" /\ HasTaskDir(out) /\ out' = [out EXCEPT !.marker = Torn]
  /\ UNCHANGED <<previous, compiler, compiled, runs>>

SplitNext ==
  \/ \E seed \in Seeds : SplitStart(seed)
  \/ SplitHash \/ SplitCheck \/ SplitContent \/ SplitMeta \/ SplitMarker
  \/ SplitFails \/ SplitKilled
=============================================================================
