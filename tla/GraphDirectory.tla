---------------------------- MODULE GraphDirectory ----------------------------
(***************************************************************************)
(* data/processed, the directory that holds a compiled graph and everything*)
(* derived from it, and scripts/preprocess.py, which compiles a graph aside*)
(* and renames it into place.                                              *)
(*                                                                         *)
(* A graph is the number of the compilation that made it: its manifest     *)
(* carries a creation time, so two manifests never have the same hash and  *)
(* the hash stands for the graph.  The derived artifacts live inside the   *)
(* directory and go wherever it is renamed to, while a tool that is running*)
(* keeps the graph it has mapped and reaches the rest by path.             *)
(***************************************************************************)
EXTENDS Integers, Sequences

CONSTANTS
  None,
  MaxCompiles,  \* bound of the model: graphs compiled
  MaxRuns,      \* bound of the model: runs of the tools other than preprocess.py
  MaxKills      \* bound of the model: kills of any tool, and failed renames

ASSUME CompileAssumption == 
  None \notin Nat /\ MaxCompiles \in Nat /\ MaxRuns \in Nat /\ MaxKills \in Nat

Graphs == 1 .. MaxCompiles
Kinds  == {"full", "bounded"}       \* semantic_full, semantic_bounded
Parts  == {"validation", "test"}

VARIABLES
  out,       \* data/processed, None when there is no such directory
  previous,  \* data/processed.previous
  compiler,  \* the running preprocess.py
  compiled,  \* graphs compiled so far
  kills, runs

compileVars == <<out, previous, compiler, compiled, kills, runs>>

Idle   == [pc |-> "idle"]
NoPair == [content |-> None, meta |-> None]

EmptyDirectory ==
  [graph    |-> None,                         \* the CSR files and manifest.json
   semantic |-> [k \in Kinds |-> None],       \* semantic_<kind>
   replaced |-> [k \in Kinds |-> None],       \* semantic_<kind>.replaced-backup
   ckpt     |-> None,                         \* .semantic_full.training.ckpt
   stages   |-> {},                           \* staging directories of semantic builds
   taskDir  |-> FALSE,                        \* task_splits/
   heldout  |-> [p \in Parts |-> NoPair],     \* task_splits/<part>_v2.jsonl and its manifest
   marker   |-> None]                         \* task_splits/manifest.json

Exists(d)   == d # None
HasGraph(d) == Exists(d) /\ d.graph # None

\* Path.mkdir(parents=True) of something inside the directory.
Made(d) == IF Exists(d) THEN d ELSE EmptyDirectory

GraphDirInit ==
  /\ out \in {None, EmptyDirectory}
  /\ previous = None
  /\ compiler = Idle
  /\ compiled = 0
  /\ kills = 0
  /\ runs = 0

\* A run of one of the other tools.
CountRun == runs < MaxRuns /\ runs' = runs + 1

-----------------------------------------------------------------------------
(* preprocess.py *)

CompileStart(force) ==
  /\ compiler = Idle
  /\ compiled < MaxCompiles
  /\ ~Exists(out) \/ force \/ out = EmptyDirectory
  /\ out' = IF force THEN out ELSE None      \* an empty mount point is removed
  /\ compiled' = compiled + 1
  /\ compiler' = [pc |-> "staged", graph |-> compiled + 1, backup |-> FALSE]
  /\ UNCHANGED <<previous, kills, runs>>

\* Variant: the published graph is removed to make room for its replacement.
CompileRetain_RemoveOld ==
  /\ compiler.pc = "staged"
  /\ out' = None
  /\ compiler' = [compiler EXCEPT !.pc = "publish"]
  /\ UNCHANGED <<previous, compiled, kills, runs>>

\* A published graph is moved aside, unless a backup is still there: then the
\* compilation is given up.
CompileRetain ==
  /\ compiler.pc = "staged"
  /\ IF ~Exists(out)
     THEN compiler' = [compiler EXCEPT !.pc = "publish"] /\ UNCHANGED <<out, previous>>
     ELSE IF Exists(previous)
     THEN compiler' = Idle /\ UNCHANGED <<out, previous>>
     ELSE /\ previous' = out
          /\ out' = None
          /\ compiler' = [compiler EXCEPT !.pc = "publish", !.backup = TRUE]
  /\ UNCHANGED <<compiled, kills, runs>>

\* A rename may land on no directory or on an empty one.
CompilePublish ==
  /\ compiler.pc = "publish"
  /\ out \in {None, EmptyDirectory}
  /\ out' = [EmptyDirectory EXCEPT !.graph = compiler.graph]
  /\ compiler' = IF compiler.backup THEN [compiler EXCEPT !.pc = "discard"] ELSE Idle
  /\ UNCHANGED <<previous, compiled, kills, runs>>

\* The rename fails, because another tool has put something there or for a reason
\* of the file system: the backup comes back if nothing is in its place.
CompilePublishFails ==
  /\ compiler.pc = "publish"
  /\ \/ out \notin {None, EmptyDirectory} /\ UNCHANGED kills
     \/ kills < MaxKills /\ kills' = kills + 1
  /\ IF compiler.backup /\ ~Exists(out)
     THEN out' = previous /\ previous' = None
     ELSE UNCHANGED <<out, previous>>
  /\ compiler' = Idle
  /\ UNCHANGED <<compiled, runs>>

\* shutil.rmtree: what is left in between has no graph any more.
CompileDiscard ==
  /\ compiler.pc = "discard"
  /\ previous' = IF previous = EmptyDirectory THEN None ELSE EmptyDirectory
  /\ compiler' = IF previous = EmptyDirectory THEN Idle ELSE compiler
  /\ UNCHANGED <<out, compiled, kills, runs>>

CompileKilled ==
  /\ compiler # Idle
  /\ kills < MaxKills
  /\ kills' = kills + 1
  /\ compiler' = Idle
  /\ UNCHANGED <<out, previous, compiled, runs>>

CompileNext ==
  \/ \E force \in BOOLEAN : CompileStart(force)
  \/ CompileRetain
  \/ CompilePublish
  \/ CompilePublishFails
  \/ CompileDiscard
  \/ CompileKilled
=============================================================================
