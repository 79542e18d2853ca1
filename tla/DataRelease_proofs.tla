------------------------- MODULE DataRelease_proofs -------------------------
(***************************************************************************)
(* Proofs about DataRelease, for any number of graphs, runs, kills, seeds, *)
(* steps and checkpoints: what is published is not lost, a held-out set    *)
(* stays what it is, a marker stands beside what it names, the preflight   *)
(* accepts no store of another graph, and a training that was killed,      *)
(* stopped and resumed publishes what an uninterrupted one does.           *)
(*                                                                         *)
(* The tools reach the directory by path while preprocess.py renames it.   *)
(* The argument is about Current, the directory that is at the path or,    *)
(* while a publication has moved it aside, will be put back there if the   *)
(* publication fails: it only ever changes to a graph nobody knew before.  *)
(***************************************************************************)
EXTENDS DataRelease, WellFoundedInduction, TLAPS

Build ==
  [pc : {"output", "graph", "resume", "train", "rename", "unlink", "end"}, kind : Kinds,
   replace : BOOLEAN, moved : BOOLEAN, hash : Graphs, graph : Hashes, step : 0 .. Steps,
   table : Seq(Batches) \cup Schedules, losses : Lengths]

Split ==
  [pc : {"hash", "check", "content", "meta", "marker"}, seed : Seeds, graph : Graphs,
   hash : Hashes, part : Parts]

Compile == [pc : {"staged", "publish", "discard"}, graph : Graphs, backup : BOOLEAN]

Preflight ==
  [pc : {"splits", "store", "accepted"}, mode : Kinds, graph : Graphs, hash : Hashes,
   store : Store \cup {None}]

\* The full training counts and appends; the bounded one takes its schedule.
BuilderTyped(b) ==
  \/ b = Idle
  \/ /\ b \in Build
     /\ b.kind = "full" => b.table \in Seq(Batches) /\ b.losses \in Nat
     /\ b.pc \notin {"output", "graph"} => b.graph \in Graphs
     /\ b.pc = "resume" => b.kind = "full"

SplitterTyped(s) ==
  \/ s = Idle
  \/ /\ s \in Split
     /\ s.pc # "hash" => s.hash \in Graphs
     /\ s.pc = "hash" => s.part = "validation"

Typed ==
  /\ out \in Directory \cup {None} /\ previous \in Directory \cup {None}
  /\ compiled \in 0 .. MaxCompiles
  /\ compiler \in Compile \cup {Idle}
  /\ BuilderTyped(builder) /\ SplitterTyped(splitter)
  /\ preflight \in Preflight \cup {Idle}

\* The directory at the path, or that a failing publication puts back there.
Current ==
  IF out # None THEN out
  ELSE IF compiler.pc = "publish" /\ compiler.backup THEN previous ELSE None

Published(d) == d # None /\ d.graph # None

\* The graphs that were at the path at some time.
Unpublished == compiler.pc \in {"staged", "publish"}
Known == {g \in Graphs : IF Unpublished THEN g < compiler.graph ELSE g <= compiled}

Numbered ==
  /\ Unpublished => compiler.graph = compiled
  /\ Published(Current) => Current.graph \in Known
  /\ builder # Idle => builder.hash \in Known
  /\ splitter # Idle => splitter.hash \in Known \cup {None}

\* A compilation takes back only what it has moved aside itself, and discards a
\* graph only behind a published one.
Discarding ==
  /\ compiler.pc = "staged" => compiler.backup = FALSE
  /\ compiler.pc = "discard" => Published(out)

\* The backup of a replacement is dropped only beside what replaces it.
Replaced ==
  builder # Idle /\ builder.pc \in {"unlink", "end"} /\ Current # None =>
    (Current.replaced[builder.kind] # None => Current.semantic[builder.kind] # None)

\* The pair in work was not there when it was looked for.
Absent ==
  splitter # Idle /\ Current # None =>
    /\ splitter.pc = "content" => Current.heldout[splitter.part] = NoPair
    /\ splitter.pc = "meta" => Current.heldout[splitter.part].meta = None

\* The pairs that are done are complete where the marker would name their graph.
Whole(pair, seed) == CompletePair(pair) /\ pair.meta.seed = seed
Done(part) ==
  splitter.pc = "marker" \/ (splitter.part = "test" /\ part = "validation")

Prepared ==
  splitter # Idle /\ splitter.pc # "hash" /\ Published(Current)
    /\ Current.graph = splitter.hash =>
      /\ \A part \in Parts : Done(part) => Whole(Current.heldout[part], splitter.seed)
      /\ splitter.pc = "meta" => Current.heldout[splitter.part].content
                                   = Content(splitter.graph, splitter.seed)

Marked ==
  Published(Current) /\ Current.marker \notin {None, Torn} /\ Current.marker.hash = Current.graph
    => \A part \in Parts : Whole(Current.heldout[part], Current.marker.seed)

\* A table was trained on nothing but one graph.
Pure(table, g) == \A i \in DOMAIN table : table[i][1] = g

\* What carries the hash of a graph, beside that graph, was trained on it.
Sincere(d) ==
  Published(d) =>
    /\ \A kind \in Kinds :
         /\ d.semantic[kind] # None /\ d.semantic[kind].hash = d.graph
              => Pure(d.semantic[kind].table, d.graph)
         /\ d.replaced[kind] # None /\ d.replaced[kind].hash = d.graph
              => Pure(d.replaced[kind].table, d.graph)
    /\ d.ckpt # None /\ d.ckpt.hash = d.graph => Pure(d.ckpt.table, d.graph)

Training ==
  builder # Idle /\ Published(Current) /\ Current.graph = builder.hash =>
    /\ builder.graph \in {None, builder.hash}
    /\ builder.pc \in {"resume", "train"} => builder.graph = builder.hash
    /\ Pure(builder.table, builder.hash)

Checked ==
  preflight.pc = "accepted" => preflight.store # None /\ Pure(preflight.store.table, preflight.hash)

IInv ==
  /\ Typed /\ Numbered /\ Discarding /\ Replaced /\ Absent /\ Prepared /\ Marked
  /\ Sincere(Current) /\ Training /\ Checked

-----------------------------------------------------------------------------
(* Directories: what a change of one part leaves alone *)

LEMMA EmptyIsDirectory == EmptyDirectory \in Directory
BY DEF EmptyDirectory, Directory, Hashes, NoPair

LEMMA MadeIs ==
  ASSUME NEW d \in Directory \cup {None}
  PROVE  /\ Made(d) \in Directory
         /\ d # None => Made(d) = d
         /\ d = None => Made(d) = EmptyDirectory
BY EmptyIsDirectory DEF Made, Exists

LEMMA ChangeCheckpoint ==
  ASSUME NEW d \in Directory, NEW c \in Checkpoint \cup {None},
         NEW e, e = [d EXCEPT !.ckpt = c]
  PROVE  /\ e \in Directory /\ e.ckpt = c
         /\ e.graph = d.graph /\ e.semantic = d.semantic /\ e.replaced = d.replaced
         /\ e.stages = d.stages /\ e.taskDir = d.taskDir /\ e.heldout = d.heldout
         /\ e.marker = d.marker
BY DEF Directory

LEMMA ChangeStages ==
  ASSUME NEW d \in Directory, NEW stages \in SUBSET {"live", "debris"},
         NEW e, e = [d EXCEPT !.stages = stages]
  PROVE  /\ e \in Directory /\ e.stages = stages
         /\ e.graph = d.graph /\ e.semantic = d.semantic /\ e.replaced = d.replaced
         /\ e.ckpt = d.ckpt /\ e.taskDir = d.taskDir /\ e.heldout = d.heldout
         /\ e.marker = d.marker
BY DEF Directory

WithContent(d, part, c) == [d EXCEPT !.heldout[part].content = c]

LEMMA ChangeContent ==
  ASSUME NEW d \in Directory, NEW part \in Parts, NEW c \in Tasks \cup {None},
         NEW e, e = WithContent(d, part, c)
  PROVE  /\ e \in Directory
         /\ e.heldout = [d.heldout EXCEPT ![part] = [content |-> c, meta |-> d.heldout[part].meta]]
         /\ e.graph = d.graph /\ e.semantic = d.semantic /\ e.replaced = d.replaced
         /\ e.ckpt = d.ckpt /\ e.stages = d.stages /\ e.taskDir = d.taskDir
         /\ e.marker = d.marker
<1>. DEFINE pair == [content |-> c, meta |-> d.heldout[part].meta]
            pairs == [d.heldout EXCEPT ![part] = pair]
<1>1. /\ d.heldout \in [Parts -> [content : Tasks \cup {None}, meta : Metadata \cup {None, Torn}]]
      /\ d.heldout[part] \in [content : Tasks \cup {None}, meta : Metadata \cup {None, Torn}]
  BY DEF Directory
<1>2. [d.heldout[part] EXCEPT !.content = c] = pair
  BY <1>1
<1>3. pairs \in [Parts -> [content : Tasks \cup {None}, meta : Metadata \cup {None, Torn}]]
  BY <1>1
<1>4. [d.heldout EXCEPT ![part].content = c] = pairs
  BY <1>1, <1>2
<1>5. e = [d EXCEPT !.heldout = pairs]
  BY <1>4 DEF WithContent
<1>. HIDE DEF pairs
<1>6. /\ e \in Directory /\ e.heldout = pairs
      /\ e.graph = d.graph /\ e.semantic = d.semantic /\ e.replaced = d.replaced
      /\ e.ckpt = d.ckpt /\ e.stages = d.stages /\ e.taskDir = d.taskDir
      /\ e.marker = d.marker
  BY <1>3, <1>5 DEF Directory
<1>. QED
  BY <1>6 DEF pairs

WithMeta(d, part, m) == [d EXCEPT !.heldout[part].meta = m]

LEMMA ChangeMeta ==
  ASSUME NEW d \in Directory, NEW part \in Parts, NEW m \in Metadata \cup {None, Torn},
         NEW e, e = WithMeta(d, part, m)
  PROVE  /\ e \in Directory
         /\ e.heldout = [d.heldout EXCEPT ![part] = [content |-> d.heldout[part].content, meta |-> m]]
         /\ e.graph = d.graph /\ e.semantic = d.semantic /\ e.replaced = d.replaced
         /\ e.ckpt = d.ckpt /\ e.stages = d.stages /\ e.taskDir = d.taskDir
         /\ e.marker = d.marker
<1>. DEFINE pair == [content |-> d.heldout[part].content, meta |-> m]
            pairs == [d.heldout EXCEPT ![part] = pair]
<1>1. /\ d.heldout \in [Parts -> [content : Tasks \cup {None}, meta : Metadata \cup {None, Torn}]]
      /\ d.heldout[part] \in [content : Tasks \cup {None}, meta : Metadata \cup {None, Torn}]
  BY DEF Directory
<1>2. [d.heldout[part] EXCEPT !.meta = m] = pair
  BY <1>1
<1>3. pairs \in [Parts -> [content : Tasks \cup {None}, meta : Metadata \cup {None, Torn}]]
  BY <1>1
<1>4. [d.heldout EXCEPT ![part].meta = m] = pairs
  BY <1>1, <1>2
<1>5. e = [d EXCEPT !.heldout = pairs]
  BY <1>4 DEF WithMeta
<1>. HIDE DEF pairs
<1>6. /\ e \in Directory /\ e.heldout = pairs
      /\ e.graph = d.graph /\ e.semantic = d.semantic /\ e.replaced = d.replaced
      /\ e.ckpt = d.ckpt /\ e.stages = d.stages /\ e.taskDir = d.taskDir
      /\ e.marker = d.marker
  BY <1>3, <1>5 DEF Directory
<1>. QED
  BY <1>6 DEF pairs

LEMMA ChangeMarker ==
  ASSUME NEW d \in Directory, NEW m \in Marker \cup {None, Torn},
         NEW e, e = [d EXCEPT !.marker = m]
  PROVE  /\ e \in Directory /\ e.marker = m
         /\ e.graph = d.graph /\ e.semantic = d.semantic /\ e.replaced = d.replaced
         /\ e.ckpt = d.ckpt /\ e.stages = d.stages /\ e.taskDir = d.taskDir
         /\ e.heldout = d.heldout
BY DEF Directory

NewDirectory(g) == [EmptyDirectory EXCEPT !.graph = g]

LEMMA FreshIs ==
  ASSUME NEW g \in Graphs
  PROVE  LET e == NewDirectory(g)
         IN  /\ e \in Directory /\ e.graph = g
             /\ \A kind \in Kinds : e.semantic[kind] = None /\ e.replaced[kind] = None
             /\ e.ckpt = None /\ e.marker = None
             /\ \A part \in Parts : e.heldout[part] = NoPair
BY EmptyIsDirectory DEF NewDirectory, EmptyDirectory, Directory, Hashes

\* A staging directory that goes or is left behind: the rest of a directory stays.
SameContents(d, e) ==
  /\ e.graph = d.graph /\ e.semantic = d.semantic /\ e.replaced = d.replaced
  /\ e.ckpt = d.ckpt /\ e.taskDir = d.taskDir /\ e.heldout = d.heldout
  /\ e.marker = d.marker

LEMMA StagingIs ==
  ASSUME NEW d \in Directory \cup {None}, NEW e \in {Unstaged(d), Abandoned(d)}
  PROVE  /\ d = None => e = None
         /\ d # None => e \in Directory /\ SameContents(d, e)
<1>1. CASE d = None
  BY <1>1 DEF Unstaged, Abandoned, Exists
<1>2. CASE d # None
  <2>1. d \in Directory /\ d.stages \in SUBSET {"live", "debris"}
    BY <1>2 DEF Directory
  <2>2. CASE e = d
    BY <1>2, <2>1, <2>2 DEF SameContents
  <2>3. CASE e = [d EXCEPT !.stages = @ \ {"live"}]
    <3>1. d.stages \ {"live"} \in SUBSET {"live", "debris"}
      BY <2>1
    <3>. QED
      BY <1>2, <2>1, <2>3, <3>1, ChangeStages DEF SameContents
  <2>4. CASE e = [d EXCEPT !.stages = (@ \ {"live"}) \cup {"debris"}]
    <3>1. (d.stages \ {"live"}) \cup {"debris"} \in SUBSET {"live", "debris"}
      BY <2>1
    <3>. QED
      BY <1>2, <2>1, <2>4, <3>1, ChangeStages DEF SameContents
  <2>. QED
    BY <1>2, <2>2, <2>3, <2>4 DEF Unstaged, Abandoned, Exists
<1>. QED
  BY <1>1, <1>2

-----------------------------------------------------------------------------
(* Types *)

LEMMA InitTyped == Init => Typed
BY CompileAssumption, EmptyIsDirectory
   DEF Init, GraphDirInit, Typed, BuilderTyped, SplitterTyped

LEMMA CompileTyped ==
  ASSUME Typed, CompileNext, UNCHANGED <<builder, splitter, preflight>>
  PROVE  Typed'
<1>. USE DEF Typed
<1>1. ASSUME NEW force \in BOOLEAN, CompileStart(force) PROVE Typed'
  <2>1. compiled + 1 \in Graphs /\ compiled + 1 \in 0 .. MaxCompiles
    BY <1>1, CompileAssumption DEF CompileStart, Graphs
  <2>2. [pc |-> "staged", graph |-> compiled + 1, backup |-> FALSE] \in Compile
    BY <2>1 DEF Compile
  <2>. QED
    BY <1>1, <2>1, <2>2 DEF CompileStart
<1>2. CASE CompileRetain
  <2>1. compiler \in Compile /\ compiler.pc = "staged"
    BY <1>2 DEF CompileRetain, Idle
  <2>2. compiler' \in Compile \cup {Idle}
    BY <1>2, <2>1 DEF CompileRetain, Compile
  <2>. QED
    BY <1>2, <2>2 DEF CompileRetain
<1>3. CASE CompilePublish
  <2>1. compiler \in Compile /\ compiler.pc = "publish"
    BY <1>3 DEF CompilePublish, Idle
  <2>2. compiler' \in Compile \cup {Idle}
    BY <1>3, <2>1 DEF CompilePublish, Compile
  <2>3. out' \in Directory
    BY <1>3, <2>1, FreshIs DEF CompilePublish, Compile, NewDirectory
  <2>. QED
    BY <1>3, <2>2, <2>3 DEF CompilePublish
<1>4. CASE CompilePublishFails
  BY <1>4 DEF CompilePublishFails
<1>5. CASE CompileDiscard
  BY <1>5, EmptyIsDirectory DEF CompileDiscard
<1>6. CASE CompileKilled
  BY <1>6 DEF CompileKilled
<1>. QED
  BY <1>1, <1>2, <1>3, <1>4, <1>5, <1>6 DEF CompileNext

LEMMA ShorterIs ==
  ASSUME NEW a \in Nat, NEW b \in Nat
  PROVE  ShorterOf(a, b) \in 0 .. b
BY DEF ShorterOf

\* A recovery point is well formed when what it is made of is.
LEMMA ProgressIs ==
  ASSUME NEW b, b.hash \in Graphs, b.table \in Seq(Batches), b.losses \in Nat,
         NEW step \in 0 .. Steps
  PROVE  Progress(b, step) \in Checkpoint
BY ShorterIs, SemanticAssumption DEF Progress, Checkpoint

LEMMA BatchTyped ==
  ASSUME Typed, BuildBatch
  PROVE  /\ builder' \in Build
         /\ builder'.table \in Seq(Batches) /\ builder'.losses \in Nat
         /\ builder'.hash = builder.hash /\ builder'.graph = builder.graph
         /\ builder'.kind = builder.kind /\ builder'.pc = "train"
         /\ \/ builder'.table = builder.table
            \/ builder'.table = Append(builder.table, <<builder.graph, builder.step>>)
         /\ out' = out \/ (Exists(out) /\ out' = [out EXCEPT !.ckpt = Progress(builder', builder'.step)])
<1>1. /\ builder \in Build /\ builder.pc = "train" /\ builder.kind = "full"
      /\ builder.step < Steps
      /\ builder.table \in Seq(Batches) /\ builder.losses \in Nat
      /\ builder.step \in 0 .. Steps /\ builder.graph \in Graphs
  BY DEF Typed, BuilderTyped, BuildBatch, Idle, Build
<1>2. builder.step + 1 \in 0 .. Steps /\ <<builder.graph, builder.step>> \in Batches
  BY <1>1, SemanticAssumption DEF Batches
<1>. DEFINE edges == builder.step \in EdgeBatches
            table == IF edges THEN Append(builder.table, <<builder.graph, builder.step>>)
                     ELSE builder.table
            losses == IF edges THEN builder.losses + 1 ELSE builder.losses
<1>3. table \in Seq(Batches) /\ losses \in Nat
  BY <1>1, <1>2
<1>4. builder' = [builder EXCEPT !.step = builder.step + 1, !.table = table, !.losses = losses]
  BY DEF BuildBatch
<1>5. \/ table = builder.table
      \/ table = Append(builder.table, <<builder.graph, builder.step>>)
  OBVIOUS
<1>. HIDE DEF table, losses
<1>6. /\ builder' \in Build /\ builder'.table = table /\ builder'.losses = losses
      /\ builder'.hash = builder.hash /\ builder'.graph = builder.graph
      /\ builder'.kind = builder.kind /\ builder'.pc = "train"
      /\ builder'.step = builder.step + 1
  BY <1>1, <1>2, <1>3, <1>4 DEF Build, Lengths
<1>7. out' = out \/ (Exists(out) /\ out' = [out EXCEPT !.ckpt = Progress(builder', builder'.step)])
  <2>1. CASE UNCHANGED out
    BY <2>1
  <2>2. CASE SaveProgress(builder', builder'.step)
    BY <2>2 DEF SaveProgress
  <2>3. UNCHANGED out \/ SaveProgress(builder', builder'.step)
    BY DEF BuildBatch
  <2>. QED
    BY <2>1, <2>2, <2>3
<1>. QED
  BY <1>3, <1>5, <1>6, <1>7

LEMMA SchedulesTyped ==
  ASSUME NEW g \in Graphs
  PROVE  Schedule(g, Steps) \in Schedules /\ Len(Schedule(g, Steps)) \in Lengths
BY DEF Schedules, Lengths

-----------------------------------------------------------------------------
(* What a tool leaves alone *)

\* A directory that a tool has made at the path.
Blank(d) ==
  /\ d \in Directory /\ d.graph = None
  /\ d.semantic = EmptyDirectory.semantic /\ d.replaced = EmptyDirectory.replaced
  /\ d.ckpt = None /\ d.heldout = EmptyDirectory.heldout /\ d.marker = None

SameSplits(d, e) == e.graph = d.graph /\ e.heldout = d.heldout /\ e.marker = d.marker
SameStores(d, e) ==
  e.graph = d.graph /\ e.semantic = d.semantic /\ e.replaced = d.replaced /\ e.ckpt = d.ckpt

\* The path has a directory of the tool's making, or the one it had.
OutSplits ==
  /\ out = None /\ out' # None => Blank(out')
  /\ out # None => out' # None /\ SameSplits(out, out')
OutStores ==
  /\ out = None /\ out' # None => Blank(out')
  /\ out # None => out' # None /\ SameStores(out, out')
PreviousStays ==
  /\ previous = None => previous' = None
  /\ previous # None => previous' \in Directory /\ SameContents(previous, previous')

LEMMA EmptyIsBlank ==
  /\ Blank(EmptyDirectory)
  /\ \A d \in Directory : SameContents(EmptyDirectory, d) => Blank(d)
BY EmptyIsDirectory DEF Blank, SameContents, EmptyDirectory

LEMMA Unchanged ==
  ASSUME Typed
  PROVE  /\ UNCHANGED out => OutSplits /\ OutStores
         /\ UNCHANGED previous => PreviousStays
BY DEF Typed, OutSplits, OutStores, PreviousStays, SameSplits, SameStores, SameContents

LEMMA BuilderIs ==
  ASSUME Typed, builder.pc # "idle"
  PROVE  /\ builder \in Build /\ builder # Idle
         /\ builder.kind = "full" => builder.table \in Seq(Batches) /\ builder.losses \in Nat
         /\ builder.pc \notin {"output", "graph"} => builder.graph \in Graphs
         /\ builder.pc = "resume" => builder.kind = "full"
BY DEF Typed, BuilderTyped, Idle

\* A build that writes nothing.
LEMMA BuildReads ==
  ASSUME Typed,
         \/ \E kind \in Kinds, replace \in BOOLEAN : BuildStart(kind, replace)
         \/ BuildOutput /\ UNCHANGED out
         \/ BuildGraph
         \/ BuildResume /\ UNCHANGED out
         \/ BuildBounded
  PROVE  BuilderTyped(builder') /\ UNCHANGED <<out, previous, compiler, compiled>>
<1>1. ASSUME NEW kind \in Kinds, NEW replace \in BOOLEAN, BuildStart(kind, replace)
      PROVE  BuilderTyped(builder')
  <2>1. out.graph \in Graphs
    BY <1>1 DEF BuildStart, HasGraph, Exists, Directory, Hashes, Typed
  <2>2. <<>> \in Seq(Batches) /\ 0 \in Lengths /\ 0 \in 0 .. Steps
    BY SemanticAssumption DEF Lengths
  <2>3. builder' \in Build /\ builder'.pc = "output" /\ builder'.table = <<>> /\ builder'.losses = 0
    BY <1>1, <2>1, <2>2 DEF BuildStart, Build, Hashes
  <2>. QED
    BY <2>2, <2>3 DEF BuilderTyped
<1>2. ASSUME BuildOutput, UNCHANGED out PROVE BuilderTyped(builder')
  <2>1. builder \in Build /\ builder.pc = "output"
        /\ (builder.kind = "full" => builder.table \in Seq(Batches) /\ builder.losses \in Nat)
    BY <1>2, BuilderIs DEF BuildOutput
  <2>2. CASE builder' = [builder EXCEPT !.pc = "graph"]
    BY <2>1, <2>2 DEF BuilderTyped, Build
  <2>3. CASE builder' = [builder EXCEPT !.pc = "graph", !.moved = TRUE]
    BY <2>1, <2>3 DEF BuilderTyped, Build
  <2>. QED
    BY <1>2, <2>2, <2>3 DEF BuildOutput, BuilderTyped
<1>3. ASSUME BuildGraph PROVE BuilderTyped(builder')
  <2>1. builder \in Build /\ builder.pc = "graph"
        /\ (builder.kind = "full" => builder.table \in Seq(Batches) /\ builder.losses \in Nat)
    BY <1>3, BuilderIs DEF BuildGraph
  <2>2. out.graph \in Graphs
    BY <1>3 DEF BuildGraph, HasGraph, Exists, Directory, Hashes, Typed
  <2>3. PICK pc \in {"resume", "train"} :
          /\ builder' = [builder EXCEPT !.graph = out.graph, !.pc = pc]
          /\ pc = "resume" => builder.kind = "full"
    BY <1>3 DEF BuildGraph
  <2>. QED
    BY <2>1, <2>2, <2>3 DEF BuilderTyped, Build, Hashes
<1>4. ASSUME BuildResume, UNCHANGED out PROVE BuilderTyped(builder')
  <2>1. /\ builder \in Build /\ builder.pc = "resume" /\ builder.kind = "full"
        /\ builder.table \in Seq(Batches) /\ builder.losses \in Nat /\ builder.graph \in Graphs
    BY <1>4, BuilderIs DEF BuildResume
  <2>2. CASE builder' = Idle
    BY <2>2 DEF BuilderTyped
  <2>3. CASE builder' = [builder EXCEPT !.pc = "train"]
    BY <2>1, <2>3 DEF BuilderTyped, Build
  <2>4. CASE /\ Exists(out) /\ out.ckpt # None
             /\ builder' = [builder EXCEPT !.pc = "train", !.step = out.ckpt.next,
                                           !.table = out.ckpt.table, !.losses = out.ckpt.losses]
    <3>1. out.ckpt \in Checkpoint
      BY <2>4 DEF Directory, Typed, Exists
    <3>2. /\ out.ckpt.next \in 0 .. Steps /\ out.ckpt.table \in Seq(Batches)
          /\ out.ckpt.losses \in Nat
      BY <3>1, SemanticAssumption DEF Checkpoint
    <3>. QED
      BY <2>1, <2>4, <3>2 DEF BuilderTyped, Build, Lengths
  <2>. QED
    BY <1>4, <2>2, <2>3, <2>4 DEF BuildResume
<1>5. ASSUME BuildBounded PROVE BuilderTyped(builder')
  <2>1. /\ builder \in Build /\ builder.pc = "train" /\ builder.kind = "bounded"
        /\ builder.graph \in Graphs
    BY <1>5, BuilderIs DEF BuildBounded
  <2>2. /\ Schedule(builder.graph, Steps) \in Schedules /\ Steps \in 0 .. Steps
        /\ Len(Schedule(builder.graph, Steps)) \in Lengths
    BY <2>1, SchedulesTyped, SemanticAssumption
  <2>. QED
    BY <1>5, <2>1, <2>2 DEF BuildBounded, BuilderTyped, Build
<1>6. UNCHANGED <<out, previous, compiler, compiled>>
  BY DEF BuildStart, BuildOutput, BuildGraph, BuildResume, BuildBounded, compileVars
<1>. QED
  BY <1>1, <1>2, <1>3, <1>4, <1>5, <1>6

\* A build that goes on with the same graph, schedule and artifact.
SameBuild(b, c) ==
  /\ c # Idle /\ c.kind = b.kind /\ c.hash = b.hash /\ c.graph = b.graph /\ c.table = b.table

\* The progress checkpoint is replaced by one of the running build.
CheckpointWritten(table) ==
  /\ out \in Directory /\ out' \in Directory
  /\ SameSplits(out, out') /\ out'.semantic = out.semantic /\ out'.replaced = out.replaced
  /\ out'.ckpt \in Checkpoint
  /\ out'.ckpt.hash = builder.hash /\ out'.ckpt.table = table

LEMMA SaveIs ==
  ASSUME Typed, NEW b, NEW step \in 0 .. Steps, SaveProgress(b, step),
         b.hash = builder.hash, b.hash \in Graphs, b.table \in Seq(Batches), b.losses \in Nat
  PROVE  CheckpointWritten(b.table)
<1>1. out \in Directory /\ out' = [out EXCEPT !.ckpt = Progress(b, step)]
  BY DEF SaveProgress, Typed, Exists
<1>2. Progress(b, step) \in Checkpoint
  BY ProgressIs
<1>3. Progress(b, step).hash = b.hash /\ Progress(b, step).table = b.table
  BY DEF Progress
<1>. QED
  BY <1>1, <1>2, <1>3, ChangeCheckpoint DEF CheckpointWritten, SameSplits

\* --replace moves the artifact aside.
LEMMA OutputEffect ==
  ASSUME Typed, BuildOutput, ~ UNCHANGED out
  PROVE  /\ BuilderTyped(builder') /\ SameBuild(builder, builder')
         /\ builder \in Build /\ builder'.pc = "graph"
         /\ out \in Directory /\ out' \in Directory
         /\ SameSplits(out, out') /\ out'.ckpt = out.ckpt
         /\ out.semantic[builder.kind] # None
         /\ out'.replaced = [out.replaced EXCEPT ![builder.kind] = out.semantic[builder.kind]]
         /\ out'.semantic = [out.semantic EXCEPT ![builder.kind] = None]
         /\ UNCHANGED <<previous, compiler, compiled>>
<1>1. /\ Exists(out) /\ Slot # None
      /\ out' = [out EXCEPT !.replaced[builder.kind] = Slot, !.semantic[builder.kind] = None]
      /\ builder' = [builder EXCEPT !.pc = "graph", !.moved = TRUE]
      /\ UNCHANGED <<previous, compiler, compiled>>
  BY DEF BuildOutput
<1>2. builder \in Build /\ builder.pc = "output" /\ builder.kind \in Kinds
      /\ (builder.kind = "full" => builder.table \in Seq(Batches) /\ builder.losses \in Nat)
  BY BuilderIs DEF BuildOutput, Build
<1>3. out \in Directory /\ Slot \in Store \cup {None} /\ Slot = out.semantic[builder.kind]
  BY <1>1, <1>2 DEF Exists, Slot, Directory, Typed
<1>4. PICK mid : mid = [out EXCEPT !.replaced[builder.kind] = Slot]
  OBVIOUS
<1>5. /\ mid \in Directory /\ mid.graph = out.graph /\ mid.heldout = out.heldout
      /\ mid.marker = out.marker /\ mid.semantic = out.semantic /\ mid.ckpt = out.ckpt
      /\ mid.replaced = [out.replaced EXCEPT ![builder.kind] = Slot]
  BY <1>2, <1>3, <1>4 DEF Directory
<1>6. out' = [mid EXCEPT !.semantic[builder.kind] = None]
  BY <1>1, <1>4
<1>7. /\ out' \in Directory /\ SameSplits(out, out') /\ out'.ckpt = out.ckpt
      /\ out'.semantic = [out.semantic EXCEPT ![builder.kind] = None]
      /\ out'.replaced = mid.replaced
  BY <1>2, <1>5, <1>6 DEF Directory, SameSplits
<1>8. /\ builder' \in Build /\ builder'.pc = "graph" /\ builder'.kind = builder.kind
      /\ builder'.hash = builder.hash /\ builder'.graph = builder.graph
      /\ builder'.table = builder.table /\ builder'.losses = builder.losses
  BY <1>1, <1>2 DEF Build
<1>9. BuilderTyped(builder') /\ SameBuild(builder, builder')
  BY <1>2, <1>8 DEF BuilderTyped, SameBuild, Idle
<1>. QED
  BY <1>1, <1>2, <1>3, <1>5, <1>7, <1>8, <1>9

\* Steps that save progress, or end there.
LEMMA ResumeEffect ==
  ASSUME Typed, BuildResume, ~ UNCHANGED out
  PROVE  /\ BuilderTyped(builder') /\ (builder' = Idle \/ SameBuild(builder, builder'))
         /\ builder' # Idle => builder'.pc = "train"
         /\ builder.pc = "resume"
         /\ CheckpointWritten(builder.table)
         /\ UNCHANGED <<previous, compiler, compiled>>
<1>1. /\ builder \in Build /\ builder.pc = "resume" /\ builder.kind = "full"
      /\ builder.table \in Seq(Batches) /\ builder.losses \in Nat /\ builder.graph \in Graphs
      /\ builder.hash \in Graphs
  BY BuilderIs DEF BuildResume, Build
<1>2. /\ SaveProgress(builder, 0) /\ UNCHANGED <<previous, compiler, compiled>>
      /\ (builder' = Idle \/ builder' = [builder EXCEPT !.pc = "train"])
  BY DEF BuildResume
<1>3. CheckpointWritten(builder.table)
  BY <1>1, <1>2, SaveIs, SemanticAssumption
<1>4. CASE builder' = [builder EXCEPT !.pc = "train"]
  <2>1. /\ builder' \in Build /\ builder'.pc = "train" /\ builder'.kind = builder.kind
        /\ builder'.hash = builder.hash /\ builder'.graph = builder.graph
        /\ builder'.table = builder.table /\ builder'.losses = builder.losses
    BY <1>1, <1>4 DEF Build
  <2>. QED
    BY <1>1, <1>2, <1>3, <2>1 DEF BuilderTyped, SameBuild, Idle
<1>5. CASE builder' = Idle
  BY <1>1, <1>2, <1>3, <1>5 DEF BuilderTyped
<1>. QED
  BY <1>2, <1>4, <1>5

LEMMA BatchEffect ==
  ASSUME Typed, BuildBatch
  PROVE  /\ BuilderTyped(builder') /\ builder' # Idle /\ builder # Idle
         /\ builder'.kind = builder.kind /\ builder'.hash = builder.hash
         /\ builder'.graph = builder.graph /\ builder.pc = "train" /\ builder'.pc = "train"
         /\ builder.table \in Seq(Batches)
         /\ \/ builder'.table = builder.table
            \/ builder'.table = Append(builder.table, <<builder.graph, builder.step>>)
         /\ UNCHANGED out \/ CheckpointWritten(builder'.table)
         /\ UNCHANGED <<previous, compiler, compiled>>
<1>1. /\ builder \in Build /\ builder.hash \in Graphs /\ builder # Idle /\ builder.pc = "train"
      /\ builder.kind = "full" /\ builder.table \in Seq(Batches) /\ builder.graph \in Graphs
  BY BuilderIs DEF BuildBatch, Build
<1>2. BuilderTyped(builder') /\ builder' # Idle
  BY <1>1, BatchTyped DEF BuilderTyped, Idle
<1>3. UNCHANGED out \/ CheckpointWritten(builder'.table)
  <2>1. CASE /\ Exists(out)
             /\ out' = [out EXCEPT !.ckpt = Progress(builder', builder'.step)]
    <3>1. SaveProgress(builder', builder'.step) /\ builder'.step \in 0 .. Steps
      BY <2>1, BatchTyped DEF SaveProgress, Build
    <3>. QED
      BY <1>1, <3>1, BatchTyped, SaveIs
  <2>. QED
    BY <2>1, BatchTyped
<1>. QED
  BY <1>1, <1>2, <1>3, BatchTyped DEF BuildBatch

LEMMA StoppedEffect ==
  ASSUME Typed, BuildStopped
  PROVE  /\ builder' = Idle /\ builder.pc = "train" /\ CheckpointWritten(builder.table)
         /\ UNCHANGED <<previous, compiler, compiled>>
<1>1. /\ builder \in Build /\ builder.hash \in Graphs /\ builder.step \in 0 .. Steps
      /\ builder.table \in Seq(Batches) /\ builder.losses \in Nat
  BY BuilderIs DEF BuildStopped, Build
<1>. QED
  BY <1>1, SaveIs DEF BuildStopped

\* Publication by a staging directory.
LEMMA StageEffect ==
  ASSUME Typed, BuildStage
  PROVE  /\ BuilderTyped(builder') /\ SameBuild(builder, builder') /\ builder'.pc = "rename"
         /\ builder.pc = "train"
         /\ out' \in Directory /\ SameContents(Made(out), out')
         /\ UNCHANGED <<previous, compiler, compiled>>
<1>1. /\ builder \in Build /\ builder.graph \in Graphs /\ builder.pc = "train"
      /\ (builder.kind = "full" => builder.table \in Seq(Batches) /\ builder.losses \in Nat)
  BY BuilderIs DEF BuildStage
<1>2. Made(out) \in Directory
  BY MadeIs DEF Typed
<1>3. out' = [Made(out) EXCEPT !.stages = @ \cup {"live"}]
  BY DEF BuildStage
<1>4. out' \in Directory /\ SameContents(Made(out), out')
  BY <1>2, <1>3 DEF Directory, SameContents
<1>5. BuilderTyped(builder') /\ SameBuild(builder, builder') /\ builder'.pc = "rename"
  <2>1. /\ builder' \in Build /\ builder'.pc = "rename" /\ builder'.kind = builder.kind
        /\ builder'.hash = builder.hash /\ builder'.graph = builder.graph
        /\ builder'.table = builder.table /\ builder'.losses = builder.losses
    BY <1>1 DEF BuildStage, Build
  <2>. QED
    BY <1>1, <2>1 DEF BuilderTyped, SameBuild, Idle
<1>. QED
  BY <1>1, <1>4, <1>5 DEF BuildStage

LEMMA RenameEffect ==
  ASSUME Typed, BuildRename
  PROVE  /\ BuilderTyped(builder') /\ SameBuild(builder, builder')
         /\ builder \in Build /\ builder.pc = "rename" /\ builder'.pc \in {"unlink", "end"}
         /\ out \in Directory /\ out' \in Directory
         /\ SameSplits(out, out') /\ out'.ckpt = out.ckpt /\ out'.replaced = out.replaced
         /\ \E s \in Store : /\ s.hash = builder.hash /\ s.table = builder.table
                             /\ s.withEdges = builder.losses
                             /\ out'.semantic = [out.semantic EXCEPT ![builder.kind] = s]
         /\ UNCHANGED <<previous, compiler, compiled>>
<1>1. /\ builder \in Build /\ builder.graph \in Graphs /\ builder.pc = "rename"
      /\ builder.kind \in Kinds
      /\ (builder.kind = "full" => builder.table \in Seq(Batches) /\ builder.losses \in Nat)
  BY BuilderIs DEF BuildRename, Build
<1>2. PICK s : s = [hash |-> builder.hash, requested |-> Steps,
                    withEdges |-> builder.losses, table |-> builder.table]
  OBVIOUS
<1>3. /\ s \in Store /\ s.hash = builder.hash /\ s.table = builder.table
      /\ s.withEdges = builder.losses
  BY <1>1, <1>2 DEF Build, Store
<1>4. PICK mid : mid = Unstaged(out)
  OBVIOUS
<1>5. out \in Directory /\ mid \in Directory /\ SameContents(out, mid)
  BY <1>4, StagingIs DEF BuildRename, Exists, Typed
<1>6. out' = [mid EXCEPT !.semantic[builder.kind] = s]
  BY <1>2, <1>4 DEF BuildRename
<1>7. /\ out' \in Directory /\ out'.semantic = [mid.semantic EXCEPT ![builder.kind] = s]
      /\ SameSplits(mid, out') /\ out'.ckpt = mid.ckpt /\ out'.replaced = mid.replaced
  BY <1>1, <1>3, <1>5, <1>6 DEF Directory, SameSplits
<1>8. BuilderTyped(builder') /\ SameBuild(builder, builder') /\ builder'.pc \in {"unlink", "end"}
  <2>1. PICK pc \in {"unlink", "end"} : builder' = [builder EXCEPT !.pc = pc]
    BY DEF BuildRename
  <2>2. /\ builder' \in Build /\ builder'.pc = pc /\ builder'.kind = builder.kind
        /\ builder'.hash = builder.hash /\ builder'.graph = builder.graph
        /\ builder'.table = builder.table /\ builder'.losses = builder.losses
    BY <1>1, <2>1 DEF Build
  <2>. QED
    BY <1>1, <2>2 DEF BuilderTyped, SameBuild, Idle
<1>. QED
  BY <1>1, <1>3, <1>5, <1>7, <1>8 DEF BuildRename, SameSplits, SameContents

\* The progress checkpoint goes, then the backup of a replacement.
LEMMA UnlinkEffect ==
  ASSUME Typed, BuildUnlink
  PROVE  /\ BuilderTyped(builder') /\ SameBuild(builder, builder')
         /\ builder.pc = "unlink" /\ builder'.pc = "end"
         /\ out = None => out' = None
         /\ out # None => /\ out' \in Directory /\ SameSplits(out, out') /\ out'.ckpt = None
                          /\ out'.semantic = out.semantic /\ out'.replaced = out.replaced
         /\ UNCHANGED <<previous, compiler, compiled>>
<1>1. /\ builder \in Build /\ builder.graph \in Graphs /\ builder.pc = "unlink"
      /\ (builder.kind = "full" => builder.table \in Seq(Batches) /\ builder.losses \in Nat)
  BY BuilderIs DEF BuildUnlink
<1>2. /\ builder' \in Build /\ builder'.pc = "end" /\ builder'.kind = builder.kind
      /\ builder'.hash = builder.hash /\ builder'.graph = builder.graph
      /\ builder'.table = builder.table /\ builder'.losses = builder.losses
  BY <1>1 DEF BuildUnlink, Build
<1>3. BuilderTyped(builder') /\ SameBuild(builder, builder')
  BY <1>1, <1>2 DEF BuilderTyped, SameBuild, Idle
<1>4. out # None => /\ out' \in Directory /\ SameSplits(out, out') /\ out'.ckpt = None
                    /\ out'.semantic = out.semantic /\ out'.replaced = out.replaced
  BY DEF BuildUnlink, Exists, Typed, Directory, SameSplits
<1>. QED
  BY <1>1, <1>2, <1>3, <1>4 DEF BuildUnlink, Exists

LEMMA EndEffect ==
  ASSUME Typed, BuildEnd
  PROVE  /\ builder' = Idle /\ builder \in Build /\ builder.pc = "end"
         /\ \/ UNCHANGED out
            \/ /\ out \in Directory /\ out' \in Directory /\ SameSplits(out, out')
               /\ out'.ckpt = out.ckpt /\ out'.semantic = out.semantic
               /\ out'.replaced = [out.replaced EXCEPT ![builder.kind] = None]
         /\ UNCHANGED <<previous, compiler, compiled>>
<1>1. builder \in Build /\ builder.pc = "end" /\ builder.kind \in Kinds
  BY BuilderIs DEF BuildEnd, Build
<1>2. CASE Exists(out) /\ builder.moved
  <2>1. out \in Directory /\ out' = [out EXCEPT !.replaced[builder.kind] = None]
    BY <1>2 DEF BuildEnd, Exists, Typed
  <2>. QED
    BY <1>1, <2>1 DEF BuildEnd, Directory, SameSplits
<1>. QED
  BY <1>1, <1>2 DEF BuildEnd

LEMMA BreakEffect ==
  ASSUME Typed, BuildFails \/ BuildKilled
  PROVE  /\ builder' = Idle
         /\ out = None => out' = None
         /\ out # None => out' \in Directory /\ SameContents(out, out')
         /\ PreviousStays
         /\ UNCHANGED <<compiler, compiled>>
<1>1. /\ \/ out' = Unstaged(out) /\ previous' = Unstaged(previous)
         \/ out' = Abandoned(out) /\ previous' = Abandoned(previous)
      /\ builder' = Idle /\ UNCHANGED <<compiler, compiled>>
  BY DEF BuildFails, BuildKilled
<1>2. /\ out = None => out' = None
      /\ out # None => out' \in Directory /\ SameContents(out, out')
  BY <1>1, StagingIs DEF Typed
<1>3. PreviousStays
  BY <1>1, StagingIs DEF Typed, PreviousStays
<1>. QED
  BY <1>1, <1>2, <1>3

\* Whatever a build does, the types hold, and it leaves the splits alone.
LEMMA BuildEffect ==
  ASSUME Typed, BuildNext, UNCHANGED <<splitter, preflight>>
  PROVE  Typed' /\ OutSplits /\ PreviousStays /\ UNCHANGED <<compiler, compiled>>
<1>1. ASSUME UNCHANGED <<out, previous>>, BuilderTyped(builder'), UNCHANGED <<compiler, compiled>>
      PROVE  Typed' /\ OutSplits /\ PreviousStays /\ UNCHANGED <<compiler, compiled>>
  BY <1>1, Unchanged DEF Typed
<1>2. ASSUME BuilderTyped(builder'), UNCHANGED <<previous, compiler, compiled>>,
             out \in Directory, out' \in Directory, SameSplits(out, out')
      PROVE  Typed' /\ OutSplits /\ PreviousStays /\ UNCHANGED <<compiler, compiled>>
  BY <1>2, Unchanged, AbsenceAssumption DEF Typed, OutSplits
<1>3. BuilderTyped(Idle)
  BY DEF BuilderTyped
<1>4. CASE \E kind \in Kinds, replace \in BOOLEAN : BuildStart(kind, replace)
  BY <1>1, <1>4, BuildReads
<1>5. CASE BuildOutput
  BY <1>1, <1>2, <1>5, BuildReads, OutputEffect
<1>6. CASE BuildGraph \/ BuildBounded
  BY <1>1, <1>6, BuildReads
<1>7. CASE BuildResume
  BY <1>1, <1>2, <1>7, BuildReads, ResumeEffect DEF CheckpointWritten
<1>8. CASE BuildBatch
  BY <1>1, <1>2, <1>8, BatchEffect DEF CheckpointWritten
<1>9. CASE BuildStopped
  BY <1>2, <1>3, <1>9, StoppedEffect DEF CheckpointWritten
<1>10. CASE BuildStage
  <2>1. /\ out = None => Blank(out')
        /\ out # None => SameSplits(out, out')
    BY <1>10, StageEffect, MadeIs, EmptyIsBlank DEF SameSplits, SameContents, Typed
  <2>. QED
    BY <1>10, <2>1, StageEffect, Unchanged, AbsenceAssumption DEF Typed, OutSplits
<1>11. CASE BuildRename
  BY <1>2, <1>11, RenameEffect
<1>12. CASE BuildUnlink
  <2>1. CASE out = None
    BY <1>1, <1>12, <2>1, UnlinkEffect
  <2>2. CASE out # None
    BY <1>2, <1>12, <2>2, UnlinkEffect DEF Typed
  <2>. QED
    BY <2>1, <2>2
<1>13. CASE BuildEnd
  BY <1>1, <1>2, <1>3, <1>13, EndEffect
<1>14. CASE BuildFails \/ BuildKilled
  <2>1. out' \in Directory \cup {None} /\ previous' \in Directory \cup {None}
    BY <1>14, BreakEffect DEF Typed, PreviousStays
  <2>2. OutSplits
    BY <1>14, BreakEffect, AbsenceAssumption DEF OutSplits, SameSplits, SameContents
  <2>. QED
    BY <1>3, <1>14, <2>1, <2>2, BreakEffect DEF Typed
<1>. QED
  BY <1>4, <1>5, <1>6, <1>7, <1>8, <1>9, <1>10, <1>11, <1>12, <1>13, <1>14 DEF BuildNext

LEMMA SplitterIs ==
  ASSUME Typed, splitter.pc # "idle"
  PROVE  /\ splitter \in Split /\ splitter # Idle
         /\ splitter.seed \in Seeds /\ splitter.graph \in Graphs /\ splitter.part \in Parts
         /\ splitter.pc # "hash" => splitter.hash \in Graphs
BY DEF Typed, SplitterTyped, Idle, Split

\* The same task files are in work.
SameTask(s, t) ==
  t # Idle /\ t.seed = s.seed /\ t.graph = s.graph /\ t.hash = s.hash

LEMMA AdvanceIs ==
  ASSUME Typed, splitter.pc \in {"check", "meta"}
  PROVE  LET t == SplitAdvance(splitter)
         IN  /\ SplitterTyped(t) /\ SameTask(splitter, t)
             /\ splitter.part = "validation" => t.pc = "check" /\ t.part = "test"
             /\ splitter.part # "validation" => t.pc = "marker" /\ t.part = splitter.part
<1>1. splitter \in Split /\ splitter.hash \in Graphs
  BY SplitterIs
<1>2. CASE splitter.part = "validation"
  <2>1. SplitAdvance(splitter) = [splitter EXCEPT !.pc = "check", !.part = "test"]
    BY <1>2 DEF SplitAdvance
  <2>. QED
    BY <1>1, <1>2, <2>1 DEF SplitterTyped, SameTask, Split, Parts, Idle
<1>3. CASE splitter.part # "validation"
  <2>1. SplitAdvance(splitter) = [splitter EXCEPT !.pc = "marker"]
    BY <1>3 DEF SplitAdvance
  <2>. QED
    BY <1>1, <1>3, <2>1 DEF SplitterTyped, SameTask, Split, Parts, Idle
<1>. QED
  BY <1>2, <1>3

LEMMA SplitStartEffect ==
  ASSUME Typed, NEW seed \in Seeds, SplitStart(seed)
  PROVE  /\ SplitterTyped(splitter') /\ splitter'.pc = "hash" /\ splitter'.hash = None
         /\ UNCHANGED <<out, previous, compiler, compiled>>
<1>1. out.graph \in Graphs
  BY DEF SplitStart, HasGraph, Exists, Directory, Hashes, Typed
<1>2. splitter' = [pc |-> "hash", seed |-> seed, graph |-> out.graph, hash |-> None,
                   part |-> "validation"]
  BY DEF SplitStart
<1>. QED
  BY <1>1, <1>2 DEF SplitStart, SplitterTyped, Split, Hashes, Parts

LEMMA SplitHashEffect ==
  ASSUME Typed, SplitHash
  PROVE  /\ SplitterTyped(splitter')
         /\ \/ splitter' = Idle
            \/ /\ splitter' # Idle /\ out # None /\ out.graph \in Graphs
               /\ splitter'.pc = "check" /\ splitter'.hash = out.graph
               /\ splitter'.part = splitter.part
         /\ UNCHANGED <<out, previous, compiler, compiled>>
<1>1. splitter \in Split
  BY SplitterIs DEF SplitHash
<1>2. CASE HasGraph(out) /\ splitter' = [splitter EXCEPT !.pc = "check", !.hash = out.graph]
  <2>1. out.graph \in Graphs /\ out # None
    BY <1>2 DEF HasGraph, Exists, Directory, Hashes, Typed
  <2>. QED
    BY <1>1, <1>2, <2>1 DEF SplitHash, SplitterTyped, Split, Hashes, compileVars, Idle
<1>3. CASE splitter' = Idle
  BY <1>3 DEF SplitHash, SplitterTyped, compileVars
<1>. QED
  BY <1>2, <1>3 DEF SplitHash

\* A directory as it was, but for the given pair.
PairWritten(part, pair) ==
  /\ out \in Directory /\ out' \in Directory
  /\ SameStores(out, out') /\ out'.marker = out.marker
  /\ out'.heldout = [out.heldout EXCEPT ![part] = pair]

LEMMA SplitCheckEffect ==
  ASSUME Typed, SplitCheck
  PROVE  /\ SplitterTyped(splitter') /\ splitter \in Split /\ splitter.pc = "check"
         /\ \/ /\ out' \in Directory /\ SameTask(splitter, splitter')
               /\ splitter'.pc = "content" /\ splitter'.part = splitter.part
               /\ SameStores(Made(out), out') /\ SameSplits(Made(out), out')
               /\ Made(out).heldout[splitter.part] = NoPair
            \/ UNCHANGED out /\ splitter' = Idle
            \/ /\ UNCHANGED out /\ splitter' = SplitAdvance(splitter)
               /\ Whole(Made(out).heldout[splitter.part], splitter.seed)
         /\ UNCHANGED <<previous, compiler, compiled>>
<1>1. splitter \in Split /\ splitter.pc = "check" /\ splitter.part \in Parts
      /\ splitter.hash \in Graphs
  BY SplitterIs DEF SplitCheck
<1>2. Made(out) \in Directory
  BY MadeIs DEF Typed
<1>. DEFINE pair == Made(out).heldout[splitter.part]
<1>3. CASE /\ pair = NoPair
           /\ splitter' = [splitter EXCEPT !.pc = "content"]
           /\ out' = [Made(out) EXCEPT !.taskDir = TRUE]
  <2>1. out' \in Directory /\ SameStores(Made(out), out') /\ SameSplits(Made(out), out')
    BY <1>2, <1>3 DEF Directory, SameStores, SameSplits
  <2>2. /\ SplitterTyped(splitter') /\ SameTask(splitter, splitter')
        /\ splitter'.pc = "content" /\ splitter'.part = splitter.part
    BY <1>1, <1>3 DEF SplitterTyped, SameTask, Split, Idle
  <2>. QED
    BY <1>1, <1>3, <2>1, <2>2 DEF SplitCheck
<1>4. CASE /\ pair.content # None /\ Describes(pair.meta, splitter.seed, pair.content)
           /\ splitter' = SplitAdvance(splitter) /\ UNCHANGED out
  <2>1. pair \in [content : Tasks \cup {None}, meta : Metadata \cup {None, Torn}]
    BY <1>1, <1>2 DEF Directory
  <2>2. pair.content \in Tasks /\ pair.meta = [seed |-> splitter.seed, sha256 |-> pair.content]
    BY <1>4, <2>1 DEF Describes
  <2>3. pair.meta \in Metadata
    BY <1>1, <2>2 DEF Metadata, Split
  <2>4. Whole(pair, splitter.seed)
    BY <2>2, <2>3, AbsenceAssumption DEF Whole, CompletePair
  <2>. QED
    BY <1>1, <1>4, <2>4, AdvanceIs DEF SplitCheck
<1>5. CASE splitter' = Idle /\ UNCHANGED out
  BY <1>1, <1>5 DEF SplitCheck, SplitterTyped
<1>. QED
  BY <1>3, <1>4, <1>5 DEF SplitCheck

LEMMA SplitContentEffect ==
  ASSUME Typed, SplitContent
  PROVE  /\ SplitterTyped(splitter') /\ SameTask(splitter, splitter')
         /\ splitter.pc = "content" /\ splitter'.pc = "meta" /\ splitter'.part = splitter.part
         /\ splitter.part \in Parts
         /\ PairWritten(splitter.part, [content |-> Content(splitter.graph, splitter.seed),
                                        meta |-> out.heldout[splitter.part].meta])
         /\ UNCHANGED <<previous, compiler, compiled>>
<1>1. splitter \in Split /\ splitter.pc = "content" /\ splitter.part \in Parts
      /\ splitter.hash \in Graphs
  BY SplitterIs DEF SplitContent
<1>2. out \in Directory
  BY DEF SplitContent, HasTaskDir, Exists, Typed
<1>3. PICK c : c = Content(splitter.graph, splitter.seed)
  OBVIOUS
<1>4. c \in Tasks
  BY <1>1, <1>3 DEF Content, Tasks, Split
<1>5. out' = WithContent(out, splitter.part, c)
  BY <1>3 DEF SplitContent, WithContent
<1>6. /\ out' \in Directory /\ SameStores(out, out') /\ out'.marker = out.marker
      /\ out'.heldout = [out.heldout EXCEPT ![splitter.part] =
                           [content |-> c, meta |-> out.heldout[splitter.part].meta]]
  BY <1>1, <1>2, <1>4, <1>5, ChangeContent DEF SameStores
<1>7. /\ SplitterTyped(splitter') /\ SameTask(splitter, splitter')
      /\ splitter'.pc = "meta" /\ splitter'.part = splitter.part
  BY <1>1 DEF SplitContent, SplitterTyped, SameTask, Split, Idle
<1>. QED
  BY <1>1, <1>2, <1>3, <1>6, <1>7 DEF SplitContent, PairWritten

LEMMA SplitMetaEffect ==
  ASSUME Typed, SplitMeta
  PROVE  /\ splitter' = SplitAdvance(splitter)
         /\ splitter.pc = "meta" /\ splitter.part \in Parts
         /\ PairWritten(splitter.part,
              [content |-> out.heldout[splitter.part].content,
               meta |-> [seed |-> splitter.seed, sha256 |-> Content(splitter.graph, splitter.seed)]])
         /\ UNCHANGED <<previous, compiler, compiled>>
<1>1. splitter \in Split /\ splitter.pc = "meta" /\ splitter.part \in Parts
  BY SplitterIs DEF SplitMeta
<1>2. out \in Directory
  BY DEF SplitMeta, HasTaskDir, Exists, Typed
<1>3. PICK m : m = [seed |-> splitter.seed, sha256 |-> Content(splitter.graph, splitter.seed)]
  OBVIOUS
<1>4. m \in Metadata
  BY <1>1, <1>3 DEF Content, Tasks, Metadata, Split
<1>5. out' = WithMeta(out, splitter.part, m)
  BY <1>3 DEF SplitMeta, WithMeta
<1>6. /\ out' \in Directory /\ SameStores(out, out') /\ out'.marker = out.marker
      /\ out'.heldout = [out.heldout EXCEPT ![splitter.part] =
                           [content |-> out.heldout[splitter.part].content, meta |-> m]]
  BY <1>1, <1>2, <1>4, <1>5, ChangeMeta DEF SameStores
<1>. QED
  BY <1>1, <1>2, <1>3, <1>6 DEF SplitMeta, PairWritten

LEMMA SplitMarkerEffect ==
  ASSUME Typed, SplitMarker
  PROVE  /\ splitter' = Idle /\ splitter.pc = "marker"
         /\ out \in Directory /\ out' \in Directory
         /\ SameStores(out, out') /\ out'.heldout = out.heldout
         /\ out'.marker = [hash |-> splitter.hash, seed |-> splitter.seed]
         /\ UNCHANGED <<previous, compiler, compiled>>
<1>1. splitter \in Split /\ splitter.pc = "marker" /\ splitter.hash \in Graphs
  BY SplitterIs DEF SplitMarker
<1>2. out \in Directory
  BY DEF SplitMarker, HasTaskDir, Exists, Typed
<1>3. PICK m : m = [hash |-> splitter.hash, seed |-> splitter.seed]
  OBVIOUS
<1>4. m \in Marker
  BY <1>1, <1>3 DEF Marker, Split
<1>5. out' = [out EXCEPT !.marker = m]
  BY <1>3 DEF SplitMarker
<1>. QED
  BY <1>1, <1>2, <1>3, <1>4, <1>5, ChangeMarker DEF SplitMarker, SameStores

LEMMA SplitKilledEffect ==
  ASSUME Typed, SplitKilled
  PROVE  /\ splitter' = Idle
         /\ \/ UNCHANGED out
            \/ /\ splitter.pc = "meta" /\ splitter.part \in Parts
               /\ PairWritten(splitter.part,
                    [content |-> out.heldout[splitter.part].content, meta |-> Torn])
            \/ /\ out \in Directory /\ out' \in Directory
               /\ SameStores(out, out') /\ out'.heldout = out.heldout /\ out'.marker = Torn
         /\ UNCHANGED <<previous, compiler, compiled>>
<1>1. splitter \in Split /\ splitter.part \in Parts
  BY DEF SplitKilled, Typed, SplitterTyped, Split
<1>2. CASE splitter.pc = "meta" /\ HasTaskDir(out)
           /\ out' = [out EXCEPT !.heldout[splitter.part].meta = Torn]
  <2>1. out \in Directory
    BY <1>2 DEF HasTaskDir, Exists, Typed
  <2>2. Torn \in Metadata \cup {None, Torn} /\ out' = WithMeta(out, splitter.part, Torn)
    BY <1>2 DEF WithMeta
  <2>3. /\ out' \in Directory /\ SameStores(out, out') /\ out'.marker = out.marker
        /\ out'.heldout = [out.heldout EXCEPT ![splitter.part] =
                             [content |-> out.heldout[splitter.part].content, meta |-> Torn]]
    BY <1>1, <2>1, <2>2, ChangeMeta DEF SameStores
  <2>. QED
    BY <1>1, <1>2, <2>1, <2>3 DEF SplitKilled, PairWritten
<1>3. CASE HasTaskDir(out) /\ out' = [out EXCEPT !.marker = Torn]
  <2>1. out \in Directory
    BY <1>3 DEF HasTaskDir, Exists, Typed
  <2>. QED
    BY <1>3, <2>1, ChangeMarker DEF SplitKilled, SameStores
<1>. QED
  BY <1>2, <1>3 DEF SplitKilled

\* Whatever a materialization does, the types hold, and it leaves the stores alone.
LEMMA SplitEffect ==
  ASSUME Typed, SplitNext, UNCHANGED <<builder, preflight>>
  PROVE  Typed' /\ OutStores /\ PreviousStays /\ UNCHANGED <<previous, compiler, compiled>>
<1>1. ASSUME SplitterTyped(splitter'), UNCHANGED <<previous, compiler, compiled>>,
             \/ UNCHANGED out
             \/ out \in Directory /\ out' \in Directory /\ SameStores(out, out')
      PROVE  Typed' /\ OutStores /\ PreviousStays
  BY <1>1, Unchanged, AbsenceAssumption DEF Typed, OutStores
<1>2. SplitterTyped(Idle)
  BY DEF SplitterTyped
<1>3. CASE \E seed \in Seeds : SplitStart(seed)
  BY <1>1, <1>3, SplitStartEffect
<1>4. CASE SplitHash
  BY <1>1, <1>4, SplitHashEffect
<1>5. CASE SplitCheck
  <2>1. CASE UNCHANGED out
    BY <1>1, <1>5, <2>1, SplitCheckEffect
  <2>2. CASE out' \in Directory /\ SameStores(Made(out), out') /\ SameSplits(Made(out), out')
    <3>1. out = None => Blank(out')
      BY <2>2, MadeIs DEF SameStores, SameSplits, Blank, EmptyDirectory, Typed
    <3>2. out # None => SameStores(out, out')
      BY <2>2, MadeIs DEF Typed
    <3>. QED
      BY <1>5, <2>2, <3>1, <3>2, SplitCheckEffect, Unchanged, AbsenceAssumption
         DEF Typed, OutStores
  <2>. QED
    BY <1>5, <2>1, <2>2, SplitCheckEffect
<1>6. CASE SplitContent
  BY <1>1, <1>6, SplitContentEffect DEF PairWritten
<1>7. CASE SplitMeta
  BY <1>1, <1>7, SplitMetaEffect, AdvanceIs DEF PairWritten
<1>8. CASE SplitMarker
  BY <1>1, <1>2, <1>8, SplitMarkerEffect
<1>9. CASE SplitFails
  BY <1>1, <1>2, <1>9 DEF SplitFails, compileVars
<1>10. CASE SplitKilled
  BY <1>1, <1>2, <1>10, SplitKilledEffect DEF PairWritten
<1>. QED
  BY <1>1, <1>3, <1>4, <1>5, <1>6, <1>7, <1>8, <1>9, <1>10,
     SplitStartEffect, SplitHashEffect, SplitCheckEffect, SplitContentEffect, SplitMetaEffect,
     SplitMarkerEffect, SplitKilledEffect DEF SplitNext, SplitFails, compileVars

LEMMA PreflightTyped ==
  ASSUME Typed, PreflightNext, UNCHANGED <<out, previous, compiler, compiled, builder, splitter>>
  PROVE  Typed'
<1>1. ASSUME NEW mode \in Kinds, PreflightStart(mode) PROVE preflight' \in Preflight
  <2>1. out.graph \in Graphs
    BY <1>1 DEF PreflightStart, HasGraph, Exists, Directory, Hashes, Typed
  <2>. QED
    BY <1>1, <2>1 DEF PreflightStart, Preflight, Hashes
<1>2. CASE PreflightSplits
  BY <1>2 DEF PreflightSplits, Typed, Preflight, Idle
<1>3. CASE PreflightStore
  <2>1. preflight \in Preflight
    BY <1>3 DEF PreflightStore, Typed, Idle
  <2>2. out.graph \in Graphs /\ out.semantic[preflight.mode] \in Store
    BY <1>3, <2>1 DEF PreflightStore, HasGraph, Exists, Directory, Hashes, Typed, Preflight
  <2>3. preflight' \in Preflight
    BY <1>3, <2>1, <2>2 DEF PreflightStore, Preflight, Hashes
  <2>. QED
    BY <2>3 DEF Typed
<1>4. CASE PreflightFails
  BY <1>4 DEF PreflightFails, Typed
<1>. QED
  BY <1>1, <1>2, <1>3, <1>4 DEF PreflightNext, Typed

-----------------------------------------------------------------------------
(* The directory at the path *)

\* A new graph is all there is in its directory.
Fresh(d) ==
  /\ d \in Directory /\ d.graph = compiler.graph
  /\ \A kind \in Kinds : d.semantic[kind] = None /\ d.replaced[kind] = None
  /\ d.ckpt = None /\ d.marker = None
  /\ \A part \in Parts : d.heldout[part] = NoPair

\* A compilation shows the path as it was, nothing, or a graph of its own; it
\* never drops a published graph before its successor is there.
LEMMA CompileMoves ==
  ASSUME Typed, Discarding, CompileNext
  PROVE  /\ \/ Current' = Current
            \/ Current' = None
            \/ compiler.pc = "publish" /\ compiler'.pc # "publish" /\ Current' # None /\ Fresh(Current')
         /\ Discarding'
         /\ HasGraph(out) \/ HasGraph(previous) => HasGraph(out)' \/ HasGraph(previous)'
         /\ out # None /\ out' # None => out' = out \/ out = EmptyDirectory
<1>. USE DEF Typed
<1>1. ASSUME NEW force \in BOOLEAN, CompileStart(force)
      PROVE  /\ Current' = Current \/ Current' = None
             /\ Discarding'
             /\ HasGraph(out) \/ HasGraph(previous) => HasGraph(out)' \/ HasGraph(previous)'
             /\ out # None /\ out' # None => out' = out
  <2>1. compiler = Idle /\ compiler'.pc = "staged" /\ compiler'.backup = FALSE
        /\ previous' = previous
    BY <1>1 DEF CompileStart
  <2>2. out' = out \/ (out' = None /\ (out = None \/ out = EmptyDirectory))
    BY <1>1 DEF CompileStart, Exists
  <2>3. Current = out /\ Current' = out'
    BY <2>1 DEF Current, Idle
  <2>4. ~ HasGraph(EmptyDirectory)
    BY DEF HasGraph, EmptyDirectory
  <2>. QED
    BY <2>1, <2>2, <2>3, <2>4 DEF Discarding, HasGraph, Exists
<1>2. ASSUME CompileRetain
      PROVE  /\ Current' = Current
             /\ Discarding'
             /\ HasGraph(out) \/ HasGraph(previous) => HasGraph(out)' \/ HasGraph(previous)'
             /\ out # None /\ out' # None => out' = out
  <2>1. compiler \in Compile /\ compiler.pc = "staged"
    BY <1>2 DEF CompileRetain, Idle
  <2>2. CASE out = None /\ compiler' = [compiler EXCEPT !.pc = "publish"] /\ UNCHANGED <<out, previous>>
    <3>1. compiler'.pc = "publish" /\ compiler'.backup = FALSE
      BY <2>1, <2>2 DEF Compile, Discarding
    <3>. QED
      BY <2>1, <2>2, <3>1 DEF Current, Discarding, HasGraph, Exists
  <2>3. CASE compiler' = Idle /\ UNCHANGED <<out, previous>> /\ out # None
    BY <2>1, <2>3 DEF Current, Discarding, HasGraph, Exists, Idle
  <2>4. CASE /\ out # None /\ previous = None /\ previous' = out /\ out' = None
             /\ compiler' = [compiler EXCEPT !.pc = "publish", !.backup = TRUE]
    <3>1. compiler'.pc = "publish" /\ compiler'.backup = TRUE
      BY <2>1, <2>4 DEF Compile
    <3>. QED
      BY <2>4, <3>1 DEF Current, Discarding, HasGraph, Exists
  <2>5. CASE out = None
    BY <1>2, <2>2, <2>5 DEF CompileRetain, Exists
  <2>6. CASE out # None /\ previous # None
    BY <1>2, <2>3, <2>6 DEF CompileRetain, Exists
  <2>7. CASE out # None /\ previous = None
    BY <1>2, <2>4, <2>7 DEF CompileRetain, Exists
  <2>. QED
    BY <2>5, <2>6, <2>7
<1>3. ASSUME CompilePublish
      PROVE  /\ compiler.pc = "publish" /\ compiler'.pc # "publish" /\ Current' # None
             /\ Fresh(Current')
             /\ Discarding'
             /\ HasGraph(out)'
             /\ out # None => out = EmptyDirectory
  <2>1. compiler \in Compile /\ compiler.pc = "publish" /\ compiler.graph \in Graphs
        /\ compiler.graph # None
    BY <1>3, CompileAssumption DEF CompilePublish, Idle, Compile, Graphs
  <2>2. PICK d : d = NewDirectory(compiler.graph)
    OBVIOUS
  <2>3. out' = d
    BY <1>3, <2>2 DEF CompilePublish, NewDirectory
  <2>6. d \in Directory /\ Fresh(d)
    <3>1. compiler.graph \in Graphs
      BY <2>1
    <3>. QED
      BY <2>2, <3>1, FreshIs DEF Fresh
  <2>7. d # None
    BY <2>6, AbsenceAssumption
  <2>4. compiler'.pc \in {"discard", "idle"}
    BY <1>3, <2>1 DEF CompilePublish, Compile, Idle
  <2>5. Current' = d
    BY <2>3, <2>7 DEF Current
  <2>. QED
    BY <1>3, <2>1, <2>3, <2>4, <2>5, <2>6, <2>7
       DEF CompilePublish, Discarding, Published, HasGraph, Exists, Fresh
<1>4. ASSUME CompilePublishFails
      PROVE  /\ Current' = Current
             /\ Discarding'
             /\ HasGraph(out) \/ HasGraph(previous) => HasGraph(out)' \/ HasGraph(previous)'
             /\ out # None /\ out' # None => out' = out
  <2>1. compiler.pc = "publish" /\ compiler' = Idle /\ compiler'.pc = "idle"
    BY <1>4 DEF CompilePublishFails, Idle
  <2>2. CASE compiler.backup /\ out = None
    <3>1. out' = previous /\ previous' = None
      BY <1>4, <2>2 DEF CompilePublishFails, Exists
    <3>. QED
      BY <2>1, <2>2, <3>1 DEF Current, Discarding, HasGraph, Exists
  <2>3. CASE ~ (compiler.backup /\ out = None)
    <3>1. UNCHANGED <<out, previous>>
      BY <1>4, <2>3 DEF CompilePublishFails, Exists
    <3>. QED
      BY <2>1, <2>3, <3>1 DEF Current, Discarding, HasGraph, Exists
  <2>. QED
    BY <2>2, <2>3
<1>5. ASSUME CompileDiscard
      PROVE  /\ Current' = Current
             /\ Discarding'
             /\ HasGraph(out)' /\ out' = out
  <2>1. /\ compiler.pc = "discard" /\ Published(out) /\ out' = out
        /\ compiler'.pc \in {"discard", "idle"}
    BY <1>5 DEF CompileDiscard, Discarding, Idle
  <2>. QED
    BY <2>1 DEF Current, Discarding, Published, HasGraph, Exists
<1>6. ASSUME CompileKilled
      PROVE  /\ Current' = Current \/ Current' = None
             /\ Discarding'
             /\ UNCHANGED <<out, previous>>
  <2>1. compiler' = Idle /\ compiler'.pc = "idle" /\ UNCHANGED <<out, previous>>
    BY <1>6 DEF CompileKilled, Idle
  <2>. QED
    BY <2>1 DEF Current, Discarding
<1>7. CASE \E force \in BOOLEAN : CompileStart(force)
  BY <1>1, <1>7
<1>8. CASE CompilePublish
  BY <1>3, <1>8 DEF HasGraph, Exists
<1>9. CASE CompileRetain \/ CompilePublishFails \/ CompileDiscard \/ CompileKilled
  BY <1>2, <1>4, <1>5, <1>6, <1>9 DEF HasGraph, Exists
<1>. QED
  BY <1>7, <1>8, <1>9 DEF CompileNext

\* A tool shows the path as it was, but for what it changes, or a new directory.
LEMMA ToolMoves ==
  ASSUME Typed, Typed', PreviousStays, UNCHANGED compiler
  PROVE  /\ OutSplits => \/ Current = None /\ Current' = None
                         \/ Current # None /\ Current' # None /\ SameSplits(Current, Current')
                         \/ Current' # None /\ Blank(Current')
         /\ OutStores => \/ Current = None /\ Current' = None
                         \/ Current # None /\ Current' # None /\ SameStores(Current, Current')
                         \/ Current' # None /\ Blank(Current')
         /\ out' # None => Current' = out'
         /\ out # None => Current = out
         /\ out = None /\ out' = None =>
              \/ Current = None /\ Current' = None
              \/ Current # None /\ Current' # None /\ SameContents(Current, Current')
<1>1. CASE out' # None
  BY <1>1 DEF Current, OutSplits, OutStores
<1>2. CASE out' = None /\ out = None
  <2>1. CASE compiler.pc = "publish" /\ compiler.backup
    <3>1. Current = previous /\ Current' = previous'
      BY <1>2, <2>1 DEF Current
    <3>2. \/ Current = None /\ Current' = None
          \/ Current # None /\ Current' # None /\ SameContents(Current, Current')
      BY <3>1, AbsenceAssumption DEF PreviousStays
    <3>. QED
      BY <1>2, <3>2 DEF SameContents, SameSplits, SameStores
  <2>2. CASE ~ (compiler.pc = "publish" /\ compiler.backup)
    BY <1>2, <2>2 DEF Current
  <2>. QED
    BY <2>1, <2>2
<1>3. CASE out' = None /\ out # None
  BY <1>3 DEF OutSplits, OutStores, Current
<1>. QED
  BY <1>1, <1>2, <1>3

-----------------------------------------------------------------------------
(* Graphs are new when they are published *)

LEMMA KnownGrows ==
  ASSUME Typed, Numbered, CompileNext
  PROVE  /\ Known \subseteq Known'
         /\ compiler.pc \in {"staged", "publish"} => compiler.graph \notin Known
         /\ compiler.pc = "publish" /\ compiler'.pc # "publish" => compiler.graph \in Known'
         /\ Unpublished' => compiler'.graph = compiled'
<1>0. /\ compiled \in Nat /\ (Unpublished => compiler \in Compile /\ compiler.graph \in Nat)
      /\ (compiler.pc = "publish" => compiler.graph \in Graphs)
  BY CompileAssumption DEF Typed, Unpublished, Compile, Graphs, Idle
<1>1. compiler.pc \in {"staged", "publish"} => compiler.graph \notin Known
  BY <1>0 DEF Known, Unpublished
<1>2. ASSUME NEW force \in BOOLEAN, CompileStart(force)
      PROVE  Known \subseteq Known' /\ compiler'.graph = compiled' /\ compiler.pc = "idle"
  <2>1. /\ compiler.pc = "idle" /\ compiler'.pc = "staged"
        /\ compiler'.graph = compiled + 1 /\ compiled' = compiled + 1
    BY <1>2 DEF CompileStart, Idle
  <2>2. \A g \in Graphs : g <= compiled => g < compiled + 1
    BY <1>0 DEF Graphs
  <2>. QED
    BY <2>1, <2>2 DEF Known, Unpublished
<1>3. ASSUME CompileRetain PROVE Known \subseteq Known' /\ (Unpublished' => compiler'.graph = compiled')
  <2>1. /\ compiler \in Compile /\ compiler.pc = "staged" /\ compiled' = compiled
        /\ compiler.graph = compiled
    BY <1>3 DEF CompileRetain, Typed, Idle, Numbered, Unpublished
  <2>2. \/ compiler'.pc = "publish" /\ compiler'.graph = compiler.graph
        \/ compiler'.pc = "idle"
    <3>1. \/ compiler' = Idle \/ compiler' = [compiler EXCEPT !.pc = "publish"]
          \/ compiler' = [compiler EXCEPT !.pc = "publish", !.backup = TRUE]
      BY <1>3 DEF CompileRetain
    <3>2. CASE compiler' = Idle
      BY <3>2 DEF Idle
    <3>3. CASE compiler' = [compiler EXCEPT !.pc = "publish"]
      BY <2>1, <3>3 DEF Compile
    <3>4. CASE compiler' = [compiler EXCEPT !.pc = "publish", !.backup = TRUE]
      BY <2>1, <3>4 DEF Compile
    <3>. QED
      BY <3>1, <3>2, <3>3, <3>4
  <2>3. \A g \in Graphs : g < compiler.graph => g <= compiled
    BY <1>0, <2>1 DEF Graphs
  <2>. QED
    BY <2>1, <2>2, <2>3 DEF Known, Unpublished
<1>4. ASSUME CompilePublish \/ CompilePublishFails
      PROVE  Known \subseteq Known' /\ compiler.graph \in Known' /\ ~ Unpublished'
  <2>1. /\ compiler \in Compile /\ compiler.pc = "publish" /\ compiled' = compiled
        /\ compiler.graph = compiled /\ compiler.graph \in Graphs
    BY <1>0, <1>4 DEF CompilePublish, CompilePublishFails, Numbered, Unpublished
  <2>2. compiler'.pc \in {"discard", "idle"}
    BY <1>4, <2>1 DEF CompilePublish, CompilePublishFails, Compile, Idle
  <2>3. \A g \in Graphs : g < compiler.graph => g <= compiled
    BY <1>0, <2>1 DEF Graphs
  <2>4. compiler.graph <= compiled
    BY <1>0, <2>1
  <2>. QED
    BY <2>1, <2>2, <2>3, <2>4 DEF Known, Unpublished
<1>5. ASSUME CompileDiscard PROVE Known \subseteq Known' /\ ~ Unpublished' /\ compiler.pc # "publish"
  <2>1. compiler.pc = "discard" /\ compiler'.pc \in {"discard", "idle"} /\ compiled' = compiled
    BY <1>5 DEF CompileDiscard, Idle
  <2>. QED
    BY <2>1 DEF Known, Unpublished
<1>6. ASSUME CompileKilled
      PROVE  /\ Known \subseteq Known' /\ ~ Unpublished'
             /\ compiler.pc = "publish" => compiler.graph \in Known'
  <2>1. compiler'.pc = "idle" /\ compiled' = compiled
    BY <1>6 DEF CompileKilled, Idle
  <2>2. Unpublished => compiler.graph = compiled
    BY DEF Numbered
  <2>3. \A g \in Graphs : Unpublished => (g < compiler.graph => g <= compiled)
    BY <1>0, <2>2 DEF Graphs
  <2>4. compiler.pc = "publish" => compiler.graph \in Graphs /\ compiler.graph <= compiled
    BY <1>0, <2>2 DEF Unpublished
  <2>. QED
    BY <2>1, <2>3, <2>4 DEF Known, Unpublished
<1>7. CASE CompileRetain
  <2>1. compiler.pc = "staged"
    BY <1>7 DEF CompileRetain
  <2>. QED
    BY <1>1, <1>3, <1>7, <2>1
<1>. QED
  BY <1>1, <1>2, <1>4, <1>5, <1>6, <1>7 DEF CompileNext

LEMMA ToolNumbered ==
  ASSUME Typed, Numbered, UNCHANGED <<compiler, compiled>>
  PROVE  /\ Known' = Known /\ (Unpublished' => compiler'.graph = compiled')
         /\ out # None /\ out.graph \in Graphs => out.graph \in Known
<1>1. Known' = Known /\ (Unpublished' => compiler'.graph = compiled')
  BY DEF Numbered, Known, Unpublished
<1>2. ASSUME out # None, out.graph \in Graphs PROVE out.graph \in Known
  <2>1. Current = out /\ out.graph # None
    BY <1>2, CompileAssumption DEF Current, Graphs
  <2>. QED
    BY <1>2, <2>1 DEF Numbered, Published
<1>. QED
  BY <1>1, <1>2

-----------------------------------------------------------------------------
(* The compiler preserves the invariant *)

LEMMA CompilePreserves ==
  ASSUME IInv, CompileNext, UNCHANGED <<builder, splitter, preflight>>
  PROVE  IInv'
<1>. USE DEF IInv
<1>1. Typed' /\ Discarding'
  BY CompileTyped, CompileMoves
<1>2. CASE Current' = Current
  <2>1. Numbered'
    BY <1>2, KnownGrows DEF Numbered, Published
  <2>. QED
    BY <1>1, <1>2, <2>1
       DEF Replaced, Absent, Prepared, Done, Marked, Sincere, Training, Checked, Published
<1>3. CASE Current' = None
  <2>1. Numbered'
    BY <1>3, KnownGrows DEF Numbered, Published
  <2>. QED
    BY <1>1, <1>3, <2>1
       DEF Replaced, Absent, Prepared, Marked, Sincere, Training, Checked, Published
<1>4. CASE /\ compiler.pc = "publish" /\ compiler'.pc # "publish"
           /\ Current' # None /\ Fresh(Current')
  <2>1. /\ Current'.graph = compiler.graph /\ compiler.graph \in Known'
        /\ compiler.graph \notin Known
    BY <1>4, KnownGrows DEF Fresh
  <2>2. Numbered'
    BY <1>4, <2>1, KnownGrows DEF Numbered
  <2>3. /\ builder # Idle => Current'.graph # builder.hash
        /\ splitter # Idle /\ splitter.pc # "hash" => Current'.graph # splitter.hash
    BY <2>1, CompileAssumption DEF Numbered, Known, Graphs
  <2>4. Replaced' /\ Sincere(Current')
    <3>1. builder # Idle => builder.kind \in Kinds
      BY DEF Typed, BuilderTyped, Build
    <3>. QED
      BY <1>4, <3>1 DEF Fresh, Replaced, Sincere
  <2>5. Absent'
    <3>1. splitter # Idle => splitter.part \in Parts
      BY DEF Typed, SplitterTyped, Split
    <3>2. NoPair.meta = None
      BY DEF NoPair
    <3>. QED
      BY <1>4, <3>1, <3>2 DEF Fresh, Absent
  <2>6. Prepared' /\ Training'
    BY <2>3 DEF Prepared, Training
  <2>7. Marked' /\ Checked'
    BY <1>4 DEF Fresh, Marked, Checked
  <2>. QED
    BY <1>1, <2>2, <2>4, <2>5, <2>6, <2>7
<1>. QED
  BY <1>2, <1>3, <1>4, CompileMoves

-----------------------------------------------------------------------------
(* build_semantic.py preserves the invariant *)

LEMMA EmptyIsPure == \A g : Pure(<<>>, g)
BY DEF Pure

LEMMA ScheduleIsPure ==
  ASSUME NEW g PROVE Pure(Schedule(g, Steps), g)
BY DEF Schedule, Pure

LEMMA AppendIsPure ==
  ASSUME NEW table \in Seq(Batches), NEW g, Pure(table, g), NEW i,
         Append(table, <<g, i>>) \in Seq(Batches)
  PROVE  Pure(Append(table, <<g, i>>), g)
<1>. SUFFICES ASSUME NEW k \in DOMAIN Append(table, <<g, i>>)
              PROVE  Append(table, <<g, i>>)[k][1] = g
  BY DEF Pure
<1>1. Len(table) \in Nat /\ DOMAIN table = 1 .. Len(table)
      /\ DOMAIN Append(table, <<g, i>>) = 1 .. Len(table) + 1
  OBVIOUS
<1>2. CASE k = Len(table) + 1
  BY <1>1, <1>2
<1>3. CASE k \in DOMAIN table
  BY <1>1, <1>3 DEF Pure
<1>. QED
  BY <1>1, <1>2, <1>3

\* What the training and the stores of a build rest on.
Stored == Replaced /\ Sincere(Current) /\ Training

LEMMA ReadsStored ==
  ASSUME IInv,
         \/ \E kind \in Kinds, replace \in BOOLEAN : BuildStart(kind, replace)
         \/ BuildOutput /\ UNCHANGED out
         \/ BuildGraph
         \/ BuildResume /\ UNCHANGED out
         \/ BuildBounded
  PROVE  Stored'
<1>. USE DEF IInv
<1>1. Current' = Current
  BY BuildReads DEF Current
<1>2. ASSUME NEW kind \in Kinds, NEW replace \in BOOLEAN, BuildStart(kind, replace)
      PROVE  Training' /\ builder'.pc \notin {"unlink", "end"}
  <2>1. /\ builder'.pc = "output" /\ builder'.graph = None /\ builder'.table = <<>>
    BY <1>2 DEF BuildStart
  <2>. QED
    BY <2>1, EmptyIsPure DEF Training
<1>3. ASSUME BuildOutput, UNCHANGED out PROVE Training' /\ builder'.pc \notin {"unlink", "end"}
  <2>1. builder \in Build /\ builder # Idle
    BY <1>3, BuilderIs DEF BuildOutput
  <2>2. CASE builder' = Idle
    BY <2>2 DEF Training, Idle
  <2>3. CASE builder' # Idle
    <3>1. builder' = [builder EXCEPT !.pc = "graph"]
          \/ builder' = [builder EXCEPT !.pc = "graph", !.moved = TRUE]
      BY <1>3, <2>3 DEF BuildOutput
    <3>2. SameBuild(builder, builder') /\ builder'.pc = "graph"
      <4>1. CASE builder' = [builder EXCEPT !.pc = "graph"]
        BY <2>1, <2>3, <4>1 DEF Build, SameBuild
      <4>2. CASE builder' = [builder EXCEPT !.pc = "graph", !.moved = TRUE]
        BY <2>1, <2>3, <4>2 DEF Build, SameBuild
      <4>. QED
        BY <3>1, <4>1, <4>2
    <3>. QED
      BY <1>1, <2>1, <3>2 DEF Training, SameBuild, Published
  <2>. QED
    BY <2>2, <2>3
<1>4. ASSUME BuildGraph PROVE Training' /\ builder'.pc \notin {"unlink", "end"}
  <2>1. builder \in Build /\ builder # Idle /\ HasGraph(out)
    BY <1>4, BuilderIs DEF BuildGraph
  <2>2. Current = out
    BY <2>1 DEF Current, HasGraph, Exists
  <2>3. PICK pc \in {"resume", "train"} : builder' = [builder EXCEPT !.graph = out.graph, !.pc = pc]
    BY <1>4 DEF BuildGraph
  <2>4. /\ builder'.graph = out.graph /\ builder'.hash = builder.hash
        /\ builder'.table = builder.table /\ builder'.pc = pc
    BY <2>1, <2>3 DEF Build
  <2>. QED
    BY <1>1, <2>1, <2>2, <2>4 DEF Training
<1>5. ASSUME BuildResume, UNCHANGED out PROVE Training' /\ builder'.pc \notin {"unlink", "end"}
  <2>1. builder \in Build /\ builder # Idle /\ builder.pc = "resume" /\ Exists(out)
    BY <1>5, BuilderIs DEF BuildResume
  <2>2. Current = out
    BY <2>1 DEF Current, Exists
  <2>3. CASE builder' = Idle
    BY <2>3 DEF Training, Idle
  <2>4. CASE builder' = [builder EXCEPT !.pc = "train"]
    <3>1. SameBuild(builder, builder') /\ builder'.pc = "train"
      BY <2>1, <2>4 DEF Build, SameBuild, Idle
    <3>. QED
      BY <1>1, <2>1, <3>1 DEF Training, SameBuild
  <2>5. CASE /\ out.ckpt # None /\ out.ckpt.hash = builder.hash
             /\ builder' = [builder EXCEPT !.pc = "train", !.step = out.ckpt.next,
                                           !.table = out.ckpt.table, !.losses = out.ckpt.losses]
    <3>1. /\ builder'.graph = builder.graph /\ builder'.hash = builder.hash
          /\ builder'.table = out.ckpt.table /\ builder'.pc = "train"
      BY <2>1, <2>5 DEF Build
    <3>. QED
      BY <1>1, <2>1, <2>2, <2>5, <3>1 DEF Training, Sincere
  <2>. QED
    BY <1>5, <2>3, <2>4, <2>5 DEF BuildResume, Compatible
<1>6. ASSUME BuildBounded PROVE Training' /\ builder'.pc \notin {"unlink", "end"}
  <2>1. builder \in Build /\ builder # Idle /\ builder.pc = "train"
    BY <1>6, BuilderIs DEF BuildBounded
  <2>2. /\ builder'.graph = builder.graph /\ builder'.hash = builder.hash
        /\ builder'.table = Schedule(builder.graph, Steps) /\ builder'.pc = "train"
    BY <1>6, <2>1 DEF BuildBounded, Build
  <2>. QED
    BY <1>1, <2>1, <2>2, ScheduleIsPure DEF Training
<1>7. Training' /\ builder'.pc \notin {"unlink", "end"}
  BY <1>2, <1>3, <1>4, <1>5, <1>6
<1>. QED
  BY <1>1, <1>7 DEF Stored, Replaced

\* A checkpoint of a table that was trained on one graph.
LEMMA CheckpointStored ==
  ASSUME IInv, NEW table, CheckpointWritten(table),
         Published(Current) /\ Current.graph = builder.hash => Pure(table, builder.hash)
  PROVE  Sincere(Current') /\ Current = out /\ Current' = out' /\ out # None /\ out' # None
<1>1. out # None /\ out' # None
  BY AbsenceAssumption DEF CheckpointWritten
<1>2. Current = out /\ Current' = out'
  BY <1>1 DEF Current
<1>. QED
  BY <1>1, <1>2 DEF IInv, Sincere, Published, CheckpointWritten, SameSplits

LEMMA WritesStored ==
  ASSUME IInv,
         \/ BuildOutput /\ ~ UNCHANGED out
         \/ BuildResume /\ ~ UNCHANGED out
         \/ BuildBatch \/ BuildStopped \/ BuildStage \/ BuildRename \/ BuildUnlink \/ BuildEnd
         \/ BuildFails \/ BuildKilled
  PROVE  Stored'
<1>. USE DEF IInv, Stored
<1>0. ASSUME out \in Directory, out' \in Directory
      PROVE  Current = out /\ Current' = out' /\ out # None /\ out' # None
  BY <1>0, AbsenceAssumption DEF Current
<1>1. CASE BuildOutput /\ ~ UNCHANGED out
  <2>1. Current = out /\ Current' = out' /\ out # None /\ out' # None
    BY <1>0, <1>1, OutputEffect
  <2>2. builder.kind \in Kinds /\ builder'.pc = "graph" /\ SameBuild(builder, builder')
        /\ builder # Idle
    BY <1>1, OutputEffect, BuilderIs DEF Build, BuildOutput
  <2>3. Sincere(out')
    <3>1. /\ out \in Directory /\ out'.graph = out.graph /\ out'.ckpt = out.ckpt
          /\ out'.replaced = [out.replaced EXCEPT ![builder.kind] = out.semantic[builder.kind]]
          /\ out'.semantic = [out.semantic EXCEPT ![builder.kind] = None]
      BY <1>1, OutputEffect DEF SameSplits
    <3>2. /\ DOMAIN out.replaced = Kinds /\ DOMAIN out.semantic = Kinds
      BY <3>1 DEF Directory
    <3>3. ASSUME NEW kind \in Kinds
          PROVE  /\ out'.semantic[kind] \in {None, out.semantic[kind]}
                 /\ out'.replaced[kind] \in {out.replaced[kind], out.semantic[kind]}
      BY <3>1, <3>2
    <3>. QED
      BY <2>1, <3>1, <3>3 DEF Sincere, Published
  <2>4. Training'
    BY <1>1, <2>1, <2>2, OutputEffect DEF Training, SameBuild, SameSplits, Published
  <2>. QED
    BY <2>1, <2>2, <2>3, <2>4 DEF Replaced
<1>2. CASE BuildResume /\ ~ UNCHANGED out
  <2>1. builder # Idle /\ builder.pc = "resume"
    BY <1>2, BuilderIs DEF BuildResume
  <2>2. Published(Current) /\ Current.graph = builder.hash => Pure(builder.table, builder.hash)
    BY <2>1 DEF Training
  <2>3. Sincere(Current') /\ Current = out /\ Current' = out' /\ out # None /\ out' # None
        /\ out'.graph = out.graph
    BY <1>2, <2>2, ResumeEffect, CheckpointStored DEF CheckpointWritten, SameSplits
  <2>4. Training'
    BY <1>2, <2>1, <2>3, ResumeEffect DEF Training, SameBuild, Published
  <2>. QED
    BY <1>2, <2>3, <2>4, ResumeEffect DEF Replaced
<1>3. CASE BuildBatch
  <2>1. Published(Current) /\ Current.graph = builder.hash => Pure(builder'.table, builder.hash)
    <3>. SUFFICES ASSUME Published(Current), Current.graph = builder.hash
                  PROVE  Pure(builder'.table, builder.hash)
      OBVIOUS
    <3>1. builder.graph = builder.hash /\ Pure(builder.table, builder.hash)
      BY <1>3, BatchEffect DEF Training
    <3>2. CASE builder'.table = builder.table
      BY <3>1, <3>2
    <3>3. CASE builder'.table = Append(builder.table, <<builder.graph, builder.step>>)
      <4>1. builder'.table \in Seq(Batches)
        BY <1>3, BatchTyped
      <4>. QED
        BY <1>3, <3>1, <3>3, <4>1, AppendIsPure, BatchEffect
    <3>. QED
      BY <1>3, <3>2, <3>3, BatchEffect
  <2>2. /\ Sincere(Current')
        /\ Current' # None => Current # None /\ Current'.graph = Current.graph
    <3>1. CASE UNCHANGED out
      <4>1. Current' = Current
        BY <1>3, <3>1, BatchEffect DEF Current
      <4>. QED
        BY <4>1
    <3>2. CASE CheckpointWritten(builder'.table)
      BY <2>1, <3>2, CheckpointStored DEF CheckpointWritten, SameSplits
    <3>. QED
      BY <1>3, <3>1, <3>2, BatchEffect
  <2>3. Training'
    BY <1>3, <2>1, <2>2, BatchEffect DEF Training, Published
  <2>. QED
    BY <1>3, <2>2, <2>3, BatchEffect DEF Replaced
<1>4. CASE BuildStopped
  <2>1. Published(Current) /\ Current.graph = builder.hash => Pure(builder.table, builder.hash)
    BY <1>4, BuilderIs DEF Training, BuildStopped
  <2>. QED
    BY <1>4, <2>1, StoppedEffect, CheckpointStored DEF Replaced, Training
<1>5. CASE BuildStage
  <2>1. /\ builder # Idle /\ SameBuild(builder, builder') /\ builder'.pc = "rename"
        /\ out' \in Directory /\ SameContents(Made(out), out')
    BY <1>5, StageEffect, BuilderIs DEF BuildStage
  <2>2. Current' = out' /\ out' # None
    BY <2>1, AbsenceAssumption DEF Current
  <2>3. CASE out = None
    <3>1. Blank(out')
      BY <2>1, <2>3, MadeIs, EmptyIsBlank DEF Typed
    <3>2. ~ Published(out')
      BY <3>1 DEF Blank, Published
    <3>. QED
      BY <2>1, <2>2, <3>2 DEF Replaced, Sincere, Training
  <2>4. CASE out # None
    <3>1. SameContents(out, out') /\ Current = out
      BY <2>1, <2>4, MadeIs DEF Typed, Current
    <3>. QED
      BY <2>1, <2>2, <2>4, <3>1
         DEF Replaced, Sincere, Training, SameContents, SameBuild, Published
  <2>. QED
    BY <2>3, <2>4
<1>6. CASE BuildRename
  <2>1. Current = out /\ Current' = out' /\ out # None /\ out' # None
    BY <1>0, <1>6, RenameEffect
  <2>2. builder # Idle /\ builder.kind \in Kinds /\ SameBuild(builder, builder')
        /\ builder.pc = "rename" /\ builder'.pc \in {"unlink", "end"}
    BY <1>6, RenameEffect, BuilderIs DEF Build
  <2>3. PICK s \in Store : /\ s.hash = builder.hash /\ s.table = builder.table
                           /\ out'.semantic = [out.semantic EXCEPT ![builder.kind] = s]
    BY <1>6, RenameEffect
  <2>4. /\ DOMAIN out.semantic = Kinds /\ out'.graph = out.graph
        /\ out'.ckpt = out.ckpt /\ out'.replaced = out.replaced
    BY <1>6, RenameEffect DEF Directory, SameSplits
  <2>5. Sincere(out')
    <3>1. \A kind \in Kinds : out'.semantic[kind] = s \/ out'.semantic[kind] = out.semantic[kind]
      BY <2>3, <2>4
    <3>2. Published(out) /\ out.graph = builder.hash => Pure(s.table, out.graph)
      BY <2>1, <2>2, <2>3 DEF Training
    <3>. QED
      BY <2>1, <2>3, <2>4, <3>1, <3>2 DEF Sincere, Published
  <2>6. out'.semantic[builder.kind] = s /\ s # None
    BY <2>2, <2>3, <2>4, AbsenceAssumption
  <2>7. Training'
    BY <2>1, <2>2, <2>4 DEF Training, SameBuild, Published
  <2>. QED
    BY <2>1, <2>2, <2>5, <2>6, <2>7 DEF Replaced, SameBuild
<1>7. CASE BuildUnlink
  <2>1. builder # Idle /\ SameBuild(builder, builder') /\ builder.pc = "unlink"
        /\ builder'.pc = "end"
    BY <1>7, UnlinkEffect, BuilderIs
  <2>2. CASE out = None
    <3>1. Current' = Current
      BY <1>7, <2>2, UnlinkEffect DEF Current
    <3>. QED
      BY <2>1, <3>1 DEF Replaced, Training, SameBuild
  <2>3. CASE out # None
    <3>1. out \in Directory /\ out' \in Directory
      BY <1>7, <2>3, UnlinkEffect DEF Typed
    <3>2. Current = out /\ Current' = out' /\ out # None /\ out' # None
      BY <1>0, <3>1
    <3>3. /\ out'.graph = out.graph /\ out'.ckpt = None
          /\ out'.semantic = out.semantic /\ out'.replaced = out.replaced
      BY <1>7, <2>3, UnlinkEffect DEF SameSplits
    <3>. QED
      BY <2>1, <3>2, <3>3 DEF Replaced, Sincere, Training, SameBuild, Published
  <2>. QED
    BY <2>2, <2>3
<1>8. CASE BuildEnd
  <2>1. builder' = Idle
    BY <1>8, EndEffect
  <2>2. CASE UNCHANGED out
    <3>1. Current' = Current
      BY <1>8, <2>2, EndEffect DEF Current
    <3>. QED
      BY <2>1, <3>1 DEF Replaced, Training
  <2>3. CASE /\ out \in Directory /\ out' \in Directory /\ SameSplits(out, out')
             /\ out'.ckpt = out.ckpt /\ out'.semantic = out.semantic
             /\ out'.replaced = [out.replaced EXCEPT ![builder.kind] = None]
    <3>1. Current = out /\ Current' = out' /\ out # None /\ out' # None
      BY <1>0, <2>3
    <3>2. \A kind \in Kinds : out'.replaced[kind] \in {None, out.replaced[kind]}
      BY <2>3 DEF Directory
    <3>3. Sincere(out')
      BY <2>3, <3>1, <3>2 DEF Sincere, SameSplits, Published
    <3>. QED
      BY <2>1, <3>1, <3>3 DEF Replaced, Training
  <2>. QED
    BY <1>8, <2>2, <2>3, EndEffect
<1>9. CASE BuildFails \/ BuildKilled
  <2>1. builder' = Idle
    BY <1>9, BreakEffect
  <2>2. \/ Current = None /\ Current' = None
        \/ Current # None /\ Current' # None /\ SameContents(Current, Current')
    <3>1. CASE out = None
      <4>1. out' = None /\ PreviousStays /\ UNCHANGED compiler
        BY <1>9, <3>1, BreakEffect
      <4>. QED
        BY <3>1, <4>1, AbsenceAssumption DEF Current, PreviousStays
    <3>2. CASE out # None
      <4>1. out \in Directory /\ out' \in Directory /\ SameContents(out, out')
        BY <1>9, <3>2, BreakEffect DEF Typed
      <4>. QED
        BY <1>0, <4>1
    <3>. QED
      BY <3>1, <3>2
  <2>. QED
    BY <2>1, <2>2 DEF Replaced, Sincere, Training, SameContents, Published
<1>. QED
  BY <1>1, <1>2, <1>3, <1>4, <1>5, <1>6, <1>7, <1>8, <1>9

\* A build keeps the hash it started with.
LEMMA BuilderHash ==
  ASSUME Typed, BuildNext
  PROVE  \/ builder' = Idle
         \/ builder # Idle /\ builder'.hash = builder.hash
         \/ out # None /\ out.graph \in Graphs /\ builder'.hash = out.graph
<1>1. ASSUME NEW kind \in Kinds, NEW replace \in BOOLEAN, BuildStart(kind, replace)
      PROVE  out # None /\ out.graph \in Graphs /\ builder'.hash = out.graph
  BY <1>1 DEF BuildStart, HasGraph, Exists, Directory, Hashes, Typed
<1>2. CASE builder.pc # "idle"
  <2>1. builder \in Build /\ builder # Idle
    BY <1>2, BuilderIs
  <2>2. CASE BuildOutput
    BY <2>1, <2>2 DEF BuildOutput, Build
  <2>3. CASE BuildGraph \/ BuildBounded
    BY <2>1, <2>3 DEF BuildGraph, BuildBounded, Build
  <2>4. CASE BuildResume
    BY <2>1, <2>4 DEF BuildResume, Build
  <2>5. CASE BuildBatch
    BY <2>1, <2>5, BatchEffect
  <2>6. CASE BuildStopped \/ BuildEnd \/ BuildFails \/ BuildKilled
    BY <2>6 DEF BuildStopped, BuildEnd, BuildFails, BuildKilled
  <2>7. CASE BuildStage \/ BuildRename \/ BuildUnlink
    BY <2>1, <2>7, StageEffect, RenameEffect, UnlinkEffect DEF SameBuild
  <2>. QED
    BY <1>1, <2>2, <2>3, <2>4, <2>5, <2>6, <2>7 DEF BuildNext
<1>3. CASE builder.pc = "idle"
  BY <1>1, <1>3
     DEF BuildNext, BuildOutput, BuildGraph, BuildFails, BuildResume, BuildBatch, BuildStopped,
         BuildBounded, BuildStage, BuildRename, BuildUnlink, BuildEnd, BuildKilled, Idle,
         Typed, BuilderTyped, Build
<1>. QED
  BY <1>2, <1>3

LEMMA BuildPreserves ==
  ASSUME IInv, BuildNext, UNCHANGED <<splitter, preflight>>
  PROVE  IInv'
<1>. USE DEF IInv
<1>1. Typed' /\ OutSplits /\ PreviousStays /\ UNCHANGED <<compiler, compiled>>
  BY BuildEffect
<1>2. \/ Current = None /\ Current' = None
      \/ Current # None /\ Current' # None /\ SameSplits(Current, Current')
      \/ Current' # None /\ Blank(Current')
  BY <1>1, ToolMoves
<1>3. Numbered'
  <2>1. Known' = Known /\ (Unpublished' => compiler'.graph = compiled')
        /\ (out # None /\ out.graph \in Graphs => out.graph \in Known)
    BY <1>1, ToolNumbered
  <2>2. Published(Current') => Current'.graph \in Known
    BY <1>2 DEF Numbered, Published, SameSplits, Blank
  <2>3. builder' # Idle => builder'.hash \in Known
    BY <2>1, BuilderHash DEF Numbered
  <2>. QED
    BY <2>1, <2>2, <2>3 DEF Numbered
<1>4. Discarding'
  BY <1>1 DEF Discarding, OutSplits, SameSplits, Published
<1>5. Stored'
  BY ReadsStored, WritesStored DEF BuildNext
<1>6. Absent'
  <2>1. splitter # Idle => splitter.part \in Parts
    BY DEF Typed, SplitterTyped, Split
  <2>2. Blank(Current') => \A part \in Parts : Current'.heldout[part] = NoPair
    BY DEF Blank, EmptyDirectory
  <2>. QED
    BY <1>2, <2>1, <2>2 DEF Absent, SameSplits, NoPair
<1>7. Prepared'
  BY <1>2 DEF Prepared, Done, SameSplits, Blank, Published
<1>8. Marked'
  BY <1>2 DEF Marked, SameSplits, Blank, Published
<1>. QED
  BY <1>1, <1>3, <1>4, <1>5, <1>6, <1>7, <1>8 DEF Stored, Checked

-----------------------------------------------------------------------------
(* materialize_task_splits.py preserves the invariant *)

LEMMA SplitterHash ==
  ASSUME Typed, SplitNext
  PROVE  \/ splitter' = Idle
         \/ splitter'.hash = None
         \/ splitter # Idle /\ splitter'.hash = splitter.hash
         \/ out # None /\ out.graph \in Graphs /\ splitter'.hash = out.graph
<1>1. CASE \E seed \in Seeds : SplitStart(seed)
  BY <1>1, SplitStartEffect
<1>2. CASE SplitHash
  BY <1>2, SplitHashEffect
<1>3. CASE SplitCheck
  <2>1. splitter # Idle
    BY <1>3, SplitterIs DEF SplitCheck
  <2>. QED
    BY <1>3, <2>1, SplitCheckEffect, AdvanceIs DEF SameTask
<1>4. CASE SplitContent \/ SplitMeta
  <2>1. splitter # Idle
    BY <1>4, SplitterIs DEF SplitContent, SplitMeta
  <2>. QED
    BY <1>4, <2>1, SplitContentEffect, SplitMetaEffect, AdvanceIs DEF SameTask
<1>5. CASE SplitMarker \/ SplitFails \/ SplitKilled
  BY <1>5 DEF SplitMarker, SplitFails, SplitKilled
<1>. QED
  BY <1>1, <1>2, <1>3, <1>4, <1>5 DEF SplitNext

\* What a materialization rests on.
Drawn == Absent /\ Prepared /\ Marked

LEMMA SplitDrawn ==
  ASSUME IInv, SplitNext, UNCHANGED <<builder, preflight>>
  PROVE  Drawn'
<1>. USE DEF IInv, Drawn
<1>0. /\ Typed' /\ UNCHANGED <<previous, compiler, compiled>>
      /\ splitter # Idle => splitter.part \in Parts
  BY SplitEffect DEF Typed, SplitterTyped, Split
<1>1. ASSUME UNCHANGED out PROVE Current' = Current
  BY <1>0, <1>1 DEF Current
<1>2. ASSUME out \in Directory, out' \in Directory
      PROVE  Current = out /\ Current' = out' /\ out # None /\ out' # None
  BY <1>2, AbsenceAssumption DEF Current
<1>3. CASE \E seed \in Seeds : SplitStart(seed)
  BY <1>1, <1>3, SplitStartEffect DEF Absent, Prepared, Marked
<1>4. CASE SplitHash
  <2>1. Current' = Current
    BY <1>1, <1>4, SplitHashEffect
  <2>2. CASE splitter' = Idle
    BY <2>1, <2>2 DEF Absent, Prepared, Marked
  <2>3. CASE splitter'.pc = "check" /\ splitter'.part = splitter.part
    <3>1. splitter.part = "validation"
      BY <1>4 DEF SplitHash, Typed, SplitterTyped, Idle
    <3>2. \A part \in Parts : ~ Done(part)'
      BY <2>3, <3>1 DEF Done
    <3>. QED
      BY <2>1, <2>3, <3>2 DEF Absent, Prepared, Marked
  <2>. QED
    BY <1>4, <2>2, <2>3, SplitHashEffect
<1>5. CASE SplitCheck
  <2>1. splitter.pc = "check" /\ splitter # Idle /\ splitter.part \in Parts
    BY <1>5, SplitterIs DEF SplitCheck
  <2>2. CASE UNCHANGED out /\ splitter' = Idle
    BY <1>1, <2>2 DEF Absent, Prepared, Marked
  <2>3. CASE /\ UNCHANGED out /\ splitter' = SplitAdvance(splitter)
             /\ Whole(Made(out).heldout[splitter.part], splitter.seed)
    <3>1. SplitterTyped(splitter') /\ SameTask(splitter, splitter')
          /\ (splitter.part = "validation" => splitter'.pc = "check" /\ splitter'.part = "test")
          /\ (splitter.part # "validation" => splitter'.pc = "marker")
      BY <2>1, <2>3, AdvanceIs
    <3>2. Current' = Current
      BY <1>1, <2>3
    <3>3. out # None
      <4>1. Made(None).heldout[splitter.part].content = None
        BY <2>1, MadeIs DEF EmptyDirectory, NoPair
      <4>. QED
        BY <2>3, <4>1 DEF Whole, CompletePair
    <3>4. Current = out /\ Made(out) = out
      BY <3>3, MadeIs DEF Current, Typed
    <3>5. Absent' /\ Marked'
      BY <2>1, <3>1, <3>2 DEF Absent, Marked
    <3>6. Prepared'
      <4>. SUFFICES ASSUME Published(Current), Current.graph = splitter.hash
                    PROVE  \A part \in Parts : Done(part)' => Whole(Current.heldout[part], splitter.seed)
        BY <3>1, <3>2 DEF Prepared, SameTask
      <4>1. \A part \in Parts : Done(part)' => Done(part) \/ part = splitter.part
        BY <2>1, <3>1 DEF Done, Parts
      <4>. QED
        BY <2>1, <2>3, <3>4, <4>1 DEF Prepared
    <3>. QED
      BY <3>5, <3>6
  <2>4. CASE /\ out' \in Directory /\ SameTask(splitter, splitter')
             /\ splitter'.pc = "content" /\ splitter'.part = splitter.part
             /\ SameStores(Made(out), out') /\ SameSplits(Made(out), out')
             /\ Made(out).heldout[splitter.part] = NoPair
    <3>1. Current' = out' /\ out' # None
      BY <2>4, AbsenceAssumption DEF Current
    <3>2. Absent'
      BY <2>1, <2>4, <3>1 DEF Absent, SameSplits
    <3>3. CASE out = None
      <4>1. out'.graph = None
        BY <2>4, <3>3, MadeIs DEF SameSplits, EmptyDirectory
      <4>. QED
        BY <3>1, <3>2, <4>1 DEF Prepared, Marked, Published
    <3>4. CASE out # None
      <4>1. Current = out /\ SameSplits(out, out')
        BY <2>4, <3>4, MadeIs DEF Current, Typed
      <4>2. \A part \in Parts : Done(part)' => Done(part)
        BY <2>1, <2>4 DEF Done
      <4>3. Prepared'
        BY <2>1, <2>4, <3>1, <3>4, <4>1, <4>2 DEF Prepared, SameTask, SameSplits, Published
      <4>. QED
        BY <3>1, <3>2, <3>4, <4>1, <4>3 DEF Marked, SameSplits, Published
    <3>. QED
      BY <3>3, <3>4
  <2>. QED
    BY <1>5, <2>2, <2>3, <2>4, SplitCheckEffect
<1>6. CASE SplitFails
  <2>1. splitter' = Idle /\ UNCHANGED out
    BY <1>6 DEF SplitFails, compileVars
  <2>2. Current' = Current
    BY <1>1, <2>1
  <2>. QED
    BY <2>1, <2>2 DEF Absent, Prepared, Marked
<1>7. ASSUME NEW part \in Parts, NEW pair, PairWritten(part, pair)
      PROVE  /\ Current = out /\ Current' = out' /\ out # None /\ out' # None
             /\ out'.heldout[part] = pair
             /\ \A other \in Parts : other # part => out'.heldout[other] = out.heldout[other]
             /\ out'.graph = out.graph /\ out'.marker = out.marker
  <2>1. DOMAIN out.heldout = Parts
    BY <1>7 DEF PairWritten, Directory
  <2>. QED
    BY <1>2, <1>7, <2>1 DEF PairWritten, SameStores
<1>8. CASE SplitContent
  <2>1. /\ splitter # Idle /\ splitter.pc = "content" /\ splitter'.pc = "meta"
        /\ splitter.part \in Parts /\ splitter'.part = splitter.part
        /\ SameTask(splitter, splitter')
    BY <1>8, SplitContentEffect, SplitterIs
  <2>2. PICK pair : pair = [content |-> Content(splitter.graph, splitter.seed),
                            meta |-> out.heldout[splitter.part].meta]
    OBVIOUS
  <2>3. PairWritten(splitter.part, pair)
    BY <1>8, <2>2, SplitContentEffect
  <2>4. /\ Current = out /\ Current' = out' /\ out # None /\ out' # None
        /\ out'.heldout[splitter.part] = pair
        /\ \A other \in Parts : other # splitter.part => out'.heldout[other] = out.heldout[other]
        /\ out'.graph = out.graph /\ out'.marker = out.marker
    BY <1>7, <2>1, <2>3
  <2>5. out.heldout[splitter.part] = NoPair
    BY <2>1, <2>4 DEF Absent
  <2>6. /\ pair.content = Content(splitter.graph, splitter.seed) /\ pair.meta = None
        /\ \A seed : ~ Whole(NoPair, seed)
    BY <2>2, <2>5 DEF NoPair, Whole, CompletePair
  <2>7. Absent'
    BY <2>1, <2>4, <2>6 DEF Absent
  <2>8. Marked'
    BY <2>1, <2>4, <2>5, <2>6 DEF Marked, Published
  <2>9. Prepared'
    <3>1. \A part \in Parts : Done(part)' => Done(part) /\ part # splitter.part
      BY <2>1 DEF Done
    <3>. QED
      BY <2>1, <2>4, <2>6, <3>1 DEF Prepared, SameTask, Published
  <2>. QED
    BY <2>7, <2>8, <2>9
<1>9. CASE SplitMeta
  <2>1. /\ splitter # Idle /\ splitter.pc = "meta" /\ splitter.part \in Parts
        /\ splitter.seed \in Seeds /\ splitter.graph \in Graphs
        /\ splitter' = SplitAdvance(splitter)
    BY <1>9, SplitMetaEffect, SplitterIs
  <2>2. /\ SameTask(splitter, splitter')
        /\ splitter.part = "validation" => splitter'.pc = "check" /\ splitter'.part = "test"
        /\ splitter.part # "validation" => splitter'.pc = "marker"
    BY <2>1, AdvanceIs
  <2>3. PICK meta : meta = [seed |-> splitter.seed, sha256 |-> Content(splitter.graph, splitter.seed)]
    OBVIOUS
  <2>4. PICK pair : pair = [content |-> out.heldout[splitter.part].content, meta |-> meta]
    OBVIOUS
  <2>5. PairWritten(splitter.part, pair)
    BY <1>9, <2>3, <2>4, SplitMetaEffect
  <2>6. /\ Current = out /\ Current' = out' /\ out # None /\ out' # None
        /\ out'.heldout[splitter.part] = pair
        /\ \A other \in Parts : other # splitter.part => out'.heldout[other] = out.heldout[other]
        /\ out'.graph = out.graph /\ out'.marker = out.marker
    BY <1>7, <2>1, <2>5
  <2>7. out.heldout[splitter.part].meta = None
    BY <2>1, <2>6 DEF Absent
  <2>8. Absent'
    BY <2>2, <2>6 DEF Absent
  <2>9. Marked'
    <3>1. \A seed : ~ Whole(out.heldout[splitter.part], seed)
      BY <2>7 DEF Whole, CompletePair
    <3>. QED
      BY <2>1, <2>6, <3>1 DEF Marked, Published
  <2>10. Prepared'
    <3>. SUFFICES ASSUME Published(out), out.graph = splitter.hash
                  PROVE  \A part \in Parts : Done(part)' => Whole(out'.heldout[part], splitter.seed)
      BY <2>2, <2>6 DEF Prepared, SameTask, Published
    <3>1. out.heldout[splitter.part].content = Content(splitter.graph, splitter.seed)
      BY <2>1, <2>6 DEF Prepared
    <3>2. Content(splitter.graph, splitter.seed) \in Tasks
      BY <2>1 DEF Content, Tasks
    <3>3. meta \in Metadata /\ meta.seed = splitter.seed
          /\ meta.sha256 = Content(splitter.graph, splitter.seed)
      BY <2>1, <2>3, <3>2 DEF Metadata
    <3>4. pair.content = Content(splitter.graph, splitter.seed) /\ pair.meta = meta
      BY <2>4, <3>1
    <3>5. Whole(pair, splitter.seed)
      BY <3>2, <3>3, <3>4, AbsenceAssumption DEF Whole, CompletePair
    <3>6. \A part \in Parts : Done(part)' => Done(part) \/ part = splitter.part
      BY <2>1, <2>2 DEF Done, Parts
    <3>. QED
      BY <2>1, <2>6, <3>5, <3>6 DEF Prepared
  <2>. QED
    BY <2>8, <2>9, <2>10
<1>10. CASE SplitMarker
  <2>1. /\ splitter # Idle /\ splitter.pc = "marker" /\ splitter' = Idle
    BY <1>10, SplitMarkerEffect, SplitterIs
  <2>2. PICK marker : marker = [hash |-> splitter.hash, seed |-> splitter.seed]
    OBVIOUS
  <2>3. /\ out \in Directory /\ out' \in Directory /\ out'.graph = out.graph
        /\ out'.heldout = out.heldout /\ out'.marker = marker
    BY <1>10, <2>2, SplitMarkerEffect DEF SameStores
  <2>4. Current = out /\ Current' = out'
    BY <1>2, <2>3
  <2>5. marker.hash = splitter.hash /\ marker.seed = splitter.seed
    BY <2>2
  <2>6. ASSUME out'.graph # None, marker.hash = out.graph
        PROVE  \A part \in Parts : Whole(out.heldout[part], splitter.seed)
    <3>1. Published(Current) /\ Current.graph = splitter.hash
      BY <1>2, <2>3, <2>4, <2>5, <2>6 DEF Published
    <3>2. \A part \in Parts : Done(part)
      BY <2>1 DEF Done
    <3>. QED
      BY <2>1, <2>4, <3>1, <3>2 DEF Prepared
  <2>7. Marked'
    <3>. SUFFICES ASSUME Published(out'), out'.marker.hash = out'.graph
                  PROVE  \A part \in Parts : Whole(out'.heldout[part], out'.marker.seed)
      BY <2>4 DEF Marked
    <3>. QED
      BY <2>3, <2>5, <2>6 DEF Published
  <2>. QED
    BY <2>1, <2>7 DEF Absent, Prepared
<1>11. CASE SplitKilled
  <2>1. splitter # Idle /\ splitter' = Idle
    BY <1>11, SplitKilledEffect DEF SplitKilled
  <2>2. Absent' /\ Prepared'
    BY <2>1 DEF Absent, Prepared
  <2>3. CASE UNCHANGED out
    <3>1. Current' = Current
      BY <1>1, <2>3
    <3>. QED
      BY <2>2, <3>1 DEF Marked
  <2>4. CASE /\ splitter.pc = "meta" /\ splitter.part \in Parts
             /\ PairWritten(splitter.part,
                  [content |-> out.heldout[splitter.part].content, meta |-> Torn])
    <3>1. /\ Current = out /\ Current' = out' /\ out # None
          /\ \A other \in Parts : other # splitter.part => out'.heldout[other] = out.heldout[other]
          /\ out'.graph = out.graph /\ out'.marker = out.marker
      BY <1>7, <2>4
    <3>2. \A seed : ~ Whole(out.heldout[splitter.part], seed)
      BY <2>1, <2>4, <3>1 DEF Absent, Whole, CompletePair
    <3>3. Marked'
      BY <2>4, <3>1, <3>2 DEF Marked, Published
    <3>. QED
      BY <2>2, <3>3
  <2>5. CASE /\ out \in Directory /\ out' \in Directory
             /\ SameStores(out, out') /\ out'.heldout = out.heldout /\ out'.marker = Torn
    <3>1. Current' = out'
      BY <1>2, <2>5
    <3>. QED
      BY <2>2, <2>5, <3>1 DEF Marked
  <2>. QED
    BY <1>11, <2>3, <2>4, <2>5, SplitKilledEffect
<1>. QED
  BY <1>3, <1>4, <1>5, <1>6, <1>8, <1>9, <1>10, <1>11 DEF SplitNext

LEMMA SplitPreserves ==
  ASSUME IInv, SplitNext, UNCHANGED <<builder, preflight>>
  PROVE  IInv'
<1>. USE DEF IInv
<1>1. Typed' /\ OutStores /\ PreviousStays /\ UNCHANGED <<compiler, compiled>>
  BY SplitEffect
<1>2. \/ Current = None /\ Current' = None
      \/ Current # None /\ Current' # None /\ SameStores(Current, Current')
      \/ Current' # None /\ Blank(Current')
  BY <1>1, ToolMoves
<1>3. Numbered'
  <2>1. Known' = Known /\ (Unpublished' => compiler'.graph = compiled')
        /\ (out # None /\ out.graph \in Graphs => out.graph \in Known)
    BY <1>1, ToolNumbered
  <2>2. Published(Current') => Current'.graph \in Known
    BY <1>2 DEF Numbered, Published, SameStores, Blank
  <2>3. splitter' # Idle => splitter'.hash \in Known \cup {None}
    BY <2>1, SplitterHash DEF Numbered
  <2>. QED
    BY <2>1, <2>2, <2>3 DEF Numbered
<1>4. Discarding'
  BY <1>1 DEF Discarding, OutStores, SameStores, Published
<1>5. Replaced'
  <2>1. builder # Idle => builder.kind \in Kinds
    BY DEF Typed, BuilderTyped, Build
  <2>2. Blank(Current') => \A kind \in Kinds : Current'.replaced[kind] = None
    BY DEF Blank, EmptyDirectory
  <2>. QED
    BY <1>2, <2>1, <2>2 DEF Replaced, SameStores
<1>6. Sincere(Current')
  BY <1>2 DEF Sincere, SameStores, Blank, Published
<1>7. Training'
  BY <1>2 DEF Training, SameStores, Blank, Published
<1>8. Drawn'
  BY SplitDrawn
<1>. QED
  BY <1>1, <1>3, <1>4, <1>5, <1>6, <1>7, <1>8 DEF Drawn, Checked

-----------------------------------------------------------------------------
(* production_preflight.py preserves the invariant *)

LEMMA PreflightPreserves ==
  ASSUME IInv, PreflightNext,
         UNCHANGED <<out, previous, compiler, compiled, builder, splitter>>
  PROVE  IInv'
<1>. USE DEF IInv
<1>1. Typed'
  BY PreflightTyped
<1>2. Current' = Current
  BY DEF Current
<1>3. Numbered' /\ Discarding' /\ Replaced' /\ Absent' /\ Prepared' /\ Marked'
      /\ Sincere(Current') /\ Training'
  BY <1>2 DEF Numbered, Known, Unpublished, Discarding, Replaced, Absent, Prepared, Done,
              Marked, Training
<1>4. Checked'
  <2>1. ASSUME NEW mode \in Kinds, PreflightStart(mode) PROVE Checked'
    BY <2>1 DEF PreflightStart, Checked
  <2>2. CASE PreflightSplits
    BY <2>2 DEF PreflightSplits, Checked, Typed, Preflight, Idle
  <2>3. CASE PreflightStore
    <3>1. preflight \in Preflight /\ preflight.mode \in Kinds
      BY <2>3 DEF PreflightStore, Typed, Preflight, Idle
    <3>2. Published(out) /\ Current = out
      BY <2>3 DEF PreflightStore, HasGraph, Exists, Published, Current
    <3>3. /\ out.semantic[preflight.mode] # None
          /\ Pure(out.semantic[preflight.mode].table, out.graph)
      BY <2>3, <3>1, <3>2 DEF PreflightStore, Sincere
    <3>4. preflight'.store = out.semantic[preflight.mode] /\ preflight'.hash = out.graph
      BY <2>3, <3>1 DEF PreflightStore, Preflight
    <3>. QED
      BY <3>3, <3>4 DEF Checked
  <2>4. CASE PreflightFails
    BY <2>4 DEF PreflightFails, Checked, Idle
  <2>. QED
    BY <2>1, <2>2, <2>3, <2>4 DEF PreflightNext
<1>. QED
  BY <1>1, <1>3, <1>4

-----------------------------------------------------------------------------
(* The invariant *)

LEMMA InitIInv == Init => IInv
<1>. SUFFICES ASSUME Init PROVE IInv
  OBVIOUS
<1>1. /\ out \in {None, EmptyDirectory} /\ compiler = Idle /\ builder = Idle
      /\ splitter = Idle /\ preflight = Idle
  BY DEF Init, GraphDirInit
<1>2. ~ Published(Current)
  BY <1>1 DEF Current, Published, EmptyDirectory, Idle
<1>3. Numbered /\ Discarding
  BY <1>1, <1>2 DEF Numbered, Discarding, Unpublished, Idle
<1>. QED
  BY <1>1, <1>2, <1>3, InitTyped
     DEF IInv, Replaced, Absent, Prepared, Marked, Sincere, Training, Checked, Idle

LEMMA NextIInv == IInv /\ [Next]_vars => IInv'
<1>. SUFFICES ASSUME IInv, [Next]_vars PROVE IInv'
  OBVIOUS
<1>1. CASE CompileNext /\ UNCHANGED <<builder, splitter, preflight>>
  BY <1>1, CompilePreserves
<1>2. CASE BuildNext /\ UNCHANGED <<splitter, preflight>>
  BY <1>2, BuildPreserves
<1>3. CASE SplitNext /\ UNCHANGED <<builder, preflight>>
  BY <1>3, SplitPreserves
<1>4. CASE PreflightNext /\ UNCHANGED <<out, previous, compiler, compiled, kills, builder, splitter>>
  BY <1>4, PreflightPreserves
<1>5. CASE UNCHANGED vars
  BY <1>5
     DEF vars, IInv, Typed, Numbered, Known, Unpublished, Current, Discarding, Replaced, Absent,
         Prepared, Done, Marked, Training, Checked
<1>. QED
  BY <1>1, <1>2, <1>3, <1>4, <1>5 DEF Next

(* preprocess.py, build_semantic.py, materialize_task_splits.py and
   production_preflight.py keep the inductive invariant, however they interleave and
   wherever they are killed. *)
THEOREM Inductive == Spec => []IInv
BY InitIInv, NextIInv, PTL DEF Spec

-----------------------------------------------------------------------------
(* What follows from it *)

(* production_preflight.py:63-109: an accepting preflight of a graph that was not
   replaced meanwhile has seen a store trained on that very graph. *)
THEOREM PreflightAlwaysSound == Spec => []PreflightSound
<1>1. IInv => PreflightSound
  BY DEF IInv, Checked, PreflightSound, Accepted, Pure
<1>. QED
  BY <1>1, Inductive, PTL

(* materialize_task_splits.py:47-53: the marker stands beside complete splits. *)
THEOREM MarkerAlwaysLast == Spec => []MarkerIsLast
<1>1. IInv => MarkerIsLast
  BY DEF IInv, Marked, MarkerIsLast, HasGraph, Exists, Published, Current, Whole
<1>. QED
  BY <1>1, Inductive, PTL

Kept(kind) ==
  HasGraph(out) /\ HasGraph(out') /\ out.graph = out'.graph /\ Holds(out, kind) => Holds(out', kind)

\* A directory whose stores stay has what it had.
LEMMA StoresKept ==
  ASSUME NEW kind,
         HasGraph(out) => out'.semantic = out.semantic /\ out'.replaced = out.replaced
  PROVE  Kept(kind)
BY DEF Kept, Holds

\* A compilation that leaves a graph at the path leaves the one that was there.
LEMMA CompileKeeps ==
  ASSUME Typed, Discarding, CompileNext, HasGraph(out), HasGraph(out')
  PROVE  out' = out
<1>1. out # EmptyDirectory
  BY DEF HasGraph, EmptyDirectory
<1>. QED
  BY <1>1, CompileMoves DEF HasGraph, Exists

LEMMA BuildKeeps ==
  ASSUME IInv, BuildNext, NEW kind \in Kinds
  PROVE  Kept(kind)
<1>. USE DEF IInv
<1>1. CASE UNCHANGED out
  BY <1>1 DEF Kept
<1>2. CASE BuildOutput /\ ~ UNCHANGED out
  <2>1. /\ out \in Directory
        /\ out.semantic[builder.kind] # None
        /\ out'.replaced = [out.replaced EXCEPT ![builder.kind] = out.semantic[builder.kind]]
        /\ out'.semantic = [out.semantic EXCEPT ![builder.kind] = None]
    BY <1>2, OutputEffect
  <2>2. DOMAIN out.replaced = Kinds /\ DOMAIN out.semantic = Kinds
    BY <2>1 DEF Directory
  <2>3. kind = builder.kind => out'.replaced[kind] # None
    BY <2>1, <2>2
  <2>4. kind # builder.kind => /\ out'.replaced[kind] = out.replaced[kind]
                               /\ out'.semantic[kind] = out.semantic[kind]
    BY <2>1, <2>2
  <2>. QED
    BY <2>3, <2>4 DEF Kept, Holds
<1>3. CASE BuildResume \/ BuildBatch \/ BuildStopped
  BY <1>1, <1>3, ResumeEffect, BatchEffect, StoppedEffect, StoresKept DEF CheckpointWritten
<1>4. CASE BuildStage
  BY <1>4, StageEffect, MadeIs, StoresKept DEF Typed, SameContents, HasGraph, Exists
<1>5. CASE BuildRename
  <2>1. PICK s \in Store : /\ out \in Directory /\ out'.replaced = out.replaced
                           /\ out'.semantic = [out.semantic EXCEPT ![builder.kind] = s]
    BY <1>5, RenameEffect
  <2>2. out'.semantic[kind] = s \/ out'.semantic[kind] = out.semantic[kind]
    BY <2>1 DEF Directory
  <2>. QED
    BY <2>1, <2>2, AbsenceAssumption DEF Kept, Holds
<1>6. CASE BuildUnlink
  BY <1>6, UnlinkEffect, StoresKept DEF HasGraph, Exists
<1>7. CASE BuildEnd /\ ~ UNCHANGED out
  <2>1. /\ out \in Directory /\ builder.pc = "end" /\ out'.semantic = out.semantic
        /\ out'.replaced = [out.replaced EXCEPT ![builder.kind] = None]
    BY <1>7, EndEffect
  <2>2. /\ builder # Idle /\ out # None /\ Current = out
    BY <2>1, AbsenceAssumption DEF Current, Idle
  <2>3. out.replaced[builder.kind] # None => out'.semantic[builder.kind] # None
    BY <2>1, <2>2 DEF Replaced
  <2>4. kind # builder.kind => out'.replaced[kind] = out.replaced[kind]
    BY <2>1 DEF Directory
  <2>. QED
    BY <2>1, <2>3, <2>4 DEF Kept, Holds
<1>8. CASE BuildFails \/ BuildKilled
  BY <1>8, BreakEffect, StoresKept DEF SameContents, HasGraph, Exists
<1>9. CASE \/ \E k \in Kinds, replace \in BOOLEAN : BuildStart(k, replace)
           \/ BuildGraph \/ BuildBounded
  BY <1>1, <1>9 DEF BuildStart, BuildGraph, BuildBounded, compileVars
<1>. QED
  BY <1>1, <1>2, <1>3, <1>4, <1>5, <1>6, <1>7, <1>8, <1>9 DEF BuildNext

\* A graph stays somewhere: no tool but preprocess.py drops one.
GraphStays ==
  HasGraph(out) \/ HasGraph(previous) => HasGraph(out') \/ HasGraph(previous')

LEMMA ToolsKeepGraph ==
  ASSUME OutSplits \/ OutStores, PreviousStays
  PROVE  GraphStays
<1>1. HasGraph(out) => HasGraph(out')
  BY DEF OutSplits, OutStores, SameSplits, SameStores, HasGraph, Exists
<1>2. HasGraph(previous) => HasGraph(previous')
  BY AbsenceAssumption DEF PreviousStays, SameContents, HasGraph, Exists
<1>. QED
  BY <1>1, <1>2 DEF GraphStays

(* preprocess.py:112-126 and build_semantic.py:91-105: from its publication on a whole
   graph is at the path or in the retained backup, and while it stays in place so does
   a store published for it, under its name or as the backup of a replacement. *)
THEOREM NothingEverLost == Spec => NothingLost
<1>. DEFINE Step == GraphStays /\ \A kind \in Kinds : Kept(kind)
<1>1. IInv /\ [Next]_vars => Step \/ UNCHANGED <<out, previous>>
  <2>. SUFFICES ASSUME IInv, Next PROVE Step
    BY DEF vars
  <2>. USE DEF IInv
  <2>1. CASE CompileNext /\ UNCHANGED <<builder, splitter, preflight>>
    <3>1. GraphStays
      BY <2>1, CompileMoves DEF GraphStays, HasGraph, Exists
    <3>2. ASSUME NEW kind \in Kinds PROVE Kept(kind)
      BY <2>1, CompileKeeps DEF Kept
    <3>. QED
      BY <3>1, <3>2
  <2>2. CASE BuildNext /\ UNCHANGED <<splitter, preflight>>
    BY <2>2, BuildEffect, BuildKeeps, ToolsKeepGraph
  <2>3. CASE SplitNext /\ UNCHANGED <<builder, preflight>>
    <3>1. OutStores /\ PreviousStays
      BY <2>3, SplitEffect
    <3>2. ASSUME NEW kind \in Kinds PROVE Kept(kind)
      BY <3>1, StoresKept DEF OutStores, SameStores, HasGraph, Exists
    <3>. QED
      BY <3>1, <3>2, ToolsKeepGraph
  <2>4. CASE PreflightNext /\ UNCHANGED <<out, previous, compiler, compiled, kills, builder, splitter>>
    BY <2>4 DEF GraphStays, Kept
  <2>. QED
    BY <2>1, <2>2, <2>3, <2>4 DEF Next
<1>2. Step => /\ HasGraph(out) \/ HasGraph(previous) => HasGraph(out)' \/ HasGraph(previous)'
              /\ \A kind \in Kinds :
                   HasGraph(out) /\ HasGraph(out') /\ out.graph = out'.graph /\ Holds(out, kind)
                     => Holds(out', kind)
  BY DEF GraphStays, Kept, HasGraph, Exists
<1>. HIDE DEF Step
<1>. QED
  BY <1>1, <1>2, Inductive, PTL DEF Spec, NothingLost

Frozen ==
  HasGraph(out) /\ HasGraph(out') /\ out.graph = out'.graph
    => \A p \in Parts : CompletePair(out.heldout[p]) => out'.heldout[p] = out.heldout[p]

\* A pair is only written where none was complete.
LEMMA PairFreezes ==
  ASSUME NEW part \in Parts, NEW pair, PairWritten(part, pair), ~ CompletePair(out.heldout[part])
  PROVE  Frozen
<1>1. \A p \in Parts : p # part => out'.heldout[p] = out.heldout[p]
  BY DEF PairWritten, Directory
<1>. QED
  BY <1>1 DEF Frozen

LEMMA SplitFreezes ==
  ASSUME IInv, SplitNext
  PROVE  Frozen
<1>. USE DEF IInv
<1>1. CASE UNCHANGED out
  BY <1>1 DEF Frozen
<1>2. ASSUME HasGraph(out), splitter.pc \in {"content", "meta"}
      PROVE  ~ CompletePair(out.heldout[splitter.part])
  <2>1. splitter # Idle /\ Current = out /\ Current # None
    BY <1>2 DEF Idle, Current, HasGraph, Exists
  <2>. QED
    BY <1>2, <2>1 DEF Absent, CompletePair, NoPair
<1>3. CASE SplitCheck
  BY <1>1, <1>3, SplitCheckEffect, MadeIs DEF Frozen, SameSplits, Typed, HasGraph, Exists
<1>4. CASE SplitContent \/ SplitMeta
  <2>1. /\ splitter.pc \in {"content", "meta"} /\ splitter.part \in Parts
        /\ \E pair : PairWritten(splitter.part, pair)
    BY <1>4, SplitContentEffect, SplitMetaEffect
  <2>2. CASE HasGraph(out)
    BY <1>2, <2>1, <2>2, PairFreezes
  <2>. QED
    BY <2>2 DEF Frozen
<1>5. CASE SplitMarker
  BY <1>5, SplitMarkerEffect DEF Frozen
<1>6. CASE SplitKilled
  <2>1. CASE /\ splitter.pc = "meta" /\ splitter.part \in Parts
             /\ \E pair : PairWritten(splitter.part, pair)
    <3>1. CASE HasGraph(out)
      BY <1>2, <2>1, <3>1, PairFreezes
    <3>. QED
      BY <3>1 DEF Frozen
  <2>2. CASE out'.heldout = out.heldout
    BY <2>2 DEF Frozen
  <2>. QED
    BY <1>1, <1>6, <2>1, <2>2, SplitKilledEffect
<1>7. CASE (\E seed \in Seeds : SplitStart(seed)) \/ SplitHash \/ SplitFails
  BY <1>1, <1>7 DEF SplitStart, SplitHash, SplitFails, compileVars
<1>. QED
  BY <1>3, <1>4, <1>5, <1>6, <1>7 DEF SplitNext

(* baselines.py:295-297: a complete held-out set is never replaced while its graph stays. *)
THEOREM HeldoutNeverReplaced == Spec => HeldoutFrozen
<1>1. IInv /\ [Next]_vars => Frozen \/ UNCHANGED out
  <2>. SUFFICES ASSUME IInv, Next PROVE Frozen
    BY DEF vars
  <2>. USE DEF IInv
  <2>1. CASE CompileNext /\ UNCHANGED <<builder, splitter, preflight>>
    BY <2>1, CompileKeeps DEF Frozen
  <2>2. CASE BuildNext /\ UNCHANGED <<splitter, preflight>>
    BY <2>2, BuildEffect DEF Frozen, OutSplits, SameSplits, HasGraph, Exists
  <2>3. CASE SplitNext /\ UNCHANGED <<builder, preflight>>
    BY <2>3, SplitFreezes
  <2>4. CASE PreflightNext /\ UNCHANGED <<out, previous, compiler, compiled, kills, builder, splitter>>
    BY <2>4 DEF Frozen
  <2>. QED
    BY <2>1, <2>2, <2>3, <2>4 DEF Next
<1>. QED
  BY <1>1, Inductive, PTL DEF Spec, HeldoutFrozen, Frozen
-----------------------------------------------------------------------------
(* What an uninterrupted training applies.  The positions of the batches with *)
(* edges are defined recursively: two lemmas that speak of sets and functions *)
(* only give an induction up to a bound and the function that is defined.     *)

LEMMA LeastIs ==
  ASSUME NEW S, S \subseteq Nat, S # {}
  PROVE  \E m \in S : \A k \in S : m <= k
<1>1. PICK m \in S : \A k \in S : ~ (<<k, m>> \in OpToRel(<, Nat))
  BY NatLessThanWellFounded, WFMin
<1>2. ASSUME NEW k \in S, k < m PROVE <<k, m>> \in OpToRel(<, Nat)
  <2>1. <<k, m>> \in Nat \X Nat /\ <<k, m>>[1] < <<k, m>>[2]
    BY <1>2
  <2>. QED
    BY ONLY <2>1, Zenon DEF OpToRel
<1>3. \A k \in S : ~ (k < m)
  BY <1>1, <1>2
<1>. QED
  BY <1>3

LEMMA UpTo ==
  ASSUME NEW n \in Nat, NEW P, 0 \in P, \A i \in 1 .. n : i - 1 \in P => i \in P
  PROVE  \A i \in 0 .. n : i \in P
<1>. DEFINE Bad == {i \in 0 .. n : i \notin P}
<1>. SUFFICES ASSUME Bad # {} PROVE FALSE
  OBVIOUS
<1>1. PICK m \in Bad : \A k \in Bad : m <= k
  <2>1. Bad \subseteq Nat
    OBVIOUS
  <2>. HIDE DEF Bad
  <2>. QED
    BY <2>1, LeastIs
<1>2. m \in 1 .. n /\ m - 1 \in 0 .. n /\ m - 1 \notin Bad
  BY <1>1
<1>. QED
  BY <1>2

\* A function that is defined step by step from a first value exists.
Maps(n, S) == [1 .. n -> [S -> S]]
Follows(f, n, S, base, step) ==
  f \in [0 .. n -> S] /\ f[0] = base /\ \A i \in 1 .. n : f[i] = step[i][f[i - 1]]

LEMMA StepByStep ==
  ASSUME NEW n \in Nat, NEW S, NEW base \in S, NEW step \in Maps(n, S)
  PROVE  \E f : Follows(f, n, S, base, step)
<1>. DEFINE Goes(g, m) == /\ g \in [0 .. m -> S] /\ g[0] = base
                          /\ \A i \in 1 .. m : g[i] = step[i][g[i - 1]]
            P == {m \in 0 .. n : \E g : Goes(g, m)}
<1>. USE DEF Maps
<1>1. 0 \in P
  <2>. DEFINE g == [i \in 0 .. 0 |-> base]
  <2>1. Goes(g, 0)
    OBVIOUS
  <2>. HIDE DEF Goes, g
  <2>. QED
    BY <2>1
<1>2. ASSUME NEW m \in 1 .. n, m - 1 \in P PROVE m \in P
  <2>1. PICK g : Goes(g, m - 1)
    BY <1>2
  <2>. DEFINE h == [i \in 0 .. m |-> IF i = m THEN step[m][g[m - 1]] ELSE g[i]]
  <2>2. step[m] \in [S -> S] /\ g[m - 1] \in S
    BY <2>1
  <2>3. h \in [0 .. m -> S]
    BY <2>1, <2>2
  <2>4. ASSUME NEW i \in 1 .. m PROVE h[i] = step[i][h[i - 1]]
    <3>1. CASE i = m
      <4>1. h[m] = step[m][g[m - 1]] /\ h[m - 1] = g[m - 1]
        OBVIOUS
      <4>. QED
        BY <3>1, <4>1
    <3>2. CASE i # m
      <4>1. h[i] = g[i] /\ h[i - 1] = g[i - 1] /\ i \in 1 .. m - 1
        BY <3>2
      <4>. QED
        BY <2>1, <4>1
    <3>. QED
      BY <3>1, <3>2
  <2>5. h[0] = base
    BY <2>1
  <2>6. Goes(h, m)
    <3>. HIDE DEF h
    <3>. QED
      BY <2>3, <2>4, <2>5
  <2>. HIDE DEF Goes, h
  <2>. QED
    BY <2>6
<1>3. \A m \in 0 .. n : m \in P
  <2>1. \A m \in 1 .. n : m - 1 \in P => m \in P
    BY <1>2
  <2>. HIDE DEF P
  <2>. QED
    BY <1>1, <2>1, UpTo
<1>4. n \in P
  <2>. HIDE DEF P
  <2>. QED
    BY <1>3
<1>5. PICK g : Goes(g, n)
  BY <1>4
<1>. QED
  BY <1>5 DEF Follows

LEMMA WithEdgesIs ==
  /\ WithEdges \in [0 .. Steps -> Seq(0 .. Steps - 1)]
  /\ WithEdges[0] = <<>>
  /\ \A n \in 1 .. Steps :
       /\ n - 1 \in EdgeBatches => WithEdges[n] = Append(WithEdges[n - 1], n - 1)
       /\ n - 1 \notin EdgeBatches => WithEdges[n] = WithEdges[n - 1]
<1>. DEFINE one(s, n) == IF n = 0 THEN <<>>
                         ELSE IF n - 1 \in EdgeBatches THEN Append(s, n - 1) ELSE s
<1>0. PICK positions : positions = 0 .. Steps - 1
  OBVIOUS
<1>1. PICK S : S = Seq(positions)
  OBVIOUS
<1>2. PICK step : step = [n \in 1 .. Steps |-> [s \in S |-> one(s, n)]]
  OBVIOUS
<1>3. Steps \in Nat /\ <<>> \in S /\ step \in Maps(Steps, S)
  <2>1. ASSUME NEW n \in 1 .. Steps, NEW s \in S PROVE one(s, n) \in S
    <3>1. n - 1 \in positions /\ s \in Seq(positions)
      BY <1>0, <1>1, SemanticAssumption
    <3>2. Append(s, n - 1) \in Seq(positions)
      BY <3>1
    <3>. QED
      BY <1>1, <3>1, <3>2, SemanticAssumption
  <2>. HIDE DEF one
  <2>. QED
    BY <1>1, <1>2, <2>1, SemanticAssumption DEF Maps
<1>4. PICK g : Follows(g, Steps, S, <<>>, step)
  BY <1>3, StepByStep
<1>5. g = [n \in 0 .. Steps |-> one(g[n - 1], n)]
  <2>1. \A n \in 1 .. Steps : g[n] = one(g[n - 1], n)
    <3>1. \A n \in 1 .. Steps : g[n - 1] \in S
      BY <1>3, <1>4 DEF Follows
    <3>. HIDE DEF one
    <3>. QED
      BY <1>2, <1>4, <3>1 DEF Follows
  <2>2. g[0] = one(g[0 - 1], 0)
    BY <1>4 DEF Follows
  <2>. HIDE DEF one
  <2>. QED
    BY <1>3, <1>4, <2>1, <2>2 DEF Follows
<1>. DEFINE h == CHOOSE f : f = [n \in 0 .. Steps |-> one(f[n - 1], n)]
<1>6. h = [n \in 0 .. Steps |-> one(h[n - 1], n)]
  <2>. HIDE DEF one
  <2>. QED
    BY <1>5
<1>7. WithEdges = h
  BY DEF WithEdges
<1>8. /\ WithEdges = [n \in 0 .. Steps |-> one(WithEdges[n - 1], n)]
  <2>. HIDE DEF h, one
  <2>. QED
    BY <1>6, <1>7
<1>9. /\ WithEdges[0] = <<>>
      /\ \A n \in 1 .. Steps : WithEdges[n] = one(WithEdges[n - 1], n)
  <2>1. \A n \in 0 .. Steps : WithEdges[n] = one(WithEdges[n - 1], n)
    <3>. HIDE DEF one
    <3>. QED
      BY <1>8
  <2>2. WithEdges[0] = one(WithEdges[0 - 1], 0)
    BY <1>3, <2>1
  <2>. QED
    BY <2>1, <2>2
<1>. DEFINE P == {n \in 0 .. Steps : WithEdges[n] \in S}
<1>10. \A n \in 0 .. Steps : n \in P
  <2>1. 0 \in P
    BY <1>3, <1>9
  <2>2. \A n \in 1 .. Steps : n - 1 \in P => n \in P
    <3>1. ASSUME NEW n \in 1 .. Steps, WithEdges[n - 1] \in S PROVE WithEdges[n] \in S
      <4>1. n - 1 \in positions /\ n # 0
        BY <1>0, SemanticAssumption
      <4>2. WithEdges[n] = Append(WithEdges[n - 1], n - 1) \/ WithEdges[n] = WithEdges[n - 1]
        BY <1>9, <4>1
      <4>3. Append(WithEdges[n - 1], n - 1) \in Seq(positions)
        BY <1>1, <3>1, <4>1
      <4>. QED
        BY <1>1, <3>1, <4>2, <4>3
    <3>. QED
      BY <1>3, <3>1
  <2>. HIDE DEF P
  <2>. QED
    BY <1>3, <2>1, <2>2, UpTo
<1>11. WithEdges \in [0 .. Steps -> S]
  <2>1. \A n \in 0 .. Steps : WithEdges[n] \in S
    BY <1>10
  <2>. HIDE DEF one
  <2>. QED
    BY <1>8, <2>1
<1>12. ASSUME NEW n \in 1 .. Steps
       PROVE  /\ n - 1 \in EdgeBatches => WithEdges[n] = Append(WithEdges[n - 1], n - 1)
              /\ n - 1 \notin EdgeBatches => WithEdges[n] = WithEdges[n - 1]
  <2>1. n # 0 /\ WithEdges[n] = one(WithEdges[n - 1], n)
    BY <1>9
  <2>. QED
    BY <2>1
<1>. HIDE DEF one, h, P
<1>. QED
  BY <1>0, <1>1, <1>9, <1>11, <1>12

LEMMA ScheduleStarts ==
  ASSUME NEW g
  PROVE  Schedule(g, 0) = <<>>
BY WithEdgesIs DEF Schedule

\* A schedule is a sequence of batches of its graph, no longer than its steps.
LEMMA ScheduleIs ==
  ASSUME NEW g \in Graphs, NEW n \in 0 .. Steps
  PROVE  /\ Schedule(g, n) \in Seq(Batches)
         /\ Len(Schedule(g, n)) = Len(WithEdges[n])
         /\ Len(Schedule(g, n)) \in 0 .. n
<1>0. PICK positions : positions = 0 .. Steps - 1
  OBVIOUS
<1>1. PICK w : w = WithEdges[n] /\ w \in Seq(positions)
  BY <1>0, WithEdgesIs
<1>2. Len(w) \in Nat /\ DOMAIN w = 1 .. Len(w)
      /\ \A i \in 1 .. Len(w) : w[i] \in positions
  BY <1>1
<1>3. Schedule(g, n) = [i \in 1 .. Len(w) |-> <<g, w[i]>>]
  BY <1>1, <1>2 DEF Schedule
<1>4. Schedule(g, n) \in Seq(Batches) /\ Len(Schedule(g, n)) = Len(w)
  <2>1. \A i \in 1 .. Len(w) : <<g, w[i]>> \in Batches
    BY <1>0, <1>2 DEF Batches
  <2>. QED
    BY <1>2, <1>3, <2>1
<1>. DEFINE P == {m \in 0 .. Steps : Len(WithEdges[m]) <= m}
<1>5. \A m \in 0 .. Steps : m \in P
  <2>1. 0 \in P
    BY WithEdgesIs, SemanticAssumption
  <2>2. ASSUME NEW m \in 1 .. Steps, m - 1 \in P PROVE m \in P
    <3>1. PICK v : v = WithEdges[m - 1] /\ v \in Seq(0 .. Steps - 1) /\ Len(v) <= m - 1
      BY <2>2, WithEdgesIs
    <3>2. Len(v) \in Nat /\ Len(Append(v, m - 1)) = Len(v) + 1
      BY <3>1
    <3>3. WithEdges[m] = Append(v, m - 1) \/ WithEdges[m] = v
      BY <3>1, WithEdgesIs
    <3>. QED
      BY <3>1, <3>2, <3>3
  <2>. HIDE DEF P
  <2>. QED
    BY <2>1, <2>2, UpTo, SemanticAssumption
<1>. QED
  BY <1>1, <1>2, <1>4, <1>5

\* One more batch is applied when some head it samples has an edge.
LEMMA ScheduleGrows ==
  ASSUME NEW g \in Graphs, NEW n \in 0 .. Steps - 1
  PROVE  /\ n \in EdgeBatches => Schedule(g, n + 1) = Append(Schedule(g, n), <<g, n>>)
         /\ n \notin EdgeBatches => Schedule(g, n + 1) = Schedule(g, n)
<1>1. n \in 0 .. Steps /\ n + 1 \in 1 .. Steps /\ (n + 1) - 1 = n
  BY SemanticAssumption
<1>2. CASE n \notin EdgeBatches
  <2>1. WithEdges[n + 1] = WithEdges[n]
    BY <1>1, <1>2, WithEdgesIs
  <2>. QED
    BY <1>2, <2>1 DEF Schedule
<1>3. CASE n \in EdgeBatches
  <2>1. PICK w : w = WithEdges[n] /\ w \in Seq(0 .. Steps - 1)
    BY <1>1, WithEdgesIs
  <2>2. PICK k \in Nat : k = Len(w) /\ DOMAIN w = 1 .. k
    BY <2>1
  <2>3. PICK v : v = Append(w, n)
    OBVIOUS
  <2>4. /\ DOMAIN v = 1 .. k + 1 /\ v[k + 1] = n
        /\ \A i \in 1 .. k : v[i] = w[i]
    BY <2>1, <2>2, <2>3
  <2>5. WithEdges[n + 1] = v
    BY <1>1, <1>3, <2>1, <2>3, WithEdgesIs
  <2>6. PICK s : s = Schedule(g, n) /\ s \in Seq(Batches) /\ Len(s) = k
    BY <1>1, <2>1, <2>2, ScheduleIs
  <2>7. s = [i \in 1 .. k |-> <<g, w[i]>>]
    BY <2>1, <2>2, <2>6 DEF Schedule
  <2>8. Schedule(g, n + 1) = [i \in 1 .. k + 1 |-> <<g, v[i]>>]
    BY <2>4, <2>5 DEF Schedule
  <2>9. PICK e : e = <<g, n>> /\ e \in Batches
    <3>1. <<g, n>> \in Batches
      BY DEF Batches
    <3>. QED
      BY <3>1
  <2>10. /\ Append(s, e) = [i \in 1 .. k + 1 |-> IF i = k + 1 THEN e ELSE s[i]]
    BY <2>6, <2>9
  <2>11. ASSUME NEW i \in 1 .. k + 1 PROVE <<g, v[i]>> = (IF i = k + 1 THEN e ELSE s[i])
    <3>1. CASE i = k + 1
      BY <2>4, <2>9, <3>1
    <3>2. CASE i # k + 1
      <4>1. i \in 1 .. k
        BY <3>2
      <4>. QED
        BY <2>4, <2>7, <3>2, <4>1
    <3>. QED
      BY <3>1, <3>2
  <2>12. Schedule(g, n + 1) = Append(s, e)
    BY <2>8, <2>10, <2>11, Zenon
  <2>. QED
    BY <1>3, <2>6, <2>9, <2>12
<1>. QED
  BY <1>2, <1>3

-----------------------------------------------------------------------------
(* A resumed training applies what an uninterrupted one does *)

\* Every step with an edge leaves a loss and a batch behind.
Counted(losses, steps, table) == losses <= steps /\ (losses > 0 => Len(table) > 0)

\* The table of a build is the schedule of the graph it opened, up to its step.
Early == {"output", "graph", "resume"}
BuildExact(b) ==
  b # Idle =>
    /\ b.pc \in Early => b.step = 0 /\ b.table = <<>> /\ b.losses = 0
    /\ b.pc \notin Early => b.table = Schedule(b.graph, b.step) /\ Counted(b.losses, b.step, b.table)
    /\ b.pc = "rename" => b.step = Steps /\ b.losses > 0

\* A checkpoint that carries the hash of the graph it lies beside was trained on it.
Faithful(d) ==
  Published(d) /\ d.ckpt # None /\ d.ckpt.hash = d.graph =>
    /\ d.ckpt.table = Schedule(d.graph, d.ckpt.next)
    /\ Counted(d.ckpt.losses, d.ckpt.next, d.ckpt.table)

\* A build finds a checkpoint with its hash only beside the graph with that hash.
Found(b, d) ==
  b # Idle /\ b.pc \in Early /\ d # None /\ d.ckpt # None /\ d.ckpt.hash = b.hash
    => d.graph = b.hash

\* A store was trained on the whole schedule of one graph.
Full(s) ==
  s # None => /\ s.withEdges \in 1 .. Steps /\ Len(s.table) > 0
              /\ \E g \in Graphs : s.table = Schedule(g, Steps)
Complete(d) == d # None => \A kind \in Kinds : Full(d.semantic[kind]) /\ Full(d.replaced[kind])

Exact ==
  /\ BuildExact(builder) /\ Faithful(Current) /\ Found(builder, Current)
  /\ Complete(out) /\ Complete(previous)

LEMMA NoStoreIsFull == Full(None)
BY DEF Full

LEMMA EmptyIsComplete == Complete(None) /\ Complete(EmptyDirectory)
BY NoStoreIsFull DEF Complete, EmptyDirectory

LEMMA SameIsComplete ==
  ASSUME NEW d, NEW e, Complete(d), d # None, e.semantic = d.semantic, e.replaced = d.replaced
  PROVE  Complete(e)
BY DEF Complete

LEMMA BlankIsComplete == \A d : Blank(d) => Complete(d)
<1>1. EmptyDirectory # None
  BY EmptyIsDirectory, AbsenceAssumption
<1>. QED
  BY <1>1, EmptyIsComplete, SameIsComplete DEF Blank

\* The checkpoint at the path stays, goes, or is out of sight.
CheckpointStays ==
  \/ Current' = None
  \/ Current'.ckpt = None
  \/ /\ Current # None /\ Current' # None
     /\ Current'.graph = Current.graph /\ Current'.ckpt = Current.ckpt

LEMMA StaysFaithful ==
  ASSUME Faithful(Current), CheckpointStays
  PROVE  Faithful(Current')
BY DEF Faithful, CheckpointStays, Published

LEMMA StaysFound ==
  ASSUME Found(builder, Current), CheckpointStays,
         \/ builder' = Idle
         \/ builder'.pc \notin Early
         \/ builder # Idle /\ builder.pc \in Early /\ builder'.hash = builder.hash
  PROVE  Found(builder', Current')
BY DEF Found, CheckpointStays

LEMMA ToolStays ==
  ASSUME Typed, Typed', OutSplits, PreviousStays, UNCHANGED compiler,
         out # None => out'.ckpt \in {out.ckpt, None}
  PROVE  CheckpointStays
<1>1. CASE out # None
  <2>1. out' # None /\ Current = out /\ Current' = out' /\ out'.graph = out.graph
    BY <1>1, ToolMoves DEF OutSplits, SameSplits
  <2>. QED
    BY <1>1, <2>1 DEF CheckpointStays
<1>2. CASE out = None /\ out' # None
  <2>1. Current' = out' /\ out'.ckpt = None
    BY <1>2, ToolMoves DEF OutSplits, Blank
  <2>. QED
    BY <2>1 DEF CheckpointStays
<1>3. CASE out = None /\ out' = None
  BY <1>3, ToolMoves DEF CheckpointStays, SameContents
<1>. QED
  BY <1>1, <1>2, <1>3

-----------------------------------------------------------------------------
(* preprocess.py and materialize_task_splits.py leave all that alone *)

LEMMA CompileExact ==
  ASSUME IInv, Exact, CompileNext, UNCHANGED <<builder, splitter, preflight>>
  PROVE  Exact'
<1>1. Typed /\ Discarding
  BY DEF IInv
<1>2. CheckpointStays
  BY <1>1, CompileMoves DEF CheckpointStays, Fresh
<1>3. Complete(out') /\ Complete(previous')
  <2>1. Complete(out) /\ Complete(previous)
    BY DEF Exact
  <2>2. ASSUME NEW force \in BOOLEAN, CompileStart(force)
        PROVE  out' \in {out, None} /\ previous' = previous
    BY <2>2 DEF CompileStart
  <2>3. CASE CompilePublish
    <3>1. compiler.graph \in Graphs
      BY <1>1, <2>3 DEF CompilePublish, Typed, Compile, Idle
    <3>2. \A kind \in Kinds : out'.semantic[kind] = None /\ out'.replaced[kind] = None
      BY <2>3, <3>1, FreshIs DEF CompilePublish, NewDirectory
    <3>3. Complete(out')
      BY <3>2, NoStoreIsFull DEF Complete
    <3>. QED
      BY <2>1, <2>3, <3>3 DEF CompilePublish
  <2>4. CASE CompileRetain \/ CompilePublishFails \/ CompileKilled
    <3>1. out' \in {out, previous, None} /\ previous' \in {out, previous, None}
      BY <2>4 DEF CompileRetain, CompilePublishFails, CompileKilled
    <3>. QED
      BY <2>1, <3>1, EmptyIsComplete
  <2>5. CASE CompileDiscard
    <3>1. out' = out /\ previous' \in {None, EmptyDirectory}
      BY <2>5 DEF CompileDiscard
    <3>. QED
      BY <2>1, <3>1, EmptyIsComplete
  <2>. QED
    BY <2>1, <2>2, <2>3, <2>4, <2>5, EmptyIsComplete DEF CompileNext
<1>4. Faithful(Current')
  BY <1>2, StaysFaithful DEF Exact
<1>5. Found(builder', Current')
  BY <1>2 DEF Exact, Found, CheckpointStays
<1>6. BuildExact(builder')
  BY DEF Exact
<1>. QED
  BY <1>3, <1>4, <1>5, <1>6 DEF Exact

LEMMA SplitExact ==
  ASSUME IInv, Exact, SplitNext, UNCHANGED <<builder, preflight>>
  PROVE  Exact'
<1>1. Typed
  BY DEF IInv
<1>2. Typed' /\ OutStores /\ PreviousStays /\ UNCHANGED <<previous, compiler, compiled>>
  BY <1>1, SplitEffect
<1>3. CheckpointStays
  BY <1>1, <1>2, ToolMoves DEF CheckpointStays, SameStores, Blank
<1>4. Complete(out')
  <2>1. CASE out # None
    BY <1>2, <2>1, SameIsComplete DEF OutStores, SameStores, Exact
  <2>2. CASE out = None
    BY <1>2, <2>2, BlankIsComplete, EmptyIsComplete DEF OutStores
  <2>. QED
    BY <2>1, <2>2
<1>5. Complete(previous') /\ BuildExact(builder')
  BY <1>2 DEF Exact
<1>6. Faithful(Current')
  BY <1>3, StaysFaithful DEF Exact
<1>7. Found(builder', Current')
  BY <1>3 DEF Exact, Found, CheckpointStays
<1>. QED
  BY <1>4, <1>5, <1>6, <1>7 DEF Exact
-----------------------------------------------------------------------------
(* build_semantic.py *)

\* A build that leaves the checkpoints and the stores as they are.
SameArtifacts ==
  /\ out = None => out' = None \/ Blank(out')
  /\ out # None => /\ out' # None /\ out'.ckpt = out.ckpt
                   /\ out'.semantic = out.semantic /\ out'.replaced = out.replaced

LEMMA SameArtifactsExact ==
  ASSUME IInv, Exact, BuildNext, UNCHANGED <<splitter, preflight>>, SameArtifacts,
         BuildExact(builder'),
         \/ builder' = Idle
         \/ builder'.pc \notin Early
         \/ builder # Idle /\ builder.pc \in Early /\ builder'.hash = builder.hash
  PROVE  Exact'
<1>1. Typed /\ Typed' /\ OutSplits /\ PreviousStays /\ UNCHANGED compiler
  BY BuildEffect DEF IInv
<1>2. CheckpointStays
  BY <1>1, ToolStays DEF SameArtifacts
<1>3. Complete(out')
  BY SameIsComplete, BlankIsComplete, EmptyIsComplete DEF SameArtifacts, Exact
<1>4. Complete(previous')
  BY <1>1, SameIsComplete, EmptyIsComplete DEF PreviousStays, SameContents, Exact
<1>5. Faithful(Current')
  BY <1>2, StaysFaithful DEF Exact
<1>6. Found(builder', Current')
  BY <1>2, StaysFound DEF Exact
<1>. QED
  BY <1>3, <1>4, <1>5, <1>6 DEF Exact

LEMMA ReadsSame ==
  ASSUME Typed, UNCHANGED out
  PROVE  SameArtifacts
BY DEF SameArtifacts

LEMMA StartExact ==
  ASSUME IInv, Exact, NEW kind \in Kinds, NEW replace \in BOOLEAN, BuildStart(kind, replace),
         UNCHANGED <<splitter, preflight>>
  PROVE  Exact'
<1>1. /\ builder'.pc = "output" /\ builder'.hash = out.graph /\ builder'.step = 0
      /\ builder'.table = <<>> /\ builder'.losses = 0
      /\ UNCHANGED <<out, previous, compiler>> /\ out # None
  BY DEF BuildStart, HasGraph, Exists
<1>2. Current' = Current /\ Current = out
  BY <1>1 DEF Current
<1>3. BuildExact(builder')
  BY <1>1 DEF BuildExact, Early
<1>4. Found(builder', Current')
  BY <1>1, <1>2 DEF Found
<1>. QED
  BY <1>1, <1>2, <1>3, <1>4 DEF Exact

LEMMA OutputExact ==
  ASSUME IInv, Exact, BuildOutput, UNCHANGED <<splitter, preflight>>
  PROVE  Exact'
<1>1. Typed /\ builder \in Build /\ builder # Idle /\ builder.pc = "output" /\ builder.kind \in Kinds
  BY BuilderIs DEF IInv, BuildOutput, Build
<1>2. /\ builder.step = 0 /\ builder.table = <<>> /\ builder.losses = 0
  BY <1>1 DEF Exact, BuildExact, Early
<1>3. \/ builder' = Idle
      \/ /\ builder'.pc = "graph" /\ builder'.hash = builder.hash /\ builder'.step = builder.step
         /\ builder'.table = builder.table /\ builder'.losses = builder.losses
  <2>1. \/ builder' = Idle
        \/ builder' = [builder EXCEPT !.pc = "graph"]
        \/ builder' = [builder EXCEPT !.pc = "graph", !.moved = TRUE]
    BY DEF BuildOutput
  <2>. QED
    BY <1>1, <2>1 DEF Build
<1>4. BuildExact(builder')
  BY <1>2, <1>3 DEF BuildExact, Early
<1>5. BuildNext
  BY DEF BuildNext
<1>6. /\ \/ builder' = Idle
         \/ builder'.pc \notin Early
         \/ builder # Idle /\ builder.pc \in Early /\ builder'.hash = builder.hash
  BY <1>1, <1>3 DEF Early
<1>7. CASE UNCHANGED out
  BY <1>1, <1>4, <1>5, <1>6, <1>7, ReadsSame, SameArtifactsExact
<1>8. CASE ~ UNCHANGED out
  <2>1. /\ out \in Directory /\ out' \in Directory /\ out'.ckpt = out.ckpt
        /\ out'.replaced = [out.replaced EXCEPT ![builder.kind] = out.semantic[builder.kind]]
        /\ out'.semantic = [out.semantic EXCEPT ![builder.kind] = None]
    BY <1>1, <1>8, OutputEffect
  <2>2. out # None /\ out' # None
    BY <2>1, AbsenceAssumption
  <2>3. Typed' /\ OutSplits /\ PreviousStays /\ UNCHANGED compiler
    BY <1>1, <1>5, BuildEffect
  <2>4. CheckpointStays
    BY <1>1, <2>1, <2>2, <2>3, ToolStays
  <2>5. Complete(out')
    <3>1. out.semantic \in [Kinds -> Store \cup {None}] /\ out.replaced \in [Kinds -> Store \cup {None}]
      BY <2>1 DEF Directory
    <3>2. \A k \in Kinds : Full(out.semantic[k]) /\ Full(out.replaced[k])
      BY <2>2 DEF Exact, Complete
    <3>3. \A k \in Kinds : out'.semantic[k] \in {None, out.semantic[k]}
                        /\ out'.replaced[k] \in {out.replaced[k], out.semantic[k]}
      BY <1>1, <2>1, <3>1
    <3>. QED
      BY <3>2, <3>3, NoStoreIsFull DEF Complete
  <2>6. Complete(previous')
    BY <2>3, SameIsComplete, EmptyIsComplete DEF PreviousStays, SameContents, Exact
  <2>7. Faithful(Current') /\ Found(builder', Current')
    BY <1>6, <2>4, StaysFaithful, StaysFound DEF Exact
  <2>. QED
    BY <1>4, <2>5, <2>6, <2>7 DEF Exact
<1>. QED
  BY <1>7, <1>8

LEMMA GraphExact ==
  ASSUME IInv, Exact, BuildGraph, UNCHANGED <<splitter, preflight>>
  PROVE  Exact'
<1>1. Typed /\ builder \in Build /\ builder # Idle /\ builder.pc = "graph"
  BY BuilderIs DEF IInv, BuildGraph
<1>2. /\ builder.step = 0 /\ builder.table = <<>> /\ builder.losses = 0
  BY <1>1 DEF Exact, BuildExact, Early
<1>3. /\ builder'.pc \in {"resume", "train"} /\ builder'.hash = builder.hash
      /\ builder'.step = 0 /\ builder'.table = <<>> /\ builder'.losses = 0
  BY <1>1, <1>2 DEF BuildGraph, Build
<1>4. Schedule(builder'.graph, 0) = <<>> /\ Counted(0, 0, <<>>)
  BY ScheduleStarts DEF Counted
<1>5. BuildExact(builder')
  BY <1>3, <1>4 DEF BuildExact, Early
<1>6. BuildNext /\ UNCHANGED out
  BY DEF BuildNext, BuildGraph, compileVars
<1>. QED
  BY <1>1, <1>3, <1>5, <1>6, ReadsSame, SameArtifactsExact DEF Early

\* What is saved while a build runs names a table of the build's graph.
LEMMA SavedExact ==
  ASSUME IInv, Exact, BuildNext, UNCHANGED <<splitter, preflight>>,
         builder.pc \in {"resume", "train"}, NEW b, NEW step, SaveProgress(b, step),
         b.hash = builder.hash, b.table = Schedule(builder.graph, step), step \in 0 .. Steps,
         b.losses \in Nat, Counted(b.losses, step, b.table),
         builder' = Idle \/ builder'.pc = "train",
         BuildExact(builder')
  PROVE  Exact'
<1>1. Typed /\ Typed' /\ OutSplits /\ PreviousStays /\ UNCHANGED compiler
  BY BuildEffect DEF IInv
<1>2. out \in Directory /\ out' = [out EXCEPT !.ckpt = Progress(b, step)]
  BY <1>1 DEF SaveProgress, Exists, Typed
<1>3. /\ out'.ckpt = Progress(b, step) /\ out'.graph = out.graph
      /\ out'.semantic = out.semantic /\ out'.replaced = out.replaced
  BY <1>2 DEF Directory
<1>4. out # None /\ out' # None
  BY <1>1, <1>2, AbsenceAssumption DEF OutSplits
<1>5. Current = out /\ Current' = out'
  BY <1>4 DEF Current
<1>6. /\ out'.ckpt.hash = builder.hash /\ out'.ckpt.next = step /\ out'.ckpt.table = b.table
      /\ out'.ckpt.losses = ShorterOf(b.losses, History)
  BY <1>3 DEF Progress
<1>7. Counted(ShorterOf(b.losses, History), step, b.table)
  BY SemanticAssumption DEF Counted, ShorterOf
<1>8. Faithful(Current')
  <2>1. builder # Idle
    BY DEF Idle
  <2>2. Published(Current') /\ Current'.ckpt.hash = Current'.graph => builder.graph = builder.hash
    BY <1>3, <1>4, <1>5, <1>6, <2>1 DEF IInv, Training, Published
  <2>. QED
    BY <1>5, <1>6, <1>7, <2>2 DEF Faithful
<1>9. Found(builder', Current')
  BY DEF Found, Early
<1>10. Complete(out')
  BY <1>3, <1>4, SameIsComplete DEF Exact
<1>11. Complete(previous')
  BY <1>1, SameIsComplete, EmptyIsComplete DEF PreviousStays, SameContents, Exact
<1>. QED
  BY <1>8, <1>9, <1>10, <1>11 DEF Exact

LEMMA ResumeExact ==
  ASSUME IInv, Exact, BuildResume, UNCHANGED <<splitter, preflight>>
  PROVE  Exact'
<1>1. /\ Typed /\ builder \in Build /\ builder # Idle /\ builder.pc = "resume"
      /\ builder.graph \in Graphs
  BY BuilderIs DEF IInv, BuildResume
<1>2. /\ builder.step = 0 /\ builder.table = <<>> /\ builder.losses = 0
  BY <1>1 DEF Exact, BuildExact, Early
<1>3. Schedule(builder.graph, 0) = <<>> /\ Counted(0, 0, <<>>)
  BY ScheduleStarts DEF Counted
<1>4. BuildNext
  BY DEF BuildNext
<1>5. CASE SaveProgress(builder, 0) /\ (builder' = Idle \/ builder' = [builder EXCEPT !.pc = "train"])
  <2>1. \/ builder' = Idle
        \/ /\ builder'.pc = "train" /\ builder'.graph = builder.graph /\ builder'.step = 0
           /\ builder'.table = <<>> /\ builder'.losses = 0
    BY <1>1, <1>2, <1>5 DEF Build
  <2>2. BuildExact(builder')
    BY <1>3, <2>1 DEF BuildExact, Early
  <2>. QED
    BY <1>1, <1>2, <1>3, <1>4, <1>5, <2>1, <2>2, SavedExact, SemanticAssumption
<1>6. CASE /\ out.ckpt # None /\ Exists(out) /\ Compatible(out.ckpt, builder) /\ UNCHANGED out
           /\ builder' = [builder EXCEPT !.pc = "train", !.step = out.ckpt.next,
                                         !.table = out.ckpt.table, !.losses = out.ckpt.losses]
  <2>1. Current = out /\ out # None
    BY <1>6 DEF Current, Exists
  <2>2. out.graph = builder.hash /\ out.ckpt.hash = out.graph
    BY <1>1, <1>6, <2>1 DEF Exact, Found, Early, Compatible
  <2>3. out.graph # None
    BY <1>1, <2>2, CompileAssumption DEF Build, Graphs
  <2>4. /\ out.ckpt.table = Schedule(out.graph, out.ckpt.next)
        /\ Counted(out.ckpt.losses, out.ckpt.next, out.ckpt.table)
    BY <1>6, <2>1, <2>2, <2>3 DEF Exact, Faithful, Published
  <2>5. builder.graph = out.graph
    BY <1>1, <2>1, <2>2, <2>3 DEF IInv, Training, Published
  <2>6. /\ builder'.pc = "train" /\ builder'.graph = builder.graph /\ builder'.step = out.ckpt.next
        /\ builder'.table = out.ckpt.table /\ builder'.losses = out.ckpt.losses
    BY <1>1, <1>6 DEF Build
  <2>7. BuildExact(builder')
    BY <2>4, <2>5, <2>6 DEF BuildExact, Early
  <2>8. builder'.pc \notin Early
    BY <2>6 DEF Early
  <2>. QED
    BY <1>1, <1>4, <1>6, <2>7, <2>8, ReadsSame, SameArtifactsExact
<1>. QED
  BY <1>5, <1>6 DEF BuildResume

LEMMA BatchExact ==
  ASSUME IInv, Exact, BuildBatch, UNCHANGED <<splitter, preflight>>
  PROVE  Exact'
<1>1. /\ Typed /\ builder \in Build /\ builder # Idle /\ builder.pc = "train" /\ builder.kind = "full"
      /\ builder.graph \in Graphs /\ builder.table \in Seq(Batches) /\ builder.losses \in Nat
  BY BuilderIs DEF IInv, BuildBatch
<1>2. PICK n \in 0 .. Steps - 1 : n = builder.step
  BY <1>1, SemanticAssumption DEF BuildBatch, Build
<1>3. PICK g \in Graphs : g = builder.graph
  BY <1>1
<1>4. PICK table : table = Schedule(g, n) /\ table = builder.table /\ table \in Seq(Batches)
                   /\ Counted(builder.losses, n, table)
  BY <1>1, <1>2, <1>3 DEF Exact, BuildExact, Early
<1>5. PICK e : e = <<g, n>>
  OBVIOUS
<1>6. PICK after : after = [builder EXCEPT
                     !.step   = n + 1,
                     !.table  = IF n \in EdgeBatches THEN Append(table, e) ELSE table,
                     !.losses = IF n \in EdgeBatches THEN builder.losses + 1 ELSE builder.losses]
  OBVIOUS
<1>7. /\ builder' = after
      /\ \/ UNCHANGED out
         \/ SaveProgress(after, after.step)
  BY <1>2, <1>3, <1>4, <1>5, <1>6 DEF BuildBatch
<1>8. /\ after.pc = "train" /\ after.graph = g /\ after.step = n + 1 /\ after.hash = builder.hash
      /\ after.table = IF n \in EdgeBatches THEN Append(table, e) ELSE table
      /\ after.losses = IF n \in EdgeBatches THEN builder.losses + 1 ELSE builder.losses
  BY <1>1, <1>3, <1>6 DEF Build
<1>9. after.table = Schedule(g, n + 1)
  BY <1>4, <1>5, <1>8, ScheduleGrows
<1>10. after.losses \in Nat /\ Counted(after.losses, n + 1, after.table)
  <2>1. CASE n \in EdgeBatches
    <3>1. e \in Batches /\ Len(table) \in Nat
      BY <1>4, <1>5 DEF Batches
    <3>2. Len(Append(table, e)) = Len(table) + 1
      BY <1>4, <3>1
    <3>. QED
      BY <1>1, <1>4, <1>8, <2>1, <3>1, <3>2 DEF Counted
  <2>2. CASE n \notin EdgeBatches
    BY <1>1, <1>4, <1>8, <2>2 DEF Counted
  <2>. QED
    BY <2>1, <2>2
<1>11. BuildExact(after)
  BY <1>8, <1>9, <1>10 DEF BuildExact, Early
<1>12. BuildNext
  BY DEF BuildNext
<1>13. CASE UNCHANGED out
  BY <1>1, <1>7, <1>8, <1>11, <1>12, <1>13, ReadsSame, SameArtifactsExact DEF Early
<1>14. CASE SaveProgress(after, after.step)
  <2>1. after.step \in 0 .. Steps /\ after.table = Schedule(builder.graph, after.step)
    BY <1>3, <1>8, <1>9, SemanticAssumption
  <2>. QED
    BY <1>1, <1>7, <1>8, <1>10, <1>11, <1>12, <1>14, <2>1, SavedExact
<1>. QED
  BY <1>7, <1>13, <1>14

LEMMA StoppedExact ==
  ASSUME IInv, Exact, BuildStopped, UNCHANGED <<splitter, preflight>>
  PROVE  Exact'
<1>1. /\ Typed /\ builder \in Build /\ builder # Idle /\ builder.pc = "train"
      /\ builder.losses \in Nat /\ builder.step \in 0 .. Steps
  BY BuilderIs DEF IInv, BuildStopped, Build
<1>2. /\ builder.table = Schedule(builder.graph, builder.step)
      /\ Counted(builder.losses, builder.step, builder.table)
  BY <1>1 DEF Exact, BuildExact, Early
<1>3. BuildNext /\ builder' = Idle /\ SaveProgress(builder, builder.step)
  BY DEF BuildNext, BuildStopped
<1>4. BuildExact(builder')
  BY <1>3 DEF BuildExact
<1>. QED
  BY <1>1, <1>2, <1>3, <1>4, SavedExact

LEMMA BoundedExact ==
  ASSUME IInv, Exact, BuildBounded, UNCHANGED <<splitter, preflight>>
  PROVE  Exact'
<1>1. /\ Typed /\ builder \in Build /\ builder # Idle /\ builder.pc = "train"
      /\ builder.graph \in Graphs
  BY BuilderIs DEF IInv, BuildBounded
<1>2. PICK table : table = Schedule(builder.graph, Steps)
  OBVIOUS
<1>3. Len(table) \in 0 .. Steps
  BY <1>1, <1>2, ScheduleIs, SemanticAssumption
<1>4. /\ builder'.pc = "train" /\ builder'.graph = builder.graph /\ builder'.step = Steps
      /\ builder'.table = table /\ builder'.losses = Len(table)
  BY <1>1, <1>2 DEF BuildBounded, Build
<1>5. BuildExact(builder')
  BY <1>2, <1>3, <1>4 DEF BuildExact, Early, Counted
<1>6. BuildNext /\ UNCHANGED out
  BY DEF BuildNext, BuildBounded, compileVars
<1>. QED
  BY <1>1, <1>4, <1>5, <1>6, ReadsSame, SameArtifactsExact DEF Early

LEMMA StageExact ==
  ASSUME IInv, Exact, BuildStage, UNCHANGED <<splitter, preflight>>
  PROVE  Exact'
<1>1. /\ Typed /\ builder \in Build /\ builder # Idle /\ builder.pc = "train"
      /\ builder.step \in 0 .. Steps /\ builder.step >= Steps /\ builder.losses > 0
  BY BuilderIs DEF IInv, BuildStage, Build
<1>2. /\ builder.table = Schedule(builder.graph, builder.step)
      /\ Counted(builder.losses, builder.step, builder.table)
  BY <1>1 DEF Exact, BuildExact, Early
<1>3. /\ builder'.pc = "rename" /\ builder'.graph = builder.graph /\ builder'.step = builder.step
      /\ builder'.table = builder.table /\ builder'.losses = builder.losses
  BY <1>1 DEF BuildStage, Build
<1>4. builder.step = Steps
  BY <1>1, SemanticAssumption
<1>5. BuildExact(builder')
  BY <1>1, <1>2, <1>3, <1>4 DEF BuildExact, Early
<1>6. SameArtifacts
  <2>1. out' \in Directory /\ SameContents(Made(out), out')
    BY <1>1, StageEffect
  <2>2. out = None => Blank(out')
    BY <1>1, <2>1, MadeIs, EmptyIsBlank DEF Typed
  <2>3. out # None => Made(out) = out /\ out' # None
    BY <1>1, <2>1, MadeIs, AbsenceAssumption DEF Typed
  <2>. QED
    BY <2>1, <2>2, <2>3 DEF SameArtifacts, SameContents
<1>7. BuildNext
  BY DEF BuildNext
<1>. QED
  BY <1>3, <1>5, <1>6, <1>7, SameArtifactsExact DEF Early

LEMMA RenameExact ==
  ASSUME IInv, Exact, BuildRename, UNCHANGED <<splitter, preflight>>
  PROVE  Exact'
<1>1. /\ Typed /\ builder \in Build /\ builder # Idle /\ builder.pc = "rename"
      /\ builder.graph \in Graphs /\ builder.kind \in Kinds
  BY BuilderIs DEF IInv, BuildRename, Build
<1>2. /\ builder.table = Schedule(builder.graph, Steps)
      /\ Counted(builder.losses, Steps, builder.table)
      /\ builder.losses > 0 /\ builder.step = Steps
  BY <1>1 DEF Exact, BuildExact, Early
<1>3. /\ builder'.pc \in {"unlink", "end"} /\ builder'.graph = builder.graph
      /\ builder'.step = builder.step /\ builder'.table = builder.table
      /\ builder'.losses = builder.losses
  BY <1>1 DEF BuildRename, Build
<1>4. BuildExact(builder')
  BY <1>2, <1>3 DEF BuildExact, Early
<1>5. PICK s \in Store :
        /\ s.table = builder.table /\ s.withEdges = builder.losses
        /\ out'.semantic = [out.semantic EXCEPT ![builder.kind] = s]
  BY <1>1, RenameEffect
<1>6. /\ out \in Directory /\ out' \in Directory
      /\ out'.ckpt = out.ckpt /\ out'.replaced = out.replaced
  BY <1>1, RenameEffect
<1>7. out # None /\ out' # None
  BY <1>6, AbsenceAssumption
<1>8. BuildNext
  BY DEF BuildNext
<1>9. Typed' /\ OutSplits /\ PreviousStays /\ UNCHANGED compiler
  BY <1>1, <1>8, BuildEffect
<1>10. CheckpointStays
  BY <1>1, <1>6, <1>9, ToolStays
<1>11. Full(s)
  <2>1. Len(builder.table) \in 0 .. Steps
    BY <1>1, <1>2, ScheduleIs, SemanticAssumption
  <2>2. builder.losses \in Lengths /\ builder.losses \in Nat
    <3>1. \A g \in Graphs : Len(Schedule(g, Steps)) \in Nat
      BY ScheduleIs, SemanticAssumption
    <3>. QED
      BY <1>1, <3>1 DEF Build, Lengths, Schedules
  <2>3. builder.losses \in 1 .. Steps /\ Len(builder.table) > 0
    BY <1>2, <2>2, SemanticAssumption DEF Counted
  <2>. QED
    BY <1>1, <1>2, <1>5, <2>3 DEF Full
<1>12. Complete(out')
  <2>1. out.semantic \in [Kinds -> Store \cup {None}]
    BY <1>6 DEF Directory
  <2>2. \A k \in Kinds : Full(out.semantic[k]) /\ Full(out.replaced[k])
    BY <1>7 DEF Exact, Complete
  <2>3. \A k \in Kinds : out'.semantic[k] \in {s, out.semantic[k]}
    BY <1>1, <1>5, <2>1
  <2>. QED
    BY <1>6, <1>11, <2>2, <2>3 DEF Complete
<1>13. Complete(previous')
  BY <1>9, SameIsComplete, EmptyIsComplete DEF PreviousStays, SameContents, Exact
<1>14. builder'.pc \notin Early
  BY <1>3 DEF Early
<1>15. Faithful(Current') /\ Found(builder', Current')
  BY <1>10, <1>14, StaysFaithful, StaysFound DEF Exact
<1>. QED
  BY <1>4, <1>12, <1>13, <1>15 DEF Exact

\* The checkpoint of a published build goes, then the backup of a replacement.
LEMMA LastExact ==
  ASSUME IInv, Exact, BuildUnlink \/ BuildEnd, UNCHANGED <<splitter, preflight>>
  PROVE  Exact'
<1>1. Typed /\ builder \in Build /\ builder # Idle /\ builder.pc \in {"unlink", "end"}
  BY BuilderIs DEF IInv, BuildUnlink, BuildEnd
<1>2. /\ builder.table = Schedule(builder.graph, builder.step)
      /\ Counted(builder.losses, builder.step, builder.table)
  BY <1>1 DEF Exact, BuildExact, Early
<1>3. \/ builder' = Idle
      \/ /\ builder'.pc = "end" /\ builder'.graph = builder.graph /\ builder'.step = builder.step
         /\ builder'.table = builder.table /\ builder'.losses = builder.losses
  BY <1>1 DEF BuildUnlink, BuildEnd, Build
<1>4. BuildExact(builder')
  BY <1>2, <1>3 DEF BuildExact, Early
<1>5. BuildNext
  BY DEF BuildNext
<1>6. Typed' /\ OutSplits /\ PreviousStays /\ UNCHANGED compiler
  BY <1>1, <1>5, BuildEffect
<1>7. \/ UNCHANGED out
      \/ /\ out # None /\ out' # None /\ out'.ckpt \in {out.ckpt, None} /\ out'.semantic = out.semantic
         /\ \A k \in Kinds : out'.replaced[k] \in {out.replaced[k], None}
  <2>1. CASE BuildUnlink
    BY <1>1, <1>6, <2>1, UnlinkEffect DEF OutSplits
  <2>2. CASE BuildEnd
    <3>1. \/ UNCHANGED out
          \/ /\ out \in Directory /\ out' \in Directory /\ out'.ckpt = out.ckpt
             /\ out'.semantic = out.semantic
             /\ out'.replaced = [out.replaced EXCEPT ![builder.kind] = None]
      BY <1>1, <2>2, EndEffect
    <3>2. out \in Directory => out.replaced \in [Kinds -> Store \cup {None}]
      BY DEF Directory
    <3>. QED
      BY <3>1, <3>2, AbsenceAssumption
  <2>. QED
    BY <2>1, <2>2
<1>8. CheckpointStays
  BY <1>1, <1>6, <1>7, ToolStays
<1>9. Complete(out')
  BY <1>7, NoStoreIsFull DEF Complete, Exact
<1>10. Complete(previous')
  BY <1>6, SameIsComplete, EmptyIsComplete DEF PreviousStays, SameContents, Exact
<1>11. builder' = Idle \/ builder'.pc \notin Early
  BY <1>3 DEF Early
<1>12. Faithful(Current') /\ Found(builder', Current')
  BY <1>8, <1>11, StaysFaithful, StaysFound DEF Exact
<1>. QED
  BY <1>4, <1>9, <1>10, <1>12 DEF Exact

LEMMA BreakExact ==
  ASSUME IInv, Exact, BuildFails \/ BuildKilled, UNCHANGED <<splitter, preflight>>
  PROVE  Exact'
<1>1. Typed /\ BuildNext
  BY DEF IInv, BuildNext
<1>2. /\ builder' = Idle
      /\ out = None => out' = None
      /\ out # None => out' \in Directory /\ SameContents(out, out')
  BY <1>1, BreakEffect
<1>3. BuildExact(builder')
  BY <1>2 DEF BuildExact
<1>4. SameArtifacts
  BY <1>2, AbsenceAssumption DEF SameArtifacts, SameContents
<1>. QED
  BY <1>1, <1>2, <1>3, <1>4, SameArtifactsExact

LEMMA InitExact == Init => Exact
<1>. SUFFICES ASSUME Init PROVE Exact
  OBVIOUS
<1>1. /\ out \in {None, EmptyDirectory} /\ previous = None /\ compiler = Idle /\ builder = Idle
  BY DEF Init, GraphDirInit
<1>2. ~ Published(Current)
  BY <1>1 DEF Current, Published, EmptyDirectory, Idle
<1>3. BuildExact(builder) /\ Found(builder, Current) /\ Faithful(Current)
  BY <1>1, <1>2 DEF BuildExact, Found, Faithful
<1>. QED
  BY <1>1, <1>3, EmptyIsComplete DEF Exact

LEMMA NextExact == IInv /\ Exact /\ [Next]_vars => Exact'
<1>. SUFFICES ASSUME IInv, Exact, [Next]_vars PROVE Exact'
  OBVIOUS
<1>1. CASE CompileNext /\ UNCHANGED <<builder, splitter, preflight>>
  BY <1>1, CompileExact
<1>2. CASE BuildNext /\ UNCHANGED <<splitter, preflight>>
  BY <1>2, StartExact, OutputExact, GraphExact, ResumeExact, BatchExact, StoppedExact, BoundedExact,
     StageExact, RenameExact, LastExact, BreakExact DEF BuildNext
<1>3. CASE SplitNext /\ UNCHANGED <<builder, preflight>>
  BY <1>3, SplitExact
<1>4. CASE UNCHANGED <<out, previous, compiler, builder>>
  BY <1>4 DEF Exact, BuildExact, Faithful, Found, Complete, Current, Published
<1>. QED
  BY <1>1, <1>2, <1>3, <1>4 DEF Next, vars

LEMMA AlwaysExact == Spec => []Exact
BY Inductive, InitExact, NextExact, PTL DEF Spec

(* semantic.py:359-439: every published table is the whole schedule of one graph. *)
THEOREM ResumeAlwaysExact == Spec => []ResumeIsExact
<1>1. IInv /\ Exact => ResumeIsExact
  <2>. SUFFICES ASSUME IInv, Exact, NEW s \in Stores
                PROVE  Len(s.table) > 0 /\ s.table = Schedule(s.table[1][1], Steps)
    BY DEF ResumeIsExact
  <2>1. Full(s) /\ s # None
    BY DEF Stores, Exact, Complete
  <2>2. PICK g \in Graphs : s.table = Schedule(g, Steps)
    BY <2>1 DEF Full
  <2>3. Schedule(g, Steps) \in Seq(Batches) /\ Len(Schedule(g, Steps)) > 0
    BY <2>1, <2>2, ScheduleIs, SemanticAssumption DEF Full
  <2>4. 1 \in DOMAIN Schedule(g, Steps)
    BY <2>3
  <2>5. Schedule(g, Steps)[1][1] = g
    BY <2>4, ScheduleIsPure DEF Pure
  <2>. QED
    BY <2>1, <2>2, <2>5 DEF Full
<1>. QED
  BY <1>1, Inductive, AlwaysExact, PTL

\* The bounds of the model on runs and kills.
Budgeted == kills \in 0 .. MaxKills /\ runs \in 0 .. MaxRuns

LEMMA AlwaysBudgeted == Spec => []Budgeted
<1>1. Init => Budgeted
  BY CompileAssumption DEF Init, GraphDirInit, Budgeted
<1>2. ASSUME Budgeted,
             \/ kills' = kills
             \/ kills < MaxKills /\ kills' = kills + 1,
             \/ runs' = runs
             \/ runs < MaxRuns /\ runs' = runs + 1
      PROVE  Budgeted'
  BY <1>2, CompileAssumption DEF Budgeted
<1>3. ASSUME CompileNext
      PROVE  runs' = runs /\ (kills' = kills \/ (kills < MaxKills /\ kills' = kills + 1))
  BY <1>3 DEF CompileNext, CompileStart, CompileRetain, CompilePublish, CompilePublishFails,
              CompileDiscard, CompileKilled
<1>4. ASSUME BuildNext
      PROVE  \/ kills' = kills /\ (runs' = runs \/ (runs < MaxRuns /\ runs' = runs + 1))
             \/ runs' = runs /\ kills < MaxKills /\ kills' = kills + 1
  BY <1>4 DEF BuildNext, BuildStart, BuildOutput, BuildGraph, BuildFails, BuildResume, BuildBatch,
              BuildStopped, BuildBounded, BuildStage, BuildRename, BuildUnlink, BuildEnd, BuildKilled,
              CountRun, compileVars
<1>5. ASSUME SplitNext
      PROVE  \/ kills' = kills /\ (runs' = runs \/ (runs < MaxRuns /\ runs' = runs + 1))
             \/ runs' = runs /\ kills < MaxKills /\ kills' = kills + 1
  BY <1>5 DEF SplitNext, SplitStart, SplitHash, SplitCheck, SplitContent, SplitMeta, SplitMarker,
              SplitFails, SplitKilled, CountRun, compileVars
<1>6. ASSUME PreflightNext
      PROVE  runs' = runs \/ (runs < MaxRuns /\ runs' = runs + 1)
  BY <1>6 DEF PreflightNext, PreflightStart, PreflightSplits, PreflightStore, PreflightFails, CountRun
<1>7. Budgeted /\ [Next]_vars => Budgeted'
  BY <1>2, <1>3, <1>4, <1>5, <1>6 DEF Next, vars
<1>. QED
  BY <1>1, <1>7, PTL DEF Spec

(* The directories, what is published in them and the four tools keep their shape. *)
THEOREM DataReleaseTypeOK == Spec => []TypeOK
<1>1. ASSUME IInv, Exact, Budgeted PROVE TypeOK
  <2>1. Typed
    BY <1>1 DEF IInv
  <2>2. {out, previous} \subseteq Directory \cup {None}
    BY <2>1 DEF Typed
  <2>3. ASSUME NEW s \in Stores PROVE s.withEdges \in 1 .. Steps /\ Len(s.table) <= Steps
    <3>1. Full(s) /\ s # None
      BY <1>1 DEF Stores, Exact, Complete
    <3>2. PICK g \in Graphs : s.table = Schedule(g, Steps)
      BY <3>1 DEF Full
    <3>3. Len(Schedule(g, Steps)) \in 0 .. Steps
      BY ScheduleIs, SemanticAssumption
    <3>. QED
      BY <3>1, <3>2, <3>3 DEF Full
  <2>4. compiler.pc \in {"idle", "staged", "publish", "discard"}
    BY <2>1 DEF Typed, Compile, Idle
  <2>5. builder.pc \in {"idle", "output", "graph", "resume", "train", "rename", "unlink", "end"}
    BY <2>1 DEF Typed, BuilderTyped, Build, Idle
  <2>6. ASSUME builder # Idle
        PROVE  /\ builder.hash \in Graphs /\ builder.graph \in Hashes
               /\ builder.step \in 0 .. Steps /\ Len(builder.table) <= Steps
    <3>1. /\ builder \in Build /\ builder.hash \in Graphs /\ builder.graph \in Hashes
          /\ builder.step \in 0 .. Steps
          /\ builder.pc \notin {"output", "graph"} => builder.graph \in Graphs
      BY <2>1, <2>6 DEF Typed, BuilderTyped, Build
    <3>2. CASE builder.pc \in Early
      <4>1. builder.table = <<>>
        BY <1>1, <2>6, <3>2 DEF Exact, BuildExact
      <4>. QED
        BY <3>1, <4>1, SemanticAssumption
    <3>3. CASE builder.pc \notin Early
      <4>1. builder.table = Schedule(builder.graph, builder.step)
        BY <1>1, <2>6, <3>3 DEF Exact, BuildExact
      <4>2. builder.graph \in Graphs
        BY <3>1, <3>3 DEF Early
      <4>3. Len(Schedule(builder.graph, builder.step)) \in 0 .. builder.step
        BY <3>1, <4>2, ScheduleIs
      <4>. QED
        BY <3>1, <4>1, <4>3, SemanticAssumption
    <3>. QED
      BY <3>2, <3>3
  <2>7. splitter.pc \in {"idle", "hash", "check", "content", "meta", "marker"}
    BY <2>1 DEF Typed, SplitterTyped, Split, Idle
  <2>8. preflight.pc \in {"idle", "splits", "store", "accepted"}
    BY <2>1 DEF Typed, Preflight, Idle
  <2>9. compiled \in 0 .. MaxCompiles /\ kills \in 0 .. MaxKills /\ runs \in 0 .. MaxRuns
    BY <1>1, <2>1 DEF Typed, Budgeted
  <2>. QED
    BY <2>2, <2>3, <2>4, <2>5, <2>6, <2>7, <2>8, <2>9 DEF TypeOK
<1>. QED
  BY <1>1, Inductive, AlwaysExact, AlwaysBudgeted, PTL
=============================================================================
