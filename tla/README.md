# NEUROSEEK in TLA+

TLA+ models of NEUROSEEK's core logic, the TLC runs that check them on small
instances, and TLAPS proofs about them for every value of the constants. Paths
below are relative to the repository.

## 1. Inventory

NEUROSEEK answers multi-hop questions over a compiled Wikidata graph. A policy
issues instructions of a small instruction set, NEURO-ISA, against a credit
budget; an independent validator checks the proof. A long-running trainer
improves the policy and must survive crashes, thermal limits and restarts. What
it trains on is prepared by a handful of scripts that share one directory, and
what comes out is shown by three read-only front ends.

| Component | State | Operations | Talks to |
|---|---|---|---|
| NEURO-ISA VM, `rust/core/src/lib.rs` | registers F0, F1; answers; proof; credits; depth; branch points (history); statistics | one handler per instruction, rollback on an error, `validate_proof` | CSR graph, ANN provider (callback), native caller of `registers` |
| Search environment, `search/environment.py` | frontier, auxiliary and saved frontier, layers of predecessors, depth, credits, answer, path | one branch of `step` per operator, validation at STOP | graph, CUDA session, semantic store, the trainer's rollout loop |
| Tasks, `data/tasks.py` | a random stream, a counter, forbidden ids | four query families, two validators, state save and load | trainer, held-out splits, baselines |
| Checkpoints, `training/checkpoint.py` | files in `checkpoints/` | save, publish, prune, load | trainer, file system |
| Trainer, `training/trainer.py` | step, phase, phase state, best metric, STOP, manifest | main loop by phase, BC, rollouts, evaluation, crash report | everything |
| Event log, `telemetry/events.py` | two append-only files, one fsync clock | emit, sync | trainer, dashboard |
| Telemetry, `telemetry/jetson.py` | cached sample and its age, two readers | sample, merge, thermal level | trainer |
| Graph, `data/graph.py`, `scripts/preprocess.py` | staged, published and retained directory | compile, publish, look up | all readers |
| Semantic preparation, `semantic.py`, `scripts/build_semantic.py` | table, step, losses, private checkpoint, artifact | train, stop, resume, replace, search | graph directory, search environment |
| Evaluation, `evaluation/baselines.py`, `scripts/materialize_task_splits.py` | held-out files, their manifests, a marker | materialize, baselines | graph directory, trainer |
| Preflight, `scripts/production_preflight.py` | none | check that graph, splits and store belong together | graph directory |
| CUDA backend, `cuda_backend.py`, `cuda/src/` | device buffers of a session | expand, top-k, scores | graph, search environment |
| Front ends, `scripts/search_console.py`, `scripts/search_web.py` with `web/app.js`, `mcp_server.py` | a view; a page with requests on their way; one worker | commands; search, navigate, filter, policy; tool calls | graph, policy |
| Launcher, `up.sh`, `compose.yaml` | `current.json`, containers | start, resume, new run | trainer |
| CLI, `rust/cli`; terminal dashboard | none across requests; a tail position | run a program; draw | VM; log |
| Cost model, policy, PPO | numbers | regression, networks, gradients | trainer |

What is hard about them, and what makes each correct:

* **VM.** Undo. BACKTRACK restores a part of the state; what it restores must
  belong together. Credits must balance through it and through instructions that
  are rejected. Correct: credits and attempts balance, evidence is
  paid for, branch points nest, everything a branch holds is supported by the
  evidence of that branch, and so is its answer.
* **Search environment.** Long legal sequences of operators that a policy will
  try and a test will not: VERIFY before BACKTRACK, EXPAND past the last
  relation, UNION after a restart, operators beyond the budget, and two
  implementations (CPU, CUDA) of one expansion. Correct: a proof judged valid
  was executed in this attempt; the teacher's program always succeeds; nothing
  comes back from an abandoned attempt; every rollout ends.
* **Checkpoints.** A crash between any two system calls, a power loss that
  takes back what was not fsynced, a damaged file, generations of an abandoned
  future. Correct: what was reported saved is found by the next start.
* **Trainer.** The deadline, signals and thermal stops race with phases and
  checkpoints; restarts with the manifest. Correct: progress only grows across
  restarts, a completed run is not trained again, a phase has what it needs.
* **Log and telemetry.** An fsync is made only when an event asks for one and a
  clock allows it; a reading is cached, and two readers see different parts of
  the board. Correct: what a power loss takes is bounded, and a board that
  stays critical is noticed in spite of caches and of the rule that only a
  *change* of level is acted on.
* **Preparation.** Four scripts reach one directory by path, without a lock,
  while one of them renames it away; each may be killed between two renames or
  two files. A training is resumed from a truncated history. Correct: nothing
  published is lost, a resumed training equals an uninterrupted one, and what
  the preflight accepts belongs together.
* **Computations on the graph.** The threads of a kernel meet in one counter;
  the size of a result is probed by a first call and the buffer filled by a
  second; batches of a top-k search are merged; ids have 16 and 32 bits.
  Correct: each equals the definition of what it computes, or fails cleanly.
* **Front ends.** Answers arrive out of order, commands fail half-way, a worker
  fails in every way a process can. Correct: what is shown belongs together and
  is what the user asked for last.

## 2. Modules

| Module | Models | Uses |
|---|---|---|
| `EvidenceTrail` | what a search promises about its evidence (abstract) | |
| `NeuroVM` | `SearchVm`, every instruction, `validate_proof` | refines `EvidenceTrail` |
| `RecoveryPoint` | what a checkpointing trainer promises about its progress (abstract) | |
| `CheckpointStore` | the checkpoint directory, the trainer's saving and resuming, crashes and damage | refines `RecoveryPoint` |
| `TrainerRun` | `main` of the trainer: the life of a run across processes | |
| `TaskGenerator` | the query families and both validators | |
| `SearchEnv` | `GraphSearchEnv` and the rollout loop around it | `TaskGenerator` |
| `EventLog` | `EventWriter`: two files, one fsync clock | |
| `Telemetry` | the board, both temperature readers, the collector, the safety policy | |
| `ThermalControl` | the training loop as the user of both | `EventLog`, `Telemetry` |
| `GraphDirectory` | `data/processed` and `preprocess.py`, which renames it | |
| `SemanticBuild` | `build_semantic.py`: both trainings, resumption, publication | `GraphDirectory` |
| `HeldoutSplits` | `materialize_task_splits.py`: pairs of files, and the marker | `GraphDirectory` |
| `DataRelease` | those three at work at once, and the preflight | `SemanticBuild`, `HeldoutSplits` |
| `GraphCompile` | what a triple file is compiled into, and how it is read | |
| `CudaExpand` | expansion on the GPU: threads, two calls, buffers, failures | `GraphCompile` |
| `AnnSearch` | exact nearest-vector search and its three top-k algorithms | |
| `BaselineSearch` | the three symbolic baselines | `TaskGenerator` |
| `Backends` | one job of any of the four above | `CudaExpand`, `AnnSearch`, `BaselineSearch` |
| `QueryServices` | lookups, word resolution and policy runs the front ends share | |
| `ConsoleView`, `WebExplorer`, `McpServer` | the terminal viewer; the page and its server; the MCP server and its worker | `QueryServices` |
| `Viewers` | one of the three | those three |
| `NeuroVM_proofs`, `CheckpointStore_proofs`, `SearchEnv_proofs`, `TrainerRun_proofs`, `ThermalControl_proofs`, `DataRelease_proofs`, `Viewers_proofs`, `Backends_proofs` | proofs about the module they are named after | |
| `MC...` | the graphs, replies and bounds of the small instances | |

The correspondence with the code, definition by definition, is the `map` of
`PROJECT.json`. A definition named `X_Y`, with a comment that begins with
*Variant*, is a plausible bug of `X`; no specification uses it, and a property
is only kept if it notices one. The principal choices:

* **NeuroVM.** A variable per field of `SearchVm`. An instruction is one action
  and includes its charge, its branch point and its statistics, in the code's
  order; every check precedes the changes, so a rejected instruction (`Reject`)
  leaves its attempt and nothing else, which the snapshot of `execute_traced`
  makes doubly sure of. An entry of a frontier is a node
  with a score from a small range: ranking needs the order only. Parallel
  duplicate edges of the CSR are one edge.
* **CheckpointStore.** A step of saving is a system call. `dir` is what
  processes see, `durable` what a power loss leaves, and the kernel may write
  an entry back at any time (`WriteBack`). A file is `cached` until its fsync
  and becomes `torn` when power is lost before it. A checkpoint is its global
  step. A crash of the process (`Kill`) leaves the page cache alone. The disk
  may damage a file (`Damage`); a damaged file does not load. `promised` and
  `before` are history: the last two checkpoints that `_checkpoint` returned.
* **TrainerRun.** One action per stretch of `main` between two points where a
  kill makes a difference or a signal is looked at. `st` is the part of the
  process a checkpoint holds, `disk` the checkpoint a restart resumes from; a
  save is one step here, which `CheckpointStore` and `RecoveryPoint` justify.
  `elapsed_total` is read once per iteration and stored (`st.elapsed`), while
  the clock (`now`) goes on, as in the code. Time is counted in ticks, and an
  iteration takes any of `Durations`. A learned policy is the number of its
  updates with the crash they came after, so an abandoned policy is not
  mistaken for its replacement. An exception leaves no checkpoint and is a
  `Kill` to this model, except the one for a missing cost model, which is an
  action of its own (`NoCostModel`). The bounded smoke mode, which has no graph
  and enters no phase, is left out.
* **SearchEnv.** Any policy: the operators are a free choice within the limit
  of the rollout loop. The ranking of PRUNE and TOPK is any ranking. A CUDA
  session returns what the kernel computes for the arguments it is given. An
  expansion records, for each node it reaches, the first of its predecessors,
  as the code does. `walked` (the edges each layer admitted) and `onScript` are
  history variables; no guard reads them. Rewards, observations and traces are
  left out since no step reads them.
* **EventLog, Telemetry, ThermalControl.** Of a file we keep what a power loss
  tells apart: the age of its oldest line that no fsync has covered. Ages
  saturate where the code stops telling them apart. The second append of a
  `HardwareEvent` is a step of its own, since a process may be killed between
  the two. The board is a temperature per zone; what a reader can see of it
  (`printed`, for a tegrastats line that may be cut short) changes freely. The
  loop is the trainer's, reduced to what it emits and samples; a process may
  end by a signal, an exception, a kill or a power loss.
* **GraphDirectory, SemanticBuild, HeldoutSplits, DataRelease.** A graph is the
  number of the compilation that made it; its manifest carries a creation time,
  so a hash stands for the graph. Derived artifacts live inside the directory
  and go wherever it is renamed to, while a running tool keeps the graph it has
  mapped and reaches everything else by path: that is why `builder` has both
  `hash` and `graph`. A trained table is the sequence of the batches applied to
  it, each with the graph it was sampled from: two tables are equal when the
  same batches were applied. Files written in place may be left `Torn` by a
  kill; files written aside and renamed may not.
* **Backends.** Pure computations as operators and, where order matters, as
  actions: one step per edge of a kernel thread, in any schedule, and one step
  per device buffer. The library allocates, copies and frees the arrays of a
  session, of a graph sent along with one call and of the call itself one after
  the other (`Buffers`, `Cleanup`), and keeps the pointers it must free
  (`native.ptrs`); any allocation, copy, launch or copy back may fail with the
  buffers so far in its hands, and the clean-up of that function is what runs
  then. Relation ids are taken modulo the width they are stored in.
* **Viewers.** An identifier stands for its local id too. A page keeps a set of
  requests on their way and applies any answer next, also that of a request
  that was followed by another (`app.js:173` compares nothing); any of them may
  fail. Every MCP message may lack an id. In the terminal viewer a run of the
  policy that fails ends the viewer: `apply` would turn an `OSError` or
  `ValueError` into a notice (`search_console.py:498`), after `task_index` has
  changed, but a run on a well-formed task file and graph raises neither. The
  MCP worker may answer, fail, time out or print something else; its exit,
  output and timeout are the outcomes the server distinguishes.

## 3. Runs

| Run | Checks | Bounds and why they suffice |
|---|---|---|
| `NeuroVM` | `TypeOK`, `AccountsBalance`, `EvidencePaidFor`, `BranchesSupported`, `TrailSpec` | a diamond with two relations: two ways to a node, so duplicates and joins; an ANN provider that returns duplicates and ids outside the graph; 4 attempts and 7 credits, so that charges are refused in the middle of a program |
| `CheckpointStore` | `TypeOK`, `PromiseKept`, `OneFaultOneGeneration`, `JustSavedIsKept`, `RecoverySpec` | 2 generations retained, 5 batches, 3 crashes, 1 damaged file: pruning happens, is cut short and repeats after a restart, and damage meets every stage of it |
| `SearchEnv` | `TypeOK`, `ValidProofIsExecuted`, `DemonstrationAccepted`, `NothingRevived`, `EpisodeCloses` | a diamond with a loop at its source and an edge back, walks of 1 and 2 hops, all operators on CPU and CUDA, 8 operators and 16 credits, so that a program can verify, backtrack and try again, and can exhaust the budget |
| `TrainerRun` | `TypeOK`, `CompletedIsFinished`, `ScheduleCovered`, `NoWorkWhileCritical`, `ProgressKept`, `StopHonoured` | the order of `config/full.toml` with one phase of each kind, 12 ticks, iterations of 1 or 2 ticks, a probe every 2 ticks and 2 probes for a cost model, rewards below and above that of the hardware phases, every critical action that acts (`warn` only lets an alarm pass, like no alarm at all), 1 kill and any number of signals and halts: a policy can be lost, relearned and evaluated, and every phase can be cut short |
| `DataRelease` | `TypeOK`, `ResumeIsExact`, `PreflightSound`, `MarkerIsLast`, `NothingLost`, `HeldoutFrozen` | 2 graphs, so that one replaces the other under running tools; 3 runs of those tools, so that one builds, one rebuilds and one checks; 1 kill or failed rename; 3 batches of which the middle one has no edges, a checkpoint after each and 1 loss retained, so that an interval checkpoint is skipped and a history truncated |
| `Backends` | `TypeOK`, `CompiledExactly`, `ExpandExact`, `NoDeviceLeak`, `TopKExact`, `PlansComplete` | every file of up to two triples over three names and three that begin alike, one relation too many for the id width; frontiers with duplicates and sinks, sessions of 2 calls with one step per device buffer and 2 failures of any of them, so that a failure meets a session opened, used and freed, buffers too small, just enough and unlimited; all rows of up to 5 scores with ties; every task of a cyclic graph of 4 nodes, under a budget that runs out |
| `ThermalControl` | `TypeOK`, `LossBounded`, `HeatNoticed` | two zones, one of them in whole degrees and one that a cut line hides, temperatures below, between and above the limits, an fsync and a sample every 2 ticks, 1 kill, power loss or exception |
| `Viewers` | `TypeOK`, `ConsoleCoherent`, `PageFollowsUser`, `McpAccounts` | three items of which one is not local, 5 requests on the page answered or failed in any order, 2 tasks of 2 actions, 3 lines to the MCP server, with an id or without |

Some checks rest on bounds that the code does not have: `JustSavedIsKept`
assumes fewer `Strays` than retained generations (each crash may leave one
checkpoint of an abandoned future, and each damaged file after the first one
more; the code retains 24), and
`OneFaultOneGeneration` assumes one damaged file and at least two generations.
In `TrainerRun`, `ScheduleCovered` assumes that no single iteration or thermal
pause outlasts a phase (`Unpaused`, and a schedule that is `Roomy`, which TLC
evaluates for the instance): the curriculum goes by the clock, so a phase slept
through is skipped by design. In `config/full.toml` the shortest phase has 900 seconds and
the critical action is `checkpoint_stop`. `HeatNoticed` speaks of the actions
that stop or pause, and of a board of which tegrastats shows every zone.
`PreflightSound` speaks of a graph that was not replaced while the preflight
ran: nothing in the code prevents the other case.

`CHECK_DEADLOCK FALSE` is set everywhere: a stopped VM, a closed episode, a tool
that has ended, a page without requests and a trainer that refuses to resume
have no next step by design.

The `violation` runs each show a sentence of the documents or of a comment that
the code does not keep; `PROJECT.json` quotes it.

| Run | What happens |
|---|---|
| `CheckpointDerived` | a restarted derived run prunes the checkpoint it has just saved, and fails when it reads it |
| `SearchEnvCredit` | a correct answer is credited without an accepted proof |
| `StepsReported` | a build resumed from a truncated loss history publishes a store that reports fewer steps than its table has |
| `TelemetryAge` | a failed attempt at tegrastats makes the cached values look fresh |

More differences are stated in the modules and have no run of their own; added
to the cfg of the module's run, TLC finds each of them:

| Definition | What happens |
|---|---|
| `NeuroVM`: `ValidatedAnswerSupported` | an answer without evidence is accepted for a query that requires no edge |
| `CheckpointStore`: `NewestValidLoaded` | after a crash between save and publication an older `latest.ckpt` wins |
| `SearchEnv`: `DemonstratedEdgeEnabled` | the hidden edge is one the demonstrated walk uses later |
| `SearchEnv`: `CudaFrontierAgrees` | past the last relation CUDA expands everything, the CPU nothing |
| `TrainerRun`: `OneTracePerPhase` (a PROPERTY) | after a kill the traces of a phase are captured and indexed a second time |
| `Viewers`: `SelectedFactsAppear` | the page shows the facts of an entity the user has already left, when an older request is answered last |

And some are visible in the actions, without a definition: between the two
renames of `preprocess.py:112-126` there is a moment without a graph, where the
comment above them promises a publication without such a window; a `--replace`
that fails renames the wrong way (`build_semantic.py:103`) and leaves the
artifact under its backup name, where the next `--replace` refuses to start; a
resumed training does not compare the steps, batch size or learning rate it was
started with; one fsync clock serves both log files, so `hardware.jsonl` may
wait longer than the interval; a pause is released when no temperature can be
read; a graph answer that follows a policy answer keeps the page in policy mode;
`truncated` of an MCP answer is also set when only the filter removed edges;
the overlay of a task removes targets on CUDA (`BlockedTargets`) and edges on
the CPU (`Admitted`); ANN neighbours can be proposed by VERIFY without a
traversal, against the header of `environment.py`; and BACKTRACK of the training
environment starts the attempt over (`Restarted`) where `docs/NEURO_ISA.md`
describes the VM's, which undoes one expansion.

**Fairness.** `SearchEnv` assumes weak fairness of `Next`: the rollout loop
(`trainer.py` 173-186) is sequential and calls `step` again until the episode is
done. The limit `len(relations) + 6` and the final STOP are in the model, so
`EpisodeCloses` depends on them and not on the policy. `TrainerRun` assumes weak
fairness of `Trainer`, the steps of the process itself, and `ThermalControl` of
`Step`: they are one thread that waits for nothing but bounded sleeps. No
fairness is assumed of a launch, a signal, a kill or of cooling down, so
`StopHonoured` and `HeatNoticed` do not depend on them. The other models have no
fairness and no liveness property: nothing in the code obliges a policy to go
on, a user to press a key or a machine to come back.

## 4. Proofs

All theorems hold for every value of the constants that satisfies the named
assumptions: of the VM `GraphAssumption` and its companions; of the checkpoints
`KeepAssumption`, `StepAssumption`, `BoundsAssumption`; of the trainer
`ScheduleAssumption`, `BudgetAssumption` and their companions; of the tasks and
the environment `TaskAssumption`, `EnvAssumption`; of the log and the board
`FsyncIntervalAssumption`, `TelemetryAssumption` (degrees between -999 and 999,
`jetson.py` 107), `StopsAssumption`; of the preparation `CompileAssumption`,
`SemanticAssumption`, `SeedAssumption`, `AbsenceAssumption`; of the computations
`WidthAssumption`, `CudaAssumption`, `RowsAssumption`, `ScoresAssumption`,
`CallsAssumption`, `BudgetsAssumption`, `FileAssumption` (a graph has finitely
many edges); of the front ends `QueryAssumption` (edge lists are sequences
of local edges, items and properties are disjoint), `ConsoleAssumption`,
`WebAssumption`, `McpAssumption`. One theorem has a hypothesis of its own:
`ScheduleAlwaysCovered` speaks of the schedules that are `Roomy`.

What a recursive function computes is followed with two lemmas about sets and
functions, which need no operator as a parameter: `UpTo`, an induction up to a
bound for the members of a set, from the well-foundedness of the naturals; and
`StepByStep`, the existence of a function that is defined step by step. They
stand in each module that needs them.

* **NeuroVM_proofs.** Type correctness comes first, with lemmas about the
  frontier operators (normalization, retention, top-k) so that each action's
  case is short. The inductive invariant says of the live branch and of every
  branch point the same thing: its depth is the number of expansions in its
  proof, its nodes are supported by that proof, and its proof is a prefix of the
  next one's. It is needed because BACKTRACK makes a branch point the live
  branch: a property of the live branch alone is not inductive. From it follow
  balanced accounts, paid evidence, depth, nesting, support, reachable answers,
  and the refinement of `EvidenceTrail`.
* **CheckpointStore_proofs.** The inductive invariant says, for every place of
  the saving sequence, which entries are already durable: the generation being
  published is stored and not behind the promise before `latest.ckpt` is
  touched, and pruning begins only when `latest.ckpt` is durable. Then
  `PromiseKept` speaks of every directory a crash could leave at that moment,
  and the refinement of `RecoveryPoint` follows, for resumed runs; the abstract
  module promises nothing once the disk has damaged a file. What it costs then is
  `OneFaultOneGeneration`: as long as nothing is damaged, two generations stand
  for the promise and for the one before it, in both directories (`Spare`); after
  one fault, one of them still does (`Limping`). `JustSavedIsKept` is an argument
  by counting. Pruning takes the lowest steps, so the generation just saved only
  goes if `Keep` generations lie above it. Those belong to an abandoned future,
  and there are no more of them than `Strays`: each restart adds at most the one
  checkpoint that the dead process had not yet returned, and one for each file
  that was damaged beyond the first (`Retained` and the lemmas before it).
* **TrainerRun_proofs.** The inductive invariant (`IInv`) adds to the types: a
  phase occurs once in the list of entered phases, in memory and on disk (from
  which the bound on that list follows by counting); the checkpoint on disk is
  the state in memory wherever a copy of it is about to be taken (`States`);
  the manifest is open while a process runs (`Marked`); a process that reaches
  its end unstopped is out of time or evaluated (`Ending`); and after a critical
  sample only certain places are left for the process to be at (`Heat`). That
  each moment belongs to a phase is shown with the well-foundedness of the
  naturals, since the first phase that has not ended is a least element.
  `ProgressKept` needs that a process which has restored its state is never
  behind the checkpoint on disk nor behind the metric of `best.ckpt` (`Forward`).
  `ScheduleCovered` rests on an invariant that says the same of the process and
  of the checkpoint a restart would find (`Good`): the phases entered are the
  first ones in order, and the clock has not yet left the one after them
  (`Reached`); until there is a cost model, no cost phase that is long enough
  lags behind the samples due in it (`Measured`, `Due`); and an evaluation is
  that of the last policy, which is the one in `final.ckpt` (`Evaluated`).
  `Roomy` keeps an iteration from stepping over a phase, and the samples of a
  long enough cost phase from coming late.
* **SearchEnv_proofs.** The invariant for `ValidProofIsExecuted` is that each
  recorded predecessor of each layer stands for an edge that layer admitted,
  and that a verified path was reconstructed from the layers that are still
  there. SEED and BACKTRACK drop path and layers together, which is what keeps
  it inductive. `OverrunBounded` and `NothingRevived` have small invariants of
  their own. `DemonstrationAccepted` is about a path that is rebuilt by following
  recorded predecessors backwards, each of them the first that reached its node
  and not necessarily a demonstrated one. So its invariant (`ScriptInv`) holds
  what each query family guarantees of its task (`Shown`), that the demonstrated
  nodes are in the layers while the script is followed, and that any chain of
  recorded predecessors through all layers is a path the validator accepts.
* **ThermalControl_proofs.** `LossBounded` needs the types of the log and of the
  loop, and that nothing waits for a second append where a process ends. The
  types of the whole model rest on two facts about readings: a set of degrees
  has a highest one, and dividing by the unit undoes multiplying by it.
* **DataRelease_proofs.** The tools reach the directory by path while
  `preprocess.py` renames it, so no property of `out` alone is inductive: a
  publication that fails puts the old directory back under a running tool. The
  argument is about `Current`, the directory at the path or the one that would
  come back to it. A compilation leaves it as it was, removes it, or replaces it
  by one with a graph that no tool knew before (`Numbered`, `KnownGrows`); a
  tool changes only its own part of it (`BuildEffect`, `SplitEffect`). The rest
  of `IInv` says what each tool rests on, under the condition that `Current`
  still has the graph the tool hashed: a table was trained on that graph
  (`Sincere`, `Training`), done pairs are complete (`Prepared`), the pair in
  work is not (`Absent`), the backup of a replacement goes only beside the
  replacement (`Replaced`). From it follow `PreflightSound`, `MarkerIsLast`,
  `NothingLost` and `HeldoutFrozen`. `ResumeIsExact` needs more of a build: its
  table is the schedule of the graph it has mapped, up to its step
  (`BuildExact`). It may have read that table from a checkpoint, found by path
  beside whatever graph was there, so the invariant (`Exact`) also says that a
  checkpoint with the hash of the graph it lies beside holds that graph's
  schedule (`Faithful`), that a build which accepts one by its hash has mapped
  that graph (`Found`), and that every store is a whole schedule (`Complete`).
* **Viewers_proofs.** The terminal's invariant says that a workspace is the
  record of one selection, its relation and the facts of both, and that a
  verdict comes with the task it judges. On the page, requests are answered in
  any order, older ones after newer ones included, so what is shown is not what
  was opened. The proof (`WebInv`) says of the requests on their way that the
  newest one for a graph asks for what the user opened last (`Wanted`), of the
  canvas that it shows this if the newest answer was rendered last (`Current`),
  and of the path that it ends with the entity on the canvas once no graph is
  on its way and none has failed since. The MCP server owes an answer only
  while a worker runs (`McpInv`): the answers given are those asked for, in
  order, but the last one while its call is running.
* **Backends_proofs.** `CompiledExactly` follows the recursive passes over the
  rows of a file, for every file: ids have no gaps, offsets add up, and the
  slots of a node hold the rows that begin (or, reversed, end) at it, each
  once, and no id wraps at its width, because a file with more of them is
  refused: the run has one such width, the theorem all. For `ExpandExact` the
  invariant (`CudaInv`) says of the running kernel that the counter is the
  number of passed edges and that each of them has one place in the output, in
  whatever order the threads came; and of the second call that the probe
  counted the edges due. For `NoDeviceLeak` it says where each function of the
  library may be and for whom it runs (`FlowOk`), and which pointers are in its
  hands there: the first so many of the stage at work and, around it, all of
  the graph uploaded for the call. The device holds these and the arrays of an
  open session and no more (`DeviceOk`); a clean-up that left out one buffer,
  or a pointer that outlived its buffer, would break this at the next step. For
  `TopKExact` the invariant (`NearestInv`) only says where an answer comes
  from; the work is in the lemmas about the three algorithms, of which the
  batched search is an induction over its batches: the best of the merged rows
  are the best of all rows seen. For `PlansComplete` (`PlanInv`) the fixed plan
  is at each depth on exactly the layer that the relations reach, has paid for
  the layers before it (`Spent`, `Seen`) and knows a parent in the last layer
  for each node of this one, so that the path back from an answer is a proof
  (`PathIsProof`); the breadth-first search is on that layer and more and has
  paid at least as much. A search proof that is accepted stays on the layers
  (`ValidIsReached`), so a breadth-first search that proves its answer within
  the budget leaves the fixed plan enough for it.

`DepthIsEvidence`, `BranchesNest` and `AnswerReachable` (`NeuroVM`) and
`OverrunBounded` (`SearchEnv`) are proved and not repeated by a run.

Model-checked only: `EpisodeCloses`, `StopHonoured` and `HeatNoticed`, which are
liveness properties and out of the prover's reach. Every safety property that a
passing run checks is also the statement of a theorem.

## 5. Not modelled

Outside for good: floating-point learning (policy, PPO, cost model, embedding
numerics, scores), straight-line I/O (download, probes, exports, the GPU part of
the preflight), rendering, the command line, the launcher's shell scripts. Every
component is listed in `PROJECT.json` with its reason. Left out of components
that are modelled otherwise:

* the random stream of `data/tasks.py` and its saved position: the whole state
  of the generator is stored and restored, and a model would only say so;
* the overwrite mode of `write_embedding_store`, which no caller uses, and the
  migration of a version 1 marker in `materialize_task_splits.py`;
* the second-hop preview and the policy table of `app.js`, the labels of all
  front ends, the power, memory and clock readings of the telemetry;
* the averages of `evaluate`, the ANN baseline, which carries no proof, and the
  analysis of exported reports;
* the smoke mode of the trainer.

What could be added next, in order: a launcher module in front of `TrainerRun`,
which today is started at any time; and the tail reader of the terminal
dashboard beside `EventLog`.
