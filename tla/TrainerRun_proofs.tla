------------------------- MODULE TrainerRun_proofs -------------------------
(***************************************************************************)
(* Proofs about TrainerRun, for every schedule, every temperature and any  *)
(* number of kills, signals and restarts: the states are well formed, only *)
(* a finished run is marked completed, no iteration starts while the last  *)
(* sample was critical, saved progress is never taken back, and a schedule *)
(* that leaves room for its iterations is worked through in order.         *)
(***************************************************************************)
EXTENDS TrainerRun, FiniteSetTheorems, SequenceTheorems, WellFoundedInduction, TLAPS

\* A phase is entered at most once.
Once(state) == \A i, j \in DOMAIN state.entered : state.entered[i] = state.entered[j] => i = j

\* What a checkpoint saved of st would be.
Sound(state) == state \in Checkpoint /\ Once(state)

\* The conjuncts of TypeOK about single variables.
Simple ==
  /\ manifest \in {"none", "torn", "open", "completed"}
  /\ bestFile \in Int
  /\ finalFile \in Policies \cup {None} /\ exported \in Policies \cup {None}
  /\ traces \subseteq DOMAIN Schedule
  /\ pc \in {"down", "create", "restore", "loop", "work", "final", "evaluation", "best",
             "bestfile", "thermal", "pause", "tail", "closing", "complete"}
  /\ action \in CriticalActions
  /\ now \in Nat
  /\ stop \in BOOLEAN /\ halted \in BOOLEAN /\ finish \in BOOLEAN
  /\ last \in Levels \cup {""} /\ alarm \in BOOLEAN
  /\ failure \in BOOLEAN /\ crashes \in 0 .. MaxCrashes

States ==
  /\ Sound(st)
  /\ disk # None => Sound(disk)
  /\ pc \in {"final", "evaluation", "bestfile", "complete"} => disk # None /\ disk = st

\* The run's time is used up or its final evaluation is done.
Over(elapsed) == elapsed >= Budget \/ st.evaluated

\* How a process comes to mark the run completed.
Ending ==
  /\ pc \in {"down", "create", "restore"} => ~finish /\ last = ""
  /\ finish => st.evaluated
  /\ pc = "closing" /\ Finished => Over(now)
  /\ pc = "complete" /\ Finished => Over(st.elapsed)

\* Where a process is while the manifest is what it is.
Marked ==
  /\ pc = "create" => manifest = "torn"
  /\ pc \notin {"down", "create"} => manifest = "open"
  /\ manifest = "completed" => disk # None /\ (disk.elapsed >= Budget \/ disk.evaluated)

\* Where a process may be after a critical sample it has to act on.
Heat ==
  last = "critical" /\ action \in {"checkpoint_stop", "pause"} =>
    \/ pc \in {"best", "bestfile", "thermal"} /\ alarm
    \/ pc = "pause"
    \/ stop /\ pc \in {"tail", "loop", "closing", "complete"}
    \/ halted /\ pc \in {"closing", "complete"}

IInv == Simple /\ States /\ Ending /\ Marked /\ Heat

-----------------------------------------------------------------------------
(* The schedule *)

LEMMA ScheduleFacts ==
  /\ Len(Schedule) \in Nat \ {0} /\ DOMAIN Schedule = 1 .. Len(Schedule)
  /\ Schedule \in [1 .. Len(Schedule) -> [kind : Kinds, ticks : Nat \ {0}]]
<1>1. Schedule \in Seq([kind : Kinds, ticks : Nat \ {0}]) /\ Schedule # << >>
  BY ScheduleAssumption
<1>2. Len(Schedule) \in Nat \ {0}
  BY <1>1, EmptySeq
<1>3. DOMAIN Schedule = 1 .. Len(Schedule)
  BY <1>1, LenProperties
<1>4. Schedule \in [1 .. Len(Schedule) -> [kind : Kinds, ticks : Nat \ {0}]]
  BY <1>1, LenProperties
<1>. QED
  BY <1>2, <1>3, <1>4

\* Every moment belongs to a phase of the schedule.
LEMMA PhaseAtType ==
  ASSUME NEW elapsed \in Nat
  PROVE  PhaseAt(elapsed) \in DOMAIN Schedule
<1>1. CASE elapsed < Budget
  <2>. DEFINE Later == {i \in DOMAIN Schedule : elapsed < End[i]}
  <2>1. Later \subseteq Nat /\ Later # {}
    BY <1>1, ScheduleFacts, BudgetAssumption
  <2>2. PICK i \in Later : \A j \in Later : ~ (<<j, i>> \in OpToRel(<, Nat))
    BY <2>1, NatLessThanWellFounded, WFMin
  <2>3. \A j \in Later : i <= j
    <3>1. ASSUME NEW j \in Later, j < i PROVE <<j, i>> \in OpToRel(<, Nat)
      <4>1. <<j, i>> \in Nat \X Nat /\ <<j, i>>[1] < <<j, i>>[2]
        BY <2>1, <3>1
      <4>. QED
        BY ONLY <4>1, Zenon DEF OpToRel
    <3>2. \A j \in Later : ~(j < i)
      BY <2>2, <3>1
    <3>. QED
      BY <2>1, <3>2
  <2>4. /\ i \in DOMAIN Schedule /\ elapsed < End[i]
        /\ \A j \in DOMAIN Schedule : elapsed < End[j] => i <= j
    BY <2>3
  <2>. QED
    BY <1>1, <2>4 DEF PhaseAt
<1>2. CASE ~(elapsed < Budget)
  BY <1>2, ScheduleFacts DEF PhaseAt
<1>. QED
  BY <1>1, <1>2

\* Entered once each, there are no more phases than the schedule has.
LEMMA OnceBounds ==
  ASSUME NEW state, Sound(state)
  PROVE  Len(state.entered) <= Len(Schedule)
<1>. DEFINE e == state.entered
            n == Len(e)
<1>1. e \in Seq(DOMAIN Schedule) /\ n \in Nat /\ e \in [1 .. n -> DOMAIN Schedule]
  BY DEF Sound, Checkpoint
<1>2. e \in Injection(1 .. n, DOMAIN Schedule)
  BY <1>1 DEF Sound, Once, Injection, IsInjective
<1>3. IsFiniteSet(DOMAIN Schedule) /\ Cardinality(DOMAIN Schedule) = Len(Schedule)
  BY ScheduleFacts, FS_Interval
<1>4. Cardinality(1 .. n) = n
  BY <1>1, FS_Interval
<1>. QED
  BY <1>2, <1>3, <1>4, FS_Injection

LEMMA FreshSound == Sound(Fresh)
  BY ScheduleFacts DEF Sound, Once, Fresh, Checkpoint, Policies, NoBest

-----------------------------------------------------------------------------
(* What an iteration does to the state *)

LEMMA TopSound ==
  ASSUME Simple, Sound(st)
  PROVE  Sound(Top) /\ Top.entered = st.entered /\ Top.evaluated = st.evaluated
           /\ Top.elapsed = now
  BY DEF Simple, Sound, Once, Top, Checkpoint

\* Entering a phase keeps the list free of repetitions.
LEMMA EnterSound ==
  ASSUME Simple, Sound(st), NEW i \in DOMAIN Schedule, Enter(i)
  PROVE  Sound(st') /\ st'.evaluated = st.evaluated /\ traces' \subseteq DOMAIN Schedule
<1>1. Sound(Top) /\ Top.entered = st.entered /\ Top.evaluated = st.evaluated
  BY TopSound
<1>2. CASE \E k \in DOMAIN st.entered : st.entered[k] = i
  BY <1>1, <1>2 DEF Enter, Simple
<1>3. CASE ~ \E k \in DOMAIN st.entered : st.entered[k] = i
  <2>. DEFINE e == Append(Top.entered, i)
  <2>1. st' = [Top EXCEPT !.entered = e] /\ traces' = traces \cup {i}
    BY <1>3 DEF Enter
  <2>2. Top.entered \in Seq(DOMAIN Schedule)
    BY <1>1 DEF Sound, Checkpoint
  <2>3. /\ e \in Seq(DOMAIN Schedule) /\ Len(e) = Len(st.entered) + 1
        /\ DOMAIN e = 1 .. Len(e) /\ DOMAIN st.entered = 1 .. Len(st.entered)
        /\ Len(st.entered) \in Nat
        /\ \A k \in DOMAIN st.entered : e[k] = st.entered[k]
        /\ e[Len(e)] = i
    BY <1>1, <2>2, AppendProperties, LenProperties
  <2>4. \A k, l \in DOMAIN e : e[k] = e[l] => k = l
    <3>1. \A k \in DOMAIN e : k \in DOMAIN st.entered \/ k = Len(e)
      BY <2>3
    <3>. HIDE DEF e
    <3>. QED
      BY <1>1, <1>3, <2>3, <3>1 DEF Sound, Once
  <2>5. st' \in Checkpoint /\ st'.entered = e /\ st'.evaluated = Top.evaluated
    <3>. HIDE DEF e
    <3>. QED
      BY <1>1, <2>1, <2>3 DEF Sound, Checkpoint
  <2>. QED
    BY <1>1, <2>1, <2>4, <2>5 DEF Sound, Once, Simple
<1>. QED
  BY <1>2, <1>3

\* The end of an iteration only counts it and takes the best metric.
LEMMA ObserveSound ==
  ASSUME Simple, NEW state, Sound(state), NEW reward \in Int, Observe(state, reward)
  PROVE  /\ Sound(st') /\ st'.evaluated = state.evaluated
         /\ now' \in Nat /\ last' \in Levels /\ alarm' \in BOOLEAN
         /\ pc' \in {"best", "thermal"}
         /\ last' = "critical" => last = "critical" \/ alarm'
         /\ UNCHANGED <<action, stop, halted, failure, crashes>>
<1>. DEFINE stepped == [state EXCEPT !.step = @ + 1]
<1>1. Sound(stepped) /\ stepped.evaluated = state.evaluated
  BY DEF Sound, Once, Checkpoint
<1>2. Sound([stepped EXCEPT !.best = reward])
      /\ [stepped EXCEPT !.best = reward].evaluated = state.evaluated
  <2>. HIDE DEF stepped
  <2>. QED
    BY <1>1 DEF Sound, Once, Checkpoint
<1>3. now' \in Nat
  <2>1. PICK d \in Durations : now' = now + d
    BY DEF Observe
  <2>2. d \in Nat
    BY ScheduleAssumption
  <2>3. now \in Nat
    BY DEF Simple
  <2>. QED
    BY <2>1, <2>2, <2>3
<1>4. Sound(st') /\ st'.evaluated = state.evaluated /\ pc' \in {"best", "thermal"}
  <2>1. \/ st' = [stepped EXCEPT !.best = reward] /\ pc' = "best"
        \/ st' = stepped /\ pc' = "thermal"
    BY DEF Observe
  <2>. HIDE DEF stepped
  <2>. QED
    BY <1>1, <1>2, <2>1
<1>. QED
  BY <1>3, <1>4 DEF Observe

-----------------------------------------------------------------------------
(* The inductive invariant *)

LEMMA InitInvariant == Init => IInv
<1>. SUFFICES ASSUME Init PROVE IInv
  OBVIOUS
<1>1. Simple
  <2>1. bestFile \in Int /\ now \in Nat /\ crashes \in 0 .. MaxCrashes
    <3>1. NoBest \in Int
      BY DEF NoBest
    <3>2. 0 \in 0 .. MaxCrashes
      BY ActionAssumption
    <3>. QED
      BY <3>1, <3>2 DEF Init
  <2>. QED
    BY <2>1 DEF Init, Simple
<1>2. States
  BY FreshSound DEF Init, States
<1>3. Ending /\ Marked /\ Heat
  BY DEF Init, Ending, Marked, Heat
<1>. QED
  BY <1>1, <1>2, <1>3 DEF IInv

\* A process that ends leaves a fresh one behind.
LEMMA ExitInvariant ==
  ASSUME IInv, Exit, UNCHANGED <<disk, bestFile, finalFile, exported, traces, action>>,
         failure' \in BOOLEAN, crashes' \in 0 .. MaxCrashes,
         manifest' \in {"none", "torn", "open", "completed"},
         manifest' = "completed" => disk # None /\ (disk.elapsed >= Budget \/ disk.evaluated)
  PROVE  IInv'
<1>1. Simple'
  BY DEF IInv, Simple, Exit
<1>2. States'
  BY FreshSound DEF IInv, States, Exit
<1>3. Ending' /\ Marked' /\ Heat'
  BY DEF IInv, Ending, Marked, Heat, Exit
<1>. QED
  BY <1>1, <1>2, <1>3 DEF IInv

\* The steps that start a process.
LEMMA StartInvariant ==
  ASSUME IInv, CreateManifest \/ ManifestWritten \/ ReadManifest \/ Restore
  PROVE  IInv'
<1>. USE DEF process, files
<1>1. CASE CreateManifest
  BY <1>1 DEF CreateManifest, IInv, Simple, States, Ending, Over, Marked, Heat
<1>2. CASE ManifestWritten
  BY <1>2 DEF ManifestWritten, IInv, Simple, States, Ending, Over, Marked, Heat
<1>3. CASE ReadManifest
  BY <1>3 DEF ReadManifest, IInv, Simple, States, Ending, Over, Marked, Heat
<1>4. CASE Restore
  <2>1. Sound(Restored) /\ Restored.elapsed \in Nat
    BY FreshSound DEF IInv, States, Restored, Sound, Checkpoint
  <2>2. Simple' /\ States'
    BY <1>4, <2>1, ZenonT(60) DEF Restore, IInv, Simple, States
  <2>3. Ending' /\ Marked' /\ Heat'
    BY <1>4 DEF Restore, IInv, Ending, Marked, Heat
  <2>. QED
    BY <2>2, <2>3 DEF IInv
<1>. QED
  BY <1>1, <1>2, <1>3, <1>4

\* The steps that neither touch st nor save it.
LEMMA QuietInvariant ==
  ASSUME IInv,
         \/ LeaveLoop \/ AwaitProbe \/ AlreadyEvaluated \/ SaveFinal \/ CopyBest
         \/ Unalarmed \/ Poll \/ PauseStopped \/ Signal
  PROVE  IInv'
<1>. USE DEF process, files
<1>. now \in Nat /\ Budget \in Nat
  BY BudgetAssumption DEF IInv, Simple
<1>1. CASE LeaveLoop
  <2>1. Simple' /\ States' /\ Marked' /\ Heat'
    BY <1>1, ZenonT(60) DEF LeaveLoop, IInv, Simple, States, Marked, Heat, OnTime
  <2>2. Ending'
    BY <1>1 DEF LeaveLoop, IInv, Ending, Over, Finished, OnTime
  <2>. QED
    BY <2>1, <2>2 DEF IInv
<1>2. CASE AwaitProbe
  <2>1. now' \in Nat
    BY <1>2 DEF AwaitProbe
  <2>. QED
    BY <1>2, <2>1, ZenonT(60) DEF AwaitProbe, IInv, Simple, States, Ending, Over, Finished, Marked, Heat
<1>3. CASE AlreadyEvaluated
  BY <1>3, ZenonT(60) DEF AlreadyEvaluated, IInv, Simple, States, Ending, Over, Finished, Marked, Heat
<1>4. CASE SaveFinal
  <2>1. disk.policy \in Policies
    BY <1>4 DEF SaveFinal, IInv, States, Sound, Checkpoint
  <2>. QED
    BY <1>4, <2>1 DEF SaveFinal, IInv, Simple, States, Ending, Over, Finished, Marked, Heat
<1>5. CASE CopyBest
  <2>1. disk.best \in Int
    BY <1>5 DEF CopyBest, IInv, States, Sound, Checkpoint
  <2>. QED
    BY <1>5, <2>1, ZenonT(60) DEF CopyBest, IInv, Simple, States, Ending, Over, Finished, Marked, Heat
<1>6. CASE Unalarmed
  BY <1>6, ZenonT(60) DEF Unalarmed, IInv, Simple, States, Ending, Over, Finished, Marked, Heat
<1>7. CASE Poll
  <2>1. now' \in Nat
    BY <1>7 DEF Poll
  <2>2. PICK level \in Levels :
          IF level = "critical" THEN UNCHANGED <<last, pc>> ELSE last' = level /\ pc' = "tail"
    BY <1>7 DEF Poll
  <2>. QED
    BY <1>7, <2>1, <2>2 DEF Poll, IInv, Simple, States, Ending, Over, Finished, Marked, Heat
<1>8. CASE PauseStopped
  BY <1>8 DEF PauseStopped, IInv, Simple, States, Ending, Over, Finished, Marked, Heat
<1>9. CASE Signal
  <2>1. Simple'
    <3>1. pc' \in {"down", "create", "restore", "loop", "work", "final", "evaluation", "best",
                   "bestfile", "thermal", "pause", "tail", "closing", "complete"}
      BY <1>9 DEF Signal, IInv, Simple
    <3>. QED
      BY <1>9, <3>1 DEF Signal, IInv, Simple
  <2>4. States'
    BY <1>9 DEF Signal, IInv, States
  <2>3. Marked' /\ Heat'
    BY <1>9 DEF Signal, IInv, Marked, Heat
  <2>2. Ending'
    BY <1>9 DEF Signal, IInv, Ending, Finished
  <2>. QED
    BY <2>1, <2>2, <2>3, <2>4 DEF IInv
<1>. QED
  BY <1>1, <1>2, <1>3, <1>4, <1>5, <1>6, <1>7, <1>8, <1>9

\* The steps that save st.
LEMMA SaveInvariant ==
  ASSUME IInv,
         \/ DiskReserve \/ BeforeEvaluation \/ SaveBest \/ Alarmed \/ PeriodicSave \/ Close
  PROVE  IInv'
<1>. USE DEF process, files
<1>. st # None /\ Sound(st) /\ now \in Nat /\ Budget \in Nat
  BY BudgetAssumption, NoneAssumption DEF IInv, Simple, States, Sound
<1>. Sound(Top) /\ Top # None /\ Top.evaluated = st.evaluated /\ Top.elapsed = now
  BY TopSound, NoneAssumption DEF IInv, Sound
<1>1. CASE DiskReserve
  BY <1>1 DEF DiskReserve, Save, IInv, Simple, States, Ending, Over, Finished, Marked, Heat, OnTime
<1>2. CASE BeforeEvaluation
  <2>1. Simple' /\ States'
    BY <1>2 DEF BeforeEvaluation, Save, IInv, Simple, States
  <2>2. Ending' /\ Marked' /\ Heat'
    BY <1>2 DEF BeforeEvaluation, Save, IInv, Ending, Over, Finished, Marked, Heat
  <2>. QED
    BY <2>1, <2>2 DEF IInv
<1>3. CASE SaveBest
  <2>1. Simple' /\ States'
    BY <1>3 DEF SaveBest, Save, IInv, Simple, States
  <2>2. Ending' /\ Marked' /\ Heat'
    BY <1>3 DEF SaveBest, Save, IInv, Ending, Over, Finished, Marked, Heat
  <2>. QED
    BY <2>1, <2>2 DEF IInv
<1>4. CASE Alarmed
  BY <1>4 DEF Alarmed, Save, IInv, Simple, States, Ending, Over, Finished, Marked, Heat
<1>5. CASE PeriodicSave
  BY <1>5, ZenonT(60) DEF PeriodicSave, Save, IInv, Simple, States, Ending, Over, Finished, Marked, Heat
<1>6. CASE Close
  BY <1>6, ZenonT(60) DEF Close, Save, IInv, Simple, States, Ending, Over, Finished, Marked, Heat
<1>. QED
  BY <1>1, <1>2, <1>3, <1>4, <1>5, <1>6

\* The steps that work in an iteration.
LEMMA WorkInvariant ==
  ASSUME IInv, Iterate \/ Probe \/ Learn \/ Evaluate
  PROVE  IInv'
<1>. USE DEF process, files
<1>. Simple /\ Sound(st) /\ now \in Nat /\ Budget \in Nat
  BY BudgetAssumption DEF IInv, Simple, States
<1>1. CASE Iterate
  <2>1. PhaseAt(now) \in DOMAIN Schedule
    BY PhaseAtType
  <2>2. Sound(st') /\ st'.evaluated = st.evaluated /\ traces' \subseteq DOMAIN Schedule
    BY <1>1, <2>1, EnterSound DEF Iterate
  <2>3. Simple' /\ States' /\ Marked' /\ Heat'
    BY <1>1, <2>2 DEF Iterate, OnTime, IInv, Simple, States, Marked, Heat
  <2>4. Ending'
    BY <1>1, <2>2 DEF Iterate, IInv, Ending
  <2>. QED
    BY <2>3, <2>4 DEF IInv
<1>2. ASSUME NEW state, Sound(state), NEW reward \in Int, Observe(state, reward),
             pc \in {"work", "evaluation"}, finish' => state.evaluated,
             finish' \in BOOLEAN, exported' \in Policies \cup {None},
             UNCHANGED <<manifest, disk, bestFile, finalFile, traces>>
      PROVE  IInv'
  <2>1. /\ Sound(st') /\ st'.evaluated = state.evaluated
        /\ now' \in Nat /\ last' \in Levels /\ alarm' \in BOOLEAN
        /\ pc' \in {"best", "thermal"}
        /\ last' = "critical" => last = "critical" \/ alarm'
        /\ UNCHANGED <<action, stop, halted, failure, crashes>>
    BY <1>2, ObserveSound
  <2>2. Simple' /\ States' /\ Marked'
    BY <1>2, <2>1 DEF IInv, Simple, States, Marked
  <2>3. Ending' /\ Heat'
    BY <1>2, <2>1 DEF IInv, Ending, Heat
  <2>. QED
    BY <2>2, <2>3 DEF IInv
<1>3. CASE Probe
  <2>. DEFINE probed  == [st EXCEPT !.nextProbe = st.elapsed + Interval]
              sampled == [probed EXCEPT !.samples = @ + 1,
                                        !.costModel = (@ \/ st.samples + 1 >= Needed)]
  <2>1. Sound(probed) /\ probed.evaluated = st.evaluated
    <3>. DEFINE next == st.elapsed + Interval
    <3>1. next \in Nat
      BY ScheduleAssumption DEF Sound, Checkpoint
    <3>. HIDE DEF next
    <3>2. Sound([st EXCEPT !.nextProbe = next])
          /\ [st EXCEPT !.nextProbe = next].evaluated = st.evaluated
      BY <3>1 DEF Sound, Once, Checkpoint
    <3>. QED
      BY <3>2 DEF next
  <2>2. PICK cost \in BOOLEAN : sampled = [probed EXCEPT !.samples = @ + 1, !.costModel = cost]
    OBVIOUS
  <2>3. Sound(sampled) /\ sampled.evaluated = st.evaluated
    <3>. HIDE DEF probed
    <3>1. probed.samples + 1 \in Nat
      BY <2>1 DEF Sound, Checkpoint
    <3>2. /\ Sound([probed EXCEPT !.samples = probed.samples + 1, !.costModel = cost])
          /\ [probed EXCEPT !.samples = probed.samples + 1, !.costModel = cost].evaluated
               = probed.evaluated
      BY <2>1, <3>1 DEF Sound, Once, Checkpoint
    <3>. QED
      BY <2>1, <2>2, <3>2
  <2>4. PICK state \in {probed, sampled} : Observe(state, 0)
    BY <1>3 DEF Probe
  <2>5. Sound(state) /\ state.evaluated = st.evaluated
    BY <2>1, <2>3, <2>4
  <2>6. /\ pc = "work"
        /\ finish' => state.evaluated
        /\ finish' \in BOOLEAN /\ exported' \in Policies \cup {None}
        /\ UNCHANGED <<manifest, disk, bestFile, finalFile, traces>>
    BY <1>3, <2>5 DEF Probe, IInv, Simple, Ending
  <2>. QED
    BY <1>2, <1>3, <2>4, <2>5, <2>6 DEF Probe
<1>4. CASE Learn
  <2>. DEFINE state == [st EXCEPT !.policy = <<@[1] + 1, crashes>>]
  <2>1. <<st.policy[1] + 1, crashes>> \in Policies
    <3>1. crashes \in 0 .. MaxCrashes /\ MaxCrashes \in Nat
      BY ActionAssumption DEF Simple
    <3>2. st.policy \in Nat \X Nat
      BY DEF Sound, Checkpoint, Policies
    <3>. QED
      BY <3>1, <3>2 DEF Policies
  <2>2. Sound(state) /\ state.evaluated = st.evaluated
    <3>. DEFINE next == <<st.policy[1] + 1, crashes>>
    <3>. HIDE DEF next
    <3>1. Sound([st EXCEPT !.policy = next])
          /\ [st EXCEPT !.policy = next].evaluated = st.evaluated
      BY <2>1 DEF Sound, Once, Checkpoint, next
    <3>. QED
      BY <3>1 DEF next
  <2>3. PICK r \in Rewards : Observe(state, r)
    BY <1>4 DEF Learn
  <2>4. r \in Int
    BY RewardAssumption
  <2>5. /\ pc = "work"
        /\ finish' => state.evaluated
        /\ finish' \in BOOLEAN /\ exported' \in Policies \cup {None}
        /\ UNCHANGED <<manifest, disk, bestFile, finalFile, traces>>
    BY <1>4, <2>2 DEF Learn, IInv, Simple, Ending
  <2>. HIDE DEF state
  <2>. QED
    BY <1>2, <2>2, <2>3, <2>4, <2>5
<1>5. CASE Evaluate
  <2>. DEFINE state == [st EXCEPT !.evaluated = TRUE]
  <2>1. Sound(state) /\ state.evaluated
    BY DEF Sound, Once, Checkpoint
  <2>2. /\ pc = "evaluation" /\ finish' \in BOOLEAN /\ exported' \in Policies \cup {None}
        /\ UNCHANGED <<manifest, disk, bestFile, finalFile, traces>>
        /\ Observe(state, 0)
    BY <1>5 DEF Evaluate, Sound, Checkpoint
  <2>. HIDE DEF state
  <2>. QED
    BY <1>2, <2>1, <2>2
<1>. QED
  BY <1>1, <1>3, <1>4, <1>5

\* The steps that end a process.
LEMMA EndInvariant ==
  ASSUME IInv, NoCostModel \/ Complete \/ Kill
  PROVE  IInv'
<1>. USE DEF files
<1>1. CASE NoCostModel
  BY <1>1, ExitInvariant DEF NoCostModel, IInv, Simple, Marked
<1>2. CASE Complete
  <2>1. Finished => disk # None /\ (disk.elapsed >= Budget \/ disk.evaluated)
    BY <1>2 DEF Complete, IInv, States, Ending, Over
  <2>2. manifest' = "completed" => disk # None /\ (disk.elapsed >= Budget \/ disk.evaluated)
    BY <1>2, <2>1 DEF Complete, IInv, Marked
  <2>. QED
    BY <1>2, <2>2, ExitInvariant DEF Complete, IInv, Simple
<1>3. CASE Kill
  <2>1. crashes' \in 0 .. MaxCrashes
    <3>1. crashes \in 0 .. MaxCrashes /\ MaxCrashes \in Nat
      BY ActionAssumption DEF IInv, Simple
    <3>2. crashes < MaxCrashes /\ crashes' = crashes + 1
      BY <1>3 DEF Kill
    <3>. QED
      BY <3>1, <3>2
  <2>. QED
    BY <1>3, <2>1, ExitInvariant DEF Kill, IInv, Simple, Marked
<1>. QED
  BY <1>1, <1>2, <1>3

THEOREM Inductive == Spec => []IInv
<1>1. Init => IInv
  BY InitInvariant
<1>2. IInv /\ [Next]_vars => IInv'
  <2>. SUFFICES ASSUME IInv, [Next]_vars PROVE IInv'
    OBVIOUS
  <2>1. CASE Next
    BY <2>1, StartInvariant, QuietInvariant, SaveInvariant, WorkInvariant, EndInvariant
       DEF Next, Trainer, Launch
  <2>2. CASE UNCHANGED vars
    <3>. USE <2>2 DEF vars, files, process
    <3>1. Simple'
      <4>1. pc' \in {"down", "create", "restore", "loop", "work", "final", "evaluation", "best",
                     "bestfile", "thermal", "pause", "tail", "closing", "complete"}
        BY DEF IInv, Simple
      <4>. QED
        BY <4>1 DEF IInv, Simple
    <3>3. States'
      BY DEF IInv, States
    <3>2. Ending' /\ Marked' /\ Heat'
      BY DEF IInv, Ending, Over, Finished, Marked, Heat
    <3>. QED
      BY <3>1, <3>2, <3>3 DEF IInv
  <2>. QED
    BY <2>1, <2>2
<1>. QED
  BY <1>1, <1>2, PTL DEF Spec

-----------------------------------------------------------------------------
(* Progress *)

\* One list of phases continues another.
Continues(later, earlier) ==
  \E k \in 0 .. Len(later) : earlier = SubSeq(later, 1, k)

\* One state of a run comes after another, in the order of the saved progress.
Ahead(later, earlier) ==
  /\ later.step >= earlier.step /\ later.elapsed >= earlier.elapsed
  /\ later.best >= earlier.best
  /\ Continues(later.entered, earlier.entered)

Works == pc \notin {"down", "create", "restore"}

\* A process that has restored works ahead of the checkpoint on disk, and of the
\* metric of best.ckpt.
Forward ==
  /\ IF disk = None THEN bestFile = NoBest ELSE disk.best >= bestFile
  /\ Works => /\ now >= st.elapsed /\ st.best >= bestFile
              /\ disk # None => Ahead(st, disk)

\* What ProgressKept says of a step.
Kept ==
  /\ bestFile' >= bestFile
  /\ disk # None =>
       /\ disk'.step >= disk.step /\ disk'.elapsed >= disk.elapsed /\ disk'.best >= disk.best
       /\ \E k \in 0 .. Len(disk'.entered) : disk.entered = SubSeq(disk'.entered, 1, k)

LEMMA ContinuesFacts ==
  ASSUME NEW s \in Seq(DOMAIN Schedule), NEW i \in DOMAIN Schedule
  PROVE  /\ Continues(s, s)
         /\ \A t : Continues(s, t) => Continues(Append(s, i), t)
<1>1. s = SubSeq(s, 1, Len(s)) /\ Len(s) \in 0 .. Len(s)
  BY LenProperties
<1>2. ASSUME NEW k \in 0 .. Len(s)
      PROVE  k \in 0 .. Len(Append(s, i)) /\ SubSeq(Append(s, i), 1, k) = SubSeq(s, 1, k)
  <2>1. Append(s, i) \in Seq(DOMAIN Schedule) /\ Len(Append(s, i)) = Len(s) + 1
    OBVIOUS
  <2>2. k \in 0 .. Len(Append(s, i))
    BY <2>1, LenProperties
  <2>3. \A j \in 1 .. k : Append(s, i)[j] = s[j]
    BY LenProperties, AppendProperties
  <2>. QED
    BY <2>1, <2>2, <2>3, LenProperties
<1>. QED
  BY <1>1, <1>2 DEF Continues

LEMMA AheadReflexive ==
  ASSUME NEW state, Sound(state)
  PROVE  Ahead(state, state)
<1>1. 1 \in DOMAIN Schedule
  BY ScheduleFacts
<1>2. Continues(state.entered, state.entered)
  BY ContinuesFacts, <1>1 DEF Sound, Checkpoint
<1>. QED
  BY <1>2 DEF Ahead, Sound, Checkpoint

\* What an iteration changes leaves a state ahead of what it was ahead of.
LEMMA StaysAhead ==
  ASSUME NEW state, Sound(state), NEW next, Sound(next), NEW saved, Sound(saved),
         Ahead(state, saved),
         next.step >= state.step, next.elapsed >= state.elapsed, next.best >= state.best,
         \/ next.entered = state.entered
         \/ \E i \in DOMAIN Schedule : next.entered = Append(state.entered, i)
  PROVE  Ahead(next, saved)
<1>1. \A s \in {next, state, saved} :
        s.step \in Nat /\ s.elapsed \in Nat /\ s.best \in Int /\ s.entered \in Seq(DOMAIN Schedule)
  BY DEF Sound, Checkpoint
<1>2. Continues(next.entered, saved.entered)
  <2>1. state.entered \in Seq(DOMAIN Schedule) /\ Continues(state.entered, saved.entered)
    BY <1>1 DEF Ahead
  <2>2. CASE next.entered = state.entered
    BY <2>1, <2>2
  <2>3. CASE \E i \in DOMAIN Schedule : next.entered = Append(state.entered, i)
    BY <2>1, <2>3, ContinuesFacts
  <2>. QED
    BY <2>2, <2>3
<1>3. next.step >= saved.step /\ next.elapsed >= saved.elapsed /\ next.best >= saved.best
  <2>1. state.step >= saved.step /\ state.elapsed >= saved.elapsed /\ state.best >= saved.best
    BY DEF Ahead
  <2>. QED
    BY <1>1, <2>1, SMTT(60)
<1>. QED
  BY <1>2, <1>3 DEF Ahead

\* A step that leaves the checkpoint alone, the process working or ending.
LEMMA LeavesDisk ==
  ASSUME IInv, IInv', Forward, UNCHANGED <<disk, bestFile>>,
         Works' => /\ Works /\ now' >= st'.elapsed
                   /\ st'.step >= st.step /\ st'.elapsed >= st.elapsed /\ st'.best >= st.best
                   /\ \/ st'.entered = st.entered
                      \/ \E i \in DOMAIN Schedule : st'.entered = Append(st.entered, i)
  PROVE  Forward' /\ Kept
<1>1. disk # None => Sound(disk) /\ Ahead(disk, disk)
  BY AheadReflexive DEF IInv, States
<1>2. bestFile \in Int /\ Sound(st) /\ Sound(st')
  BY DEF IInv, Simple, States
<1>3. Kept
  BY <1>1, <1>2 DEF Kept, Ahead, Continues
<1>4. Works' => st'.best >= bestFile
  BY <1>2 DEF Forward, Sound, Checkpoint
<1>5. Works' /\ disk # None => Ahead(st', disk)
  BY <1>1, <1>2, StaysAhead DEF Forward
<1>. QED
  BY <1>3, <1>4, <1>5 DEF Forward

\* A step that saves the state it leaves the process with.
LEMMA SavesState ==
  ASSUME IInv, IInv', Forward, Works, disk' = st', UNCHANGED bestFile,
         st' = st \/ st' = Top, UNCHANGED now
  PROVE  Forward' /\ Kept
<1>1. bestFile \in Int /\ Sound(st) /\ Sound(st') /\ now \in Nat /\ disk' # None
  BY NoneAssumption DEF IInv, Simple, States, Sound
<1>2. /\ st'.step = st.step /\ st'.best = st.best /\ st'.entered = st.entered
      /\ st'.elapsed >= st.elapsed /\ now >= st'.elapsed
  BY <1>1 DEF Top, Forward, Sound, Checkpoint
<1>3. st'.best >= bestFile /\ Ahead(st', st')
  BY <1>1, <1>2, AheadReflexive DEF Forward
<1>4. disk # None => Ahead(st', disk)
  <2>1. st'.step >= st.step /\ st'.elapsed >= st.elapsed /\ st'.best >= st.best
    BY <1>1, <1>2 DEF Sound, Checkpoint
  <2>. QED
    BY <1>1, <1>2, <2>1, StaysAhead DEF Forward, IInv, States
<1>. QED
  BY <1>1, <1>2, <1>3, <1>4 DEF Forward, Kept, Ahead, Continues

LEMMA ForwardStep ==
  ASSUME IInv, IInv', Forward, [Next]_vars
  PROVE  Forward' /\ Kept
<1>. USE DEF process, files, Works
<1>1. Sound(st) /\ Sound(st') /\ now \in Nat /\ now' \in Nat /\ bestFile \in Int
  BY DEF IInv, States, Simple
<1>2. /\ st.step \in Nat /\ st.elapsed \in Nat /\ st.best \in Int
      /\ st'.step \in Nat /\ st'.elapsed \in Nat /\ st'.best \in Int
  BY <1>1 DEF Sound, Checkpoint
<1>3. CASE CreateManifest \/ ManifestWritten \/ ReadManifest
  BY <1>3, LeavesDisk DEF CreateManifest, ManifestWritten, ReadManifest
<1>4. CASE Restore
  <2>1. /\ st' = Restored /\ now' = st'.elapsed /\ UNCHANGED <<disk, bestFile>>
    BY <1>4 DEF Restore
  <2>2. CASE disk = None
    BY <1>1, <1>2, <2>1, <2>2 DEF Restored, Fresh, Forward, Kept, NoBest
  <2>3. CASE disk # None
    <3>1. st' = disk /\ Ahead(disk, disk)
      BY <2>1, <2>3, AheadReflexive DEF Restored, IInv, States
    <3>2. st'.best >= bestFile
      BY <1>1, <1>2, <2>1, <2>3, <3>1 DEF Forward, NoBest
    <3>. QED
      BY <1>1, <1>2, <2>1, <2>3, <3>1, <3>2 DEF Forward, Kept, Ahead, Continues
  <2>. QED
    BY <2>2, <2>3
<1>5. CASE NoCostModel \/ Complete \/ Kill
  BY <1>5, LeavesDisk DEF NoCostModel, Complete, Kill, Exit
<1>6. CASE LeaveLoop \/ AwaitProbe \/ AlreadyEvaluated \/ SaveFinal \/ Unalarmed \/ Poll
           \/ PauseStopped \/ Signal
  <2>1. /\ UNCHANGED <<disk, bestFile, st>> /\ Works /\ now' >= now
    BY <1>1, <1>6 DEF LeaveLoop, AwaitProbe, AlreadyEvaluated, SaveFinal, Unalarmed, Poll,
                      PauseStopped, Signal
  <2>2. now' >= st'.elapsed
    BY <1>1, <1>2, <2>1 DEF Forward
  <2>. QED
    BY <1>2, <2>1, <2>2, LeavesDisk
<1>7. CASE CopyBest
  <2>1. /\ bestFile' = disk.best /\ disk = st /\ disk # None /\ UNCHANGED <<disk, st, now>>
        /\ Works /\ Works'
    BY <1>7 DEF CopyBest, IInv, States
  <2>. QED
    BY <1>1, <1>2, <2>1 DEF Forward, Kept, Ahead, Continues
<1>8. CASE DiskReserve \/ BeforeEvaluation \/ SaveBest \/ Close
  BY <1>8, SavesState DEF DiskReserve, BeforeEvaluation, SaveBest, Close, Save
<1>9. CASE Alarmed
  BY <1>9, SavesState DEF Alarmed, Save
<1>10. CASE PeriodicSave
  <2>1. CASE UNCHANGED disk
    <3>1. now' >= st'.elapsed
      BY <1>10 DEF PeriodicSave, Forward
    <3>. QED
      BY <1>2, <1>10, <2>1, <3>1, LeavesDisk DEF PeriodicSave
  <2>2. CASE Save(st)
    BY <1>10, <2>2, SavesState DEF PeriodicSave, Save
  <2>. QED
    BY <1>10, <2>1, <2>2 DEF PeriodicSave
<1>11. CASE Iterate
  <2>1. PhaseAt(now) \in DOMAIN Schedule
    BY <1>1, PhaseAtType
  <2>2. /\ st'.step = st.step /\ st'.best = st.best /\ st'.elapsed = now
        /\ st'.entered = st.entered \/ st'.entered = Append(st.entered, PhaseAt(now))
    BY <1>1, <1>11 DEF Iterate, Enter, Top, Sound, Checkpoint
  <2>3. now' >= st'.elapsed /\ st'.elapsed >= st.elapsed
    BY <1>1, <1>11, <2>2 DEF Iterate, Forward
  <2>. QED
    BY <1>2, <1>11, <2>1, <2>2, <2>3, LeavesDisk DEF Iterate
<1>12. ASSUME NEW state, NEW reward \in Int, Observe(state, reward), Works, Sound(state),
              UNCHANGED <<disk, bestFile>>,
              state.step = st.step, state.elapsed = st.elapsed, state.best = st.best,
              state.entered = st.entered
       PROVE  Forward' /\ Kept
  <2>1. \/ st' = [[state EXCEPT !.step = @ + 1] EXCEPT !.best = reward] /\ reward > state.best
        \/ st' = [state EXCEPT !.step = @ + 1]
    BY <1>12 DEF Observe
  <2>2. /\ st'.step >= st.step /\ st'.elapsed = st.elapsed /\ st'.best >= st.best
        /\ st'.entered = st.entered
    <3>1. state.step \in Nat /\ state.best \in Int /\ state \in Checkpoint
      BY <1>12 DEF Sound, Checkpoint
    <3>2. \A best \in Int :
            /\ [state EXCEPT !.step = @ + 1].step = state.step + 1
            /\ [state EXCEPT !.step = @ + 1].best = state.best
            /\ [state EXCEPT !.step = @ + 1].elapsed = state.elapsed
            /\ [state EXCEPT !.step = @ + 1].entered = state.entered
            /\ [[state EXCEPT !.step = @ + 1] EXCEPT !.best = best].step = state.step + 1
            /\ [[state EXCEPT !.step = @ + 1] EXCEPT !.best = best].best = best
            /\ [[state EXCEPT !.step = @ + 1] EXCEPT !.best = best].elapsed = state.elapsed
            /\ [[state EXCEPT !.step = @ + 1] EXCEPT !.best = best].entered = state.entered
      BY <3>1 DEF Checkpoint
    <3>3. /\ st'.step = state.step + 1 /\ st'.elapsed = state.elapsed
          /\ st'.entered = state.entered
          /\ st'.best = state.best \/ (st'.best = reward /\ reward > state.best)
      BY <1>12, <2>1, <3>2
    <3>. QED
      BY <1>2, <1>12, <3>1, <3>3
  <2>3. now' >= now
    <3>1. PICK d \in Durations : now' = now + d
      BY <1>12 DEF Observe
    <3>. QED
      BY <1>1, <3>1, ScheduleAssumption
  <2>. QED
    BY <1>1, <1>2, <1>12, <2>2, <2>3, LeavesDisk DEF Forward
<1>13. CASE Probe
  <2>. DEFINE probed  == [st EXCEPT !.nextProbe = st.elapsed + Interval]
              sampled == [probed EXCEPT !.samples = @ + 1,
                                        !.costModel = (@ \/ st.samples + 1 >= Needed)]
  <2>1. ASSUME NEW next \in Nat
        PROVE  LET a == [st EXCEPT !.nextProbe = next]
               IN  /\ Sound(a) /\ a.step = st.step /\ a.elapsed = st.elapsed
                   /\ a.best = st.best /\ a.entered = st.entered
    BY <1>1 DEF Sound, Once, Checkpoint
  <2>2. st.elapsed + Interval \in Nat /\ st.samples + 1 \in Nat
    <3>1. st.samples \in Nat /\ Interval \in Nat
      BY <1>1, ScheduleAssumption DEF Sound, Checkpoint
    <3>. QED
      BY <1>2, <3>1
  <2>3. PICK cost \in BOOLEAN :
          sampled = [probed EXCEPT !.samples = st.samples + 1, !.costModel = cost]
    <3>1. probed.samples = st.samples
      BY <1>1 DEF Sound, Checkpoint
    <3>. QED
      BY <3>1
  <2>4. PICK state \in {probed, sampled} : Observe(state, 0)
    BY <1>13 DEF Probe
  <2>5. /\ Sound(state) /\ state.step = st.step /\ state.elapsed = st.elapsed
        /\ state.best = st.best /\ state.entered = st.entered
    <3>. DEFINE next == st.elapsed + Interval
                samples == st.samples + 1
    <3>1. state \in {[st EXCEPT !.nextProbe = next],
                     [[st EXCEPT !.nextProbe = next] EXCEPT !.samples = samples, !.costModel = cost]}
      BY <2>3, <2>4
    <3>2. next \in Nat /\ samples \in Nat
      BY <2>2
    <3>. HIDE DEF next, samples, probed, sampled
    <3>3. CASE state = [st EXCEPT !.nextProbe = next]
      BY <2>1, <3>2, <3>3
    <3>4. CASE state = [[st EXCEPT !.nextProbe = next] EXCEPT !.samples = samples,
                                                              !.costModel = cost]
      <4>1. PICK a : a = [st EXCEPT !.nextProbe = next]
        OBVIOUS
      <4>2. /\ Sound(a) /\ a.step = st.step /\ a.elapsed = st.elapsed
            /\ a.best = st.best /\ a.entered = st.entered
        BY <2>1, <3>2, <4>1
      <4>3. state = [a EXCEPT !.samples = samples, !.costModel = cost]
        BY <3>4, <4>1
      <4>. QED
        BY <3>2, <4>2, <4>3 DEF Sound, Once, Checkpoint
    <3>. QED
      BY <3>1, <3>3, <3>4
  <2>. HIDE DEF probed, sampled
  <2>. QED
    BY <1>12, <1>13, <2>4, <2>5 DEF Probe
<1>14. CASE Learn
  <2>. DEFINE state == [st EXCEPT !.policy = <<@[1] + 1, crashes>>]
  <2>1. <<st.policy[1] + 1, crashes>> \in Policies
    <3>1. crashes \in 0 .. MaxCrashes /\ MaxCrashes \in Nat /\ st.policy \in Nat \X Nat
      BY <1>1, ActionAssumption DEF IInv, Simple, Sound, Checkpoint, Policies
    <3>. QED
      BY <3>1 DEF Policies
  <2>2. ASSUME NEW policy \in Policies
        PROVE  LET s == [st EXCEPT !.policy = policy]
               IN  /\ Sound(s) /\ s.step = st.step /\ s.elapsed = st.elapsed
                   /\ s.best = st.best /\ s.entered = st.entered
    BY <1>1 DEF Sound, Once, Checkpoint
  <2>3. PICK r \in Rewards : Observe(state, r)
    BY <1>14 DEF Learn
  <2>4. /\ Sound(state) /\ state.step = st.step /\ state.elapsed = st.elapsed
        /\ state.best = st.best /\ state.entered = st.entered
    BY <2>1, <2>2
  <2>. HIDE DEF state
  <2>. QED
    BY <1>12, <1>14, <2>3, <2>4, RewardAssumption DEF Learn
<1>15. CASE Evaluate
  <2>. DEFINE state == [st EXCEPT !.evaluated = TRUE]
  <2>1. /\ Sound(state) /\ state.step = st.step /\ state.elapsed = st.elapsed
        /\ state.best = st.best /\ state.entered = st.entered
    BY <1>1 DEF Sound, Once, Checkpoint
  <2>2. Observe(state, 0)
    BY <1>15 DEF Evaluate
  <2>. HIDE DEF state
  <2>. QED
    BY <1>12, <1>15, <2>1, <2>2 DEF Evaluate
<1>16. CASE UNCHANGED vars
  <2>1. now' >= st'.elapsed \/ ~Works'
    BY <1>16 DEF vars, Forward
  <2>. QED
    BY <1>2, <1>16, <2>1, LeavesDisk DEF vars
<1>. QED
  BY <1>3, <1>4, <1>5, <1>6, <1>7, <1>8, <1>9, <1>10, <1>11, <1>13, <1>14, <1>15, <1>16
     DEF Next, Trainer, Launch

-----------------------------------------------------------------------------
(* Theorems *)

(* Every state is well formed, and no phase is entered more often than the *)
(* schedule names it, across all kills and restarts.                       *)
THEOREM TypeCorrect == Spec => []TypeOK
<1>1. IInv => TypeOK
  <2>. SUFFICES ASSUME IInv PROVE TypeOK
    OBVIOUS
  <2>1. Len(st.entered) <= Len(Schedule)
    BY OnceBounds DEF IInv, States
  <2>. QED
    BY <2>1 DEF IInv, Simple, States, Sound, TypeOK
<1>. QED
  BY <1>1, Inductive, PTL

(* Neither a signal nor a critical temperature nor a full disk nor a kill  *)
(* ever makes an unfinished run look completed, so that its next launch    *)
(* would be refused.                                                       *)
THEOREM CompletionIsEarned == Spec => []CompletedIsFinished
<1>1. IInv => CompletedIsFinished
  BY DEF IInv, Marked, CompletedIsFinished
<1>. QED
  BY <1>1, Inductive, PTL

(* A process told to stop or to pause on a critical temperature starts no  *)
(* further iteration while its last sample was critical.                   *)
THEOREM HeatStopsWork == Spec => []NoWorkWhileCritical
<1>1. IInv => NoWorkWhileCritical
  BY DEF IInv, Heat, NoWorkWhileCritical
<1>. QED
  BY <1>1, Inductive, PTL

(* Whatever is killed, signalled or restarted, no step takes back saved progress, and *)
(* best.ckpt is never replaced by a worse policy (trainer.py, _checkpoint, main).     *)
THEOREM ProgressAlwaysKept == Spec => ProgressKept
<1>1. Init => Forward
  <2>1. bestFile \in Int => bestFile >= bestFile
    OBVIOUS
  <2>. QED
    BY DEF Init, Forward, Works
<1>2. IInv /\ IInv' /\ Forward /\ [Next]_vars => Forward' /\ Kept
  BY ForwardStep
<1>3. Kept => [Kept]_vars
  OBVIOUS
<1>4. ProgressKept <=> [][Kept]_vars
  BY DEF ProgressKept, Kept
<1>. QED
  BY <1>1, <1>2, <1>4, Inductive, PTL DEF Spec
-----------------------------------------------------------------------------
(* When the phases end.  The ends are defined recursively: two lemmas that    *)
(* speak of sets and functions only give an induction up to a bound and the   *)
(* function that is defined.                                                  *)

LEMMA LeastIs ==
  ASSUME NEW S, S \subseteq Nat, S # {}
  PROVE  \E m \in S : \A k \in S : m <= k
<1>1. PICK m \in S : \A k \in S : ~ (<<k, m>> \in OpToRel(<, Nat))
  BY NatLessThanWellFounded, WFMin
<1>2. ASSUME NEW k \in S, k < m PROVE <<k, m>> \in OpToRel(<, Nat)
  <2>1. <<k, m>> \in Nat \X Nat /\ <<k, m>>[1] < <<k, m>>[2]
    BY <1>2
  <2>. QED
    BY ONLY <2>1, Zenon DEF OpToRel
<1>3. \A k \in S : ~ (k < m)
  BY <1>1, <1>2
<1>. QED
  BY <1>3

LEMMA UpTo ==
  ASSUME NEW n \in Nat, NEW P, 0 \in P, \A i \in 1 .. n : i - 1 \in P => i \in P
  PROVE  \A i \in 0 .. n : i \in P
<1>. DEFINE Bad == {i \in 0 .. n : i \notin P}
<1>. SUFFICES ASSUME Bad # {} PROVE FALSE
  OBVIOUS
<1>1. PICK m \in Bad : \A k \in Bad : m <= k
  <2>1. Bad \subseteq Nat
    OBVIOUS
  <2>. HIDE DEF Bad
  <2>. QED
    BY <2>1, LeastIs
<1>2. m \in 1 .. n /\ m - 1 \in 0 .. n /\ m - 1 \notin Bad
  BY <1>1
<1>. QED
  BY <1>2

\* A function that is defined step by step from a first value exists.
Maps(n, S) == [1 .. n -> [S -> S]]
Follows(f, n, S, base, step) ==
  f \in [0 .. n -> S] /\ f[0] = base /\ \A i \in 1 .. n : f[i] = step[i][f[i - 1]]

LEMMA StepByStep ==
  ASSUME NEW n \in Nat, NEW S, NEW base \in S, NEW step \in Maps(n, S)
  PROVE  \E f : Follows(f, n, S, base, step)
<1>. DEFINE Goes(g, m) == /\ g \in [0 .. m -> S] /\ g[0] = base
                          /\ \A i \in 1 .. m : g[i] = step[i][g[i - 1]]
            P == {m \in 0 .. n : \E g : Goes(g, m)}
<1>. USE DEF Maps
<1>1. 0 \in P
  <2>. DEFINE g == [i \in 0 .. 0 |-> base]
  <2>1. Goes(g, 0)
    OBVIOUS
  <2>. HIDE DEF Goes, g
  <2>. QED
    BY <2>1
<1>2. ASSUME NEW m \in 1 .. n, m - 1 \in P PROVE m \in P
  <2>1. PICK g : Goes(g, m - 1)
    BY <1>2
  <2>. DEFINE h == [i \in 0 .. m |-> IF i = m THEN step[m][g[m - 1]] ELSE g[i]]
  <2>2. step[m] \in [S -> S] /\ g[m - 1] \in S
    BY <2>1
  <2>3. h \in [0 .. m -> S]
    BY <2>1, <2>2
  <2>4. ASSUME NEW i \in 1 .. m PROVE h[i] = step[i][h[i - 1]]
    <3>1. CASE i = m
      <4>1. h[m] = step[m][g[m - 1]] /\ h[m - 1] = g[m - 1]
        OBVIOUS
      <4>. QED
        BY <3>1, <4>1
    <3>2. CASE i # m
      <4>1. h[i] = g[i] /\ h[i - 1] = g[i - 1] /\ i \in 1 .. m - 1
        BY <3>2
      <4>. QED
        BY <2>1, <4>1
    <3>. QED
      BY <3>1, <3>2
  <2>5. h[0] = base
    BY <2>1
  <2>6. Goes(h, m)
    <3>. HIDE DEF h
    <3>. QED
      BY <2>3, <2>4, <2>5
  <2>. HIDE DEF Goes, h
  <2>. QED
    BY <2>6
<1>3. \A m \in 0 .. n : m \in P
  <2>1. \A m \in 1 .. n : m - 1 \in P => m \in P
    BY <1>2
  <2>. HIDE DEF P
  <2>. QED
    BY <1>1, <2>1, UpTo
<1>4. n \in P
  <2>. HIDE DEF P
  <2>. QED
    BY <1>3
<1>5. PICK g : Goes(g, n)
  BY <1>4
<1>. QED
  BY <1>5 DEF Follows

Phases == Len(Schedule)

LEMMA EndIs ==
  /\ End \in [0 .. Phases -> Nat] /\ End[0] = 0
  /\ \A i \in 1 .. Phases : End[i] = End[i - 1] + Schedule[i].ticks
  /\ Budget = End[Phases]
<1>. DEFINE one(e, i) == IF i = 0 THEN 0 ELSE e + Schedule[i].ticks
<1>1. PICK n \in Nat : n = Phases
  BY ScheduleFacts DEF Phases
<1>2. \A i \in 1 .. n : Schedule[i].ticks \in Nat \ {0}
  BY <1>1, ScheduleFacts DEF Phases
<1>3. PICK step : step = [i \in 1 .. n |-> [e \in Nat |-> one(e, i)]]
  OBVIOUS
<1>4. step \in Maps(n, Nat)
  <2>1. \A i \in 1 .. n, e \in Nat : one(e, i) \in Nat
    BY <1>2
  <2>. HIDE DEF one
  <2>. QED
    BY <1>3, <2>1 DEF Maps
<1>5. PICK g : Follows(g, n, Nat, 0, step)
  BY <1>4, StepByStep
<1>6. g = [i \in 0 .. n |-> one(g[i - 1], i)]
  <2>1. \A i \in 1 .. n : g[i] = one(g[i - 1], i)
    <3>1. \A i \in 1 .. n : g[i - 1] \in Nat
      BY <1>5 DEF Follows
    <3>. HIDE DEF one
    <3>. QED
      BY <1>3, <1>5, <3>1 DEF Follows
  <2>2. g[0] = one(g[0 - 1], 0)
    BY <1>5 DEF Follows
  <2>. HIDE DEF one
  <2>. QED
    BY <1>5, <2>1, <2>2 DEF Follows
<1>. DEFINE h == CHOOSE f : f = [i \in 0 .. n |-> one(f[i - 1], i)]
<1>7. h = [i \in 0 .. n |-> one(h[i - 1], i)]
  <2>. HIDE DEF one
  <2>. QED
    BY <1>6
<1>8. End = h
  BY <1>1 DEF End, Phases
<1>9. End = [i \in 0 .. n |-> one(End[i - 1], i)]
  <2>. HIDE DEF h, one
  <2>. QED
    BY <1>7, <1>8
<1>10. \A i \in 0 .. n : End[i] = one(End[i - 1], i)
  <2>. HIDE DEF one
  <2>. QED
    BY <1>9
<1>11. /\ End[0] = 0 /\ DOMAIN End = 0 .. n
       /\ \A i \in 1 .. n : End[i] = End[i - 1] + Schedule[i].ticks
  BY <1>9, <1>10
<1>. DEFINE P == {i \in 0 .. n : End[i] \in Nat}
<1>12. \A i \in 0 .. n : i \in P
  <2>1. 0 \in P
    BY <1>11
  <2>2. ASSUME NEW i \in 1 .. n, i - 1 \in P PROVE i \in P
    <3>1. End[i] = End[i - 1] + Schedule[i].ticks
      BY <1>11
    <3>. QED
      BY <1>2, <2>2, <3>1
  <2>. HIDE DEF P
  <2>. QED
    BY <2>1, <2>2, UpTo
<1>13. End = [i \in 0 .. n |-> End[i]]
  <2>. HIDE DEF one
  <2>. QED
    BY <1>9
<1>. HIDE DEF h, one
<1>14. Budget = End[Phases]
  BY BudgetAssumption DEF Phases
<1>. QED
  BY <1>1, <1>11, <1>12, <1>13, <1>14

\* A later phase ends later.
LEMMA EndGrows ==
  ASSUME NEW i \in 0 .. Phases, NEW j \in 0 .. Phases, i <= j
  PROVE  End[i] <= End[j]
<1>1. PICK n \in Nat : n = Phases
  BY ScheduleFacts DEF Phases
<1>. DEFINE P == {k \in 0 .. n : k >= i => End[i] <= End[k]}
<1>2. \A k \in 0 .. n : k \in P
  <2>1. 0 \in P
    BY <1>1, EndIs
  <2>2. ASSUME NEW k \in 1 .. n, k - 1 \in P PROVE k \in P
    <3>1. Schedule[k].ticks \in Nat /\ End[k] = End[k - 1] + Schedule[k].ticks
      BY <1>1, EndIs, ScheduleFacts DEF Phases
    <3>2. End[k] \in Nat /\ End[k - 1] \in Nat /\ End[i] \in Nat
      BY <1>1, EndIs
    <3>. QED
      BY <1>1, <2>2, <3>1, <3>2
  <2>. HIDE DEF P
  <2>. QED
    BY <2>1, <2>2, UpTo
<1>. QED
  BY <1>1, <1>2

\* The phase of a moment is the one it lies in.
LEMMA PhaseAtIs ==
  ASSUME NEW t \in Nat, t < Budget
  PROVE  /\ PhaseAt(t) \in 1 .. Phases /\ End[PhaseAt(t) - 1] <= t /\ t < End[PhaseAt(t)]
         /\ \A k \in 1 .. Phases : t < End[k] => PhaseAt(t) <= k
         /\ \A k \in 0 .. Phases : End[k] <= t => k < PhaseAt(t)
<1>1. PICK p : p = PhaseAt(t) /\ p \in 1 .. Phases
  BY PhaseAtType, ScheduleFacts DEF Phases
<1>2. Phases \in Nat
  BY ScheduleFacts DEF Phases
<1>3. t < End[p] /\ \A k \in 1 .. Phases : t < End[k] => p <= k
  <2>1. \E i \in DOMAIN Schedule : t < End[i] /\ \A j \in DOMAIN Schedule : t < End[j] => i <= j
    <3>1. t < End[Phases] /\ Phases \in DOMAIN Schedule
      BY EndIs, ScheduleFacts DEF Phases
    <3>. DEFINE Later == {i \in DOMAIN Schedule : t < End[i]}
    <3>2. Later \subseteq Nat /\ Later # {}
      BY <3>1, ScheduleFacts
    <3>3. PICK i \in Later : \A j \in Later : i <= j
      <4>. HIDE DEF Later
      <4>. QED
        BY <3>2, LeastIs
    <3>. QED
      BY <3>3
  <2>2. p = CHOOSE i \in DOMAIN Schedule :
              t < End[i] /\ \A j \in DOMAIN Schedule : t < End[j] => i <= j
    BY <1>1 DEF PhaseAt
  <2>3. t < End[p] /\ \A j \in DOMAIN Schedule : t < End[j] => p <= j
    BY <2>1, <2>2
  <2>. QED
    BY <2>3, ScheduleFacts DEF Phases
<1>4. End[p - 1] <= t
  <2>1. CASE p = 1
    BY <2>1, EndIs
  <2>2. CASE p # 1
    <3>1. p - 1 \in 1 .. Phases /\ ~ (t < End[p - 1])
      BY <1>1, <1>2, <1>3, <2>2
    <3>2. End[p - 1] \in Nat
      BY <1>2, <3>1, EndIs
    <3>. QED
      BY <3>1, <3>2
  <2>. QED
    BY <2>1, <2>2
<1>5. ASSUME NEW k \in 0 .. Phases, End[k] <= t PROVE k < p
  <2>1. CASE p <= k
    <3>1. End[p] <= End[k]
      BY <1>1, <1>2, <2>1, EndGrows
    <3>2. End[p] \in Nat /\ End[k] \in Nat
      BY <1>1, <1>2, EndIs
    <3>. QED
      BY <1>3, <1>5, <3>1, <3>2
  <2>. QED
    BY <1>1, <1>2, <2>1
<1>. QED
  BY <1>1, <1>3, <1>4, <1>5

-----------------------------------------------------------------------------
(* A schedule with room enough is worked through in order *)

Kindly(i) == Schedule[i].kind

\* The longest an iteration, or the wait for a probe, may take.
Longest == CHOOSE g \in Durations \cup {Interval} : \A d \in Durations \cup {Interval} : d <= g

LEMMA LongestIs ==
  ASSUME Roomy
  PROVE  /\ Longest \in Durations \cup {Interval} /\ Longest \in Nat \ {0}
         /\ \A d \in Durations \cup {Interval} : d <= Longest
<1>. DEFINE D == Durations \cup {Interval}
            top == Schedule[1].ticks + Interval
            Gaps == {top - d : d \in D}
<1>1. 1 \in DOMAIN Schedule /\ Schedule[1].ticks \in Nat
  BY ScheduleFacts
<1>2. D \subseteq Nat \ {0} /\ Interval \in D /\ top \in Nat
  BY <1>1, ScheduleAssumption
<1>3. \A d \in D : d <= top
  <2>1. \A d \in Durations : d <= Schedule[1].ticks
    BY <1>1 DEF Roomy
  <2>. QED
    BY <1>1, <1>2, <2>1, ScheduleAssumption
<1>4. \E g \in D : \A d \in D : d <= g
  <2>. HIDE DEF D, top
  <2>1. Gaps \subseteq Nat /\ Gaps # {}
    BY <1>2, <1>3
  <2>2. PICK m \in Gaps : \A k \in Gaps : m <= k
    <3>. HIDE DEF Gaps
    <3>. QED
      BY <2>1, LeastIs
  <2>3. PICK g \in D : m = top - g
    OBVIOUS
  <2>4. \A d \in D : top - g <= top - d
    BY <2>2, <2>3
  <2>. QED
    BY <1>2, <2>4
<1>5. Longest \in D /\ \A d \in D : d <= Longest
  <2>. HIDE DEF D
  <2>1. Longest = CHOOSE g \in D : \A d \in D : d <= g
    BY DEF Longest, D
  <2>. QED
    BY <1>4, <2>1
<1>. QED
  BY <1>2, <1>5

\* The phases entered are the first ones, in order, and t lies in the last of them
\* or the next; beyond the last phase only when its evaluation is done.
InOrder(e, tr) == Len(e) <= Phases /\ \A i \in 1 .. Len(e) : e[i] = i /\ i \in tr
Reached(s, t, tr) ==
  /\ InOrder(s.entered, tr)
  /\ s.elapsed <= t
  /\ Len(s.entered) > 0 => End[Len(s.entered) - 1] <= s.elapsed
  /\ Len(s.entered) < Phases => t < End[Len(s.entered) + 1]
  /\ Len(s.entered) = Phases => s.evaluated \/ t < Budget

\* Until there is a cost model, no ample phase lags behind its measurements.
Ample(c) == c \in 1 .. Phases /\ Kindly(c) = "cost" /\ Needed * Longest <= Schedule[c].ticks
Due(c, samples) == End[c - 1] - 1 + (samples + 1) * Longest
Measured(s, t) ==
  ~ s.costModel =>
    /\ s.samples < Needed
    /\ \A c \in 1 .. Phases : Ample(c) => t <= Due(c, s.samples) /\ s.nextProbe <= Due(c, s.samples)

\* The final evaluation is that of the policy in final.ckpt, the last one there is.
Evaluated(s, ex, ff) ==
  s.evaluated => Len(s.entered) = Phases /\ ex = ff /\ ff = s.policy

Good(s, t, tr, ex, ff) == Reached(s, t, tr) /\ Measured(s, t) /\ Evaluated(s, ex, ff)

\* An iteration works in the last phase entered.
InPhase(s, t) ==
  /\ t = s.elapsed /\ t < Budget
  /\ Len(s.entered) \in 1 .. Phases
  /\ End[Len(s.entered) - 1] <= t /\ t < End[Len(s.entered)]
  /\ PhaseAt(t) = Len(s.entered)

Working ==
  /\ pc \in {"work", "final", "evaluation"} => InPhase(st, now)
  /\ pc \in {"final", "evaluation"} => ~ st.evaluated /\ Kind = "evaluate"
  /\ pc = "evaluation" => finalFile = st.policy

Cover ==
  /\ ~ failure /\ pc # "pause"
  /\ Good(st, now, traces, exported, finalFile)
  /\ disk # None => Good(disk, disk.elapsed, traces, exported, finalFile)
  /\ Working

\* A pause may outlast a phase.
Covered == Unpaused => Cover

LEMMA PhasesIs == Phases \in Nat \ {0} /\ DOMAIN Schedule = 1 .. Phases
BY ScheduleFacts DEF Phases

LEMMA FirstDue ==
  ASSUME Roomy, NEW c \in 1 .. Phases
  PROVE  0 <= Due(c, 0)
<1>1. End[c - 1] \in Nat
  BY EndIs, PhasesIs
<1>. QED
  BY <1>1, LongestIs DEF Due

LEMMA FreshGood ==
  ASSUME Roomy, NEW tr, NEW ex, NEW ff
  PROVE  Good(Fresh, 0, tr, ex, ff)
<1>1. /\ Fresh.entered = <<>> /\ Fresh.elapsed = 0 /\ Fresh.samples = 0 /\ Fresh.nextProbe = 0
      /\ Fresh.costModel = FALSE /\ Fresh.evaluated = FALSE
  BY DEF Fresh
<1>2. Len(Fresh.entered) = 0
  BY <1>1
<1>3. 0 < End[1]
  <2>1. End[1] = End[0] + Schedule[1].ticks /\ End[0] = 0
    BY EndIs, PhasesIs
  <2>. QED
    BY <2>1, ScheduleFacts, PhasesIs
<1>4. Reached(Fresh, 0, tr)
  BY <1>1, <1>2, <1>3, PhasesIs DEF Reached, InOrder
<1>5. Measured(Fresh, 0)
  BY <1>1, FirstDue, ScheduleAssumption DEF Measured
<1>6. Evaluated(Fresh, ex, ff)
  BY <1>1 DEF Evaluated
<1>. QED
  BY <1>4, <1>5, <1>6 DEF Good

LEMMA DueIs ==
  ASSUME Roomy, NEW c \in 1 .. Phases, NEW samples \in Nat
  PROVE  /\ Due(c, samples) \in Int /\ Due(c, 0) <= Due(c, samples)
         /\ Due(c, samples + 1) = Due(c, samples) + Longest
         /\ Ample(c) /\ samples < Needed => Due(c, samples) < End[c]
<1>1. PICK g \in Nat : g = Longest
  BY LongestIs
<1>2. PICK e \in Nat : e = End[c - 1]
  BY EndIs, PhasesIs
<1>3. PICK product \in Nat : product = samples * g
  BY <1>1
<1>4. (samples + 1) * g = product + g /\ (samples + 1 + 1) * g = product + g + g /\ (0 + 1) * g = g
  BY <1>1, <1>3
<1>5. /\ Due(c, samples) = e - 1 + product + g
      /\ Due(c, samples + 1) = e - 1 + product + g + g
      /\ Due(c, 0) = e - 1 + g
  BY <1>1, <1>2, <1>3, <1>4 DEF Due
<1>6. ASSUME Ample(c), samples < Needed PROVE Due(c, samples) < End[c]
  <2>1. PICK needed \in Nat : needed = Needed
    BY ScheduleAssumption
  <2>2. (samples + 1) * g <= needed * g
    <3>1. PICK more \in Nat : needed = samples + 1 + more
      <4>1. needed - (samples + 1) \in Nat /\ needed = samples + 1 + (needed - (samples + 1))
        BY <1>6, <2>1
      <4>. QED
        BY <4>1
    <3>2. needed * g = (samples + 1) * g + more * g /\ more * g >= 0
      BY <1>1, <3>1
    <3>. QED
      BY <1>1, <3>1, <3>2
  <2>3. needed * g <= Schedule[c].ticks
    BY <1>1, <1>6, <2>1 DEF Ample
  <2>4. End[c] = e + Schedule[c].ticks /\ Schedule[c].ticks \in Nat
    BY <1>2, EndIs, ScheduleFacts, PhasesIs
  <2>5. product + g <= Schedule[c].ticks
    BY <1>3, <1>4, <2>1, <2>2, <2>3, <2>4
  <2>. QED
    BY <1>2, <1>3, <1>5, <2>4, <2>5
<1>. QED
  BY <1>1, <1>2, <1>3, <1>5, <1>6

\* A checkpoint is as good as the state it was taken of, and so is a renewed clock.
LEMMA SavedGood ==
  ASSUME Roomy, NEW s \in Checkpoint, NEW t \in Nat, NEW tr, NEW ex, NEW ff, Good(s, t, tr, ex, ff)
  PROVE  Good(s, s.elapsed, tr, ex, ff)
<1>1. s.elapsed \in Nat /\ s.elapsed <= t /\ s.samples \in Nat
  BY DEF Good, Reached, Checkpoint
<1>2. Reached(s, s.elapsed, tr)
  <2>1. PICK k \in Nat : k = Len(s.entered)
    BY DEF Checkpoint
  <2>2. ASSUME k < Phases PROVE End[k + 1] \in Nat
    <3>1. k + 1 \in 0 .. Phases
      BY <2>1, <2>2, PhasesIs
    <3>. QED
      BY <3>1, EndIs
  <2>3. Reached(s, t, tr) /\ Budget \in Nat
    BY BudgetAssumption DEF Good
  <2>4. k < Phases => s.elapsed < End[k + 1]
    BY <1>1, <2>1, <2>2, <2>3 DEF Reached
  <2>5. k = Phases => s.evaluated \/ s.elapsed < Budget
    BY <1>1, <2>1, <2>3 DEF Reached
  <2>. QED
    <3>1. /\ InOrder(s.entered, tr) /\ s.elapsed <= s.elapsed
          /\ Len(s.entered) > 0 => End[Len(s.entered) - 1] <= s.elapsed
      BY <1>1, <2>3 DEF Reached
    <3>2. /\ Len(s.entered) < Phases => s.elapsed < End[Len(s.entered) + 1]
          /\ Len(s.entered) = Phases => s.evaluated \/ s.elapsed < Budget
      BY <2>1, <2>4, <2>5
    <3>. QED
      BY ONLY <3>1, <3>2, Zenon DEF Reached
<1>3. Measured(s, s.elapsed)
  <2>1. \A c \in 1 .. Phases : Due(c, s.samples) \in Int
    BY <1>1, DueIs
  <2>. QED
    BY <1>1, <2>1 DEF Good, Measured
<1>. QED
  BY <1>2, <1>3 DEF Good

LEMMA RenewedGood ==
  ASSUME NEW s \in Checkpoint, NEW t \in Nat, NEW tr, NEW ex, NEW ff, Good(s, t, tr, ex, ff)
  PROVE  LET r == [s EXCEPT !.elapsed = t]
         IN  Good(r, t, tr, ex, ff) /\ Good(r, r.elapsed, tr, ex, ff)
<1>1. PICK r : r = [s EXCEPT !.elapsed = t]
  OBVIOUS
<1>2. /\ r.elapsed = t /\ r.entered = s.entered /\ r.evaluated = s.evaluated
      /\ r.costModel = s.costModel /\ r.samples = s.samples /\ r.nextProbe = s.nextProbe
      /\ r.policy = s.policy
  BY <1>1 DEF Checkpoint
<1>3. Len(s.entered) > 0 => End[Len(s.entered) - 1] <= t
  <2>1. ASSUME Len(s.entered) > 0 PROVE End[Len(s.entered) - 1] <= t
    <3>1. PICK k \in 1 .. Phases : k = Len(s.entered)
      BY <2>1, PhasesIs DEF Checkpoint, Good, Reached, InOrder
    <3>2. End[k - 1] \in Nat
      BY <3>1, EndIs, PhasesIs
    <3>3. s.elapsed \in Nat /\ s.elapsed <= t /\ End[k - 1] <= s.elapsed
      BY <2>1, <3>1 DEF Checkpoint, Good, Reached
    <3>. QED
      BY <3>1, <3>2, <3>3
  <2>. QED
    BY <2>1
<1>4. Reached(r, t, tr)
  BY <1>2, <1>3 DEF Good, Reached
<1>5. Measured(r, t) /\ Evaluated(r, ex, ff)
  BY <1>2 DEF Good, Measured, Evaluated
<1>6. Good(r, t, tr, ex, ff) /\ Good(r, r.elapsed, tr, ex, ff)
  BY <1>2, <1>4, <1>5 DEF Good
<1>. QED
  BY <1>1, <1>6

LEMMA MoreTraces ==
  ASSUME NEW s, NEW t, NEW tr, NEW more, NEW ex, NEW ff, Good(s, t, tr, ex, ff), tr \subseteq more
  PROVE  Good(s, t, more, ex, ff)
BY DEF Good, Reached, InOrder

\* Before its last evaluation a state says nothing of what was exported.
LEMMA Unevaluated ==
  ASSUME NEW s, NEW t, NEW tr, NEW ex, NEW ff, NEW ex2, NEW ff2, Good(s, t, tr, ex, ff),
         ~ s.evaluated
  PROVE  Good(s, t, tr, ex2, ff2)
BY DEF Good, Evaluated

\* What was entered, measured and evaluated is all that matters.
Like(r, s) ==
  /\ r.entered = s.entered /\ r.evaluated = s.evaluated /\ r.costModel = s.costModel
  /\ r.samples = s.samples /\ r.nextProbe = s.nextProbe /\ r.policy = s.policy

LEMMA LikeGood ==
  ASSUME NEW s, NEW r, NEW t, NEW tr, NEW ex, NEW ff, Good(s, t, tr, ex, ff),
         Like(r, s), r.elapsed = s.elapsed
  PROVE  Good(r, t, tr, ex, ff)
<1>1. Reached(r, t, tr)
  BY DEF Good, Reached, Like
<1>2. Measured(r, t) /\ Evaluated(r, ex, ff)
  BY DEF Good, Measured, Evaluated, Like
<1>. QED
  BY <1>1, <1>2 DEF Good

\* The phase p of an iteration is entered, unless it already was.
Enters(r, s, p, tr, more) ==
  \/ /\ \E k \in DOMAIN s.entered : s.entered[k] = p
     /\ r.entered = s.entered /\ more = tr
  \/ /\ ~ \E k \in DOMAIN s.entered : s.entered[k] = p
     /\ r.entered = Append(s.entered, p) /\ more = tr \cup {p}

\* It is the last phase entered, or the next one.
LEMMA EntersInOrder ==
  ASSUME NEW s \in Checkpoint, NEW t \in Nat, t < Budget, NEW tr, Reached(s, t, tr),
         NEW r, NEW more, Enters(r, s, PhaseAt(t), tr, more)
  PROVE  /\ InOrder(r.entered, more) /\ tr \subseteq more
         /\ Len(r.entered) = PhaseAt(t)
         /\ Len(s.entered) = Phases => Len(r.entered) = Phases
<1>1. PICK p \in 1 .. Phases : p = PhaseAt(t)
  BY PhaseAtIs
<1>2. t < End[p] /\ (\A j \in 1 .. Phases : t < End[j] => p <= j)
      /\ \A j \in 0 .. Phases : End[j] <= t => j < p
  BY <1>1, PhaseAtIs
<1>3. PICK e : e = s.entered
  OBVIOUS
<1>4. e \in Seq(1 .. Phases) /\ s.elapsed \in Nat /\ s.elapsed <= t
  BY <1>3, PhasesIs DEF Checkpoint, Reached
<1>5. PICK k \in 0 .. Phases : k = Len(e)
  BY <1>3, <1>4, PhasesIs DEF Reached, InOrder
<1>6. DOMAIN e = 1 .. k /\ \A i \in 1 .. k : e[i] = i /\ i \in tr
  BY <1>3, <1>4, <1>5 DEF Reached, InOrder
<1>7. k <= p
  <2>1. ASSUME k > 0 PROVE k - 1 < p
    <3>1. k - 1 \in 0 .. Phases /\ End[k - 1] \in Nat
      BY <1>5, <2>1, EndIs, PhasesIs
    <3>2. End[k - 1] <= s.elapsed
      BY <1>3, <1>5, <2>1 DEF Reached
    <3>3. End[k - 1] <= t
      BY <1>4, <3>1, <3>2
    <3>. QED
      BY <1>2, <3>1, <3>3
  <2>. QED
    BY <1>1, <1>5, <2>1, PhasesIs
<1>8. p <= k + 1
  <2>1. ASSUME k < Phases PROVE p <= k + 1
    <3>1. k + 1 \in 1 .. Phases
      BY <1>5, <2>1, PhasesIs
    <3>2. t < End[k + 1]
      BY <1>3, <1>5, <2>1 DEF Reached
    <3>. QED
      BY <1>2, <3>1, <3>2
  <2>. QED
    BY <1>1, <1>5, <2>1, PhasesIs
<1>9. CASE p = k
  <2>1. k \in DOMAIN e /\ e[k] = p
    BY <1>1, <1>6, <1>9, PhasesIs
  <2>2. r.entered = e /\ more = tr
    BY <1>1, <1>3, <2>1 DEF Enters
  <2>. QED
    BY <1>1, <1>3, <1>5, <1>6, <1>9, <2>2 DEF InOrder
<1>10. CASE p = k + 1
  <2>1. ~ \E i \in DOMAIN e : e[i] = p
    BY <1>5, <1>6, <1>10, PhasesIs
  <2>2. r.entered = Append(e, p) /\ more = tr \cup {p}
    BY <1>1, <1>3, <2>1 DEF Enters
  <2>3. Len(Append(e, p)) = p /\ \A i \in 1 .. p : Append(e, p)[i] = i
    BY <1>4, <1>5, <1>6, <1>10, PhasesIs
  <2>4. \A i \in 1 .. p : i \in more
    BY <1>5, <1>6, <1>10, <2>2, PhasesIs
  <2>. QED
    BY <1>1, <1>3, <1>5, <1>10, <2>2, <2>3, <2>4, PhasesIs DEF InOrder
<1>. QED
  BY <1>1, <1>5, <1>7, <1>8, <1>9, <1>10, PhasesIs

LEMMA EntersGood ==
  ASSUME Roomy, NEW s \in Checkpoint, NEW t \in Nat, t < Budget,
         NEW tr, NEW ex, NEW ff, Good(s, t, tr, ex, ff),
         NEW r, NEW more, Enters(r, s, PhaseAt(t), tr, more), r.elapsed = t,
         Like([r EXCEPT !.entered = s.entered], s), r \in Checkpoint
  PROVE  Good(r, t, more, ex, ff) /\ InPhase(r, t)
<1>1. PICK p \in 1 .. Phases : p = PhaseAt(t) /\ End[p - 1] <= t /\ t < End[p]
  BY PhaseAtIs
<1>2. /\ InOrder(r.entered, more) /\ Len(r.entered) = p
      /\ Len(s.entered) = Phases => Len(r.entered) = Phases
  BY <1>1, EntersInOrder DEF Good
<1>3. /\ r.evaluated = s.evaluated /\ r.costModel = s.costModel
      /\ r.samples = s.samples /\ r.nextProbe = s.nextProbe /\ r.policy = s.policy
  BY DEF Like, Checkpoint
<1>4. InPhase(r, t)
  BY <1>1, <1>2 DEF InPhase
<1>5. Reached(r, t, more)
  <2>1. ASSUME p < Phases PROVE t < End[p + 1]
    <3>1. End[p] <= End[p + 1] /\ End[p] \in Nat /\ End[p + 1] \in Nat
      BY <1>1, <2>1, EndGrows, EndIs, PhasesIs
    <3>. QED
      BY <1>1, <3>1
  <2>. QED
    BY <1>1, <1>2, <2>1, PhasesIs DEF Reached
<1>6. Measured(r, t) /\ Evaluated(r, ex, ff)
  BY <1>2, <1>3 DEF Good, Measured, Evaluated
<1>. QED
  BY <1>4, <1>5, <1>6 DEF Good

\* An iteration that ends before the next phase does.
LEMMA IterationReached ==
  ASSUME Roomy, NEW s \in Checkpoint, NEW t \in Nat, NEW tr, Reached(s, t, tr), InPhase(s, t),
         NEW d \in Durations \cup {1}, NEW r, r.entered = s.entered, r.elapsed = s.elapsed,
         Len(s.entered) = Phases => r.evaluated
  PROVE  Reached(r, t + d, tr)
<1>1. PICK k \in 1 .. Phases : k = Len(s.entered)
  BY DEF InPhase
<1>2. d \in Nat
  BY ScheduleAssumption
<1>3. ASSUME k < Phases PROVE t + d < End[k + 1]
  <2>1. PICK ticks \in Nat \ {0} : ticks = Schedule[k + 1].ticks
    BY <1>3, ScheduleFacts, PhasesIs
  <2>2. d <= ticks
    BY <1>3, <2>1, PhasesIs DEF Roomy
  <2>3. End[k + 1] = End[k] + ticks /\ End[k] \in Nat
    <3>1. k + 1 \in 1 .. Phases /\ k \in 0 .. Phases /\ (k + 1) - 1 = k
      BY <1>3, PhasesIs
    <3>. QED
      BY <2>1, <3>1, EndIs
  <2>4. t < End[k]
    BY <1>1 DEF InPhase
  <2>. QED
    BY <1>2, <2>1, <2>2, <2>3, <2>4
<1>4. s.elapsed <= t + d
  <2>1. s.elapsed <= t /\ s.elapsed \in Nat
    BY DEF Reached, Checkpoint
  <2>. QED
    BY <1>2, <2>1
<1>. QED
  BY <1>1, <1>3, <1>4 DEF Reached

\* While there is no cost model, the ample phases lie before no working iteration.
LEMMA MeasuredPast ==
  ASSUME Roomy, NEW s \in Checkpoint, NEW t \in Nat, Measured(s, t), InPhase(s, t),
         ~ s.costModel, NEW c \in 1 .. Phases, Ample(c)
  PROVE  Len(s.entered) <= c
<1>1. PICK k \in 1 .. Phases : k = Len(s.entered)
  BY DEF InPhase
<1>2. s.samples \in Nat /\ s.samples < Needed /\ t <= Due(c, s.samples)
  BY DEF Measured, Checkpoint
<1>3. Due(c, s.samples) \in Int /\ Due(c, s.samples) < End[c]
  BY <1>2, DueIs
<1>4. End[k - 1] <= t
  BY <1>1 DEF InPhase
<1>5. ASSUME c < k PROVE FALSE
  <2>1. k - 1 \in 0 .. Phases /\ c \in 0 .. Phases /\ c <= k - 1
    BY <1>5, PhasesIs
  <2>2. End[c] <= End[k - 1] /\ End[c] \in Nat /\ End[k - 1] \in Nat
    BY <2>1, EndGrows, EndIs
  <2>. QED
    BY <1>2, <1>3, <1>4, <2>2
<1>. QED
  BY <1>1, <1>5, PhasesIs

\* An iteration outside the measured phases delays no measurement.
LEMMA IterationMeasured ==
  ASSUME Roomy, NEW s \in Checkpoint, NEW t \in Nat, Measured(s, t), InPhase(s, t),
         Kindly(Len(s.entered)) # "cost",
         NEW d \in Durations, NEW r, r.costModel = s.costModel, r.samples = s.samples,
         r.nextProbe = s.nextProbe \/ r.nextProbe = t + Interval
  PROVE  Measured(r, t + d)
<1>1. PICK k \in 1 .. Phases : k = Len(s.entered)
  BY DEF InPhase
<1>2. PICK g \in Nat : g = Longest /\ d <= g /\ Interval <= g /\ d \in Nat /\ Interval \in Nat
  BY LongestIs, ScheduleAssumption
<1>3. SUFFICES ASSUME ~ s.costModel
               PROVE  /\ s.samples < Needed
                      /\ \A c \in 1 .. Phases : Ample(c) =>
                           t + d <= Due(c, s.samples) /\ r.nextProbe <= Due(c, s.samples)
  BY DEF Measured
<1>4. ASSUME NEW c \in 1 .. Phases, Ample(c)
      PROVE  t + d <= Due(c, s.samples) /\ r.nextProbe <= Due(c, s.samples)
  <2>1. k < c
    <3>1. k <= c
      BY <1>1, <1>3, <1>4, MeasuredPast
    <3>2. k # c
      BY <1>1, <1>4 DEF Ample
    <3>. QED
      BY <3>1, <3>2, PhasesIs
  <2>2. PICK e \in Nat : e = End[c - 1] /\ t < e
    <3>1. c - 1 \in 0 .. Phases /\ k \in 0 .. Phases /\ k <= c - 1
      BY <2>1, PhasesIs
    <3>2. End[k] <= End[c - 1] /\ End[k] \in Nat /\ End[c - 1] \in Nat
      BY <3>1, EndGrows, EndIs
    <3>3. t < End[k]
      BY <1>1 DEF InPhase
    <3>. QED
      BY <3>2, <3>3
  <2>3. s.samples \in Nat /\ s.nextProbe <= Due(c, s.samples)
    BY <1>3, <1>4 DEF Measured, Checkpoint
  <2>4. /\ Due(c, s.samples) \in Int /\ Due(c, 0) <= Due(c, s.samples)
        /\ Due(c, 0) \in Int
    BY <2>3, DueIs
  <2>5. Due(c, 0) = e - 1 + g
    <3>1. (0 + 1) * g = g
      BY <1>2
    <3>2. Due(c, 0) = e - 1 + (0 + 1) * g
      <4>1. g = Longest /\ e = End[c - 1]
        BY <1>2, <2>2
      <4>. QED
        BY ONLY <4>1, Zenon DEF Due
    <3>. QED
      BY ONLY <3>1, <3>2, Zenon
  <2>6. t + d <= Due(c, s.samples) /\ t + Interval <= Due(c, s.samples)
    <3>1. ASSUME NEW late \in Int, e - 1 + g <= late, NEW wait \in Nat, wait <= g
          PROVE  t + wait <= late
      BY <2>2, <3>1
    <3>2. e - 1 + g <= Due(c, s.samples) /\ Due(c, s.samples) \in Int
      BY <2>4, <2>5
    <3>3. d \in Nat /\ d <= g /\ Interval \in Nat /\ Interval <= g
      BY <1>2
    <3>. QED
      BY <3>1, <3>2, <3>3
  <2>. QED
    BY <2>3, <2>6
<1>5. s.samples < Needed
  BY <1>3 DEF Measured
<1>. QED
  BY <1>4, <1>5

\* One in a measured phase takes the next sample.
LEMMA SampleMeasured ==
  ASSUME Roomy, NEW s \in Checkpoint, NEW t \in Nat, Measured(s, t), s.elapsed = t,
         NEW d \in Durations, NEW r, r.samples = s.samples + 1, r.nextProbe = t + Interval,
         r.costModel = (s.costModel \/ s.samples + 1 >= Needed)
  PROVE  Measured(r, t + d)
<1>1. PICK g \in Nat : g = Longest /\ d <= g /\ Interval <= g /\ d \in Nat /\ Interval \in Nat
  BY LongestIs, ScheduleAssumption
<1>2. s.samples \in Nat /\ Needed \in Nat
  BY ScheduleAssumption DEF Checkpoint
<1>3. SUFFICES ASSUME ~ r.costModel
               PROVE  /\ s.samples + 1 < Needed
                      /\ \A c \in 1 .. Phases : Ample(c) =>
                           /\ t + d <= Due(c, s.samples + 1)
                           /\ t + Interval <= Due(c, s.samples + 1)
  BY DEF Measured
<1>4. ~ s.costModel /\ s.samples + 1 < Needed
  <2>1. ~ (s.costModel \/ s.samples + 1 >= Needed)
    BY <1>3, Zenon
  <2>. QED
    BY <1>2, <2>1
<1>5. ASSUME NEW c \in 1 .. Phases, Ample(c)
      PROVE  t + d <= Due(c, s.samples + 1) /\ t + Interval <= Due(c, s.samples + 1)
  <2>1. Due(c, s.samples) \in Int /\ Due(c, s.samples + 1) = Due(c, s.samples) + g
    BY <1>1, <1>2, DueIs
  <2>2. t <= Due(c, s.samples)
    BY <1>4, <1>5 DEF Measured
  <2>. QED
    BY <1>1, <2>1, <2>2
<1>. QED
  BY <1>4, <1>5

\* The wait for a probe ends when it is due.
LEMMA WaitMeasured ==
  ASSUME Roomy, NEW s \in Checkpoint, NEW t \in Nat, Measured(s, t), t < s.nextProbe
  PROVE  Measured(s, t + 1)
<1>1. s.nextProbe \in Nat /\ s.samples \in Nat
  BY DEF Checkpoint
<1>2. \A c \in 1 .. Phases : Due(c, s.samples) \in Int
  BY <1>1, DueIs
<1>. QED
  BY <1>1, <1>2 DEF Measured

\* A specialization finds the cost model of an earlier phase.
LEMMA SpecializeMeasured ==
  ASSUME Roomy, NEW s \in Checkpoint, NEW t \in Nat, Measured(s, t), InPhase(s, t),
         Kindly(Len(s.entered)) = "specialize"
  PROVE  s.costModel
<1>1. PICK k \in 1 .. Phases : k = Len(s.entered)
  BY DEF InPhase
<1>2. PICK c \in 1 .. k - 1 : /\ Schedule[c].kind = "cost"
                              /\ \A d \in Durations \cup {Interval} : Needed * d <= Schedule[c].ticks
  BY <1>1, PhasesIs DEF Roomy, Kindly
<1>3. c \in 1 .. Phases /\ c < k
  BY <1>2, PhasesIs
<1>4. Ample(c)
  BY <1>2, <1>3, LongestIs DEF Ample, Kindly
<1>5. ASSUME ~ s.costModel PROVE FALSE
  <2>1. k <= c
    BY <1>1, <1>3, <1>4, <1>5, MeasuredPast
  <2>. QED
    BY <1>3, <2>1, PhasesIs
<1>6. s.costModel \in BOOLEAN
  BY DEF Checkpoint
<1>. QED
  BY <1>5, <1>6

-----------------------------------------------------------------------------
(* The steps of a run that is never paused *)

\* The facts of a state that covers the schedule, as the steps use them.
LEMMA CoverFacts ==
  ASSUME IInv, Cover
  PROVE  /\ st \in Checkpoint /\ now \in Nat /\ Budget \in Nat
         /\ Good(st, now, traces, exported, finalFile)
         /\ disk # None => /\ disk \in Checkpoint
                           /\ Good(disk, disk.elapsed, traces, exported, finalFile)
         /\ pc \in {"work", "final", "evaluation"} =>
              /\ InPhase(st, now) /\ st.elapsed = now
              /\ Kind = Kindly(Len(st.entered)) /\ Len(st.entered) \in 1 .. Phases
<1>1. pc \in {"work", "final", "evaluation"} => InPhase(st, now)
  BY DEF Cover, Working
<1>2. InPhase(st, now) => /\ st.elapsed = now /\ Kind = Kindly(Len(st.entered))
                          /\ Len(st.entered) \in 1 .. Phases
  BY DEF InPhase, Kind, Scheduled, Kindly
<1>3. /\ st \in Checkpoint /\ now \in Nat /\ Budget \in Nat
      /\ disk # None => disk \in Checkpoint
  BY BudgetAssumption DEF IInv, Simple, States, Sound
<1>4. /\ Good(st, now, traces, exported, finalFile)
      /\ disk # None => Good(disk, disk.elapsed, traces, exported, finalFile)
  BY DEF Cover
<1>. QED
  BY <1>1, <1>2, <1>3, <1>4

\* The steps that touch nothing the schedule is about.
LEMMA QuietCover ==
  ASSUME IInv, Cover, Unpaused,
         \/ CreateManifest \/ ManifestWritten \/ ReadManifest \/ LeaveLoop \/ AlreadyEvaluated
         \/ CopyBest \/ Unalarmed \/ Poll \/ PauseStopped \/ Signal \/ UNCHANGED vars
  PROVE  Cover'
<1>. USE DEF files, process
<1>1. /\ UNCHANGED <<disk, exported, finalFile, traces, st, now, failure>>
      /\ pc' = pc \/ pc' \in {"create", "restore", "closing", "thermal", "tail"}
  <2>1. CASE CreateManifest \/ ManifestWritten \/ ReadManifest
    BY <2>1 DEF CreateManifest, ManifestWritten, ReadManifest
  <2>2. CASE LeaveLoop \/ AlreadyEvaluated \/ CopyBest
    BY <2>2 DEF LeaveLoop, AlreadyEvaluated, CopyBest
  <2>3. CASE Unalarmed \/ Signal
    BY <2>3 DEF Unalarmed, Signal
  <2>4. CASE Poll \/ PauseStopped
    BY <2>4 DEF Poll, PauseStopped, Cover
  <2>5. CASE UNCHANGED vars
    BY <2>5 DEF vars
  <2>. QED
    BY <2>1, <2>2, <2>3, <2>4, <2>5
<1>2. ~ failure' /\ pc' # "pause"
  BY <1>1 DEF Cover
<1>3. /\ Good(st, now, traces, exported, finalFile)'
      /\ (disk # None => Good(disk, disk.elapsed, traces, exported, finalFile))'
  BY <1>1 DEF Cover
<1>4. Working'
  BY <1>1 DEF Cover, Working, Kind, Scheduled
<1>. QED
  BY <1>2, <1>3, <1>4 DEF Cover

\* A process that ends, or finds the checkpoint it left.
LEMMA RestartCover ==
  ASSUME Roomy, IInv, Cover, NoCostModel \/ Complete \/ Kill \/ Restore
  PROVE  Cover'
<1>. USE DEF files, process
<1>1. ASSUME Exit, UNCHANGED <<disk, exported, finalFile, traces, failure>> PROVE Cover'
  <2>1. Good(st, now, traces, exported, finalFile)'
    BY <1>1, FreshGood DEF Exit
  <2>2. (disk # None => Good(disk, disk.elapsed, traces, exported, finalFile))'
    BY <1>1 DEF Cover
  <2>3. Working' /\ ~ failure' /\ pc' # "pause"
    BY <1>1 DEF Cover, Working, Exit
  <2>. QED
    BY <2>1, <2>2, <2>3 DEF Cover
<1>2. CASE NoCostModel
  <2>1. pc = "work" /\ Kind = "specialize" /\ ~ st.costModel
    BY <1>2 DEF NoCostModel
  <2>2. Measured(st, now)
    BY DEF Cover, Good
  <2>3. /\ st \in Checkpoint /\ now \in Nat /\ InPhase(st, now)
        /\ Kindly(Len(st.entered)) = "specialize"
    BY <2>1, CoverFacts
  <2>. QED
    BY <2>1, <2>2, <2>3, SpecializeMeasured
<1>3. CASE Complete
  BY <1>1, <1>3 DEF Complete
<1>4. CASE Kill
  BY <1>1, <1>4 DEF Kill
<1>5. CASE Restore
  <2>1. st' = Restored /\ now' = Restored.elapsed /\ pc' = "loop"
        /\ UNCHANGED <<disk, exported, finalFile, traces, failure>>
    BY <1>5 DEF Restore
  <2>2. Good(Restored, Restored.elapsed, traces, exported, finalFile)
    <3>1. Fresh.elapsed = 0
      BY DEF Fresh
    <3>. QED
      BY <3>1, FreshGood DEF Cover, Restored
  <2>3. Good(st, now, traces, exported, finalFile)'
    BY <2>1, <2>2
  <2>4. (disk # None => Good(disk, disk.elapsed, traces, exported, finalFile))'
    BY <2>1 DEF Cover
  <2>5. Working' /\ ~ failure' /\ pc' # "pause"
    BY <2>1 DEF Cover, Working
  <2>. QED
    BY <2>3, <2>4, <2>5 DEF Cover
<1>. QED
  BY <1>2, <1>3, <1>4, <1>5

\* The steps that save a checkpoint.
LEMMA SaveCover ==
  ASSUME Roomy, IInv, Cover, Unpaused,
         \/ DiskReserve \/ Close \/ BeforeEvaluation \/ SaveBest \/ Alarmed \/ PeriodicSave
         \/ SaveFinal
  PROVE  Cover'
<1>. USE DEF files, process
<1>. /\ st \in Checkpoint /\ now \in Nat
     /\ Good(st, now, traces, exported, finalFile)
     /\ disk # None => /\ disk \in Checkpoint
                       /\ Good(disk, disk.elapsed, traces, exported, finalFile)
  BY CoverFacts
<1>1. Good(st, st.elapsed, traces, exported, finalFile)
  BY SavedGood
<1>2. /\ Good(Top, now, traces, exported, finalFile)
      /\ Good(Top, Top.elapsed, traces, exported, finalFile)
  BY RenewedGood DEF Top
<1>3. CASE DiskReserve \/ Close
  <2>1. /\ st' = Top /\ disk' = Top /\ pc' \in {"closing", "complete"}
        /\ UNCHANGED <<exported, finalFile, traces, now, failure>>
    BY <1>3 DEF DiskReserve, Close, Save
  <2>2. /\ Good(st, now, traces, exported, finalFile)'
        /\ (disk # None => Good(disk, disk.elapsed, traces, exported, finalFile))'
    BY <1>2, <2>1
  <2>3. Working' /\ ~ failure' /\ pc' # "pause"
    BY <2>1 DEF Cover, Working
  <2>. QED
    BY <2>2, <2>3 DEF Cover
<1>4. CASE BeforeEvaluation \/ SaveBest \/ Alarmed \/ PeriodicSave
  <2>1. /\ disk' = st \/ UNCHANGED disk
        /\ UNCHANGED <<exported, finalFile, traces, st, now, failure>>
    BY <1>4 DEF BeforeEvaluation, SaveBest, Alarmed, PeriodicSave, Save
  <2>2. \/ pc' \in {"bestfile", "closing", "tail", "loop"}
        \/ pc = "work" /\ pc' = "final" /\ ~ st.evaluated /\ Kind = "evaluate"
    BY <1>4 DEF BeforeEvaluation, SaveBest, Alarmed, PeriodicSave, Unpaused
  <2>3. Good(st, now, traces, exported, finalFile)'
    BY <2>1
  <2>4. (disk # None => Good(disk, disk.elapsed, traces, exported, finalFile))'
    BY <1>1, <2>1
  <2>5. Working' /\ ~ failure' /\ pc' # "pause"
    BY <2>1, <2>2 DEF Cover, Working, Kind, Scheduled
  <2>. QED
    BY <2>3, <2>4, <2>5 DEF Cover
<1>5. CASE SaveFinal
  <2>1. /\ pc = "final" /\ pc' = "evaluation" /\ finalFile' = disk.policy
        /\ UNCHANGED <<disk, exported, traces, st, now, failure>>
    BY <1>5 DEF SaveFinal
  <2>2. disk = st /\ disk # None /\ ~ st.evaluated /\ Kind = "evaluate" /\ InPhase(st, now)
    BY <2>1 DEF IInv, States, Cover, Working
  <2>3. /\ Good(st, now, traces, exported, finalFile')
        /\ Good(disk, disk.elapsed, traces, exported, finalFile')
    BY <2>2, Unevaluated
  <2>4. /\ Good(st, now, traces, exported, finalFile)'
        /\ (disk # None => Good(disk, disk.elapsed, traces, exported, finalFile))'
    BY <2>1, <2>3
  <2>5. Working' /\ ~ failure' /\ pc' # "pause"
    BY <2>1, <2>2 DEF Cover, Working, Kind, Scheduled
  <2>. QED
    BY <2>4, <2>5 DEF Cover
<1>. QED
  BY <1>3, <1>4, <1>5

\* The end of an iteration that leaves the schedule covered.
LEMMA ObserveCover ==
  ASSUME Cover, NEW s, s \in Checkpoint, NEW reward \in Int, Observe(s, reward),
         \A d \in Durations : Good(s, now + d, traces, exported', finalFile),
         disk # None => Good(disk, disk.elapsed, traces, exported', finalFile),
         UNCHANGED <<disk, traces, finalFile>>
  PROVE  Cover'
<1>1. PICK d \in Durations : now' = now + d
  BY DEF Observe
<1>2. pc' \in {"best", "thermal"} /\ ~ failure'
  BY DEF Observe, Cover
<1>3. Like(st', s) /\ st'.elapsed = s.elapsed
  <2>1. PICK stepped : stepped = [s EXCEPT !.step = @ + 1]
    OBVIOUS
  <2>2. st' = [stepped EXCEPT !.best = reward] \/ st' = stepped
    BY <2>1 DEF Observe
  <2>3. Like(stepped, s) /\ stepped.elapsed = s.elapsed
        /\ DOMAIN stepped = {"step", "elapsed", "policy", "best", "entered", "nextProbe",
                             "samples", "costModel", "evaluated"}
    BY <2>1 DEF Checkpoint, Like
  <2>4. Like([stepped EXCEPT !.best = reward], s)
        /\ [stepped EXCEPT !.best = reward].elapsed = s.elapsed
    BY <2>3 DEF Like
  <2>. QED
    BY <2>2, <2>3, <2>4
<1>4. Good(s, now', traces, exported', finalFile)
  BY <1>1
<1>5. Good(st', now', traces, exported', finalFile)
  BY <1>3, <1>4, LikeGood
<1>6. /\ Good(st, now, traces, exported, finalFile)'
      /\ (disk # None => Good(disk, disk.elapsed, traces, exported, finalFile))'
  BY <1>5
<1>7. Working' /\ pc' # "pause"
  BY <1>2 DEF Working
<1>. QED
  BY <1>2, <1>6, <1>7 DEF Cover

\* The steps that work in an iteration.
LEMMA WorkCover ==
  ASSUME Roomy, IInv, Cover, Iterate \/ AwaitProbe \/ Probe \/ Learn \/ Evaluate
  PROVE  Cover'
<1>. USE DEF files, process
<1>. /\ st \in Checkpoint /\ now \in Nat
     /\ Good(st, now, traces, exported, finalFile)
     /\ disk # None => /\ disk \in Checkpoint
                       /\ Good(disk, disk.elapsed, traces, exported, finalFile)
  BY CoverFacts
<1>1. Reached(st, now, traces) /\ Measured(st, now) /\ Evaluated(st, exported, finalFile)
  BY DEF Good
<1>2. pc \in {"work", "final", "evaluation"} =>
        /\ InPhase(st, now) /\ st.elapsed = now
        /\ Kind = Kindly(Len(st.entered)) /\ Len(st.entered) \in 1 .. Phases
  BY CoverFacts
<1>3. pc = "work" /\ Kind # "evaluate" => Len(st.entered) # Phases /\ ~ st.evaluated
  BY <1>1, <1>2, PhasesIs DEF Roomy, Kindly, Evaluated
<1>4. CASE Iterate
  <2>1. /\ now < Budget /\ Enter(PhaseAt(now)) /\ pc' = "work"
        /\ UNCHANGED <<disk, exported, finalFile, now, failure>>
    BY <1>4 DEF Iterate, OnTime
  <2>2. st' \in Checkpoint
    <3>1. PhaseAt(now) \in DOMAIN Schedule
      BY PhaseAtType
    <3>2. Simple /\ Sound(st)
      BY DEF IInv, States
    <3>. QED
      BY <2>1, <3>1, <3>2, EnterSound DEF Sound
  <2>3. /\ Enters(st', st, PhaseAt(now), traces, traces') /\ st'.elapsed = now
        /\ Like([st' EXCEPT !.entered = st.entered], st)
    <3>1. PICK p : p = PhaseAt(now)
      OBVIOUS
    <3>2. PICK top : top = Top
      OBVIOUS
    <3>3. /\ top \in Checkpoint /\ top.entered = st.entered /\ top.elapsed = now
          /\ Like([top EXCEPT !.entered = st.entered], st)
      BY <3>2 DEF Top, Checkpoint, Like
    <3>4. CASE \E k \in DOMAIN st.entered : st.entered[k] = p
      <4>1. st' = top /\ traces' = traces
        BY <2>1, <3>1, <3>2, <3>4 DEF Enter
      <4>. QED
        BY <3>1, <3>3, <3>4, <4>1 DEF Enters
    <3>5. CASE ~ \E k \in DOMAIN st.entered : st.entered[k] = p
      <4>1. st' = [top EXCEPT !.entered = Append(st.entered, p)] /\ traces' = traces \cup {p}
        BY <2>1, <3>1, <3>2, <3>3, <3>5 DEF Enter
      <4>2. /\ st'.entered = Append(st.entered, p) /\ st'.elapsed = now
            /\ [st' EXCEPT !.entered = st.entered] = [top EXCEPT !.entered = st.entered]
        BY <3>3, <4>1 DEF Checkpoint
      <4>. QED
        BY <3>1, <3>3, <3>5, <4>1, <4>2 DEF Enters
    <3>. QED
      BY <3>4, <3>5
  <2>4. Good(st', now, traces', exported, finalFile) /\ InPhase(st', now)
    BY <2>1, <2>2, <2>3, EntersGood
  <2>5. traces \subseteq traces'
    BY <2>3 DEF Enters
  <2>6. /\ Good(st, now, traces, exported, finalFile)'
        /\ (disk # None => Good(disk, disk.elapsed, traces, exported, finalFile))'
    <3>1. disk # None => Good(disk, disk.elapsed, traces', exported, finalFile)
      BY <2>5, MoreTraces
    <3>. QED
      BY <2>1, <2>4, <3>1
  <2>7. Working' /\ ~ failure' /\ pc' # "pause"
    BY <2>1, <2>4 DEF Cover, Working
  <2>. QED
    BY <2>6, <2>7 DEF Cover
<1>5. CASE AwaitProbe
  <2>1. /\ pc = "work" /\ Kind \in {"probe", "cost"} /\ st.elapsed < st.nextProbe
        /\ now' = now + 1 /\ pc' = "loop"
        /\ UNCHANGED <<disk, exported, finalFile, traces, st, failure>>
    BY <1>5 DEF AwaitProbe, Probing
  <2>2. Reached(st, now + 1, traces)
    BY <1>1, <1>2, <1>3, <2>1, IterationReached
  <2>3. Measured(st, now + 1)
    BY <1>1, <1>2, <2>1, WaitMeasured
  <2>4. Good(st, now + 1, traces, exported, finalFile)
    BY <1>1, <2>2, <2>3 DEF Good
  <2>5. /\ Good(st, now, traces, exported, finalFile)'
        /\ (disk # None => Good(disk, disk.elapsed, traces, exported, finalFile))'
    BY <2>1, <2>4
  <2>6. Working' /\ ~ failure' /\ pc' # "pause"
    BY <2>1 DEF Cover, Working
  <2>. QED
    BY <2>5, <2>6 DEF Cover
<1>6. CASE Probe
  <2>. DEFINE probed  == [st EXCEPT !.nextProbe = st.elapsed + Interval]
              sampled == [probed EXCEPT !.samples = @ + 1,
                                        !.costModel = (@ \/ st.samples + 1 >= Needed)]
  <2>1. /\ pc = "work" /\ Kind \in {"probe", "cost"}
        /\ Observe(IF Kind = "cost" THEN sampled ELSE probed, 0)
        /\ UNCHANGED <<disk, exported, finalFile, traces>>
    BY <1>6 DEF Probe, Probing
  <2>2. now + Interval \in Nat /\ st.samples + 1 \in Nat /\ st.elapsed = now
    <3>1. Interval \in Nat /\ st.samples \in Nat
      BY ScheduleAssumption DEF Checkpoint
    <3>2. st.elapsed = now
      BY <1>2, <2>1
    <3>. QED
      BY <3>1, <3>2
  <2>3. /\ probed \in Checkpoint /\ probed.elapsed = st.elapsed /\ probed.entered = st.entered
        /\ probed.costModel = st.costModel /\ probed.samples = st.samples
        /\ probed.nextProbe = now + Interval /\ probed.evaluated = st.evaluated
    BY <2>2 DEF Checkpoint
  <2>4. PICK enough : enough = (st.samples + 1 >= Needed)
    OBVIOUS
  <2>5. /\ sampled \in Checkpoint /\ sampled.elapsed = st.elapsed /\ sampled.entered = st.entered
        /\ sampled.costModel = (st.costModel \/ enough) /\ sampled.samples = st.samples + 1
        /\ sampled.nextProbe = now + Interval /\ sampled.evaluated = st.evaluated
    <3>1. sampled = [probed EXCEPT !.samples = st.samples + 1,
                                   !.costModel = (st.costModel \/ enough)]
      <4>. HIDE DEF probed
      <4>. QED
        BY <2>3, <2>4
    <3>2. PICK model \in BOOLEAN : model = (st.costModel \/ enough)
      OBVIOUS
    <3>3. sampled = [probed EXCEPT !.samples = st.samples + 1, !.costModel = model]
      BY <3>1, <3>2
    <3>. HIDE DEF sampled
    <3>4. /\ sampled \in Checkpoint /\ sampled.elapsed = probed.elapsed
          /\ sampled.entered = probed.entered /\ sampled.costModel = model
          /\ sampled.samples = st.samples + 1 /\ sampled.nextProbe = probed.nextProbe
          /\ sampled.evaluated = probed.evaluated
      <4>. HIDE DEF probed
      <4>. QED
        BY <2>2, <2>3, <3>3 DEF Checkpoint
    <3>. QED
      BY <2>3, <3>2, <3>4
  <2>. HIDE DEF probed, sampled
  <2>6. ASSUME NEW d \in Durations, NEW r \in {probed, sampled},
               r = (IF Kind = "cost" THEN sampled ELSE probed)
        PROVE  Good(r, now + d, traces, exported, finalFile)
    <3>1. Reached(r, now + d, traces)
      <4>1. r.entered = st.entered /\ r.elapsed = st.elapsed
        BY <2>3, <2>5
      <4>. QED
        BY <1>1, <1>2, <1>3, <2>1, <4>1, IterationReached
    <3>2. Measured(r, now + d)
      <4>1. CASE Kind = "cost"
        <5>1. /\ r.samples = st.samples + 1 /\ r.nextProbe = now + Interval
              /\ r.costModel = (st.costModel \/ st.samples + 1 >= Needed)
          BY <2>4, <2>5, <2>6, <4>1
        <5>. QED
          BY <1>1, <2>2, <5>1, SampleMeasured
      <4>2. CASE Kind # "cost"
        <5>1. r.costModel = st.costModel /\ r.samples = st.samples /\ r.nextProbe = now + Interval
          BY <2>3, <2>6, <4>2
        <5>. QED
          BY <1>1, <1>2, <2>1, <4>2, <5>1, IterationMeasured
      <4>. QED
        BY <4>1, <4>2
    <3>3. Evaluated(r, exported, finalFile)
      BY <1>3, <2>1, <2>3, <2>5 DEF Evaluated
    <3>. QED
      BY <3>1, <3>2, <3>3 DEF Good
  <2>7. PICK r \in {probed, sampled} : r = (IF Kind = "cost" THEN sampled ELSE probed)
    OBVIOUS
  <2>8. r \in Checkpoint /\ Observe(r, 0) /\ 0 \in Int
    BY <2>1, <2>3, <2>5, <2>7
  <2>9. \A d \in Durations : Good(r, now + d, traces, exported', finalFile)
    BY <2>1, <2>6, <2>7
  <2>10. disk # None => Good(disk, disk.elapsed, traces, exported', finalFile)
    BY <2>1
  <2>. QED
    BY <2>1, <2>8, <2>9, <2>10, ObserveCover
<1>7. CASE Learn
  <2>. DEFINE state == [st EXCEPT !.policy = <<@[1] + 1, crashes>>]
  <2>1. PICK r \in Rewards : Observe(state, r)
    BY <1>7 DEF Learn
  <2>2. r \in Int
    BY RewardAssumption
  <2>3. <<st.policy[1] + 1, crashes>> \in Policies
    <3>1. crashes \in 0 .. MaxCrashes /\ MaxCrashes \in Nat /\ st.policy \in Nat \X Nat
      BY ActionAssumption DEF IInv, Simple, Checkpoint, Policies
    <3>. QED
      BY <3>1 DEF Policies
  <2>4. /\ state \in Checkpoint /\ state.elapsed = st.elapsed /\ state.entered = st.entered
        /\ state.costModel = st.costModel /\ state.samples = st.samples
        /\ state.nextProbe = st.nextProbe /\ state.evaluated = st.evaluated
    BY <2>3 DEF Checkpoint
  <2>. HIDE DEF state
  <2>5. /\ pc = "work" /\ Kind \in {"learn", "specialize"}
        /\ UNCHANGED <<disk, exported, finalFile, traces>>
    BY <1>7 DEF Learn
  <2>6. ASSUME NEW d \in Durations PROVE Good(state, now + d, traces, exported, finalFile)
    <3>1. Reached(state, now + d, traces)
      BY <1>1, <1>2, <1>3, <2>4, <2>5, IterationReached
    <3>2. Measured(state, now + d)
      BY <1>1, <1>2, <2>4, <2>5, IterationMeasured
    <3>3. Evaluated(state, exported, finalFile)
      BY <1>3, <2>4, <2>5 DEF Evaluated
    <3>. QED
      BY <3>1, <3>2, <3>3 DEF Good
  <2>7. PICK s : s = state
    OBVIOUS
  <2>8. /\ s \in Checkpoint /\ Observe(s, r)
        /\ \A d \in Durations : Good(s, now + d, traces, exported', finalFile)
        /\ disk # None => Good(disk, disk.elapsed, traces, exported', finalFile)
    BY <2>1, <2>4, <2>5, <2>6, <2>7
  <2>. QED
    BY <2>2, <2>5, <2>8, ObserveCover
<1>8. CASE Evaluate
  <2>. DEFINE state == [st EXCEPT !.evaluated = TRUE]
  <2>1. /\ pc = "evaluation" /\ exported' = st.policy /\ Observe(state, 0)
        /\ UNCHANGED <<disk, finalFile, traces>>
    BY <1>8 DEF Evaluate
  <2>2. /\ state \in Checkpoint /\ state.elapsed = st.elapsed /\ state.entered = st.entered
        /\ state.costModel = st.costModel /\ state.samples = st.samples
        /\ state.nextProbe = st.nextProbe /\ state.evaluated = TRUE /\ state.policy = st.policy
    BY DEF Checkpoint
  <2>. HIDE DEF state
  <2>3. disk = st /\ ~ st.evaluated /\ Kind = "evaluate" /\ finalFile = st.policy
    BY <2>1 DEF IInv, States, Cover, Working
  <2>4. Len(st.entered) = Phases
    BY <1>2, <2>1, <2>3, PhasesIs DEF Roomy, Kindly
  <2>5. ASSUME NEW d \in Durations PROVE Good(state, now + d, traces, exported', finalFile)
    <3>1. Reached(state, now + d, traces)
      BY <1>1, <1>2, <2>1, <2>2, IterationReached
    <3>2. Measured(state, now + d)
      BY <1>1, <1>2, <2>1, <2>2, <2>3, IterationMeasured
    <3>3. Evaluated(state, exported', finalFile)
      BY <2>1, <2>2, <2>3, <2>4 DEF Evaluated
    <3>. QED
      BY <3>1, <3>2, <3>3 DEF Good
  <2>6. Good(disk, disk.elapsed, traces, exported', finalFile)
    <3>1. Good(st, st.elapsed, traces, exported, finalFile)
      BY SavedGood
    <3>2. Good(st, st.elapsed, traces, exported', finalFile)
      BY <2>3, <3>1, Unevaluated
    <3>. QED
      BY <2>3, <3>2
  <2>7. PICK s : s = state
    OBVIOUS
  <2>8. /\ s \in Checkpoint /\ Observe(s, 0) /\ 0 \in Int
        /\ \A d \in Durations : Good(s, now + d, traces, exported', finalFile)
    BY <2>1, <2>2, <2>5, <2>7
  <2>. QED
    BY <2>1, <2>6, <2>8, ObserveCover
<1>. QED
  BY <1>4, <1>5, <1>6, <1>7, <1>8

(* However often it is killed and restarted, a run whose schedule leaves room *)
(* works through every phase once and in order, finds the cost model where it *)
(* needs it, and is completed with the evaluation of the policy it trained    *)
(* last, which is that of final.ckpt (trainer.py, main).                      *)
THEOREM ScheduleAlwaysCovered ==
  ASSUME Roomy
  PROVE  Spec => []ScheduleCovered
<1>1. Init => Covered
  <2>1. SUFFICES ASSUME Init PROVE Cover
    BY DEF Covered
  <2>2. Good(st, now, traces, exported, finalFile)
    BY <2>1, FreshGood DEF Init
  <2>. QED
    BY <2>1, <2>2 DEF Init, Cover, Working
<1>2. IInv /\ Covered /\ [Next]_vars => Covered'
  <2>1. SUFFICES ASSUME IInv, Covered, [Next]_vars, Unpaused' PROVE Cover'
    BY DEF Covered
  <2>2. UNCHANGED action
    BY <2>1 DEF Next, Trainer, Launch, CreateManifest, ManifestWritten, ReadManifest, Restore,
         LeaveLoop, DiskReserve, Iterate, AwaitProbe, Probe, Learn, Observe, NoCostModel,
         AlreadyEvaluated, BeforeEvaluation, SaveFinal, Evaluate, SaveBest, CopyBest, Unalarmed,
         Alarmed, Poll, PauseStopped, PeriodicSave, Close, Complete, Signal, Kill, vars
  <2>3. Unpaused /\ Cover
    BY <2>1, <2>2 DEF Unpaused, Covered
  <2>. QED
    BY <2>1, <2>3, QuietCover, RestartCover, SaveCover, WorkCover DEF Next, Trainer, Launch
<1>3. IInv /\ Covered => ScheduleCovered
  <2>1. SUFFICES ASSUME IInv, Cover
                 PROVE  /\ ~failure
                        /\ manifest = "completed" =>
                             /\ disk.entered = [i \in DOMAIN Schedule |-> i]
                             /\ traces = DOMAIN Schedule
                             /\ disk.evaluated /\ exported = finalFile /\ finalFile = disk.policy
    BY DEF ScheduleCovered, Covered
  <2>2. SUFFICES ASSUME manifest = "completed"
                 PROVE  /\ disk.entered = [i \in DOMAIN Schedule |-> i]
                        /\ traces = DOMAIN Schedule
                        /\ disk.evaluated /\ exported = finalFile /\ finalFile = disk.policy
    BY <2>1 DEF Cover
  <2>3. disk # None /\ (disk.elapsed >= Budget \/ disk.evaluated)
    BY <2>1, <2>2 DEF IInv, Marked
  <2>4. disk \in Checkpoint /\ Good(disk, disk.elapsed, traces, exported, finalFile)
    BY <2>1, <2>3, CoverFacts
  <2>5. PICK e : e = disk.entered
    OBVIOUS
  <2>6. e \in Seq(1 .. Phases) /\ Len(e) \in Nat
    BY <2>4, <2>5, PhasesIs DEF Checkpoint
  <2>7. Len(e) = Phases /\ disk.evaluated
    <3>1. CASE disk.evaluated
      BY <2>4, <2>5, <3>1 DEF Good, Evaluated
    <3>2. CASE ~ disk.evaluated
      <4>1. disk.elapsed \in Nat /\ disk.elapsed >= Budget /\ Budget \in Nat
        BY <2>3, <2>4, <3>2, BudgetAssumption DEF Checkpoint
      <4>2. ASSUME Len(e) < Phases PROVE FALSE
        <5>1. disk.elapsed < End[Len(e) + 1]
          BY <2>4, <2>5, <4>2 DEF Good, Reached
        <5>2. Len(e) + 1 \in 0 .. Phases
          BY <2>6, <4>2, PhasesIs
        <5>3. End[Len(e) + 1] <= End[Phases] /\ End[Len(e) + 1] \in Nat /\ Budget = End[Phases]
          BY <5>2, EndGrows, EndIs, PhasesIs
        <5>. QED
          BY <4>1, <5>1, <5>3
      <4>3. Len(e) = Phases => FALSE
        BY <2>4, <2>5, <3>2, <4>1 DEF Good, Reached
      <4>4. Len(e) <= Phases
        BY <2>4, <2>5 DEF Good, Reached, InOrder
      <4>. QED
        BY <2>6, <4>2, <4>3, <4>4, PhasesIs
    <3>. QED
      BY <3>1, <3>2
  <2>8. e = [i \in 1 .. Phases |-> i] /\ 1 .. Phases \subseteq traces
    <3>1. \A i \in 1 .. Phases : e[i] = i /\ i \in traces
      BY <2>4, <2>5, <2>7 DEF Good, Reached, InOrder
    <3>2. DOMAIN e = 1 .. Phases /\ e = [i \in DOMAIN e |-> e[i]]
      BY <2>6, <2>7
    <3>. QED
      BY <3>1, <3>2
  <2>9. traces \subseteq DOMAIN Schedule
    BY <2>1 DEF IInv, Simple
  <2>10. exported = finalFile /\ finalFile = disk.policy
    BY <2>4, <2>7 DEF Good, Evaluated
  <2>. QED
    BY <2>5, <2>7, <2>8, <2>9, <2>10, PhasesIs
<1>. QED
  BY <1>1, <1>2, <1>3, Inductive, PTL DEF Spec
=============================================================================
