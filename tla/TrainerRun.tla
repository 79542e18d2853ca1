----------------------------- MODULE TrainerRun -----------------------------
(***************************************************************************)
(* The life of one training run: main of python/neuroseek/training/        *)
(* trainer.py under the launcher, which starts it with --resume on the     *)
(* same run directory until its manifest says it is completed.             *)
(*                                                                         *)
(* The wall clock decides which phase of the schedule an iteration works   *)
(* on.  Signals, critical temperatures and a low disk end the loop early;  *)
(* the process may be killed between any two steps and starts again from   *)
(* the last checkpoint.                                                    *)
(*                                                                         *)
(* Abstractions.  A checkpoint is saved in one step: CheckpointStore and   *)
(* RecoveryPoint say why a restart finds it.  Time is counted in ticks; an *)
(* iteration takes some of Durations.  A learned policy is the number of   *)
(* its updates and the crash they came after, so that an abandoned policy  *)
(* is never mistaken for the one that replaced it.  "warning" acts like    *)
(* "normal" (it only emits an event).  Measurements and losses are left    *)
(* out, and the phase name stored in a checkpoint, which nothing reads.    *)
(***************************************************************************)
EXTENDS Integers, Sequences

CONSTANTS
  None,            \* no such file
  Schedule,        \* the [[phase]] table: what each phase does, and its ticks
  Budget,          \* run.budget_seconds
  Durations,       \* ticks an iteration may take
  Interval,        \* hardware.sample_interval_seconds
  Needed,          \* samples the cost model is trained from
  Rewards,         \* mean rewards of a batch of rollouts
  CriticalActions, \* telemetry.critical_action
  MaxCrashes       \* bound of the model: kills

Kinds  == {"probe", "cost", "learn", "specialize", "evaluate"}
Levels == {"normal", "critical", "unavailable"}
NoBest == -9  \* float("-inf"): no iteration yet

Policies == Nat \X Nat  \* updates, and the crashes before the last one

\* What a checkpoint holds; entered, samples and costModel are of phase_state.
Checkpoint == [step : Nat, elapsed : Nat, policy : Policies, best : Int,
               entered : Seq(DOMAIN Schedule), nextProbe : Nat, samples : Nat,
               costModel : BOOLEAN, evaluated : BOOLEAN]

ASSUME ScheduleAssumption ==
  /\ Schedule \in Seq([kind : Kinds, ticks : Nat \ {0}]) /\ Schedule # << >>
  /\ Durations \subseteq Nat \ {0} /\ Interval \in Nat \ {0} /\ Needed \in Nat \ {0}
ASSUME NoneAssumption   == None \notin Policies \cup Checkpoint
ASSUME RewardAssumption == Rewards \subseteq Int /\ \A r \in Rewards : r > NoBest
ASSUME ActionAssumption ==
  /\ CriticalActions \subseteq {"warn", "checkpoint", "checkpoint_stop", "pause"}
  /\ MaxCrashes \in Nat

VARIABLES
  \* the run directory
  manifest,    \* manifest.json: "none", "torn", "open" or "completed"
  disk,        \* the checkpoint a restart resumes from, or None
  bestFile,    \* the metric of best.ckpt
  finalFile,   \* the policy of final.ckpt
  exported,    \* the policy the final evaluation was exported for
  traces,      \* the phases listed in traces/strategy_evolution.json
  \* the process
  pc, action,  \* action: the configured critical_action
  st,          \* what a checkpoint holds, as the process has it
  now,         \* elapsed_before plus the time of this process
  stop,        \* STOP
  halted,      \* halt_reason is set
  finish,      \* finish_after_evaluation
  last,        \* last_thermal_level
  alarm,       \* the level has just become critical
  failure,     \* the run raised "requires an observed hardware cost model"
  crashes

files   == <<manifest, disk, bestFile, finalFile, exported, traces>>
process == <<st, now, stop, halted, finish, last, alarm>>
vars    == <<files, pc, action, process, failure, crashes>>

\* cursor: when phase i ends.
End[i \in 0 .. Len(Schedule)] == IF i = 0 THEN 0 ELSE End[i - 1] + Schedule[i].ticks

\* _validate_phase_schedule
ASSUME BudgetAssumption == Budget \in Nat /\ Budget = End[Len(Schedule)]

\* _phase_for_elapsed: the first phase that has not ended, or the last one.
PhaseAt(elapsed) ==
  IF elapsed < Budget
    THEN CHOOSE i \in DOMAIN Schedule :
           elapsed < End[i] /\ \A j \in DOMAIN Schedule : elapsed < End[j] => i <= j
    ELSE Len(Schedule)

Scheduled == PhaseAt(st.elapsed)
Kind      == Schedule[Scheduled].kind

Fresh == [step |-> 0, elapsed |-> 0, policy |-> <<0, 0>>, best |-> NoBest, entered |-> << >>,
          nextProbe |-> 0, samples |-> 0, costModel |-> FALSE, evaluated |-> FALSE]

Init ==
  /\ manifest = "none" /\ disk = None /\ bestFile = NoBest /\ finalFile = None /\ exported = None
  /\ traces = {}
  /\ pc = "down" /\ action \in CriticalActions
  /\ st = Fresh /\ now = 0
  /\ stop = FALSE /\ halted = FALSE /\ finish = FALSE /\ last = "" /\ alarm = FALSE
  /\ failure = FALSE /\ crashes = 0

\* The process ends, and with it everything it had not saved.
Exit ==
  /\ pc' = "down"
  /\ st' = Fresh /\ now' = 0
  /\ stop' = FALSE /\ halted' = FALSE /\ finish' = FALSE /\ last' = "" /\ alarm' = FALSE

-----------------------------------------------------------------------------
(* Starting *)

\* The manifest is written in place.
CreateManifest ==
  /\ pc = "down" /\ manifest = "none"
  /\ manifest' = "torn"
  /\ pc' = "create"
  /\ UNCHANGED <<disk, bestFile, finalFile, exported, traces, action, process, failure, crashes>>

ManifestWritten ==
  /\ pc = "create"
  /\ manifest' = "open"
  /\ pc' = "restore"
  /\ UNCHANGED <<disk, bestFile, finalFile, exported, traces, action, process, failure, crashes>>

\* A completed run is refused; a torn manifest does not parse.  Bound of the
\* model: a run that failed is not launched again (it would repeat itself).
ReadManifest ==
  /\ pc = "down" /\ manifest = "open" /\ ~failure
  /\ pc' = "restore"
  /\ UNCHANGED <<files, action, process, failure, crashes>>

\* Variant: the run's elapsed time is not restored.
Restored_NoElapsed == IF disk = None THEN Fresh ELSE [disk EXCEPT !.elapsed = 0]

Restored == IF disk = None THEN Fresh ELSE disk

Restore ==
  /\ pc = "restore"
  /\ st' = Restored
  /\ now' = Restored.elapsed
  /\ pc' = "loop"
  /\ UNCHANGED <<files, action, stop, halted, finish, last, alarm, failure, crashes>>

-----------------------------------------------------------------------------
(* The training loop *)

Save(state) == disk' = state

OnTime  == ~stop /\ now < Budget
Top     == [st EXCEPT !.elapsed = now]

LeaveLoop ==
  /\ pc = "loop" /\ ~OnTime
  /\ pc' = "closing"
  /\ UNCHANGED <<files, action, process, failure, crashes>>

\* The disk reserve is exhausted.
DiskReserve ==
  /\ pc = "loop" /\ OnTime
  /\ st' = Top
  /\ Save(Top)
  /\ halted' = TRUE
  /\ pc' = "closing"
  /\ UNCHANGED <<manifest, bestFile, finalFile, exported, traces, action, now, stop, finish, last, alarm,
                 failure, crashes>>

\* Variant: a phase is entered by every iteration.
Enter_Always(i) ==
  /\ st' = [Top EXCEPT !.entered = Append(@, i)]
  /\ traces' = traces \cup {i}

\* A phase is entered once: its reference traces are captured and indexed.
Enter(i) ==
  IF \E k \in DOMAIN st.entered : st.entered[k] = i
    THEN st' = Top /\ UNCHANGED traces
    ELSE st' = [Top EXCEPT !.entered = Append(@, i)] /\ traces' = traces \cup {i}

\* Variant: the phase is that of the previous iteration's time.
Iterate_Stale ==
  /\ pc = "loop" /\ OnTime
  /\ Enter(Scheduled)
  /\ pc' = "work"
  /\ UNCHANGED <<manifest, disk, bestFile, finalFile, exported, action, now, stop, halted, finish,
                 last, alarm, failure, crashes>>

\* elapsed_total is read once per iteration.
Iterate ==
  /\ pc = "loop" /\ OnTime
  /\ Enter(PhaseAt(now))
  /\ pc' = "work"
  /\ UNCHANGED <<manifest, disk, bestFile, finalFile, exported, action, now, stop, halted, finish,
                 last, alarm, failure, crashes>>

Probing == Kind \in {"probe", "cost"}

\* Between two probes the loop sleeps and starts over.
AwaitProbe ==
  /\ pc = "work" /\ Probing /\ st.elapsed < st.nextProbe
  /\ now' = now + 1
  /\ pc' = "loop"
  /\ UNCHANGED <<files, action, st, stop, halted, finish, last, alarm, failure, crashes>>

\* The end of an iteration: step += batch, the thermal sample, the best metric.
Observe(state, reward) ==
  /\ \E d \in Durations : now' = now + d
  /\ \E level \in Levels :
       /\ alarm' = (level # last /\ level = "critical")
       /\ last' = level
  /\ LET stepped == [state EXCEPT !.step = @ + 1] IN
       IF reward > state.best
         THEN st' = [stepped EXCEPT !.best = reward] /\ pc' = "best"
         ELSE st' = stepped /\ pc' = "thermal"
  /\ UNCHANGED <<action, stop, halted, failure, crashes>>

Probe ==
  /\ pc = "work" /\ Probing /\ st.elapsed >= st.nextProbe
  /\ LET probed  == [st EXCEPT !.nextProbe = st.elapsed + Interval]
         sampled == [probed EXCEPT !.samples = @ + 1,
                                   !.costModel = (@ \/ st.samples + 1 >= Needed)]
     IN Observe(IF Kind = "cost" THEN sampled ELSE probed, 0)
  /\ UNCHANGED <<files, finish>>

\* Behaviour cloning and PPO; specialization reads the cost model.
Learn ==
  /\ pc = "work" /\ (Kind = "learn" \/ (Kind = "specialize" /\ st.costModel))
  /\ \E r \in Rewards : Observe([st EXCEPT !.policy = <<@[1] + 1, crashes>>], r)
  /\ UNCHANGED <<files, finish>>

\* The exception leaves a crash report, and no checkpoint.
NoCostModel ==
  /\ pc = "work" /\ Kind = "specialize" /\ ~st.costModel
  /\ failure' = TRUE
  /\ Exit
  /\ UNCHANGED <<files, action, crashes>>

AlreadyEvaluated ==
  /\ pc = "work" /\ Kind = "evaluate" /\ st.evaluated
  /\ finish' = TRUE
  /\ pc' = "closing"
  /\ UNCHANGED <<files, action, st, now, stop, halted, last, alarm, failure, crashes>>

\* The final evaluation: pre_eval, final.ckpt, the exports, the flag.
BeforeEvaluation ==
  /\ pc = "work" /\ Kind = "evaluate" /\ ~st.evaluated
  /\ Save(st)
  /\ pc' = "final"
  /\ UNCHANGED <<manifest, bestFile, finalFile, exported, traces, action, process, failure, crashes>>

SaveFinal ==
  /\ pc = "final"
  /\ finalFile' = disk.policy
  /\ pc' = "evaluation"
  /\ UNCHANGED <<manifest, disk, bestFile, exported, traces, action, process, failure, crashes>>

Evaluate ==
  /\ pc = "evaluation"
  /\ exported' = st.policy
  /\ finish' = TRUE
  /\ Observe([st EXCEPT !.evaluated = TRUE], 0)
  /\ UNCHANGED <<manifest, disk, bestFile, finalFile, traces>>

SaveBest ==
  /\ pc = "best"
  /\ Save(st)
  /\ pc' = "bestfile"
  /\ UNCHANGED <<manifest, bestFile, finalFile, exported, traces, action, process, failure, crashes>>

CopyBest ==
  /\ pc = "bestfile"
  /\ bestFile' = disk.best
  /\ pc' = "thermal"
  /\ UNCHANGED <<manifest, disk, finalFile, exported, traces, action, process, failure, crashes>>

Unalarmed ==
  /\ pc = "thermal" /\ ~(alarm /\ action # "warn")
  /\ pc' = "tail"
  /\ UNCHANGED <<files, action, process, failure, crashes>>

Alarmed ==
  /\ pc = "thermal" /\ alarm /\ action # "warn"
  /\ Save(st)
  /\ halted' = (action = "checkpoint_stop")
  /\ pc' = CASE action = "checkpoint_stop" -> "closing"
             [] action = "pause"           -> "pause"
             [] OTHER                      -> "tail"
  /\ UNCHANGED <<manifest, bestFile, finalFile, exported, traces, action, st, now, stop, finish, last,
                 alarm, failure, crashes>>

\* Variant: the release of a pause does not renew the level.
Poll_KeepsLevel ==
  /\ pc = "pause" /\ ~stop
  /\ now' = IF now < Budget THEN now + 1 ELSE now
  /\ \E level \in Levels : pc' = IF level = "critical" THEN pc ELSE "tail"
  /\ UNCHANGED <<files, action, st, stop, halted, finish, last, alarm, failure, crashes>>

\* A poll of the pause; any level but "critical" releases it.
Poll ==
  /\ pc = "pause" /\ ~stop
  /\ now' = IF now < Budget THEN now + 1 ELSE now
  /\ \E level \in Levels :
       IF level = "critical" THEN UNCHANGED <<last, pc>>
                             ELSE last' = level /\ pc' = "tail"
  /\ UNCHANGED <<files, action, st, stop, halted, finish, alarm, failure, crashes>>

\* Variant: a pause only ends when it has cooled down.
PauseStopped_Cool ==
  /\ pc = "pause" /\ stop /\ last # "critical"
  /\ pc' = "tail"
  /\ UNCHANGED <<files, action, process, failure, crashes>>

PauseStopped ==
  /\ pc = "pause" /\ stop
  /\ pc' = "tail"
  /\ UNCHANGED <<files, action, process, failure, crashes>>

\* The periodic checkpoint, if it is due.
PeriodicSave ==
  /\ pc = "tail"
  /\ Save(st) \/ UNCHANGED disk
  /\ pc' = IF finish THEN "closing" ELSE "loop"
  /\ UNCHANGED <<manifest, bestFile, finalFile, exported, traces, action, process, failure, crashes>>

-----------------------------------------------------------------------------
(* Ending *)

Close ==
  /\ pc = "closing"
  /\ st' = Top
  /\ Save(Top)
  /\ pc' = "complete"
  /\ UNCHANGED <<manifest, bestFile, finalFile, exported, traces, action, now, stop, halted, finish, last,
                 alarm, failure, crashes>>

\* Variant: a halted run is marked completed.
Finished_Halted == ~stop
Finished == ~stop /\ ~halted

\* completed_at is set atomically, unless the run was stopped or halted.
Complete ==
  /\ pc = "complete"
  /\ manifest' = IF Finished THEN "completed" ELSE manifest
  /\ Exit
  /\ UNCHANGED <<disk, bestFile, finalFile, exported, traces, action, failure, crashes>>

\* SIGTERM and SIGINT, once the handlers are installed.
Signal ==
  /\ pc \notin {"down", "create", "restore"} /\ ~stop
  /\ stop' = TRUE
  /\ UNCHANGED <<files, pc, action, st, now, halted, finish, last, alarm, failure, crashes>>

Kill ==
  /\ pc # "down" /\ crashes < MaxCrashes
  /\ crashes' = crashes + 1
  /\ Exit
  /\ UNCHANGED <<files, action, failure>>

Trainer ==
  \/ ManifestWritten \/ Restore
  \/ LeaveLoop \/ DiskReserve \/ Iterate
  \/ AwaitProbe \/ Probe \/ Learn \/ NoCostModel
  \/ AlreadyEvaluated \/ BeforeEvaluation \/ SaveFinal \/ Evaluate
  \/ SaveBest \/ CopyBest \/ Unalarmed \/ Alarmed \/ Poll \/ PauseStopped \/ PeriodicSave
  \/ Close \/ Complete

Launch == CreateManifest \/ ReadManifest

Next == Trainer \/ Launch \/ Signal \/ Kill

Spec == Init /\ [][Next]_vars /\ WF_vars(Trainer)

-----------------------------------------------------------------------------
(* Properties *)

(* Types; and no phase is entered more often than the schedule names it,   *)
(* across all restarts.                                                    *)
TypeOK ==
  /\ manifest \in {"none", "torn", "open", "completed"}
  /\ disk = None \/ disk \in Checkpoint
  /\ bestFile \in Int
  /\ finalFile \in Policies \cup {None} /\ exported \in Policies \cup {None}
  /\ traces \subseteq DOMAIN Schedule
  /\ pc \in {"down", "create", "restore", "loop", "work", "final", "evaluation", "best",
             "bestfile", "thermal", "pause", "tail", "closing", "complete"}
  /\ action \in CriticalActions
  /\ st \in Checkpoint /\ now \in Nat
  /\ Len(st.entered) <= Len(Schedule)
  /\ stop \in BOOLEAN /\ halted \in BOOLEAN /\ finish \in BOOLEAN
  /\ last \in Levels \cup {""} /\ alarm \in BOOLEAN
  /\ failure \in BOOLEAN /\ crashes \in 0 .. MaxCrashes

(* A run is only marked completed when its time is used up or its final    *)
(* evaluation is done: never after a signal, a critical temperature or a   *)
(* full disk, in whichever process of the run they came.                   *)
CompletedIsFinished ==
  manifest = "completed" => disk # None /\ (disk.elapsed >= Budget \/ disk.evaluated)

(* Kills, signals and restarts never take back saved progress: neither     *)
(* steps, nor elapsed time, nor the best metric, nor phases entered; and   *)
(* best.ckpt is never replaced by a worse policy.                          *)
ProgressKept ==
  [][/\ bestFile' >= bestFile
     /\ disk # None =>
       /\ disk'.step >= disk.step /\ disk'.elapsed >= disk.elapsed /\ disk'.best >= disk.best
       /\ \E k \in 0 .. Len(disk'.entered) : disk.entered = SubSeq(disk'.entered, 1, k)]_vars

\* No pause outlasts a phase: an iteration is the longest wait.
Unpaused == action # "pause"

\* What config/full.toml leaves room for: every phase outlasts an iteration, the
\* evaluation comes last and only there, and before a specialization some phase
\* has the time for the measurements the cost model is trained from.
Roomy ==
  /\ \A i \in DOMAIN Schedule : Schedule[i].kind = "evaluate" <=> i = Len(Schedule)
  /\ \A i \in DOMAIN Schedule, d \in Durations : d <= Schedule[i].ticks
  /\ \A i \in DOMAIN Schedule : Schedule[i].kind = "specialize" =>
       \E c \in 1 .. i - 1 :
         /\ Schedule[c].kind = "cost"
         /\ \A d \in Durations \cup {Interval} : Needed * d <= Schedule[c].ticks

(* A completed run has worked through the whole schedule in order, each    *)
(* phase once, however often it was killed and restarted, and has the      *)
(* reference traces of every phase; it never lacked the cost model of an   *)
(* earlier phase; and it has exported an evaluation of the policy in       *)
(* final.ckpt, the last one it trained: crashes between pre_eval,          *)
(* final.ckpt and the exports do not pull them apart.                      *)
ScheduleCovered ==
  Unpaused =>
    /\ ~failure
    /\ manifest = "completed" =>
         /\ disk.entered = [i \in DOMAIN Schedule |-> i]
         /\ traces = DOMAIN Schedule
         /\ disk.evaluated /\ exported = finalFile /\ finalFile = disk.policy

(* No iteration starts while the last sample was critical, if the          *)
(* configured action is to stop or to pause.                               *)
NoWorkWhileCritical ==
  pc = "work" /\ action \in {"checkpoint_stop", "pause"} => last # "critical"

(* A stop request is honoured, even in a pause that never cools down.      *)
StopHonoured == stop ~> pc = "down"

(* trainer.py:578, _capture_reference_traces: "One immutable file per      *)
(* entered phase": entering a phase never finds it in the index already.   *)
OneTracePerPhase ==
  [][pc = "loop" /\ st'.entered # st.entered => ~(traces' = traces)]_<<pc, st, traces>>
=============================================================================
