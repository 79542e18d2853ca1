--------------------------- MODULE ThermalControl ---------------------------
(***************************************************************************)
(* The training loop of neuroseek/training/trainer.py as the user of its   *)
(* event log and of the thermal policy: what an iteration emits, in which  *)
(* order, what a change of the thermal level does, the pause, and the ways *)
(* a process ends.  What the loop trains, saves and schedules is           *)
(* TrainerRun's; here a checkpoint is the event that reports it.           *)
(***************************************************************************)
EXTENDS EventLog, Telemetry

CONSTANTS Actions,  \* the critical_action values to check
          MaxStops  \* kills, power losses and exceptions in a behaviour

ASSUME StopsAssumption == MaxStops \in Nat

VARIABLES pc,
          action,   \* critical_action of the configuration
          last,     \* last_thermal_level
          alarm,    \* thermal_transition of this iteration
          stopped,  \* STOP, which a signal sets
          stops     \* faults so far (bounded by MaxStops)

loopVars == <<pc, action, last, alarm, stopped, stops>>
vars == <<loopVars, logVars, boardVars, collectorVars>>

Levels == {"", "unavailable", "normal", "warning", "critical"}

Goto(label) == pc' = label /\ UNCHANGED <<action, last, alarm, stopped, stops>>
Quiet == UNCHANGED logVars
Unsampled == UNCHANGED <<boardVars, collectorVars>>

ThermalInit ==
  /\ LogInit /\ TelemetryInit
  /\ pc = "off" /\ action \in Actions /\ last = "" /\ alarm = FALSE
  /\ stopped = FALSE /\ stops = 0

\* main up to the loop: the writer, the collector, the recovery's event.
Start ==
  /\ pc = "off"
  /\ pc' = "recover" /\ last' = "" /\ alarm' = FALSE
  /\ stopped' = FALSE /\ UNCHANGED <<action, stops>>
  /\ NewWriter /\ NewCollector

\* A resumed run reports the checkpoint it starts from, a derived one its
\* parent too, a fresh one nothing.
Recovered ==
  /\ pc = "recover" /\ Unsampled
  /\ \/ Emit("RecoveredFromCheckpoint") /\ (Goto("derive") \/ Goto("settings"))
     \/ Quiet /\ Goto("settings")
Derived == pc = "derive" /\ Emit("DerivedAcceleratedRun") /\ Goto("settings") /\ Unsampled

\* The settings are validated before the try block: a refusal there leaves the
\* process without its finally.
Validated == pc = "settings" /\ Goto("loop") /\ Quiet /\ Unsampled
Refused == pc = "settings" /\ Goto("refused") /\ Quiet /\ Unsampled

\* The head of an iteration: the time the work takes passes here.
Iterate ==
  /\ pc = "loop" /\ ~stopped
  /\ LogTick /\ TelemetryTick
  /\ \E label \in {"probe", "sample"} : Goto(label)

\* The two hardware phases report each probe.
Probe == pc = "probe" /\ Emit("HardwareEvent") /\ Goto("sample") /\ Unsampled

\* The second append of a HardwareEvent comes before anything else.
SecondAppend == rest # None /\ EmitHardware /\ Unsampled /\ UNCHANGED loopVars

Observe == pc = "sample" /\ rest = None /\ Sample /\ Goto("report") /\ Quiet

Report == pc = "report" /\ Emit("TrainingEvent") /\ Goto("decide") /\ Unsampled

\* evaluate; only a level that differs from the last one is acted on.
Decide ==
  /\ pc = "decide"
  /\ LET level == Level(observed.temperature) IN
       /\ alarm' = (level # last)
       /\ last' = level
       /\ IF level # last /\ level \in {"warning", "critical"}
          THEN Emit("WarningEvent") ELSE Quiet
  /\ pc' = "act" /\ Unsampled
  /\ UNCHANGED <<action, stopped, stops>>

Wanted == IF alarm THEN Requested(last, action) ELSE "none"

ActNothing ==
  /\ pc = "act" /\ Wanted \in {"none", "warn"}
  /\ pc' = "tail" /\ alarm' = FALSE /\ Quiet /\ Forget
  /\ UNCHANGED <<action, last, stopped, stops>>

\* A checkpoint, its event, and what comes after it.
Act ==
  /\ pc = "act" /\ Wanted \in {"checkpoint", "checkpoint_stop", "pause"}
  /\ Emit("CheckpointEvent")
  /\ pc' = CASE Wanted = "checkpoint_stop" -> "closing"
             [] Wanted = "pause" -> "pause"
             [] OTHER -> "tail"
  /\ alarm' = FALSE /\ Forget
  /\ UNCHANGED <<action, last, stopped, stops>>

\* The pause polls between bounded waits, and a signal ends it.
PauseWait ==
  /\ pc = "pause" /\ ~stopped /\ rest = None
  /\ LogTick /\ TelemetryTick /\ Goto("poll")
PausePoll == pc = "poll" /\ Sample /\ Goto("polled") /\ Quiet
PauseReport == pc = "polled" /\ Emit("HardwareEvent") /\ Goto("resume?") /\ Unsampled
PauseHolds ==
  /\ pc = "resume?" /\ rest = None /\ Level(observed.temperature) = "critical"
  /\ Goto("pause") /\ Quiet /\ Forget
PauseReleased ==
  /\ pc = "resume?" /\ Level(observed.temperature) # "critical"
  /\ Emit("WarningEvent")
  /\ last' = Level(observed.temperature) /\ pc' = "tail"
  /\ UNCHANGED <<action, alarm, stopped, stops>> /\ Forget
PauseStopped == pc = "pause" /\ stopped /\ Goto("tail") /\ Quiet /\ Unsampled

\* A checkpoint that is due, and the end of the budget or of the schedule.
Tail ==
  /\ pc = "tail"
  /\ \E saved \in BOOLEAN : IF saved THEN Emit("CheckpointEvent") ELSE Quiet
  /\ Unsampled
  /\ \E label \in {"loop", "closing"} : Goto(label)

LeaveLoop == pc = "loop" /\ stopped /\ Goto("closing") /\ Quiet /\ Unsampled

Close == pc = "closing" /\ Emit("PhaseComplete") /\ Goto("finally") /\ Unsampled

\* An exception inside the loop, and the report of it.
Raise ==
  /\ pc \notin {"off", "recover", "derive", "settings", "refused", "raised", "finally",
              "exited"}
  /\ stops < MaxStops /\ stops' = stops + 1
  /\ pc' = "raised" /\ rest' = None /\ UNCHANGED <<sinceSync, unsynced>>
  /\ UNCHANGED <<action, last, alarm, stopped>> /\ Unsampled
ReportError == pc = "raised" /\ Emit("ErrorEvent") /\ Goto("finally") /\ Unsampled

\* finally: events.sync(); the process ends.
Finally == pc = "finally" /\ SyncAll /\ Goto("exited") /\ Unsampled

\* SIGTERM, SIGINT: the handler sets STOP.
Signal ==
  /\ pc \notin {"off", "recover", "derive", "settings", "refused", "exited"} /\ ~stopped
  /\ stopped' = TRUE /\ UNCHANGED <<pc, action, last, alarm, stops>>
  /\ Quiet /\ Unsampled

\* SIGKILL loses nothing that was written; a power loss loses what no fsync
\* has covered.  The launcher starts the next process.
Killed(power) ==
  /\ pc # "off" /\ stops < MaxStops /\ stops' = stops + 1
  /\ pc' = "off" /\ rest' = None /\ UNCHANGED sinceSync
  /\ unsynced' = IF power THEN [s \in Streams |-> None] ELSE unsynced
  /\ UNCHANGED <<action, last, alarm, stopped>> /\ Unsampled

Step ==
  \/ Start \/ Recovered \/ Derived \/ Validated \/ Refused \/ Iterate \/ Probe \/ SecondAppend \/ Observe \/ Report
  \/ Decide \/ ActNothing \/ Act
  \/ PauseWait \/ PausePoll \/ PauseReport \/ PauseHolds \/ PauseReleased
  \/ PauseStopped \/ Tail \/ LeaveLoop \/ Close \/ ReportError \/ Finally

Next == Step \/ Raise \/ Signal \/ \E power \in BOOLEAN : Killed(power)

\* The trainer is one thread that keeps running while it may.
ThermalSpec == ThermalInit /\ [][Next]_vars /\ WF_vars(Step)
-----------------------------------------------------------------------------
Running == pc \notin {"off", "refused", "exited"}

TypeOK ==
  /\ LogTypeOK /\ TelemetryTypeOK
  /\ action \in Actions /\ last \in Levels /\ stops \in 0 .. MaxStops

\* What a power loss can take from metrics.jsonl was written since the last
\* fsync, so less than an interval before the last event (EventWriter._sync_due,
\* emit); and a process that leaves through the loop's end, a signal or an
\* exception leaves every line of both files on stable storage (trainer.py,
\* finally), whatever earlier processes of the run have left unsynced.
LossBounded ==
  /\ Running /\ unsynced.metrics # None => unsynced.metrics <= sinceSync
  /\ pc = "exited" => \A s \in Streams : unsynced[s] = None

\* A board that gets critical and stays so, with tegrastats showing it, ends
\* the work for good when the configured action is to stop or to pause:
\* neither the cache of the last reading nor the rule that only a change of
\* level is acted on may hide it.
HotBoard == printed = Zones /\ Hottest(board) >= Critical
HeatNoticed ==
  action \in {"checkpoint_stop", "pause"} /\ <>[]HotBoard
    => <>[](pc \in {"pause", "poll", "polled", "resume?", "exited",
                   "refused"})

\* What the merged observation says of the age of the tegrastats values is
\* their age: "Mark cached data explicitly instead of presenting it as a
\* fresh measurement" (jetson.py, sample).
AgeIsTrue == observed.shown # NoReading => observed.shown >= observed.age
=============================================================================
