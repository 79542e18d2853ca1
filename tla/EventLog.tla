------------------------------ MODULE EventLog ------------------------------
(***************************************************************************)
(* neuroseek/telemetry/events.py: the EventWriter.  Every event is a line  *)
(* appended to metrics.jsonl, a HardwareEvent also to hardware.jsonl, and  *)
(* an fsync is made at most once per interval - one clock for both files.  *)
(* Of a file we keep what a power loss tells apart: the age of its oldest  *)
(* line that no fsync has covered.  Ages are in ticks and saturate at the  *)
(* interval, where the code stops telling them apart.                      *)
(***************************************************************************)
EXTENDS Naturals

CONSTANTS FsyncInterval, \* fsync_interval_seconds, in ticks
          None

ASSUME FsyncIntervalAssumption == FsyncInterval \in Nat \ {0}

Streams == {"metrics", "hardware"}

VARIABLES sinceSync, \* now - _last_fsync
          unsynced,  \* per stream the age of its oldest line without an fsync
          rest       \* None, or the sync flag of an emit that has one file to go

logVars == <<sinceSync, unsynced, rest>>

Ages == 0 .. FsyncInterval
Older(age) == IF age < FsyncInterval THEN age + 1 ELSE age

\* _append: a line added, then the whole file fsynced when the flag says so.
Written(age, sync) == IF sync THEN None ELSE IF age = None THEN 0 ELSE age

LogInit ==
  /\ sinceSync = FsyncInterval
  /\ unsynced = [s \in Streams |-> None]
  /\ rest = None

\* A new EventWriter on the run's directory: _last_fsync = -inf; the files and
\* what is unsynced in them are the previous process's.
NewWriter == sinceSync' = FsyncInterval /\ rest' = None /\ UNCHANGED unsynced

\* _sync_due, and the renewal of the clock that goes with it.
Due == sinceSync >= FsyncInterval
\* Variant: the clock is renewed by every event.
SyncDue_AlwaysRenews == sinceSync' = 0
SyncDue == sinceSync' = IF Due THEN 0 ELSE sinceSync

\* emit up to the first append.  A HardwareEvent has its second append to come.
Emit(category) ==
  /\ rest = None
  /\ SyncDue
  /\ unsynced' = [unsynced EXCEPT !.metrics = Written(@, Due)]
  /\ rest' = IF category = "HardwareEvent" THEN Due ELSE None

EmitHardware ==
  /\ rest # None
  /\ unsynced' = [unsynced EXCEPT !.hardware = Written(@, rest)]
  /\ rest' = None
  /\ UNCHANGED sinceSync

\* sync: both files, then _last_fsync.
SyncAll ==
  /\ unsynced' = [s \in Streams |-> None]
  /\ sinceSync' = 0
  /\ rest' = None

\* One tick of the clock the writer reads.
LogTick ==
  /\ sinceSync' = Older(sinceSync)
  /\ unsynced' = [s \in Streams |-> IF unsynced[s] = None THEN None
                                    ELSE Older(unsynced[s])]
  /\ UNCHANGED rest

LogTypeOK ==
  /\ sinceSync \in Ages
  /\ unsynced \in [Streams -> Ages \cup {None}]
  /\ rest \in BOOLEAN \cup {None}
=============================================================================
