------------------------- MODULE MCCheckpointStore -------------------------
(* Small instances of CheckpointStore for TLC.                             *)
EXTENDS CheckpointStore

\* --resume, and no parent checkpoint.
ResumeRun == NoCheckpoint
=============================================================================
