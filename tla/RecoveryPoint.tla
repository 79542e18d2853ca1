--------------------------- MODULE RecoveryPoint ---------------------------
(***************************************************************************)
(* What a checkpointing trainer promises about its progress: a restart     *)
(* resumes from one recovery point, which is never behind the checkpoint   *)
(* whose saving last returned to the training loop.  A crash may move the  *)
(* point, back or ahead (to a checkpoint whose publication it cut short),  *)
(* but never behind the promise.  Nothing is promised of a disk that       *)
(* damages files.                                                          *)
(***************************************************************************)
EXTENDS Integers

VARIABLES
  running,   \* the trainer is up
  work,      \* the step the trainer has reached
  point,     \* the step a restart would resume from, -1 for none
  promised,  \* the step of the last checkpoint that returned, -1 for none
  damaged    \* the disk has damaged a file

rvars == <<running, work, point, promised, damaged>>

Init == ~running /\ work = 0 /\ point = -1 /\ promised = -1 /\ ~damaged

Work ==
  /\ running
  /\ work' > work
  /\ UNCHANGED <<running, point, promised>>

Publish ==
  /\ running
  /\ point' = work
  /\ UNCHANGED <<running, work, promised>>

Promise ==
  /\ running
  /\ promised' = work
  /\ point = work
  /\ UNCHANGED <<running, work, point>>

Crash ==
  /\ running
  /\ running' = FALSE
  /\ work' = 0
  /\ point' \in Int /\ point' >= promised
  /\ UNCHANGED promised

Restart ==
  /\ ~running
  /\ running' = TRUE
  /\ work' = IF point = -1 THEN 0 ELSE point
  /\ UNCHANGED <<point, promised>>

Next ==
  \/ ~damaged' /\ (Work \/ Publish \/ Promise \/ Crash \/ Restart)
  \/ damaged'

Spec == Init /\ [][Next]_rvars
=============================================================================
