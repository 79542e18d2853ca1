-------------------------- MODULE CheckpointStore --------------------------
(***************************************************************************)
(* The checkpoint directory of a run (python/neuroseek/training/           *)
(* checkpoint.py) and the trainer that saves to it and restarts from it.   *)
(*                                                                         *)
(* Saving a checkpoint (trainer.py, _checkpoint) is save_atomic, then      *)
(* publish_latest, then prune_periodic, each several system calls; the     *)
(* process may be killed between any two of them, and the machine may lose *)
(* power, which also takes back renames and unlinks that no directory      *)
(* fsync has made durable and data that no file fsync has.                 *)
(*                                                                         *)
(* Abstractions.  A checkpoint is its global step.  A step of the model is *)
(* one training batch.  best.ckpt and final.ckpt are copies of a periodic  *)
(* checkpoint made right after it was saved; what matters is that it still *)
(* exists then.  Private temporary files a crash leaves behind carry names *)
(* no reader looks for, and are left out.                                  *)
(***************************************************************************)
EXTENDS Integers, FiniteSets

CONSTANTS
  Keep,        \* checkpoint.retain_periodic
  ParentStep,  \* the step of --parent-checkpoint, or NoCheckpoint under --resume
  MaxStep,     \* bound of the model: batches
  MaxCrashes,  \* bound of the model: kills and power losses
  MaxFaults    \* bound of the model: files the disk damages

NoCheckpoint == -1
Steps        == 0 .. MaxStep

\* What a file holds: nothing readable is left of "torn"; "cached" is not fsynced.
Data == {"absent", "torn", "cached", "stored"}

ASSUME KeepAssumption   == Keep \in Nat \ {0}
ASSUME StepAssumption   == MaxStep \in Nat /\ ParentStep \in Steps \cup {NoCheckpoint}
ASSUME BoundsAssumption == MaxCrashes \in Nat /\ MaxFaults \in Nat

VARIABLES
  dir,       \* the directory as processes see it
  durable,   \* the directory entries that survive a power loss
  temp,      \* the temporary file being written
  pc,        \* where the trainer is
  target,    \* which file it is publishing: periodic-<step>.ckpt or latest.ckpt
  step,      \* global_step
  saved,     \* the step of the last checkpoint this process saved
  crashes, faults,
  promised,  \* ghost: the step of the last checkpoint that returned
  before     \* ghost: the one before it

directory == <<dir, durable>>
bounds    == <<crashes, faults>>
ghosts    == <<promised, before>>
vars      == <<dir, durable, temp, pc, target, step, saved, crashes, faults, promised, before>>

File      == [step : Steps, data : Data]
Directory == [periodic : [Steps -> Data], latest : File]
NoFile    == [step |-> 0, data |-> "absent"]

MinOf(a, b) == IF a < b THEN a ELSE b

-----------------------------------------------------------------------------
(* Reading the directory *)

Present(data)  == data # "absent"
Readable(data) == data \in {"cached", "stored"}

Generations(d) == {s \in Steps : Present(d.periodic[s])}
Valid(d)       == {s \in Steps : Readable(d.periodic[s])}
Newest(S)      == CHOOSE s \in S : \A t \in S : t <= s

\* Variant: only the convenience copy is tried.
LoadLatest_CopyOnly(d) ==
  IF Readable(d.latest.data) THEN d.latest.step ELSE NoCheckpoint

\* load_latest: latest.ckpt if it can be read, else the newest periodic that can.
LoadLatest(d) ==
  IF Readable(d.latest.data) THEN d.latest.step
  ELSE IF Valid(d) # {} THEN Newest(Valid(d))
  ELSE NoCheckpoint

HasCandidates(d) == Present(d.latest.data) \/ Generations(d) # {}

\* Variant: the newest generations are pruned.
Superseded_Newest(d) ==
  {s \in Generations(d) : Cardinality({t \in Generations(d) : t < s}) >= Keep}

\* sorted(...)[:-keep] of prune_periodic.
Superseded(d) ==
  {s \in Generations(d) : Cardinality({t \in Generations(d) : t > s}) >= Keep}

-----------------------------------------------------------------------------
(* Training and saving *)

Init ==
  /\ dir = [periodic |-> [s \in Steps |-> "absent"], latest |-> NoFile]
  /\ durable = dir
  /\ temp = NoFile
  /\ pc = "down" /\ target = "periodic"
  /\ step = 0 /\ saved = NoCheckpoint
  /\ crashes = 0 /\ faults = 0
  /\ promised = NoCheckpoint /\ before = NoCheckpoint

\* A batch of training between two checkpoints.
Train ==
  /\ pc = "train"
  /\ step < MaxStep
  /\ step' = step + 1
  /\ UNCHANGED <<dir, durable, temp, pc, target, saved, crashes, faults, promised, before>>

\* _checkpoint is called: torch.save to a private temporary file.
SaveTemp ==
  /\ pc = "train"
  /\ temp' = [step |-> step, data |-> "cached"]
  /\ target' = "periodic"
  /\ pc' = "fsync"
  /\ UNCHANGED <<dir, durable, step, saved, bounds, ghosts>>

\* publish_latest: shutil.copy2 of the periodic file, torn if that one is.
CopyTemp ==
  /\ pc = "copy"
  /\ temp' = [step |-> step,
              data |-> IF Readable(dir.periodic[step]) THEN "cached" ELSE "torn"]
  /\ target' = "latest"
  /\ pc' = "fsync"
  /\ UNCHANGED <<dir, durable, step, saved, bounds, ghosts>>

\* Variant: the rename is not preceded by an fsync of the file.
Fsync_Skipped ==
  /\ pc = "fsync"
  /\ pc' = "rename"
  /\ UNCHANGED <<dir, durable, temp, target, step, saved, bounds, ghosts>>

Fsync ==
  /\ pc = "fsync"
  /\ temp' = [temp EXCEPT !.data = IF @ = "cached" THEN "stored" ELSE @]
  /\ pc' = "rename"
  /\ UNCHANGED <<dir, durable, target, step, saved, bounds, ghosts>>

Rename ==
  /\ pc = "rename"
  /\ dir' = IF target = "periodic"
              THEN [dir EXCEPT !.periodic[temp.step] = temp.data]
              ELSE [dir EXCEPT !.latest = temp]
  /\ temp' = NoFile
  /\ pc' = "dirsync"
  /\ UNCHANGED <<durable, target, step, saved, bounds, ghosts>>

DirSync ==
  /\ pc = "dirsync"
  /\ durable' = dir
  /\ pc' = IF target = "periodic" THEN "copy" ELSE "prune"
  /\ UNCHANGED <<dir, temp, target, step, saved, bounds, ghosts>>

\* prune_periodic removes one file at a time, oldest first.
Unlink ==
  /\ pc = "prune"
  /\ \E s \in Superseded(dir) :
       /\ \A t \in Superseded(dir) : s <= t
       /\ dir' = [dir EXCEPT !.periodic[s] = "absent"]
  /\ UNCHANGED <<durable, temp, pc, target, step, saved, bounds, ghosts>>

\* The directory is fsynced if anything was removed; _checkpoint returns.
Return ==
  /\ pc = "prune"
  /\ Superseded(dir) = {}
  /\ durable' = dir
  /\ pc' = "train"
  /\ saved' = step
  /\ promised' = step
  /\ before' = IF step > promised THEN promised ELSE before
  /\ UNCHANGED <<dir, temp, target, step, bounds>>

-----------------------------------------------------------------------------
(* Crashes, faults and restarts *)

Running == pc \notin {"down", "refused"}

\* What becomes of a directory entry when the page cache is lost.
Settled(data) == IF data = "cached" THEN "torn" ELSE data

\* The directory after a power loss: of the entries in lost only the durable
\* state is left, of the others the newest.
Survivor(lost, lostLatest) ==
  LET newest == IF lostLatest THEN durable.latest ELSE dir.latest IN
  [periodic |-> [s \in Steps |->
                   Settled(IF s \in lost THEN durable.periodic[s] ELSE dir.periodic[s])],
   latest   |-> [newest EXCEPT !.data = Settled(@)]]

\* Entries that differ are the only ones a power loss can take back.
Unsynced == {s \in Steps : dir.periodic[s] # durable.periodic[s]}

Stopped ==
  /\ Running
  /\ crashes < MaxCrashes
  /\ crashes' = crashes + 1
  /\ pc' = "down" /\ target' = "periodic" /\ temp' = NoFile
  /\ step' = 0 /\ saved' = NoCheckpoint
  /\ UNCHANGED <<faults, promised, before>>

\* SIGKILL, OOM or an exception: the kernel and its page cache live on.
Kill == Stopped /\ UNCHANGED directory

PowerLoss ==
  /\ Stopped
  /\ \E lost \in SUBSET Unsynced, lostLatest \in BOOLEAN :
       /\ dir' = Survivor(lost, lostLatest)
       /\ durable' = dir'

\* The kernel may write a directory entry back at any time.
WriteBack ==
  /\ \/ \E s \in Unsynced :
          durable' = [durable EXCEPT !.periodic[s] = dir.periodic[s]]
     \/ durable' = [durable EXCEPT !.latest = dir.latest]
  /\ UNCHANGED <<dir, temp, pc, target, step, saved, bounds, ghosts>>

\* The disk damages a checkpoint file.
Damage ==
  /\ faults < MaxFaults
  /\ faults' = faults + 1
  /\ \/ \E s \in Generations(dir) :
          /\ dir' = [dir EXCEPT !.periodic[s] = "torn"]
          /\ durable' = [durable EXCEPT !.periodic[s] =
                           IF Present(@) THEN "torn" ELSE @]
     \/ /\ Present(dir.latest.data)
        /\ dir' = [dir EXCEPT !.latest.data = "torn"]
        /\ durable' = [durable EXCEPT !.latest.data =
                         IF durable.latest = dir.latest THEN "torn" ELSE @]
  /\ UNCHANGED <<temp, pc, target, step, saved, crashes, promised, before>>

\* What main starts from: the parent checkpoint, or what --resume loads.
Start == IF ParentStep # NoCheckpoint THEN ParentStep ELSE LoadLatest(dir)

\* Variant: the result of load_latest is used unchecked.
Restart_Unchecked ==
  /\ pc = "down"
  /\ pc' = "train"
  /\ step' = Start
  /\ promised' = MinOf(promised, Start) /\ before' = MinOf(before, Start)
  /\ UNCHANGED <<dir, durable, temp, target, saved, bounds>>

\* Files but no valid one: main refuses to start this run at step zero.
Restart ==
  /\ pc = "down"
  /\ IF Start = NoCheckpoint /\ HasCandidates(dir)
       THEN pc' = "refused" /\ UNCHANGED <<step, promised, before>>
       ELSE /\ pc' = "train"
            /\ step' = IF Start = NoCheckpoint THEN 0 ELSE Start
            /\ promised' = MinOf(promised, Start)
            /\ before' = MinOf(before, Start)
  /\ UNCHANGED <<dir, durable, temp, target, saved, bounds>>

Next ==
  \/ Train
  \/ SaveTemp \/ CopyTemp \/ Fsync \/ Rename \/ DirSync
  \/ Unlink \/ Return
  \/ Kill \/ PowerLoss \/ WriteBack \/ Damage
  \/ Restart

Spec == Init /\ [][Next]_vars

-----------------------------------------------------------------------------
(* Properties *)

TypeOK ==
  /\ dir \in Directory /\ durable \in Directory
  /\ temp \in File
  /\ pc \in {"train", "fsync", "rename", "dirsync", "copy", "prune", "down", "refused"}
  /\ target \in {"periodic", "latest"}
  /\ step \in Steps
  /\ saved \in Steps \cup {NoCheckpoint}
  /\ promised \in Steps \cup {NoCheckpoint} /\ before \in Steps \cup {NoCheckpoint}
  /\ crashes \in 0 .. MaxCrashes /\ faults \in 0 .. MaxFaults

Resuming == ParentStep = NoCheckpoint

\* What a restart could find after a crash at this very moment.
AfterCrash ==
  {dir} \cup {Survivor(lost, lostLatest) : lost \in SUBSET Unsynced, lostLatest \in BOOLEAN}

(* Without damage to the disk, progress that _checkpoint returned to the   *)
(* training loop is never lost: whenever the process is killed or the      *)
(* machine loses power, load_latest finds a checkpoint at least as new,    *)
(* and main never refuses to resume.                                       *)
PromiseKept ==
  Resuming /\ faults = 0 =>
    /\ \A d \in AfterCrash : LoadLatest(d) >= promised
    /\ pc # "refused"

(* One damaged file costs at most one generation of progress, whichever    *)
(* file it is and whenever it is damaged, even between save_atomic and the *)
(* copy that publish_latest makes of it, if two generations are retained.  *)
OneFaultOneGeneration ==
  Resuming /\ faults <= 1 /\ Keep > 1 =>
    /\ \A d \in AfterCrash : LoadLatest(d) >= before
    /\ pc = "refused" => before = NoCheckpoint

\* Checkpoints of an abandoned future that may be in the directory: a restart
\* after a crash may come back behind one, and behind one more for every damaged
\* file after the first.
Strays == crashes + (IF faults = 0 THEN 0 ELSE faults - 1)

(* Retention deletes neither too much nor too little.  The generation that *)
(* _checkpoint just saved is still there when the trainer copies it to     *)
(* best.ckpt or final.ckpt (trainer.py:919,992), and no power loss takes   *)
(* it back, as long as fewer checkpoints of an abandoned future than       *)
(* retained generations can be in the directory; and a returned checkpoint *)
(* leaves at most Keep generations, a crash before pruning one more.       *)
JustSavedIsKept ==
  /\ Resuming /\ Strays < Keep /\ pc = "train" /\ saved # NoCheckpoint =>
       saved \in Generations(dir) /\ Present(durable.periodic[saved])
  /\ Cardinality(Generations(dir)) <= Keep + crashes + 1
  /\ pc = "train" /\ saved # NoCheckpoint => Cardinality(Generations(dir)) <= Keep

(* The directory implements one recovery point that never falls behind     *)
(* what was promised; a restart resumes exactly from it.                   *)
Recovery == INSTANCE RecoveryPoint WITH
              running <- Running, work <- step, point <- LoadLatest(dir),
              damaged <- faults > 0
RecoverySpec == Recovery!Spec

(* checkpoint.py:88, load_latest: "Load newest valid checkpoint".          *)
NewestValidLoaded ==
  pc = "down" /\ Resuming => \A s \in Valid(dir) : s <= LoadLatest(dir)

(* checkpoint.py:55, prune_periodic: "Prune superseded periodic            *)
(* checkpoints only after durable publication": the generation just        *)
(* published is superseded by none.                                        *)
OnlySupersededPruned ==
  pc = "train" /\ saved # NoCheckpoint => saved \in Generations(dir)
=============================================================================
