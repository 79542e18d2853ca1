----------------------- MODULE CheckpointStore_proofs -----------------------
(***************************************************************************)
(* Proofs about CheckpointStore for every retention, number of steps,      *)
(* crashes and faults: without damage to the disk no promised progress is  *)
(* lost, and the directory implements one recovery point; a damaged file   *)
(* costs at most one generation; and retention keeps what was just saved.  *)
(***************************************************************************)
EXTENDS CheckpointStore, FiniteSetTheorems, WellFoundedInduction, TLAPS

(***************************************************************************)
(* The inductive invariant.  load_latest prefers latest.ckpt, so what must *)
(* be shown is that latest.ckpt, both as seen and as a power loss would    *)
(* leave it, is intact and not behind the promise; that needs to know, at  *)
(* each system call of a save, what has reached the disk.                  *)
(***************************************************************************)

\* Nothing that readers can open is torn, or only in the page cache.
Intact(d) ==
  /\ \A s \in Steps : d.periodic[s] \in {"absent", "stored"}
  /\ d.latest.data \in {"absent", "stored"}

\* latest.ckpt holds every promise made.
Holds(d) == promised # NoCheckpoint => d.latest.data = "stored" /\ d.latest.step >= promised

\* What the system calls of a save that were already made have achieved.
SaveProgress ==
  /\ pc = "fsync"  => temp.data = "cached" /\ temp.step = step
  /\ pc = "rename" => temp.data = "stored" /\ temp.step = step
  /\ pc = "copy"   => dir.periodic[step] = "stored"
  /\ pc = "prune"  => dir.latest = [step |-> step, data |-> "stored"]
  /\ pc = "dirsync" /\ target = "periodic" => dir.periodic[step] = "stored"
  /\ pc = "dirsync" /\ target = "latest"
       => dir.latest = [step |-> step, data |-> "stored"]

\* A running trainer is ahead of the promise and of what a restart would load.
Ahead ==
  Running => /\ step >= promised
             /\ dir.latest.data = "absent" => \A s \in Valid(dir) : s <= step

Healthy ==
  /\ Intact(dir) /\ Intact(durable)
  /\ Holds(dir) /\ Holds(durable)
  /\ SaveProgress
  /\ Ahead
  /\ pc # "refused"

IInv == TypeOK /\ (Resuming /\ faults = 0 => Healthy)

-----------------------------------------------------------------------------
(* Numbers and directories *)

LEMMA NewestIs ==
  ASSUME NEW S \in SUBSET Steps, S # {}
  PROVE  Newest(S) \in S /\ \A t \in S : t <= Newest(S)
<1>1. MaxStep \in Nat
  BY StepAssumption
<1>. DEFINE D == {MaxStep - s : s \in S}
<1>2. D \in SUBSET Nat /\ D # {}
  <2>1. ASSUME NEW s \in S PROVE MaxStep - s \in Nat
    BY <1>1 DEF Steps
  <2>. QED
    BY <2>1
<1>3. IsWellFoundedOn(OpToRel(<, Nat), Nat)
  BY NatLessThanWellFounded
<1>4. PICK d \in D : \A y \in D : ~ (<<y, d>> \in OpToRel(<, Nat))
  BY <1>2, <1>3, WFMin
<1>5. \A y \in D : ~ (y < d)
  BY <1>2, <1>4 DEF OpToRel
<1>6. PICK s \in S : d = MaxStep - s
  OBVIOUS
<1>7. \A t \in S : t <= s
  <2>1. TAKE t \in S
  <2>2. ~ (MaxStep - t < MaxStep - s)
    BY <1>5, <1>6
  <2>3. t \in Int /\ s \in Int /\ MaxStep \in Int
    BY <1>1, <1>6, <2>1 DEF Steps
  <2>. QED
    BY <2>2, <2>3
<1>. QED
  BY <1>6, <1>7 DEF Newest

LEMMA LoadLatestType ==
  ASSUME NEW d \in Directory
  PROVE  LoadLatest(d) \in Steps \cup {NoCheckpoint}
<1>1. d.latest.step \in Steps
  BY DEF Directory, File
<1>2. Valid(d) # {} => Newest(Valid(d)) \in Steps
  <2>1. Valid(d) \in SUBSET Steps
    BY DEF Valid
  <2>. QED
    BY <2>1, NewestIs
<1>. QED
  BY <1>1, <1>2 DEF LoadLatest

LEMMA StepsAreInts == Steps \subseteq Int /\ \A s \in Steps : s >= 0 /\ s # NoCheckpoint
  BY StepAssumption DEF Steps, NoCheckpoint

\* In an intact directory a file that is there can be read.
LEMMA IntactReads ==
  ASSUME NEW d \in Directory, Intact(d)
  PROVE  /\ LoadLatest(d) = NoCheckpoint => ~HasCandidates(d)
         /\ d.latest.data = "stored" => LoadLatest(d) = d.latest.step
         /\ d.latest.data = "absent" /\ Valid(d) # {} => LoadLatest(d) = Newest(Valid(d))
         /\ d.latest.data = "absent" /\ Valid(d) = {} => LoadLatest(d) = NoCheckpoint
<1>1. Generations(d) = Valid(d)
  BY DEF Intact, Generations, Valid, Present, Readable
<1>2. Valid(d) # {} => Newest(Valid(d)) # NoCheckpoint
  <2>1. Valid(d) \in SUBSET Steps
    BY DEF Valid
  <2>. QED
    BY <2>1, NewestIs, StepsAreInts
<1>3. d.latest.step # NoCheckpoint
  BY StepsAreInts DEF Directory, File
<1>. QED
  BY <1>1, <1>2, <1>3 DEF Intact, LoadLatest, HasCandidates, Present, Readable

\* A directory that holds the promises is loaded at or ahead of them.
LEMMA HoldsLoads ==
  ASSUME NEW d \in Directory, Intact(d), Holds(d),
         promised \in Steps \cup {NoCheckpoint}
  PROVE  LoadLatest(d) >= promised
<1>1. CASE promised = NoCheckpoint
  <2>1. LoadLatest(d) \in Steps \cup {NoCheckpoint}
    BY LoadLatestType
  <2>2. \A x \in Steps \cup {NoCheckpoint} : x >= NoCheckpoint
    BY StepAssumption DEF Steps, NoCheckpoint
  <2>. QED
    BY <1>1, <2>1, <2>2
<1>2. CASE promised # NoCheckpoint
  BY <1>2, IntactReads DEF Holds
<1>. QED
  BY <1>1, <1>2

\* A power loss leaves each entry as it was seen or as it was durable.
LEMMA SurvivorIs ==
  ASSUME TypeOK, NEW lost \in SUBSET Unsynced, NEW lostLatest \in BOOLEAN
  PROVE  /\ Survivor(lost, lostLatest) \in Directory
         /\ Intact(dir) /\ Intact(durable) =>
              /\ Intact(Survivor(lost, lostLatest))
              /\ Survivor(lost, lostLatest).latest \in {dir.latest, durable.latest}
<1>. DEFINE d == Survivor(lost, lostLatest)
            newest == IF lostLatest THEN durable.latest ELSE dir.latest
<1>1. newest \in File /\ newest \in {dir.latest, durable.latest}
  BY DEF TypeOK, Directory
<1>2. d.latest = [step |-> newest.step, data |-> Settled(newest.data)]
  BY <1>1 DEF Survivor, File
<1>3. \A s \in Steps : d.periodic[s] = Settled(IF s \in lost THEN durable.periodic[s]
                                               ELSE dir.periodic[s])
  BY DEF Survivor
<1>4. \A x \in Data : Settled(x) \in Data /\ (x \in {"absent", "stored"} => Settled(x) = x)
  BY DEF Settled, Data
<1>5. \A s \in Steps : dir.periodic[s] \in Data /\ durable.periodic[s] \in Data
  BY DEF TypeOK, Directory
<1>6. d \in Directory
  <2>1. [s \in Steps |-> Settled(IF s \in lost THEN durable.periodic[s]
                                 ELSE dir.periodic[s])] \in [Steps -> Data]
    BY <1>4, <1>5
  <2>2. [newest EXCEPT !.data = Settled(@)] \in File
    BY <1>1, <1>4 DEF File
  <2>. QED
    BY <2>1, <2>2 DEF Survivor, Directory
<1>7. ASSUME Intact(dir), Intact(durable)
      PROVE  Intact(d) /\ d.latest = newest
  <2>1. newest.data \in {"absent", "stored"}
    BY <1>1, <1>7 DEF Intact
  <2>2. d.latest = newest
    BY <1>1, <1>2, <1>4, <2>1 DEF File
  <2>3. \A s \in Steps : d.periodic[s] \in {"absent", "stored"}
    BY <1>3, <1>4, <1>5, <1>7 DEF Intact
  <2>. QED
    BY <2>1, <2>2, <2>3 DEF Intact
<1>. QED
  BY <1>1, <1>6, <1>7
-----------------------------------------------------------------------------
(* Type correctness *)

LEMMA InitTypeOK == Init => TypeOK
<1>1. 0 \in Steps
  BY StepAssumption DEF Steps
<1>2. NoFile \in File
  BY <1>1 DEF NoFile, File, Data
<1>. QED
  BY <1>1, <1>2, BoundsAssumption
  DEF Init, TypeOK, Directory, Data, NoCheckpoint

LEMMA NextTypeOK == TypeOK /\ [Next]_vars => TypeOK'
<1>. SUFFICES ASSUME TypeOK, [Next]_vars PROVE TypeOK'
  OBVIOUS
<1>. USE DEF TypeOK
<1>1. 0 \in Steps /\ NoFile \in File
  BY StepAssumption DEF Steps, NoFile, File, Data
<1>2. CASE Train
  BY <1>2, StepAssumption DEF Train, Steps
<1>3. CASE SaveTemp
  BY <1>3 DEF SaveTemp, File, Data, bounds, ghosts
<1>4. CASE CopyTemp
  BY <1>4 DEF CopyTemp, File, Data, bounds, ghosts
<1>5. CASE Fsync
  BY <1>5 DEF Fsync, File, Data, bounds, ghosts
<1>6. CASE Rename
  <2>1. dir' \in Directory
    BY <1>6 DEF Rename, Directory, File
  <2>. QED
    BY <1>1, <1>6, <2>1 DEF Rename, bounds, ghosts
<1>7. CASE DirSync
  BY <1>7 DEF DirSync, bounds, ghosts
<1>8. CASE Unlink
  <2>1. dir' \in Directory
    BY <1>8 DEF Unlink, Directory, Data
  <2>. QED
    BY <1>8, <2>1 DEF Unlink, bounds, ghosts
<1>9. CASE Return
  BY <1>9 DEF Return, bounds
<1>10. ASSUME Stopped
       PROVE  /\ crashes' \in 0 .. MaxCrashes /\ UNCHANGED <<faults, promised, before>>
              /\ pc' = "down" /\ target' = "periodic" /\ temp' \in File
              /\ step' \in Steps /\ saved' = NoCheckpoint
  BY <1>1, <1>10, BoundsAssumption DEF Stopped
<1>11. CASE Kill
  BY <1>10, <1>11 DEF Kill, directory
<1>12. CASE PowerLoss
  BY <1>10, <1>12, SurvivorIs DEF PowerLoss
<1>13. CASE WriteBack
  <2>1. durable' \in Directory
    BY <1>13 DEF WriteBack, Directory, Unsynced
  <2>. QED
    BY <1>13, <2>1 DEF WriteBack, bounds, ghosts
<1>14. CASE Damage
  <2>1. dir' \in Directory /\ durable' \in Directory
    BY <1>14 DEF Damage, Directory, File, Data, Generations
  <2>2. faults' \in 0 .. MaxFaults
    BY <1>14, BoundsAssumption DEF Damage
  <2>. QED
    BY <1>14, <2>1, <2>2 DEF Damage
<1>15. CASE Restart
  <2>1. Start \in Steps \cup {NoCheckpoint}
    BY LoadLatestType, StepAssumption DEF Start
  <2>2. MinOf(promised, Start) \in Steps \cup {NoCheckpoint}
        /\ MinOf(before, Start) \in Steps \cup {NoCheckpoint}
    BY <2>1 DEF MinOf
  <2>. QED
    BY <1>1, <1>15, <2>1, <2>2 DEF Restart, bounds
<1>16. CASE UNCHANGED vars
  BY <1>16 DEF vars
<1>. QED
  BY <1>2, <1>3, <1>4, <1>5, <1>6, <1>7, <1>8, <1>9, <1>11, <1>12, <1>13, <1>14,
     <1>15, <1>16 DEF Next

(* The directory, the trainer and their bounds keep their types whatever   *)
(* the order of saves, crashes, faults and restarts.                       *)
THEOREM TypeCorrect == Spec => []TypeOK
<1>. QED
  BY InitTypeOK, NextTypeOK, PTL DEF Spec

-----------------------------------------------------------------------------
(* The inductive invariant *)

LEMMA InitHealthy == Init => Healthy
  BY DEF Init, Healthy, Intact, Holds, SaveProgress, Ahead, Running, NoFile

\* A step that leaves the directories and the promise alone.
LEMMA KeepsDirectories ==
  ASSUME Healthy, UNCHANGED <<dir, durable, promised>>
  PROVE  Intact(dir)' /\ Intact(durable)' /\ Holds(dir)' /\ Holds(durable)'
  BY DEF Healthy, Intact, Holds

\* Between two crashes the trainer stays ahead if nothing it reads is new.
LEMMA StaysAhead ==
  ASSUME TypeOK, Ahead, UNCHANGED <<dir, promised>>, step' \in Steps, step' >= step,
         Running
  PROVE  Ahead'
<1>1. step \in Int /\ step' \in Int /\ promised \in Int
  BY StepsAreInts DEF TypeOK, NoCheckpoint
<1>2. Valid(dir)' = Valid(dir) /\ Valid(dir) \subseteq Int
  BY StepsAreInts DEF Valid
<1>. QED
  BY <1>1, <1>2 DEF Ahead

LEMMA NextHealthy ==
  ASSUME TypeOK, TypeOK', Resuming, faults = 0, faults' = 0, Healthy, [Next]_vars
  PROVE  Healthy'
<1>. USE DEF Healthy
<1>1. step \in Int /\ promised \in Int /\ step \in Steps /\ step >= 0 /\ step # NoCheckpoint
  BY StepsAreInts DEF TypeOK, NoCheckpoint
<1>2. CASE Train
  <2>1. Ahead'
    BY <1>1, <1>2, StaysAhead DEF Train, Running, TypeOK
  <2>. QED
    BY <1>2, <2>1, KeepsDirectories DEF Train, SaveProgress
<1>3. CASE SaveTemp
  <2>1. Ahead'
    BY <1>1, <1>3, StaysAhead DEF SaveTemp, Running, TypeOK, ghosts
  <2>. QED
    BY <1>3, <2>1, KeepsDirectories DEF SaveTemp, SaveProgress, ghosts
<1>4. CASE CopyTemp
  <2>1. Ahead'
    BY <1>1, <1>4, StaysAhead DEF CopyTemp, Running, TypeOK, ghosts
  <2>2. SaveProgress'
    BY <1>4 DEF CopyTemp, SaveProgress, Readable
  <2>. QED
    BY <1>4, <2>1, <2>2, KeepsDirectories DEF CopyTemp, ghosts
<1>5. CASE Fsync
  <2>1. Ahead'
    BY <1>1, <1>5, StaysAhead DEF Fsync, Running, TypeOK, ghosts
  <2>2. SaveProgress'
    BY <1>5 DEF Fsync, SaveProgress, TypeOK, File
  <2>. QED
    BY <1>5, <2>1, <2>2, KeepsDirectories DEF Fsync, ghosts
<1>6. CASE Rename
  <2>1. pc = "rename" /\ temp = [step |-> step, data |-> "stored"]
    BY <1>6 DEF Rename, SaveProgress, TypeOK, File
  <2>2. CASE target = "periodic"
    <3>1. dir' = [dir EXCEPT !.periodic[step] = "stored"]
      BY <1>6, <2>1, <2>2 DEF Rename
    <3>2. dir'.latest = dir.latest
      BY <3>1 DEF TypeOK, Directory
    <3>3. \A s \in Steps : dir'.periodic[s] = IF s = step THEN "stored" ELSE dir.periodic[s]
      BY <1>1, <3>1 DEF TypeOK, Directory
    <3>4. Valid(dir)' = Valid(dir) \cup {step}
      BY <1>1, <3>3 DEF Valid, Readable
    <3>5. Intact(dir)' /\ Holds(dir)'
      BY <1>6, <3>2, <3>3 DEF Intact, Holds, Rename, ghosts
    <3>6. Intact(durable)' /\ Holds(durable)'
      BY <1>6 DEF Intact, Holds, Rename, ghosts
    <3>7. SaveProgress'
      BY <1>1, <1>6, <2>2, <3>3 DEF SaveProgress, Rename
    <3>8. Ahead'
      BY <1>1, <1>6, <2>1, <3>2, <3>4 DEF Ahead, Rename, Running, ghosts
    <3>. QED
      BY <1>6, <3>5, <3>6, <3>7, <3>8 DEF Rename
  <2>3. CASE target = "latest"
    <3>1. dir' = [dir EXCEPT !.latest = [step |-> step, data |-> "stored"]]
      BY <1>6, <2>1, <2>3 DEF Rename
    <3>2. dir'.latest = [step |-> step, data |-> "stored"] /\ dir'.periodic = dir.periodic
      BY <3>1 DEF TypeOK, Directory
    <3>3. step >= promised
      BY <2>1 DEF Ahead, Running
    <3>4. Intact(dir)' /\ Holds(dir)'
      BY <1>6, <3>2, <3>3 DEF Intact, Holds, Rename, ghosts
    <3>5. Intact(durable)' /\ Holds(durable)'
      BY <1>6 DEF Intact, Holds, Rename, ghosts
    <3>6. SaveProgress'
      BY <1>6, <2>3, <3>2 DEF SaveProgress, Rename
    <3>7. Ahead'
      BY <1>6, <3>2, <3>3 DEF Ahead, Rename, ghosts
    <3>. QED
      BY <1>6, <3>4, <3>5, <3>6, <3>7 DEF Rename
  <2>. QED
    BY <2>2, <2>3 DEF TypeOK
<1>7. CASE DirSync
  <2>1. Ahead'
    BY <1>1, <1>7, StaysAhead DEF DirSync, Running, TypeOK, ghosts
  <2>2. SaveProgress'
    BY <1>7 DEF DirSync, SaveProgress, TypeOK
  <2>3. Intact(dir)' /\ Holds(dir)' /\ Intact(durable)' /\ Holds(durable)'
    BY <1>7 DEF DirSync, Intact, Holds, ghosts
  <2>. QED
    BY <1>7, <2>1, <2>2, <2>3 DEF DirSync
<1>8. CASE Unlink
  <2>1. PICK s \in Steps : dir' = [dir EXCEPT !.periodic[s] = "absent"]
    BY <1>8 DEF Unlink, Superseded, Generations
  <2>2. dir'.latest = dir.latest
    BY <2>1 DEF TypeOK, Directory
  <2>3. \A t \in Steps : dir'.periodic[t] \in {"absent", dir.periodic[t]}
    BY <2>1 DEF TypeOK, Directory
  <2>4. Intact(dir)' /\ Holds(dir)'
    BY <1>8, <2>2, <2>3 DEF Intact, Holds, Unlink, ghosts
  <2>5. Intact(durable)' /\ Holds(durable)'
    BY <1>8 DEF Intact, Holds, Unlink, ghosts
  <2>6. dir.latest = [step |-> step, data |-> "stored"]
    BY <1>8 DEF Unlink, SaveProgress
  <2>7. Ahead' /\ SaveProgress'
    BY <1>8, <2>2, <2>6 DEF Ahead, SaveProgress, Unlink, Running, ghosts
  <2>. QED
    BY <1>8, <2>4, <2>5, <2>7 DEF Unlink
<1>9. CASE Return
  <2>1. dir.latest = [step |-> step, data |-> "stored"]
    BY <1>9 DEF Return, SaveProgress
  <2>2. Intact(dir)' /\ Intact(durable)'
    BY <1>9 DEF Return, Intact
  <2>3. Holds(dir)' /\ Holds(durable)'
    BY <1>1, <1>9, <2>1 DEF Return, Holds
  <2>4. Ahead' /\ SaveProgress'
    BY <1>1, <1>9, <2>1 DEF Return, Ahead, SaveProgress
  <2>. QED
    BY <1>9, <2>2, <2>3, <2>4 DEF Return
<1>10. ASSUME pc' = "down" PROVE SaveProgress' /\ Ahead'
  BY <1>10 DEF SaveProgress, Ahead, Running
<1>11. CASE Kill
  BY <1>10, <1>11, KeepsDirectories DEF Kill, Stopped, directory
<1>12. CASE PowerLoss
  <2>1. PICK lost \in SUBSET Unsynced, lostLatest \in BOOLEAN :
          dir' = Survivor(lost, lostLatest) /\ durable' = dir'
    BY <1>12 DEF PowerLoss
  <2>2. Intact(Survivor(lost, lostLatest))
        /\ Survivor(lost, lostLatest).latest \in {dir.latest, durable.latest}
    BY <2>1, SurvivorIs
  <2>3. Intact(dir)' /\ Intact(durable)'
    BY <2>1, <2>2 DEF Intact
  <2>4. Holds(dir)' /\ Holds(durable)'
    BY <1>12, <2>1, <2>2 DEF Holds, PowerLoss, Stopped
  <2>. QED
    BY <1>10, <1>12, <2>3, <2>4 DEF PowerLoss, Stopped
<1>13. CASE WriteBack
  <2>1. Ahead'
    BY <1>1, <1>13 DEF WriteBack, Ahead, Running, Valid, ghosts
  <2>2. SaveProgress'
    BY <1>13 DEF WriteBack, SaveProgress
  <2>3. Intact(dir)' /\ Holds(dir)'
    BY <1>13 DEF WriteBack, Intact, Holds, ghosts
  <2>4. durable'.latest \in {dir.latest, durable.latest}
        /\ \A s \in Steps : durable'.periodic[s] \in {dir.periodic[s], durable.periodic[s]}
    BY <1>13 DEF WriteBack, TypeOK, Directory, Unsynced
  <2>5. Intact(durable)' /\ Holds(durable)'
    BY <1>13, <2>4 DEF WriteBack, Intact, Holds, ghosts
  <2>. QED
    BY <1>13, <2>1, <2>2, <2>3, <2>5 DEF WriteBack
<1>14. CASE Damage
  BY <1>14, BoundsAssumption DEF Damage
<1>15. CASE Restart
  <2>1. dir \in Directory /\ promised \in Steps \cup {NoCheckpoint}
    BY DEF TypeOK
  <2>2. Start = LoadLatest(dir) /\ Start \in Steps \cup {NoCheckpoint}
    BY <2>1, LoadLatestType DEF Start, Resuming
  <2>3. Start >= promised
    BY <2>1, <2>2, HoldsLoads
  <2>4. pc' = "train" /\ step' = IF Start = NoCheckpoint THEN 0 ELSE Start
    BY <1>15, <2>1, <2>2, IntactReads DEF Restart
  <2>5. promised' = promised
    <3>1. promised' = MinOf(promised, Start)
      BY <1>15, <2>1, <2>2, IntactReads DEF Restart
    <3>2. Start \in Int
      BY <2>2, StepsAreInts DEF NoCheckpoint
    <3>. QED
      BY <1>1, <2>3, <3>1, <3>2 DEF MinOf
  <2>6. dir' = dir /\ durable' = durable
    BY <1>15 DEF Restart
  <2>7. SaveProgress'
    BY <2>4 DEF SaveProgress
  <2>8. step' >= promised'
    <3>1. CASE Start = NoCheckpoint
      BY <1>1, <2>3, <2>4, <2>5, <3>1 DEF NoCheckpoint
    <3>2. CASE Start # NoCheckpoint
      BY <2>3, <2>4, <2>5, <3>2
    <3>. QED
      BY <3>1, <3>2
  <2>9. ASSUME dir.latest.data = "absent" PROVE \A s \in Valid(dir) : s <= step'
    <3>1. CASE Valid(dir) = {}
      BY <3>1
    <3>2. CASE Valid(dir) # {}
      <4>1. Start = Newest(Valid(dir))
        BY <2>1, <2>2, <2>9, <3>2, IntactReads
      <4>2. Valid(dir) \in SUBSET Steps
        BY DEF Valid
      <4>3. Newest(Valid(dir)) \in Steps /\ \A t \in Valid(dir) : t <= Newest(Valid(dir))
        BY <3>2, <4>2, NewestIs
      <4>4. step' = Newest(Valid(dir))
        BY <2>4, <4>1, <4>3, StepsAreInts
      <4>. QED
        BY <4>3, <4>4
    <3>. QED
      BY <3>1, <3>2
  <2>10. Ahead'
    <3>1. Valid(dir)' = Valid(dir)
      BY <2>6 DEF Valid
    <3>. QED
      BY <2>6, <2>8, <2>9, <3>1 DEF Ahead
  <2>. QED
    BY <2>4, <2>5, <2>6, <2>7, <2>10, KeepsDirectories
<1>16. CASE UNCHANGED vars
  <2>1. Ahead'
    BY <1>16 DEF vars, Ahead, Running, Valid
  <2>. QED
    BY <1>16, <2>1, KeepsDirectories DEF vars, SaveProgress
<1>. QED
  BY <1>2, <1>3, <1>4, <1>5, <1>6, <1>7, <1>8, <1>9, <1>11, <1>12, <1>13, <1>14,
     <1>15, <1>16 DEF Next

LEMMA FaultsStay == TypeOK /\ [Next]_vars /\ faults' = 0 => faults = 0
  BY BoundsAssumption
  DEF TypeOK, Next, vars, bounds, Train, SaveTemp, CopyTemp, Fsync, Rename, DirSync, Unlink,
      Return, Kill, PowerLoss, Stopped, WriteBack, Damage, Restart

LEMMA IInvStep == IInv /\ [Next]_vars => IInv'
<1>. SUFFICES ASSUME IInv, [Next]_vars PROVE IInv'
  OBVIOUS
<1>1. TypeOK /\ TypeOK'
  BY NextTypeOK DEF IInv
<1>2. ASSUME Resuming, faults' = 0 PROVE Healthy'
  <2>1. faults = 0 /\ Healthy
    BY <1>1, <1>2, FaultsStay DEF IInv
  <2>. QED
    BY <1>1, <1>2, <2>1, NextHealthy
<1>. QED
  BY <1>1, <1>2 DEF IInv, Resuming

LEMMA Inductive == Spec => []IInv
<1>1. Init => IInv
  BY InitTypeOK, InitHealthy DEF IInv
<1>. QED
  BY <1>1, IInvStep, PTL DEF Spec

-----------------------------------------------------------------------------
(* No promised progress is lost *)

LEMMA KeptNow == IInv => PromiseKept
<1>. SUFFICES ASSUME IInv, Resuming, faults = 0
              PROVE  (\A d \in AfterCrash : LoadLatest(d) >= promised) /\ pc # "refused"
  BY DEF PromiseKept
<1>1. TypeOK /\ Healthy
  BY DEF IInv
<1>2. dir \in Directory /\ promised \in Steps \cup {NoCheckpoint}
  BY <1>1 DEF TypeOK
<1>3. LoadLatest(dir) >= promised
  BY <1>1, <1>2, HoldsLoads DEF Healthy
<1>4. ASSUME NEW lost \in SUBSET Unsynced, NEW lostLatest \in BOOLEAN
      PROVE  LoadLatest(Survivor(lost, lostLatest)) >= promised
  <2>. DEFINE d == Survivor(lost, lostLatest)
  <2>1. d \in Directory /\ Intact(d) /\ d.latest \in {dir.latest, durable.latest}
    BY <1>1, SurvivorIs DEF Healthy
  <2>2. Holds(d)
    BY <1>1, <2>1 DEF Healthy, Holds
  <2>. QED
    BY <1>2, <2>1, <2>2, HoldsLoads
<1>. QED
  BY <1>1, <1>3, <1>4 DEF AfterCrash, Healthy

(* Without damage to the disk, whatever the retention and the number of    *)
(* kills and power losses, a restart loads a checkpoint at least as new as *)
(* the last one _checkpoint returned, and is never refused.                *)
THEOREM PromiseAlwaysKept == Spec => []PromiseKept
<1>. QED
  BY KeptNow, Inductive, PTL

-----------------------------------------------------------------------------
(* The refinement *)

LEMMA NextRecovery ==
  ASSUME IInv, IInv', Resuming, faults' = 0, [Next]_vars
  PROVE  [Recovery!Next]_(Recovery!rvars)
<1>. faults = 0 /\ (faults > 0)' = (faults > 0) /\ ~(faults > 0)'
  BY FaultsStay DEF IInv
<1>1. TypeOK /\ TypeOK' /\ Healthy /\ Healthy'
  BY DEF IInv, Resuming
<1>2. /\ dir \in Directory /\ dir' \in Directory
      /\ promised \in Steps \cup {NoCheckpoint} /\ promised' \in Steps \cup {NoCheckpoint}
      /\ step \in Steps /\ step' \in Steps
  BY <1>1 DEF TypeOK
<1>. USE DEF Recovery!Next, Recovery!rvars
<1>3. ASSUME UNCHANGED <<dir, step, promised>>, Running' = Running
      PROVE  UNCHANGED Recovery!rvars
  BY <1>3 DEF LoadLatest, Valid
<1>4. CASE Train
  <2>1. LoadLatest(dir)' = LoadLatest(dir)
    BY <1>4 DEF Train, LoadLatest, Valid
  <2>2. step' > step
    BY <1>2, <1>4, StepsAreInts DEF Train
  <2>. QED
    BY <1>4, <2>1, <2>2 DEF Train, Running, Recovery!Work
<1>5. CASE SaveTemp \/ CopyTemp \/ Fsync \/ DirSync \/ WriteBack
  BY <1>3, <1>5 DEF SaveTemp, CopyTemp, Fsync, DirSync, WriteBack, Running, ghosts
<1>6. CASE Rename
  <2>1. pc = "rename" /\ temp = [step |-> step, data |-> "stored"]
    BY <1>1, <1>6 DEF Rename, Healthy, SaveProgress, TypeOK, File
  <2>2. Running /\ Running' /\ UNCHANGED <<step, promised>>
    BY <1>6 DEF Rename, Running, ghosts
  <2>3. CASE target = "latest"
    <3>1. dir'.latest = [step |-> step, data |-> "stored"]
      BY <1>1, <1>6, <2>1, <2>3 DEF Rename, TypeOK, Directory
    <3>2. LoadLatest(dir)' = step
      BY <3>1 DEF LoadLatest, Readable
    <3>. QED
      BY <2>2, <3>2 DEF Recovery!Publish
  <2>4. CASE target = "periodic"
    <3>1. dir' = [dir EXCEPT !.periodic[step] = "stored"]
      BY <1>6, <2>1, <2>4 DEF Rename
    <3>2. dir'.latest = dir.latest
      BY <1>1, <3>1 DEF TypeOK, Directory
    <3>3. \A s \in Steps : dir'.periodic[s] = IF s = step THEN "stored" ELSE dir.periodic[s]
      BY <1>1, <3>1 DEF TypeOK, Directory
    <3>4. Valid(dir)' = Valid(dir) \cup {step}
      BY <1>2, <3>3 DEF Valid, Readable
    <3>5. CASE dir.latest.data = "stored"
      <4>1. LoadLatest(dir)' = LoadLatest(dir)
        BY <3>2, <3>5 DEF LoadLatest, Readable
      <4>. QED
        BY <2>2, <4>1
    <3>6. CASE dir.latest.data = "absent"
      <4>1. \A s \in Valid(dir)' : s <= step
        <5>1. step <= step
          BY <1>2, StepsAreInts
        <5>. QED
          BY <1>1, <2>2, <3>4, <3>6, <5>1 DEF Healthy, Ahead
      <4>2. step \in Valid(dir)' /\ Valid(dir)' \in SUBSET Steps
        BY <1>2, <3>4 DEF Valid
      <4>3. Newest(Valid(dir)') = step
        <5>1. Newest(Valid(dir)') \in Valid(dir)' /\ step <= Newest(Valid(dir)')
          BY <4>2, NewestIs
        <5>2. Newest(Valid(dir)') <= step
          BY <4>1, <5>1
        <5>3. Newest(Valid(dir)') \in Steps
          BY <4>2, <5>1
        <5>4. \A s, t \in Steps : s <= t /\ t <= s => s = t
          BY StepsAreInts
        <5>. QED
          BY <1>2, <5>1, <5>2, <5>3, <5>4
      <4>4. LoadLatest(dir)' = step
        BY <3>2, <3>6, <4>2, <4>3 DEF LoadLatest, Readable
      <4>. QED
        BY <2>2, <4>4 DEF Recovery!Publish
    <3>. QED
      BY <1>1, <3>5, <3>6 DEF Healthy, Intact
  <2>. QED
    BY <1>1, <2>3, <2>4 DEF TypeOK
<1>7. CASE Unlink
  <2>1. dir.latest = [step |-> step, data |-> "stored"]
    BY <1>1, <1>7 DEF Unlink, Healthy, SaveProgress
  <2>2. dir'.latest = dir.latest
    BY <1>1, <1>7 DEF Unlink, TypeOK, Directory
  <2>3. LoadLatest(dir)' = LoadLatest(dir)
    BY <2>1, <2>2 DEF LoadLatest, Readable
  <2>. QED
    BY <1>7, <2>3 DEF Unlink, Running, ghosts
<1>8. CASE Return
  <2>1. dir.latest = [step |-> step, data |-> "stored"]
    BY <1>1, <1>8 DEF Return, Healthy, SaveProgress
  <2>2. LoadLatest(dir) = step /\ LoadLatest(dir)' = LoadLatest(dir)
    BY <1>8, <2>1 DEF LoadLatest, Readable, Return, Valid
  <2>. QED
    BY <1>8, <2>2 DEF Return, Running, Recovery!Promise
<1>9. CASE Kill \/ PowerLoss
  <2>1. Stopped
    BY <1>9 DEF Kill, PowerLoss
  <2>2. Running /\ Running' = FALSE /\ step' = 0 /\ promised' = promised
    BY <2>1 DEF Stopped, Running
  <2>3. LoadLatest(dir') \in Int
    <3>1. LoadLatest(dir') \in Steps \cup {NoCheckpoint}
      BY <1>2, LoadLatestType
    <3>2. Steps \cup {NoCheckpoint} \subseteq Int
      BY StepsAreInts DEF NoCheckpoint
    <3>. QED
      BY <3>1, <3>2
  <2>4. LoadLatest(dir') >= promised'
    <3>1. Intact(dir)' /\ Holds(dir)'
      BY <1>1 DEF Healthy
    <3>2. Intact(dir') /\ (promised' # NoCheckpoint =>
                              dir'.latest.data = "stored" /\ dir'.latest.step >= promised')
      BY <3>1 DEF Intact, Holds
    <3>3. Holds(dir')
      BY <2>2, <3>2 DEF Holds
    <3>4. LoadLatest(dir') >= promised
      BY <1>2, <3>2, <3>3, HoldsLoads
    <3>. QED
      BY <2>2, <3>4
  <2>5. LoadLatest(dir)' = LoadLatest(dir')
    BY DEF LoadLatest, Valid
  <2>6. LoadLatest(dir)' \in Int /\ LoadLatest(dir)' >= promised
    BY <2>2, <2>3, <2>4, <2>5
  <2>. QED
    BY <2>2, <2>6 DEF Recovery!Crash
<1>10. CASE Damage
  BY <1>1, <1>10 DEF Damage, TypeOK
<1>11. CASE Restart
  <2>1. Start = LoadLatest(dir) /\ Start \in Steps \cup {NoCheckpoint}
    BY <1>2, LoadLatestType DEF Start, Resuming
  <2>2. Start >= promised
    BY <1>1, <1>2, <2>1, HoldsLoads DEF Healthy
  <2>3. /\ pc = "down" /\ pc' = "train" /\ dir' = dir
        /\ step' = IF Start = NoCheckpoint THEN 0 ELSE Start
        /\ promised' = MinOf(promised, Start)
    BY <1>1, <1>2, <1>11, <2>1, IntactReads DEF Restart, Healthy
  <2>4. promised' = promised
    <3>1. promised \in Int /\ Start \in Int
      BY <1>2, <2>1, StepsAreInts DEF NoCheckpoint
    <3>. QED
      BY <2>2, <2>3, <3>1 DEF MinOf
  <2>5. LoadLatest(dir)' = LoadLatest(dir)
    BY <2>3 DEF LoadLatest, Valid
  <2>. QED
    BY <2>1, <2>3, <2>4, <2>5 DEF Running, NoCheckpoint, Recovery!Restart
<1>12. CASE UNCHANGED vars
  BY <1>3, <1>12 DEF vars, Running
<1>. QED
  BY <1>4, <1>5, <1>6, <1>7, <1>8, <1>9, <1>10, <1>11, <1>12 DEF Next

(* Until the disk damages a file, a resuming run's directory is one        *)
(* recovery point: it moves to the trainer's step when a checkpoint is     *)
(* published, a crash never moves it behind the promise, and a restart     *)
(* continues exactly from it.                                              *)
THEOREM ImplementsRecovery ==
  ASSUME Resuming
  PROVE  Spec => RecoverySpec
<1>1. Init => Recovery!Init
  <2>. SUFFICES ASSUME Init PROVE Recovery!Init
    OBVIOUS
  <2>1. Valid(dir) = {} /\ ~Readable(dir.latest.data)
    BY DEF Init, Valid, Readable, NoFile
  <2>. QED
    BY <2>1 DEF Init, Recovery!Init, Running, LoadLatest, NoCheckpoint
<1>2. IInv /\ IInv' /\ [Next]_vars => [Recovery!Next]_(Recovery!rvars)
  <2>. SUFFICES ASSUME IInv, IInv', [Next]_vars
                PROVE  [Recovery!Next]_(Recovery!rvars)
    OBVIOUS
  <2>1. CASE faults' = 0
    BY <2>1, NextRecovery
  <2>2. CASE faults' # 0
    <3>1. faults' > 0
      BY <2>2, BoundsAssumption DEF IInv, TypeOK
    <3>. QED
      BY <3>1 DEF Recovery!Next
  <2>. QED
    BY <2>1, <2>2
<1>. QED
  BY <1>1, <1>2, Inductive, PTL DEF Spec, RecoverySpec, Recovery!Spec

-----------------------------------------------------------------------------
(* One damaged file *)

\* The generations of a directory that can still be read once the cache is gone.
Good(d) == {s \in Steps : d.periodic[s] = "stored"}
Both    == Good(dir) \cap Good(durable)

Two(S, v)    == \E s, t \in S : s # t /\ s >= v /\ t >= v
Backed(S, v) == v \in S \/ \E s, t \in S : s # t /\ s > v /\ t > v

\* The generation being saved is in the directory.
Published == pc \in {"dirsync", "copy", "prune"} \/ (pc \in {"fsync", "rename"} /\ target = "latest")

Ordered == before <= promised /\ (Running => promised <= step)

\* While no file is damaged, two generations stand for the progress that was
\* returned before, one of them for the last that was: in both directories, and
\* in a save already for the progress that will be returned.
Spare ==
  /\ promised # NoCheckpoint => Backed(Both, promised)
  /\ before # NoCheckpoint => Two(Both, before)
  /\ Published => Backed(Good(dir), step)
  /\ Published /\ promised # NoCheckpoint /\ step > promised => Two(Good(dir), promised)
  /\ pc = "prune" => Good(dir) \subseteq Good(durable)

\* No file waits for its fsync, and at most one generation is torn.
Clean ==
  /\ \A s \in Steps : dir.periodic[s] # "cached" /\ durable.periodic[s] # "cached"
  /\ dir.latest.data # "cached" /\ durable.latest.data # "cached"
OneTorn ==
  \E bad \in Steps : \A s \in Steps :
    dir.periodic[s] = "torn" \/ durable.periodic[s] = "torn" => s = bad

\* Where a save is, when what it copies may be damaged.
Saving ==
  /\ pc \in {"fsync", "rename"} => temp.step = step
  /\ pc = "fsync" /\ target = "periodic" => temp.data = "cached"
  /\ pc = "rename" /\ target = "periodic" => temp.data = "stored"
  /\ pc = "rename" => temp.data # "cached"
  /\ (pc = "dirsync" /\ target = "latest") \/ pc = "prune" => dir.latest.step = step

\* Once a file is damaged, latest.ckpt or a generation stands for the progress
\* that was returned before.
Limping ==
  /\ Clean /\ OneTorn /\ Saving
  /\ \A x \in {dir.latest, durable.latest} : x.data = "stored" => x.step >= before
  /\ before # NoCheckpoint => \E s \in Both : s >= before
  /\ Published /\ promised # NoCheckpoint /\ step > promised => \E s \in Good(dir) : s >= promised
  /\ pc = "prune" => Good(dir) \subseteq Good(durable)
  /\ pc = "refused" => before = NoCheckpoint

FaultInv ==
  /\ IInv /\ Ordered
  /\ Resuming /\ Keep > 1 => (faults = 0 => Spare) /\ (faults = 1 => Limping)

LEMMA Numbers ==
  ASSUME TypeOK
  PROVE  /\ step \in Int /\ promised \in Int /\ before \in Int /\ step \in Steps
         /\ promised >= NoCheckpoint /\ before >= NoCheckpoint /\ step > NoCheckpoint
         /\ NoCheckpoint \in Int /\ Steps \subseteq Nat /\ IsFiniteSet(Steps)
<1>1. MaxStep \in Nat /\ Steps \subseteq Nat
  BY StepAssumption DEF Steps
<1>2. IsFiniteSet(Steps)
  <2>1. 0 \in Int /\ MaxStep \in Int
    BY <1>1
  <2>. QED
    BY <2>1, FS_Interval DEF Steps
<1>. QED
  BY <1>1, <1>2 DEF TypeOK, NoCheckpoint

LEMMA OrderedStep ==
  ASSUME TypeOK, TypeOK', Ordered, [Next]_vars
  PROVE  Ordered'
<1>. USE DEF Ordered, Running
<1>1. step \in Int /\ promised \in Int /\ before \in Int /\ step > NoCheckpoint
  BY Numbers
<1>2. CASE Train
  BY <1>1, <1>2 DEF Train
<1>3. CASE SaveTemp \/ CopyTemp \/ Fsync \/ Rename \/ DirSync \/ Unlink \/ WriteBack
  BY <1>3 DEF SaveTemp, CopyTemp, Fsync, Rename, DirSync, Unlink, WriteBack, ghosts
<1>4. CASE Return
  BY <1>1, <1>4 DEF Return
<1>5. CASE Kill \/ PowerLoss
  BY <1>5 DEF Kill, PowerLoss, Stopped
<1>6. CASE Damage
  BY <1>6 DEF Damage
<1>7. CASE Restart
  <2>1. Start \in Steps \cup {NoCheckpoint}
    BY LoadLatestType, StepAssumption DEF Start, TypeOK
  <2>2. Start \in Int
    BY <2>1, Numbers
  <2>3. CASE pc' = "refused" /\ UNCHANGED <<step, promised, before>>
    BY <2>3
  <2>4. CASE /\ step' = IF Start = NoCheckpoint THEN 0 ELSE Start
             /\ promised' = MinOf(promised, Start) /\ before' = MinOf(before, Start)
    BY <1>1, <2>2, <2>4 DEF MinOf, NoCheckpoint
  <2>. QED
    BY <1>7, <2>3, <2>4 DEF Restart
<1>8. CASE UNCHANGED vars
  BY <1>8 DEF vars
<1>. QED
  BY <1>2, <1>3, <1>4, <1>5, <1>6, <1>7, <1>8 DEF Next

\* More generations stand for as much.
LEMMA MoreStand ==
  ASSUME NEW S, NEW T, S \subseteq T, NEW v
  PROVE  (Two(S, v) => Two(T, v)) /\ (Backed(S, v) => Backed(T, v))
  BY DEF Two, Backed

\* Retention leaves a generation out only for two newer ones.
LEMMA NewerPair ==
  ASSUME TypeOK, Keep > 1, NEW x \in Superseded(dir)
  PROVE  \E s, t \in Generations(dir) : s # t /\ s > x /\ t > x
<1>. DEFINE N == {t \in Generations(dir) : t > x}
<1>1. Cardinality(N) >= Keep /\ Keep \in Nat
  BY KeepAssumption DEF Superseded
<1>2. IsFiniteSet(N)
  <2>1. N \in SUBSET Steps
    BY DEF Generations
  <2>. QED
    BY <2>1, Numbers, FS_Subset
<1>3. Cardinality(N) \in Nat /\ Cardinality(N) > 1
  BY <1>1, <1>2, FS_CardinalityType
<1>. HIDE DEF N
<1>4. N # {}
  BY <1>3, FS_EmptySet
<1>5. PICK s \in N : TRUE
  BY <1>4
<1>6. IsFiniteSet(N \ {s}) /\ Cardinality(N \ {s}) = Cardinality(N) - 1
  BY <1>2, <1>5, FS_RemoveElement
<1>7. N \ {s} # {}
  BY <1>3, <1>6, FS_EmptySet
<1>8. PICK t \in N \ {s} : TRUE
  BY <1>7
<1>. QED
  BY <1>5, <1>8 DEF N

LEMMA StillStand ==
  ASSUME NEW S \in SUBSET Int, NEW x \in Int, NEW v \in Int,
         \E s, t \in S : s # t /\ s > x /\ t > x
  PROVE  (Two(S, v) => Two(S \ {x}, v)) /\ (Backed(S, v) => Backed(S \ {x}, v))
<1>1. PICK s \in S, t \in S : s # t /\ s > x /\ t > x
  OBVIOUS
<1>2. s \in S \ {x} /\ t \in S \ {x}
  BY <1>1
<1>3. ASSUME Two(S, v) PROVE Two(S \ {x}, v)
  <2>1. PICK a \in S, b \in S : a # b /\ a >= v /\ b >= v
    BY <1>3 DEF Two
  <2>2. CASE x \notin {a, b}
    BY <2>1, <2>2 DEF Two
  <2>3. CASE x \in {a, b}
    BY <1>1, <1>2, <2>1, <2>3 DEF Two
  <2>. QED
    BY <2>2, <2>3
<1>4. ASSUME Backed(S, v) PROVE Backed(S \ {x}, v)
  <2>1. CASE v \in S
    BY <1>1, <1>2, <2>1 DEF Backed
  <2>2. CASE v \notin S
    <3>1. PICK a \in S, b \in S : a # b /\ a > v /\ b > v
      BY <1>4, <2>2 DEF Backed
    <3>2. CASE x \notin {a, b}
      BY <3>1, <3>2 DEF Backed
    <3>3. CASE x \in {a, b}
      BY <1>1, <1>2, <3>1, <3>3 DEF Backed
    <3>. QED
      BY <3>2, <3>3
  <2>. QED
    BY <2>1, <2>2
<1>. QED
  BY <1>3, <1>4

\* The loss of one generation leaves one of two.
LEMMA OneOfTwo ==
  ASSUME NEW S, NEW v, Two(S, v), NEW x
  PROVE  \E s \in S \ {x} : s >= v
  BY DEF Two

\* What a rename, a write-back and a loss of power leave of the generations.
LEMMA RenamedGood ==
  ASSUME TypeOK, Rename, target = "periodic", temp = [step |-> step, data |-> "stored"]
  PROVE  /\ Good(dir') = Good(dir) \cup {step} /\ durable' = durable
         /\ dir'.latest = dir.latest
         /\ \A s \in Steps : dir'.periodic[s] = IF s = step THEN "stored" ELSE dir.periodic[s]
<1>1. dir' = [dir EXCEPT !.periodic[step] = "stored"] /\ durable' = durable
  BY DEF Rename
<1>2. step \in Steps
  BY DEF TypeOK
<1>3. /\ dir'.latest = dir.latest
      /\ \A s \in Steps : dir'.periodic[s] = IF s = step THEN "stored" ELSE dir.periodic[s]
  BY <1>1, <1>2 DEF TypeOK, Directory
<1>. QED
  BY <1>1, <1>2, <1>3 DEF Good

LEMMA UnlinkedGood ==
  ASSUME TypeOK, NEW x \in Steps, dir' = [dir EXCEPT !.periodic[x] = "absent"]
  PROVE  /\ Good(dir') = Good(dir) \ {x} /\ dir'.latest = dir.latest
         /\ \A s \in Steps : dir'.periodic[s] = IF s = x THEN "absent" ELSE dir.periodic[s]
<1>1. /\ dir'.latest = dir.latest
      /\ \A s \in Steps : dir'.periodic[s] = IF s = x THEN "absent" ELSE dir.periodic[s]
  BY DEF TypeOK, Directory
<1>. QED
  BY <1>1 DEF Good

LEMMA WrittenBack ==
  ASSUME TypeOK, WriteBack
  PROVE  /\ dir' = dir /\ durable'.latest \in {dir.latest, durable.latest}
         /\ \A s \in Steps : durable'.periodic[s] \in {dir.periodic[s], durable.periodic[s]}
         /\ Both \subseteq Good(durable')
<1>1. /\ dir' = dir /\ durable'.latest \in {dir.latest, durable.latest}
      /\ \A s \in Steps : durable'.periodic[s] \in {dir.periodic[s], durable.periodic[s]}
  BY DEF WriteBack, TypeOK, Directory, Unsynced
<1>. QED
  BY <1>1 DEF Both, Good

LEMMA SurvivorEntries ==
  ASSUME TypeOK, Clean, NEW lost \in SUBSET Unsynced, NEW lostLatest \in BOOLEAN,
         NEW d, d = Survivor(lost, lostLatest)
  PROVE  /\ d \in Directory /\ d.latest \in {dir.latest, durable.latest}
         /\ \A s \in Steps : d.periodic[s] \in {dir.periodic[s], durable.periodic[s]}
         /\ Both \subseteq Good(d)
<1>. DEFINE newest == IF lostLatest THEN durable.latest ELSE dir.latest
<1>1. newest \in File /\ newest \in {dir.latest, durable.latest} /\ newest.data # "cached"
  BY DEF TypeOK, Directory, Clean
<1>2. d.latest = newest
  <2>1. d.latest = [newest EXCEPT !.data = Settled(newest.data)] /\ Settled(newest.data) = newest.data
    BY <1>1 DEF Survivor, Settled
  <2>. QED
    BY <1>1, <2>1 DEF File
<1>3. \A s \in Steps : d.periodic[s] = IF s \in lost THEN durable.periodic[s] ELSE dir.periodic[s]
  BY DEF Survivor, Settled, Clean
<1>4. d \in Directory
  BY SurvivorIs
<1>5. Both \subseteq Good(d)
  BY <1>3 DEF Both, Good
<1>. QED
  BY <1>1, <1>2, <1>3, <1>4, <1>5

LEMMA SpareStep ==
  ASSUME IInv, IInv', Ordered, Ordered', Resuming, Keep > 1, faults = 0, faults' = 0, Spare, [Next]_vars
  PROVE  Spare'
<1>1. TypeOK /\ Healthy /\ TypeOK' /\ Healthy'
  BY DEF IInv, Resuming
<1>2. /\ step \in Int /\ promised \in Int /\ before \in Int /\ step \in Steps
      /\ Steps \subseteq Int /\ step > NoCheckpoint /\ NoCheckpoint \in Int
  BY <1>1, Numbers
<1>3. ASSUME Both \subseteq Both', UNCHANGED <<promised, before>>
      PROVE  /\ promised' # NoCheckpoint => Backed(Both, promised)'
             /\ before' # NoCheckpoint => Two(Both, before)'
  BY <1>3, MoreStand DEF Spare
<1>4. ASSUME UNCHANGED <<dir, durable>> PROVE Both' = Both /\ Good(dir') = Good(dir)
  BY <1>4 DEF Both, Good
<1>5. CASE Train
  BY <1>3, <1>4, <1>5 DEF Train, Spare, Published
<1>6. CASE SaveTemp
  BY <1>3, <1>4, <1>6 DEF SaveTemp, Spare, Published, ghosts
<1>7. CASE CopyTemp
  BY <1>3, <1>4, <1>7 DEF CopyTemp, Spare, Published, ghosts
<1>8. CASE Fsync
  BY <1>3, <1>4, <1>8 DEF Fsync, Spare, Published, ghosts
<1>9. CASE Rename
  <2>1. pc = "rename" /\ temp = [step |-> step, data |-> "stored"]
    BY <1>1, <1>9 DEF Rename, Healthy, SaveProgress, TypeOK, File
  <2>2. /\ UNCHANGED <<step, promised, before, target, durable>> /\ pc' = "dirsync"
    BY <1>9 DEF Rename, ghosts
  <2>3. CASE target = "periodic"
    <3>1. Good(dir') = Good(dir) \cup {step}
      BY <1>1, <1>9, <2>1, <2>3, RenamedGood
    <3>2. Both \subseteq Both' /\ Both \subseteq Good(dir')
      BY <2>2, <3>1 DEF Both
    <3>3. Backed(Good(dir'), step)
      BY <3>1 DEF Backed
    <3>4. ASSUME promised # NoCheckpoint, step > promised PROVE Two(Good(dir'), promised)
      <4>1. Backed(Both, promised)
        BY <3>4 DEF Spare
      <4>2. CASE promised \in Both
        <5>1. promised \in Good(dir') /\ step \in Good(dir') /\ promised # step
          BY <1>2, <3>1, <3>2, <3>4, <4>2
        <5>2. promised >= promised /\ step >= promised
          BY <1>2, <3>4
        <5>. QED
          BY <5>1, <5>2 DEF Two
      <4>3. CASE promised \notin Both
        <5>1. PICK s \in Both, t \in Both : s # t /\ s > promised /\ t > promised
          BY <4>1, <4>3 DEF Backed
        <5>2. s >= promised /\ t >= promised
          BY <1>2, <5>1 DEF Both, Good
        <5>. QED
          BY <3>2, <5>1, <5>2 DEF Two
      <4>. QED
        BY <4>2, <4>3
    <3>. QED
      BY <1>3, <2>2, <3>2, <3>3, <3>4 DEF Spare
  <2>4. CASE target = "latest"
    <3>1. dir'.periodic = dir.periodic
      BY <1>1, <1>9, <2>4 DEF Rename, TypeOK, Directory
    <3>2. Good(dir') = Good(dir) /\ Both' = Both
      BY <2>2, <3>1 DEF Good, Both
    <3>3. Published
      BY <2>1, <2>4 DEF Published
    <3>. QED
      BY <1>3, <2>2, <3>2, <3>3 DEF Spare
  <2>. QED
    BY <1>1, <2>3, <2>4 DEF TypeOK
<1>10. CASE DirSync
  <2>1. /\ UNCHANGED <<dir, step, promised, before, target>> /\ durable' = dir /\ Published
    BY <1>10 DEF DirSync, ghosts, Published
  <2>2. Good(dir') = Good(dir) /\ Good(durable') = Good(dir) /\ Both \subseteq Both'
    BY <2>1 DEF Good, Both
  <2>. QED
    BY <1>3, <2>1, <2>2 DEF Spare
<1>11. CASE Unlink
  <2>1. PICK x \in Superseded(dir) : dir' = [dir EXCEPT !.periodic[x] = "absent"]
    BY <1>11 DEF Unlink
  <2>2. /\ UNCHANGED <<durable, pc, target, step, promised, before>> /\ pc = "prune" /\ x \in Steps
    BY <1>11, <2>1 DEF Unlink, ghosts, Superseded, Generations
  <2>3. Good(dir') = Good(dir) \ {x}
    BY <1>1, <2>1, <2>2, UnlinkedGood
  <2>4. Generations(dir) = Good(dir)
    BY <1>1 DEF Healthy, Intact, Generations, Good, Present
  <2>5. \E s, t \in Good(dir) : s # t /\ s > x /\ t > x
    BY <1>1, <2>1, <2>4, NewerPair
  <2>6. Good(dir) \in SUBSET Int /\ x \in Int
    BY <1>2, <2>2 DEF Good
  <2>7. Both = Good(dir) /\ Both' = Good(dir')
    BY <2>2, <2>3 DEF Both, Spare, Good
  <2>8. \A v \in Int : /\ Two(Good(dir), v) => Two(Good(dir'), v)
                       /\ Backed(Good(dir), v) => Backed(Good(dir'), v)
    BY <2>3, <2>5, <2>6, StillStand
  <2>9. promised' # NoCheckpoint => Backed(Both, promised)'
    BY <1>2, <2>2, <2>7, <2>8 DEF Spare
  <2>10. before' # NoCheckpoint => Two(Both, before)'
    BY <1>2, <2>2, <2>7, <2>8 DEF Spare
  <2>11. Published /\ Backed(Good(dir'), step)
    BY <1>2, <2>2, <2>8 DEF Spare, Published
  <2>12. promised # NoCheckpoint /\ step > promised => Two(Good(dir'), promised)
    BY <1>2, <2>8, <2>11 DEF Spare
  <2>13. Good(dir') \subseteq Good(durable)
    BY <2>2, <2>3 DEF Spare
  <2>. QED
    BY <2>2, <2>9, <2>10, <2>11, <2>12, <2>13 DEF Spare, Good
<1>12. CASE Return
  <2>1. /\ UNCHANGED dir /\ durable' = dir /\ promised' = step /\ pc' = "train" /\ Published
        /\ before' = IF step > promised THEN promised ELSE before
    BY <1>12 DEF Return, Published
  <2>2. Both' = Good(dir) /\ Both \subseteq Good(dir)
    BY <2>1 DEF Both, Good
  <2>3. Backed(Both, promised)'
    BY <2>1, <2>2 DEF Spare
  <2>4. ASSUME before' # NoCheckpoint PROVE Two(Good(dir), before')
    <3>1. CASE step > promised
      BY <2>1, <2>4, <3>1 DEF Spare
    <3>2. CASE ~(step > promised)
      BY <2>1, <2>2, <2>4, <3>2, MoreStand DEF Spare
    <3>. QED
      BY <3>1, <3>2
  <2>. QED
    BY <2>1, <2>2, <2>3, <2>4 DEF Spare, Published
<1>13. CASE Kill
  BY <1>3, <1>4, <1>13 DEF Kill, Stopped, Spare, Published, directory
<1>14. CASE PowerLoss
  <2>1. PICK lost \in SUBSET Unsynced, lostLatest \in BOOLEAN :
          dir' = Survivor(lost, lostLatest) /\ durable' = dir'
    BY <1>14 DEF PowerLoss
  <2>2. Clean
    BY <1>1 DEF Healthy, Intact, Clean
  <2>3. Both \subseteq Good(dir')
    BY <1>1, <2>1, <2>2, SurvivorEntries
  <2>4. Both \subseteq Both'
    BY <2>1, <2>3 DEF Both
  <2>. QED
    BY <1>3, <1>14, <2>4 DEF PowerLoss, Stopped, Spare, Published
<1>15. CASE WriteBack
  <2>1. dir' = dir /\ Both \subseteq Good(durable')
    BY <1>1, <1>15, WrittenBack
  <2>2. Both \subseteq Both' /\ Good(dir') = Good(dir)
    BY <2>1 DEF Both, Good
  <2>3. UNCHANGED <<pc, target, step, promised, before>>
    BY <1>15 DEF WriteBack, ghosts
  <2>4. pc = "prune" => Good(dir) \subseteq Good(durable')
    BY <2>1 DEF Spare, Both
  <2>. QED
    BY <1>3, <2>2, <2>3, <2>4 DEF Spare, Published
<1>16. CASE Damage
  BY <1>16, BoundsAssumption DEF Damage
<1>17. CASE Restart
  <2>1. UNCHANGED <<dir, durable>> /\ pc' \in {"train", "refused"}
    BY <1>17 DEF Restart
  <2>2. Start = LoadLatest(dir) /\ Start \in Steps \cup {NoCheckpoint}
    BY <1>1, LoadLatestType DEF Start, Resuming, TypeOK
  <2>3. Start >= promised /\ Start \in Int
    BY <1>1, <1>2, <2>2, HoldsLoads DEF Healthy, TypeOK
  <2>4. MinOf(promised, Start) = promised /\ MinOf(before, Start) = before
    BY <1>2, <2>3 DEF MinOf, Ordered
  <2>5. UNCHANGED <<promised, before>>
    BY <1>17, <2>4 DEF Restart
  <2>. QED
    BY <1>3, <1>4, <2>1, <2>5 DEF Spare, Published
<1>18. CASE UNCHANGED vars
  BY <1>3, <1>4, <1>18 DEF vars, Spare, Published
<1>. QED
  BY <1>5, <1>6, <1>7, <1>8, <1>9, <1>10, <1>11, <1>12, <1>13, <1>14, <1>15, <1>16, <1>17,
     <1>18 DEF Next

\* The first damaged file.
LEMMA FirstFault ==
  ASSUME IInv, TypeOK', Ordered, Resuming, Keep > 1, faults = 0, Spare, Damage
  PROVE  Limping'
<1>1. TypeOK /\ Healthy
  BY DEF IInv
<1>2. /\ step \in Int /\ promised \in Int /\ before \in Int /\ step \in Steps
      /\ Steps \subseteq Int /\ NoCheckpoint \in Int /\ before >= NoCheckpoint
      /\ promised >= NoCheckpoint /\ Steps \subseteq Nat
  BY <1>1, Numbers
<1>3. UNCHANGED <<temp, pc, target, step, promised, before>>
  BY DEF Damage
<1>4. ASSUME NEW x \in {dir.latest, durable.latest}, x.data = "stored" PROVE x.step >= before
  <2>1. x.step \in Nat
    BY <1>1, <1>2 DEF TypeOK, Directory, File
  <2>2. CASE promised = NoCheckpoint
    BY <1>2, <2>1, <2>2 DEF Ordered, NoCheckpoint
  <2>3. CASE promised # NoCheckpoint
    <3>1. x.step >= promised
      BY <1>1, <2>3 DEF Healthy, Holds
    <3>. QED
      BY <1>2, <2>1, <3>1 DEF Ordered
  <2>. QED
    BY <2>2, <2>3
<1>5. pc = "prune" => Good(dir) \subseteq Good(durable)
  BY DEF Spare
<1>6. (pc = "dirsync" /\ target = "latest") \/ pc = "prune" => dir.latest.step = step
  BY <1>1 DEF Healthy, SaveProgress
<1>7. CASE \E x \in Generations(dir) :
             /\ dir' = [dir EXCEPT !.periodic[x] = "torn"]
             /\ durable' = [durable EXCEPT !.periodic[x] = IF Present(@) THEN "torn" ELSE @]
  <2>1. PICK x \in Steps :
             /\ dir' = [dir EXCEPT !.periodic[x] = "torn"]
             /\ durable' = [durable EXCEPT !.periodic[x] = IF Present(@) THEN "torn" ELSE @]
    BY <1>7 DEF Generations
  <2>2. /\ dir'.latest = dir.latest /\ durable'.latest = durable.latest
        /\ \A s \in Steps : dir'.periodic[s] = IF s = x THEN "torn" ELSE dir.periodic[s]
        /\ \A s \in Steps \ {x} : durable'.periodic[s] = durable.periodic[s]
        /\ durable'.periodic[x] = IF Present(durable.periodic[x]) THEN "torn" ELSE durable.periodic[x]
    BY <1>1, <2>1 DEF TypeOK, Directory
  <2>3. Clean' /\ OneTorn'
    <3>1. Clean'
      BY <1>1, <2>2 DEF Healthy, Intact, Clean, Present
    <3>2. \A s \in Steps : dir'.periodic[s] = "torn" \/ durable'.periodic[s] = "torn" => s = x
      BY <1>1, <2>2 DEF Healthy, Intact
    <3>. QED
      BY <2>1, <3>1, <3>2 DEF OneTorn
  <2>4. Good(dir') = Good(dir) \ {x} /\ Good(durable') = Good(durable) \ {x}
    BY <2>1, <2>2 DEF Good, Present
  <2>5. Both' = Both \ {x}
    BY <2>4 DEF Both
  <2>6. before # NoCheckpoint => \E s \in Both' : s >= before
    BY <2>5, OneOfTwo DEF Spare
  <2>7. Published /\ promised # NoCheckpoint /\ step > promised => \E s \in Good(dir') : s >= promised
    BY <2>4, OneOfTwo DEF Spare
  <2>8. Saving'
    BY <1>1, <1>3, <1>6, <2>2 DEF Healthy, SaveProgress, Saving
  <2>9. pc = "prune" => Good(dir') \subseteq Good(durable')
    BY <1>5, <2>4
  <2>10. pc # "refused"
    BY <1>1 DEF Healthy
  <2>. QED
    BY <1>3, <1>4, <2>2, <2>3, <2>6, <2>7, <2>8, <2>9, <2>10 DEF Limping, Published
<1>8. CASE /\ dir' = [dir EXCEPT !.latest.data = "torn"]
           /\ durable' = [durable EXCEPT !.latest.data = IF durable.latest = dir.latest THEN "torn" ELSE @]
  <2>1. /\ dir'.periodic = dir.periodic /\ durable'.periodic = durable.periodic
        /\ dir'.latest.data = "torn" /\ dir'.latest.step = dir.latest.step
        /\ durable'.latest = durable.latest \/ durable'.latest.data = "torn"
    BY <1>1, <1>8 DEF TypeOK, Directory, File
  <2>2. Good(dir') = Good(dir) /\ Good(durable') = Good(durable) /\ Both' = Both
    BY <2>1 DEF Good, Both
  <2>3. Clean' /\ OneTorn'
    <3>1. Clean'
      BY <1>1, <2>1 DEF Healthy, Intact, Clean
    <3>2. \A s \in Steps : dir'.periodic[s] # "torn" /\ durable'.periodic[s] # "torn"
      BY <1>1, <2>1 DEF Healthy, Intact
    <3>. QED
      BY <1>2, <3>1, <3>2 DEF OneTorn
  <2>4. before # NoCheckpoint => \E s \in Both' : s >= before
    BY <2>2 DEF Spare, Two
  <2>5. Published /\ promised # NoCheckpoint /\ step > promised => \E s \in Good(dir') : s >= promised
    BY <2>2 DEF Spare, Two
  <2>6. Saving'
    BY <1>1, <1>3, <1>6, <2>1 DEF Healthy, SaveProgress, Saving
  <2>7. \A x \in {dir'.latest, durable'.latest} : x.data = "stored" => x.step >= before
    BY <1>4, <2>1
  <2>8. pc # "refused"
    BY <1>1 DEF Healthy
  <2>. QED
    BY <1>3, <1>5, <2>2, <2>3, <2>4, <2>5, <2>6, <2>7, <2>8 DEF Limping, Published
<1>. QED
  BY <1>7, <1>8 DEF Damage

\* What is loaded from a directory that a crash may leave after one fault.
LEMMA LimpLoads ==
  ASSUME TypeOK, Limping, NEW d \in Directory, d.latest \in {dir.latest, durable.latest},
         Both \subseteq Good(d)
  PROVE  LoadLatest(d) >= before
<1>1. before \in Int /\ before >= NoCheckpoint /\ Steps \subseteq Nat /\ NoCheckpoint \in Int
  BY Numbers
<1>2. d.latest.data # "cached"
  BY DEF Limping, Clean
<1>3. CASE d.latest.data = "stored"
  BY <1>3 DEF Limping, LoadLatest, Readable
<1>4. CASE d.latest.data # "stored"
  <2>1. ~Readable(d.latest.data)
    BY <1>2, <1>4 DEF Readable
  <2>2. CASE before = NoCheckpoint
    <3>1. LoadLatest(d) \in Steps \cup {NoCheckpoint}
      BY LoadLatestType
    <3>2. \A x \in Steps \cup {NoCheckpoint} : x >= NoCheckpoint
      BY <1>1 DEF NoCheckpoint
    <3>. QED
      BY <2>2, <3>1, <3>2
  <2>3. CASE before # NoCheckpoint
    <3>1. PICK s \in Both : s >= before
      BY <2>3 DEF Limping
    <3>2. s \in Valid(d) /\ Valid(d) \in SUBSET Steps
      BY <3>1 DEF Good, Valid, Readable
    <3>3. PICK n \in Steps : n = Newest(Valid(d)) /\ s <= n
      BY <3>2, NewestIs
    <3>4. LoadLatest(d) = n
      BY <2>1, <3>2, <3>3 DEF LoadLatest
    <3>5. s \in Steps
      BY <3>2
    <3>6. n >= before
      BY <1>1, <3>1, <3>3, <3>5
    <3>. QED
      BY <3>4, <3>6
  <2>. QED
    BY <2>2, <2>3
<1>. QED
  BY <1>3, <1>4

LEMMA LimpStep ==
  ASSUME TypeOK, TypeOK', Ordered, Ordered', Resuming, Keep > 1, faults = 1, faults' = 1, Limping,
         [Next]_vars
  PROVE  Limping'
<1>1. /\ step \in Int /\ promised \in Int /\ before \in Int /\ step \in Steps
      /\ Steps \subseteq Int /\ step > NoCheckpoint /\ NoCheckpoint \in Int
      /\ promised >= NoCheckpoint /\ before >= NoCheckpoint
  BY Numbers
<1>. DEFINE Latest == \A x \in {dir.latest, durable.latest} : x.data = "stored" => x.step >= before
            Back   == before # NoCheckpoint => \E s \in Both : s >= before
            Front  == Published /\ promised # NoCheckpoint /\ step > promised
                        => \E s \in Good(dir) : s >= promised
            Prunes == pc = "prune" => Good(dir) \subseteq Good(durable)
            Gives  == pc = "refused" => before = NoCheckpoint
<1>2. Clean /\ OneTorn /\ Saving /\ Latest /\ Back /\ Front /\ Prunes /\ Gives
  BY DEF Limping
<1>g. SUFFICES Clean' /\ OneTorn' /\ Saving' /\ Latest' /\ Back' /\ Front' /\ Prunes' /\ Gives'
  BY DEF Limping
<1>3. ASSUME UNCHANGED <<dir, durable>>
      PROVE  Clean' /\ OneTorn' /\ Both' = Both /\ Good(dir') = Good(dir) /\ Good(durable') = Good(durable)
             /\ UNCHANGED <<dir.latest, durable.latest>>
  BY <1>2, <1>3 DEF Clean, OneTorn, Both, Good
<1>4. CASE Train
  BY <1>2, <1>3, <1>4 DEF Train, Published, Saving
<1>5. CASE SaveTemp
  BY <1>2, <1>3, <1>5 DEF SaveTemp, Published, Saving, ghosts
<1>6. CASE CopyTemp
  <2>1. /\ UNCHANGED <<dir, durable, step, promised, before>> /\ pc = "copy" /\ pc' = "fsync"
        /\ target' = "latest" /\ temp'.step = step
    BY <1>6 DEF CopyTemp, ghosts
  <2>. QED
    BY <1>2, <1>3, <2>1 DEF Published, Saving
<1>7. CASE Fsync
  <2>1. /\ UNCHANGED <<dir, durable, step, promised, before, target>> /\ pc = "fsync" /\ pc' = "rename"
    BY <1>7 DEF Fsync, ghosts
  <2>2. temp'.step = step /\ temp'.data # "cached" /\ (target = "periodic" => temp'.data = "stored")
    <3>1. temp' = [temp EXCEPT !.data = IF temp.data = "cached" THEN "stored" ELSE temp.data]
      BY <1>7 DEF Fsync
    <3>2. temp.step = step /\ (target = "periodic" => temp.data = "cached")
      BY <1>2, <2>1 DEF Saving
    <3>. QED
      BY <3>1, <3>2 DEF TypeOK, File
  <2>. QED
    BY <1>2, <1>3, <2>1, <2>2 DEF Published, Saving
<1>8. CASE Rename
  <2>1. /\ UNCHANGED <<step, promised, before, target, durable>> /\ pc = "rename" /\ pc' = "dirsync"
    BY <1>8 DEF Rename, ghosts
  <2>2. temp.step = step /\ temp.data # "cached"
    BY <1>2, <2>1 DEF Saving
  <2>3. CASE target = "periodic"
    <3>1. temp = [step |-> step, data |-> "stored"]
      BY <1>2, <2>1, <2>2, <2>3 DEF Saving, TypeOK, File
    <3>2. /\ Good(dir') = Good(dir) \cup {step} /\ dir'.latest = dir.latest
          /\ \A s \in Steps : dir'.periodic[s] = IF s = step THEN "stored" ELSE dir.periodic[s]
      BY <1>8, <2>3, <3>1, RenamedGood
    <3>3. Clean' /\ OneTorn'
      BY <1>2, <2>1, <3>2 DEF Clean, OneTorn
    <3>4. Both \subseteq Both'
      BY <2>1, <3>2 DEF Both
    <3>5. Front'
      BY <1>1, <2>1, <3>2
    <3>6. Saving' /\ Latest' /\ Prunes' /\ Gives'
      BY <1>2, <2>1, <2>3, <3>2 DEF Saving
    <3>7. Back'
      BY <1>2, <2>1, <3>4
    <3>. QED
      BY <3>3, <3>5, <3>6, <3>7
  <2>4. CASE target = "latest"
    <3>1. dir'.latest = temp /\ dir'.periodic = dir.periodic
      BY <1>8, <2>4 DEF Rename, TypeOK, Directory
    <3>2. Good(dir') = Good(dir) /\ Both' = Both /\ Published
      BY <2>1, <2>4, <3>1 DEF Good, Both, Published
    <3>3. Clean' /\ OneTorn'
      BY <1>2, <2>1, <2>2, <3>1 DEF Clean, OneTorn
    <3>4. step >= before
      BY <1>1, <2>1 DEF Ordered, Running
    <3>5. Latest' /\ Saving' /\ Prunes' /\ Gives'
      BY <1>2, <2>1, <2>2, <3>1, <3>4 DEF Saving
    <3>6. Back' /\ Front'
      BY <1>2, <2>1, <3>2
    <3>. QED
      BY <3>3, <3>5, <3>6
  <2>. QED
    BY <2>3, <2>4 DEF TypeOK
<1>9. CASE DirSync
  <2>1. /\ UNCHANGED <<dir, step, promised, before, target, temp>> /\ durable' = dir /\ pc = "dirsync"
        /\ pc' = IF target = "periodic" THEN "copy" ELSE "prune"
    BY <1>9 DEF DirSync, ghosts
  <2>2. Good(dir') = Good(dir) /\ Good(durable') = Good(dir) /\ Both \subseteq Both' /\ Published
    BY <2>1 DEF Good, Both, Published
  <2>3. Clean' /\ OneTorn'
    BY <1>2, <2>1 DEF Clean, OneTorn
  <2>4. Saving' /\ Latest' /\ Prunes' /\ Gives'
    BY <1>2, <2>1, <2>2 DEF Saving, TypeOK
  <2>5. Back' /\ Front'
    BY <1>2, <2>1, <2>2
  <2>. QED
    BY <2>3, <2>4, <2>5
<1>10. CASE Unlink
  <2>1. PICK x \in Superseded(dir) : dir' = [dir EXCEPT !.periodic[x] = "absent"]
    BY <1>10 DEF Unlink
  <2>2. /\ UNCHANGED <<durable, temp, pc, target, step, promised, before>> /\ pc = "prune" /\ x \in Steps
    BY <1>10, <2>1 DEF Unlink, ghosts, Superseded, Generations
  <2>3. /\ Good(dir') = Good(dir) \ {x} /\ dir'.latest = dir.latest
        /\ \A s \in Steps : dir'.periodic[s] = IF s = x THEN "absent" ELSE dir.periodic[s]
    BY <2>1, <2>2, UnlinkedGood
  <2>4. PICK bad \in Steps : \A s \in Steps :
          dir.periodic[s] = "torn" \/ durable.periodic[s] = "torn" => s = bad
    BY <1>2 DEF OneTorn
  <2>5. \E t \in Good(dir) : t > x
    <3>1. PICK s \in Generations(dir), t \in Generations(dir) : s # t /\ s > x /\ t > x
      BY <2>1, NewerPair
    <3>2. \A u \in Generations(dir) : u # bad => u \in Good(dir)
      <4>1. SUFFICES ASSUME NEW u \in Generations(dir), u # bad PROVE u \in Good(dir)
        OBVIOUS
      <4>2. u \in Steps /\ dir.periodic[u] # "absent"
        BY DEF Generations, Present
      <4>3. dir.periodic[u] # "cached" /\ dir.periodic[u] # "torn"
        BY <1>2, <2>4, <4>1, <4>2 DEF Clean
      <4>4. dir.periodic[u] \in Data
        BY <4>2 DEF TypeOK, Directory
      <4>. QED
        BY <4>2, <4>3, <4>4 DEF Good, Data
    <3>. QED
      BY <3>1, <3>2
  <2>6. \A v \in Int : (\E s \in Good(dir) : s >= v) => \E s \in Good(dir') : s >= v
    <3>1. SUFFICES ASSUME NEW v \in Int, NEW s \in Good(dir), s >= v
                   PROVE  \E r \in Good(dir') : r >= v
      OBVIOUS
    <3>2. PICK t \in Good(dir) : t > x
      BY <2>5
    <3>3. s \in Int /\ t \in Int /\ x \in Int
      BY <1>1, <2>2 DEF Good
    <3>4. CASE s # x
      BY <2>3, <3>1, <3>4
    <3>5. CASE s = x
      BY <2>3, <3>1, <3>2, <3>3, <3>5
    <3>. QED
      BY <3>4, <3>5
  <2>7. Both = Good(dir) /\ Both' = Good(dir')
    BY <1>2, <2>2, <2>3 DEF Both, Good
  <2>8. Back' /\ Front'
    BY <1>1, <1>2, <2>2, <2>6, <2>7 DEF Published
  <2>9. Clean' /\ OneTorn'
    BY <1>2, <2>2, <2>3 DEF Clean, OneTorn
  <2>10. Saving' /\ Latest' /\ Gives'
    BY <1>2, <2>2, <2>3 DEF Saving
  <2>11. Prunes'
    BY <1>2, <2>2, <2>3 DEF Good
  <2>. QED
    BY <2>8, <2>9, <2>10, <2>11
<1>11. CASE Return
  <2>1. /\ UNCHANGED <<dir, temp, target, step>> /\ durable' = dir /\ promised' = step
        /\ pc = "prune" /\ pc' = "train" /\ Published
        /\ before' = IF step > promised THEN promised ELSE before
    BY <1>11 DEF Return, Published
  <2>2. Both' = Good(dir) /\ Both \subseteq Good(dir)
    BY <2>1 DEF Both, Good
  <2>3. dir.latest.step = step /\ promised <= step /\ before <= promised
    BY <1>2, <2>1 DEF Saving, Ordered, Running
  <2>4. Latest'
    BY <1>1, <2>1, <2>3
  <2>5. Back'
    <3>1. CASE step > promised
      BY <1>2, <2>1, <2>2, <3>1
    <3>2. CASE ~(step > promised)
      BY <1>2, <2>1, <2>2, <3>2
    <3>. QED
      BY <3>1, <3>2
  <2>6. Clean' /\ OneTorn'
    BY <1>2, <2>1 DEF Clean, OneTorn
  <2>7. Saving' /\ Front' /\ Prunes' /\ Gives'
    BY <2>1 DEF Saving, Published
  <2>. QED
    BY <2>4, <2>5, <2>6, <2>7
<1>12. CASE Kill
  <2>1. UNCHANGED <<dir, durable, promised, before>> /\ pc' = "down"
    BY <1>12 DEF Kill, Stopped, directory
  <2>. QED
    BY <1>2, <1>3, <2>1 DEF Published, Saving
<1>13. CASE PowerLoss
  <2>1. PICK lost \in SUBSET Unsynced, lostLatest \in BOOLEAN :
          dir' = Survivor(lost, lostLatest) /\ durable' = dir'
    BY <1>13 DEF PowerLoss
  <2>2. UNCHANGED <<promised, before>> /\ pc' = "down"
    BY <1>13 DEF PowerLoss, Stopped
  <2>3. /\ dir'.latest \in {dir.latest, durable.latest}
        /\ \A s \in Steps : dir'.periodic[s] \in {dir.periodic[s], durable.periodic[s]}
        /\ Both \subseteq Good(dir')
    BY <1>2, <2>1, SurvivorEntries
  <2>4. Both \subseteq Both'
    BY <2>1, <2>3 DEF Both
  <2>5. Clean'
    BY <1>2, <2>1, <2>3 DEF Clean
  <2>6. OneTorn'
    BY <1>2, <2>1, <2>3 DEF OneTorn
  <2>7. Saving' /\ Front' /\ Prunes' /\ Gives'
    BY <2>2 DEF Saving, Published
  <2>8. Latest' /\ Back'
    BY <1>2, <2>1, <2>2, <2>3, <2>4
  <2>. QED
    BY <2>5, <2>6, <2>7, <2>8
<1>14. CASE WriteBack
  <2>1. UNCHANGED <<pc, target, temp, step, promised, before>>
    BY <1>14 DEF WriteBack, ghosts
  <2>2. /\ dir' = dir /\ durable'.latest \in {dir.latest, durable.latest}
        /\ \A s \in Steps : durable'.periodic[s] \in {dir.periodic[s], durable.periodic[s]}
        /\ Both \subseteq Good(durable')
    BY <1>14, WrittenBack
  <2>3. Good(dir') = Good(dir) /\ Both \subseteq Both'
    BY <2>2 DEF Good, Both
  <2>4. Clean' /\ OneTorn'
    BY <1>2, <2>2 DEF Clean, OneTorn
  <2>5. Saving' /\ Latest' /\ Gives'
    BY <1>2, <2>1, <2>2 DEF Saving
  <2>6. Back' /\ Front' /\ Prunes'
    BY <1>2, <2>1, <2>2, <2>3 DEF Published, Both
  <2>. QED
    BY <2>4, <2>5, <2>6
<1>15. CASE Damage
  BY <1>15 DEF Damage
<1>16. CASE Restart
  <2>1. UNCHANGED <<dir, durable>> /\ pc' \in {"train", "refused"}
    BY <1>16 DEF Restart
  <2>2. Start = LoadLatest(dir) /\ Start \in Steps \cup {NoCheckpoint}
    BY LoadLatestType DEF Start, Resuming, TypeOK
  <2>3. Start >= before /\ Start \in Int
    <3>1. dir \in Directory /\ Both \subseteq Good(dir)
      BY DEF TypeOK, Both
    <3>. QED
      BY <1>1, <2>2, <3>1, LimpLoads
  <2>4. before' = before
    BY <1>1, <1>16, <2>3 DEF Restart, MinOf
  <2>5. pc' = "refused" => before = NoCheckpoint
    BY <1>1, <1>16, <2>3 DEF Restart
  <2>. QED
    BY <1>2, <1>3, <2>1, <2>4, <2>5 DEF Published, Saving
<1>17. CASE UNCHANGED vars
  BY <1>2, <1>3, <1>17 DEF vars, Published, Saving
<1>. QED
  BY <1>4, <1>5, <1>6, <1>7, <1>8, <1>9, <1>10, <1>11, <1>12, <1>13, <1>14, <1>15, <1>16,
     <1>17 DEF Next

LEMMA OnlyDamageCounts == [Next]_vars /\ faults' # faults => Damage /\ faults' = faults + 1
  BY DEF Next, vars, bounds, Train, SaveTemp, CopyTemp, Fsync, Rename, DirSync, Unlink, Return,
     Kill, PowerLoss, Stopped, WriteBack, Damage, Restart

LEMMA FaultInit == Init => FaultInv
<1>. SUFFICES ASSUME Init PROVE FaultInv
  OBVIOUS
<1>1. IInv
  BY InitTypeOK, InitHealthy DEF IInv
<1>2. Ordered
  BY DEF Init, Ordered, Running, NoCheckpoint
<1>3. Spare /\ faults # 1
  BY DEF Init, Spare, Published
<1>. QED
  BY <1>1, <1>2, <1>3 DEF FaultInv

LEMMA FaultStep == FaultInv /\ [Next]_vars => FaultInv'
<1>. SUFFICES ASSUME FaultInv, [Next]_vars PROVE FaultInv'
  OBVIOUS
<1>1. IInv /\ IInv' /\ TypeOK /\ TypeOK' /\ Ordered
  BY IInvStep DEF FaultInv, IInv
<1>2. Ordered'
  BY <1>1, OrderedStep
<1>3. faults \in Nat /\ faults' \in Nat
  BY <1>1, BoundsAssumption DEF TypeOK
<1>4. ASSUME Resuming, Keep > 1, faults' = 0 PROVE Spare'
  <2>1. faults = 0
    BY <1>1, <1>4, FaultsStay
  <2>2. Spare
    BY <1>4, <2>1 DEF FaultInv
  <2>. QED
    BY <1>1, <1>2, <1>4, <2>1, <2>2, SpareStep
<1>5. ASSUME Resuming, Keep > 1, faults' = 1 PROVE Limping'
  <2>1. CASE faults = 1
    <3>1. Limping
      BY <1>5, <2>1 DEF FaultInv
    <3>. QED
      BY <1>1, <1>2, <1>5, <2>1, <3>1, LimpStep
  <2>2. CASE faults # 1
    <3>1. Damage /\ faults = 0
      BY <1>3, <1>5, <2>2, OnlyDamageCounts
    <3>2. Spare
      BY <1>5, <3>1 DEF FaultInv
    <3>. QED
      BY <1>1, <1>5, <3>1, <3>2, FirstFault
  <2>. QED
    BY <2>1, <2>2
<1>. QED
  BY <1>1, <1>2, <1>4, <1>5 DEF FaultInv, Resuming

(* Whatever the retention above one, the number of kills and power losses, *)
(* and the moment at which one file is damaged, a restart loads a          *)
(* checkpoint at least as new as the one before the last that _checkpoint  *)
(* returned, and is refused only when there was none.                      *)
THEOREM OneFaultCostsOneGeneration == Spec => []OneFaultOneGeneration
<1>1. FaultInv => OneFaultOneGeneration
  <2>. SUFFICES ASSUME FaultInv, Resuming, faults <= 1, Keep > 1
                PROVE  /\ \A d \in AfterCrash : LoadLatest(d) >= before
                       /\ pc = "refused" => before = NoCheckpoint
    BY DEF OneFaultOneGeneration
  <2>1. IInv /\ TypeOK /\ Ordered /\ dir \in Directory
    BY DEF FaultInv, IInv, TypeOK
  <2>2. promised \in Int /\ before \in Int /\ Steps \cup {NoCheckpoint} \subseteq Int
    BY <2>1, Numbers
  <2>3. CASE faults = 0
    <3>1. PromiseKept
      BY <2>1, KeptNow
    <3>2. pc # "refused" /\ \A d \in AfterCrash : LoadLatest(d) >= promised
      BY <2>3, <3>1 DEF PromiseKept
    <3>3. \A d \in AfterCrash : LoadLatest(d) \in Int
      <4>1. \A d \in AfterCrash : d \in Directory
        BY <2>1, SurvivorIs DEF AfterCrash
      <4>. QED
        BY <2>2, <4>1, LoadLatestType
    <3>. QED
      BY <2>1, <2>2, <3>2, <3>3 DEF Ordered
  <2>4. CASE faults = 1
    <3>1. Limping
      BY <2>4 DEF FaultInv
    <3>2. LoadLatest(dir) >= before
      <4>1. Both \subseteq Good(dir)
        BY DEF Both
      <4>. QED
        BY <2>1, <3>1, <4>1, LimpLoads
    <3>3. ASSUME NEW lost \in SUBSET Unsynced, NEW lostLatest \in BOOLEAN
          PROVE  LoadLatest(Survivor(lost, lostLatest)) >= before
      <4>1. PICK d : d = Survivor(lost, lostLatest)
        OBVIOUS
      <4>2. /\ d \in Directory /\ d.latest \in {dir.latest, durable.latest}
            /\ Both \subseteq Good(d)
        BY <2>1, <3>1, <4>1, SurvivorEntries DEF Limping
      <4>3. LoadLatest(d) >= before
        BY <2>1, <3>1, <4>2, LimpLoads
      <4>. QED
        BY <4>1, <4>3
    <3>. QED
      BY <3>1, <3>2, <3>3 DEF AfterCrash, Limping
  <2>. QED
    BY <2>1, <2>3, <2>4, BoundsAssumption DEF TypeOK
<1>. QED
  BY <1>1, FaultInit, FaultStep, PTL DEF Spec

-----------------------------------------------------------------------------
(* What retention keeps *)

\* What is in the directory, as it is seen or as it survives.
Everywhere   == Generations(dir) \cup Generations(durable)
Above(S, v)  == {t \in S : t > v}
TornAnywhere == {s \in Steps : dir.periodic[s] = "torn" \/ durable.periodic[s] = "torn"}

\* From the rename of a generation to its return; until latest.ckpt is durable.
Unsaved == IF Published THEN 1 ELSE 0
Window  == IF Published /\ pc # "prune" THEN 1 ELSE 0

\* The save has made the generation durable.
Synced == pc \in {"copy", "prune"} \/ (target = "latest" /\ pc \in {"fsync", "rename", "dirsync"})

\* Only a generation with Keep newer ones is unlinked, and a power loss may bring
\* it back; what is there is bounded by what a save or a crash may leave.
Counted ==
  /\ Cardinality(TornAnywhere) <= faults
  /\ \A t \in Generations(durable) \ Generations(dir) : Cardinality(Above(Generations(dir), t)) >= Keep
  /\ Cardinality(Everywhere) <= Keep + crashes + Unsaved
  /\ pc = "train" /\ saved # NoCheckpoint => Cardinality(Generations(dir)) <= Keep
  /\ crashes = 0 /\ pc = "down" => Everywhere = {}
  /\ pc = "down" => saved = NoCheckpoint

\* Above what the trainer saves there are no more than the strays.
LatestNear ==
  \A x \in {dir.latest, durable.latest} :
    Readable(x.data) => Cardinality(Above(Everywhere, x.step)) <= Strays + Window
StepNear == Running => Cardinality(Above(Everywhere, step)) <= Strays
SaveThere ==
  /\ Published => step \in Generations(dir)
  /\ Synced => step \in Generations(durable)
  /\ pc = "train" /\ saved # NoCheckpoint => saved \in Generations(dir) \cap Generations(durable)

Retained ==
  /\ TypeOK /\ Clean /\ Saving /\ Counted
  /\ Resuming /\ Strays < Keep => LatestNear /\ StepNear /\ SaveThere

LEMMA Few ==
  /\ \A S \in SUBSET Steps : Cardinality(S) \in Nat /\ (Cardinality(S) = 0 => S = {})
  /\ Cardinality({}) = 0
  /\ \A S, T \in SUBSET Steps : S \subseteq T => Cardinality(S) <= Cardinality(T)
  /\ \A S \in SUBSET Steps, x \in Steps : Cardinality(S \cup {x}) <= Cardinality(S) + 1
<1>1. IsFiniteSet(Steps)
  <2>1. MaxStep \in Int /\ 0 \in Int
    BY StepAssumption
  <2>. QED
    BY <2>1, FS_Interval DEF Steps
<1>2. \A S \in SUBSET Steps : IsFiniteSet(S)
  BY <1>1, FS_Subset
<1>3. \A S \in SUBSET Steps : Cardinality(S) \in Nat /\ (Cardinality(S) = 0 => S = {})
  BY <1>2, FS_CardinalityType, FS_EmptySet
<1>4. \A S, T \in SUBSET Steps : S \subseteq T => Cardinality(S) <= Cardinality(T)
  BY <1>2, FS_Subset
<1>5. ASSUME NEW S \in SUBSET Steps, NEW x \in Steps
      PROVE  Cardinality(S \cup {x}) <= Cardinality(S) + 1
  <2>1. Cardinality(S \cup {x}) = IF x \in S THEN Cardinality(S) ELSE Cardinality(S) + 1
    BY <1>2, FS_AddElement
  <2>. QED
    BY <1>3, <2>1
<1>. QED
  BY <1>3, <1>4, <1>5, FS_EmptySet

LEMMA FewAbove ==
  /\ \A S \in SUBSET Steps, v \in Int : Cardinality(Above(S, v)) \in Nat
  /\ \A S, T \in SUBSET Steps, v, w \in Int :
       S \subseteq T /\ v <= w => Cardinality(Above(S, w)) <= Cardinality(Above(T, v))
  /\ \A S, T \in SUBSET Steps, x \in Steps, v \in Int : 
       S \subseteq T \cup {x} => Cardinality(Above(S, v)) <= Cardinality(Above(T, v)) + 1
  /\ \A S, T \in SUBSET Steps, v \in Steps : 
       S \subseteq T \cup {v} => Cardinality(Above(S, v)) <= Cardinality(Above(T, v))
<1>1. ASSUME NEW S \in SUBSET Steps, NEW v \in Int PROVE Above(S, v) \in SUBSET Steps
  BY DEF Above
<1>2. ASSUME NEW S \in SUBSET Steps, NEW T \in SUBSET Steps, NEW v \in Int, NEW w \in Int,
             S \subseteq T, v <= w
      PROVE  Cardinality(Above(S, w)) <= Cardinality(Above(T, v))
  <2>1. ASSUME NEW t \in S, t > w PROVE t \in T /\ t > v
    <3>1. t \in Steps /\ t \in T
      BY <1>2
    <3>2. t \in Int
      BY <3>1, StepsAreInts
    <3>. QED
      BY <1>2, <2>1, <3>1, <3>2
  <2>2. Above(S, w) \subseteq Above(T, v)
    BY <2>1 DEF Above
  <2>. QED
    BY <1>1, <2>2, Few
<1>3. ASSUME NEW S \in SUBSET Steps, NEW T \in SUBSET Steps, NEW x \in Steps, NEW v \in Int,
             S \subseteq T \cup {x}
      PROVE  Cardinality(Above(S, v)) <= Cardinality(Above(T, v)) + 1
  <2>1. Above(S, v) \subseteq Above(T, v) \cup {x} /\ Above(T, v) \cup {x} \in SUBSET Steps
    BY <1>3 DEF Above
  <2>2. Cardinality(Above(S, v)) <= Cardinality(Above(T, v) \cup {x})
    BY <1>1, <2>1, Few
  <2>3. Cardinality(Above(T, v) \cup {x}) <= Cardinality(Above(T, v)) + 1
    BY <1>1, Few
  <2>4. /\ Cardinality(Above(S, v)) \in Nat /\ Cardinality(Above(T, v)) \in Nat
        /\ Cardinality(Above(T, v) \cup {x}) \in Nat
    BY <1>1, <2>1, Few
  <2>. QED
    BY <2>2, <2>3, <2>4
<1>4. ASSUME NEW S \in SUBSET Steps, NEW T \in SUBSET Steps, NEW v \in Steps, S \subseteq T \cup {v}
      PROVE  Cardinality(Above(S, v)) <= Cardinality(Above(T, v))
  <2>1. v \in Int
    BY StepsAreInts
  <2>2. Above(S, v) \subseteq Above(T, v)
    <3>1. ~(v > v)
      BY <2>1
    <3>2. SUFFICES ASSUME NEW t \in S, t > v PROVE t \in T
      BY DEF Above
    <3>3. t # v
      BY <3>1, <3>2
    <3>. QED
      BY <1>4, <3>3
  <2>. QED
    BY <1>1, <2>1, <2>2, Few
<1>. QED
  BY <1>1, <1>2, <1>3, <1>4, Few

\* If no generation is superseded, at most Keep are there.
LEMMA KeepsFew ==
  ASSUME Superseded(dir) = {}
  PROVE  Cardinality(Generations(dir)) <= Keep
<1>. DEFINE G == Generations(dir)
<1>1. G \in SUBSET Steps /\ Keep \in Nat \ {0} /\ MaxStep \in Nat /\ Steps \subseteq Nat
  BY KeepAssumption, StepAssumption DEF Generations, Steps
<1>2. CASE G = {}
  BY <1>1, <1>2, Few
<1>3. CASE G # {}
  <2>. HIDE DEF G
  <2>1. PICK m \in G : \A y \in G : ~ (<<y, m>> \in OpToRel(<, Nat))
    <3>1. G \in SUBSET Nat /\ G # {}
      BY <1>1, <1>3
    <3>2. IsWellFoundedOn(OpToRel(<, Nat), Nat)
      BY NatLessThanWellFounded
    <3>. QED
      BY <3>1, <3>2, WFMin
  <2>2. ASSUME NEW y \in G PROVE y = m \/ y > m
    <3>1. y \in Nat /\ m \in Nat
      BY <1>1
    <3>2. ~(y < m)
      BY <2>1, <3>1 DEF OpToRel
    <3>. QED
      BY <3>1, <3>2
  <2>3. Above(G, m) \in SUBSET Steps /\ m \in Steps /\ G \subseteq Above(G, m) \cup {m}
    <3>1. Above(G, m) \in SUBSET Steps /\ m \in Steps
      BY <1>1 DEF Above
    <3>2. G \subseteq Above(G, m) \cup {m}
      BY <2>2 DEF Above
    <3>. QED
      BY <3>1, <3>2
  <2>4. ~(Cardinality(Above(G, m)) >= Keep)
    BY DEF Superseded, Above, G
  <2>5. Cardinality(G) <= Cardinality(Above(G, m) \cup {m})
    BY <1>1, <2>3, Few
  <2>6. Cardinality(Above(G, m) \cup {m}) <= Cardinality(Above(G, m)) + 1
    BY <2>3, Few
  <2>7. /\ Cardinality(G) \in Nat /\ Cardinality(Above(G, m)) \in Nat
        /\ Cardinality(Above(G, m) \cup {m}) \in Nat
    BY <1>1, <2>3, Few
  <2>8. Cardinality(G) <= Keep
    BY <1>1, <2>4, <2>5, <2>6, <2>7
  <2>. QED
    BY <2>8 DEF G
<1>. QED
  BY <1>2, <1>3

\* What a step makes of the generations in the directory.
LEMMA Moved ==
  ASSUME TypeOK, Clean, Saving, [Next]_vars
  PROVE  /\ Rename /\ target = "periodic" =>
              /\ Generations(dir') = Generations(dir) \cup {step}
              /\ Generations(durable') = Generations(durable)
         /\ DirSync \/ Return =>
              Generations(dir') = Generations(dir) /\ Generations(durable') = Generations(dir)
         /\ \A x \in Steps : dir' = [dir EXCEPT !.periodic[x] = "absent"] =>
              Generations(dir') = Generations(dir) \ {x}
         /\ PowerLoss => Generations(dir') \subseteq Everywhere /\ durable' = dir'
         /\ WriteBack =>
              /\ Generations(dir') = Generations(dir)
              /\ Generations(durable') \subseteq Everywhere
              /\ Generations(durable) \cap Generations(dir) \subseteq Generations(durable')
         /\ Damage =>
              Generations(dir') = Generations(dir) /\ Generations(durable') = Generations(durable)
         /\ UNCHANGED directory =>
              Generations(dir') = Generations(dir) /\ Generations(durable') = Generations(durable)
<1>1. ASSUME Rename, target = "periodic"
      PROVE  Generations(dir') = Generations(dir) \cup {step} /\ Generations(durable') = Generations(durable)
  <2>1. temp = [step |-> step, data |-> "stored"]
    BY <1>1 DEF Rename, Saving, TypeOK, File
  <2>2. /\ \A s \in Steps : dir'.periodic[s] = IF s = step THEN "stored" ELSE dir.periodic[s]
        /\ durable' = durable
    BY <1>1, <2>1, RenamedGood
  <2>. QED
    BY <2>2 DEF Generations, Present, TypeOK
<1>2. ASSUME DirSync \/ Return
      PROVE  Generations(dir') = Generations(dir) /\ Generations(durable') = Generations(dir)
  BY <1>2 DEF DirSync, Return, Generations
<1>3. ASSUME NEW x \in Steps, dir' = [dir EXCEPT !.periodic[x] = "absent"]
      PROVE  Generations(dir') = Generations(dir) \ {x}
  <2>1. \A s \in Steps : dir'.periodic[s] = IF s = x THEN "absent" ELSE dir.periodic[s]
    BY <1>3, UnlinkedGood
  <2>. QED
    BY <2>1 DEF Generations, Present
<1>4. ASSUME PowerLoss PROVE Generations(dir') \subseteq Everywhere /\ durable' = dir'
  <2>1. PICK lost \in SUBSET Unsynced, lostLatest \in BOOLEAN :
          dir' = Survivor(lost, lostLatest) /\ durable' = dir'
    BY <1>4 DEF PowerLoss
  <2>2. \A s \in Steps : dir'.periodic[s] \in {dir.periodic[s], durable.periodic[s]}
    BY <2>1, SurvivorEntries
  <2>. QED
    BY <2>1, <2>2 DEF Generations, Everywhere, Present
<1>5. ASSUME WriteBack
      PROVE  /\ Generations(dir') = Generations(dir)
             /\ Generations(durable') \subseteq Everywhere
             /\ Generations(durable) \cap Generations(dir) \subseteq Generations(durable')
  <2>1. /\ dir' = dir
        /\ \A s \in Steps : durable'.periodic[s] \in {dir.periodic[s], durable.periodic[s]}
    BY <1>5, WrittenBack
  <2>. QED
    BY <2>1 DEF Generations, Everywhere, Present
<1>6. ASSUME Damage
      PROVE  Generations(dir') = Generations(dir) /\ Generations(durable') = Generations(durable)
  <2>1. CASE dir'.periodic = dir.periodic /\ durable'.periodic = durable.periodic
    BY <2>1 DEF Generations
  <2>2. CASE \E x \in Generations(dir) :
               /\ dir' = [dir EXCEPT !.periodic[x] = "torn"]
               /\ durable' = [durable EXCEPT !.periodic[x] = IF Present(@) THEN "torn" ELSE @]
    <3>1. PICK x \in Generations(dir) :
               /\ dir' = [dir EXCEPT !.periodic[x] = "torn"]
               /\ durable' = [durable EXCEPT !.periodic[x] = IF Present(@) THEN "torn" ELSE @]
      BY <2>2
    <3>2. x \in Steps /\ Present(dir.periodic[x])
      BY DEF Generations
    <3>3. \A s \in Steps :
            /\ Present(dir'.periodic[s]) <=> Present(dir.periodic[s])
            /\ Present(durable'.periodic[s]) <=> Present(durable.periodic[s])
      BY <3>1, <3>2 DEF TypeOK, Directory, Present
    <3>. QED
      BY <3>3 DEF Generations
  <2>3. CASE /\ dir' = [dir EXCEPT !.latest.data = "torn"]
             /\ durable' = [durable EXCEPT !.latest.data = IF durable.latest = dir.latest THEN "torn" ELSE @]
    BY <2>1, <2>3 DEF TypeOK, Directory
  <2>. QED
    BY <1>6, <2>2, <2>3 DEF Damage
<1>7. ASSUME UNCHANGED directory
      PROVE  Generations(dir') = Generations(dir) /\ Generations(durable') = Generations(durable)
  BY <1>7 DEF directory, Generations
<1>. QED
  BY <1>1, <1>2, <1>3, <1>4, <1>5, <1>6, <1>7

\* Which steps change what.
LEMMA Still ==
  /\ Train \/ SaveTemp \/ CopyTemp \/ Fsync \/ Restart \/ UNCHANGED vars => UNCHANGED directory
  /\ Rename /\ target # "periodic" /\ TypeOK => UNCHANGED <<dir.periodic, durable>>
  BY DEF Train, SaveTemp, CopyTemp, Fsync, Restart, vars, directory, Rename, TypeOK, Directory

LEMMA CleanStep ==
  ASSUME TypeOK, TypeOK', Clean, Saving, [Next]_vars
  PROVE  Clean' /\ Saving'
<1>0. ASSUME UNCHANGED directory PROVE Clean'
  BY <1>0 DEF directory, Clean
<1>1. CASE Train \/ SaveTemp \/ CopyTemp \/ Fsync \/ Restart \/ Kill \/ UNCHANGED vars
  <2>1. dir' = dir /\ Clean'
    BY <1>0, <1>1, Still DEF Kill, directory
  <2>2. CASE Train \/ SaveTemp \/ CopyTemp
    BY <2>1, <2>2 DEF Train, SaveTemp, CopyTemp, Saving
  <2>3. CASE Fsync
    <3>1. temp' = [temp EXCEPT !.data = IF temp.data = "cached" THEN "stored" ELSE temp.data]
      BY <2>3 DEF Fsync
    <3>2. temp'.step = temp.step /\ temp'.data # "cached" /\ (temp.data = "cached" => temp'.data = "stored")
      BY <3>1 DEF TypeOK, File
    <3>. QED
      BY <2>1, <2>3, <3>2 DEF Fsync, Saving
  <2>4. CASE Restart \/ Kill
    BY <2>1, <2>4 DEF Restart, Kill, Stopped, Saving
  <2>5. CASE UNCHANGED vars
    BY <2>1, <2>5 DEF vars, Saving
  <2>. QED
    BY <1>1, <2>1, <2>2, <2>3, <2>4, <2>5
<1>2. CASE Rename
  <2>1. /\ UNCHANGED <<step, target, durable>> /\ pc = "rename" /\ pc' = "dirsync"
    BY <1>2 DEF Rename, ghosts
  <2>2. temp.step = step /\ temp.data # "cached" /\ step \in Steps
    BY <2>1 DEF Saving, TypeOK
  <2>3. \/ dir'.latest = dir.latest /\ target = "periodic"
           /\ \A s \in Steps : dir'.periodic[s] = IF s = step THEN temp.data ELSE dir.periodic[s]
        \/ dir'.latest = temp /\ dir'.periodic = dir.periodic
    BY <1>2, <2>2 DEF Rename, TypeOK, Directory
  <2>. QED
    BY <2>1, <2>2, <2>3 DEF Clean, Saving
<1>3. CASE DirSync
  BY <1>3 DEF DirSync, Clean, Saving, TypeOK
<1>8. CASE Return
  BY <1>8 DEF Return, Clean, Saving
<1>4. CASE Unlink
  <2>1. PICK x \in Steps : dir' = [dir EXCEPT !.periodic[x] = "absent"]
    BY <1>4 DEF Unlink, Superseded, Generations
  <2>2. /\ dir'.latest = dir.latest
        /\ \A s \in Steps : dir'.periodic[s] = IF s = x THEN "absent" ELSE dir.periodic[s]
    BY <2>1, UnlinkedGood
  <2>. QED
    BY <1>4, <2>2 DEF Unlink, Clean, Saving, ghosts
<1>5. CASE PowerLoss
  <2>1. PICK lost \in SUBSET Unsynced, lostLatest \in BOOLEAN :
          dir' = Survivor(lost, lostLatest) /\ durable' = dir'
    BY <1>5 DEF PowerLoss
  <2>2. /\ dir'.latest \in {dir.latest, durable.latest}
        /\ \A s \in Steps : dir'.periodic[s] \in {dir.periodic[s], durable.periodic[s]}
    BY <2>1, SurvivorEntries
  <2>. QED
    BY <1>5, <2>1, <2>2 DEF PowerLoss, Stopped, Clean, Saving
<1>6. CASE WriteBack
  <2>1. /\ dir' = dir /\ durable'.latest \in {dir.latest, durable.latest}
        /\ \A s \in Steps : durable'.periodic[s] \in {dir.periodic[s], durable.periodic[s]}
    BY <1>6, WrittenBack
  <2>. QED
    BY <1>6, <2>1 DEF WriteBack, Clean, Saving, ghosts
<1>7. CASE Damage
  <2>1. /\ \A s \in Steps : dir'.periodic[s] \in {"torn", dir.periodic[s]}
                            /\ durable'.periodic[s] \in {"torn", durable.periodic[s]}
        /\ dir'.latest.data \in {"torn", dir.latest.data} /\ dir'.latest.step = dir.latest.step
        /\ durable'.latest.data \in {"torn", durable.latest.data}
    BY <1>7 DEF Damage, TypeOK, Directory, File, Generations
  <2>. QED
    BY <1>7, <2>1 DEF Damage, Clean, Saving
<1>. QED
  BY <1>1, <1>2, <1>3, <1>4, <1>5, <1>6, <1>7, <1>8 DEF Next

LEMMA StraysStep ==
  ASSUME TypeOK, TypeOK', [Next]_vars
  PROVE  /\ crashes \in Nat /\ faults \in Nat /\ Strays \in Nat /\ Strays' \in Nat
         /\ Strays <= Strays' /\ faults <= faults' /\ crashes <= crashes'
         /\ Stopped => Strays' = Strays + 1 /\ crashes' = crashes + 1 /\ faults' = faults
         /\ ~Stopped => crashes' = crashes
         /\ Damage => faults' = faults + 1
<1>1. crashes \in Nat /\ faults \in Nat /\ crashes' \in Nat /\ faults' \in Nat
  BY BoundsAssumption DEF TypeOK
<1>2. Stopped => crashes' = crashes + 1 /\ faults' = faults
  BY DEF Stopped
<1>3. Damage => crashes' = crashes /\ faults' = faults + 1
  BY DEF Damage
<1>4. ~Stopped /\ ~Damage => crashes' = crashes /\ faults' = faults
  BY DEF Next, vars, bounds, Train, SaveTemp, CopyTemp, Fsync, Rename, DirSync, Unlink, Return,
         Kill, PowerLoss, WriteBack, Restart
<1>5. Stopped \/ Damage \/ (crashes' = crashes /\ faults' = faults)
  BY <1>4
<1>6. Strays \in Nat /\ Strays' \in Nat
  <2>1. \A c, f \in Nat : c + (IF f = 0 THEN 0 ELSE f - 1) \in Nat
    OBVIOUS
  <2>. QED
    BY <1>1, <2>1 DEF Strays
<1>7. Stopped => Strays' = Strays + 1
  BY <1>1, <1>2 DEF Strays
<1>8. Damage => Strays <= Strays'
  BY <1>1, <1>3 DEF Strays
<1>9. Strays <= Strays' /\ faults <= faults' /\ crashes <= crashes'
  <2>1. CASE Stopped
    BY <1>1, <1>2, <1>6, <1>7, <2>1
  <2>2. CASE Damage
    BY <1>1, <1>3, <1>8, <2>2
  <2>3. CASE crashes' = crashes /\ faults' = faults
    BY <1>1, <1>6, <2>3 DEF Strays
  <2>. QED
    BY <1>5, <2>1, <2>2, <2>3
<1>. QED
  BY <1>1, <1>2, <1>3, <1>4, <1>6, <1>7, <1>9

\* Files are torn by the disk alone.
LEMMA TornStep ==
  ASSUME TypeOK, TypeOK', Clean, Saving, Cardinality(TornAnywhere) <= faults, [Next]_vars
  PROVE  Cardinality(TornAnywhere') <= faults'
<1>1. TornAnywhere \in SUBSET Steps /\ TornAnywhere' \in SUBSET Steps
  BY DEF TornAnywhere
<1>2. faults \in Nat /\ faults' \in Nat /\ faults <= faults'
  BY StraysStep, BoundsAssumption DEF TypeOK
<1>3. ASSUME TornAnywhere' \subseteq TornAnywhere PROVE Cardinality(TornAnywhere') <= faults'
  <2>1. Cardinality(TornAnywhere') <= Cardinality(TornAnywhere)
    BY <1>1, <1>3, Few
  <2>2. Cardinality(TornAnywhere) \in Nat /\ Cardinality(TornAnywhere') \in Nat
    BY <1>1, Few
  <2>. QED
    BY <1>2, <2>1, <2>2
<1>4. CASE Train \/ SaveTemp \/ CopyTemp \/ Fsync \/ Restart \/ Kill \/ UNCHANGED vars
  <2>1. UNCHANGED directory
    BY <1>4, Still DEF Kill
  <2>. QED
    BY <1>3, <2>1 DEF directory, TornAnywhere
<1>5. CASE Rename
  <2>1. CASE target = "periodic"
    <3>1. temp = [step |-> step, data |-> "stored"]
      BY <1>5, <2>1 DEF Rename, Saving, TypeOK, File
    <3>2. /\ \A s \in Steps : dir'.periodic[s] = IF s = step THEN "stored" ELSE dir.periodic[s]
          /\ durable' = durable
      BY <1>5, <2>1, <3>1, RenamedGood
    <3>. QED
      BY <1>3, <3>2 DEF TornAnywhere
  <2>2. CASE target # "periodic"
    BY <1>3, <1>5, <2>2, Still DEF TornAnywhere
  <2>. QED
    BY <2>1, <2>2
<1>6. CASE DirSync \/ Return
  BY <1>3, <1>6 DEF DirSync, Return, TornAnywhere
<1>7. CASE Unlink
  <2>1. PICK x \in Steps : dir' = [dir EXCEPT !.periodic[x] = "absent"]
    BY <1>7 DEF Unlink, Superseded, Generations
  <2>2. \A s \in Steps : dir'.periodic[s] = IF s = x THEN "absent" ELSE dir.periodic[s]
    BY <2>1, UnlinkedGood
  <2>3. durable' = durable
    BY <1>7 DEF Unlink
  <2>. QED
    BY <1>3, <2>2, <2>3 DEF TornAnywhere
<1>8. CASE PowerLoss
  <2>1. PICK lost \in SUBSET Unsynced, lostLatest \in BOOLEAN :
          dir' = Survivor(lost, lostLatest) /\ durable' = dir'
    BY <1>8 DEF PowerLoss
  <2>2. \A s \in Steps : dir'.periodic[s] \in {dir.periodic[s], durable.periodic[s]}
    BY <2>1, SurvivorEntries
  <2>. QED
    BY <1>3, <2>1, <2>2 DEF TornAnywhere
<1>9. CASE WriteBack
  <2>1. /\ dir' = dir
        /\ \A s \in Steps : durable'.periodic[s] \in {dir.periodic[s], durable.periodic[s]}
    BY <1>9, WrittenBack
  <2>. QED
    BY <1>3, <2>1 DEF TornAnywhere
<1>10. CASE Damage
  <2>1. \E x \in Steps : TornAnywhere' \subseteq TornAnywhere \cup {x}
    <3>1. CASE dir'.periodic = dir.periodic /\ durable'.periodic = durable.periodic
      <4>1. TornAnywhere' \subseteq TornAnywhere /\ step \in Steps
        BY <3>1 DEF TornAnywhere, TypeOK
      <4>. QED
        BY <4>1
    <3>2. CASE \E x \in Generations(dir) :
                 /\ dir' = [dir EXCEPT !.periodic[x] = "torn"]
                 /\ durable' = [durable EXCEPT !.periodic[x] = IF Present(@) THEN "torn" ELSE @]
      <4>1. PICK x \in Steps :
                 /\ dir' = [dir EXCEPT !.periodic[x] = "torn"]
                 /\ durable' = [durable EXCEPT !.periodic[x] = IF Present(@) THEN "torn" ELSE @]
        BY <3>2 DEF Generations
      <4>2. \A s \in Steps \ {x} : dir'.periodic[s] = dir.periodic[s]
                                   /\ durable'.periodic[s] = durable.periodic[s]
        BY <4>1 DEF TypeOK, Directory
      <4>3. TornAnywhere' \subseteq TornAnywhere \cup {x}
        BY <4>2 DEF TornAnywhere
      <4>. QED
        BY <4>3
    <3>3. CASE /\ dir' = [dir EXCEPT !.latest.data = "torn"]
               /\ durable' = [durable EXCEPT !.latest.data = IF durable.latest = dir.latest THEN "torn" ELSE @]
      BY <3>1, <3>3 DEF TypeOK, Directory
    <3>. QED
      BY <1>10, <3>2, <3>3 DEF Damage
  <2>2. PICK x \in Steps : TornAnywhere' \subseteq TornAnywhere \cup {x}
    BY <2>1
  <2>3. TornAnywhere \cup {x} \in SUBSET Steps
    BY <1>1
  <2>4. Cardinality(TornAnywhere') <= Cardinality(TornAnywhere \cup {x})
    BY <1>1, <2>2, <2>3, Few
  <2>5. Cardinality(TornAnywhere \cup {x}) <= Cardinality(TornAnywhere) + 1
    BY <1>1, Few
  <2>6. /\ Cardinality(TornAnywhere) \in Nat /\ Cardinality(TornAnywhere') \in Nat
        /\ Cardinality(TornAnywhere \cup {x}) \in Nat
    BY <1>1, <2>3, Few
  <2>7. faults' = faults + 1
    BY <1>10, StraysStep
  <2>. QED
    BY <1>2, <2>4, <2>5, <2>6, <2>7
<1>. QED
  BY <1>4, <1>5, <1>6, <1>7, <1>8, <1>9, <1>10 DEF Next

LEMMA EverywhereStep ==
  ASSUME TypeOK, Clean, Saving, [Next]_vars
  PROVE  /\ Everywhere \in SUBSET Steps /\ Everywhere' \in SUBSET Steps
         /\ Rename /\ target = "periodic" => Everywhere' \subseteq Everywhere \cup {step}
         /\ ~(Rename /\ target = "periodic") => Everywhere' \subseteq Everywhere
<1>1. Everywhere \in SUBSET Steps /\ Everywhere' \in SUBSET Steps
  BY DEF Everywhere, Generations
<1>2. Everywhere' = Generations(dir') \cup Generations(durable')
  BY DEF Everywhere, Generations
<1>3. ASSUME Rename, target = "periodic" PROVE Everywhere' \subseteq Everywhere \cup {step}
  BY <1>2, <1>3, Moved DEF Everywhere
<1>4. ASSUME ~(Rename /\ target = "periodic") PROVE Everywhere' \subseteq Everywhere
  <2>1. CASE Train \/ SaveTemp \/ CopyTemp \/ Fsync \/ Restart \/ Kill \/ UNCHANGED vars
    <3>1. UNCHANGED directory
      BY <2>1, Still DEF Kill
    <3>. QED
      BY <1>2, <3>1 DEF directory, Everywhere
  <2>2. CASE Rename
    <3>1. dir'.periodic = dir.periodic /\ durable' = durable
      BY <1>4, <2>2, Still
    <3>. QED
      BY <3>1 DEF Everywhere, Generations
  <2>3. CASE DirSync \/ Return
    BY <1>2, <2>3, Moved DEF Everywhere
  <2>4. CASE Unlink
    <3>1. PICK x \in Steps : dir' = [dir EXCEPT !.periodic[x] = "absent"]
      BY <2>4 DEF Unlink, Superseded, Generations
    <3>2. Generations(dir') = Generations(dir) \ {x}
      BY <3>1, Moved
    <3>3. durable' = durable
      BY <2>4 DEF Unlink
    <3>. QED
      BY <1>2, <3>2, <3>3 DEF Everywhere
  <2>5. CASE PowerLoss \/ WriteBack \/ Damage
    BY <1>2, <2>5, Moved DEF Everywhere
  <2>. QED
    BY <2>1, <2>2, <2>3, <2>4, <2>5 DEF Next
<1>. QED
  BY <1>1, <1>3, <1>4

LEMMA PublishedStep ==
  ASSUME TypeOK, [Next]_vars
  PROVE  /\ Published /\ ~Published' => Return \/ Stopped
         /\ ~Published /\ Published' => Rename /\ target = "periodic"
         /\ Rename /\ target = "periodic" => ~Published /\ Published'
<1>. USE DEF Published
<1>1. CASE Train \/ SaveTemp \/ CopyTemp \/ Fsync \/ Restart \/ UNCHANGED vars
  BY <1>1 DEF Train, SaveTemp, CopyTemp, Fsync, Restart, vars, Rename
<1>2. CASE Rename
  BY <1>2 DEF Rename, TypeOK
<1>3. CASE DirSync \/ Unlink \/ WriteBack \/ Damage
  BY <1>3 DEF DirSync, Unlink, WriteBack, Damage, Rename
<1>4. CASE Return \/ Kill \/ PowerLoss
  BY <1>4 DEF Return, Kill, PowerLoss, Stopped, Rename
<1>. QED
  BY <1>1, <1>2, <1>3, <1>4 DEF Next

\* A generation taken back from the durable directory has Keep newer ones.
LEMMA TakenBackStep ==
  ASSUME TypeOK, Clean, Saving, [Next]_vars,
         \A t \in Generations(durable) \ Generations(dir) : Cardinality(Above(Generations(dir), t)) >= Keep,
         NEW t \in Generations(durable') \ Generations(dir')
  PROVE  Cardinality(Above(Generations(dir'), t)) >= Keep
<1>1. /\ Generations(dir) \in SUBSET Steps /\ Generations(durable) \in SUBSET Steps
      /\ Generations(dir') \in SUBSET Steps /\ t \in Steps /\ t \in Int /\ Keep \in Nat
  BY StepsAreInts, KeepAssumption DEF Generations
<1>2. ASSUME t \in Generations(durable) \ Generations(dir), Generations(dir) \subseteq Generations(dir')
      PROVE  Cardinality(Above(Generations(dir'), t)) >= Keep
  <2>1. Cardinality(Above(Generations(dir), t)) >= Keep
    BY <1>2
  <2>2. Cardinality(Above(Generations(dir), t)) <= Cardinality(Above(Generations(dir'), t))
    BY <1>1, <1>2, FewAbove
  <2>3. /\ Cardinality(Above(Generations(dir), t)) \in Nat
        /\ Cardinality(Above(Generations(dir'), t)) \in Nat
    BY <1>1, FewAbove
  <2>. QED
    BY <1>1, <2>1, <2>2, <2>3
<1>3. CASE Train \/ SaveTemp \/ CopyTemp \/ Fsync \/ Restart \/ Kill \/ UNCHANGED vars
  <2>1. UNCHANGED directory
    BY <1>3, Still DEF Kill
  <2>. QED
    BY <1>2, <2>1 DEF directory
<1>4. CASE Rename
  <2>1. CASE target = "periodic"
    <3>1. Generations(dir') = Generations(dir) \cup {step} /\ Generations(durable') = Generations(durable)
      BY <1>4, <2>1, Moved
    <3>. QED
      BY <1>2, <3>1
  <2>2. CASE target # "periodic"
    <3>1. dir'.periodic = dir.periodic /\ durable' = durable
      BY <1>4, <2>2, Still
    <3>2. Generations(dir') = Generations(dir) /\ Generations(durable') = Generations(durable)
      BY <3>1 DEF Generations
    <3>. QED
      BY <1>2, <3>2
  <2>. QED
    BY <2>1, <2>2
<1>5. CASE DirSync \/ Return \/ PowerLoss
  <2>1. Generations(durable') = Generations(dir')
    BY <1>5, Moved
  <2>. QED
    BY <2>1
<1>6. CASE Unlink
  <2>1. PICK x \in Superseded(dir) : dir' = [dir EXCEPT !.periodic[x] = "absent"]
    BY <1>6 DEF Unlink
  <2>2. x \in Steps /\ x \in Int /\ Cardinality(Above(Generations(dir), x)) >= Keep
    BY StepsAreInts DEF Superseded, Generations, Above
  <2>3. Generations(dir') = Generations(dir) \ {x} /\ durable' = durable
    <3>1. Generations(dir') = Generations(dir) \ {x}
      BY <2>1, <2>2, Moved
    <3>. QED
      BY <1>6, <3>1 DEF Unlink
  <2>4. Above(Generations(dir'), x) = Above(Generations(dir), x)
    BY <2>2, <2>3 DEF Above
  <2>5. CASE t <= x
    <3>1. Cardinality(Above(Generations(dir'), x)) <= Cardinality(Above(Generations(dir'), t))
      BY <1>1, <2>2, <2>5, FewAbove
    <3>2. /\ Cardinality(Above(Generations(dir'), x)) \in Nat
          /\ Cardinality(Above(Generations(dir'), t)) \in Nat
      BY <1>1, <2>2, FewAbove
    <3>. QED
      BY <1>1, <2>2, <2>4, <3>1, <3>2
  <2>6. CASE ~(t <= x)
    <3>1. t \in Generations(durable) \ Generations(dir) /\ t # x /\ x < t
      BY <1>1, <2>2, <2>3, <2>6
    <3>2. Above(Generations(dir'), t) = Above(Generations(dir), t)
      BY <1>1, <2>2, <2>3, <3>1 DEF Above
    <3>. QED
      BY <3>1, <3>2
  <2>. QED
    BY <2>5, <2>6
<1>7. CASE WriteBack \/ Damage
  <2>1. /\ Generations(dir') = Generations(dir)
        /\ Generations(durable') \subseteq Everywhere
    BY <1>7, Moved DEF Everywhere
  <2>. QED
    BY <1>2, <2>1 DEF Everywhere
<1>. QED
  BY <1>3, <1>4, <1>5, <1>6, <1>7 DEF Next

LEMMA CountedStep ==
  ASSUME TypeOK, TypeOK', Clean, Saving, Counted, [Next]_vars
  PROVE  Counted'
<1>. DEFINE E == Everywhere
            G == Generations(dir)
<1>1. /\ E \in SUBSET Steps /\ E' \in SUBSET Steps /\ G \in SUBSET Steps
      /\ Rename /\ target = "periodic" => E' \subseteq E \cup {step}
      /\ ~(Rename /\ target = "periodic") => E' \subseteq E
  <2>1. G \in SUBSET Steps
    BY DEF Generations
  <2>. QED
    BY <2>1, EverywhereStep
<1>2. /\ crashes \in Nat /\ crashes' \in Nat /\ Keep \in Nat /\ step \in Steps
      /\ crashes <= crashes'
      /\ Stopped => crashes' = crashes + 1
  BY StraysStep, KeepAssumption, BoundsAssumption DEF TypeOK
<1>3. /\ Cardinality(TornAnywhere) <= faults
      /\ \A t \in Generations(durable) \ G : Cardinality(Above(G, t)) >= Keep
      /\ Cardinality(E) <= Keep + crashes + Unsaved
      /\ pc = "train" /\ saved # NoCheckpoint => Cardinality(G) <= Keep
      /\ crashes = 0 /\ pc = "down" => E = {}
      /\ pc = "down" => saved = NoCheckpoint
  BY DEF Counted
<1>4. Cardinality(TornAnywhere') <= faults'
  BY <1>3, TornStep
<1>5. \A t \in Generations(durable') \ Generations(dir') : Cardinality(Above(Generations(dir'), t)) >= Keep
  BY <1>3, TakenBackStep
<1>6. Cardinality(E') <= Keep + crashes' + Unsaved'
  <2>1. Cardinality(E) \in Nat /\ Cardinality(E') \in Nat /\ Cardinality(E \cup {step}) \in Nat
    BY <1>1, <1>2, Few
  <2>2. Unsaved \in {0, 1} /\ Unsaved' \in {0, 1}
    BY DEF Unsaved
  <2>3. CASE Rename /\ target = "periodic"
    <3>1. Unsaved = 0 /\ Unsaved' = 1
      BY <2>3, PublishedStep DEF Unsaved
    <3>2. E \cup {step} \in SUBSET Steps
      BY <1>1, <1>2
    <3>3. Cardinality(E') <= Cardinality(E \cup {step})
      BY <1>1, <2>3, <3>2, Few
    <3>4. Cardinality(E \cup {step}) <= Cardinality(E) + 1
      BY <1>1, <1>2, Few
    <3>. QED
      BY <1>2, <1>3, <2>1, <3>1, <3>3, <3>4
  <2>4. CASE Return
    <3>1. Superseded(dir) = {} /\ E' = G
      <4>1. Generations(dir') = G /\ Generations(durable') = G
        BY <2>4, Moved
      <4>2. E' = Generations(dir') \cup Generations(durable')
        BY DEF Everywhere, Generations
      <4>. QED
        BY <2>4, <4>1, <4>2 DEF Return
    <3>2. Cardinality(E') <= Keep
      BY <3>1, KeepsFew
    <3>. QED
      BY <1>2, <2>1, <2>2, <3>2
  <2>5. CASE ~(Rename /\ target = "periodic") /\ ~Return
    <3>1. Cardinality(E') <= Cardinality(E)
      BY <1>1, <2>5, Few
    <3>2. crashes + Unsaved <= crashes' + Unsaved'
      <4>1. \A c, d \in Nat, u, w \in {0, 1} :
              c <= d /\ (d = c + 1 \/ u <= w) => c + u <= d + w
        OBVIOUS
      <4>2. crashes \in Nat /\ crashes' \in Nat /\ crashes <= crashes'
        BY <1>2
      <4>3. crashes' = crashes + 1 \/ Unsaved <= Unsaved'
        <5>1. CASE Stopped
          BY <1>2, <5>1
        <5>2. CASE ~Stopped
          BY <2>5, <5>2, PublishedStep DEF Unsaved
        <5>. QED
          BY <5>1, <5>2
      <4>. QED
        BY <2>2, <4>1, <4>2, <4>3
    <3>3. \A k, c, d, e, f \in Nat, u, w \in {0, 1} :
            e <= k + c + u /\ f <= e /\ c + u <= d + w => f <= k + d + w
      OBVIOUS
    <3>. QED
      BY <1>2, <1>3, <2>1, <2>2, <3>1, <3>2, <3>3
  <2>. QED
    BY <2>3, <2>4, <2>5
<1>7. pc' = "train" /\ saved' # NoCheckpoint => Cardinality(Generations(dir')) <= Keep
  <2>. SUFFICES ASSUME pc' = "train", saved' # NoCheckpoint
                PROVE  Cardinality(Generations(dir')) <= Keep
    OBVIOUS
  <2>1. CASE Return
    <3>1. Superseded(dir) = {} /\ Generations(dir') = G
      BY <2>1, Moved DEF Return
    <3>. QED
      BY <3>1, KeepsFew
  <2>2. CASE Train \/ UNCHANGED vars
    <3>1. dir' = dir /\ pc = "train" /\ saved = saved'
      BY <2>2 DEF Train, vars
    <3>. QED
      BY <1>3, <3>1
  <2>3. CASE WriteBack \/ Damage
    <3>1. pc' = pc /\ saved' = saved
      BY <2>3 DEF WriteBack, Damage
    <3>2. Generations(dir') = G
      BY <2>3, Moved
    <3>. QED
      BY <1>3, <3>1, <3>2
  <2>4. CASE Restart
    BY <1>3, <2>4 DEF Restart
  <2>5. CASE SaveTemp \/ CopyTemp \/ Fsync \/ Rename \/ DirSync \/ Unlink \/ Kill \/ PowerLoss
    BY <2>5 DEF SaveTemp, CopyTemp, Fsync, Rename, DirSync, Unlink, Kill, PowerLoss, Stopped
  <2>. QED
    BY <2>1, <2>2, <2>3, <2>4, <2>5 DEF Next
<1>8. /\ crashes' = 0 /\ pc' = "down" => E' = {}
      /\ pc' = "down" => saved' = NoCheckpoint
  <2>. SUFFICES ASSUME pc' = "down"
                PROVE  (crashes' = 0 => E' = {}) /\ saved' = NoCheckpoint
    OBVIOUS
  <2>1. CASE Stopped
    BY <1>2, <2>1 DEF Stopped
  <2>2. CASE ~Stopped
    <3>1. pc = "down" /\ saved' = saved /\ crashes' = crashes /\ ~Rename
      BY <2>2 DEF Next, vars, bounds, Train, SaveTemp, CopyTemp, Fsync, Rename, DirSync, Unlink,
                  Return, Kill, PowerLoss, WriteBack, Damage, Restart
    <3>. QED
      BY <1>1, <1>3, <3>1
  <2>. QED
    BY <2>1, <2>2
<1>. QED
  BY <1>4, <1>5, <1>6, <1>7, <1>8 DEF Counted, Generations, Above

\* After a restart no more is above the trainer than the strays.
LEMMA RestartNear ==
  ASSUME Retained, Restart, Resuming, Strays < Keep, pc' = "train"
  PROVE  Cardinality(Above(Everywhere, step')) <= Strays
<1>. DEFINE E == Everywhere
            G == Generations(dir)
<1>1. /\ TypeOK /\ Clean /\ Counted /\ LatestNear /\ dir \in Directory
      /\ E \in SUBSET Steps /\ G \in SUBSET Steps /\ TornAnywhere \in SUBSET Steps
  BY DEF Retained, TypeOK, Everywhere, Generations, TornAnywhere
<1>2. /\ crashes \in Nat /\ faults \in Nat /\ Strays \in Nat /\ Keep \in Nat \ {0}
  <2>1. \A c, f \in Nat : c + (IF f = 0 THEN 0 ELSE f - 1) \in Nat
    OBVIOUS
  <2>2. crashes \in Nat /\ faults \in Nat
    BY <1>1, BoundsAssumption DEF TypeOK
  <2>. QED
    BY <2>1, <2>2, KeepAssumption DEF Strays
<1>3. /\ Cardinality(TornAnywhere) <= faults
      /\ \A t \in Generations(durable) \ G : Cardinality(Above(G, t)) >= Keep
      /\ crashes = 0 /\ pc = "down" => E = {}
  BY <1>1 DEF Counted
<1>4. pc = "down" /\ Start = LoadLatest(dir) /\ step' = (IF Start = NoCheckpoint THEN 0 ELSE Start)
      /\ ~(Start = NoCheckpoint /\ HasCandidates(dir))
  BY DEF Restart, Start, Resuming
<1>5. ASSUME E = {} PROVE Cardinality(Above(E, step')) <= Strays
  <2>1. Above(E, step') = {}
    BY <1>5 DEF Above
  <2>. QED
    BY <1>2, <2>1, Few
<1>6. CASE crashes = 0
  BY <1>3, <1>4, <1>5, <1>6
<1>7. CASE crashes # 0
  <2>1. faults <= Strays
    BY <1>2, <1>7 DEF Strays
  <2>2. CASE Readable(dir.latest.data)
    <3>1. step' = dir.latest.step
      <4>1. dir.latest.step \in Steps /\ NoCheckpoint \notin Steps
        BY <1>1, StepsAreInts DEF Directory, File
      <4>2. Start = dir.latest.step
        BY <1>4, <2>2 DEF LoadLatest
      <4>. QED
        BY <1>4, <4>1, <4>2
    <3>2. Cardinality(Above(E, dir.latest.step)) <= Strays + Window
      BY <1>1, <2>2 DEF LatestNear
    <3>3. Window = 0
      BY <1>4 DEF Window, Published
    <3>. QED
      BY <1>2, <3>1, <3>2, <3>3
  <2>3. CASE ~Readable(dir.latest.data) /\ Valid(dir) # {}
    <3>1. PICK n \in Steps : /\ n = Newest(Valid(dir)) /\ \A t \in Valid(dir) : t <= n
      <4>1. Valid(dir) \in SUBSET Steps
        BY DEF Valid
      <4>. QED
        BY <2>3, <4>1, NewestIs
    <3>2. step' = n /\ n \in Int
      <4>1. Start = n
        BY <1>4, <2>3, <3>1 DEF LoadLatest
      <4>. QED
        BY <1>4, <4>1, StepsAreInts
    <3>3. Above(G, n) \subseteq TornAnywhere
      <4>1. SUFFICES ASSUME NEW t \in G, t > n PROVE t \in TornAnywhere
        BY DEF Above
      <4>2. t \in Steps /\ t \in Int /\ dir.periodic[t] \in Data /\ dir.periodic[t] # "absent"
        BY <1>1, StepsAreInts DEF Directory, Generations, Present
      <4>3. ~Readable(dir.periodic[t])
        BY <3>1, <3>2, <4>1, <4>2 DEF Valid
      <4>. QED
        BY <4>2, <4>3 DEF TornAnywhere, Data, Readable
    <3>4. Cardinality(Above(G, n)) <= faults
      <4>1. Above(G, n) \in SUBSET Steps
        BY <1>1 DEF Above
      <4>2. Cardinality(Above(G, n)) <= Cardinality(TornAnywhere)
        BY <1>1, <3>3, <4>1, Few
      <4>3. Cardinality(Above(G, n)) \in Nat /\ Cardinality(TornAnywhere) \in Nat
        BY <1>1, <4>1, Few
      <4>. QED
        BY <1>2, <1>3, <4>2, <4>3
    <3>5. Above(E, n) \subseteq Above(G, n)
      <4>1. SUFFICES ASSUME NEW t \in E, t > n, t \notin G PROVE FALSE
        BY DEF Above
      <4>2. Cardinality(Above(G, t)) >= Keep /\ t \in Int
        BY <1>1, <1>3, <4>1, StepsAreInts DEF Everywhere
      <4>3. Cardinality(Above(G, t)) <= Cardinality(Above(G, n))
        BY <1>1, <3>2, <4>1, <4>2, FewAbove
      <4>4. Cardinality(Above(G, t)) \in Nat /\ Cardinality(Above(G, n)) \in Nat
        BY <1>1, <3>2, <4>2, FewAbove
      <4>. QED
        BY <1>2, <2>1, <3>4, <4>2, <4>3, <4>4
    <3>6. Cardinality(Above(E, n)) <= Cardinality(Above(G, n))
      <4>1. Above(E, n) \in SUBSET Steps /\ Above(G, n) \in SUBSET Steps
        BY <1>1 DEF Above
      <4>. QED
        BY <3>5, <4>1, Few
    <3>7. Cardinality(Above(E, n)) \in Nat /\ Cardinality(Above(G, n)) \in Nat
      BY <1>1, <3>2, FewAbove
    <3>. QED
      BY <1>2, <2>1, <3>2, <3>4, <3>6, <3>7
  <2>4. CASE ~Readable(dir.latest.data) /\ Valid(dir) = {}
    <3>1. Start = NoCheckpoint /\ G = {}
      BY <1>4, <2>4 DEF LoadLatest, HasCandidates
    <3>2. ASSUME NEW t \in E PROVE FALSE
      <4>1. Cardinality(Above(G, t)) >= Keep
        BY <1>3, <3>1, <3>2 DEF Everywhere
      <4>2. Above(G, t) = {}
        BY <3>1 DEF Above
      <4>. QED
        BY <1>2, <4>1, <4>2, Few
    <3>. QED
      BY <1>5, <3>2
  <2>. QED
    BY <2>2, <2>3, <2>4
<1>. QED
  BY <1>6, <1>7

LEMMA WindowStep ==
  ASSUME TypeOK, TypeOK', [Next]_vars
  PROVE  /\ Window \in {0, 1} /\ Window' \in {0, 1}
         /\ ~(DirSync /\ target = "latest") => Strays + Window <= Strays' + Window'
         /\ Rename /\ target = "periodic" => Window = 0 /\ Window' = 1
<1>1. Window \in {0, 1} /\ Window' \in {0, 1}
  BY DEF Window
<1>2. Strays \in Nat /\ Strays' \in Nat /\ Strays <= Strays' /\ (Stopped => Strays' = Strays + 1)
  BY StraysStep
<1>3. Rename /\ target = "periodic" => Window = 0 /\ Window' = 1
  BY DEF Rename, Window, Published
<1>4. ASSUME ~(DirSync /\ target = "latest") PROVE Strays + Window <= Strays' + Window'
  <2>1. Strays' = Strays + 1 \/ Window <= Window'
    <3>1. CASE Stopped
      BY <1>2, <3>1
    <3>2. CASE Train \/ SaveTemp \/ CopyTemp \/ Fsync \/ Rename \/ Restart \/ UNCHANGED vars
      BY <3>2 DEF Train, SaveTemp, CopyTemp, Fsync, Rename, Restart, vars, Window, Published
    <3>3. CASE DirSync \/ Unlink \/ Return \/ WriteBack \/ Damage
      BY <1>4, <3>3 DEF DirSync, Unlink, Return, WriteBack, Damage, Window, Published, TypeOK
    <3>. QED
      BY <3>1, <3>2, <3>3 DEF Next, Kill, PowerLoss
  <2>2. \A c, d \in Nat, u, w \in {0, 1} : c <= d /\ (d = c + 1 \/ u <= w) => c + u <= d + w
    OBVIOUS
  <2>. QED
    BY <1>1, <1>2, <2>1, <2>2
<1>. QED
  BY <1>1, <1>3, <1>4

LEMMA LatestNearStep ==
  ASSUME TypeOK, TypeOK', Clean, Saving, Saving', LatestNear, StepNear, [Next]_vars,
         NEW x, x \in {dir'.latest, durable'.latest}, Readable(x.data)
  PROVE  Cardinality(Above(Everywhere', x.step)) <= Strays' + Window'
<1>. DEFINE E == Everywhere
<1>1. /\ E \in SUBSET Steps /\ E' \in SUBSET Steps /\ step \in Steps
      /\ x.step \in Steps /\ x.step \in Int
      /\ Rename /\ target = "periodic" => E' \subseteq E \cup {step}
      /\ ~(Rename /\ target = "periodic") => E' \subseteq E
  <2>1. x \in File /\ step \in Steps
    BY DEF TypeOK, Directory
  <2>2. x.step \in Steps /\ x.step \in Int
    BY <2>1, StepsAreInts DEF File
  <2>. QED
    BY <2>1, <2>2, EverywhereStep
<1>2. /\ Strays \in Nat /\ Strays' \in Nat /\ Strays <= Strays'
      /\ Window \in {0, 1} /\ Window' \in {0, 1}
  BY StraysStep, WindowStep
<1>3. Cardinality(Above(E, x.step)) \in Nat /\ Cardinality(Above(E', x.step)) \in Nat
  BY <1>1, FewAbove
<1>4. ASSUME E' \subseteq E PROVE Cardinality(Above(E', x.step)) <= Cardinality(Above(E, x.step))
  BY <1>1, <1>4, FewAbove
<1>5. ASSUME x \in {dir.latest, durable.latest}
      PROVE  Cardinality(Above(E, x.step)) <= Strays + Window
  BY <1>5 DEF LatestNear
<1>6. CASE x \in {dir.latest, durable.latest} /\ ~(DirSync /\ target = "latest")
  <2>1. CASE Rename /\ target = "periodic"
    <3>1. Cardinality(Above(E', x.step)) <= Cardinality(Above(E, x.step)) + 1
      BY <1>1, <2>1, FewAbove
    <3>2. Window = 0 /\ Window' = 1
      BY <2>1, WindowStep
    <3>. QED
      BY <1>2, <1>3, <1>5, <1>6, <3>1, <3>2
  <2>2. CASE ~(Rename /\ target = "periodic")
    <3>1. Strays + Window <= Strays' + Window'
      BY <1>6, WindowStep
    <3>2. Cardinality(Above(E', x.step)) <= Cardinality(Above(E, x.step))
      BY <1>1, <1>4, <2>2
    <3>3. Cardinality(Above(E, x.step)) <= Strays + Window
      BY <1>5, <1>6
    <3>4. \A a, b, s, t \in Nat, u, w \in {0, 1} :
            a <= b /\ b <= s + u /\ s + u <= t + w => a <= t + w
      OBVIOUS
    <3>. QED
      BY <1>2, <1>3, <3>1, <3>2, <3>3, <3>4
  <2>. QED
    BY <2>1, <2>2
\* The copy just made: nothing but the strays is above the step it was made of.
<1>7. CASE (Rename \/ DirSync) /\ x.step = step /\ target = "latest"
  <2>1. Cardinality(Above(E, x.step)) <= Strays
    BY <1>7 DEF StepNear, Running, Rename, DirSync
  <2>2. Cardinality(Above(E', x.step)) <= Cardinality(Above(E, x.step))
    BY <1>1, <1>4, <1>7
  <2>3. \A a, b, s, t \in Nat, w \in {0, 1} : a <= b /\ b <= s /\ s <= t => a <= t + w
    OBVIOUS
  <2>. QED
    BY <1>2, <1>3, <2>1, <2>2, <2>3
<1>8. \/ x \in {dir.latest, durable.latest} /\ ~(DirSync /\ target = "latest")
      \/ (Rename \/ DirSync) /\ x.step = step /\ target = "latest"
  <2>1. CASE Train \/ SaveTemp \/ CopyTemp \/ Fsync \/ Restart \/ Kill \/ UNCHANGED vars
    <3>1. UNCHANGED directory
      BY <2>1, Still DEF Kill
    <3>2. ~DirSync
      BY <2>1 DEF Train, SaveTemp, CopyTemp, Fsync, Restart, Kill, Stopped, vars, DirSync, Running
    <3>. QED
      BY <3>1, <3>2 DEF directory
  <2>2. CASE Rename
    <3>1. ~DirSync /\ durable' = durable /\ pc = "rename"
      BY <2>2 DEF Rename, DirSync
    <3>2. CASE target = "periodic"
      <4>1. dir'.latest = dir.latest
        BY <2>2, <3>2 DEF Rename, TypeOK, Directory
      <4>. QED
        BY <3>1, <4>1
    <3>3. CASE target = "latest"
      <4>1. dir'.latest = temp /\ temp.step = step
        BY <2>2, <3>1, <3>3 DEF Rename, TypeOK, Directory, Saving
      <4>. QED
        BY <2>2, <3>1, <3>3, <4>1
    <3>. QED
      BY <3>2, <3>3 DEF TypeOK
  <2>3. CASE DirSync
    <3>1. dir' = dir /\ durable' = dir /\ pc = "dirsync"
      BY <2>3 DEF DirSync
    <3>2. target = "latest" => dir.latest.step = step
      BY <3>1 DEF Saving
    <3>. QED
      BY <2>3, <3>1, <3>2
  <2>4. CASE Unlink
    <3>1. PICK y \in Steps : dir' = [dir EXCEPT !.periodic[y] = "absent"]
      BY <2>4 DEF Unlink, Superseded, Generations
    <3>2. dir'.latest = dir.latest
      BY <3>1, UnlinkedGood
    <3>. QED
      BY <2>4, <3>2 DEF Unlink, DirSync
  <2>5. CASE Return
    BY <2>5 DEF Return, DirSync
  <2>6. CASE PowerLoss
    <3>1. PICK lost \in SUBSET Unsynced, lostLatest \in BOOLEAN :
            dir' = Survivor(lost, lostLatest) /\ durable' = dir'
      BY <2>6 DEF PowerLoss
    <3>2. dir'.latest \in {dir.latest, durable.latest}
      BY <3>1, SurvivorEntries
    <3>3. ~DirSync
      BY <2>6 DEF PowerLoss, Stopped, DirSync
    <3>. QED
      BY <3>1, <3>2, <3>3
  <2>7. CASE WriteBack
    <3>1. dir' = dir /\ durable'.latest \in {dir.latest, durable.latest}
      BY <2>7, WrittenBack
    <3>2. ~DirSync
      BY <2>7 DEF WriteBack, DirSync
    <3>. QED
      BY <3>1, <3>2
  <2>8. CASE Damage
    <3>1. /\ dir'.latest = dir.latest \/ dir'.latest.data = "torn"
          /\ durable'.latest = durable.latest \/ durable'.latest.data = "torn"
      BY <2>8 DEF Damage, TypeOK, Directory, File, Generations
    <3>2. ~DirSync
      BY <2>8, StraysStep DEF DirSync, Damage, bounds
    <3>. QED
      BY <3>1, <3>2 DEF Readable
  <2>. QED
    BY <2>1, <2>2, <2>3, <2>4, <2>5, <2>6, <2>7, <2>8 DEF Next
<1>. QED
  BY <1>6, <1>7, <1>8

LEMMA StepNearStep ==
  ASSUME Retained, TypeOK', [Next]_vars, Resuming, Strays < Keep, StepNear, Running'
  PROVE  Cardinality(Above(Everywhere', step')) <= Strays'
<1>. DEFINE E == Everywhere
<1>1. TypeOK /\ Clean /\ Saving
  BY DEF Retained
<1>2. /\ E \in SUBSET Steps /\ E' \in SUBSET Steps
      /\ Rename /\ target = "periodic" => E' \subseteq E \cup {step}
      /\ ~(Rename /\ target = "periodic") => E' \subseteq E
  BY <1>1, EverywhereStep
<1>3. Strays \in Nat /\ Strays' \in Nat /\ Strays <= Strays'
  BY <1>1, StraysStep
<1>4. step \in Steps /\ step' \in Steps /\ step \in Int /\ step' \in Int
  BY <1>1, StepsAreInts DEF TypeOK
<1>5. /\ Cardinality(Above(E, step)) \in Nat /\ Cardinality(Above(E', step')) \in Nat
      /\ Cardinality(Above(E, step')) \in Nat
  BY <1>2, <1>4, FewAbove
<1>6. CASE Restart
  <2>1. pc' = "train" /\ UNCHANGED <<dir, durable, crashes, faults>> /\ E' \subseteq E
    BY <1>2, <1>6 DEF Restart, Running, bounds, Rename
  <2>2. Cardinality(Above(E, step')) <= Strays
    BY <1>6, <2>1, RestartNear
  <2>3. Cardinality(Above(E', step')) <= Cardinality(Above(E, step'))
    BY <1>2, <1>4, <2>1, FewAbove
  <2>. QED
    BY <1>3, <1>5, <2>2, <2>3
<1>7. CASE ~Restart
  <2>1. Running /\ step <= step' /\ (Rename => step' = step)
    <3>1. CASE Train \/ SaveTemp \/ CopyTemp \/ Fsync \/ Rename \/ DirSync \/ Unlink \/ Return
      BY <1>4, <3>1 DEF Train, SaveTemp, CopyTemp, Fsync, Rename, DirSync, Unlink, Return, Running
    <3>2. CASE WriteBack \/ Damage \/ UNCHANGED vars
      BY <1>4, <3>2 DEF WriteBack, Damage, vars, Running
    <3>3. CASE Kill \/ PowerLoss
      BY <3>3 DEF Kill, PowerLoss, Stopped, Running
    <3>. QED
      BY <1>7, <3>1, <3>2, <3>3 DEF Next
  <2>2. Cardinality(Above(E, step)) <= Strays
    BY <2>1 DEF StepNear
  <2>3. Cardinality(Above(E', step')) <= Cardinality(Above(E, step))
    <3>1. CASE Rename /\ target = "periodic"
      <4>1. E' \subseteq E \cup {step} /\ step' = step
        BY <1>2, <2>1, <3>1
      <4>2. Cardinality(Above(E', step)) <= Cardinality(Above(E, step))
        BY <1>2, <1>4, <4>1, FewAbove
      <4>. QED
        BY <4>1, <4>2
    <3>2. CASE ~(Rename /\ target = "periodic")
      BY <1>2, <1>4, <2>1, <3>2, FewAbove
    <3>. QED
      BY <3>1, <3>2
  <2>. QED
    BY <1>3, <1>5, <2>2, <2>3
<1>. QED
  BY <1>6, <1>7

LEMMA SaveThereStep ==
  ASSUME Retained, TypeOK', [Next]_vars, Resuming, Strays < Keep, StepNear, SaveThere
  PROVE  /\ Published' => step' \in Generations(dir')
         /\ Synced' => step' \in Generations(durable')
         /\ pc' = "train" /\ saved' # NoCheckpoint => saved' \in Generations(dir') \cap Generations(durable')
<1>. DEFINE G == Generations(dir)
            D == Generations(durable)
            Goal == /\ Published' => step' \in Generations(dir')
                    /\ Synced' => step' \in Generations(durable')
                    /\ pc' = "train" /\ saved' # NoCheckpoint =>
                         saved' \in Generations(dir') \cap Generations(durable')
<1>1. TypeOK /\ Clean /\ Saving /\ step \in Steps /\ (pc = "down" => saved = NoCheckpoint)
  BY DEF Retained, Counted, TypeOK
<1>2. /\ Published => step \in G
      /\ Synced => step \in D
      /\ pc = "train" /\ saved # NoCheckpoint => saved \in G \cap D
  BY DEF SaveThere
<1>3. Synced => Published
  BY DEF Synced, Published
<1>4. ASSUME dir' = dir, durable' = durable
      PROVE  Generations(dir') = G /\ Generations(durable') = D
  BY <1>4
<1>5. CASE Train \/ SaveTemp
  <2>1. ~Published' /\ ~Synced' /\ dir' = dir /\ durable' = durable
    BY <1>5 DEF Train, SaveTemp, Published, Synced
  <2>2. pc' = "train" => pc = "train" /\ saved' = saved
    BY <1>5 DEF Train, SaveTemp
  <2>. QED
    BY <1>2, <1>4, <2>1, <2>2
<1>6. CASE CopyTemp \/ Fsync
  <2>1. /\ dir' = dir /\ durable' = durable /\ step' = step /\ pc' # "train"
        /\ Published' => Published
        /\ Synced' => Synced
    BY <1>6 DEF CopyTemp, Fsync, Published, Synced
  <2>. QED
    BY <1>2, <1>4, <2>1
<1>7. CASE Rename
  <2>1. /\ step' = step /\ pc = "rename" /\ pc' = "dirsync" /\ target' = target /\ durable' = durable
    BY <1>7 DEF Rename
  <2>2. CASE target = "periodic"
    <3>1. Generations(dir') = G \cup {step} /\ ~Synced'
      BY <1>1, <1>7, <2>1, <2>2, Moved DEF Synced
    <3>. QED
      BY <2>1, <3>1
  <2>3. CASE target # "periodic"
    <3>1. dir'.periodic = dir.periodic
      BY <1>1, <1>7, <2>3, Still
    <3>2. Generations(dir') = G /\ Generations(durable') = D /\ Published /\ Synced
      BY <1>1, <2>1, <2>3, <3>1 DEF Generations, Published, Synced, TypeOK
    <3>. QED
      BY <1>2, <2>1, <3>2
  <2>. QED
    BY <2>2, <2>3
<1>8. CASE DirSync
  <2>1. step' = step /\ pc' # "train" /\ Published
    BY <1>8 DEF DirSync, Published
  <2>2. Generations(dir') = G /\ Generations(durable') = G
    BY <1>1, <1>8, Moved
  <2>. QED
    BY <1>2, <2>1, <2>2
<1>9. CASE Unlink
  <2>1. PICK x \in Superseded(dir) : dir' = [dir EXCEPT !.periodic[x] = "absent"]
    BY <1>9 DEF Unlink
  <2>2. /\ x \in Steps /\ Cardinality(Above(G, x)) >= Keep
    BY DEF Superseded, Generations, Above
  <2>3. step' = step /\ pc = "prune" /\ pc' = "prune" /\ durable' = durable /\ Published /\ Synced
    BY <1>9 DEF Unlink, Published, Synced
  <2>4. Generations(dir') = G \ {x}
    BY <1>1, <2>1, <2>2, Moved
  <2>5. x # step
    <3>1. Cardinality(Above(Everywhere, step)) <= Strays
      BY <2>3 DEF StepNear, Running
    <3>2. G \in SUBSET Steps /\ Everywhere \in SUBSET Steps /\ G \subseteq Everywhere /\ step \in Int
      BY <1>1, StepsAreInts DEF Everywhere, Generations
    <3>3. Cardinality(Above(G, step)) <= Cardinality(Above(Everywhere, step))
      BY <3>2, FewAbove
    <3>4. Cardinality(Above(G, step)) \in Nat /\ Cardinality(Above(Everywhere, step)) \in Nat
      BY <3>2, FewAbove
    <3>5. Strays \in Nat /\ Keep \in Nat
      BY <1>1, StraysStep, KeepAssumption
    <3>6. ~(Cardinality(Above(G, step)) >= Keep)
      BY <3>1, <3>3, <3>4, <3>5
    <3>. QED
      BY <2>2, <3>6
  <2>. QED
    BY <1>2, <2>3, <2>4, <2>5
<1>10. CASE Return
  <2>1. pc' = "train" /\ saved' = step /\ Published /\ ~Published' /\ ~Synced'
    BY <1>10 DEF Return, Published, Synced
  <2>2. Generations(dir') = G /\ Generations(durable') = G
    BY <1>1, <1>10, Moved
  <2>. QED
    BY <1>2, <2>1, <2>2
<1>11. CASE Kill \/ PowerLoss
  BY <1>11 DEF Kill, PowerLoss, Stopped, Published, Synced
<1>12. CASE WriteBack \/ Damage \/ UNCHANGED vars
  <2>1. UNCHANGED <<pc, target, step, saved>>
    BY <1>12 DEF WriteBack, Damage, vars
  <2>2. Generations(dir') = G /\ G \cap D \subseteq Generations(durable')
    <3>1. CASE WriteBack \/ Damage
      BY <1>1, <3>1, Moved
    <3>2. CASE UNCHANGED vars
      BY <1>4, <3>2 DEF vars
    <3>. QED
      BY <1>12, <3>1, <3>2
  <2>3. Published' = Published /\ Synced' = Synced
    BY <2>1 DEF Published, Synced
  <2>. QED
    BY <1>2, <1>3, <2>1, <2>2, <2>3
<1>13. CASE Restart
  <2>1. saved' = saved /\ pc = "down" /\ pc' \in {"train", "refused"}
    BY <1>13 DEF Restart
  <2>. QED
    BY <1>1, <2>1 DEF Published, Synced
<1>. QED
  BY <1>5, <1>6, <1>7, <1>8, <1>9, <1>10, <1>11, <1>12, <1>13 DEF Next

LEMMA RetainedInit == Init => Retained
<1>. SUFFICES ASSUME Init PROVE Retained
  OBVIOUS
<1>1. TypeOK
  BY InitTypeOK
<1>2. dir = [periodic |-> [s \in Steps |-> "absent"], latest |-> NoFile] /\ durable = dir
  BY DEF Init
<1>3. Generations(dir) = {} /\ Generations(durable) = {} /\ TornAnywhere = {} /\ Clean
  BY <1>2 DEF Generations, Present, TornAnywhere, Clean, NoFile
<1>4. Saving /\ ~Published /\ ~Synced /\ ~Running /\ pc = "down"
  BY DEF Init, Saving, Published, Synced, Running
<1>5. Counted
  <2>1. Everywhere = {} /\ Unsaved = 0
    BY <1>3, <1>4 DEF Everywhere, Unsaved
  <2>2. faults = 0 /\ crashes = 0 /\ saved = NoCheckpoint /\ Keep \in Nat
    BY KeepAssumption DEF Init
  <2>3. Cardinality({}) = 0
    BY Few
  <2>. QED
    BY <1>3, <1>4, <2>1, <2>2, <2>3 DEF Counted
<1>6. LatestNear /\ StepNear /\ SaveThere
  BY <1>2, <1>4 DEF LatestNear, StepNear, SaveThere, Readable, NoFile
<1>. QED
  BY <1>1, <1>3, <1>4, <1>5, <1>6 DEF Retained

LEMMA RetainedStep == Retained /\ [Next]_vars => Retained'
<1>. SUFFICES ASSUME Retained, [Next]_vars PROVE Retained'
  OBVIOUS
<1>1. TypeOK /\ TypeOK' /\ Clean /\ Saving /\ Counted
  BY NextTypeOK DEF Retained
<1>2. Clean' /\ Saving' /\ Counted'
  BY <1>1, CleanStep, CountedStep
<1>3. ASSUME Resuming, Strays' < Keep PROVE LatestNear' /\ StepNear' /\ SaveThere'
  <2>1. Strays < Keep
    <3>1. Strays \in Nat /\ Strays' \in Nat /\ Strays <= Strays'
      BY <1>1, StraysStep
    <3>. QED
      BY <1>3, <3>1, KeepAssumption
  <2>2. LatestNear /\ StepNear /\ SaveThere
    BY <1>3, <2>1 DEF Retained
  <2>3. LatestNear'
    <3>1. \A x \in {dir'.latest, durable'.latest} :
            Readable(x.data) => Cardinality(Above(Everywhere', x.step)) <= Strays' + Window'
      BY <1>1, <1>2, <2>2, LatestNearStep
    <3>. QED
      BY <3>1 DEF LatestNear, Above
  <2>4. StepNear'
    <3>1. Running' => Cardinality(Above(Everywhere', step')) <= Strays'
      BY <1>1, <1>3, <2>1, <2>2, StepNearStep
    <3>. QED
      BY <3>1 DEF StepNear, Above
  <2>5. SaveThere'
    <3>1. /\ Published' => step' \in Generations(dir')
          /\ Synced' => step' \in Generations(durable')
          /\ pc' = "train" /\ saved' # NoCheckpoint => saved' \in Generations(dir') \cap Generations(durable')
      BY <1>1, <1>3, <2>1, <2>2, SaveThereStep
    <3>. QED
      BY <3>1 DEF SaveThere, Generations
  <2>. QED
    BY <2>3, <2>4, <2>5
<1>. QED
  BY <1>1, <1>2, <1>3 DEF Retained, Resuming

(* For every retention, number of crashes and of damaged files: while fewer*)
(* checkpoints of an abandoned future than retained generations can be in  *)
(* the directory, the generation _checkpoint just saved is there, also     *)
(* after a power loss, when the trainer copies it; and never more than     *)
(* Keep generations, one per crash and one being saved are there.          *)
THEOREM JustSavedIsAlwaysKept == Spec => []JustSavedIsKept
<1>1. Retained => JustSavedIsKept
  <2>. SUFFICES ASSUME Retained PROVE JustSavedIsKept
    OBVIOUS
  <2>1. TypeOK /\ Counted
    BY DEF Retained
  <2>2. ASSUME Resuming, Strays < Keep, pc = "train", saved # NoCheckpoint
        PROVE  saved \in Generations(dir) /\ Present(durable.periodic[saved])
    <3>1. SaveThere
      BY <2>2 DEF Retained
    <3>. QED
      BY <2>2, <3>1 DEF SaveThere, Generations
  <2>3. Cardinality(Generations(dir)) <= Keep + crashes + 1
    <3>1. /\ Generations(dir) \in SUBSET Steps /\ Everywhere \in SUBSET Steps
          /\ Generations(dir) \subseteq Everywhere
      BY DEF Everywhere, Generations
    <3>2. Cardinality(Generations(dir)) <= Cardinality(Everywhere)
      BY <3>1, Few
    <3>3. Cardinality(Generations(dir)) \in Nat /\ Cardinality(Everywhere) \in Nat
      BY <3>1, Few
    <3>4. Cardinality(Everywhere) <= Keep + crashes + Unsaved /\ Unsaved \in {0, 1}
      BY <2>1 DEF Counted, Unsaved
    <3>5. crashes \in Nat /\ Keep \in Nat
      BY <2>1, BoundsAssumption, KeepAssumption DEF TypeOK
    <3>6. \A k, c, d, e \in Nat, u \in {0, 1} : d <= e /\ e <= k + c + u => d <= k + c + 1
      OBVIOUS
    <3>. QED
      BY <3>2, <3>3, <3>4, <3>5, <3>6
  <2>. QED
    BY <2>1, <2>2, <2>3 DEF JustSavedIsKept, Counted
<1>. QED
  BY <1>1, RetainedInit, RetainedStep, PTL DEF Spec
=============================================================================
