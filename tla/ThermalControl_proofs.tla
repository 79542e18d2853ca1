----------------------- MODULE ThermalControl_proofs ------------------------
(***************************************************************************)
(* Proofs about the event log and the telemetry as the training loop uses  *)
(* them, for every interval, board, sequence of events, kill, power loss   *)
(* and exception.                                                          *)
(***************************************************************************)
EXTENDS ThermalControl, WellFoundedInduction, TLAPS

\* The clock of the writer and the ages of what it has not synced.
Clocks ==
  /\ sinceSync \in Ages
  /\ unsynced \in [Streams -> Ages \cup {None}]

\* The oldest line of metrics.jsonl that no fsync covers is not older than the
\* last fsync; hardware.jsonl has no such bound, since its own lines are
\* synced only when one of them happens to be due.
Covered == Running /\ unsynced.metrics # None => unsynced.metrics <= sinceSync

\* Only the loop emits hardware events; a process that has left through finally
\* has nothing to append or to sync.
AtRest ==
  /\ pc \in {"off", "recover", "derive", "settings", "exited", "refused"} => rest = None
  /\ pc = "exited" => \A s \in Streams : unsynced[s] = None

IInv == Clocks /\ Covered /\ AtRest

LEMMA Aging ==
  ASSUME NEW age \in Ages
  PROVE  /\ Older(age) \in Ages
         /\ \A other \in Ages : age <= other => Older(age) <= Older(other)
BY FsyncIntervalAssumption DEF Older, Ages

LEMMA Appended ==
  ASSUME NEW age \in Ages \cup {None}, NEW sync
  PROVE  Written(age, sync) \in Ages \cup {None}
BY FsyncIntervalAssumption DEF Written, Ages

\* An event keeps the log's invariants: what it leaves unsynced in metrics.jsonl
\* is what was unsynced or the line itself, and the clock only restarts when
\* nothing is left.
LEMMA EmitKeeps ==
  ASSUME Clocks, unsynced.metrics # None => unsynced.metrics <= sinceSync,
         NEW category, Emit(category)
  PROVE  /\ Clocks'
         /\ unsynced.metrics' # None => unsynced.metrics' <= sinceSync'
<1>1. sinceSync' \in Ages
  BY FsyncIntervalAssumption DEF Clocks, Emit, SyncDue, Ages
<1>2. Written(unsynced.metrics, Due) \in Ages \cup {None}
  BY Appended DEF Clocks, Streams
<1>3. unsynced' \in [Streams -> Ages \cup {None}]
  BY <1>2 DEF Clocks, Emit
<1>4. unsynced'["metrics"] = Written(unsynced["metrics"], Due)
  BY DEF Clocks, Emit, Streams
<1>5. CASE Due
  BY <1>1, <1>3, <1>4, <1>5 DEF Written, Due, Clocks
<1>6. CASE ~Due
  <2>1. sinceSync' = sinceSync /\ sinceSync \in Nat
    BY <1>6, FsyncIntervalAssumption DEF Emit, SyncDue, Clocks, Ages
  <2>2. unsynced.metrics' = IF unsynced.metrics = None THEN 0 ELSE unsynced.metrics
    BY <1>4, <1>6 DEF Written, Due
  <2>. QED
    BY <1>1, <1>3, <2>1, <2>2 DEF Clocks
<1>. QED
  BY <1>5, <1>6

LEMMA QuietKeeps ==
  ASSUME Clocks, unsynced.metrics # None => unsynced.metrics <= sinceSync, Quiet
  PROVE  /\ Clocks'
         /\ unsynced.metrics' # None => unsynced.metrics' <= sinceSync'
BY DEF Clocks, Quiet, logVars

LEMMA TickKeeps ==
  ASSUME Clocks, unsynced.metrics # None => unsynced.metrics <= sinceSync, LogTick
  PROVE  /\ Clocks'
         /\ unsynced.metrics' # None => unsynced.metrics' <= sinceSync'
<1>1. sinceSync' = Older(sinceSync) /\ sinceSync \in Ages
  BY DEF LogTick, Clocks
<1>2. ASSUME NEW s \in Streams
      PROVE  /\ unsynced[s] = None => unsynced'[s] = None
             /\ unsynced[s] # None => unsynced[s] \in Ages /\ unsynced'[s] = Older(unsynced[s])
  BY DEF LogTick, Clocks
<1>3. unsynced' \in [Streams -> Ages \cup {None}]
  <2>1. \A s \in Streams :
          (IF unsynced[s] = None THEN None ELSE Older(unsynced[s])) \in Ages \cup {None}
    BY Aging DEF Clocks
  <2>. QED
    BY <2>1 DEF LogTick
<1>4. unsynced.metrics' # None => unsynced.metrics' <= sinceSync'
  BY <1>1, <1>2, Aging DEF Streams
<1>. QED
  BY <1>1, <1>3, <1>4, Aging DEF Clocks

-----------------------------------------------------------------------------
(* The invariant *)

LEMMA Initially == ThermalInit => IInv
<1>. SUFFICES ASSUME ThermalInit PROVE IInv
  OBVIOUS
<1>1. FsyncInterval \in Ages
  BY FsyncIntervalAssumption DEF Ages
<1>2. Clocks
  BY <1>1 DEF ThermalInit, LogInit, Clocks
<1>. QED
  BY <1>2 DEF ThermalInit, LogInit, IInv, Covered, AtRest, Running

LEMMA Preserved == IInv /\ [Next]_vars => IInv'
<1>. SUFFICES ASSUME IInv, [Next]_vars PROVE IInv'
  OBVIOUS
<1>. USE DEF IInv, Covered, AtRest, Running
<1>1. CASE Start
  <2>1. /\ sinceSync' = FsyncInterval /\ unsynced' = unsynced /\ rest' = None
        /\ pc' = "recover"
    BY <1>1 DEF Start, NewWriter
  <2>2. FsyncInterval \in Ages /\ \A age \in Ages : age <= FsyncInterval
    BY FsyncIntervalAssumption DEF Ages
  <2>3. unsynced.metrics \in Ages \cup {None}
    BY DEF Clocks, Streams
  <2>. QED
    BY <2>1, <2>2, <2>3 DEF Clocks
<1>2. CASE Recovered
  BY <1>2, EmitKeeps, QuietKeeps DEF Recovered, Goto, Quiet, logVars, Emit
<1>3. CASE Derived
  BY <1>3, EmitKeeps DEF Derived, Goto, Emit
<1>4. CASE Validated \/ Refused
  <2>1. Clocks' /\ (unsynced.metrics' # None => unsynced.metrics' <= sinceSync')
    BY <1>4, QuietKeeps DEF Validated, Refused
  <2>2. rest' = rest /\ pc = "settings" /\ pc' \in {"loop", "refused"}
    BY <1>4 DEF Validated, Refused, Goto, Quiet, logVars
  <2>. QED
    BY <2>1, <2>2
<1>5. CASE Iterate
  BY <1>5, TickKeeps DEF Iterate, Goto
<1>6. CASE Probe
  BY <1>6, EmitKeeps DEF Probe, Goto
<1>7. CASE SecondAppend
  <2>1. Written(unsynced.hardware, rest) \in Ages \cup {None}
    BY Appended DEF Clocks, Streams
  <2>2. Clocks' /\ unsynced'["metrics"] = unsynced["metrics"]
    BY <1>7, <2>1 DEF SecondAppend, EmitHardware, Clocks, Streams
  <2>. QED
    BY <1>7, <2>2 DEF SecondAppend, EmitHardware, loopVars
<1>8. CASE Observe
  BY <1>8, QuietKeeps DEF Observe, Goto
<1>9. CASE Report
  BY <1>9, EmitKeeps DEF Report, Goto
<1>10. CASE Decide
  <2>1. CASE Quiet
    BY <1>10, <2>1, QuietKeeps DEF Decide
  <2>2. CASE Emit("WarningEvent")
    BY <1>10, <2>2, EmitKeeps DEF Decide
  <2>. QED
    BY <1>10, <2>1, <2>2 DEF Decide
<1>11. CASE ActNothing
  BY <1>11, QuietKeeps DEF ActNothing
<1>12. CASE Act
  <2>1. Clocks' /\ (unsynced.metrics' # None => unsynced.metrics' <= sinceSync')
    BY <1>12, EmitKeeps DEF Act
  <2>2. pc' \in {"closing", "pause", "tail"}
    BY <1>12 DEF Act
  <2>. QED
    BY <2>1, <2>2
<1>13. CASE PauseWait
  BY <1>13, TickKeeps DEF PauseWait, Goto
<1>14. CASE PausePoll
  BY <1>14, QuietKeeps DEF PausePoll, Goto
<1>15. CASE PauseReport
  BY <1>15, EmitKeeps DEF PauseReport, Goto
<1>16. CASE PauseHolds
  BY <1>16, QuietKeeps DEF PauseHolds, Goto
<1>17. CASE PauseReleased
  BY <1>17, EmitKeeps DEF PauseReleased
<1>18. CASE PauseStopped
  BY <1>18, QuietKeeps DEF PauseStopped, Goto
<1>19. CASE Tail
  BY <1>19, EmitKeeps, QuietKeeps DEF Tail, Goto
<1>20. CASE LeaveLoop
  BY <1>20, QuietKeeps DEF LeaveLoop, Goto
<1>21. CASE Close
  BY <1>21, EmitKeeps DEF Close, Goto
<1>22. CASE ReportError
  BY <1>22, EmitKeeps DEF ReportError, Goto
<1>23. CASE Finally
  BY <1>23, FsyncIntervalAssumption DEF Finally, SyncAll, Goto, Clocks, Ages, Streams
<1>24. CASE Raise
  BY <1>24 DEF Raise, Clocks
<1>25. CASE Signal
  BY <1>25, QuietKeeps DEF Signal, Quiet, logVars
<1>26. CASE \E power \in BOOLEAN : Killed(power)
  BY <1>26 DEF Killed, Clocks
<1>27. CASE UNCHANGED vars
  BY <1>27 DEF vars, loopVars, logVars, Clocks
<1>. QED
  BY <1>1, <1>2, <1>3, <1>4, <1>5, <1>6, <1>7, <1>8, <1>9, <1>10, <1>11, <1>12, <1>13,
     <1>14, <1>15, <1>16, <1>17, <1>18, <1>19, <1>20, <1>21, <1>22, <1>23, <1>24, <1>25,
     <1>26, <1>27
     DEF Next, Step

LEMMA Inductive == ThermalSpec => []IInv
BY Initially, Preserved, PTL DEF ThermalSpec

(* For every fsync interval, board and choice of events and faults: what a *)
(* power loss can take from metrics.jsonl is younger than the last fsync,  *)
(* and a process that leaves through finally leaves both files durable     *)
(* (events.py, emit, sync; trainer.py, finally).                           *)
THEOREM LossAlwaysBounded == ThermalSpec => []LossBounded
<1>1. IInv => LossBounded
  BY DEF IInv, Covered, AtRest, LossBounded
<1>. QED
  BY <1>1, Inductive, PTL

-----------------------------------------------------------------------------
(* What the collector reads *)

LEMMA DegreesAre == \A d \in Degrees : d \in Int /\ d > -1000 /\ d < 1000
<1>1. \A x \in -999 .. 999 : x \in Int /\ x > -1000 /\ x < 1000
  OBVIOUS
<1>. QED
  BY <1>1, TelemetryAssumption

\* Some of the temperatures that are read is the highest.
LEMMA HighestIs ==
  ASSUME NEW S, S \subseteq Degrees, S # {}
  PROVE  Max(S) \in S
<1>. DEFINE below == {999 - x : x \in S}
<1>1. \A x \in S : x \in Int /\ 999 - x \in Nat
  <2>1. \A x \in Int : x < 1000 => 999 - x \in Nat
    OBVIOUS
  <2>. QED
    BY <2>1, DegreesAre
<1>2. below \subseteq Nat /\ below # {}
  BY <1>1
<1>3. PICK m \in below : \A k \in below : ~ (<<k, m>> \in OpToRel(<, Nat))
  <2>. HIDE DEF below
  <2>. QED
    BY <1>2, NatLessThanWellFounded, WFMin
<1>4. PICK x \in S : m = 999 - x
  BY <1>3
<1>5. m \in Nat /\ \A y \in S : 999 - y \in below
  <2>1. \A y \in S : 999 - y \in below
    OBVIOUS
  <2>. HIDE DEF below
  <2>. QED
    BY <1>2, <1>3, <2>1
<1>6. \A y \in S : x >= y
  <2>. HIDE DEF below
  <2>1. ASSUME NEW y \in S, 999 - y < m PROVE FALSE
    <3>1. PICK n \in Nat : n = 999 - y
      BY <1>1
    <3>2. <<n, m>> \in Nat \X Nat /\ <<n, m>>[1] < <<n, m>>[2]
      BY <1>5, <2>1, <3>1
    <3>3. <<n, m>> \in OpToRel(<, Nat)
      BY ONLY <3>2, Zenon DEF OpToRel
    <3>4. n \in below
      BY <1>5, <3>1
    <3>. QED
      BY <1>3, <3>3, <3>4
  <2>2. \A y \in S : ~ (999 - y < m)
    BY <2>1
  <2>. QED
    BY <1>1, <1>4, <2>2
<1>. QED
  BY <1>6 DEF Max

LEMMA HottestIs ==
  ASSUME NEW sensors, \A z \in DOMAIN sensors : sensors[z] \in Degrees
  PROVE  Hottest(sensors) \in Degrees \cup {NoReading}
<1>1. CASE DOMAIN sensors = {}
  BY <1>1 DEF Hottest
<1>2. CASE DOMAIN sensors # {}
  <2>1. PICK S : S = {sensors[z] : z \in DOMAIN sensors}
    OBVIOUS
  <2>2. S \subseteq Degrees /\ S # {}
    BY <1>2, <2>1
  <2>3. Max(S) \in Degrees
    BY <2>2, HighestIs
  <2>. QED
    BY <1>2, <2>1, <2>3 DEF Hottest
<1>. QED
  BY <1>1, <1>2

\* Either unit is read as the degrees it shows.
LEMMA ScaledIs ==
  ASSUME NEW zone, board[zone] \in Degrees
  PROVE  Scaled(Raw(zone)) = board[zone]
<1>1. PICK d \in Int : d = board[zone] /\ d > -1000 /\ d < 1000
  <2>1. PICK d : d = board[zone]
    OBVIOUS
  <2>. QED
    BY <2>1, DegreesAre
<1>2. 1000 * d \in Int /\ (1000 * d) \div 1000 = d
  OBVIOUS
<1>3. ~ (1000 * d >= 1000 \/ 1000 * d <= -1000) => d = 0
  OBVIOUS
<1>4. ~ (d >= 1000 \/ d <= -1000)
  BY <1>1
<1>. QED
  BY <1>1, <1>2, <1>3, <1>4 DEF Scaled, Raw

LEMMA SampleTypes ==
  ASSUME TelemetryTypeOK, Sample
  PROVE  TelemetryTypeOK'
<1>1. PICK readable \in SUBSET Zones :
        /\ cached' = Refreshed
        /\ sinceSample' = IF Attempt THEN 0 ELSE sinceSample
        /\ observed' = Merged(Hottest(Sysfs(readable)), Refreshed)
        /\ UNCHANGED boardVars
  BY DEF Sample
<1>2. Hottest(Sysfs(readable)) \in Degrees \cup {NoReading}
  <2>1. \A z \in readable : board[z] \in Degrees
    BY DEF TelemetryTypeOK
  <2>2. \A z \in readable : Sysfs(readable)[z] \in Degrees
    BY <2>1, ScaledIs DEF Sysfs
  <2>3. DOMAIN Sysfs(readable) = readable
    BY DEF Sysfs
  <2>. QED
    BY <2>2, <2>3, HottestIs
<1>3. printed # NoReading => Hottest(Tegrastats) \in Degrees \cup {NoReading}
  <2>1. ASSUME printed # NoReading PROVE \A z \in printed : board[z] \in Degrees
    BY <2>1, TelemetryAssumption DEF TelemetryTypeOK
  <2>. QED
    BY <2>1, HottestIs DEF Tegrastats
<1>4. PICK late : late = Refreshed
  OBVIOUS
<1>5. late = NoReading \/ late \in [temperature : Degrees \cup {NoReading}, age : 0 .. MaxAge]
  <2>1. 0 \in 0 .. MaxAge
    BY TelemetryAssumption DEF MaxAge
  <2>. QED
    BY <1>3, <1>4, <2>1 DEF Refreshed, TelemetryTypeOK
<1>6. sinceSample' \in 0 .. SampleInterval
  BY <1>1, TelemetryAssumption DEF TelemetryTypeOK
<1>7. observed' = Merged(Hottest(Sysfs(readable)), late) /\ cached' = late
  BY <1>1, <1>4
<1>8. /\ observed'.shown \in 0 .. SampleInterval \cup {NoReading}
      /\ observed'.temperature \in Degrees \cup {NoReading}
  <2>1. (IF Attempt THEN 0 ELSE sinceSample) \in 0 .. SampleInterval
    BY <1>1, <1>6
  <2>2. CASE late = NoReading
    BY <1>2, <1>7, <2>2 DEF Merged
  <2>3. CASE late # NoReading
    <3>1. late.temperature \in Degrees \cup {NoReading}
      BY <1>5, <2>3
    <3>. QED
      BY <1>2, <1>7, <2>1, <2>3, <3>1 DEF Merged
  <2>. QED
    BY <2>2, <2>3
<1>. QED
  BY <1>1, <1>5, <1>6, <1>7, <1>8 DEF TelemetryTypeOK, boardVars

LEMMA TelemetryTickTypes ==
  ASSUME TelemetryTypeOK, TelemetryTick
  PROVE  TelemetryTypeOK'
<1>1. sinceSample' \in 0 .. SampleInterval
  BY TelemetryAssumption DEF TelemetryTypeOK, TelemetryTick, Grown
<1>2. \A age \in 0 .. MaxAge : Grown(age, MaxAge) \in 0 .. MaxAge
  BY TelemetryAssumption DEF Grown, MaxAge
<1>3. \/ cached' = NoReading
      \/ cached' \in [temperature : Degrees \cup {NoReading}, age : 0 .. MaxAge]
  <2>1. CASE cached = NoReading
    BY <2>1 DEF TelemetryTick
  <2>2. CASE cached # NoReading
    <3>1. /\ cached \in [temperature : Degrees \cup {NoReading}, age : 0 .. MaxAge]
          /\ cached' = [cached EXCEPT !.age = Grown(cached.age, MaxAge)]
      BY <2>2 DEF TelemetryTypeOK, TelemetryTick
    <3>2. cached.age \in 0 .. MaxAge
      BY <3>1
    <3>. QED
      BY <1>2, <3>1, <3>2
  <2>. QED
    BY <2>1, <2>2
<1>. QED
  BY <1>1, <1>3 DEF TelemetryTypeOK, TelemetryTick

LEMMA OtherTypes ==
  ASSUME TelemetryTypeOK, Unsampled \/ Forget \/ NewCollector
  PROVE  TelemetryTypeOK'
<1>1. SampleInterval \in 0 .. SampleInterval
  BY TelemetryAssumption
<1>2. NoObservation.shown = NoReading /\ NoObservation.temperature = NoReading
  BY DEF NoObservation
<1>. QED
  BY <1>1, <1>2
     DEF Unsampled, Forget, NewCollector, TelemetryTypeOK, boardVars, collectorVars

-----------------------------------------------------------------------------
(* Types *)

LEMMA LevelIs ==
  ASSUME NEW temperature
  PROVE  Level(temperature) \in Levels
BY DEF Level, Levels

RestTypes == rest \in BOOLEAN \cup {None}

LoopTypes ==
  action \in Actions /\ last \in Levels /\ stops \in 0 .. MaxStops

LEMMA TypesKept ==
  ASSUME TelemetryTypeOK, RestTypes, LoopTypes, [Next]_vars
  PROVE  TelemetryTypeOK' /\ RestTypes' /\ LoopTypes'
<1>. USE DEF RestTypes, LoopTypes
<1>1. TelemetryTypeOK'
  BY SampleTypes, TelemetryTickTypes, OtherTypes
     DEF Next, Step, Start, Recovered, Derived, Validated, Refused, Iterate, Probe,
         SecondAppend, Observe, Report, Decide, ActNothing, Act, PauseWait, PausePoll,
         PauseReport, PauseHolds, PauseReleased, PauseStopped, Tail, LeaveLoop, Close, Raise,
         ReportError, Finally, Signal, Killed, vars, Unsampled
<1>2. RestTypes'
  <2>1. Due \in BOOLEAN
    BY DEF Due
  <2>. QED
    BY <2>1
       DEF Next, Step, Start, Recovered, Derived, Validated, Refused, Iterate, Probe,
           SecondAppend, Observe, Report, Decide, ActNothing, Act, PauseWait, PausePoll,
           PauseReport, PauseHolds, PauseReleased, PauseStopped, Tail, LeaveLoop, Close,
           Raise, ReportError, Finally, Signal, Killed, vars, NewWriter, Emit, EmitHardware,
           SyncAll, LogTick, Quiet, logVars
<1>3. LoopTypes'
  <2>1. \A t : Level(t) \in Levels
    BY LevelIs
  <2>2. "" \in Levels
    BY DEF Levels
  <2>3. stops < MaxStops => stops + 1 \in 0 .. MaxStops
    BY StopsAssumption
  <2>. QED
    BY <2>1, <2>2, <2>3
       DEF Next, Step, Start, Recovered, Derived, Validated, Refused, Iterate, Probe,
           SecondAppend, Observe, Report, Decide, ActNothing, Act, PauseWait, PausePoll,
           PauseReport, PauseHolds, PauseReleased, PauseStopped, Tail, LeaveLoop, Close,
           Raise, ReportError, Finally, Signal, Killed, vars, loopVars, Goto
<1>. QED
  BY <1>1, <1>2, <1>3

(* jetson.py, sample; trainer.py, main: whatever the board shows and whichever reader    *)
(* fails, in either unit, what is observed and what the cache keeps is a temperature of  *)
(* a zone or no value, and its age is within the interval.                               *)
THEOREM ThermalTypeOK == ThermalSpec => []TypeOK
<1>1. ThermalInit => TelemetryTypeOK /\ RestTypes /\ LoopTypes
  <2>1. SampleInterval \in 0 .. SampleInterval /\ 0 \in 0 .. MaxStops /\ "" \in Levels
    BY TelemetryAssumption, StopsAssumption DEF Levels
  <2>2. NoObservation.shown = NoReading /\ NoObservation.temperature = NoReading
    BY DEF NoObservation
  <2>3. ThermalInit => TelemetryTypeOK
    BY <2>1, <2>2 DEF ThermalInit, TelemetryInit, TelemetryTypeOK
  <2>. QED
    BY <2>1, <2>3 DEF ThermalInit, LogInit, RestTypes, LoopTypes
<1>2. TelemetryTypeOK /\ RestTypes /\ LoopTypes /\ [Next]_vars
        => (TelemetryTypeOK /\ RestTypes /\ LoopTypes)'
  BY TypesKept
<1>3. IInv /\ TelemetryTypeOK /\ RestTypes /\ LoopTypes => TypeOK
  BY DEF IInv, Clocks, RestTypes, LoopTypes, TypeOK, LogTypeOK
<1>. QED
  BY <1>1, <1>2, <1>3, Inductive, PTL DEF ThermalSpec
=============================================================================
