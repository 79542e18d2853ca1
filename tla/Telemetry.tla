----------------------------- MODULE Telemetry ------------------------------
(***************************************************************************)
(* neuroseek/telemetry/jetson.py: what the board shows, the two readers    *)
(* (tegrastats through a helper process, the thermal zones of sysfs), the  *)
(* rate-limited collector that merges them and the safety policy.          *)
(* The board is each zone's temperature; what a reader can see of it, and  *)
(* whether tegrastats answers at all, changes with time.                   *)
(***************************************************************************)
EXTENDS Integers, FiniteSetsExt

CONSTANTS Zones,
          Degrees,          \* temperatures a zone may have, in degrees
          Lines,            \* the sets of zones a tegrastats line may name
          WholeDegrees,     \* the zones whose driver exposes degrees
          Warning, Critical,
          SampleInterval,   \* tegrastats_interval_seconds, in ticks
          NoReading         \* no value: not a measurement

ASSUME TelemetryAssumption ==
  /\ SampleInterval \in Nat \ {0}
  \* What tells degrees from millidegrees: no zone reaches a thousand degrees.
  /\ Degrees \subseteq -999 .. 999
  /\ WholeDegrees \subseteq Zones /\ Lines \subseteq SUBSET Zones
  \* ThermalSafetyPolicy.__post_init__
  /\ Warning > 0 /\ Critical > Warning

VARIABLES board,       \* [Zones -> Degrees]
          printed,     \* the zones of the last parsable tegrastats line, or
                       \* NoReading when the helper fails or prints none
          sinceSample, \* now - _last_tegrastats_at
          cached,      \* _last_tegrastats and the true age of its values
          observed     \* the last sample(): its temperature_c, and the age it
                       \* gives next to the true one

NoObservation == [temperature |-> NoReading, shown |-> NoReading, age |-> NoReading]

boardVars == <<board, printed>>
collectorVars == <<sinceSample, cached, observed>>

MaxAge == SampleInterval + 1
Grown(age, limit) == IF age < limit THEN age + 1 ELSE age

\* parse_tegrastats: the maximum of the named temperatures, if there are any.
Hottest(sensors) ==
  IF DOMAIN sensors = {} THEN NoReading ELSE Max({sensors[z] : z \in DOMAIN sensors})

\* read_sysfs_thermal: a zone file holds millidegrees or, with some drivers,
\* degrees; only a value that proves the unit is scaled.
Raw(zone) == IF zone \in WholeDegrees THEN board[zone] ELSE 1000 * board[zone]
\* Variant: every value is taken for millidegrees.
Scaled_Always(raw) == raw \div 1000
Scaled(raw) == IF raw >= 1000 \/ raw <= -1000 THEN raw \div 1000 ELSE raw

Tegrastats == [z \in printed |-> board[z]]
Sysfs(readable) == [z \in readable |-> Scaled(Raw(z))]

\* sample(): sysfs first; tegrastats when the interval is over, its attempt
\* renewing the time whether it answers or not; then the cached values over
\* the others.
Attempt == sinceSample >= SampleInterval
\* Variant: the cache is filled once.
Refreshed_KeepFirst ==
  IF Attempt /\ printed # NoReading /\ cached = NoReading
  THEN [temperature |-> Hottest(Tegrastats), age |-> 0]
  ELSE cached
Refreshed ==
  IF Attempt /\ printed # NoReading
  THEN [temperature |-> Hottest(Tegrastats), age |-> 0]
  ELSE cached

Merged(own, late) ==
  IF late = NoReading
  THEN [temperature |-> own, shown |-> NoReading, age |-> NoReading]
  ELSE [temperature |-> IF late.temperature = NoReading THEN own ELSE late.temperature,
        shown |-> IF Attempt THEN 0 ELSE sinceSample,
        age |-> late.age]

Sample ==
  \E readable \in SUBSET Zones :
    /\ cached' = Refreshed
    /\ sinceSample' = IF Attempt THEN 0 ELSE sinceSample
    /\ observed' = Merged(Hottest(Sysfs(readable)), Refreshed)
    /\ UNCHANGED boardVars

\* ThermalSafetyPolicy.evaluate
Level(temperature) ==
  CASE temperature = NoReading -> "unavailable"
    [] temperature # NoReading /\ temperature >= Critical -> "critical"
    [] temperature # NoReading /\ temperature < Critical
         /\ temperature >= Warning -> "warning"
    [] OTHER -> "normal"

Requested(level, criticalAction) ==
  CASE level = "critical" -> criticalAction
    [] level = "warning" -> "warn"
    [] OTHER -> "none"

\* The observation is a local of the caller, not read after the decision.
Forget == observed' = NoObservation /\ UNCHANGED <<boardVars, sinceSample, cached>>

NewCollector ==
  /\ sinceSample' = SampleInterval
  /\ cached' = NoReading
  /\ observed' = NoObservation
  /\ UNCHANGED boardVars

TelemetryInit ==
  /\ board \in [Zones -> Degrees]
  /\ printed \in Lines \cup {NoReading}
  /\ sinceSample = SampleInterval
  /\ cached = NoReading
  /\ observed = NoObservation

\* One tick: the collector's times grow, the board and its readers change.
TelemetryTick ==
  /\ sinceSample' = Grown(sinceSample, SampleInterval)
  /\ cached' = IF cached = NoReading THEN cached
               ELSE [cached EXCEPT !.age = Grown(@, MaxAge)]
  /\ board' \in [Zones -> Degrees]
  /\ printed' \in Lines \cup {NoReading}
  /\ UNCHANGED observed

TelemetryTypeOK ==
  /\ board \in [Zones -> Degrees]
  /\ printed \in Lines \cup {NoReading}
  /\ sinceSample \in 0 .. SampleInterval
  /\ \/ cached = NoReading
     \/ cached \in [temperature : Degrees \cup {NoReading}, age : 0 .. MaxAge]
  /\ observed.shown \in 0 .. SampleInterval \cup {NoReading}
  /\ observed.temperature \in Degrees \cup {NoReading}
=============================================================================
