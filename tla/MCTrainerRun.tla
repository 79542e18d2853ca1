---------------------------- MODULE MCTrainerRun ----------------------------
(* Small instances of TrainerRun for TLC.                                  *)
EXTENDS TrainerRun

P(k, t) == [kind |-> k, ticks |-> t]

\* The order of config/full.toml; every phase outlasts an iteration.
Curriculum == <<P("probe", 2), P("cost", 4), P("learn", 2), P("specialize", 2), P("evaluate", 2)>>

RewardSet == {-1, 1}

ASSUME CurriculumAssumption == Roomy
=============================================================================
