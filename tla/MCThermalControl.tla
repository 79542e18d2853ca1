-------------------------- MODULE MCThermalControl --------------------------
EXTENDS ThermalControl

OneZoneInDegrees == {"gpu"}
\* The temperatures of a line cut short, and all of them.
SomeLines == {{"cpu"}, {"cpu", "gpu"}}
=============================================================================
