-------------------------- MODULE MCSamlexService --------------------------
(***************************************************************************)
(* Small instances of SamlexService for TLC: a Samlex EVO in a few of its  *)
(* situations, and small failure counts.                                   *)
(***************************************************************************)
EXTENDS SamlexService

\* AC at the input, 300 W of loads, and a charger in absorption.
Charging == [mode |-> 1, fault |-> 0, charge |-> 2, load |-> 300, charger |-> 200]

\* On the battery.
Inverting == [mode |-> 3, fault |-> 0, charge |-> 9, load |-> 300, charger |-> 0]

\* A fault has stopped it.
Stopped == [mode |-> 4, fault |-> 1, charge |-> 0, load |-> 0, charger |-> 0]

\* AC at the input out of its limits and reported as a fault, the charger idle
\* in a stage no document names.
Abnormal == [mode |-> 2, fault |-> 2, charge |-> 6, load |-> 100, charger |-> 0]

\* The vebus service shows one phase, kept in `readings'.
NoPhase == {}

StopsAndStarts == {Charging, Inverting, Stopped}
ComesAndGoes == {Charging, Inverting, Abnormal}
=============================================================================
