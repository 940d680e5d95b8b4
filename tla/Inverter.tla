------------------------------ MODULE Inverter ------------------------------
(***************************************************************************)
(* The state every driver shares with the D-Bus helper: the attributes of  *)
(* class Inverter (inverter.py) that change while the driver runs and that *)
(* dbushelper.py decides on.  The measured values are variables of the     *)
(* driver that reads them.                                                 *)
(*                                                                         *)
(* A measured value is abstracted to where it came from, which is what     *)
(* "fresh and consistent" (dbushelper.py) is about:                        *)
(*   "unset"  None, never assigned                                         *)
(*   "const"  a constant the driver assigned (0.0)                         *)
(*   "fresh"  read from the device since the current poll began            *)
(*   "stale"  read from the device before the current poll began           *)
(***************************************************************************)
CONSTANTS
  Phase,   \* the keys 'L1', 'L2', 'L3' of energy_data
  None     \* Python's None

VARIABLES
  status,       \* self.status
  powerLimit,   \* energy_data['overall']['power_limit'], watts or None
  activeLimit,  \* energy_data['overall']['active_power_limit'], likewise
  online        \* self.online

inverterVars == <<status, powerLimit, activeLimit, online>>

Origin == {"unset", "const", "fresh", "stale"}
OverallField == {"ac_power", "energy_forwarded"}
PhaseField == {"ac_voltage", "ac_current", "ac_power", "energy_forwarded"}

\* energy_data as Inverter.__init__ leaves it.
NoOverall == [f \in OverallField |-> "unset"]
NoPhases == [p \in Phase |-> [f \in PhaseField |-> "unset"]]

\* What a value read earlier is worth once a new poll begins.
Age(origin) == IF origin = "fresh" THEN "stale" ELSE origin

\* The other attributes of an inverter object that does not exist yet, and
\* of one that is gone with its process.
InverterInit ==
  /\ status = None
  /\ powerLimit = None
  /\ activeLimit = None
  /\ online = TRUE

DropInverter ==
  /\ status' = None
  /\ powerLimit' = None
  /\ activeLimit' = None
  /\ online' = TRUE
=============================================================================
