--------------------------- MODULE InverterService ---------------------------
(***************************************************************************)
(* What the service of an inverter promises the other processes on the     *)
(* D-Bus of a GX device, and nothing of how the driver keeps it:           *)
(*   - the paths show the values they were created with until the first    *)
(*     complete set of measurements, then one such set after another;      *)
(*   - every set comes with the next /UpdateIndex, and only a set does;    *)
(*   - the power limit changes by itself, with nothing else, and at any    *)
(*     time: whose request it is, the promise does not say;                *)
(*   - all of it disappears with the service.                              *)
(* Some drivers announce a limit they could not read: the service may      *)
(* appear with none.                                                       *)
(***************************************************************************)
EXTENDS Integers

CONSTANTS
  Limits,     \* the limits the service may show
  None,       \* no limit: there is no service, or it could not be read
  IndexMax    \* the largest /UpdateIndex, a natural number

VARIABLES
  up,      \* the service is on the bus
  data,    \* "none", "initial", or "measured": what its paths show
  index,   \* /UpdateIndex
  limit    \* /Ac/PowerLimit

serviceVars == <<up, data, index, limit>>

Absent == up = FALSE /\ data = "none" /\ index = 0 /\ limit = None

Init == Absent

Appear ==
  /\ ~up
  /\ up' = TRUE
  /\ data' = "initial"
  /\ index' = 0
  /\ limit' \in Limits

\* A complete set of measurements replaces what was shown.
Update ==
  /\ up
  /\ data' = "measured"
  /\ index' = (index + 1) % (IndexMax + 1)
  /\ UNCHANGED <<up, limit>>

SetLimit ==
  /\ up
  /\ limit' \in Limits
  /\ UNCHANGED <<up, data, index>>

Vanish ==
  /\ up
  /\ up' = FALSE
  /\ data' = "none"
  /\ index' = 0
  /\ limit' = None

Next == Appear \/ Update \/ SetLimit \/ Vanish

Spec == Init /\ [][Next]_serviceVars
=============================================================================
