----------------------------- MODULE SamlexTruth -----------------------------
(***************************************************************************)
(* SamlexService with a history variable: what the device has been doing   *)
(* since the poll began.  The driver reads it in four requests, between    *)
(* which it may change; what is published can be asked to be true of the   *)
(* device only for the time the poll took.                                 *)
(***************************************************************************)
EXTENDS SamlexService

VARIABLE seen   \* the situations of the device since the poll began

truthVars == <<vars, seen>>

PollBegins == step = "idle" /\ step' = "refresh"
Published == step = "publish" /\ step' = "idle" /\ proc' = "running"

TruthInit == Init /\ seen = {}

TruthNext ==
  /\ Next
  /\ seen' = IF PollBegins THEN {situation'}
             ELSE IF step = "refresh" /\ proc' = "running" THEN seen \cup {situation'}
             ELSE IF step' = "idle" THEN {} ELSE seen

TruthSpec == TruthInit /\ [][TruthNext]_truthVars

-----------------------------------------------------------------------------
\* What a client should be shown of a device that stays in situation s.  (With
\* AC at the input and the charger idle the output's sensor shows nothing, and
\* the driver has no other source: the load is then left open.)
TrueState(s) ==
  IF s.fault # 0 THEN 2
  ELSE IF ~Connected(s) THEN 9 ELSE StateFromCharge(s.charge)

TrueLoad(s) == IF s.mode \in {1, 2, 3} THEN s.load ELSE 0

Shows(values, s) ==
  /\ values.state = TrueState(s)
  /\ (Connected(s) => s.charger > 0) => values.load = TrueLoad(s)
  /\ values.gridVA = GridVA(s)
  /\ values.connected = 1 <=> Connected(s)
  /\ values.chargeState = ChargeStateOf(s.charge)

\* Of a device that did not change during the poll, what is published is true:
\* the load too, which no register holds and which is made of readings of two
\* groups, one of them negative.
SteadyIsTrue ==
  [][Published => \A s \in seen : seen = {s} => Shows(bus', s)]_truthVars

\* A fault that is published was one: the 2 that stands for a failed request
\* stays inside the driver.
FaultIsReal ==
  [][Published /\ bus'.state = 2 => \E s \in seen : s.fault # 0]_truthVars
=============================================================================
