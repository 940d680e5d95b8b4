-------------------------------- MODULE Samlex --------------------------------
(***************************************************************************)
(* samlex.py and samlex_tcp.py: the driver of Samlex EVO inverter/chargers,*)
(* one group of registers at a time, over a serial line or a TCP socket;   *)
(* and the device at the other end (external).                             *)
(*                                                                         *)
(* The values kept are those another value is computed from: the signed    *)
(* power of the AC output, the apparent power of the AC input, the AC      *)
(* connection, the fault and the charge stage, in whole watts.  The others *)
(* of a group stand in `readings', by where they came from.                *)
(***************************************************************************)
EXTENDS Inverter, Integers

CONSTANTS
  Transport,   \* "rtu" (Samlex) or "tcp" (SamlexTCP with a tcp:// port)
  Situations   \* what the device may be doing

Word == 65536       \* a Modbus register
MaxInt16 == 32767   \* the largest value of a signed one

Group == {"ac_out", "dc", "ac_in", "status"}

\* mode: the working status (0 power save, 1 AC normal, 2 AC abnormal, 3
\* inverting, 4 fault); fault and charge: the registers of these names;
\* load: what the AC loads draw; charger: what the charger takes from the AC
\* input, as far as a register can say.
Situation ==
  [mode : 0 .. 4, fault : Nat, charge : Nat,
   load : 0 .. MaxInt16, charger : 0 .. MaxInt16]

ASSUME SamlexAssumption ==
  /\ Transport \in {"rtu", "tcp"}
  /\ Situations \subseteq Situation
  /\ None \notin Int

VARIABLES
  readings,     \* for each group, the origin of what energy_data has of it
  acPower,      \* energy_data['L1']['ac_power']
  gridVA,       \* energy_data['ac_in']: voltage times current
  connected,    \* energy_data['ac_in']['connected']
  chargeState,  \* energy_data['dc']['charge_state']
  batch,        \* read_status_data: the next group, 0 not running, 5 done
  acOut,        \* its local ac_out: the first group was read
  error,        \* its local error
  socket,       \* the connection: "closed", "open", "shut" by the server
  noResponse,   \* the unit is in _no_response_devices: read to the end
  link,         \* the cable or network, and the device's power
  situation     \* what the device is doing

readVars == <<readings, acPower, gridVA, connected, chargeState>>
localVars == <<batch, acOut, error>>
clientVars == <<socket, noResponse>>
deviceVars == <<link, situation>>

\* What _VEBUS_STATE_FROM_CHARGE and _CHARGE_STATE_MAP (samlex.py) may give.
State == {2, 4, 5, 7, 8, 9}
ChargeState == {0, 2, 3, 5, 9}

SamlexTypeOK ==
  /\ readings \in [Group -> Origin]
  /\ acPower \in Int \cup {None}
  /\ gridVA \in Int \cup {None}
  /\ connected \in {0, 1, None}
  /\ chargeState \in ChargeState \cup {None}
  /\ status \in State \cup {None}
  /\ batch \in 0 .. 5
  /\ acOut \in BOOLEAN
  /\ error \in BOOLEAN
  /\ socket \in {"closed", "open"} \cup (IF Transport = "tcp" THEN {"shut"} ELSE {})
  /\ noResponse \in BOOLEAN
  /\ link \in {"up", "down", "flaky"}
  /\ situation \in Situations

SamlexInit ==
  /\ readings = [g \in Group |-> "unset"]
  /\ acPower = None
  /\ gridVA = None
  /\ connected = None
  /\ chargeState = None
  /\ batch = 0
  /\ acOut = FALSE
  /\ error = FALSE
  /\ socket = "closed"
  /\ noResponse = FALSE

DropSamlex ==
  /\ readings' = [g \in Group |-> "unset"]
  /\ acPower' = None
  /\ gridVA' = None
  /\ connected' = None
  /\ chargeState' = None
  /\ batch' = 0
  /\ acOut' = FALSE
  /\ error' = FALSE
  /\ socket' = "closed"
  /\ noResponse' = FALSE

-----------------------------------------------------------------------------
\* The device.  With AC at its input a transfer switch feeds the loads past
\* the output's sensor, which then shows what the charger takes, negated.
Connected(s) == s.mode \in {1, 2}

AcOutRegister(s) ==
  (IF Connected(s) THEN -s.charger ELSE IF s.mode = 3 THEN s.load ELSE 0) % Word

GridVA(s) == IF Connected(s) THEN s.load + s.charger ELSE 0

\* Mutant of Answered: a unit that answers again is not taken off the list.
StaysSilent ==
  /\ link # "down"
  /\ socket # "shut"
  /\ socket' = "open"
  /\ noResponse' = noResponse

\* A request that delivers its registers; one on a closed socket connects.
Answered ==
  /\ link # "down"
  /\ socket # "shut"
  /\ socket' = "open"
  /\ noResponse' = FALSE

\* A request that delivers none: there is no connection, the request or its
\* answer is lost or cut short or the connection is reset, which closes the
\* socket; or the answer is an error.  Nothing is tried a second time.  A unit
\* that sent nothing is remembered, until it sends at least a header.
Failed ==
  \/ link = "down" /\ socket' = "closed" /\ noResponse' \in {noResponse, TRUE}
  \/ link = "flaky" /\ socket' = "closed" /\ noResponse' \in BOOLEAN
  \/ /\ link = "flaky" /\ socket # "shut"
     /\ socket' = "open" /\ noResponse' \in {noResponse, FALSE}
  \/ socket = "shut" /\ socket' = "closed" /\ noResponse' = TRUE

\* A request on a connection the server has closed: ConnectionException.
RaisedByClose ==
  /\ socket = "shut"
  /\ socket' = "closed"
  /\ noResponse' = noResponse

\* From a unit that sent nothing before, a client for TCP takes whatever there
\* is, and the framer decodes less than eight bytes as if they were a message:
\* InvalidMessageReceivedException if they look like one.  (If they do not, the
\* request has Failed.)
RaisedByCut ==
  /\ Transport = "tcp"
  /\ link = "flaky"
  /\ socket # "shut"
  /\ noResponse
  /\ socket' = "open"
  /\ noResponse' = TRUE

\* Neither exception is caught by execute() or by _read_group().
Raised == RaisedByClose \/ RaisedByCut

\* A register whose value is signed.
ToInt16(value) == IF value > MaxInt16 THEN value - Word ELSE value

\* What the loads draw, from the apparent power of the input and the signed
\* power of the output.
LoadPower(va, power) ==
  LET load == (IF va = None THEN 0 ELSE va) + power
  IN IF power >= 0 THEN power ELSE IF load > 0 THEN load ELSE 0

-----------------------------------------------------------------------------
\* get_settings(): no power limit, and always True.
GetSettings ==
  /\ powerLimit' = None
  /\ activeLimit' = None

\* read_status_data() is called; all it knows is from earlier polls.
BeginRefresh ==
  /\ batch' = 1
  /\ acOut' = FALSE
  /\ error' = FALSE
  /\ readings' = [g \in Group |-> Age(readings[g])]
  /\ UNCHANGED <<acPower, gridVA, connected, chargeState, clientVars, deviceVars>>

\* The origins after a request for group g: a failed one leaves what was read
\* before.
After(g, ok) == IF ok THEN [readings EXCEPT ![g] = "fresh"] ELSE readings

\* The first group: what the output's sensor shows.
ReadAcOut(ok) ==
  /\ batch = 1
  /\ batch' = 2
  /\ error' = ~ok
  /\ acOut' = ok
  /\ readings' = After("ac_out", ok)
  /\ acPower' = IF ok THEN ToInt16(AcOutRegister(situation)) ELSE acPower
  /\ UNCHANGED <<gridVA, connected, chargeState, status>>

\* Mutant of ReadDc: a failed group is no error.
DcErrorIgnored(ok) ==
  /\ batch = 2
  /\ batch' = 3
  /\ error' = error
  /\ readings' = After("dc", ok)
  /\ UNCHANGED <<acPower, gridVA, connected, chargeState, acOut, status>>

\* The second group: the battery, with its state of charge if configured.
ReadDc(ok) ==
  /\ batch = 2
  /\ batch' = 3
  /\ error' = (error \/ ~ok)
  /\ readings' = After("dc", ok)
  /\ UNCHANGED <<acPower, gridVA, connected, chargeState, acOut, status>>

\* Mutant of ReadAcIn: the load is computed from the input of the last poll.
LoadBeforeInput(ok) ==
  /\ batch = 3
  /\ batch' = 4
  /\ error' = (error \/ ~ok)
  /\ readings' = After("ac_in", ok)
  /\ gridVA' = IF ok THEN GridVA(situation) ELSE gridVA
  /\ connected' = IF ok THEN (IF Connected(situation) THEN 1 ELSE 0)
                        ELSE connected
  /\ acPower' = IF acOut THEN LoadPower(gridVA, acPower) ELSE acPower
  /\ UNCHANGED <<chargeState, acOut, status>>

\* The third group, and then the power of the loads, which needs the first.
ReadAcIn(ok) ==
  /\ batch = 3
  /\ batch' = 4
  /\ error' = (error \/ ~ok)
  /\ readings' = After("ac_in", ok)
  /\ gridVA' = IF ok THEN GridVA(situation) ELSE gridVA
  /\ connected' = IF ok THEN (IF Connected(situation) THEN 1 ELSE 0)
                        ELSE connected
  /\ acPower' = IF acOut THEN LoadPower(gridVA', acPower) ELSE acPower
  /\ UNCHANGED <<chargeState, acOut, status>>

\* _VEBUS_STATE_FROM_CHARGE; a stage it does not know is taken as inverting.
StateFromCharge(stage) ==
  IF stage \in {0, 4, 5} THEN 8
  ELSE IF stage = 1 THEN 7
  ELSE IF stage = 2 THEN 4
  ELSE IF stage = 3 THEN 5 ELSE 9

\* Mutant of StateOf: the charge stage comes before the AC input.
StageFirst(fault, conn, stage) ==
  IF fault # 0 THEN 2
  ELSE IF stage \in 0 .. 5 THEN StateFromCharge(stage) ELSE 9

\* /State: a fault, then no AC input, then the stage of the charger.
StateOf(fault, conn, stage) ==
  IF fault # 0 THEN 2 ELSE IF conn # 1 THEN 9 ELSE StateFromCharge(stage)

\* _CHARGE_STATE_MAP; a stage it does not know is shown as idle.
ChargeStateOf(stage) ==
  IF stage = 1 THEN 5 ELSE IF stage \in {2, 3, 9} THEN stage ELSE 0

\* Mutant of ReadStatus: a failed group is no error.
StatusErrorIgnored(ok) ==
  /\ batch = 4
  /\ batch' = 5
  /\ error' = error
  /\ readings' = After("status", ok)
  /\ chargeState' = IF ok THEN ChargeStateOf(situation.charge) ELSE chargeState
  /\ status' = IF ok THEN StateOf(situation.fault, connected, situation.charge)
                     ELSE 2
  /\ UNCHANGED <<acPower, gridVA, connected, acOut>>

\* The fourth group: /State from the fault, the charge stage and what the
\* third group, of this poll or of an earlier one, said of the AC input; a
\* fault (2) if it cannot be read.
ReadStatus(ok) ==
  /\ batch = 4
  /\ batch' = 5
  /\ error' = (error \/ ~ok)
  /\ readings' = After("status", ok)
  /\ chargeState' = IF ok THEN ChargeStateOf(situation.charge) ELSE chargeState
  /\ status' = IF ok THEN StateOf(situation.fault, connected, situation.charge)
                     ELSE 2
  /\ UNCHANGED <<acPower, gridVA, connected, acOut>>

\* One group of read_status_data(); a failed one does not stop the others.
ReadGroup ==
  /\ \E ok \in BOOLEAN :
       /\ IF ok THEN Answered ELSE Failed
       /\ \/ ReadAcOut(ok)
          \/ ReadDc(ok)
          \/ ReadAcIn(ok)
          \/ ReadStatus(ok)
  /\ UNCHANGED <<powerLimit, activeLimit, online, deviceVars>>

\* read_status_data() ends, by its return or by an exception.
EndRefresh ==
  /\ batch' = 0
  /\ acOut' = FALSE
  /\ error' = FALSE
  /\ UNCHANGED <<readVars, deviceVars>>

-----------------------------------------------------------------------------
\* The cable is pulled, noise comes and goes, the device is switched off.
ChangeLink ==
  /\ link' \in {"up", "down", "flaky"} \ {link}
  /\ UNCHANGED <<clientVars, situation>>

\* Shore power comes or goes, the charger moves on, a fault appears.
ChangeSituation ==
  /\ situation' \in Situations \ {situation}
  /\ UNCHANGED <<clientVars, link>>

\* The gateway closes the connection: it restarts, or drops an idle client.
ServerCloses ==
  /\ Transport = "tcp"
  /\ socket = "open"
  /\ link # "down"
  /\ socket' = "shut"
  /\ UNCHANGED <<noResponse, deviceVars>>
=============================================================================
