-------------------------------- MODULE Solis --------------------------------
(***************************************************************************)
(* solis.py: the driver of Solis grid-tie inverters, one Modbus batch at a *)
(* time, and the inverter at the other end of the cable as far as the      *)
(* driver can tell it (external).                                          *)
(*                                                                         *)
(* A batch either delivers its registers, or fails ((False, []): no        *)
(* connection, an error, a timeout, too few registers), or raises: an      *)
(* answer of another type has no registers attribute.                      *)
(***************************************************************************)
EXTENDS Inverter, PowerLimit

CONSTANTS
  InverterPhase,  \* INVERTER_PHASE: where a single-phase inverter is shown
  OutputType,     \* register 3002 of the device: 0 is single-phase
  StatusRegs,     \* values of register 3043
  LimitRegs,      \* values register 3049 may hold before the driver starts
  PanelRegs       \* values others give it while the driver runs

ASSUME SolisAssumption ==
  /\ InverterPhase \in Phase
  /\ OutputType \in Nat
  /\ StatusRegs \subseteq Nat
  /\ LimitRegs \subseteq LimitRegister
  /\ PanelRegs \subseteq LimitRegister

VARIABLES
  overall,     \* energy_data['overall']: ac_power and energy_forwarded
  phase,       \* energy_data['L1'..'L3']
  batch,       \* read_status_data: the next batch, 0 not running, 6 done
  outputType,  \* its local output_type
  error,       \* its local error
  link,        \* the device and its cable: "up", "down" or "flaky"
  limitReg     \* the device's register 3049

driverVars == <<overall, phase, batch, outputType, error>>
deviceVars == <<link, limitReg>>

\* The codes batch 4 assigns; None before the first poll.
Status == {0, 1, 2, 7, 8, 10}

SolisTypeOK ==
  /\ overall \in [OverallField -> Origin]
  /\ phase \in [Phase -> [PhaseField -> Origin]]
  /\ status \in Status \cup {None}
  /\ batch \in 0 .. 6
  /\ outputType \in {0, OutputType}
  /\ error \in BOOLEAN
  /\ link \in {"up", "down", "flaky"}
  /\ limitReg \in LimitRegister

SolisInit ==
  /\ overall = NoOverall
  /\ phase = NoPhases
  /\ batch = 0
  /\ outputType = 0
  /\ error = FALSE

DropSolis ==
  /\ overall' = NoOverall
  /\ phase' = NoPhases
  /\ batch' = 0
  /\ outputType' = 0
  /\ error' = FALSE

-----------------------------------------------------------------------------
\* Whether a request may be answered, or may be not.
MayAnswer(ok) == IF ok THEN link # "down" ELSE link # "up"

\* Mutant of GetSettings: only the active limit is kept.
RequestNotInitialised(limitRead) ==
  /\ MayAnswer(TRUE)
  /\ MayAnswer(limitRead)
  /\ powerLimit' = None
  /\ activeLimit' = IF limitRead THEN WattsOf(PctOfRegister(limitReg)) ELSE None

\* get_settings(): the serial number was read, else the driver exits.  A
\* limit that cannot be read leaves both limits None, and is no failure.
GetSettings(limitRead) ==
  /\ MayAnswer(TRUE)
  /\ MayAnswer(limitRead)
  /\ powerLimit' = IF limitRead THEN WattsOf(PctOfRegister(limitReg)) ELSE None
  /\ activeLimit' = powerLimit'

\* read_status_data() is called; all it knows is from earlier polls.
BeginRefresh ==
  /\ batch' = 1
  /\ error' = FALSE
  /\ overall' = [f \in OverallField |-> Age(overall[f])]
  /\ phase' = [p \in Phase |-> [f \in PhaseField |-> Age(phase[p][f])]]
  /\ UNCHANGED <<outputType, deviceVars>>

\* Mutant of ReadPower: a failed batch 1 is no error.
PowerErrorIgnored(ok) ==
  /\ batch = 1
  /\ batch' = 2
  /\ outputType' = IF ok THEN OutputType ELSE 0
  /\ overall' = IF ok THEN [overall EXCEPT !["ac_power"] = "fresh"]
                      ELSE overall
  /\ UNCHANGED <<phase, error, status, activeLimit>>

\* Batch 1, registers 3002-3005: output type and total power.
ReadPower(ok) ==
  /\ batch = 1
  /\ batch' = 2
  /\ error' = IF ok THEN error ELSE TRUE
  /\ outputType' = IF ok THEN OutputType ELSE 0
  /\ overall' = IF ok THEN [overall EXCEPT !["ac_power"] = "fresh"]
                      ELSE overall
  /\ UNCHANGED <<phase, status, activeLimit>>

\* Batch 2, register 3014: total energy.
ReadEnergy(ok) ==
  /\ batch = 2
  /\ batch' = 3
  /\ error' = IF ok THEN error ELSE TRUE
  /\ overall' = IF ok THEN [overall EXCEPT !["energy_forwarded"] = "fresh"]
                      ELSE overall
  /\ UNCHANGED <<phase, outputType, status, activeLimit>>

\* The phases of a single-phase inverter: zeros, but for its own phase.
SinglePhase(ok) ==
  [p \in Phase |-> [f \in PhaseField |->
    IF p # InverterPhase THEN "const"
    ELSE IF f \in OverallField THEN overall[f]
    ELSE IF ok THEN "fresh" ELSE "const"]]

\* The phases of a three-phase inverter: ac_power is not touched.
ThreePhase(ok) ==
  [p \in Phase |-> [f \in PhaseField |->
    IF f = "energy_forwarded" THEN "unset"
    ELSE IF f # "ac_power" /\ ok THEN "fresh" ELSE phase[p][f]]]

\* Mutant of ReadPhases: a failed batch 3 forgets the errors before it.
PhasesResetError(ok) ==
  /\ batch = 3
  /\ batch' = 4
  /\ error' = FALSE
  /\ phase' = IF outputType = 0 THEN SinglePhase(ok) ELSE ThreePhase(ok)
  /\ UNCHANGED <<overall, outputType, status, activeLimit>>

\* Batch 3, registers 3035-3038 or 3033-3038: voltages and currents.  Which
\* of the two depends on what batch 1 found, and a failed batch 1 is read as
\* a single-phase inverter.
ReadPhases(ok) ==
  /\ batch = 3
  /\ batch' = 4
  /\ error' = IF ok THEN error ELSE TRUE
  /\ phase' = IF outputType = 0 THEN SinglePhase(ok) ELSE ThreePhase(ok)
  /\ UNCHANGED <<overall, outputType, status, activeLimit>>

StatusOf(reg) == IF reg \in 0 .. 2 THEN reg ELSE IF reg = 3 THEN 7 ELSE 10

\* Batch 4, register 3043: the status; 8 (Off) if it cannot be read.
ReadStatus(ok) ==
  /\ batch = 4
  /\ batch' = 5
  /\ error' = IF ok THEN error ELSE TRUE
  /\ status' \in IF ok THEN {StatusOf(reg) : reg \in StatusRegs} ELSE {8}
  /\ UNCHANGED <<overall, phase, outputType, activeLimit>>

\* Mutant of ReadLimit: int() where get_settings() rounds.
LimitTruncated(ok) ==
  /\ batch = 5
  /\ batch' = 6
  /\ error' = IF ok THEN error ELSE TRUE
  /\ activeLimit' = IF ok THEN WattsOf(limitReg \div 100) ELSE activeLimit
  /\ UNCHANGED <<overall, phase, outputType, status>>

\* Mutant of ReadLimit: the limit is read once and kept.
LimitReadOnce(ok) ==
  /\ batch = 5
  /\ batch' = 6
  /\ error' = IF ok THEN error ELSE TRUE
  /\ activeLimit' = IF ok /\ activeLimit = None
                      THEN WattsOf(PctOfRegister(limitReg)) ELSE activeLimit
  /\ UNCHANGED <<overall, phase, outputType, status>>

\* Batch 5, register 3049: the limit the inverter obeys now.
ReadLimit(ok) ==
  /\ batch = 5
  /\ batch' = 6
  /\ error' = IF ok THEN error ELSE TRUE
  /\ activeLimit' = IF ok THEN WattsOf(PctOfRegister(limitReg))
                          ELSE activeLimit
  /\ UNCHANGED <<overall, phase, outputType, status>>

\* One batch of read_status_data(); a failed one does not stop the others.
ReadBatch ==
  /\ \E ok \in BOOLEAN :
       /\ MayAnswer(ok)
       /\ \/ ReadPower(ok)
          \/ ReadEnergy(ok)
          \/ ReadPhases(ok)
          \/ ReadStatus(ok)
          \/ ReadLimit(ok)
  /\ UNCHANGED <<powerLimit, online, deviceVars>>

\* read_status_data() ends, by its return or by an exception.
EndRefresh ==
  /\ batch' = 0
  /\ outputType' = 0
  /\ error' = FALSE
  /\ UNCHANGED <<overall, phase, deviceVars>>

\* Mutant of ApplyPowerLimit: whole percents for hundredths.
WritesWholePercents ==
  /\ powerLimit # None
  /\ \/ link # "down" /\ limitReg' = PctOfWatts(powerLimit)
     \/ link # "up" /\ UNCHANGED limitReg
  /\ UNCHANGED <<driverVars, link>>

\* apply_power_limit(): the request reaches the inverter, whether or not the
\* answer comes back, or it does not.
ApplyPowerLimit ==
  /\ powerLimit # None
  /\ \/ link # "down" /\ limitReg' = RegisterOfWatts(powerLimit)
     \/ link # "up" /\ UNCHANGED limitReg
  /\ UNCHANGED <<driverVars, link>>

-----------------------------------------------------------------------------
\* The cable is pulled, the sun sets, noise comes and goes.
ChangeLink ==
  /\ link' \in {"up", "down", "flaky"} \ {link}
  /\ UNCHANGED limitReg

\* The limit is changed at the inverter's own panel, or by another master.
ChangeLimit ==
  /\ limitReg' \in PanelRegs \ {limitReg}
  /\ UNCHANGED link
=============================================================================
