---------------------------- MODULE SolisProofs -----------------------------
(***************************************************************************)
(* Proofs about the program with a Solis, for every phase configured,      *)
(* every limit, request, status and count of failures, every rated power   *)
(* and inexact float product: what the power limit arithmetic of           *)
(* PowerLimit does; what the steps of the composed program keep; and what  *)
(* the service promises its clients.  On a single-phase inverter it never  *)
(* shows a value of an earlier poll beside those of a later one, and       *)
(* implements the abstract service InverterService.  What it shows is      *)
(* never older than the count of failures allows.  Until somebody asks for *)
(* another limit the driver leaves register 3049 alone.                    *)
(***************************************************************************)
EXTENDS SolisHistory, TLAPS

\* Division with remainder, in the form the lemmas below use it.
LEMMA Division ==
  ASSUME NEW n \in Int, NEW d \in Nat \ {0}
  PROVE  /\ n \div d \in Int
         /\ n % d \in 0 .. d - 1
         /\ n = d * (n \div d) + (n % d)
<1>1. n \div d \in Int /\ n % d \in 0 .. d - 1
  OBVIOUS
<1>2. n = d * (n \div d) + (n % d)
  BY Z3
<1> QED
  BY <1>1, <1>2

\* round() returns an integer no more than half a divisor away.
LEMMA RoundIsNear ==
  ASSUME NEW n \in Int, NEW d \in Nat \ {0}
  PROVE  /\ RoundHalfEven(n, d) \in Int
         /\ 2 * (d * RoundHalfEven(n, d)) - 2 * n \in -d .. d
<1> DEFINE q == n \div d
           r == n % d
<1>1. q \in Int /\ r \in 0 .. d - 1 /\ n = d * q + r
  BY Division
<1>2. d * (q + 1) = d * q + d /\ d * q \in Int
  BY <1>1
<1>3. \/ RoundHalfEven(n, d) = q /\ 2 * r <= d
      \/ RoundHalfEven(n, d) = q + 1 /\ 2 * r >= d
  BY <1>1 DEF RoundHalfEven
<1> HIDE DEF q, r
<1>4. CASE RoundHalfEven(n, d) = q /\ 2 * r <= d
  BY <1>1, <1>2, <1>4
<1>5. CASE RoundHalfEven(n, d) = q + 1 /\ 2 * r >= d
  BY <1>1, <1>2, <1>5
<1> QED
  BY <1>3, <1>4, <1>5

LEMMA ProductMonotone ==
  ASSUME NEW d \in Nat, NEW a \in Int, NEW b \in Int, a <= b
  PROVE  /\ d * a \in Int
         /\ d * b \in Int
         /\ d * a <= d * b
<1>1. PICK c \in Nat : b = a + c
  BY b - a \in Nat
<1>2. d * (a + c) = d * a + d * c /\ d * c \in Nat /\ d * a \in Int
  OBVIOUS
<1> QED
  BY <1>1, <1>2

\* One percent is at least ten milliwatts, so that the single step by which
\* the float product may miss is far from half a percent.
LEMMA PctStepType == PctStep \in Nat /\ PctStep >= 10
  BY MaxAcPowerAssumption DEF PctStep

LEMMA WattsOfType ==
  ASSUME NEW pct \in 0 .. 100
  PROVE  /\ WattsOf(pct) \in Int
         /\ WattsOf(pct) - PctStep * pct \in -1 .. 0
<1>1. PctStep * pct \in Int
  BY PctStepType
<1> QED
  BY <1>1 DEF WattsOf

\* A percent turned into watts and back by apply_power_limit() is the same
\* percent, for every rated power and wherever the float product misses: the
\* limit the service shows can be written back without moving the inverter.
THEOREM ReadBack ==
  ASSUME NEW pct \in 0 .. 100
  PROVE  PctOfWatts(WattsOf(pct)) = pct
<1> DEFINE w == WattsOf(pct)
           k == RoundHalfEven(w, PctStep)
<1>1. w \in Int /\ w - PctStep * pct \in -1 .. 0 /\ PctStep * pct \in Int
  <2>1. w \in Int /\ w - PctStep * pct \in -1 .. 0
    BY WattsOfType
  <2> QED
    BY <2>1, PctStepType
<1>2. k \in Int /\ 2 * (PctStep * k) - 2 * w \in -PctStep .. PctStep
  BY <1>1, RoundIsNear, PctStepType
<1> HIDE DEF w, k
<1>3. ~ (k >= pct + 1)
  <2> SUFFICES ASSUME k >= pct + 1
               PROVE  FALSE
    OBVIOUS
  <2>1. PctStep * (pct + 1) <= PctStep * k /\ PctStep * k \in Int
    BY <1>2, ProductMonotone, PctStepType
  <2>2. PctStep * (pct + 1) = PctStep * pct + PctStep
    BY PctStepType
  <2> QED
    BY <1>1, <1>2, <2>1, <2>2, PctStepType
<1>4. ~ (k <= pct - 1)
  <2> SUFFICES ASSUME k <= pct - 1
               PROVE  FALSE
    OBVIOUS
  <2>1. PctStep * k <= PctStep * (pct - 1) /\ PctStep * k \in Int
    BY <1>2, ProductMonotone, PctStepType
  <2>2. PctStep * (pct - 1) = PctStep * pct - PctStep
    BY PctStepType
  <2> QED
    BY <1>1, <1>2, <2>1, <2>2, PctStepType
<1>5. k = pct
  BY <1>2, <1>3, <1>4
<1> QED
  BY <1>5 DEF PctOfWatts, w, k

\* What apply_power_limit() writes is a percent from 0 to 100, and no other
\* percent is nearer to the request: for every request, every rated power.
THEOREM EveryRequestNearest ==
  ASSUME NEW watts \in Int
  PROVE  PctOfWatts(watts) \in 0 .. 100 /\ IsNearest(PctOfWatts(watts), watts)
<1> DEFINE k == RoundHalfEven(watts, PctStep)
           p == PctOfWatts(watts)
<1>1. k \in Int /\ 2 * (PctStep * k) - 2 * watts \in -PctStep .. PctStep
  BY RoundIsNear, PctStepType
<1>2. p = IF k < 0 THEN 0 ELSE IF k > 100 THEN 100 ELSE k
  BY DEF PctOfWatts
<1> HIDE DEF k, p
<1>3. p \in 0 .. 100
  BY <1>1, <1>2
<1>4. ASSUME NEW other \in 0 .. 100
      PROVE  Distance(p * PctStep, watts) <= Distance(other * PctStep, watts)
  <2> DEFINE P == PctStep * p
             O == PctStep * other
             K == PctStep * k
  <2>1. P \in Int /\ O \in Int /\ K \in Int /\ p * PctStep = P /\ other * PctStep = O
    BY <1>1, <1>3, PctStepType
  <2>2. CASE other = p
    BY <2>1, <2>2 DEF Distance
  <2>3. CASE other > p
    <3>1. P + PctStep <= O
      <4>1. PctStep * (p + 1) <= PctStep * other
        BY <1>3, <2>3, ProductMonotone, PctStepType
      <4> QED
        BY <1>3, <4>1, PctStepType
    <3>2. k <= p
      BY <1>1, <1>2, <1>3, <2>3
    <3>3. K <= P
      BY <1>1, <1>3, <3>2, ProductMonotone, PctStepType
    <3>4. P <= watts => K = P
      BY <1>1, <1>2, <1>3, <2>1, <3>3, PctStepType
    <3> QED
      BY <1>1, <2>1, <3>1, <3>3, <3>4, PctStepType DEF Distance
  <2>4. CASE other < p
    <3>1. O + PctStep <= P
      <4>1. PctStep * other <= PctStep * (p - 1)
        BY <1>3, <2>4, ProductMonotone, PctStepType
      <4> QED
        BY <1>3, <4>1, PctStepType
    <3>2. k >= p
      BY <1>1, <1>2, <1>3, <2>4
    <3>3. P <= K
      BY <1>1, <1>3, <3>2, ProductMonotone, PctStepType
    <3> QED
      BY <1>1, <2>1, <3>1, <3>3, PctStepType DEF Distance
  <2> QED
    BY <1>3, <2>2, <2>3, <2>4
<1> QED
  BY <1>3, <1>4 DEF IsNearest, p

-----------------------------------------------------------------------------
LEMMA WattsOfInt ==
  ASSUME NEW pct \in Int
  PROVE  WattsOf(pct) \in Int
<1>1. PctStep * pct \in Int
  BY PctStepType
<1> QED
  BY <1>1 DEF WattsOf

\* What the driver makes of a register, and of a limit, has its type.
LEMMA LimitTypes ==
  /\ \A reg \in LimitRegister : WattsOf(PctOfRegister(reg)) \in Int
  /\ \A watts \in Int : RegisterOfWatts(watts) \in LimitRegister
<1>1. ASSUME NEW reg \in LimitRegister
      PROVE  WattsOf(PctOfRegister(reg)) \in Int
  <2>1. PctOfRegister(reg) \in Int
    BY RoundIsNear DEF PctOfRegister, LimitRegister
  <2> QED
    BY <2>1, WattsOfInt
<1>2. ASSUME NEW watts \in Int
      PROVE  RegisterOfWatts(watts) \in LimitRegister
  <2>1. PctOfWatts(watts) \in 0 .. 100
    BY EveryRequestNearest
  <2> QED
    BY <2>1 DEF RegisterOfWatts, LimitRegister
<1> QED
  BY <1>1, <1>2

TypeInv == TypeOK /\ ControlInv

-----------------------------------------------------------------------------
LEMMA InitialValuesType ==
  InitialValues \in [overall : [OverallField -> Origin],
                     phase : [Phase -> [PhaseField -> Origin]],
                     status : Status \cup {None}]
  BY DEF InitialValues, Origin, Status

LEMMA NoEnergyType ==
  /\ NoOverall \in [OverallField -> Origin]
  /\ NoPhases \in [Phase -> [PhaseField -> Origin]]
  BY DEF NoOverall, NoPhases, Origin

LEMMA InitType == Init => TypeInv
<1> SUFFICES ASSUME Init PROVE TypeInv
  OBVIOUS
<1> USE DEF Init
<1>1. HelperTypeOK
  BY CountAssumption DEF HelperInit, InverterInit, HelperTypeOK, Step
<1>2. SolisTypeOK
  <2>1. limitReg \in LimitRegister
    BY SolisAssumption
  <2>2. status \in Status \cup {None} /\ error \in BOOLEAN
    BY Zenon DEF SolisInit, InverterInit
  <2>3. batch \in 0 .. 6 /\ outputType \in {0, OutputType}
    BY DEF SolisInit
  <2> QED
    BY <2>1, <2>2, <2>3, NoEnergyType DEF SolisInit, SolisTypeOK
<1>3. powerLimit \in Limit /\ activeLimit \in Limit /\ busLimit \in Limit
  BY DEF HelperInit, InverterInit, Limit
<1>4. ControlInv
  BY CountAssumption DEF HelperInit, SolisInit, ControlInv
<1> QED
  BY <1>1, <1>2, <1>3, <1>4, InitialValuesType DEF HelperInit, TypeOK, TypeInv

LimitsTypeOK == powerLimit \in Limit /\ activeLimit \in Limit /\ busLimit \in Limit

BusTypeOK == bus \in [overall : [OverallField -> Origin],
                      phase : [Phase -> [PhaseField -> Origin]],
                      status : Status \cup {None}]

LEMMA TypeParts ==
  TypeOK <=> HelperTypeOK /\ SolisTypeOK /\ LimitsTypeOK /\ BusTypeOK
  BY DEF TypeOK, LimitsTypeOK, BusTypeOK

\* A batch leaves the energy data with its type.
LEMMA AgeType ==
  ASSUME SolisTypeOK
  PROVE  /\ [f \in OverallField |-> Age(overall[f])] \in [OverallField -> Origin]
         /\ [p \in Phase |-> [f \in PhaseField |-> Age(phase[p][f])]]
              \in [Phase -> [PhaseField -> Origin]]
  BY DEF SolisTypeOK, Age, Origin

LEMMA PhasesType ==
  ASSUME SolisTypeOK, NEW ok \in BOOLEAN
  PROVE  /\ SinglePhase(ok) \in [Phase -> [PhaseField -> Origin]]
         /\ ThreePhase(ok) \in [Phase -> [PhaseField -> Origin]]
  BY DEF SolisTypeOK, SinglePhase, ThreePhase, Origin

LEMMA OverallType ==
  ASSUME SolisTypeOK, NEW f \in OverallField
  PROVE  [overall EXCEPT ![f] = "fresh"] \in [OverallField -> Origin]
  BY DEF SolisTypeOK, Origin

\* A failed batch sets error; no batch clears it.
LEMMA ErrorType ==
  ASSUME SolisTypeOK, NEW ok \in BOOLEAN
  PROVE  (IF ok THEN error ELSE TRUE) \in BOOLEAN
<1>1. error \in BOOLEAN
  BY DEF SolisTypeOK
<1> QED
  BY <1>1, Zenon

LEMMA BatchType ==
  ASSUME TypeInv, PollBatch
  PROVE  SolisTypeOK' /\ activeLimit' \in Limit /\ batch' \in 1 .. 6
<1>1. PICK ok \in BOOLEAN : ReadPower(ok) \/ ReadEnergy(ok) \/ ReadPhases(ok)
                            \/ ReadStatus(ok) \/ ReadLimit(ok)
  BY DEF PollBatch, ReadBatch
<1>2. UNCHANGED <<powerLimit, online, link, limitReg>>
  BY DEF PollBatch, ReadBatch, deviceVars
<1>0. SolisTypeOK /\ activeLimit \in Limit
  BY DEF TypeInv, TypeOK
<1>3. CASE ReadPower(ok)
  <2>1. overall' \in [OverallField -> Origin]
    BY <1>0, <1>3, OverallType DEF ReadPower, OverallField, SolisTypeOK
  <2>2. error' \in BOOLEAN
    BY <1>0, <1>3, ErrorType DEF ReadPower
  <2>3. batch' \in 1 .. 6 /\ batch' \in 0 .. 6
    BY <1>3 DEF ReadPower
  <2>4. activeLimit' \in Limit
    BY <1>0, <1>3 DEF ReadPower
  <2> QED
    BY <1>0, <1>2, <1>3, <2>1, <2>2, <2>3, <2>4 DEF ReadPower, SolisTypeOK
<1>4. CASE ReadEnergy(ok)
  <2>1. overall' \in [OverallField -> Origin]
    BY <1>0, <1>4, OverallType DEF ReadEnergy, OverallField, SolisTypeOK
  <2>2. error' \in BOOLEAN
    BY <1>0, <1>4, ErrorType DEF ReadEnergy
  <2>3. batch' \in 1 .. 6 /\ batch' \in 0 .. 6
    BY <1>4 DEF ReadEnergy
  <2>4. activeLimit' \in Limit
    BY <1>0, <1>4 DEF ReadEnergy
  <2> QED
    BY <1>0, <1>2, <1>4, <2>1, <2>2, <2>3, <2>4 DEF ReadEnergy, SolisTypeOK
<1>5. CASE ReadPhases(ok)
  <2>1. phase' \in [Phase -> [PhaseField -> Origin]]
    BY <1>0, <1>5, PhasesType DEF ReadPhases
  <2>2. error' \in BOOLEAN
    BY <1>0, <1>5, ErrorType DEF ReadPhases
  <2>3. batch' \in 1 .. 6 /\ batch' \in 0 .. 6
    BY <1>5 DEF ReadPhases
  <2>4. activeLimit' \in Limit
    BY <1>0, <1>5 DEF ReadPhases
  <2> QED
    BY <1>0, <1>2, <1>5, <2>1, <2>2, <2>3, <2>4 DEF ReadPhases, SolisTypeOK
<1>6. CASE ReadStatus(ok)
  <2>1. status' \in Status \cup {None}
    BY <1>0, <1>6, SolisAssumption DEF ReadStatus, StatusOf, Status
  <2>2. error' \in BOOLEAN
    BY <1>0, <1>6, ErrorType DEF ReadStatus
  <2>3. batch' \in 1 .. 6 /\ batch' \in 0 .. 6
    BY <1>6 DEF ReadStatus
  <2>4. activeLimit' \in Limit
    BY <1>0, <1>6 DEF ReadStatus
  <2> QED
    BY <1>0, <1>2, <1>6, <2>1, <2>2, <2>3, <2>4 DEF ReadStatus, SolisTypeOK
<1>7. CASE ReadLimit(ok)
  <2>1. WattsOf(PctOfRegister(limitReg)) \in Int
    BY <1>0, LimitTypes DEF SolisTypeOK
  <2>2. error' \in BOOLEAN
    BY <1>0, <1>7, ErrorType DEF ReadLimit
  <2>3. batch' \in 1 .. 6 /\ batch' \in 0 .. 6
    BY <1>7 DEF ReadLimit
  <2>4. activeLimit' \in Limit
    BY <1>0, <1>7, <2>1 DEF ReadLimit, Limit
  <2> QED
    BY <1>0, <1>2, <1>7, <2>1, <2>2, <2>3, <2>4 DEF ReadLimit, SolisTypeOK
<1> QED
  BY <1>1, <1>3, <1>4, <1>5, <1>6, <1>7

LEMMA StepType == TypeInv /\ [Next]_vars => TypeInv'
<1> SUFFICES ASSUME TypeInv, [Next]_vars
             PROVE  HelperTypeOK' /\ SolisTypeOK' /\ LimitsTypeOK' /\ BusTypeOK'
                    /\ ControlInv'
  BY TypeParts DEF TypeInv, TypeOK, LimitsTypeOK, BusTypeOK
<1>0. HelperTypeOK /\ SolisTypeOK /\ LimitsTypeOK /\ BusTypeOK /\ ControlInv
  BY TypeParts DEF TypeInv
<1>1. CASE Start
  <2>1. HelperTypeOK' /\ ControlInv'
    BY <1>0, <1>1, CountAssumption
       DEF Start, SetupVedbus, HelperTypeOK, Step, ControlInv, driverVars
  <2>2. SolisTypeOK'
    BY <1>0, <1>1 DEF Start, SolisTypeOK, driverVars, deviceVars
  <2>3. LimitsTypeOK'
    <3>1. PICK limitRead \in BOOLEAN : GetSettings(limitRead)
      BY <1>1 DEF Start
    <3>2. WattsOf(PctOfRegister(limitReg)) \in Int
      BY <1>0, LimitTypes DEF SolisTypeOK
    <3> QED
      BY <1>1, <3>1, <3>2 DEF Start, GetSettings, SetupVedbus, LimitsTypeOK, Limit
  <2>4. BusTypeOK'
    BY <1>1, InitialValuesType DEF Start, SetupVedbus, BusTypeOK, InitialValues
  <2> QED
    BY <2>1, <2>2, <2>3, <2>4
<1>2. CASE BeginPoll
  <2> USE DEF BeginPoll, BeginPublish, BeginRefresh
  <2>1. HelperTypeOK' /\ ControlInv'
    BY <1>0, <1>2 DEF HelperTypeOK, Step, ControlInv
  <2>2. SolisTypeOK'
    <3>1. error' \in BOOLEAN
      BY <1>2, Zenon
    <3>2. batch' \in 0 .. 6
      BY <1>2
    <3> QED
      BY <1>0, <1>2, <3>1, <3>2, AgeType DEF SolisTypeOK, deviceVars
  <2>3. LimitsTypeOK' /\ BusTypeOK'
    BY <1>0, <1>2 DEF LimitsTypeOK, BusTypeOK, Limit
  <2> QED
    BY <2>1, <2>2, <2>3
<1>3. CASE PollBatch
  <2>1. SolisTypeOK' /\ activeLimit' \in Limit /\ batch' \in 1 .. 6
    BY <1>3, BatchType
  <2>2. UNCHANGED <<helperVars, powerLimit, online>> /\ step = "refresh"
    BY <1>3 DEF PollBatch, ReadBatch
  <2>3. HelperTypeOK' /\ LimitsTypeOK' /\ BusTypeOK'
    BY <1>0, <2>1, <2>2 DEF helperVars, HelperTypeOK, LimitsTypeOK, BusTypeOK
  <2>4. ControlInv'
    BY <1>0, <2>1, <2>2 DEF helperVars, ControlInv
  <2> QED
    BY <2>1, <2>3, <2>4
<1>4. CASE PollSucceeds
  <2> USE DEF PollSucceeds, RefreshSucceeds, EndRefresh
  <2>1. HelperTypeOK' /\ ControlInv'
    BY <1>0, <1>4, CountAssumption DEF HelperTypeOK, Step, ControlInv
  <2>2. error' \in BOOLEAN
    BY <1>4, Zenon
  <2>3. SolisTypeOK'
    BY <1>0, <1>4, <2>2 DEF SolisTypeOK, deviceVars
  <2>4. LimitsTypeOK' /\ BusTypeOK'
    BY <1>0, <1>4 DEF LimitsTypeOK, BusTypeOK
  <2> QED
    BY <2>1, <2>3, <2>4
<1>5. CASE PollFails
  <2> USE DEF PollFails, RefreshFails, EndRefresh
  <2>1. errorCount + 1 \in 0 .. QuitAfter
    BY <1>0, <1>5, CountAssumption DEF HelperTypeOK, ControlInv
  <2>2. online' \in BOOLEAN /\ error' \in BOOLEAN
    BY <1>5, Zenon
  <2>3. HelperTypeOK'
    BY <1>0, <1>5, <2>1, <2>2 DEF HelperTypeOK, Step
  <2>4. ControlInv'
    BY <1>0, <1>5, <2>1, CountAssumption DEF HelperTypeOK, ControlInv
  <2>5. SolisTypeOK'
    BY <1>0, <1>5, <2>2 DEF SolisTypeOK, deviceVars
  <2>6. LimitsTypeOK' /\ BusTypeOK'
    BY <1>0, <1>5 DEF LimitsTypeOK, BusTypeOK
  <2> QED
    BY <2>3, <2>4, <2>5, <2>6
<1>6. CASE PollRaises
  <2> USE DEF PollRaises, PublishRaises, EndRefresh
  <2>1. HelperTypeOK' /\ ControlInv'
    BY <1>0, <1>6 DEF HelperTypeOK, Step, ControlInv, inverterVars
  <2>2. error' \in BOOLEAN
    BY <1>6, Zenon
  <2>3. SolisTypeOK'
    BY <1>0, <1>6, <2>2 DEF SolisTypeOK, deviceVars, inverterVars
  <2>4. LimitsTypeOK' /\ BusTypeOK'
    BY <1>0, <1>6 DEF LimitsTypeOK, BusTypeOK, inverterVars
  <2> QED
    BY <2>1, <2>3, <2>4
<1>7. CASE Apply
  <2> USE DEF Apply, LimitApplied, ApplyPowerLimit
  <2>1. HelperTypeOK' /\ ControlInv'
    BY <1>0, <1>7 DEF HelperTypeOK, Step, ControlInv, inverterVars, driverVars
  <2>2. limitReg' \in LimitRegister
    <3>1. powerLimit \in Int
      BY <1>0, <1>7 DEF LimitsTypeOK, Limit
    <3>2. RegisterOfWatts(powerLimit) \in LimitRegister
      BY <3>1, LimitTypes
    <3> QED
      BY <1>0, <1>7, <3>2 DEF SolisTypeOK
  <2>3. SolisTypeOK'
    BY <1>0, <1>7, <2>2 DEF SolisTypeOK, inverterVars, driverVars
  <2>4. LimitsTypeOK' /\ BusTypeOK'
    BY <1>0, <1>7 DEF LimitsTypeOK, BusTypeOK, inverterVars
  <2> QED
    BY <2>1, <2>3, <2>4
<1>8. CASE ApplyRaises
  <2> USE DEF ApplyRaises, PublishRaises
  <2>1. HelperTypeOK' /\ ControlInv'
    BY <1>0, <1>8 DEF HelperTypeOK, Step, ControlInv, inverterVars, driverVars
  <2>2. limitReg' \in LimitRegister
    <3>1. CASE powerLimit = None
      BY <1>0, <1>8, <3>1 DEF SolisTypeOK
    <3>2. CASE powerLimit \in Int
      <4>1. RegisterOfWatts(powerLimit) \in LimitRegister
        BY <3>2, LimitTypes
      <4> QED
        BY <1>0, <1>8, <4>1 DEF SolisTypeOK
    <3> QED
      BY <1>0, <3>1, <3>2 DEF LimitsTypeOK, Limit
  <2>3. SolisTypeOK'
    BY <1>0, <1>8, <2>2 DEF SolisTypeOK, inverterVars, driverVars
  <2>4. LimitsTypeOK' /\ BusTypeOK'
    BY <1>0, <1>8 DEF LimitsTypeOK, BusTypeOK, inverterVars
  <2> QED
    BY <2>1, <2>3, <2>4
<1>9. CASE Publish
  <2> USE DEF Publish, PublishDbus
  <2>1. HelperTypeOK'
    BY <1>0, <1>9, CountAssumption DEF HelperTypeOK, Step, NextIndex, inverterVars
  <2>2. ControlInv'
    BY <1>0, <1>9 DEF ControlInv, driverVars
  <2>3. SolisTypeOK' /\ LimitsTypeOK'
    BY <1>0, <1>9 DEF SolisTypeOK, LimitsTypeOK, inverterVars, driverVars, deviceVars
  <2>4. BusTypeOK'
    BY <1>0, <1>9 DEF BusTypeOK, PvValues, SolisTypeOK
  <2> QED
    BY <2>1, <2>2, <2>3, <2>4
<1>10. CASE Exit \/ Kill
  <2>1. DropHelper(InitialValues) /\ DropInverter /\ DropSolis /\ UNCHANGED deviceVars
    BY <1>10 DEF Exit, Kill, ProcessEnds
  <2>2. HelperTypeOK' /\ ControlInv'
    BY <2>1, CountAssumption
       DEF DropHelper, DropInverter, DropSolis, HelperTypeOK, Step, ControlInv
  <2>3. status' \in Status \cup {None} /\ error' \in BOOLEAN
    BY <2>1, Zenon DEF DropInverter, DropSolis
  <2>4. SolisTypeOK'
    BY <1>0, <2>1, <2>3, NoEnergyType DEF DropSolis, SolisTypeOK, deviceVars, NoOverall, NoPhases
  <2>5. LimitsTypeOK' /\ BusTypeOK'
    BY <2>1, InitialValuesType
       DEF DropHelper, DropInverter, LimitsTypeOK, Limit, BusTypeOK, InitialValues
  <2> QED
    BY <2>2, <2>4, <2>5
<1>11. CASE Request
  <2>1. PICK watts \in Requests : SetPowerLimit(watts)
    BY <1>11 DEF Request
  <2> USE DEF SetPowerLimit
  <2>2. HelperTypeOK' /\ ControlInv'
    BY <1>0, <1>11, <2>1 DEF Request, HelperTypeOK, ControlInv, inverterVars, driverVars
  <2>3. SolisTypeOK' /\ BusTypeOK'
    BY <1>0, <1>11, <2>1
       DEF Request, SolisTypeOK, BusTypeOK, inverterVars, driverVars, deviceVars
  <2>4. LimitsTypeOK'
    BY <1>0, <2>1, RequestsAssumption DEF LimitsTypeOK, Limit, inverterVars
  <2> QED
    BY <2>2, <2>3, <2>4
<1>12. CASE Device
  <2>1. HelperTypeOK' /\ ControlInv' /\ LimitsTypeOK' /\ BusTypeOK'
    BY <1>0, <1>12 DEF Device, HelperTypeOK, ControlInv, LimitsTypeOK, BusTypeOK,
                       helperVars, inverterVars, driverVars
  <2>2. SolisTypeOK'
    <3>1. link' \in {"up", "down", "flaky"} /\ limitReg' \in LimitRegister
      BY <1>0, <1>12, SolisAssumption DEF Device, ChangeLink, ChangeLimit, SolisTypeOK
    <3> QED
      BY <1>0, <1>12, <3>1 DEF Device, SolisTypeOK, inverterVars, driverVars
  <2> QED
    BY <2>1, <2>2
<1>13. CASE UNCHANGED vars
  BY <1>0, <1>13 DEF vars, helperVars, inverterVars, driverVars, deviceVars,
     HelperTypeOK, SolisTypeOK, ControlInv, LimitsTypeOK, BusTypeOK
<1> QED
  BY <1>1, <1>2, <1>3, <1>4, <1>5, <1>6, <1>7, <1>8, <1>9, <1>10, <1>11, <1>12,
     <1>13 DEF Next, Driver

\* Every variable keeps its type, and the thread is where the invariant says:
\* in particular error_count never passes QuitAfter, and register 3049 is never
\* given anything but a percent from 0 to 100.
THEOREM Typing == Spec => [](TypeOK /\ ControlInv)
<1>1. Init => TypeInv
  BY InitType
<1>2. TypeInv /\ [Next]_vars => TypeInv'
  BY StepType
<1>3. TypeInv <=> TypeOK /\ ControlInv
  BY DEF TypeInv
<1> QED
  BY <1>1, <1>2, <1>3, PTL DEF Spec

-----------------------------------------------------------------------------
\* The register apply_power_limit() writes for a request.
LEMMA RequestWritten ==
  ASSUME NEW watts \in Int
  PROVE  \E pct \in 0 .. 100 :
           RegisterOfWatts(watts) = 100 * pct /\ IsNearest(pct, watts)
<1>1. PctOfWatts(watts) \in 0 .. 100 /\ IsNearest(PctOfWatts(watts), watts)
  BY EveryRequestNearest
<1> QED
  BY <1>1 DEF RegisterOfWatts

\* For every request, every rated power and every product the floats miss: no
\* step of the program gives the inverter anything but the percent nearest to the
\* request of the poll.
THEOREM Nearest == Spec => WritesNearest
<1> DEFINE A == limitReg' # limitReg =>
                  \/ ChangeLimit
                  \/ \E pct \in 0 .. 100 :
                       limitReg' = 100 * pct /\ IsNearest(pct, powerLimit)
<1>1. TypeInv /\ [Next]_vars => [A]_vars
  <2> SUFFICES ASSUME TypeInv, Next, limitReg' # limitReg, ~ChangeLimit
               PROVE  \E pct \in 0 .. 100 :
                        limitReg' = 100 * pct /\ IsNearest(pct, powerLimit)
    BY DEF vars, deviceVars
  <2>1. Apply \/ ApplyRaises
    <3>1. ~Start /\ ~Request /\ ~Device
      BY DEF Start, Request, Device, ChangeLink, deviceVars
    <3>2. ~Exit /\ ~Kill
      BY DEF Exit, Kill, ProcessEnds, deviceVars
    <3>3. ~BeginPoll /\ ~PollBatch
      BY DEF BeginPoll, BeginRefresh, PollBatch, ReadBatch, deviceVars
    <3>4. ~PollSucceeds /\ ~PollFails /\ ~PollRaises /\ ~Publish
      BY DEF PollSucceeds, PollFails, PollRaises, EndRefresh, Publish, deviceVars
    <3> QED
      BY <3>1, <3>2, <3>3, <3>4 DEF Next, Driver
  <2>2. powerLimit # None /\ limitReg' = RegisterOfWatts(powerLimit)
    BY <2>1 DEF Apply, ApplyPowerLimit, ApplyRaises
  <2>3. powerLimit \in Int
    BY <2>2 DEF TypeInv, TypeOK, Limit
  <2> QED
    BY <2>2, <2>3, RequestWritten
<1>2. TypeInv <=> TypeOK /\ ControlInv
  BY DEF TypeInv
<1> QED
  BY <1>1, <1>2, Typing, PTL DEF Spec, WritesNearest

-----------------------------------------------------------------------------
FreshInv == TypeInv /\ PollInv /\ MeasuredAreFresh

LEMMA CompleteParts ==
  Complete(PvValues) <=>
    /\ \A f \in OverallField : overall[f] = "fresh"
    /\ PhasesComplete(phase)
    /\ status \in Status \ {8}
  BY DEF Complete, PvValues

\* Batch 3 of a poll without an error fills every phase there is to fill.
LEMMA PhasesFilled ==
  ASSUME TypeInv, outputType = OutputType,
         \A f \in OverallField : overall[f] = "fresh"
  PROVE  PhasesComplete(IF outputType = 0 THEN SinglePhase(TRUE)
                                          ELSE ThreePhase(TRUE))
<1>1. CASE OutputType = 0
  BY <1>1, SolisAssumption DEF PhasesComplete, SinglePhase, OverallField, PhaseField
<1>2. CASE OutputType # 0
  BY <1>2, SolisAssumption DEF PhasesComplete, ThreePhase, PhaseField
<1> QED
  BY <1>1, <1>2

\* One batch keeps the record of what the poll has brought so far.
LEMMA BatchFresh ==
  ASSUME TypeInv, PollInv, PollBatch
  PROVE  PollInv'
<1>0. PICK ok \in BOOLEAN : ReadPower(ok) \/ ReadEnergy(ok) \/ ReadPhases(ok)
                            \/ ReadStatus(ok) \/ ReadLimit(ok)
  BY DEF PollBatch, ReadBatch
<1>1. step' = "refresh"
  BY DEF PollBatch, helperVars
<1>2. SolisTypeOK
  BY DEF TypeInv, TypeOK
<1> SUFFICES ASSUME ~error'
             PROVE  /\ batch' >= 2 => outputType' = OutputType /\ overall'["ac_power"] = "fresh"
                    /\ batch' >= 3 => overall'["energy_forwarded"] = "fresh"
                    /\ batch' >= 4 => PhasesComplete(phase')
                    /\ batch' >= 5 => status' \in Status \ {8}
  BY <1>1 DEF PollInv, PhasesComplete
<1>3. CASE ReadPower(ok)
  <2>1. ok
    BY <1>3 DEF ReadPower
  <2> QED
    BY <1>2, <1>3, <2>1 DEF ReadPower, SolisTypeOK, OverallField
<1>4. CASE ReadEnergy(ok)
  <2>1. ok /\ ~error
    BY <1>4 DEF ReadEnergy
  <2> QED
    BY <1>2, <1>4, <2>1 DEF ReadEnergy, SolisTypeOK, OverallField, PollInv
<1>5. CASE ReadPhases(ok)
  <2>1. ok = TRUE /\ ~error
    BY <1>5 DEF ReadPhases
  <2>2. outputType = OutputType /\ \A f \in OverallField : overall[f] = "fresh"
    BY <1>5, <2>1 DEF ReadPhases, PollInv, OverallField
  <2>3. PhasesComplete(phase')
    BY <1>5, <2>1, <2>2, PhasesFilled DEF ReadPhases
  <2> QED
    BY <1>5, <2>2, <2>3 DEF ReadPhases, OverallField
<1>6. CASE ReadStatus(ok)
  <2>1. ok /\ ~error
    BY <1>6 DEF ReadStatus
  <2>2. status' \in Status \ {8}
    BY <1>6, <2>1, SolisAssumption DEF ReadStatus, StatusOf, Status
  <2> QED
    BY <1>6, <2>1, <2>2 DEF ReadStatus, PollInv
<1>7. CASE ReadLimit(ok)
  <2>1. ok /\ ~error
    BY <1>7 DEF ReadLimit
  <2> QED
    BY <1>7, <2>1 DEF ReadLimit, PollInv
<1> QED
  BY <1>0, <1>3, <1>4, <1>5, <1>6, <1>7

\* What the steps after the batches do with a complete poll.
LEMMA StepFresh == FreshInv /\ [Next]_vars => FreshInv'
<1> SUFFICES ASSUME FreshInv, [Next]_vars
             PROVE  PollInv' /\ MeasuredAreFresh'
  BY StepType DEF FreshInv
<1>0. TypeInv /\ PollInv /\ MeasuredAreFresh /\ ControlInv /\ SolisTypeOK
  BY DEF FreshInv, TypeInv, TypeOK
\* Outside the batches nothing is owed.
<1>a. ASSUME batch' \in {0, 1}, step' \in {"idle", "refresh"}
      PROVE  PollInv'
  BY <1>a DEF PollInv
<1>b. ASSUME UNCHANGED <<overall, phase, status>>, Complete(PvValues)
      PROVE  Complete(PvValues)'
  BY <1>b DEF Complete, PvValues, PhasesComplete
<1>c. ASSUME UNCHANGED bus
      PROVE  MeasuredAreFresh'
  BY <1>0, <1>c DEF MeasuredAreFresh, InitialValues, Complete, PhasesComplete
<1>d. ASSUME bus' = InitialValues
      PROVE  MeasuredAreFresh'
  BY <1>d DEF MeasuredAreFresh, InitialValues
<1>1. CASE Start
  <2>1. batch' = 0 /\ step' = "idle" /\ bus' = InitialValues
    BY <1>0, <1>1 DEF Start, SetupVedbus, ControlInv, driverVars
  <2> QED
    BY <2>1, <1>a, <1>d
<1>2. CASE BeginPoll
  BY <1>2, <1>a, <1>c DEF BeginPoll, BeginPublish, BeginRefresh
<1>3. CASE PollBatch
  BY <1>0, <1>3, <1>c, BatchFresh DEF PollBatch, helperVars
<1>4. CASE PollSucceeds
  <2>1. Complete(PvValues)
    BY <1>0, <1>4, CompleteParts DEF PollSucceeds, PollInv, OverallField
  <2>2. Complete(PvValues)' /\ batch' = 0 /\ UNCHANGED bus
    BY <1>4, <1>b, <2>1 DEF PollSucceeds, RefreshSucceeds, EndRefresh
  <2> QED
    BY <2>2, <1>c DEF PollInv
<1>5. CASE PollFails
  BY <1>5, <1>a, <1>c DEF PollFails, RefreshFails, EndRefresh
<1>6. CASE PollRaises
  BY <1>6, <1>a, <1>c DEF PollRaises, PublishRaises, EndRefresh
<1>7. CASE Apply
  <2>1. step = "limit" /\ UNCHANGED <<overall, phase, status, batch, bus>>
    BY <1>7 DEF Apply, LimitApplied, ApplyPowerLimit, driverVars, inverterVars
  <2>2. batch = 0 /\ Complete(PvValues)
    BY <1>0, <2>1 DEF ControlInv, PollInv
  <2> QED
    BY <2>1, <2>2, <1>b, <1>c DEF PollInv
<1>8. CASE ApplyRaises
  <2>1. batch' = 0
    BY <1>0, <1>8 DEF ApplyRaises, ControlInv, driverVars
  <2> QED
    BY <1>8, <2>1, <1>a, <1>c DEF ApplyRaises, PublishRaises
<1>9. CASE Publish
  <2>1. step = "publish" /\ bus' = PvValues /\ UNCHANGED batch /\ step' = "idle"
    BY <1>9 DEF Publish, PublishDbus, driverVars
  <2>2. batch = 0 /\ Complete(PvValues)
    BY <1>0, <2>1 DEF ControlInv, PollInv
  <2>3. Complete(bus')
    BY <2>1, <2>2
  <2> QED
    BY <2>1, <2>2, <2>3, <1>a DEF MeasuredAreFresh, Complete, PhasesComplete
<1>10. CASE Exit \/ Kill
  BY <1>10, <1>a, <1>d DEF Exit, Kill, ProcessEnds, DropHelper, DropSolis
<1>11. CASE Request
  <2>1. step = "idle" /\ UNCHANGED <<step, batch, bus>>
    BY <1>11 DEF Request, SetPowerLimit, driverVars
  <2> QED
    BY <1>0, <2>1, <1>a, <1>c DEF ControlInv
<1>12. CASE Device \/ UNCHANGED vars
  <2>1. UNCHANGED <<step, batch, bus, error, outputType, overall, phase, status>>
    BY <1>12 DEF Device, vars, helperVars, inverterVars, driverVars
  <2> QED
    BY <1>0, <2>1, <1>b, <1>c DEF PollInv, PhasesComplete
<1> QED
  BY <1>1, <1>2, <1>3, <1>4, <1>5, <1>6, <1>7, <1>8, <1>9, <1>10, <1>11, <1>12
     DEF Next, Driver

\* Whatever fails, in whatever order, on a single-phase inverter or on a
\* three-phase one: what the service shows of the values the inverter measures
\* was all read in the one poll that published it.
THEOREM FreshPublish == Spec => []MeasuredAreFresh
<1>1. Init => FreshInv
  BY InitType DEF Init, HelperInit, SolisInit, FreshInv, PollInv, MeasuredAreFresh
<1>2. FreshInv /\ [Next]_vars => FreshInv'
  BY StepFresh
<1>3. FreshInv => MeasuredAreFresh
  BY DEF FreshInv
<1> QED
  BY <1>1, <1>2, <1>3, PTL DEF Spec

-----------------------------------------------------------------------------
(* What the service promises its clients                                   *)

\* The phases a single-phase inverter is not connected to are zeros from the
\* first poll on: nothing on them was ever read.
NothingRead(phases) ==
  \A p \in Phase \ {InverterPhase} : \A f \in PhaseField :
    phases[p][f] \in {"unset", "const"}

SingleInv ==
  /\ FreshInv
  /\ NothingRead(phase)
  /\ NothingRead(bus.phase)

\* Why the two together are enough.
LEMMA CompleteIsNotStale ==
  ASSUME OutputType = 0, NEW values, Complete(values), NothingRead(values.phase)
  PROVE  ~Stale(values)
<1>1. \A f \in OverallField : values.overall[f] # "stale"
  BY DEF Complete
<1>2. \A f \in PhaseField : values.phase[InverterPhase][f] # "stale"
  BY DEF Complete, PhasesComplete
<1>3. \A p \in Phase \ {InverterPhase} : \A f \in PhaseField :
        values.phase[p][f] # "stale"
  BY DEF NothingRead
<1> QED
  BY <1>1, <1>2, <1>3 DEF Stale

LEMMA InitialIsNotStale == ~Stale(InitialValues) /\ NothingRead(InitialValues.phase)
  BY DEF Stale, NothingRead, InitialValues

LEMMA BatchNothingRead ==
  ASSUME OutputType = 0, TypeInv, NothingRead(phase), PollBatch
  PROVE  NothingRead(phase')
<1>1. PICK ok \in BOOLEAN : ReadPower(ok) \/ ReadEnergy(ok) \/ ReadPhases(ok)
                            \/ ReadStatus(ok) \/ ReadLimit(ok)
  BY DEF PollBatch, ReadBatch
<1>2. outputType = 0
  BY DEF TypeInv, TypeOK, SolisTypeOK
<1>3. phase' \in {phase, SinglePhase(ok)}
  BY <1>1, <1>2 DEF ReadPower, ReadEnergy, ReadPhases, ReadStatus, ReadLimit
<1>4. NothingRead(SinglePhase(ok))
  BY DEF NothingRead, SinglePhase
<1> QED
  BY <1>3, <1>4

LEMMA StepSingle ==
  ASSUME OutputType = 0, SingleInv, [Next]_vars
  PROVE  SingleInv'
<1>0. FreshInv /\ TypeInv /\ NothingRead(phase) /\ NothingRead(bus.phase)
  BY DEF SingleInv, FreshInv
<1> SUFFICES NothingRead(phase') /\ NothingRead(bus'.phase)
  BY <1>0, StepFresh DEF SingleInv, NothingRead
<1>1. CASE UNCHANGED <<phase, bus>>
  BY <1>0, <1>1
<1>2. CASE UNCHANGED phase /\ bus' \in {InitialValues, PvValues}
  BY <1>0, <1>2, InitialIsNotStale DEF PvValues
<1>3. CASE BeginPoll
  <2>1. UNCHANGED bus /\ phase' = [p \in Phase |-> [f \in PhaseField |-> Age(phase[p][f])]]
    BY <1>3 DEF BeginPoll, BeginPublish, BeginRefresh
  <2> QED
    BY <1>0, <2>1 DEF NothingRead, Age
<1>4. CASE PollBatch
  BY <1>0, <1>4, BatchNothingRead DEF PollBatch, helperVars
<1>5. CASE Exit \/ Kill
  <2>1. phase' = NoPhases /\ bus' = InitialValues
    BY <1>5 DEF Exit, Kill, ProcessEnds, DropHelper, DropSolis
  <2> QED
    BY <2>1, InitialIsNotStale DEF NothingRead, NoPhases
<1>6. CASE Start
  BY <1>2, <1>6 DEF Start, SetupVedbus, driverVars
<1>7. CASE PollSucceeds \/ PollFails \/ PollRaises
  BY <1>1, <1>7 DEF PollSucceeds, RefreshSucceeds, PollFails, RefreshFails,
                    PollRaises, PublishRaises, EndRefresh
<1>8. CASE Apply \/ ApplyRaises \/ Request
  BY <1>1, <1>8 DEF Apply, LimitApplied, ApplyPowerLimit, ApplyRaises, PublishRaises,
                    Request, SetPowerLimit, driverVars
<1>9. CASE Publish
  BY <1>2, <1>9 DEF Publish, PublishDbus, driverVars
<1>10. CASE Device \/ UNCHANGED vars
  BY <1>1, <1>10 DEF Device, vars, helperVars, driverVars
<1> QED
  BY <1>3, <1>4, <1>5, <1>6, <1>7, <1>8, <1>9, <1>10 DEF Next, Driver

LEMMA InitSingle == Init => SingleInv
<1> SUFFICES ASSUME Init PROVE SingleInv
  OBVIOUS
<1>1. FreshInv
  BY InitType DEF Init, HelperInit, SolisInit, FreshInv, PollInv, MeasuredAreFresh
<1>2. NothingRead(phase) /\ NothingRead(bus.phase)
  BY InitialIsNotStale DEF Init, HelperInit, SolisInit, NothingRead, NoPhases
<1> QED
  BY <1>1, <1>2 DEF SingleInv

LEMMA SingleIsNotStale ==
  ASSUME OutputType = 0, SingleInv
  PROVE  NothingStale
  BY CompleteIsNotStale, InitialIsNotStale
     DEF SingleInv, FreshInv, MeasuredAreFresh, NothingStale

\* "Publish only when data is fresh and consistent": of a single-phase
\* inverter, no path ever shows a value older than the others'.
THEOREM NeverStale ==
  ASSUME OutputType = 0
  PROVE  Spec => []NothingStale
<1>1. Init => SingleInv
  BY InitSingle
<1>2. SingleInv /\ [Next]_vars => SingleInv'
  BY StepSingle
<1>3. SingleInv => NothingStale
  BY SingleIsNotStale
<1> QED
  BY <1>1, <1>2, <1>3, PTL DEF Spec

-----------------------------------------------------------------------------
\* /UpdateIndex as the code computes it is the abstract one.
LEMMA IndexWraps ==
  ASSUME HelperTypeOK
  PROVE  NextIndex = (busIndex + 1) % (IndexMax + 1)
<1>1. busIndex \in 0 .. IndexMax /\ IndexMax \in Nat
  BY CountAssumption DEF HelperTypeOK
<1>2. CASE busIndex < IndexMax
  <2>1. (busIndex + 1) % (IndexMax + 1) = busIndex + 1
    BY <1>1, <1>2
  <2> QED
    BY <1>1, <1>2, <2>1 DEF NextIndex
<1>3. CASE busIndex = IndexMax
  <2>1. (IndexMax + 1) % (IndexMax + 1) = 0
    BY <1>1
  <2> QED
    BY <1>1, <1>3, <2>1 DEF NextIndex
<1> QED
  BY <1>1, <1>2, <1>3

LEMMA MappedInit ==
  ASSUME Init
  PROVE  Promise!Init
  BY DEF Init, HelperInit, Promise!Init, Promise!Absent, Shown

\* What is shown follows from the process and the bus alone.
LEMMA ShownUnchanged ==
  ASSUME UNCHANGED <<proc, bus>>
  PROVE  Shown' = Shown
  BY DEF Shown, InitialValues, Complete, PhasesComplete, Stale

LEMMA ShownWhileUp ==
  ASSUME proc # "down", proc' # "down", UNCHANGED bus
  PROVE  Shown' = Shown
  BY DEF Shown, InitialValues, Complete, PhasesComplete, Stale

\* Every step of the program is a step of the service, or one it does not see.
LEMMA MappedStep ==
  ASSUME OutputType = 0, SingleInv, TypeInv', [Next]_vars
  PROVE  [Promise!Next]_(Promise!serviceVars)
<1> USE DEF Promise!Next, Promise!serviceVars
<1>0. TypeInv /\ PollInv /\ ControlInv /\ HelperTypeOK /\ busLimit' \in Limit
  BY DEF SingleInv, FreshInv, TypeInv, TypeOK
<1>1. CASE Start
  <2>1. /\ proc = "down" /\ proc' = "running" /\ busIndex' = 0
        /\ bus' = InitialValues /\ InitialValues' = InitialValues
    BY <1>1 DEF Start, SetupVedbus, InitialValues
  <2>2. Shown' = "initial"
    BY <2>1 DEF Shown
  <2> QED
    BY <1>0, <2>1, <2>2 DEF Promise!Appear
<1>2. CASE Publish
  <2>1. /\ proc = "running" /\ proc' = "running" /\ busIndex' = NextIndex
        /\ bus' = PvValues /\ UNCHANGED busLimit
    BY <1>0, <1>2 DEF Publish, PublishDbus, ControlInv
  <2>2. Complete(PvValues) /\ NothingRead(PvValues.phase)
    BY <1>0, <1>2 DEF Publish, PublishDbus, PollInv, SingleInv, PvValues
  <2>3. Complete(bus') /\ ~Stale(bus')
    BY <2>1, <2>2, CompleteIsNotStale
  <2>4. bus' # InitialValues
    BY <2>3 DEF Complete, InitialValues, OverallField
  <2>5. Shown' = "measured"
    BY <2>1, <2>3, <2>4 DEF Shown, Complete, PhasesComplete, Stale, InitialValues
  <2> QED
    BY <1>0, <2>1, <2>5, IndexWraps DEF Promise!Update
<1>3. CASE Request
  <2>1. proc = "running" /\ UNCHANGED <<proc, bus, busIndex>>
    BY <1>3 DEF Request, SetPowerLimit
  <2> QED
    BY <1>0, <2>1, ShownUnchanged DEF Promise!SetLimit
<1>4. CASE Exit \/ Kill
  <2>1. proc # "down" /\ proc' = "down" /\ busIndex' = 0 /\ busLimit' = None
    BY <1>4 DEF Exit, Kill, ProcessEnds, DropHelper
  <2> QED
    BY <2>1 DEF Promise!Vanish, Shown
\* Everything else happens behind the service's back.
<1>5. CASE PollFails \/ PollRaises \/ ApplyRaises
  <2>1. proc # "down" /\ proc' # "down" /\ UNCHANGED <<bus, busIndex, busLimit>>
    BY <1>0, <1>5 DEF PollFails, RefreshFails, PollRaises, ApplyRaises, PublishRaises, ControlInv
  <2> QED
    BY <2>1, ShownWhileUp
<1>6. CASE BeginPoll \/ PollBatch \/ PollSucceeds \/ Apply \/ Device \/ UNCHANGED vars
  <2>1. UNCHANGED <<proc, bus, busIndex, busLimit>>
    BY <1>6 DEF BeginPoll, BeginPublish, PollBatch, PollSucceeds, RefreshSucceeds,
                Apply, LimitApplied, Device, vars, helperVars
  <2> QED
    BY <2>1, ShownUnchanged
<1> QED
  BY <1>1, <1>2, <1>3, <1>4, <1>5, <1>6 DEF Next, Driver

\* The program implements the abstract service: every set a client is shown is
\* complete, of one poll, and comes with the next index; nothing else moves.
THEOREM Implements ==
  ASSUME OutputType = 0
  PROVE  Spec => KeepsPromise
<1>1. Init => SingleInv /\ Promise!Init
  BY InitSingle, MappedInit
<1>2. SingleInv /\ [Next]_vars => SingleInv'
  BY StepSingle
<1>3. SingleInv /\ SingleInv' /\ [Next]_vars => [Promise!Next]_(Promise!serviceVars)
  BY MappedStep DEF SingleInv, FreshInv
<1> QED
  BY <1>1, <1>2, <1>3, PTL DEF Spec, KeepsPromise, Promise!Spec

-----------------------------------------------------------------------------
(* How old what is shown may be.                                           *)

\* The age of what is shown, in terms of the count the driver keeps.  A count
\* of zero after a success does not make the bus younger before it is written;
\* that is why the bound needs the thread's place.
AgeInv ==
  /\ age \in Nat
  /\ proc = "down" => age = 0
  /\ proc = "running" /\ step = "idle" => age = errorCount
  /\ proc = "running" /\ step = "refresh" => age = errorCount + 1
  /\ proc = "running" /\ step \in {"idle", "refresh"} =>
       (online <=> errorCount < OfflineAfter)
  /\ step \in {"limit", "publish"} => errorCount = 0 /\ online
  /\ age <= QuitAfter

HistoryInv == TypeInv /\ AgeInv

LEMMA InitHistory == HistoryInit => HistoryInv
<1> SUFFICES ASSUME HistoryInit PROVE AgeInv
  BY InitType DEF HistoryInit, HistoryInv
<1> QED
  BY CountAssumption DEF HistoryInit, Init, HelperInit, AgeInv

LEMMA StepHistory ==
  ASSUME HistoryInv, [HistoryNext]_historyVars
  PROVE  HistoryInv'
<1>0. TypeInv /\ AgeInv /\ HelperTypeOK /\ ControlInv
  BY DEF HistoryInv, TypeInv, TypeOK
<1>1. TypeInv'
  BY <1>0, StepType DEF HistoryNext, historyVars
<1> SUFFICES AgeInv'
  BY <1>1 DEF HistoryInv
<1>2. CASE UNCHANGED historyVars
  BY <1>0, <1>2 DEF historyVars, vars, helperVars, inverterVars, AgeInv
<1>3. CASE HistoryNext
  <2> USE CountAssumption DEF HelperTypeOK, AgeInv
  <2>0. age' = IF BusUpdated \/ proc' = "down" THEN 0
               ELSE IF PollBegins THEN age + 1 ELSE age
    BY <1>3 DEF HistoryNext
  <2>1. CASE Start
    BY <1>0, <2>0, <2>1 DEF Start, SetupVedbus, BusUpdated, PollBegins, ControlInv
  <2>2. CASE BeginPoll
    BY <1>0, <2>0, <2>2 DEF BeginPoll, BeginPublish, BusUpdated, PollBegins, ControlInv
  <2>3. CASE PollBatch
    BY <1>0, <2>0, <2>3 DEF PollBatch, ReadBatch, helperVars, BusUpdated, PollBegins
  <2>4. CASE PollSucceeds
    BY <1>0, <2>0, <2>4 DEF PollSucceeds, RefreshSucceeds, BusUpdated, PollBegins, ControlInv
  <2>5. CASE PollFails
    <3> USE DEF PollFails, RefreshFails
    <3>1. /\ proc = "running" /\ step = "refresh" /\ step' = "idle" /\ proc' # "down"
          /\ age' = age /\ age = errorCount + 1 /\ errorCount' = errorCount + 1
      BY <1>0, <2>0, <2>5 DEF BusUpdated, PollBegins, ControlInv
    <3>2. online' <=> online /\ errorCount' < OfflineAfter
      BY <2>5, Zenon
    <3>3. online' <=> errorCount' < OfflineAfter
      <4>1. online <=> errorCount < OfflineAfter
        BY <1>0, <3>1
      <4>2. errorCount' < OfflineAfter => errorCount < OfflineAfter
        BY <1>0, <3>1
      <4> QED
        BY <3>2, <4>1, <4>2, Zenon
    <3> QED
      BY <1>0, <3>1, <3>3
  <2>6. CASE PollRaises \/ ApplyRaises
    BY <1>0, <2>0, <2>6 DEF PollRaises, ApplyRaises, PublishRaises, BusUpdated, PollBegins
  <2>7. CASE Apply
    BY <1>0, <2>0, <2>7 DEF Apply, LimitApplied, inverterVars, BusUpdated, PollBegins, ControlInv
  <2>8. CASE Publish
    BY <1>0, <2>0, <2>8 DEF Publish, PublishDbus, inverterVars, BusUpdated, PollBegins, ControlInv
  <2>9. CASE Exit \/ Kill
    BY <1>0, <2>0, <2>9 DEF Exit, Kill, ProcessEnds, DropHelper
  <2>10. CASE Request
    BY <1>0, <2>0, <2>10 DEF Request, SetPowerLimit, inverterVars, BusUpdated, PollBegins
  <2>11. CASE Device
    BY <1>0, <2>0, <2>11 DEF Device, helperVars, inverterVars, BusUpdated, PollBegins
  <2> QED
    BY <1>3, <2>1, <2>2, <2>3, <2>4, <2>5, <2>6, <2>7, <2>8, <2>9, <2>10, <2>11
       DEF HistoryNext, Next, Driver
<1> QED
  BY <1>2, <1>3

\* Old values do not stay on the bus: either a poll replaces them, or after
\* QuitAfter failures in a row the service goes.
THEOREM Bounded == HistorySpec => []StalenessBounded
<1>1. HistoryInit => HistoryInv
  BY InitHistory
<1>2. HistoryInv /\ [HistoryNext]_historyVars => HistoryInv'
  BY StepHistory
<1>3. HistoryInv => StalenessBounded
  BY DEF HistoryInv, AgeInv, StalenessBounded
<1> QED
  BY <1>1, <1>2, <1>3, PTL DEF HistorySpec

\* Between polls, online means exactly that fewer than OfflineAfter polls have
\* failed since the bus was last brought up to date.
THEOREM Honest == HistorySpec => []OnlineIsHonest
<1>1. HistoryInit => HistoryInv
  BY InitHistory
<1>2. HistoryInv /\ [HistoryNext]_historyVars => HistoryInv'
  BY StepHistory
<1>3. HistoryInv => OnlineIsHonest
  BY DEF HistoryInv, AgeInv, OnlineIsHonest
<1> QED
  BY <1>1, <1>2, <1>3, PTL DEF HistorySpec

-----------------------------------------------------------------------------
(* The limit that nobody asks to change.                                   *)

\* What the driver makes of the limit in register 3049.
DeviceLimit == WattsOf(PctOfRegister(limitReg))

\* Every limit the program holds was read from the register, or is None; so
\* the two that publish_inverter compares differ only where one is None.
LimitInv ==
  /\ busLimit \in {None, DeviceLimit}
  /\ powerLimit \in {None, DeviceLimit}
  /\ activeLimit \in {None, DeviceLimit}
  /\ step = "limit" => powerLimit = None

\* A program that does not run holds no limit.
DownInv ==
  proc = "down" =>
    /\ step = "idle"
    /\ busLimit = None /\ powerLimit = None /\ activeLimit = None

AskedInv == DownInv /\ (~asked => LimitInv)

LEMMA BatchLimit ==
  ASSUME LimitInv, PollBatch
  PROVE  LimitInv' /\ UNCHANGED limitReg
<1>1. PICK ok \in BOOLEAN : ReadPower(ok) \/ ReadEnergy(ok) \/ ReadPhases(ok)
                            \/ ReadStatus(ok) \/ ReadLimit(ok)
  BY DEF PollBatch, ReadBatch
<1>2. UNCHANGED <<step, busLimit, powerLimit, limitReg>>
  BY DEF PollBatch, ReadBatch, helperVars, deviceVars
<1>3. activeLimit' \in {activeLimit, DeviceLimit}
  BY <1>1 DEF ReadPower, ReadEnergy, ReadPhases, ReadStatus, ReadLimit, DeviceLimit
<1> QED
  BY <1>2, <1>3 DEF LimitInv, DeviceLimit

LEMMA StepLimit ==
  ASSUME LimitInv, [Next]_vars, ~Request, ~ChangeLimit
  PROVE  LimitInv' /\ UNCHANGED limitReg
<1>a. ASSUME UNCHANGED limitReg
      PROVE  DeviceLimit' = DeviceLimit
  BY <1>a DEF DeviceLimit
<1>1. CASE Start
  <2>1. UNCHANGED limitReg /\ step' = "idle"
    BY <1>1 DEF Start, SetupVedbus, deviceVars
  <2>2. powerLimit' \in {None, DeviceLimit} /\ activeLimit' = powerLimit'
    BY <1>1 DEF Start, GetSettings, DeviceLimit
  <2>3. busLimit' \in {None, powerLimit'}
    BY <1>1 DEF Start, SetupVedbus
  <2> QED
    BY <2>1, <2>2, <2>3, <1>a DEF LimitInv
<1>2. CASE BeginPoll
  BY <1>2, <1>a DEF BeginPoll, BeginPublish, BeginRefresh, deviceVars, LimitInv
<1>3. CASE PollBatch
  BY <1>3, BatchLimit
<1>4. CASE PollSucceeds
  BY <1>4, <1>a DEF PollSucceeds, RefreshSucceeds, EndRefresh, deviceVars, LimitInv
<1>5. CASE PollFails
  BY <1>5, <1>a DEF PollFails, RefreshFails, EndRefresh, deviceVars, LimitInv
<1>6. CASE PollRaises
  BY <1>6, <1>a DEF PollRaises, PublishRaises, EndRefresh, deviceVars, inverterVars, LimitInv
<1>7. CASE Apply
  BY <1>7 DEF Apply, LimitApplied, ApplyPowerLimit, LimitInv
<1>8. CASE ApplyRaises
  BY <1>8, <1>a DEF ApplyRaises, PublishRaises, inverterVars, LimitInv
<1>9. CASE Publish
  BY <1>9, <1>a DEF Publish, PublishDbus, deviceVars, inverterVars, LimitInv
<1>10. CASE Exit \/ Kill
  BY <1>10, <1>a DEF Exit, Kill, ProcessEnds, DropHelper, DropInverter, deviceVars, LimitInv
<1>11. CASE Request
  BY <1>11 DEF Request
<1>12. CASE Device \/ UNCHANGED vars
  BY <1>12, <1>a DEF Device, ChangeLink, ChangeLimit, vars, helperVars, inverterVars,
                     driverVars, deviceVars, LimitInv
<1> QED
  BY <1>1, <1>2, <1>3, <1>4, <1>5, <1>6, <1>7, <1>8, <1>9, <1>10, <1>11, <1>12
     DEF Next, Driver

LEMMA StepDown ==
  ASSUME DownInv, [Next]_vars
  PROVE  DownInv'
<1> USE DEF DownInv
<1>1. CASE Start
  BY <1>1 DEF Start, SetupVedbus
<1>2. CASE Driver
  <2>1. proc # "down" => proc' # "down"
    BY <1>2 DEF Driver, BeginPoll, BeginPublish, PollBatch, helperVars, PollSucceeds,
                RefreshSucceeds, PollFails, RefreshFails, PollRaises, ApplyRaises,
                PublishRaises, Apply, LimitApplied, Publish, PublishDbus
  <2>2. proc = "down" => ~Driver
    BY DEF Driver, BeginPoll, BeginPublish, PollBatch, PollSucceeds, RefreshSucceeds,
           PollFails, RefreshFails, PollRaises, ApplyRaises, Apply, LimitApplied,
           Publish, PublishDbus
  <2> QED
    BY <1>2, <2>1, <2>2
<1>3. CASE Exit \/ Kill
  BY <1>3 DEF Exit, Kill, ProcessEnds, DropHelper, DropInverter
<1>4. CASE Request
  BY <1>4 DEF Request, SetPowerLimit
<1>5. CASE Device \/ UNCHANGED vars
  BY <1>5 DEF Device, vars, helperVars, inverterVars
<1> QED
  BY <1>1, <1>2, <1>3, <1>4, <1>5 DEF Next

LEMMA StepAsked ==
  ASSUME AskedInv, [HistoryNext]_historyVars
  PROVE  /\ AskedInv'
         /\ limitReg' # limitReg => asked' \/ ChangeLimit
<1>1. DownInv /\ (~asked => LimitInv)
  BY DEF AskedInv
<1>2. [Next]_vars
  BY DEF HistoryNext, historyVars
<1>3. DownInv'
  BY <1>1, <1>2, StepDown
<1>4. CASE UNCHANGED historyVars
  <2>1. UNCHANGED <<busLimit, powerLimit, activeLimit, step, limitReg, asked>>
    BY <1>4 DEF historyVars, vars, helperVars, inverterVars, deviceVars
  <2>2. LimitInv => LimitInv'
    BY <2>1 DEF LimitInv, DeviceLimit
  <2> QED
    BY <1>1, <1>3, <2>1, <2>2 DEF AskedInv
<1>5. CASE HistoryNext
  <2>1. asked' = (proc' # "down" /\ (asked \/ Request \/ ChangeLimit))
    BY <1>5 DEF HistoryNext
  <2>2. CASE asked'
    BY <1>3, <2>2 DEF AskedInv
  <2>3. CASE ~asked' /\ proc' = "down"
    <3>1. LimitInv'
      BY <1>3, <2>3 DEF DownInv, LimitInv
    <3>2. Next => limitReg' = limitReg \/ ChangeLimit
      <4>1. Exit \/ Kill => UNCHANGED limitReg
        BY DEF Exit, Kill, ProcessEnds, deviceVars
      <4>2. Device => limitReg' = limitReg \/ ChangeLimit
        BY DEF Device, ChangeLink
      <4>3. ~(Start \/ Driver \/ Request)
        BY <1>1, <2>3 DEF Start, SetupVedbus, Request, SetPowerLimit,
               Driver, BeginPoll, BeginPublish, PollBatch, helperVars, PollSucceeds,
               RefreshSucceeds, PollFails, RefreshFails, PollRaises, ApplyRaises,
               PublishRaises, Apply, LimitApplied, Publish, PublishDbus, DownInv
      <4> QED
        BY <4>1, <4>2, <4>3 DEF Next
    <3> QED
      BY <1>3, <1>5, <3>1, <3>2 DEF AskedInv, HistoryNext
  <2>4. CASE ~asked' /\ proc' # "down"
    <3>1. ~asked /\ ~Request /\ ~ChangeLimit
      BY <2>1, <2>4
    <3> QED
      BY <1>1, <1>2, <1>3, <3>1, StepLimit DEF AskedInv
  <2> QED
    BY <2>2, <2>3, <2>4
<1> QED
  BY <1>4, <1>5

\* No start, poll, failure, exception, kill or restart moves the limit of an
\* inverter whose limit nobody asked to change since the start.
THEOREM Untouched == HistorySpec => LimitUntouched
<1>1. HistoryInit => AskedInv
  BY DEF HistoryInit, Init, HelperInit, InverterInit, AskedInv, DownInv, LimitInv
<1>2. AskedInv /\ [HistoryNext]_historyVars => AskedInv'
  BY StepAsked
<1>3. AskedInv /\ [HistoryNext]_historyVars
        => [limitReg' # limitReg => asked' \/ ChangeLimit]_historyVars
  BY StepAsked
<1> QED
  BY <1>1, <1>2, <1>3, PTL DEF HistorySpec, LimitUntouched
=============================================================================
