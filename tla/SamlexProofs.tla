---------------------------- MODULE SamlexProofs ----------------------------
(***************************************************************************)
(* Proofs about the program with a Samlex, for every situation of the      *)
(* device, both transports, every value of the counts, and every way       *)
(* requests can fail: first what the steps of SamlexService keep, then     *)
(* (SamlexTruth) that what is published of the device is true of it.       *)
(***************************************************************************)
EXTENDS SamlexTruth, TLAPS

LEMMA NumberTypes ==
  /\ \A value \in Int : ToInt16(value) \in Int
  /\ \A va \in Int \cup {None}, power \in Int : LoadPower(va, power) \in Int
  /\ \A s \in Situations : AcOutRegister(s) \in Int /\ GridVA(s) \in Int
<1>1. \A value \in Int : ToInt16(value) \in Int
  BY DEF ToInt16, Word
<1>2. \A va \in Int \cup {None}, power \in Int : LoadPower(va, power) \in Int
  BY DEF LoadPower
<1>3. ASSUME NEW s \in Situations
      PROVE  AcOutRegister(s) \in Int /\ GridVA(s) \in Int
  <2>1. s.load \in 0 .. MaxInt16 /\ s.charger \in 0 .. MaxInt16
    BY SamlexAssumption DEF Situation
  <2>2. s.load \in Int /\ s.charger \in Int
    BY <2>1
  <2> QED
    BY <2>2 DEF AcOutRegister, GridVA, Word
<1> QED
  BY <1>1, <1>2, <1>3

LEMMA CodeTypes ==
  /\ \A fault, conn, stage : StateOf(fault, conn, stage) \in State
  /\ \A stage : ChargeStateOf(stage) \in ChargeState
  BY DEF StateOf, StateFromCharge, State, ChargeStateOf, ChargeState

BusTypeOK ==
  bus \in [state : State \cup {0, None}, readings : [Group -> Origin],
           load : Int \cup {None}, gridVA : Int, connected : {0, 1},
           activeInput : {0, 240}, chargeState : ChargeState]

LimitsNone == powerLimit = None /\ activeLimit = None /\ busLimit = None

LEMMA TypeParts ==
  TypeOK <=> HelperTypeOK /\ SamlexTypeOK /\ LimitsNone /\ BusTypeOK
  BY DEF TypeOK, LimitsNone, BusTypeOK

LEMMA InitialValuesType ==
  InitialValues \in [state : State \cup {0, None}, readings : [Group -> Origin],
           load : Int \cup {None}, gridVA : Int, connected : {0, 1},
           activeInput : {0, 240}, chargeState : ChargeState]
  BY DEF InitialValues, Origin, ChargeState

\* The first group was read in this poll, so the power is a number.
PowerRead == acOut => acPower \in Int

TypeInv == TypeOK /\ ControlInv /\ PowerRead

LEMMA InitType == Init => TypeInv
<1> SUFFICES ASSUME Init PROVE TypeInv
  OBVIOUS
<1> USE DEF Init
<1>1. HelperTypeOK
  BY CountAssumption DEF HelperInit, InverterInit, HelperTypeOK, Step
<1>2. SamlexTypeOK
  <2>1. acOut \in BOOLEAN /\ error \in BOOLEAN /\ noResponse \in BOOLEAN
    BY Zenon DEF SamlexInit
  <2>2. batch \in 0 .. 5
    BY DEF SamlexInit
  <2> QED
    BY <2>1, <2>2 DEF SamlexInit, InverterInit, SamlexTypeOK, Origin
<1>3. LimitsNone /\ BusTypeOK
  BY InitialValuesType DEF HelperInit, InverterInit, LimitsNone, BusTypeOK
<1>4. ControlInv
  BY CountAssumption DEF HelperInit, SamlexInit, ControlInv
<1>5. PowerRead
  BY DEF SamlexInit, PowerRead
<1> QED
  BY <1>1, <1>2, <1>3, <1>4, <1>5, TypeParts DEF TypeInv

\* What a request does to the socket and to the list of silent units.
LEMMA SocketType ==
  ASSUME SamlexTypeOK, Answered \/ Failed \/ Raised
  PROVE  socket' \in {"closed", "open"} /\ noResponse' \in BOOLEAN
<1>1. noResponse \in BOOLEAN
  BY DEF SamlexTypeOK
<1>2. socket' \in {"closed", "open"}
  BY DEF Answered, Failed, Raised, RaisedByClose, RaisedByCut
<1>3. noResponse' \in BOOLEAN
  BY <1>1, Zenon DEF Answered, Failed, Raised, RaisedByClose, RaisedByCut
<1> QED
  BY <1>2, <1>3

\* One group leaves every variable of the driver with its type.
LEMMA GroupType ==
  ASSUME TypeInv, PollGroup
  PROVE  SamlexTypeOK' /\ PowerRead' /\ batch' \in 1 .. 5
<1>1. PICK ok \in BOOLEAN :
        /\ Answered \/ Failed
        /\ ReadAcOut(ok) \/ ReadDc(ok) \/ ReadAcIn(ok) \/ ReadStatus(ok)
  BY DEF PollGroup, ReadGroup
<1>2. UNCHANGED <<link, situation>>
  BY DEF PollGroup, ReadGroup, deviceVars
<1>3. SamlexTypeOK
  BY DEF TypeInv, TypeOK
<1>4. socket' \in {"closed", "open"} /\ noResponse' \in BOOLEAN
  BY <1>1, <1>3, SocketType
<1>5. /\ situation \in Situations /\ error \in BOOLEAN
      /\ \A g \in Group : After(g, ok) \in [Group -> Origin]
  BY <1>3 DEF SamlexTypeOK, After, Origin
<1>6. /\ ToInt16(AcOutRegister(situation)) \in Int
      /\ GridVA(situation) \in Int
  BY <1>5, NumberTypes
<1>0. PowerRead
  BY DEF TypeInv
<1>7. CASE ReadAcOut(ok)
  <2>1. (~ok) \in BOOLEAN /\ ok \in BOOLEAN
    OBVIOUS
  <2>2. readings' \in [Group -> Origin] /\ acPower' \in Int \cup {None}
    BY <1>3, <1>5, <1>6, <1>7 DEF ReadAcOut, Group, SamlexTypeOK
  <2>3. error' \in BOOLEAN /\ acOut' \in BOOLEAN
    BY <1>7, <2>1, Zenon DEF ReadAcOut
  <2>4. batch' \in 1 .. 5 /\ batch' \in 0 .. 5
    BY <1>7 DEF ReadAcOut
  <2>5. PowerRead'
    <3>1. CASE ok
      BY <1>6, <1>7, <3>1 DEF ReadAcOut, PowerRead
    <3>2. CASE ~ok
      BY <1>7, <3>2 DEF ReadAcOut, PowerRead
    <3> QED
      BY <3>1, <3>2
  <2> QED
    BY <1>2, <1>3, <1>4, <1>7, <2>2, <2>3, <2>4, <2>5 DEF ReadAcOut, SamlexTypeOK
<1>8. CASE ReadDc(ok)
  <2>1. readings' \in [Group -> Origin]
    BY <1>5, <1>8 DEF ReadDc, Group
  <2>2. error' \in BOOLEAN
    BY <1>8, Zenon DEF ReadDc
  <2>3. batch' \in 1 .. 5 /\ batch' \in 0 .. 5
    BY <1>8 DEF ReadDc
  <2> QED
    BY <1>0, <1>2, <1>3, <1>4, <1>8, <2>1, <2>2, <2>3 DEF ReadDc, SamlexTypeOK, PowerRead
<1>9. CASE ReadAcIn(ok)
  <2>1. readings' \in [Group -> Origin]
    BY <1>5, <1>9 DEF ReadAcIn, Group
  <2>2. error' \in BOOLEAN
    BY <1>9, Zenon DEF ReadAcIn
  <2>3. batch' \in 1 .. 5 /\ batch' \in 0 .. 5
    BY <1>9 DEF ReadAcIn
  <2>4. gridVA' \in Int \cup {None} /\ connected' \in {0, 1, None}
    BY <1>3, <1>6, <1>9 DEF ReadAcIn, SamlexTypeOK
  <2>5. acPower' \in Int \cup {None} /\ PowerRead'
    <3>1. CASE acOut
      BY <1>0, <1>9, <2>4, <3>1, NumberTypes DEF ReadAcIn, PowerRead
    <3>2. CASE ~acOut
      BY <1>3, <1>9, <3>2 DEF SamlexTypeOK, ReadAcIn, PowerRead
    <3> QED
      BY <3>1, <3>2
  <2> QED
    BY <1>2, <1>3, <1>4, <1>9, <2>1, <2>2, <2>3, <2>4, <2>5 DEF ReadAcIn, SamlexTypeOK
<1>10. CASE ReadStatus(ok)
  <2>1. readings' \in [Group -> Origin]
    BY <1>5, <1>10 DEF ReadStatus, Group
  <2>2. error' \in BOOLEAN
    BY <1>10, Zenon DEF ReadStatus
  <2>3. batch' \in 1 .. 5 /\ batch' \in 0 .. 5
    BY <1>10 DEF ReadStatus
  <2>4. status' \in State /\ chargeState' \in ChargeState \cup {None}
    BY <1>3, <1>10, CodeTypes DEF ReadStatus, State, SamlexTypeOK
  <2> QED
    BY <1>0, <1>2, <1>3, <1>4, <1>10, <2>1, <2>2, <2>3, <2>4
       DEF ReadStatus, SamlexTypeOK, PowerRead
<1> QED
  BY <1>1, <1>7, <1>8, <1>9, <1>10

-----------------------------------------------------------------------------
\* What the actions of the helper do to its own variables and the limits.
LEMMA HelperStepType ==
  ASSUME TypeInv, [Next]_vars
  PROVE  HelperTypeOK' /\ LimitsNone' /\ ControlInv'
<1>0. HelperTypeOK /\ LimitsNone /\ ControlInv /\ SamlexTypeOK
  BY TypeParts DEF TypeInv
<1>a. errorCount \in 0 .. QuitAfter /\ online \in BOOLEAN /\ busIndex \in 0 .. IndexMax
  BY <1>0 DEF HelperTypeOK
<1> USE CountAssumption
<1>1. CASE Start
  BY <1>0, <1>1, VebusAssumption
     DEF Start, GetSettings, SetupVedbus, HelperTypeOK, LimitsNone, ControlInv, Step, localVars
<1>2. CASE BeginPoll
  BY <1>0, <1>2, VebusAssumption
     DEF BeginPoll, BeginPublish, BeginRefresh, HelperTypeOK, LimitsNone, ControlInv, Step
<1>3. CASE PollGroup
  <2>1. batch' \in 1 .. 5
    BY <1>3, GroupType
  <2>2. batch # 0
    BY <1>0, <1>3 DEF PollGroup, ControlInv
  <2> QED
    BY <1>0, <1>3, <2>1, <2>2
       DEF PollGroup, ReadGroup, helperVars, HelperTypeOK, LimitsNone, ControlInv, Step
<1>4. CASE PollSucceeds
  BY <1>0, <1>4 DEF PollSucceeds, RefreshSucceeds, EndRefresh, HelperTypeOK, LimitsNone,
                    ControlInv, Step
<1>5. CASE PollFails
  <2>1. errorCount < QuitAfter
    BY <1>0, <1>5 DEF PollFails, RefreshFails, ControlInv
  <2>2. errorCount' = errorCount + 1 /\ errorCount' \in 0 .. QuitAfter
    BY <1>a, <1>5, <2>1 DEF PollFails, RefreshFails
  <2>3. online' \in BOOLEAN
    BY <1>5, Zenon DEF PollFails, RefreshFails
  <2>4. /\ proc' = IF errorCount' >= QuitAfter THEN "quitting" ELSE proc
        /\ step' = "idle" /\ batch' = 0 /\ proc = "running"
    BY <1>0, <1>5 DEF PollFails, RefreshFails, EndRefresh, ControlInv
  <2> QED
    BY <1>0, <1>5, <2>2, <2>3, <2>4
       DEF PollFails, RefreshFails, HelperTypeOK, LimitsNone, ControlInv, Step
<1>6. CASE PollRaises
  BY <1>0, <1>6 DEF PollRaises, PublishRaises, EndRefresh, inverterVars, HelperTypeOK,
                    LimitsNone, ControlInv, Step
<1>7. CASE Publish
  BY <1>0, <1>a, <1>7 DEF Publish, PublishDbus, NextIndex, inverterVars, localVars,
                    HelperTypeOK, LimitsNone, ControlInv, Step
<1>8. CASE Exit \/ Kill
  <2>1. DropHelper(InitialValues) /\ DropInverter /\ DropSamlex
    BY <1>8 DEF Exit, Kill, ProcessEnds
  <2>2. online' \in BOOLEAN
    BY <2>1, Zenon DEF DropInverter
  <2>3. errorCount' \in 0 .. QuitAfter /\ busIndex' \in 0 .. IndexMax
    BY <2>1 DEF DropHelper
  <2> QED
    BY <2>1, <2>2, <2>3 DEF DropHelper, DropInverter, DropSamlex, HelperTypeOK,
                            LimitsNone, ControlInv, Step
<1>9. CASE Device \/ UNCHANGED vars
  BY <1>0, <1>9 DEF Device, vars, helperVars, inverterVars, localVars, HelperTypeOK,
                    LimitsNone, ControlInv, Step
<1> QED
  BY <1>1, <1>2, <1>3, <1>4, <1>5, <1>6, <1>7, <1>8, <1>9 DEF Next, Driver

LEMMA DriverStepType ==
  ASSUME TypeInv, [Next]_vars
  PROVE  SamlexTypeOK' /\ PowerRead'
<1>0. SamlexTypeOK /\ ControlInv /\ PowerRead
  BY DEF TypeInv, TypeOK
<1>1. CASE Start
  <2>1. noResponse' \in BOOLEAN
    BY <1>1, Zenon DEF Start
  <2> QED
    BY <1>0, <1>1, <2>1
       DEF Start, readVars, localVars, deviceVars, SamlexTypeOK, PowerRead
<1>2. CASE BeginPoll
  <2>1. [g \in Group |-> Age(readings[g])] \in [Group -> Origin]
    BY <1>0 DEF SamlexTypeOK, Age, Origin
  <2>2. acOut' \in BOOLEAN /\ error' \in BOOLEAN /\ ~acOut'
    BY <1>2, Zenon DEF BeginPoll, BeginRefresh
  <2>3. batch' \in 0 .. 5
    BY <1>2 DEF BeginPoll, BeginRefresh
  <2> QED
    BY <1>0, <1>2, <2>1, <2>2, <2>3
       DEF BeginPoll, BeginPublish, BeginRefresh, clientVars, deviceVars, SamlexTypeOK,
           PowerRead
<1>3. CASE PollGroup
  BY <1>3, GroupType
<1>4. CASE PollSucceeds \/ PollFails \/ PollRaises
  <2>1. EndRefresh /\ UNCHANGED status
    BY <1>4 DEF PollSucceeds, RefreshSucceeds, PollFails, RefreshFails, PollRaises,
                PublishRaises, inverterVars
  <2>2. acOut' \in BOOLEAN /\ error' \in BOOLEAN /\ ~acOut'
    BY <2>1, Zenon DEF EndRefresh
  <2>3. batch' \in 0 .. 5
    BY <2>1 DEF EndRefresh
  <2>4. /\ socket' = socket \/ socket' \in {"closed", "open"}
        /\ noResponse' \in BOOLEAN
    BY <1>0, <1>4, SocketType DEF PollSucceeds, PollFails, PollRaises, clientVars, SamlexTypeOK
  <2> QED
    BY <1>0, <2>1, <2>2, <2>3, <2>4
       DEF EndRefresh, readVars, deviceVars, SamlexTypeOK, PowerRead
<1>5. CASE Publish \/ UNCHANGED vars
  BY <1>0, <1>5 DEF Publish, PublishDbus, vars, inverterVars, readVars, localVars,
                    clientVars, deviceVars, SamlexTypeOK, PowerRead
<1>6. CASE Exit \/ Kill
  <2>1. DropInverter /\ DropSamlex /\ UNCHANGED deviceVars
    BY <1>6 DEF Exit, Kill, ProcessEnds
  <2>2. acOut' \in BOOLEAN /\ error' \in BOOLEAN /\ ~acOut' /\ noResponse' \in BOOLEAN
    BY <2>1, Zenon DEF DropSamlex
  <2>3. batch' \in 0 .. 5
    BY <2>1 DEF DropSamlex
  <2>4. readings' \in [Group -> Origin]
    BY <2>1 DEF DropSamlex, Origin
  <2> QED
    BY <1>0, <2>1, <2>2, <2>3, <2>4
       DEF DropInverter, DropSamlex, deviceVars, SamlexTypeOK, PowerRead
<1>7. CASE Device
  <2>1. UNCHANGED <<status, readVars, localVars>>
    BY <1>7 DEF Device, inverterVars
  <2>2. /\ socket' = socket \/ (Transport = "tcp" /\ socket' = "shut")
        /\ link' \in {"up", "down", "flaky"} /\ situation' \in Situations
        /\ noResponse' = noResponse
    BY <1>0, <1>7 DEF Device, ChangeLink, ChangeSituation, ServerCloses, clientVars,
                      deviceVars, SamlexTypeOK
  <2> QED
    BY <1>0, <2>1, <2>2 DEF readVars, localVars, SamlexTypeOK, PowerRead
<1> QED
  BY <1>1, <1>2, <1>3, <1>4, <1>5, <1>6, <1>7 DEF Next, Driver

\* While a set is published, the load is a number or None, and so on.
LEMMA ValuesType ==
  ASSUME TypeInv
  PROVE  VebusValues \in [state : State \cup {0, None}, readings : [Group -> Origin],
           load : Int \cup {None}, gridVA : Int, connected : {0, 1},
           activeInput : {0, 240}, chargeState : ChargeState]
<1>0. SamlexTypeOK /\ BusTypeOK
  BY TypeParts DEF TypeInv
<1>1. bus.chargeState \in ChargeState
  BY <1>0 DEF BusTypeOK
<1> QED
  BY <1>0, <1>1 DEF VebusValues, SamlexTypeOK

LEMMA StepType == TypeInv /\ [Next]_vars => TypeInv'
<1> SUFFICES ASSUME TypeInv, [Next]_vars
             PROVE  BusTypeOK'
  BY TypeParts, HelperStepType, DriverStepType DEF TypeInv, TypeOK, BusTypeOK,
     HelperTypeOK, SamlexTypeOK, LimitsNone
<1>0. BusTypeOK
  BY TypeParts DEF TypeInv
<1>1. bus' \in {bus, InitialValues, VebusValues}
  BY DEF Next, Driver, Start, SetupVedbus, BeginPoll, BeginPublish, PollGroup, helperVars,
     PollSucceeds, RefreshSucceeds, PollFails, RefreshFails, PollRaises, PublishRaises,
     Publish, PublishDbus, Exit, Kill, ProcessEnds, DropHelper, Device, vars
<1> QED
  BY <1>0, <1>1, InitialValuesType, ValuesType DEF BusTypeOK

\* Every variable keeps its type, and the thread is where the invariant says:
\* error_count never passes QuitAfter, no limit ever appears, and a serial
\* connection is never one that a server has closed.
THEOREM Typing == Spec => [](TypeOK /\ ControlInv)
<1>1. Init => TypeInv
  BY InitType
<1>2. TypeInv /\ [Next]_vars => TypeInv'
  BY StepType
<1>3. TypeInv => TypeOK /\ ControlInv
  BY DEF TypeInv
<1> QED
  BY <1>1, <1>2, <1>3, PTL DEF Spec

-----------------------------------------------------------------------------
\* The measurements of the bus are those of the service's beginning, or one
\* complete poll whose state agrees with the AC input.
BusInv == bus = InitialValues \/ (Complete(bus) /\ StateFollowsInput)

ServiceInv == TypeInv /\ PollInv /\ BusInv

LEMMA InitInv == Init => ServiceInv
<1> SUFFICES ASSUME Init PROVE ServiceInv
  OBVIOUS
<1>1. PollInv
  BY DEF Init, HelperInit, SamlexInit, PollInv
<1>2. BusInv
  BY DEF Init, HelperInit, BusInv
<1> QED
  BY <1>1, <1>2, InitType DEF ServiceInv

\* One group keeps the record of what the poll has brought so far.
LEMMA GroupFresh ==
  ASSUME TypeInv, PollInv, PollGroup
  PROVE  PollInv'
<1>0. PICK ok \in BOOLEAN :
        ReadAcOut(ok) \/ ReadDc(ok) \/ ReadAcIn(ok) \/ ReadStatus(ok)
  BY DEF PollGroup, ReadGroup
<1>1. step' = "refresh"
  BY DEF PollGroup, helperVars
<1>2. \A g \in Group : readings \in [Group -> Origin] /\ After(g, TRUE)[g] = "fresh"
  BY DEF TypeInv, TypeOK, SamlexTypeOK, After
<1>3. \A g, h \in Group : readings[h] = "fresh" => After(g, TRUE)[h] = "fresh"
  BY <1>2 DEF After
<1> SUFFICES ASSUME ~error'
             PROVE  /\ batch' >= 2 => readings'["ac_out"] = "fresh"
                    /\ batch' >= 3 => readings'["dc"] = "fresh"
                    /\ batch' >= 4 => readings'["ac_in"] = "fresh"
                    /\ batch' >= 5 => readings'["status"] = "fresh" /\ StateAgrees'
  BY <1>1 DEF PollInv
<1>4. CASE ReadAcOut(ok)
  <2>1. ok = TRUE
    BY <1>4, Zenon DEF ReadAcOut
  <2>2. batch' = 2 /\ readings' = After("ac_out", TRUE)
    BY <1>4, <2>1 DEF ReadAcOut
  <2>3. readings'["ac_out"] = "fresh"
    BY <1>2, <2>2 DEF Group
  <2>4. batch' = 2
    BY <2>2
  <2> QED
    BY <2>3, <2>4
<1>5. CASE ReadDc(ok)
  <2>1. ok = TRUE /\ ~error
    BY <1>5, Zenon DEF ReadDc
  <2>2. readings["ac_out"] = "fresh"
    BY <1>5, <2>1 DEF ReadDc, PollInv
  <2>3. batch' = 3 /\ readings' = After("dc", TRUE)
    BY <1>5, <2>1 DEF ReadDc
  <2>4. readings'["ac_out"] = "fresh" /\ readings'["dc"] = "fresh"
    BY <1>2, <1>3, <2>2, <2>3 DEF Group
  <2>5. batch' = 3
    BY <2>3
  <2> QED
    BY <2>4, <2>5
<1>6. CASE ReadAcIn(ok)
  <2>1. ok = TRUE /\ ~error
    BY <1>6, Zenon DEF ReadAcIn
  <2>2. readings["ac_out"] = "fresh" /\ readings["dc"] = "fresh"
    BY <1>6, <2>1 DEF ReadAcIn, PollInv
  <2>3. batch' = 4 /\ readings' = After("ac_in", TRUE)
    BY <1>6, <2>1 DEF ReadAcIn
  <2>4. /\ readings'["ac_out"] = "fresh"
        /\ readings'["dc"] = "fresh"
        /\ readings'["ac_in"] = "fresh"
    BY <1>2, <1>3, <2>2, <2>3 DEF Group
  <2>5. batch' = 4
    BY <2>3
  <2> QED
    BY <2>4, <2>5
<1>7. CASE ReadStatus(ok)
  <2>1. ok = TRUE /\ ~error
    BY <1>7, Zenon DEF ReadStatus
  <2>2. /\ readings["ac_out"] = "fresh" /\ readings["dc"] = "fresh"
        /\ readings["ac_in"] = "fresh"
    BY <1>7, <2>1 DEF ReadStatus, PollInv
  <2>3. StateAgrees'
    BY <1>7, <2>1 DEF ReadStatus, StateOf, StateAgrees
  <2>4. batch' = 5 /\ readings' = After("status", TRUE)
    BY <1>7, <2>1 DEF ReadStatus
  <2> QED
    BY <1>2, <1>3, <2>2, <2>3, <2>4 DEF Group
<1> QED
  BY <1>0, <1>4, <1>5, <1>6, <1>7

\* What the steps after the groups do with a complete poll.
LEMMA StepInv == ServiceInv /\ [Next]_vars => ServiceInv'
<1> SUFFICES ASSUME ServiceInv, [Next]_vars
             PROVE  PollInv' /\ BusInv'
  BY StepType DEF ServiceInv
<1>0. TypeInv /\ PollInv /\ BusInv /\ ControlInv /\ SamlexTypeOK
  BY DEF ServiceInv, TypeInv, TypeOK
\* Outside the groups nothing is owed.
<1>a. ASSUME batch' \in {0, 1}, step' # "publish"
      PROVE  PollInv'
  BY <1>a DEF PollInv
<1>b. ASSUME UNCHANGED <<readings, connected, status>>, Complete(VebusValues), StateAgrees
      PROVE  Complete(VebusValues)' /\ StateAgrees'
  BY <1>b DEF Complete, VebusValues, StateAgrees
<1>c. ASSUME UNCHANGED bus
      PROVE  BusInv'
  BY <1>0, <1>c DEF BusInv, InitialValues, Complete, StateFollowsInput
<1>d. ASSUME bus' = InitialValues
      PROVE  BusInv'
  BY <1>d DEF BusInv, InitialValues
<1>1. CASE Start
  <2>1. batch' = 0 /\ step' = "idle" /\ bus' = InitialValues
    BY <1>0, <1>1 DEF Start, SetupVedbus, ControlInv, localVars
  <2> QED
    BY <2>1, <1>a, <1>d
<1>2. CASE BeginPoll
  BY <1>2, <1>a, <1>c DEF BeginPoll, BeginPublish, BeginRefresh
<1>3. CASE PollGroup
  BY <1>0, <1>3, <1>c, GroupFresh DEF PollGroup, helperVars
<1>4. CASE PollSucceeds
  <2>1. Complete(VebusValues) /\ StateAgrees
    BY <1>0, <1>4 DEF PollSucceeds, PollInv, Complete, VebusValues, Group
  <2>2. batch' = 0 /\ UNCHANGED <<readings, connected, status, bus>>
    BY <1>4 DEF PollSucceeds, RefreshSucceeds, EndRefresh, readVars
  <2> QED
    BY <2>1, <2>2, <1>b, <1>c DEF PollInv
<1>5. CASE PollFails \/ PollRaises
  BY <1>5, <1>a, <1>c DEF PollFails, RefreshFails, PollRaises, PublishRaises, EndRefresh
<1>6. CASE Publish
  <2>1. step = "publish" /\ bus' = VebusValues /\ UNCHANGED batch /\ step' = "idle"
    BY <1>6 DEF Publish, PublishDbus, localVars
  <2>2. batch = 0 /\ Complete(VebusValues) /\ StateAgrees
    BY <1>0, <2>1 DEF ControlInv, PollInv
  <2>3. Complete(bus')
    BY <2>1, <2>2
  <2>4. bus'.activeInput = 240 => bus'.state \in {0, 2, 9} /\ bus'.connected = 0
    BY <1>0, <2>1, <2>2 DEF StateAgrees, VebusValues, SamlexTypeOK
  <2> QED
    BY <2>1, <2>2, <2>3, <2>4, <1>a DEF BusInv, Complete, StateFollowsInput
<1>7. CASE Exit \/ Kill
  BY <1>7, <1>a, <1>d DEF Exit, Kill, ProcessEnds, DropHelper, DropSamlex
<1>8. CASE Device \/ UNCHANGED vars
  <2>1. UNCHANGED <<step, batch, bus, error, readings, connected, status>>
    BY <1>8 DEF Device, vars, helperVars, inverterVars, readVars, localVars
  <2>2. StateAgrees => StateAgrees'
    BY <2>1 DEF StateAgrees
  <2> QED
    BY <1>0, <2>1, <2>2, <1>b, <1>c DEF PollInv
<1> QED
  BY <1>1, <1>2, <1>3, <1>4, <1>5, <1>6, <1>7, <1>8 DEF Next, Driver

\* Whatever groups fail: a service that shows no AC input shows the state of an
\* inverter on its battery, or a fault, and no stage of the charger.
THEOREM StateFollows == Spec => []StateFollowsInput
<1>1. Init => ServiceInv
  BY InitInv
<1>2. ServiceInv /\ [Next]_vars => ServiceInv'
  BY StepInv
<1>3. ServiceInv => StateFollowsInput
  BY DEF ServiceInv, BusInv, StateFollowsInput, InitialValues
<1> QED
  BY <1>1, <1>2, <1>3, PTL DEF Spec

\* A request takes the unit off the list, or is an error.
LEMMA GroupSilence ==
  ASSUME TypeInv, SilenceInv, PollGroup
  PROVE  SilenceInv'
<1>1. PICK ok \in BOOLEAN :
        /\ IF ok THEN Answered ELSE Failed
        /\ ReadAcOut(ok) \/ ReadDc(ok) \/ ReadAcIn(ok) \/ ReadStatus(ok)
  BY DEF PollGroup, ReadGroup
<1>2. step' = "refresh"
  BY DEF PollGroup, helperVars
<1>3. ok => ~noResponse'
  BY <1>1, Zenon DEF Answered
<1>4. ~ok => error'
  BY <1>1, Zenon DEF ReadAcOut, ReadDc, ReadAcIn, ReadStatus
<1>5. batch' \in 1 .. 5
  BY GroupType
<1>6. batch' # 0 /\ step' # "publish"
  BY <1>2, <1>5
<1> QED
  BY <1>3, <1>4, <1>6, Zenon DEF SilenceInv

LEMMA StepSilence ==
  ASSUME TypeInv, SilenceInv, [Next]_vars
  PROVE  SilenceInv'
<1>0. errorCount \in Nat
  BY DEF TypeInv, TypeOK, HelperTypeOK
<1>1. CASE Start
  <2>1. ~noResponse' /\ UNCHANGED <<batch, error>>
    BY <1>1, Zenon DEF Start, localVars
  <2> QED
    BY <2>1, Zenon DEF SilenceInv
<1>2. CASE BeginPoll
  <2>1. UNCHANGED <<noResponse, proc, errorCount>> /\ batch' = 1 /\ step' = "refresh"
    BY <1>2 DEF BeginPoll, BeginPublish, BeginRefresh, clientVars
  <2>2. ~error
    BY <1>2, Zenon DEF BeginPoll, BeginPublish, TypeInv, ControlInv, SilenceInv
  <2> QED
    BY <2>1, <2>2 DEF SilenceInv
<1>3. CASE PollGroup
  BY <1>3, GroupSilence
<1>4. CASE PollSucceeds
  <2>1. ~noResponse' /\ ~error'
    <3>1. ~noResponse
      BY <1>4 DEF PollSucceeds, SilenceInv
    <3> QED
      BY <1>4, <3>1, Zenon DEF PollSucceeds, EndRefresh, clientVars
  <2> QED
    BY <2>1, Zenon DEF SilenceInv
<1>5. CASE PollFails
  <2>1. errorCount' > 0 /\ batch' = 0 /\ step' = "idle" /\ error' = FALSE
    BY <1>0, <1>5 DEF PollFails, RefreshFails, EndRefresh
  <2> QED
    BY <2>1 DEF SilenceInv
<1>6. CASE PollRaises \/ Exit \/ Kill
  <2>1. proc' # "running" /\ batch' = 0 /\ step' = "idle" /\ error' = FALSE
    BY <1>6 DEF PollRaises, PublishRaises, EndRefresh, Exit, Kill, ProcessEnds, DropHelper,
                DropSamlex
  <2> QED
    BY <2>1 DEF SilenceInv
<1>7. CASE Publish
  <2>1. step = "publish" /\ UNCHANGED <<noResponse, batch, error>>
    BY <1>7 DEF Publish, PublishDbus, clientVars, localVars
  <2>2. ~noResponse'
    BY <2>1, Zenon DEF SilenceInv
  <2> QED
    BY <2>1, <2>2, Zenon DEF SilenceInv
<1>8. CASE Device \/ UNCHANGED vars
  <2>1. UNCHANGED <<noResponse, proc, step, errorCount, batch, error>>
    BY <1>8 DEF Device, ChangeLink, ChangeSituation, ServerCloses, vars, helperVars,
                localVars, clientVars
  <2> QED
    BY <2>1 DEF SilenceInv
<1> QED
  BY <1>1, <1>2, <1>3, <1>4, <1>5, <1>6, <1>7, <1>8 DEF Next, Driver

\* Only failed polls, and then QuitAfter in a row, a closed connection, or an
\* answer cut short after an earlier error end the driver by its own decision.
LEMMA StepQuits ==
  ASSUME TypeInv, SilenceInv, [Next]_vars, Quits
  PROVE  \/ errorCount' >= QuitAfter
         \/ socket = "shut"
         \/ Transport = "tcp" /\ link = "flaky" /\ (errorCount > 0 \/ error)
<1>1. CASE PollFails
  BY <1>1 DEF PollFails, RefreshFails, Quits
<1>2. CASE PollRaises
  <2>1. CASE RaisedByClose
    BY <2>1 DEF RaisedByClose
  <2>2. CASE RaisedByCut
    BY <2>2 DEF RaisedByCut, SilenceInv, Quits
  <2> QED
    BY <1>2, <2>1, <2>2 DEF PollRaises, Raised
<1>3. ~(PollFails \/ PollRaises) => ~Quits
  BY DEF Quits, Next, Driver, Start, SetupVedbus, BeginPoll, BeginPublish, PollGroup,
     helperVars, PollSucceeds, RefreshSucceeds, Publish, PublishDbus, Exit, Kill,
     ProcessEnds, DropHelper, Device, vars
<1> QED
  BY <1>1, <1>2, <1>3

LEMMA InitSilence == Init => SilenceInv
  BY Zenon DEF Init, SamlexInit, SilenceInv

\* Besides the count, only a closed connection and an answer cut short after an
\* earlier error make the driver give up: the first error never does.
THEOREM Causes == Spec => QuitsForCause
<1>1. Init => TypeInv /\ SilenceInv
  BY InitType, InitSilence
<1>2. TypeInv /\ SilenceInv /\ [Next]_vars => TypeInv' /\ SilenceInv'
  BY StepType, StepSilence
<1>3. TypeInv /\ SilenceInv /\ [Next]_vars
        => [Quits => \/ errorCount' >= QuitAfter
                     \/ socket = "shut"
                     \/ link = "flaky" /\ (errorCount > 0 \/ error)]_vars
  BY StepQuits
<1> QED
  BY <1>1, <1>2, <1>3, PTL DEF Spec, QuitsForCause

\* On a serial line the documentation is right: the driver exits after
\* QuitAfter failures in a row, and not before.
THEOREM Counted ==
  ASSUME Transport = "rtu"
  PROVE  Spec => QuitsAfterCounting
<1>1. Init => TypeInv /\ SilenceInv
  BY InitType, InitSilence
<1>2. TypeInv /\ SilenceInv /\ [Next]_vars => TypeInv' /\ SilenceInv'
  BY StepType, StepSilence
<1>3. TypeInv /\ SilenceInv /\ [Next]_vars => [Quits => errorCount' >= QuitAfter]_vars
  <2>1. TypeInv => socket # "shut"
    BY DEF TypeInv, TypeOK, SamlexTypeOK
  <2> QED
    BY <2>1, StepQuits
<1> QED
  BY <1>1, <1>2, <1>3, PTL DEF Spec, QuitsAfterCounting

-----------------------------------------------------------------------------
\* /UpdateIndex as the code computes it is the abstract one.
LEMMA IndexWraps ==
  ASSUME HelperTypeOK
  PROVE  NextIndex = (busIndex + 1) % (IndexMax + 1)
<1>1. busIndex \in 0 .. IndexMax /\ IndexMax \in Nat
  BY CountAssumption DEF HelperTypeOK
<1>2. CASE busIndex < IndexMax
  <2>1. (busIndex + 1) % (IndexMax + 1) = busIndex + 1
    BY <1>1, <1>2
  <2> QED
    BY <1>1, <1>2, <2>1 DEF NextIndex
<1>3. CASE busIndex = IndexMax
  <2>1. (IndexMax + 1) % (IndexMax + 1) = 0
    BY <1>1
  <2> QED
    BY <1>1, <1>3, <2>1 DEF NextIndex
<1> QED
  BY <1>1, <1>2, <1>3

LEMMA MappedInit ==
  ASSUME Init
  PROVE  Promise!Init
  BY DEF Init, HelperInit, Promise!Init, Promise!Absent, Shown

LEMMA ShownUnchanged ==
  ASSUME UNCHANGED <<proc, bus>>
  PROVE  Shown' = Shown
  BY DEF Shown, InitialValues, Complete

LEMMA ShownWhileUp ==
  ASSUME proc # "down", proc' # "down", UNCHANGED bus
  PROVE  Shown' = Shown
  BY DEF Shown, InitialValues, Complete

\* Every step of the program is a step of the service, or one it does not see.
LEMMA MappedStep ==
  ASSUME ServiceInv, TypeInv', [Next]_vars
  PROVE  [Promise!Next]_(Promise!serviceVars)
<1> USE DEF Promise!Next, Promise!serviceVars
<1>0. PollInv /\ ControlInv /\ HelperTypeOK /\ busLimit = None /\ busLimit' = None
  BY DEF ServiceInv, TypeInv, TypeOK
<1>1. CASE Start
  <2>1. /\ proc = "down" /\ proc' = "running" /\ busIndex' = 0
        /\ bus' = InitialValues /\ InitialValues' = InitialValues
    BY <1>1 DEF Start, SetupVedbus, InitialValues
  <2>2. Shown' = "initial"
    BY <2>1 DEF Shown
  <2> QED
    BY <1>0, <2>1, <2>2 DEF Promise!Appear
<1>2. CASE Publish
  <2>1. /\ proc = "running" /\ proc' = "running" /\ busIndex' = NextIndex
        /\ bus' = VebusValues
    BY <1>0, <1>2 DEF Publish, PublishDbus, ControlInv
  <2>2. Complete(VebusValues)
    BY <1>0, <1>2 DEF Publish, PublishDbus, PollInv
  <2>3. Complete(bus')
    BY <2>1, <2>2
  <2>4. bus' # InitialValues
    BY <2>3 DEF Complete, InitialValues, Group
  <2>5. Shown' = "measured"
    BY <2>1, <2>3, <2>4 DEF Shown, Complete, InitialValues
  <2> QED
    BY <1>0, <2>1, <2>5, IndexWraps DEF Promise!Update
<1>3. CASE Exit \/ Kill
  <2>1. proc # "down" /\ proc' = "down" /\ busIndex' = 0
    BY <1>3 DEF Exit, Kill, ProcessEnds, DropHelper
  <2> QED
    BY <1>0, <2>1 DEF Promise!Vanish, Shown
\* Everything else happens behind the service's back.
<1>4. CASE PollFails \/ PollRaises
  <2>1. proc # "down" /\ proc' # "down" /\ UNCHANGED <<bus, busIndex>>
    BY <1>0, <1>4 DEF PollFails, RefreshFails, PollRaises, PublishRaises, ControlInv
  <2> QED
    BY <1>0, <2>1, ShownWhileUp
<1>5. CASE BeginPoll \/ PollGroup \/ PollSucceeds \/ Device \/ UNCHANGED vars
  <2>1. UNCHANGED <<proc, bus, busIndex>>
    BY <1>5 DEF BeginPoll, BeginPublish, PollGroup, PollSucceeds, RefreshSucceeds,
                Device, vars, helperVars
  <2> QED
    BY <1>0, <2>1, ShownUnchanged
<1> QED
  BY <1>1, <1>2, <1>3, <1>4, <1>5 DEF Next, Driver

\* The program implements the abstract service: every set a client is shown is
\* complete, of one poll, and comes with the next index; nothing else moves.
THEOREM Implements == Spec => KeepsPromise
<1>1. Init => ServiceInv /\ Promise!Init
  BY InitInv, MappedInit
<1>2. ServiceInv /\ [Next]_vars => ServiceInv'
  BY StepInv
<1>3. ServiceInv /\ ServiceInv' /\ [Next]_vars => [Promise!Next]_(Promise!serviceVars)
  BY MappedStep DEF ServiceInv
<1> QED
  BY <1>1, <1>2, <1>3, PTL DEF Spec, KeepsPromise, Promise!Spec

-----------------------------------------------------------------------------
(* What is published is true of the device                                 *)

LEMMA WordSize == Word \in Nat /\ MaxInt16 \in Nat /\ Word = 2 * MaxInt16 + 2
  BY DEF Word, MaxInt16

\* A signed value survives its register.
LEMMA SignedRegister ==
  ASSUME NEW n \in 0 .. MaxInt16
  PROVE  /\ ToInt16(n % Word) = n
         /\ n > 0 => ToInt16((-n) % Word) = -n
<1>1. n % Word = n
  BY WordSize
<1>2. n > 0 => (-n) % Word = Word - n
  BY WordSize
<1> QED
  BY <1>1, <1>2, WordSize DEF ToInt16

\* Of what the two groups read from a device in situation s, the driver makes
\* the power of its loads.
LEMMA LoadIsTrue ==
  ASSUME NEW s \in Situations, Connected(s) => s.charger > 0
  PROVE  LoadPower(GridVA(s), ToInt16(AcOutRegister(s))) = TrueLoad(s)
<1>1. s.load \in 0 .. MaxInt16 /\ s.charger \in 0 .. MaxInt16 /\ s.mode \in 0 .. 4
  BY SamlexAssumption DEF Situation
<1>2. CASE Connected(s)
  <2>1. ToInt16(AcOutRegister(s)) = -s.charger
    BY <1>1, <1>2, SignedRegister DEF AcOutRegister
  <2>2. GridVA(s) = s.load + s.charger /\ GridVA(s) # None
    BY <1>1, <1>2, WordSize, SamlexAssumption DEF GridVA
  <2> QED
    BY <1>1, <1>2, <2>1, <2>2, WordSize DEF LoadPower, TrueLoad, Connected
<1>3. CASE ~Connected(s) /\ s.mode = 3
  <2>1. ToInt16(AcOutRegister(s)) = s.load
    BY <1>1, <1>3, SignedRegister DEF AcOutRegister
  <2> QED
    BY <1>1, <1>3, <2>1, WordSize DEF LoadPower, TrueLoad
<1>4. CASE ~Connected(s) /\ s.mode # 3
  <2>1. 0 \in 0 .. MaxInt16
    BY WordSize
  <2>2. ToInt16(AcOutRegister(s)) = 0
    BY <1>4, <2>1, SignedRegister DEF AcOutRegister
  <2> QED
    BY <1>4, <2>2 DEF LoadPower, TrueLoad, Connected
<1> QED
  BY <1>2, <1>3, <1>4

-----------------------------------------------------------------------------
\* What a poll without an error so far knows of a device that has been in
\* situation s since it began.
PowerKnown(s) == acOut /\ acPower = ToInt16(AcOutRegister(s))

InputKnown(s) ==
  /\ acPower = LoadPower(GridVA(s), ToInt16(AcOutRegister(s)))
  /\ gridVA = GridVA(s)
  /\ connected = IF Connected(s) THEN 1 ELSE 0

StatusKnown(s) ==
  /\ status = StateOf(s.fault, connected, s.charge)
  /\ chargeState = ChargeStateOf(s.charge)

Known(s) ==
  /\ batch \in {2, 3} /\ ~error => PowerKnown(s)
  /\ batch \in {4, 5} /\ ~error => InputKnown(s)
  /\ batch = 5 /\ ~error => StatusKnown(s)
  /\ step = "publish" => InputKnown(s) /\ StatusKnown(s)

SomeFault == \E s \in seen : s.fault # 0

TruthInv ==
  /\ TypeInv
  /\ seen \subseteq Situations
  /\ step = "refresh" => situation \in seen
  /\ \A s \in seen : seen = {s} => Known(s)
  /\ (batch = 5 /\ ~error) \/ step = "publish" => (status = 2 => SomeFault)

\* One group, read from a device in situation s.
LEMMA GroupKnown ==
  ASSUME TypeInv, NEW s, situation = s, Known(s), PollGroup
  PROVE  Known(s)'
<1>0. PICK ok \in BOOLEAN :
        ReadAcOut(ok) \/ ReadDc(ok) \/ ReadAcIn(ok) \/ ReadStatus(ok)
  BY DEF PollGroup, ReadGroup
<1>1. step' = "refresh"
  BY DEF PollGroup, helperVars
<1> SUFFICES ASSUME ~error'
             PROVE  /\ batch' \in {2, 3} => PowerKnown(s)'
                    /\ batch' \in {4, 5} => InputKnown(s)'
                    /\ batch' = 5 => StatusKnown(s)'
  BY <1>1 DEF Known
<1>2. CASE ReadAcOut(ok)
  <2>1. ok = TRUE
    BY <1>2, Zenon DEF ReadAcOut
  <2>2. PowerKnown(s)'
    BY <1>2, <2>1 DEF ReadAcOut, PowerKnown
  <2>3. batch' = 2
    BY <1>2 DEF ReadAcOut
  <2> QED
    BY <2>2, <2>3
<1>3. CASE ReadDc(ok)
  <2>1. batch = 2 /\ ~error
    BY <1>3, Zenon DEF ReadDc
  <2>2. PowerKnown(s)
    BY <2>1 DEF Known
  <2>3. PowerKnown(s)'
    BY <1>3, <2>2 DEF ReadDc, PowerKnown
  <2>4. batch' = 3
    BY <1>3 DEF ReadDc
  <2> QED
    BY <2>3, <2>4
<1>4. CASE ReadAcIn(ok)
  <2>1. batch = 3 /\ ~error /\ ok = TRUE
    BY <1>4, Zenon DEF ReadAcIn
  <2>2. PowerKnown(s)
    BY <2>1 DEF Known
  <2>3. InputKnown(s)'
    BY <1>4, <2>1, <2>2 DEF ReadAcIn, PowerKnown, InputKnown
  <2>4. batch' = 4
    BY <1>4 DEF ReadAcIn
  <2> QED
    BY <2>3, <2>4
<1>5. CASE ReadStatus(ok)
  <2>1. batch = 4 /\ ~error /\ ok = TRUE
    BY <1>5, Zenon DEF ReadStatus
  <2>2. InputKnown(s)
    BY <2>1 DEF Known
  <2>3. InputKnown(s)'
    BY <1>5, <2>2 DEF ReadStatus, InputKnown
  <2>4. StatusKnown(s)'
    BY <1>5, <2>1 DEF ReadStatus, StatusKnown
  <2>5. batch' = 5
    BY <1>5 DEF ReadStatus
  <2> QED
    BY <2>3, <2>4, <2>5
<1> QED
  BY <1>0, <1>2, <1>3, <1>4, <1>5

\* A state that was read is a fault only if the device had one.
LEMMA GroupFault ==
  ASSUME PollGroup, batch' = 5, ~error', status' = 2
  PROVE  situation.fault # 0
<1>1. PICK ok \in BOOLEAN :
        ReadAcOut(ok) \/ ReadDc(ok) \/ ReadAcIn(ok) \/ ReadStatus(ok)
  BY DEF PollGroup, ReadGroup
<1>2. ReadStatus(ok)
  BY <1>1 DEF ReadAcOut, ReadDc, ReadAcIn
<1>3. ok = TRUE
  BY <1>2, Zenon DEF ReadStatus
<1>4. StateOf(situation.fault, connected, situation.charge) = 2
  BY <1>2, <1>3 DEF ReadStatus
<1> QED
  BY <1>4 DEF StateOf, StateFromCharge

\* Nothing is known, and nothing owed, outside a poll.
LEMMA NothingOwed ==
  ASSUME batch' \in {0, 1}, step' # "publish"
  PROVE  /\ \A s : Known(s)'
         /\ ~((batch' = 5 /\ ~error') \/ step' = "publish")
  BY DEF Known

LEMMA InitTruth == TruthInit => TruthInv
<1> SUFFICES ASSUME TruthInit PROVE TruthInv
  OBVIOUS
<1>1. TypeInv /\ batch = 0 /\ step = "idle" /\ seen = {}
  BY InitType DEF TruthInit, Init, HelperInit, SamlexInit
<1> QED
  BY <1>1 DEF TruthInv

\* During a poll nothing is known that the device's next situation could make
\* wrong: it joins those seen, and then no single one is.
LEMMA StepTruth == TruthInv /\ [TruthNext]_truthVars => TruthInv'
<1> SUFFICES ASSUME TruthInv, [TruthNext]_truthVars PROVE TruthInv'
  OBVIOUS
<1> SUFFICES /\ step' = "refresh" => situation' \in seen'
             /\ \A s \in seen' : seen' = {s} => Known(s)'
             /\ (batch' = 5 /\ ~error') \/ step' = "publish"
                  => (status' = 2 => SomeFault')
  <2>1. TypeInv /\ [Next]_vars
    BY DEF TruthInv, TruthNext, truthVars
  <2>2. TypeInv'
    BY <2>1, StepType
  <2>3. situation' \in Situations
    BY <2>2 DEF TypeInv, TypeOK, SamlexTypeOK
  <2>4. seen' \subseteq Situations
    BY <2>3 DEF TruthInv, TruthNext, truthVars
  <2> QED
    BY <2>2, <2>4 DEF TruthInv
<1>0. /\ TypeInv /\ ControlInv
      /\ step = "refresh" => situation \in seen
      /\ \A s \in seen : seen = {s} => Known(s)
      /\ (batch = 5 /\ ~error) \/ step = "publish" => (status = 2 => SomeFault)
  BY DEF TruthInv, TypeInv
\* Outside the poll.
<1>1. ASSUME TruthNext, batch' \in {0, 1}, step' \in {"idle", "refresh"},
             step' = "refresh" => PollBegins
      PROVE  step' = "refresh" => situation' \in seen'
  BY <1>1 DEF TruthNext
<1>2. CASE TruthNext /\ (Start \/ Publish)
  <2>1. batch' = 0 /\ step' = "idle"
    BY <1>0, <1>2 DEF Start, SetupVedbus, Publish, PublishDbus, localVars, ControlInv
  <2> QED
    BY <1>1, <1>2, <2>1, NothingOwed
<1>3. CASE TruthNext /\ BeginPoll
  <2>1. batch' = 1 /\ step' = "refresh" /\ PollBegins
    BY <1>3 DEF BeginPoll, BeginPublish, BeginRefresh, PollBegins
  <2> QED
    BY <1>1, <1>3, <2>1, NothingOwed
<1>4. CASE TruthNext /\ (PollFails \/ PollRaises)
  <2>1. batch' = 0 /\ step' = "idle"
    BY <1>4 DEF PollFails, RefreshFails, PollRaises, PublishRaises, EndRefresh
  <2> QED
    BY <1>1, <1>4, <2>1, NothingOwed
<1>5. CASE TruthNext /\ (Exit \/ Kill)
  <2>1. batch' = 0 /\ step' = "idle"
    BY <1>5 DEF Exit, Kill, ProcessEnds, DropHelper, DropSamlex
  <2> QED
    BY <1>1, <1>5, <2>1, NothingOwed
<1>6. CASE TruthNext /\ PollGroup
  <2>1. /\ step = "refresh" /\ step' = "refresh" /\ proc' = "running"
        /\ situation' = situation /\ situation \in seen
    BY <1>0, <1>6 DEF PollGroup, ReadGroup, helperVars, deviceVars, ControlInv
  <2>2. seen' = seen
    BY <1>6, <2>1 DEF TruthNext, PollBegins
  <2>3. ASSUME NEW s \in seen, seen = {s}
        PROVE  Known(s)'
    <3>1. situation = s /\ Known(s)
      BY <1>0, <2>1, <2>3
    <3> QED
      BY <1>0, <1>6, <3>1, GroupKnown
  <2>4. ASSUME batch' = 5, ~error', status' = 2
        PROVE  SomeFault'
    <3>1. situation.fault # 0
      BY <1>6, <2>4, GroupFault
    <3> QED
      BY <2>1, <2>2, <3>1 DEF SomeFault
  <2> QED
    BY <2>1, <2>2, <2>3, <2>4
<1>7. CASE TruthNext /\ PollSucceeds
  <2>1. /\ step = "refresh" /\ step' = "publish" /\ proc' = "running"
        /\ situation' = situation /\ situation \in seen
        /\ batch = 5 /\ batch' = 0 /\ ~error
        /\ UNCHANGED <<acPower, gridVA, connected, chargeState, status>>
    BY <1>0, <1>7 DEF PollSucceeds, RefreshSucceeds, EndRefresh, readVars, deviceVars,
                      ControlInv, TypeInv, TypeOK
  <2>2. seen' = seen
    BY <1>7, <2>1 DEF TruthNext, PollBegins
  <2>3. ASSUME NEW s \in seen, seen = {s}
        PROVE  Known(s)'
    <3>1. InputKnown(s) /\ StatusKnown(s)
      BY <1>0, <2>1, <2>3 DEF Known
    <3>2. InputKnown(s)' /\ StatusKnown(s)'
      BY <2>1, <3>1 DEF InputKnown, StatusKnown
    <3> QED
      BY <2>1, <3>2 DEF Known
  <2>4. status' = 2 => SomeFault'
    BY <1>0, <2>1, <2>2 DEF SomeFault
  <2> QED
    BY <2>1, <2>2, <2>3, <2>4
<1>8. CASE TruthNext /\ Device
  <2>1. UNCHANGED <<proc, step, status, batch, acOut, error,
                    acPower, gridVA, connected, chargeState>>
    BY <1>8 DEF Device, helperVars, inverterVars, readVars, localVars
  <2>2. ASSUME NEW s, Known(s)
        PROVE  Known(s)'
    BY <2>1, <2>2 DEF Known, PowerKnown, InputKnown, StatusKnown
  <2>3. CASE step = "idle"
    <3>1. batch' = 0 /\ step' = "idle"
      BY <1>0, <2>1, <2>3 DEF ControlInv
    <3> QED
      BY <1>1, <1>8, <3>1, NothingOwed
  <2>4. CASE step # "idle"
    <3>1. /\ seen \subseteq seen' /\ (step = "refresh" => situation' \in seen')
          /\ seen' \subseteq seen \cup {situation'}
          /\ (step # "refresh" => seen' = seen)
      BY <1>0, <1>8, <2>1, <2>4 DEF TruthNext, PollBegins, ControlInv
    <3>2. ASSUME NEW s \in seen', seen' = {s}
          PROVE  Known(s)'
      <4>1. seen = {s}
        BY <1>0, <3>1, <3>2
      <4> QED
        BY <1>0, <2>2, <4>1
    <3>3. SomeFault => SomeFault'
      BY <3>1 DEF SomeFault
    <3> QED
      BY <1>0, <2>1, <3>1, <3>2, <3>3
  <2> QED
    BY <2>3, <2>4
<1>9. CASE UNCHANGED truthVars
  <2>1. UNCHANGED <<seen, situation, step, status, batch, acOut, error,
                    acPower, gridVA, connected, chargeState>>
    BY <1>9 DEF truthVars, vars, helperVars, inverterVars, readVars, localVars, deviceVars
  <2>2. ASSUME NEW s, Known(s)
        PROVE  Known(s)'
    BY <2>1, <2>2 DEF Known, PowerKnown, InputKnown, StatusKnown
  <2> QED
    BY <1>0, <2>1, <2>2 DEF SomeFault
<1> QED
  BY <1>2, <1>3, <1>4, <1>5, <1>6, <1>7, <1>8, <1>9 DEF TruthNext, Next, Driver

-----------------------------------------------------------------------------
\* Only publish_dbus() ends a poll that was read, and what it puts on the bus
\* is what the poll has left.
LEMMA PublishedStep ==
  ASSUME TruthInv, TruthNext, Published
  PROVE  step = "publish" /\ bus' = VebusValues
<1>1. TypeInv /\ ControlInv /\ step = "publish" /\ step' = "idle" /\ proc' = "running"
  BY DEF TruthInv, TypeInv, Published
<1>2. proc = "running"
  BY <1>1 DEF ControlInv
<1>3. ~Start /\ ~Exit
  BY <1>2 DEF Start, SetupVedbus, Exit
<1>4. ~Kill
  BY <1>1 DEF Kill, ProcessEnds, DropHelper
<1>5. ~BeginPoll /\ ~PollGroup /\ ~PollRaises
  BY <1>1 DEF BeginPoll, BeginPublish, PollGroup, PollRaises
<1>6. batch = 0
  BY <1>1 DEF ControlInv, TypeInv, TypeOK, SamlexTypeOK
<1>7. ~PollSucceeds /\ ~PollFails
  BY <1>6 DEF PollSucceeds, PollFails
<1>8. ~Device
  BY <1>1 DEF Device, helperVars
<1>9. Publish
  BY <1>3, <1>4, <1>5, <1>7, <1>8 DEF TruthNext, Next, Driver
<1> QED
  BY <1>1, <1>9 DEF Publish, PublishDbus

\* What a complete poll of a device in situation s has left, shown to clients.
LEMMA KnownIsShown ==
  ASSUME NEW s \in Situations, InputKnown(s), StatusKnown(s)
  PROVE  Shows(VebusValues, s)
<1>1. status = TrueState(s)
  BY DEF InputKnown, StatusKnown, StateOf, TrueState
<1>2. (Connected(s) => s.charger > 0) => acPower = TrueLoad(s)
  BY LoadIsTrue DEF InputKnown
<1>3. gridVA = GridVA(s) /\ GridVA(s) # None
  <2>1. GridVA(s) \in Int
    BY NumberTypes
  <2> QED
    BY <2>1, SamlexAssumption DEF InputKnown
<1>4. connected = (IF Connected(s) THEN 1 ELSE 0) /\ connected # None
  BY SamlexAssumption DEF InputKnown
<1>5. chargeState = ChargeStateOf(s.charge) /\ chargeState # None
  BY CodeTypes, SamlexAssumption DEF StatusKnown, ChargeState
<1> QED
  BY <1>1, <1>2, <1>3, <1>4, <1>5 DEF Shows, VebusValues

\* What is published of a device that did not change during the poll is true.
THEOREM Steady == TruthSpec => SteadyIsTrue
<1>1. TruthInit => TruthInv
  BY InitTruth
<1>2. TruthInv /\ [TruthNext]_truthVars => TruthInv'
  BY StepTruth
<1>3. ASSUME TruthInv, [TruthNext]_truthVars
      PROVE  [Published => \A s \in seen : seen = {s} => Shows(bus', s)]_truthVars
  <2> SUFFICES ASSUME TruthNext, Published, NEW s \in seen, seen = {s}
               PROVE  Shows(bus', s)
    BY <1>3
  <2>1. step = "publish" /\ bus' = VebusValues
    BY <1>3, PublishedStep
  <2>2. InputKnown(s) /\ StatusKnown(s)
    BY <1>3, <2>1 DEF TruthInv, Known
  <2>3. s \in Situations
    BY <1>3 DEF TruthInv
  <2> QED
    BY <2>1, <2>2, <2>3, KnownIsShown
<1> QED
  BY <1>1, <1>2, <1>3, PTL DEF TruthSpec, SteadyIsTrue

\* A fault that is published was one: no failed request is ever shown as one.
THEOREM RealFault == TruthSpec => FaultIsReal
<1>1. TruthInit => TruthInv
  BY InitTruth
<1>2. TruthInv /\ [TruthNext]_truthVars => TruthInv'
  BY StepTruth
<1>3. ASSUME TruthInv, [TruthNext]_truthVars
      PROVE  [Published /\ bus'.state = 2 => \E s \in seen : s.fault # 0]_truthVars
  <2> SUFFICES ASSUME TruthNext, Published, bus'.state = 2
               PROVE  SomeFault
    BY <1>3 DEF SomeFault
  <2>1. step = "publish" /\ bus' = VebusValues
    BY <1>3, PublishedStep
  <2>2. status = 2
    BY <2>1 DEF VebusValues
  <2> QED
    BY <1>3, <2>1, <2>2 DEF TruthInv
<1> QED
  BY <1>1, <1>2, <1>3, PTL DEF TruthSpec, FaultIsReal
=============================================================================
