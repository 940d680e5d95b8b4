---------------------------- MODULE SamlexService ----------------------------
(***************************************************************************)
(* The whole program for a Samlex EVO: the driver (Samlex), over a serial  *)
(* line or a TCP socket, under the D-Bus helper and the main loop          *)
(* (DbusHelper), with the device and the supervisor.  The service is of    *)
(* the class vebus: clients can set no power limit on it.                  *)
(***************************************************************************)
EXTENDS DbusHelper, Samlex

ASSUME VebusAssumption == Prefix = "vebus"

vars == <<helperVars, inverterVars, readVars, localVars, clientVars, deviceVars>>

\* What publish_dbus() puts on the paths of a vebus service (a charge state
\* that is None leaves the path alone), and what setup_vedbus() created them
\* with.
VebusValues ==
  [state |-> status,
   readings |-> readings,
   load |-> acPower,
   gridVA |-> IF gridVA = None THEN 0 ELSE gridVA,
   connected |-> IF connected = None THEN 0 ELSE connected,
   activeInput |-> IF connected = 1 THEN 0 ELSE 240,
   chargeState |-> IF chargeState = None THEN bus.chargeState ELSE chargeState]

InitialValues ==
  [state |-> 0,
   readings |-> [g \in Group |-> "const"],
   load |-> 0,
   gridVA |-> 0,
   connected |-> 0,
   activeInput |-> 240,
   chargeState |-> 0]

TypeOK ==
  /\ HelperTypeOK
  /\ SamlexTypeOK
  /\ powerLimit = None /\ activeLimit = None /\ busLimit = None
  /\ bus \in [state : State \cup {0, None}, readings : [Group -> Origin],
              load : Int \cup {None}, gridVA : Int, connected : {0, 1},
              activeInput : {0, 240}, chargeState : ChargeState]

Init ==
  /\ HelperInit(InitialValues)
  /\ InverterInit
  /\ SamlexInit
  /\ link \in {"up", "down", "flaky"}
  /\ situation \in Situations

-----------------------------------------------------------------------------
\* The supervisor starts the process, and main() gets as far as the main
\* loop: test_connection() has read a working status from 0 to 3, so a device
\* that is at fault (4) is not found.  Other starts leave all as it was.
Start ==
  /\ link # "down"
  /\ situation.mode \in 0 .. 3
  /\ GetSettings
  /\ SetupVedbus(InitialValues)
  /\ socket' = "open"
  /\ noResponse' = FALSE
  /\ UNCHANGED <<status, readVars, localVars, deviceVars>>

BeginPoll ==
  /\ BeginPublish
  /\ BeginRefresh

PollGroup ==
  /\ step = "refresh"
  /\ ReadGroup
  /\ UNCHANGED helperVars

PollSucceeds ==
  /\ batch = 5
  /\ ~error
  /\ RefreshSucceeds
  /\ EndRefresh
  /\ UNCHANGED clientVars

PollFails ==
  /\ batch = 5
  /\ error
  /\ RefreshFails
  /\ EndRefresh
  /\ UNCHANGED clientVars

\* The exceptions no one catches end refresh(), and publish_inverter() quits.
PollRaises ==
  /\ step = "refresh"
  /\ batch \in 1 .. 4
  /\ Raised
  /\ PublishRaises
  /\ EndRefresh

Publish ==
  /\ PublishDbus(VebusValues)
  /\ UNCHANGED <<readVars, localVars, clientVars, deviceVars>>

Driver ==
  \/ BeginPoll
  \/ PollGroup
  \/ PollSucceeds
  \/ PollFails
  \/ PollRaises
  \/ Publish

ProcessEnds ==
  /\ DropHelper(InitialValues)
  /\ DropInverter
  /\ DropSamlex
  /\ UNCHANGED deviceVars

\* The main loop has been told to quit: main() returns.
Exit ==
  /\ proc = "quitting"
  /\ ProcessEnds

\* svc -t, restartservice.sh, the USB adapter unplugged, power lost.
Kill ==
  /\ proc = "running"
  /\ ProcessEnds

Device ==
  /\ ChangeLink \/ ChangeSituation \/ ServerCloses
  /\ UNCHANGED <<helperVars, inverterVars, readVars, localVars>>

Next == Start \/ Driver \/ Exit \/ Kill \/ Device

Spec == Init /\ [][Next]_vars

-----------------------------------------------------------------------------
\* Every group on the bus is of the poll that published it.
Complete(values) == \A g \in Group : values.readings[g] = "fresh"

\* The paths tell one story: without AC at the input, the state is inverting
\* or a fault, never a stage of the charger, and nothing flows in.
StateFollowsInput ==
  bus.activeInput = 240 =>
    /\ bus.state \in {0, 2, 9}
    /\ bus.connected = 0

\* Where the one thread is; there is no limit, so none is ever applied.
ControlInv ==
  /\ step \in {"idle", "refresh", "publish"}
  /\ step # "idle" => proc = "running"
  /\ step = "refresh" <=> batch # 0
  /\ proc = "running" => errorCount < QuitAfter

\* What a poll without an error so far has brought, group by group; a poll
\* that returns True has brought all of it.
StateAgrees == connected # 1 => status \in {2, 9}

PollInv ==
  /\ batch >= 2 /\ ~error => readings["ac_out"] = "fresh"
  /\ batch >= 3 /\ ~error => readings["dc"] = "fresh"
  /\ batch >= 4 /\ ~error => readings["ac_in"] = "fresh"
  /\ batch >= 5 /\ ~error => readings["status"] = "fresh" /\ StateAgrees
  /\ step = "publish" => Complete(VebusValues) /\ StateAgrees

\* A unit is remembered as silent only while an error is, too.
SilenceInv ==
  /\ noResponse /\ proc = "running" => errorCount > 0 \/ error
  /\ batch >= 2 /\ ~error => ~noResponse
  /\ step = "publish" => ~noResponse
  /\ batch = 0 => ~error

\* The process ends by the driver's own decision.
Quits == proc = "running" /\ proc' = "quitting"

\* "After 60 consecutive failures the driver exits" (docs/samlex.md), and not
\* before.  It holds on a serial line; over TCP, one connection closed by the
\* server is enough, and so is an answer cut short after one that was missing.
QuitsAfterCounting == [][Quits => errorCount' >= QuitAfter]_vars

\* Nothing else makes the driver give up.  The first request that is lost, or
\* whose answer is cut short, never does: there must have been an error before,
\* in this poll or in those that failed since the last that did not.
QuitsForCause ==
  [][Quits => \/ errorCount' >= QuitAfter
              \/ socket = "shut"
              \/ link = "flaky" /\ (errorCount > 0 \/ error)]_vars

\* What a client sees of the measurements: "mixed" is what no service promises.
Shown ==
  IF proc = "down" THEN "none"
  ELSE IF bus = InitialValues THEN "initial"
  ELSE IF Complete(bus) THEN "measured" ELSE "mixed"

\* The driver keeps the promises of the abstract service, with no limit.
Promise == INSTANCE InverterService WITH
  Limits <- {None},
  up <- proc # "down",
  data <- Shown,
  index <- busIndex,
  limit <- busLimit

\* Every step of the program is a step of the service, or changes nothing a
\* client can see: whatever group fails, only complete polls are shown.
KeepsPromise == Promise!Spec
=============================================================================
