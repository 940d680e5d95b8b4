---------------------------- MODULE SolisService ----------------------------
(***************************************************************************)
(* The whole program for a Solis inverter: the driver (Solis) under the    *)
(* D-Bus helper and the main loop (DbusHelper), with what surrounds them:  *)
(* the D-Bus clients that set the power limit, the inverter and its cable, *)
(* and the supervisor (daemontools under serial-starter) that starts the   *)
(* process again whenever it has ended.                                    *)
(*                                                                         *)
(* Every step of the program is a step of DbusHelper joined with a step of *)
(* Solis.  Between two of them the device may change and the process may   *)
(* be killed; the D-Bus clients wait for the poll to be over.              *)
(***************************************************************************)
EXTENDS DbusHelper, Solis

CONSTANT Requests   \* the watts D-Bus clients ask for

ASSUME RequestsAssumption == Requests \subseteq Int
ASSUME NoneAssumption == None \notin Int

vars == <<helperVars, inverterVars, driverVars, deviceVars>>

\* What publish_dbus() puts on the paths of a pvinverter service, and what
\* setup_vedbus() created them with.
PvValues == [overall |-> overall, phase |-> phase, status |-> status]
InitialValues ==
  [overall |-> [f \in OverallField |-> "const"],
   phase |-> [p \in Phase |-> [f \in PhaseField |-> "const"]],
   status |-> 0]

Limit == Int \cup {None}

TypeOK ==
  /\ HelperTypeOK
  /\ SolisTypeOK
  /\ powerLimit \in Limit
  /\ activeLimit \in Limit
  /\ busLimit \in Limit
  /\ bus \in [overall : [OverallField -> Origin],
              phase : [Phase -> [PhaseField -> Origin]],
              status : Status \cup {None}]

Init ==
  /\ HelperInit(InitialValues)
  /\ InverterInit
  /\ SolisInit
  /\ link \in {"up", "down", "flaky"}
  /\ limitReg \in LimitRegs

-----------------------------------------------------------------------------
\* The supervisor starts the process, and main() gets as far as the main
\* loop.  A start that ends in sys.exit(1) leaves everything as it was.
Start ==
  /\ \E limitRead \in BOOLEAN : GetSettings(limitRead)
  /\ SetupVedbus(InitialValues)
  /\ UNCHANGED <<status, driverVars, deviceVars>>

BeginPoll ==
  /\ BeginPublish
  /\ BeginRefresh

PollBatch ==
  /\ step = "refresh"
  /\ ReadBatch
  /\ UNCHANGED helperVars

\* refresh_data() returns `not error'.
PollSucceeds ==
  /\ batch = 6
  /\ ~error
  /\ RefreshSucceeds
  /\ EndRefresh

PollFails ==
  /\ batch = 6
  /\ error
  /\ RefreshFails
  /\ EndRefresh

\* An answer that is no register response: AttributeError.
PollRaises ==
  /\ step = "refresh"
  /\ batch \in 1 .. 5
  /\ link = "flaky"
  /\ PublishRaises
  /\ EndRefresh

Apply ==
  /\ LimitApplied
  /\ ApplyPowerLimit

\* None / float is a TypeError; or the answer is no write response.
ApplyRaises ==
  /\ step = "limit"
  /\ PublishRaises
  /\ \/ powerLimit = None /\ UNCHANGED limitReg
     \/ /\ powerLimit # None
        /\ link = "flaky"
        /\ limitReg' \in {limitReg, RegisterOfWatts(powerLimit)}
  /\ UNCHANGED <<driverVars, link>>

Publish ==
  /\ PublishDbus(PvValues)
  /\ UNCHANGED <<driverVars, deviceVars>>

Driver ==
  \/ BeginPoll
  \/ PollBatch
  \/ PollSucceeds
  \/ PollFails
  \/ PollRaises
  \/ Apply
  \/ ApplyRaises
  \/ Publish

ProcessEnds ==
  /\ DropHelper(InitialValues)
  /\ DropInverter
  /\ DropSolis
  /\ UNCHANGED deviceVars

\* The main loop has been told to quit: main() returns.
Exit ==
  /\ proc = "quitting"
  /\ ProcessEnds

\* svc -t, restartservice.sh, the USB adapter unplugged, power lost.
Kill ==
  /\ proc = "running"
  /\ ProcessEnds

Request ==
  /\ \E watts \in Requests : SetPowerLimit(watts)
  /\ UNCHANGED <<driverVars, deviceVars>>

Device ==
  /\ ChangeLink \/ ChangeLimit
  /\ UNCHANGED <<helperVars, inverterVars, driverVars>>

Next == Start \/ Driver \/ Exit \/ Kill \/ Request \/ Device

Spec == Init /\ [][Next]_vars

\* GLib fires the poll timer and every request ends by its timeout of one
\* second; daemontools starts the driver again when it has ended.
Fairness == WF_vars(Driver) /\ WF_vars(Exit) /\ WF_vars(Start)

FairSpec == Spec /\ Fairness

-----------------------------------------------------------------------------
\* The values a poll of this inverter measures, over all its batches.  A
\* three-phase Solis has no registers for the power and energy of a phase.
PhasesComplete(phases) ==
  IF OutputType = 0
    THEN \A f \in PhaseField : phases[InverterPhase][f] = "fresh"
    ELSE \A p \in Phase : \A f \in {"ac_voltage", "ac_current"} :
           phases[p][f] = "fresh"

Complete(values) ==
  /\ \A f \in OverallField : values.overall[f] = "fresh"
  /\ PhasesComplete(values.phase)
  /\ values.status \in Status \ {8}

Stale(values) ==
  \/ \E f \in OverallField : values.overall[f] = "stale"
  \/ \E p \in Phase : \E f \in PhaseField : values.phase[p][f] = "stale"

\* What publish_dbus has put on the bus is one complete poll: every value the
\* inverter measures was read in the poll that published it, although a failed
\* batch leaves older values behind in energy_data and the other batches go
\* on.  In particular the status 8 (Off) of a failed batch 4 is never shown.
MeasuredAreFresh == bus = InitialValues \/ Complete(bus)

\* "Publish only when data is fresh and consistent" (dbushelper.py): no path
\* shows a value from an earlier poll than the others.  It holds for a single-
\* phase inverter; on a three-phase one the power of a phase, which only the
\* single-phase branch assigns, comes back from a poll that failed.
NothingStale == ~Stale(bus)

\* get_settings() has succeeded when the service is registered, so the service
\* has the power limit that setup_vedbus takes from it.
LimitIsKnown == proc = "running" => busLimit # None

\* The program gives the inverter's register no other value than the percent
\* that is nearest to what it was asked for when the poll began: a request
\* below zero, above the rated power or between two percents moves the inverter
\* as little from the client's wish as it can.
WritesNearest ==
  [][limitReg' # limitReg =>
       \/ ChangeLimit
       \/ \E pct \in 0 .. 100 : limitReg' = 100 * pct /\ IsNearest(pct, powerLimit)]_vars

\* A limit that a client asks for and keeps is in the end the inverter's, to
\* the nearest percent there is, whatever was lost on the way there.
LimitObeyed ==
  \A watts \in Requests :
    <>[](link = "up" /\ busLimit = watts) => <>[](\E pct \in 0 .. 100 : limitReg = 100 * pct /\ IsNearest(pct, watts))

\* "write_registers() is called when power_limit differs from the active limit
\* read back; not called when they match": a request that has been obeyed is
\* not written again and again.  It takes a request that is a whole percent
\* in the program's own arithmetic.
WritesStop ==
  \A watts \in Requests :
    <>[](link = "up" /\ busLimit = watts) => <>[](step # "limit")

\* An inverter that cannot be reached any more loses its service for good,
\* and so the values that were the last ones shown.
DeadInverterVanishes == <>[](link = "down") => <>[](proc = "down")

\* Once the inverter answers again, the driver comes back, no longer quits by
\* itself, and publishes for as long as nobody kills it.
Recovers ==
  /\ <>[](link = "up") => []<>(proc = "running") /\ <>[](proc # "quitting")
  /\ <>[](link = "up" /\ proc = "running") => []<>(step = "publish")

\* The strengthening that makes the freshness of what is published inductive.
\* Where the one thread is:
ControlInv ==
  /\ step # "idle" => proc = "running"
  /\ step = "refresh" <=> batch # 0
  /\ proc = "running" => errorCount < QuitAfter

\* What a poll without an error so far has brought, batch by batch; a poll
\* that returns True has brought all of it.
PollInv ==
  /\ batch >= 2 /\ ~error =>
       outputType = OutputType /\ overall["ac_power"] = "fresh"
  /\ batch >= 3 /\ ~error => overall["energy_forwarded"] = "fresh"
  /\ batch >= 4 /\ ~error => PhasesComplete(phase)
  /\ batch >= 5 /\ ~error => status \in Status \ {8}
  /\ step \in {"limit", "publish"} => Complete(PvValues)

\* What a client sees of the measurements: "mixed" is what no service promises.
Shown ==
  IF proc = "down" THEN "none"
  ELSE IF bus = InitialValues THEN "initial"
  ELSE IF Complete(bus) /\ ~Stale(bus) THEN "measured" ELSE "mixed"

\* The driver keeps the promises of the abstract service.
Promise == INSTANCE InverterService WITH
  Limits <- Limit,
  up <- proc # "down",
  data <- Shown,
  index <- busIndex,
  limit <- busLimit

\* Every step of the program on a single-phase inverter is a step of the
\* service or changes nothing a client can see.
KeepsPromise == Promise!Spec
=============================================================================
