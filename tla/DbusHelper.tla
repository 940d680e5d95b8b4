----------------------------- MODULE DbusHelper -----------------------------
(***************************************************************************)
(* dbushelper.py, with the poll timer and the main loop of                 *)
(* dbus-serialinverter.py around it.                                       *)
(*                                                                         *)
(* The program is one thread: GLib runs the poll timer and the D-Bus       *)
(* handlers one after the other, so a poll is never interleaved with a     *)
(* D-Bus call (and poll_inverter's lock is never contended).  It is        *)
(* interleaved with the device, and with whatever may kill the process.    *)
(* `step' is where that thread is inside publish_inverter.                 *)
(*                                                                         *)
(* The paths of the service that carry measurements are one value, `bus',  *)
(* chosen by the driver's module: the actions below take what is published *)
(* as a parameter.                                                         *)
(***************************************************************************)
EXTENDS Inverter, Integers

CONSTANTS
  Prefix,        \* SERVICE_PREFIX: "pvinverter" or "vebus"
  OfflineAfter,  \* failed polls before the inverter is offline (10)
  QuitAfter,     \* failed polls before the driver quits (60)
  IndexMax       \* the largest /UpdateIndex (255)

ASSUME PrefixAssumption == Prefix \in {"pvinverter", "vebus"}
ASSUME CountAssumption ==
  /\ OfflineAfter \in Nat \ {0}
  /\ QuitAfter \in Nat \ {0}
  /\ IndexMax \in Nat

VARIABLES
  proc,        \* the process: "down", "running", or "quitting" (loop.quit())
  step,        \* "idle", or where publish_inverter is
  errorCount,  \* self.error_count
  bus,         \* the measurements on the D-Bus service
  busIndex,    \* /UpdateIndex
  busLimit     \* /Ac/PowerLimit

helperVars == <<proc, step, errorCount, bus, busIndex, busLimit>>

Step == {"idle", "refresh", "limit", "publish"}

HelperTypeOK ==
  /\ proc \in {"down", "running", "quitting"}
  /\ step \in Step
  /\ errorCount \in 0 .. QuitAfter
  /\ online \in BOOLEAN
  /\ busIndex \in 0 .. IndexMax

\* No process yet, so no service on the bus.
HelperInit(noValues) ==
  /\ proc = "down"
  /\ step = "idle"
  /\ errorCount = 0
  /\ bus = noValues
  /\ busIndex = 0
  /\ busLimit = None

\* The process ends: its bus name is released, and its memory is gone.
DropHelper(noValues) ==
  /\ proc' = "down"
  /\ step' = "idle"
  /\ errorCount' = 0
  /\ bus' = noValues
  /\ busIndex' = 0
  /\ busLimit' = None

-----------------------------------------------------------------------------
\* setup_vedbus() after get_settings() has succeeded: the paths are created
\* and the service is registered; main() then starts the timer and the loop.
SetupVedbus(initialValues) ==
  /\ proc = "down"
  /\ proc' = "running"
  /\ step' = "idle"
  /\ errorCount' = 0
  /\ online' = TRUE
  /\ bus' = initialValues
  /\ busIndex' = 0
  /\ busLimit' = IF Prefix = "pvinverter" THEN powerLimit' ELSE None

\* The timer fires: publish_inverter up to the call of refresh_data().
BeginPublish ==
  /\ proc = "running"
  /\ step = "idle"
  /\ step' = "refresh"
  /\ powerLimit' = IF Prefix = "pvinverter" THEN busLimit ELSE powerLimit
  /\ UNCHANGED <<proc, errorCount, bus, busIndex, busLimit,
                 status, activeLimit, online>>

\* Mutant of RefreshSucceeds: the count of failures is not reset.
RefreshKeepsCount ==
  /\ step = "refresh"
  /\ online' = TRUE
  /\ step' = IF activeLimit # None /\ activeLimit # powerLimit
               THEN "limit" ELSE "publish"
  /\ UNCHANGED <<proc, errorCount, bus, busIndex, busLimit,
                 status, powerLimit, activeLimit>>

\* refresh_data() returned True: on to the limit, or straight to publishing.
RefreshSucceeds ==
  /\ step = "refresh"
  /\ errorCount' = 0
  /\ online' = TRUE
  /\ step' = IF activeLimit # None /\ activeLimit # powerLimit
               THEN "limit" ELSE "publish"
  /\ UNCHANGED <<proc, bus, busIndex, busLimit,
                 status, powerLimit, activeLimit>>

\* Mutant of RefreshFails: `>' for `>='.
QuitsOnePollLate ==
  /\ step = "refresh"
  /\ step' = "idle"
  /\ errorCount' = errorCount + 1
  /\ online' = (online /\ errorCount' < OfflineAfter)
  /\ proc' = IF errorCount' > QuitAfter THEN "quitting" ELSE proc
  /\ UNCHANGED <<bus, busIndex, busLimit, status, powerLimit, activeLimit>>

\* Mutant of RefreshFails: the driver quits when the inverter goes offline.
QuitsWhenOffline ==
  /\ step = "refresh"
  /\ step' = "idle"
  /\ errorCount' = errorCount + 1
  /\ online' = (online /\ errorCount' < OfflineAfter)
  /\ proc' = IF online' THEN proc ELSE "quitting"
  /\ UNCHANGED <<bus, busIndex, busLimit, status, powerLimit, activeLimit>>

\* Mutant of RefreshFails: going offline starts the count again.
OfflineResetsCount ==
  /\ step = "refresh"
  /\ step' = "idle"
  /\ errorCount' = (errorCount + 1) % OfflineAfter
  /\ online' = (online /\ errorCount' # 0)
  /\ proc' = IF errorCount' >= QuitAfter THEN "quitting" ELSE proc
  /\ UNCHANGED <<bus, busIndex, busLimit, status, powerLimit, activeLimit>>

\* refresh_data() returned False: nothing is published.
RefreshFails ==
  /\ step = "refresh"
  /\ step' = "idle"
  /\ errorCount' = errorCount + 1
  /\ online' = (online /\ errorCount' < OfflineAfter)
  /\ proc' = IF errorCount' >= QuitAfter THEN "quitting" ELSE proc
  /\ UNCHANGED <<bus, busIndex, busLimit, status, powerLimit, activeLimit>>

\* apply_power_limit() returned: its result is not looked at.
LimitApplied ==
  /\ step = "limit"
  /\ step' = "publish"
  /\ UNCHANGED <<proc, errorCount, bus, busIndex, busLimit, inverterVars>>

\* Any exception in refresh_data() or apply_power_limit(): loop.quit().
PublishRaises ==
  /\ step \in {"refresh", "limit"}
  /\ step' = "idle"
  /\ proc' = "quitting"
  /\ UNCHANGED <<errorCount, bus, busIndex, busLimit, inverterVars>>

\* Mutant of NextIndex: the index starts again at 1.
IndexSkipsZero == IF busIndex + 1 > IndexMax THEN 1 ELSE busIndex + 1

NextIndex == IF busIndex + 1 > IndexMax THEN 0 ELSE busIndex + 1

\* publish_dbus(): every path, then /UpdateIndex.  One action, because no
\* D-Bus call is answered before it returns.
PublishDbus(values) ==
  /\ step = "publish"
  /\ step' = "idle"
  /\ bus' = values
  /\ busIndex' = NextIndex
  /\ UNCHANGED <<proc, errorCount, busLimit, inverterVars>>

\* A D-Bus client writes /Ac/PowerLimit, the only writeable measurement path.
SetPowerLimit(watts) ==
  /\ Prefix = "pvinverter"
  /\ proc = "running"
  /\ step = "idle"
  /\ busLimit' = watts
  /\ UNCHANGED <<proc, step, errorCount, bus, busIndex, inverterVars>>
=============================================================================
