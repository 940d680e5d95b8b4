------------------------------- MODULE Startup -------------------------------
(***************************************************************************)
(* dbus-serialinverter.py up to the main loop: the configuration is read,  *)
(* the port checked, and the drivers the two allow are tried on it, three  *)
(* rounds of them, until one finds its device.  Then the polls of the two  *)
(* drivers that have no device: Dummy, and SamlexMock, whose day is made   *)
(* of `elapsed' time.  (SolisService and SamlexService model the others.)  *)
(*                                                                         *)
(* Every attempt makes a new driver object, and so a new client on the     *)
(* same port; nothing closes the one before.                               *)
(***************************************************************************)
EXTENDS Integers, Sequences

CONSTANTS
  Types,      \* INVERTER_TYPE: "" or a name, of a driver or not
  Ports,      \* the argument: "tty", "null", "url", "shorthand", "other"
  Registers,  \* [SAMLEX_REGISTERS]: "missing", "unusable" (REG_IDENTITY), "usable"
  Devices,    \* what is at the port: "none", "Solis", "Samlex"
  Mimics,     \* whether a Solis answers Samlex's question with 0 .. 3
  Limits,     \* watts a client may ask of the Dummy's service
  MaxSoc      \* bound: the mock's state of charge, in hundredths, when full

VARIABLES
  type, port, registers, device,   \* the installation
  pc,        \* "config", "port", "try", "sleep", "setup", "running", "exited", "crashed"
  round,     \* get_inverter(): count
  left,      \* the drivers still to try in this round
  driver,    \* the driver that was found, or is being tried
  clients,   \* the clients made so far, all of them open or to be opened
  failed,    \* history: for each driver, its tests that found nothing
  lost,      \* history: a device did not answer its own driver's test
  limit,     \* /Ac/PowerLimit of the Dummy, 0 before there is one
  shown,     \* what the two synthetic drivers have published
  soc,       \* SamlexMock._soc
  acIn       \* SamlexMock: shore power, by its clock

installation == <<type, port, registers, device>>
mockVars == <<limit, shown, soc, acIn>>
vars == <<installation, pc, round, left, driver, clients, failed, lost, mockVars>>

Name == {"Dummy", "SamlexMock", "SamlexTCP", "Solis", "Samlex"}
Synthetic == {"Dummy", "SamlexMock"}
Rounds == 3

-----------------------------------------------------------------------------
\* get_port() makes a URL of host:port, so every TCP port is a URL from there.
IsTcp == port \in {"url", "shorthand"}

\* _resolve_inverter_types(): the drivers to try, in this order.
SamlexFirst ==
  IF type \in Synthetic THEN <<type>>
  ELSE IF type = "SamlexTCP" \/ IsTcp THEN <<"SamlexTCP">>
  ELSE IF type = "" THEN <<"Samlex", "Solis">>
  ELSE IF type \in {"Solis", "Samlex"} THEN <<type>> ELSE <<>>

Candidates ==
  IF type \in Synthetic THEN <<type>>
  ELSE IF type = "SamlexTCP" \/ IsTcp THEN <<"SamlexTCP">>
  ELSE IF type = "" THEN <<"Solis", "Samlex">>
  ELSE IF type \in {"Solis", "Samlex"} THEN <<type>> ELSE <<>>

\* The kind of device a driver is for.
Serves(d) == IF d = "SamlexTCP" THEN "Samlex" ELSE d

\* _registers_configured() and the first _reg(): without a usable identity
\* register nothing is sent.
Asks(d) == Serves(d) = "Solis" \/ registers = "usable"

\* A serial client for 0 baud divides by it: __init__ raises.
Constructs(d) == ~(d = "SamlexTCP" /\ ~IsTcp)

\* What reading the identity can find.  The device of the driver answers with
\* it, unless it is switched off or faulty; any other device may answer with
\* anything else, or not at all.
Finds(d) ==
  /\ Asks(d)
  /\ port # "null"
  /\ \/ device = Serves(d)
     \/ (Mimics /\ device = "Solis" /\ Serves(d) = "Samlex")

Init ==
  /\ type \in Types /\ port \in Ports /\ registers \in Registers /\ device \in Devices
  /\ pc = "config"
  /\ round = Rounds
  /\ left = <<>>
  /\ driver = "none"
  /\ clients = 0
  /\ failed = [d \in Name |-> 0]
  /\ lost = FALSE
  /\ limit = 0
  /\ shown = {}
  /\ soc = (85 * MaxSoc) \div 100
  /\ acIn = TRUE

-----------------------------------------------------------------------------
\* utils.py is imported: a configuration without the section, with a value
\* that is no number, or with no rated power ends the program.
LoadConfig ==
  /\ pc = "config"
  /\ pc' \in {"port", "exited"}
  /\ UNCHANGED <<installation, round, left, driver, clients, failed, lost, mockVars>>

\* get_port(), then get_inverter() as far as its loop.
GetPort ==
  /\ pc = "port"
  /\ pc' = IF port = "other" THEN "exited" ELSE "try"
  /\ left' = IF port = "other" THEN <<>> ELSE Candidates
  /\ UNCHANGED <<installation, round, driver, clients, failed, lost, mockVars>>

\* The next driver's object, with a client of its own.
Construct ==
  /\ pc = "try"
  /\ left # <<>> /\ driver = "none"
  /\ driver' = Head(left)
  /\ left' = Tail(left)
  /\ clients' = IF Head(left) \in Synthetic THEN clients ELSE clients + 1
  /\ pc' = IF Constructs(Head(left)) THEN "try" ELSE "crashed"
  /\ UNCHANGED <<installation, round, failed, lost, mockVars>>

\* test_connection() returned True.
Found ==
  /\ pc = "try"
  /\ driver # "none"
  /\ driver \in Synthetic \/ Finds(driver)
  /\ pc' = "setup"
  /\ UNCHANGED <<installation, round, left, driver, clients, failed, lost, mockVars>>

\* test_connection() returned False.  Its object is dropped.
NotFound ==
  /\ pc = "try"
  /\ driver \in Name \ Synthetic
  /\ failed' = [failed EXCEPT ![driver] = @ + 1]
  /\ lost' = (lost \/ (Asks(driver) /\ device = Serves(driver)))
  /\ driver' = "none"
  /\ UNCHANGED <<installation, pc, round, left, clients, mockVars>>

\* Over TCP a connection closed by the server is a ConnectionException, which
\* is no IOError: it ends the program.
TestRaises ==
  /\ pc = "try"
  /\ driver = "SamlexTCP"
  /\ IsTcp /\ Asks(driver) /\ device # "none"
  /\ pc' = "crashed"
  /\ UNCHANGED <<installation, round, left, driver, clients, failed, lost, mockVars>>

\* The round has found nothing.
EndRound ==
  /\ pc = "try"
  /\ left = <<>> /\ driver = "none"
  /\ round' = round - 1
  /\ pc' = "sleep"
  /\ UNCHANGED <<installation, left, driver, clients, failed, lost, mockVars>>

\* Mutant of GoOn: a round less is tried.
GivesUpEarly ==
  /\ pc = "sleep"
  /\ pc' = IF round > 1 THEN "try" ELSE "exited"
  /\ left' = IF round > 1 THEN Candidates ELSE <<>>
  /\ UNCHANGED <<installation, round, driver, clients, failed, lost, mockVars>>

\* Mutant of GoOn: there is no way out of the last round.
NeverGivesUp ==
  /\ pc = "sleep"
  /\ round > 0
  /\ pc' = "try"
  /\ left' = Candidates
  /\ UNCHANGED <<installation, round, driver, clients, failed, lost, mockVars>>

\* After half a second: another round, or `No inverter connection'.
GoOn ==
  /\ pc = "sleep"
  /\ pc' = IF round > 0 THEN "try" ELSE "exited"
  /\ left' = IF round > 0 THEN Candidates ELSE <<>>
  /\ UNCHANGED <<installation, round, driver, clients, failed, lost, mockVars>>

\* setup_vedbus(): get_settings() may fail with a device, never without; the
\* Dummy's limit is the rated power until a client asks for another.
Setup ==
  /\ pc = "setup"
  /\ pc' \in IF driver \in Synthetic THEN {"running"} ELSE {"running", "exited"}
  /\ IF driver = "Dummy" THEN limit' \in Limits ELSE UNCHANGED limit
  /\ UNCHANGED <<installation, round, left, driver, clients, failed, lost, shown, soc, acIn>>

-----------------------------------------------------------------------------
\* SetPowerLimit of DbusHelper, here for the Dummy.
Ask ==
  /\ pc = "running" /\ driver = "Dummy"
  /\ limit' \in Limits
  /\ UNCHANGED <<installation, pc, round, left, driver, clients, failed, lost, shown, soc, acIn>>

\* publish_inverter() with Dummy.read_status_data(): the power is the limit,
\* and as no limit is read back none is ever applied.
PollDummy ==
  /\ pc = "running" /\ driver = "Dummy"
  /\ shown' = {[power |-> limit]}
  /\ UNCHANGED <<installation, pc, round, left, driver, clients, failed, lost, limit, soc, acIn>>

\* _update_synthetic_values(): the state of charge follows the shore power.
Charged(level, on) ==
  IF on THEN IF level < MaxSoc THEN level + 1 ELSE MaxSoc
  ELSE IF level > 1 THEN level - 2 ELSE 0

\* The state and the charging stage SamlexMock publishes, and the sign of the
\* battery's current: charging, or not.
Story(on) ==
  [connected |-> on, state |-> IF on THEN 4 ELSE 9,
   stage |-> IF on THEN 2 ELSE 9, charging |-> on]

\* publish_inverter() with SamlexMock.refresh_data(): the values are brought
\* up to date twice, by it and by read_status_data(), between which the clock
\* may switch the shore power.
PollMock ==
  /\ pc = "running" /\ driver = "SamlexMock"
  /\ \E before \in BOOLEAN :
       /\ acIn' \in BOOLEAN
       /\ soc' = Charged(Charged(soc, before), acIn')
       /\ shown' = {Story(acIn')}
  /\ UNCHANGED <<installation, pc, round, left, driver, clients, failed, lost, limit>>

Main ==
  \/ LoadConfig \/ GetPort \/ Construct \/ Found \/ NotFound \/ TestRaises
  \/ EndRound \/ GoOn \/ Setup

Next == Main \/ Ask \/ PollDummy \/ PollMock

Spec == Init /\ [][Next]_vars /\ WF_vars(Main)

-----------------------------------------------------------------------------
\* Auto-detection finds the driver of the device that is there: another one
\* is taken for it only after the device has left a test of its own driver
\* unanswered (a Solis whose test is lost may answer the next one, Samlex's,
\* with a number that passes), or when its own driver is not tried at all.
RightDriver ==
  pc \in {"setup", "running"} /\ driver \notin Synthetic
    => \/ device = Serves(driver)
       \/ lost
       \/ \A k \in DOMAIN Candidates : Serves(Candidates[k]) # device

\* "try to establish communications with the inverter 3 times, else exit"
\* (get_inverter): a valid port is given up only after each of the drivers has
\* failed three tests, and each time a client was left behind.
GivesUpAfterThree ==
  pc = "exited" /\ driver = "none" /\ clients > 0
    => /\ \A k \in DOMAIN Candidates : failed[Candidates[k]] = Rounds
       /\ clients = Rounds * Len(Candidates)

\* Whatever is at the port, main() gets to its loop or ends; it never stays in
\* its tests.
StartupEnds == <>(pc \in {"running", "exited", "crashed"})

\* "The port argument accepted by this class can be: /dev/ttyUSB0 (serial -
\* passed to parent Samlex class)" (SamlexTCP): a serial port does not end the
\* program before its device was asked.
SerialPortAccepted == pc = "crashed" => IsTcp
=============================================================================
