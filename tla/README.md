# dbus-serialinverter, specified in TLA+

dbus-serialinverter is a Venus OS driver. It finds an inverter on a serial line
or a TCP socket, polls it over Modbus and publishes it as a service on the
D-Bus of a Victron GX device. For inverters that accept it, it also carries a
power limit in the other direction. The repository carries a copy of pymodbus,
its Modbus library, which is nine tenths of its code. This directory models the
driver and the parts of pymodbus that keep state in TLA+, checks them on small
instances with TLC and proves their most important properties with TLAPS for
every value of the constants.

All paths below are relative to `etc/dbus-serialinverter/` unless they begin
with `tests/` or `docs/`.

## 1. The system

```
 D-Bus clients ──/Ac/PowerLimit──▶┌────────────────────────────────────────┐
 (GX, Venus OS) ◀──measurements───│ one process, one thread (GLib loop)    │
                                  │  dbushelper.py   publish_inverter      │
 daemontools ──start, kill───────▶│   ├ inverter.py  energy_data, status   │
 serial-starter                   │   └ solis.py | samlex*.py | dummy.py   │
                                  │        └ pymodbus client (vendored)    │
                                  └───────────────│────────────────────────┘
                                     RS-485 / TCP │ Modbus
                                              the inverter
```

| component | state it keeps | operations | talks to |
|---|---|---|---|
| main loop, `dbus-serialinverter.py` | the process, the timer, a poll lock | `get_port`, `_resolve_inverter_types`, `get_inverter` (3 rounds), timer → `poll_inverter`, `loop.quit()` | helper (calls), supervisor (exit) |
| D-Bus helper, `dbushelper.py` | `error_count`, the service's paths | `setup_vedbus`, `publish_inverter`, `publish_dbus`, client writes of `/Ac/PowerLimit` | the driver (calls), the D-Bus |
| `Inverter`, `inverter.py` | `energy_data`, `status`, `online`, both limits | `__init__` | shared with the helper |
| Solis, `solis.py`, `modbus_inverter.py` | none of its own | `test_connection`, `get_settings`, 5 read batches, `apply_power_limit` | the inverter |
| Samlex, `samlex.py` | `charge_state` | `test_connection`, `get_settings`, 4 read groups, `/State` derivation, load power | the inverter |
| SamlexTCP, `samlex_tcp.py` | the TCP connection | `_ensure_connected` | the inverter |
| SamlexMock, Dummy | synthetic values | `refresh_data` | nothing |
| synchronous client of pymodbus, `transaction.py`, `client/serial.py`, `client/tcp.py`, framers | port or socket, units that did not answer | `execute`, `_transact`, `_recv`, `processIncomingPacket`, `close` | the line |
| messages, `*_message.py`, `pdu.py`, `factory.py` | none of their own | `execute`, `encode`, `decode`, their lengths | datastore, control block |
| control block, `device.py`, `events.py` | counters, events, diagnostic bits, mode | `addEvent`, `reset`, `summary`, … | every server of the process |
| datastores, `datastore/` | blocks, simulator cells; a far device behind a client | `validate`, `getValues`, `setValues`, the simulator's setup | messages |
| asynchronous server, `server/async_io.py` | connections, a task and a queue for each, the listener | `serve_forever`, `server_close`, `handle`, `execute` | clients, datastores |
| asynchronous client, `client/tcp.py`, `client/base.py` | the protocol, pending requests by id, the reconnection task and its delay | `connect`, `close`, `execute`, the callbacks of the transport | a server |
| configuration, `utils.py` | `config.ini`, read once | validation, `sys.exit(1)` | |
| shell scripts | | lock, start, restart | the process |

What is hard in the driver is not parallelism: GLib runs the poll timer and the D-Bus
handlers in one thread, so a poll is never interleaved with a client's call
and the poll lock is never contended. It is

* **partial failure**: a poll is five requests, a failed one does not stop the
  other four, and whatever it should have brought stays in `energy_data` from
  an earlier poll;
* **two masters of one value**: the limit exists as the request on the D-Bus,
  as what the driver last read and in the inverter, where others may change it
  and where a write may be lost or only its answer may be;
* **arithmetic**: watts as floats on one side, hundredths of a percent on the
  other, and a comparison of floats between them that decides to write;
* **giving up and coming back**: failures are counted up to 10 (offline) and 60
  (quit), exceptions quit at once, and a supervisor starts the driver again;
* **late answers**: the client waits for one second, the device may answer
  later, and on a serial line nothing says which request an answer is for.

In pymodbus's asynchronous half it is interleaving: several requests are
pending at a time, timeouts race their answers, connections are lost and made
again while the application connects and closes, the network cuts requests
where it likes, and a server is closed under its clients.

What makes each component correct, in a sentence:

* helper: what it publishes is one complete poll; its index moves with every
  set and only then; old values do not stay for ever; a request is obeyed, then
  left alone; it comes back.
* Solis: a poll that returns `True` has read everything it measures; the limit
  it writes is the nearest percent; it moves no limit nobody asked to change.
* Samlex: `/State`, `/Ac/ActiveIn` and the load power agree with one
  another in every published set and are true of the device; a failed request is never shown as a fault.
* start-up: it ends with the driver of the device that is there or an exit, after
  three rounds at most.
* synchronous client: an answer is taken for another request only where the
  code cannot know better, and after trouble the link works again.
* messages and datastores: a refused request changes nothing, an acknowledged
  write is what is read, only what may be written changes, and every place that
  counts the length of a message counts the same.
* asynchronous client and server: each answer finds its request, no request is
  forgotten, nothing is executed twice or out of order, and the client is
  connected again unless it was closed.

The hazards, each with its line and the properties aimed at it, are in
`PROJECT.json`.

## 2. The modules

| module | models | extends |
|---|---|---|
| `PowerLimit` | the arithmetic of the limit (`solis.py:140-142, 226-231`) | |
| `Inverter` | the attributes of class `Inverter` the helper decides on, and where each measured value came from | |
| `DbusHelper` | `dbushelper.py` and the timer around it | `Inverter` |
| `Solis` | `solis.py` with `modbus_inverter.py`, and the inverter behind it | `Inverter`, `PowerLimit` |
| `SolisService` | the program with a Solis: helper ∘ driver ∘ device ∘ clients ∘ supervisor; the properties | `DbusHelper`, `Solis` |
| `Samlex` | `samlex.py` with `samlex_tcp.py`, and the inverter/charger behind it | `Inverter` |
| `SamlexService` | the program with a Samlex: helper ∘ driver ∘ device ∘ supervisor; the properties | `DbusHelper`, `Samlex` |
| `SamlexTruth` | `SamlexService` with a history variable, what the device did since the poll began | `SamlexService` |
| `InverterService` | the abstract specification: what the service promises its clients | |
| `SolisHistory` | `SolisService` with a history variable, the age of what is shown in polls | `SolisService` |
| `Startup` | `dbus-serialinverter.py` up to its loop, every `test_connection`, and the two drivers without a device, `dummy.py` and `samlex_mock.py` | |
| `ModbusLink` | polls through the synchronous client: `transaction.py`, both clients, both framers, a device that answers late | |
| `Messages` | lengths of the messages: encoded, expected, judged from the first bytes; what decoders take | |
| `ControlBlock` | `device.py`, `events.py` and the messages about them | `Messages` |
| `Datastore` | the stores of `datastore/` and the simulator with its setup | `ControlBlock` |
| `ModbusDevice` | `execute()` of every message on a store and the control block; the properties | `Datastore` |
| `Connection` | requests and answers between client and server, bytes under way | |
| `AsyncServer`, `AsyncClient` | `server/async_io.py`; `client/tcp.py` with `client/base.py` | `Connection` |
| `ModbusTcp` | client ∘ network ∘ server ∘ the two applications; the properties | `AsyncServer`, `AsyncClient` |
| `SolisProofs` (of `PowerLimit`, `SolisService` and `SolisHistory`), `SamlexProofs` (of `SamlexService` and `SamlexTruth`), `StartupProofs`, `ModbusLinkProofs`, `ModbusTcpProofs` | theorems | the module each is about |
| `DatastoreProofs`, `ModbusDeviceProofs` | theorems about the stores, and about the device | `ModbusDevice` |
| `NaturalFacts` | induction on sets of naturals, the largest and the smallest member of one | |
| `MC…` | the constants of the instances | the module named |

### How the state corresponds

| variable | code |
|---|---|
| `proc` | the process: `"down"`, `"running"`, `"quitting"` once `loop.quit()` was called |
| `step` | where the thread is in `publish_inverter`: before/in `refresh_data()`, at `apply_power_limit()`, at `publish_dbus()`, or idle in the loop |
| `errorCount`, `online`, `status` | `self.error_count`, `inverter.online`, `inverter.status` |
| `powerLimit`, `activeLimit` | `energy_data['overall']['power_limit']` and `['active_power_limit']`, in milliwatts or `None` |
| `overall`, `phase` | the measurements of `energy_data`; each value is only its origin: `"unset"`, `"const"`, `"fresh"` (read in the current poll), `"stale"` (read in an earlier one) |
| `batch`, `error`, `outputType` | `read_status_data()`: the next batch and its two locals |
| `bus`, `busIndex`, `busLimit` | the service: measurements, `/UpdateIndex`, `/Ac/PowerLimit` |
| `link`, `limitReg` | the device (external): whether requests are answered, and register 3049 |

Of a Samlex, besides:

| variable | code |
|---|---|
| `readings` | the measurements of `energy_data`, group by group, by their origin |
| `acPower`, `gridVA`, `connected`, `chargeState` | the values another value is computed from, kept in whole watts or as codes |
| `batch`, `acOut`, `error` | `read_status_data()`: the next group and its locals |
| `socket`, `noResponse` | the client's connection, `"shut"` when the server has closed its end (TCP only); the unit is in `_no_response_devices` |
| `situation` | the device (external): working status, fault and charge registers, load and charger power |

Of `Startup`: `type`, `port`, `registers`, `device` are the installation, `pc`
and `round` where `main()` is, `left` the drivers still to try in the round,
`clients` the client objects made so far. Of the link:

| variable | code |
|---|---|
| `open`, `noResponse` | the client's socket or port; the unit is in `_no_response_devices` |
| `batch`, `failed`, `size` | the driver's batch and `error`; the registers asked for, 0 for a write |
| `taken`, `written` | for each batch, for the write: the number of the request whose answer was taken for it |
| `owed`, `buffer` | the device (external): what it has still to answer; what has arrived and was not flushed, frame by frame, with its bytes |
| `inSync`, `prompt` | history: nothing was owed when the poll began; nor was anything late or damaged since |

Of a server's device: `mcb` is the `ModbusControlBlock`, `store` the context
with its blocks or cells, `alive` the event loop. Of the asynchronous pair:

| variable | code |
|---|---|
| `request` | for each request its connection, transaction id, unit, what executing it comes to, and its future: waiting, answered (by which), timed out, failed |
| `near`, `far` | the two transports of a connection: none, open, closing, lost |
| `up`, `down` | bytes under way: requests in two pieces each, answers |
| `link` | `ModbusClientProtocol`: the last id used, the pending requests of its transaction manager |
| `client` | `AsyncModbusTcpClient`: `connected`, `protocol`, `delay_ms`, `_reconnect_future`, attempts under way; history: `closed`, `late` |
| `server`, `handler` | `ModbusTcpServer`: mode and listener; of each connection the task, its `receive_queue` and its framer's buffer |
| `executed` | history: of the requests that were sent, what was executed and on which units, in order |
| `misread` | history: the requests whose bytes the server has read as another request |

A value abstracted to its origin is what "fresh and consistent"
(`dbushelper.py:220`) speaks of; the numbers matter only for the limit, where
they are kept exactly, in steps of a milliwatt. Python computes
`float(max * (p / 100))`, which for some `p` misses the whole number of watts by
one bit (57 % of 800 W is 455.99999999999994). The set of these percents is a
constant, `InexactPct`, and their image is moved by one milliwatt: the only use
of the difference is the comparison `active != desired`, and the rounding back
to percents, for both of which the size of the difference does not matter as
long as it is less than half a percent.

### How the actions correspond

| action | code |
|---|---|
| `Start` | `main()` up to the loop: `get_settings()`, `setup_vedbus()`, the timer |
| `BeginPoll` | the timer; `power_limit` sampled from the bus; `read_status_data()` entered |
| `PollBatch` | one of the five batches, answered or failed |
| `PollSucceeds`, `PollFails` | `refresh_data()` returned; the two branches of `publish_inverter` |
| `PollRaises`, `ApplyRaises` | an exception (`AttributeError` of an answer of another type, `TypeError` of `None / float`): `loop.quit()` |
| `Apply` | `apply_power_limit()`: written; written but not confirmed; or lost |
| `Publish` | `publish_dbus()`, all paths and then `/UpdateIndex` |
| `Exit`, `Kill` | `main()` returns; the process is killed |
| `Request` | a client writes `/Ac/PowerLimit`; only between polls, because the thread is busy during one |
| `Device` | the line, and register 3049 changed by others |

`SamlexService` has the same actions, with `PollGroup` for one of the four
groups: its request is `Answered`, has `Failed`, or has `Raised` (`PollRaises`) an exception that
neither pymodbus nor the driver catches: the `ConnectionException` of a closed TCP connection
(`RaisedByClose`), or the `InvalidMessageReceivedException` of an answer cut below eight bytes
(`RaisedByCut`). The second needs a unit that did not answer before: only then does the client
read whatever there is (`full`) and leave it to the framer; otherwise it asks for eight bytes first
and takes fewer for no answer. `Start` needs a working status from 0 to 3, as
`test_connection()` does: a device in fault mode (4) is not found until it
recovers. There is no `Apply` and no `Request`: the vebus service has no limit.

`Startup` has one action for each step of `main()`: `LoadConfig`, `GetPort`,
`Construct` (the driver object and its client), `Found`, `NotFound` and
`TestRaises` (the three ends of a test), `EndRound`, `GoOn`, `Setup`; then
`Ask`, `PollDummy` and `PollMock`.

`ModbusLink` has `Send` (flush, connect, write), and for what follows `Accept`,
`Failure` (`ModbusIOException`, the connection is closed), `DecodeRaises` and
`AbruptClose` (exceptions nothing catches: the driver ends, `Restart`). `Answer`,
`Garble` and `ChangeDevice` are the device and its line. The bytes are counted
(`Wanted`, `Answers`): how many are read, and which frames end within them, is what
decides between the four.

`ModbusDevice` has one action for a request (`Serve`), which is one step of the
server's event loop; `Application` is the program around the server, which logs, counts and may
clear the log (`clearEvents()`) but sets no counter back by itself; `FarDevice` the device behind
a remote context, and the connection to it. The identity is the program's too: a request for the
slave's id (function 17) is answered with the basic objects of it, joined (`SlaveIdLength`).

`ModbusTcp` has one action for each callback and each resumption of a task.
Client: `Connect`, `Close`, `Wake` (the reconnection task after its delay), `Ask`,
`Receive`, `Timeout`, `ClientLost`. Server: `ServeForever`, `ServerClose`,
`DataReceived`, `Handle` (one round of the handler's loop), `Misread`, `HandlerLost`. Between
them: `Establish` and `Refused`. Every delivery of pieces is possible: half a
request, one, several at once.

`Misread` is what the socket framer does out of step. It compares nothing but the length and the unit of
a header: after the head of a request was dropped, the rest of it, alone or with bytes of the requests
behind it, may be a frame, which is executed and answered with whatever id it begins with. And fewer than eight
bytes whose first is 0x80 or more are decoded without a header and answered, as an unknown function, with
id 0 (`Unframed`); the head of a request may be such bytes, too. Any number of pieces may go into
it, the last one whole or in part (`Unread`). A request that nobody sent has a negative number; which there
may be is the constant `Misreads`.

In the driver the grain is one Modbus request: between any two the line may change, the limit
may be changed at the panel, and the process may be killed. `publish_dbus()` is
one action because no D-Bus call is answered before it returns.

### The abstract specification

`InverterService` has four variables (up, data, index, limit) and four actions:
appear, show a complete set with the next index, show another limit, vanish. Of the limit it promises only that
it changes by itself, apart from any set; whose request it is, it does not say (`LimitObeyed` and
`LimitUntouched` do).
`SolisService` and `SamlexService` (with no limit) refine it with
`data` = "measured" only if the bus shows a complete poll with nothing stale in
it. Everything between a poll's beginning and its publication is a stutter.

## 3. The runs

| run | question | bounds |
|---|---|---|
| `solis_history` | Is every set a single-phase Solis publishes complete, of one poll, and what the abstract service promises? How old can the bus be? Is the percent written the nearest? Does the driver leave a limit alone that nobody asks to change, 55.5 % among them? | 2 phases (one unconnected), offline after 2, quit after 3, index to 2, a request between two percents and one below zero, one panel value |
| `solis_live` | Is a request obeyed, does the writing stop, does a dead inverter vanish, does the driver recover? (requests that are whole percents) | 1 phase, offline after 1, quit after 2 |
| `solis_three_stale` | Is nothing stale ever shown of a three-phase Solis? **No**: finding 1 | 2 phases |
| `solis_settings` | Does the service always know the limit? **No**: finding 2 | 1 phase |
| `solis_chatter` | Does an obeyed request stop being written? **Not** 456 W of 800 W: finding 3 | 1 phase |
| `samlex_truth` | Is what is published of a Samlex complete, in agreement with itself and true of a device that may change between requests, and does the driver give up only after its count of failures, at a closed connection, or at a cut answer that is not the first failure? | TCP, three situations (charging, inverting, AC abnormal with a fault and an unknown charge stage), offline after 1, quit after 2 |
| `samlex_quits` | Does the driver give up only after its count of failures? **Not** over TCP (a closed connection, a cut answer after a missing one): finding 4 | TCP, three situations (charging, inverting, stopped by a fault), offline after 2, quit after 3 |
| `link` | Which answers can be taken for which requests, on a serial line and over TCP, when the device is late, silent, or damaged on the way? | the five batches of a Solis, two requests owed at a time, 12 requests (two polls, and writes) |
| `startup` | Is the right driver found, is a device given up only after three tests by each driver, does the start always end? | every type, port, register map and device |
| `startup_serial` | Can `SamlexTCP` be given a serial port? **No**: finding 5 | as above |
| `device` | Does a refused request change nothing, is an acknowledged write what is read, are 32-bit values whole, does only what may be written change, does the server go on, do all lengths agree, is the log never ahead of its counter, does a client that pages through an identity get all of it? | words of 2 bits, 4 addresses, stores of each class, four simulators among them, counts and vectors up to and over every limit of the messages, identities up to an id that is too long to be sent, a log of 2 |
| `server` | Does each answer find its request, is nothing executed twice, late or after its bytes were misread, is nothing forgotten, does the client stay closed, and connect again? | 2 connections, 2 requests, ids modulo 3, 5 scenarios, 2 requests that bytes may be misread as, 3 troubles |

Why the bounds are enough. `error_count` is only compared with its two limits,
so any two limits that differ reach every branch (the theorems are about 10 and
60 too). The index needs one wrap, which `solis_history` has. Phases other than the
configured one are all treated alike. 800 W is a rated power for which the
program's own product is inexact at 8 of 101 percents (`InexactPctOf800`, found
by evaluating `float(800 * (p / 100))` for each), and `EveryRequestNearest`
and `ReadBack` are about every other rated power. TCP has every behaviour of
the serial line and the closed connection besides. The situations of the Samlex
run have an AC input or none, a fault or none, a known and an unknown charge
stage, and an output power on either side of zero; the theorems are about every
other.

An answer can be taken for another request only while that request is owed:
two owed requests show a late answer before and after the own one, two polls that
the second one begins with what the first left, and the theorems of
`ModbusLinkProofs` are about every list of batches, backlog and number of
requests. The messages treat all addresses alike, so four show before, first,
inside and behind; bits of a word differ only in their weight; of the four simulators one is
loose, one has a string and a copied 32-bit value, one has values that are written or count by halves, and
one a value that a `repeat` section has cut in two; the limits on
counts (125, 123, 121, 2000, 1968) and on the PDU are the program's own, and
the vectors that reach them are in the run. In `ModbusTcp` a
request meets at most one other on its connection (the pending one, the
late one, the one behind it in the buffer), three ids show the counter going round to
0, and a trouble is one of `connect()`, `close()`, `server_close()`, a connection
the network loses, an attempt it refuses, bytes that are misread: three of them show a second
connection, a close during an attempt, and a server closed and started again. Bytes may be misread as
a request with the id of one that waits, and as one with no header and id 0; the theorems are
about any other. The program logs and counts beside one class of store only (`Busy`), as the control
block has nothing to do with the stores.

Deadlock is checked where the driver runs for ever. It is not checked in `link`,
`device` and `server`, whose bounds end them (requests, words at their limit,
troubles), nor in `startup` and `startup_serial`, where an exit is the end.

### Findings

1. **Stale phase power on a three-phase Solis** (`solis.py:182`). A failed
   batch 1 is read as a single-phase inverter; the phase branch then copies the
   total power of an *earlier* poll to the configured phase. That poll fails and
   is not published, but no batch of a three-phase poll ever assigns a phase's
   power, so every later successful poll publishes it. The same for a batch 1
   that is the first ever: the value is then `None` or 0. `dbushelper.py:220` says
   "Publish only when data is fresh and consistent".
2. **A service without a limit** (`solis.py:71`). `get_settings()` returns `True`
   when register 3049 could not be read. The service has `/Ac/PowerLimit` `None`, and the
   first poll that can read the register calls `apply_power_limit(None)`: a
   `TypeError`, and the driver quits. The restart repairs it (`Recovers` holds).
3. **Writing for ever** (`dbushelper.py:218`). The comparison is of floats, so
   a request whose watts are no exact multiple, or not the float of one, is
   written at every poll although the inverter obeys it.
4. **One closed connection ends the driver** (`samlex.py:143`). `docs/samlex.md:397-399`
   has failures counted up to 60 before the driver exits. Over TCP a connection
   that the server closes during a poll, as a restarting gateway does, raises
   `ConnectionException`, which `_read_group` does not catch, and the driver
   quits at the first one. So does an answer cut below eight bytes, if the unit
   did not answer the last time (`RaisedByCut`). `QuitsForCause` says that there is no third
   way, and that a cut answer never ends the driver as the first failure: what takes a unit
   off `_no_response_devices` when it answers is all that makes this so (the mutant `StaysSilent`). On a serial line the
   document is right (`Counted`).
5. **`SamlexTCP` cannot take a serial port** (`samlex_tcp.py:57`). Its docstring
   (`samlex_tcp.py:16`) accepts `/dev/ttyUSB0`; with `TYPE=SamlexTCP` the entry's baud rate is
   0 (`dbus-serialinverter.py:29`), and the serial client divides by it.

Met on the way, without a run: the table of `/State` values in
`docs/samlex.md:303-307` (7, 8, 10) is not that of the code (2, 4, 5, 7, 8, 9),
and `/VebusChargeState` is not the raw register (`docs/samlex.md:311`) but its image under
`_CHARGE_STATE_MAP`. With AC connected and the charger idle the output's sensor
shows 0, which `samlex.py:270` takes for the load's power: the load is published
as 0 then. No document says otherwise; `SteadyIsTrue` leaves the load open there
and only there. In pymodbus, where no document promises better, the properties
name the case they exclude: an answer with id 0, and one to a request that the server has only
read in the bytes of others (`OwnAnswer`, `ServedAsSent`; the history `misread` says on which connections, and
that these others are not executed themselves); a lost connection
on which id 0 was ever used (if it is pending, the callback fails: `NoneForgotten`, `Stuck` in `Reconnects`); a
`close()` during an attempt (`ClosedStaysClosed`); requests for bits that begin
inside a simulator's cell, which are checked on other cells than they change
(`OnlyWritableChange`); multiple writes through a remote context, which only read;
a string of a strict simulator asked for beyond its end, after which the event loop never
returns (`OnlyStringsHang` says that nothing else does this); a 32-bit value that a `repeat` section
has cut in two (`WholeValues`, `Uncut`); requests to files, whose records nothing counts against the
size of a PDU, and the slave's id, which may make an answer of up to four bytes more than a PDU, or one that cannot be
packed (`LengthsAgree`); a broadcast that an exception of one slave keeps from the others; and a log that
was cleared without its counter, which is then ahead of it (`LogIsCounted` has it never behind). One document does promise better: a simulator has "write protected
addresses" (`pymodbus/datastore/simulator.py:382`), but a strict one looks at the access of
the first register of a 32-bit value and goes on past the second (line 540), which is written
with it whether or not `write` lists it. `OnlyWritableChange` says what holds, and the run has
such a configuration (`HalfLayout`).

### Fairness

`FairSpec` assumes weak fairness of three actions. `Driver`: GLib fires the
timer, and every request ends within pymodbus's timeout of one second, answered
or not, so the thread never stops inside a poll. `Exit`: `loop.quit()` ends
`mainloop.run()`. `Start`: daemontools starts the driver again whenever it
ends. Nothing is assumed of the line, of the clients, of `Kill`, and of which
answers arrive; the liveness properties say in their premise what the
environment must in the end do (`<>[](link = "up")`, a request that is kept).

`Startup` assumes weak fairness of `main()`: each test ends within the client's
timeout. `ModbusTcp` assumes it of what an event loop runs once it is ready:
the reconnection task after its delay, an attempt (it succeeds or fails within
its timeout), each request's timeout, the callbacks of a lost connection, the
delivery of an answer. It assumes nothing of `connect()`, `close()`, the server,
the application's requests, nor of the handler's rounds. `Reconnects` has in its
premise that in the end the server listens and the client is not closed.

## 4. The proofs

Proved for every value of the constants that satisfies the named assumptions,
which say what the code takes for granted: counts positive, registers in
0..10000, requests of a limit integers (`SolisAssumption`, `CountAssumption`, ...);
addresses and counts naturals, and the blocks of a store such as its constructors
make them (`RequestsAssumption`, `StoresAssumption`); a word of at least one bit (`WidthAssumption`);
an identity of finitely many objects, each of which fits an answer (`IdentitiesAssumption`; a longer one is asked for for
ever); at least one slave, and in one
scenario no more requests than there are transaction ids (`SlavesAssumption`,
`ScenariosAssumption`, see below).

**The power limit and the Solis**

* `SolisProofs` begins with the arithmetic: `RoundHalfEven` is no more than half
  a divisor away (`RoundIsNear`); from it, the percent written is nearest to the request
  (`EveryRequestNearest`) and reading back is stable (`ReadBack`), because one
  percent is at least ten of the milliwatts by which the float product may miss.
  `Typing` is the type invariant together with `ControlInv` (where the
  thread is; needed because `errorCount <= QuitAfter` is not inductive without
  "the count is below it while running"). `Nearest`: what the program writes to the
  inverter is the percent nearest to the request. `FreshPublish`: a published value is fresh. Not
  inductive as it stands: `PollInv` says, batch by batch, what a poll without an
  error so far has read, and that is carried to the publication.
* Then `NeverStale` and `Implements`, for `OutputType = 0`. The
  strengthening is `NothingRead`: phases a single-phase inverter is not connected to never hold
  anything read from it. (For a three-phase inverter it is false: finding 1.)
  `Implements` is step simulation: `MappedStep` shows every step to be one of
  `InverterService` or a stutter under `Shown`.
  `Untouched`: the strengthening `LimitInv` says that every
  limit in the program is the one register 3049 stands for, or `None`; so the comparison
  of `publish_inverter` can only find a difference where one is `None`, and then nothing
  is written because the division raises.
  `Bounded` and `Honest` are of `SolisHistory`: `AgeInv` ties the age of the bus to `error_count`,
  with the thread's place, because a success resets the count before the bus is written.

**The Samlex**

* `SamlexProofs`: `Typing`, `StateFollows`, `Implements` without any
  restriction, `Causes` and, for a serial line, `Counted`. `Causes` rests on `SilenceInv`: a unit is remembered as
  silent only while there is an error, in this poll or in those counted, so a cut answer that
  raises is never the first failure. Of the steps of a poll,
  `PollInv` says what the groups so far have brought and, from the fourth on, that the status
  agrees with the AC input (`StateAgrees`): with an error it may not, because
  the input may be of an earlier poll.
* Then `Steady` and `RealFault`. `TruthInv` says, group by group, what a
  poll without an error knows of a device that has been in one situation since
  it began (`Known`). When the situation changes, no single one was seen and there is
  nothing left to know. Under it lies arithmetic: a signed value survives its
  register (`SignedRegister`), and the sum of the input's power and the charger's, negated, is the
  load (`LoadIsTrue`). It is assumed that the load and the charger's power fit a
  signed register of 16 bits, in whole watts.

**The start-up**

* `StartupProofs`: `FindsTheRightOne` and `GivesUpLate`, for every configured type, port,
  register map and device. Neither is inductive: both speak of tests that are long over when they
  are read. `RoundInv` keeps them, by the place in the list of candidates: those
  before the driver at hand have failed once more than those from it on, and have left one
  client more each; and if the device's own is among them and was asked, its answer was lost. What
  is then needed of the list is that Solis comes before Samlex (`Orderly`): it
  is the one order in which a driver can be mistaken, and with the list turned round
  `RightDriver` is false (the mutant `SamlexFirst`).

**The synchronous client**

* `ModbusLinkProofs`, for every list of batches, both transports, any backlog
  and any number of requests: `Typing`; `InSyncOwn`, `TcpOwn`, `OwnSize`,
  `WriteOwn`, `PromptSucceeds`. What makes `InSyncPollIsOwn` inductive is an order: what is owed and
  what has arrived are requests in the order they were made, none newer than the last, and since a
  poll that began in step and has not failed took its answers one by one, nothing older than the
  request that is out is on its way. Over TCP the same holds without the premise, because
  a failure closes the connection and drops what is owed on it. `PromptSucceeds` is the
  other direction, that the client does take the right answer: `PromptInv` says that while the
  device is prompt the line carries the request that is out, or its answer whole, and nothing else, and
  `RightFacts` that what `_recv` then reads, by the length it computes, is exactly that
  answer, over either framer.

**The device**

* `ModbusDeviceProofs`, for every set of requests, stores and identities. Every step keeps `IsStore`: what
  the constructors make of a store stays so, and a simulator keeps its cells' types,
  rights and actions. The rest are consequences of it and of the messages' definitions.
* `Logged`, for every size of the log, whatever clears it or the counters; `Good` adds to it what the log and
  the counters are.
  `FailedIsClean`: each message class of which a request can be refused is followed call by
  call (`Validate`, `GetValues`, `SetValues`), each of which leaves a store that is no simulator as it was unless it
  answers 0, and a write is the last call that can fail.
  `WrittenIsRead`, for blocks of any size: a write stays inside the block it was validated for
  (`HeldOneByOne`), so the addresses of a
  write are addresses of its block, and reading one of them after it meets the same block, moved by one or
  not (`zero_mode`) in both directions.
* Of simulators, `OnlyWritable`, `ValuesAreWhole` and `OthersReturn`. What `loop_validate()` has looked at when it
  passes is `LoopPasses`: every cell, or, when the simulator is strict, the first cell of the value it belongs to; no value
  is entered or left in its middle. `LoopHangs` is the same for the case that it never ends. `ReadFacts` is about
  the actions of the cells that are read: only a cell that counts, or the one behind it, moves. `OnlyWritable` then follows
  a request from call to call with one relation (`Changed`: same cells, and those that differ were `Due`), which
  is reflexive and transitive. `ValuesAreWhole` needs `Uncut`, that the second cell of each 32-bit value is its
  own.
* `Configured` (in `DatastoreProofs`) is why these hypotheses are met: whatever layout `Setup.setup()` accepts, what it
  makes satisfies `IsStore`, and without a `repeat` section it is `Uncut`. It goes through the
  handlers in their order: types, write rights, repetitions.
* `Lengths`: message class by message class, the formulas for prediction, framing and encoding are compared; for
  registers, bits, diagnostics and records of any number. Its premise, that a full event log fits a PDU, is one
  of constants (64 + 8 against 253 in the code). Of the slave's id nothing is assumed: an identity of any size gives
  an answer of at most four bytes over, one that cannot be packed, or an exception.
* `NothingIsLost`. `AllRegisters` has that a decoder takes all registers of an answer, for every count; with
  `AnsweredInFull` (every class of store hands out as many values as were asked for) it is the first part. The second
  is about pages: objects are listed in ascending order with their sizes (`ObjectsListed`), an answer takes the longest
  beginning that fits (`SentFits`), which is never empty as one object always fits (`FirstIsSent`), the next
  identifier is the first that is left out (`PageFacts`), so each answer has fewer objects left than the one before and
  the walk ends with all of them (`WalkGoesOn`, `WalkEnds`).

Functions that go from cell to cell, object to object or page to page are recursive. No theorem of the library applies to
them here, so each has a lemma that it exists (`LoopExists`, `ReadExists`, `SumExists`, `ObjectsExist`, `WalkExists`, …): the
set of numbers up to which there is one contains 0 and with each number the next one, so it is all of them
(`SetInduction` of `NaturalFacts`, which rests on the well-founded order of finite sets). The same lemma then carries what is
said of it from each step to the next.

**The asynchronous client and server**

* `ModbusTcpProofs`, for any number of connections, requests and slaves. `StaysClosed`: the
  strengthening says that a closed client that was not closed during an
  attempt has no task that sleeps, no attempt under way and a delay of 0, so that neither a
  lost connection nor a refused attempt starts one. The other three rest on one
  invariant, `TcpInv`, whose parts are, from the ground up:
  * `BaseInv`: the types, and `CarriedInv`: every request that is pending, under way,
    in a queue, in a buffer or answered belongs to the connection it is met on (`Travelling`).
  * `IdsInv`: what travels on a connection that is not lost has different
    transaction ids, because each is less than a turn of the counter behind the last one
    (`Behind`); this is where more requests than ids would break it.
    With it and `StrayInv` (an answer to a request that nobody sent is under way only where bytes
    were misread) `AnsweredInv` is inductive, and gives `AnswersAreOwn`.
  * `OrderInv`: buffer, queue and line of a connection, read one after the other, hold
    pieces in the order they were sent in (`Rank`), none twice; `Misread` only takes some away from the front. With it
    `ServedInv` is inductive: what was executed is older than all that follows it (`PastInv`),
    so nothing is executed twice or late; and of a request whose bytes were misread no head is left
    whole (`BegunInv`), without which the framer does not execute it (`UntouchedInv`): `AllAreServedAsSent`.
  * `WaitsInv`: a request that waits is pending, or its connection is lost
    and one of its requests had id 0, at which the client's callback raises (`NoneIsForgotten`).

**Only model-checked.** The liveness properties (TLAPS has no fairness): `LimitObeyed`,
`WritesStop`, `DeadInverterVanishes`, `Recovers`, `StartupEnds`, `Reconnects`; and the
findings, which are counterexamples. Every invariant and every action property of a run that
passes is stated by a theorem.

Liveness for requests out of range or between two percents is not checked as
such: `LimitObeyed` is checked for whole percents, and `Nearest` says which percent any
other request is written as.

## 5. What is not modelled, and why

* **Around the driver.** The shell scripts and `tools/`: what they do to the
  process is `Start` and `Kill`. `config.ini` is right or ends the program
  (`LoadConfig`); its values are constants. Device instances, names, serial numbers, text
  formats and the static paths (`/Mode`, `/Ac/MaxPower`, …) are written once and nothing reads them back.
  One process serves one inverter; the serial lock of the scripts keeps others away.
* **Measured values** of a Solis, and those of a Samlex that nothing is computed
  from: only their origin is kept, so scaling and rounding of single registers
  are not checked. The mock's sine waves neither.
* **In the services** a request comes back as `MayAnswer` (`Solis`) and `Answered`,
  `Failed`, `Raised` (`Samlex`) say; `ModbusLink` is where these come from. They are not composed: the
  services do not distinguish an own answer from a late one of the same length, which
  `ModbusLink` shows to need a poll that began while an answer was owed.
* **The synchronous client** is modelled as the drivers configure it: one unit,
  no retries, no `retry_on_invalid`, no local echo, no broadcast. Bytes that are cut off or damaged
  never pass for a message of registers (the CRC and the length are taken to be enough); an answer cut below eight
  bytes over TCP is decoded as it is (`DecodeRaises`).
* **The asynchronous pair.** Answers are short and travel whole. Bytes are not spelled out: which requests the rest of
  a cut one may be taken for is a constant (`Misreads`), not computed from what it holds, nor are their
  effects on the datastore. What earlier requests did to a connection's counter is the scenario's `tid`. `connection_made()`
  and the reset of the delay after it are one step. `server_close()` is taken to return, as it
  does before Python 3.12, which waits for the clients. The context does not change
  while the server runs. Executing a request is one of four outcomes; which one it is, is the question of
  `ModbusDevice`, in which in turn nothing else happens during a request. That the `reportSlaveIdData` of a context, which nothing
  in the library sets, may stand in for the identity is left out.
* **Other servers and clients**: UDP, TLS, Unix and serial servers, the Start and
  Stop functions, `client/udp.py`, `client/tls.py` and the asynchronous serial client are not
  modelled, and with them the serial server's reconnection after `shutdown()`.
* **Datastores**: the simulator's actions that make values up (random, timestamp,
  uptime), SQL and Redis (`datastore/database`), files and FIFOs, which pymodbus itself does not store.
* **Event and statistics encodings**, ASCII, binary and TLS framers, the payload
  builders, the REPL, the web page of the simulator, the copy of pyserial-asyncio: formats and user
  interfaces, or third-party code nothing here calls.

## 6. What is left

1. `ModbusLink` under `SolisService`: a taken late answer as an origin of its
   own, to see whether it can be published beside values of its poll.
2. The asynchronous serial server and its reconnection, on `Connection` with one
   transport and no accept.
3. What a simulator with a cut 32-bit value still promises, and its requests for bits, which are
   checked on other cells than they change.
4. `ModbusDevice` as the refinement of a register file: read returns the last
   write, for the passive stores.
5. A message's bytes, so that a cut answer left in a client's framer can be told from none.
