---------------------------- MODULE ControlBlock ----------------------------
(***************************************************************************)
(* The control block of a pymodbus server (device.py, events.py) and the   *)
(* messages that read and change it (diag_message.py, other_message.py).   *)
(* It is a singleton: every server of the program shares one.  The library *)
(* itself counts nothing: counters, events and diagnostic bits are set by  *)
(* the program around it.                                                  *)
(***************************************************************************)
EXTENDS Messages, TLC

CONSTANTS
  EventCap,  \* events kept in the log (64 in the code)
  WordMax    \* the largest register value (65535 in the code)

ASSUME DeviceAssumption == EventCap \in Nat

VARIABLE mcb   \* the ModbusControlBlock

\* An answer the server cannot encode: struct.error, and the connection goes.
Unsendable == -1

Counters == 0 .. 8
EventCounter == 8

NewControlBlock ==
  [counters |-> [i \in Counters |-> 0], events |-> <<>>, diagnostic |-> {},
   listenOnly |-> FALSE]

\* addEvent(): newest first, and no more than EventCap of them.
AddEvent(event) ==
  mcb' = [mcb EXCEPT !.events = SubSeq(<<event>> \o @, 1, Min({EventCap, Len(@) + 1})),
                     !.counters[EventCounter] = @ + 1]

\* clearEvents(): the log, and nothing else.
ClearEvents == mcb' = [mcb EXCEPT !.events = <<>>]

\* ModbusCountersHandler.update() with one counter.
Count(i) == mcb' = [mcb EXCEPT !.counters[i] = @ + 1]

\* setDiagnostic() with one bit.
SetDiagnostic(bit, on) ==
  mcb' = [mcb EXCEPT !.diagnostic = IF on THEN @ \cup {bit} ELSE @ \ {bit}]

\* Mutant of ClearedBlock: the events stay in the log.
ClearedCounters ==
  [NewControlBlock EXCEPT !.listenOnly = mcb.listenOnly, !.events = mcb.events]

\* reset(): events, counters and diagnostic bits, not the mode.
ClearedBlock == [NewControlBlock EXCEPT !.listenOnly = mcb.listenOnly]

\* summary(): a bit for each counter that is not zero, the first the lowest.
Summary == MapThenSumSet(LAMBDA i : IF mcb.counters[i] = 0 THEN 0 ELSE 2^i, Counters)

-----------------------------------------------------------------------------
\* What a request comes to: the exception code it is refused with (0: none),
\* the values it is answered with, and the control block it leaves.
Outcome(code, vals, block) == [code |-> code, vals |-> vals, block |-> block]
Counted(n) == Outcome(IF n > WordMax THEN Unsendable ELSE 0, <<n>>, mcb)

\* Sub-functions 0 and 1: an echo, and a restart, after which nothing restarts.
LinkDiagnostic(r) == Outcome(0, <<IF r.sub = 0 THEN r.data ELSE r.data # 0>>, mcb)

\* 2, 3 and 4: the diagnostic register; the delimiter, which no framer reads and
\* mcb leaves out; listening only, which no server acts on.
ModeDiagnostic(r) ==
  IF r.sub = 2 THEN Outcome(0, <<mcb.diagnostic>>, mcb)
  ELSE IF r.sub = 3 THEN Outcome(0, <<r.data>>, mcb)
  ELSE Outcome(0, <<>>, [mcb EXCEPT !.listenOnly = TRUE])

\* 10: all counters, the events and the diagnostic register are cleared.
ClearCounters(r) == Outcome(0, <<r.data>>, ClearedBlock)

\* The counter a diagnostic sub-function reads.  Overruns of the input and of
\* the output processor are one counter.
BusCounter == 11 :> 0 @@ 12 :> 1 @@ 13 :> 2 @@ 14 :> 3
SlaveCounter == 15 :> 4 @@ 16 :> 5 @@ 17 :> 6
OverrunCounter == 18 :> 7 @@ 19 :> 7
CounterRead == BusCounter @@ SlaveCounter @@ OverrunCounter

\* 20 clears the overruns, 21 reads or clears statistics nothing counts.
ClearingDiagnostic(r) ==
  Outcome(0, <<r.data>>, IF r.sub = 20 THEN [mcb EXCEPT !.counters[7] = 0] ELSE mcb)

\* Any other sub-function stays a DiagnosticStatusRequest, which has no
\* execute(): an AttributeError, answered as a failure of the slave.
Diagnose(r) ==
  IF r.sub \in {0, 1} THEN LinkDiagnostic(r)
  ELSE IF r.sub \in {2, 3, 4} THEN ModeDiagnostic(r)
  ELSE IF r.sub = 10 THEN ClearCounters(r)
  ELSE IF r.sub \in {20, 21} THEN ClearingDiagnostic(r)
  ELSE IF r.sub \in DOMAIN CounterRead THEN Counted(mcb.counters[CounterRead[r.sub]])
  ELSE Outcome(SlaveFailure, <<>>, mcb)

\* Functions 7, 11, 12 and 17: the status byte, the event counter, the event log
\* with two counters, the slave's id.
ExceptionStatus == Outcome(IF Summary > 255 THEN Unsendable ELSE 0, <<Summary>>, mcb)
CommEventCounter == Counted(mcb.counters[EventCounter])
CommEventLog ==
  Outcome(IF mcb.counters[EventCounter] > WordMax \/ mcb.counters[0] > WordMax
            THEN Unsendable ELSE 0, mcb.events, mcb)

\* The id is the basic objects of the device's identity, joined.  An object of
\* several values is a list, and an AttributeError; one byte counts the id and
\* the status after it.
SlaveId(r) ==
  Outcome(IF r.id = NotText THEN SlaveFailure ELSE IF r.id + 1 > 255 THEN Unsendable ELSE 0,
          <<>>, mcb)

Report(r) == CASE r.fc = 7 -> ExceptionStatus [] r.fc = 11 -> CommEventCounter
               [] r.fc = 12 -> CommEventLog [] r.fc = 17 -> SlaveId(r)

DiagnosticAnswerShape(r) ==
  CASE r.fc = 8 -> DiagnosedShape(r)
    [] r.fc = 7 -> StatusShape
    [] r.fc = 11 -> CounterShape
    [] r.fc = 12 -> EventLogShape(Len(mcb.events))
    [] r.fc = 17 -> SlaveIdShape(r.id)
=============================================================================
