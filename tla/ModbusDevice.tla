---------------------------- MODULE ModbusDevice ----------------------------
(***************************************************************************)
(* What a pymodbus server does with a request it has decoded: execute() of *)
(* every message class, on a datastore and the control block.  The clients *)
(* ask in any order, one request at a time, as the server's event loop     *)
(* executes them; the program around the server adds events and counts.    *)
(***************************************************************************)
EXTENDS Datastore

CONSTANTS
  Addresses,   \* addresses that requests name
  Counts,      \* numbers of values that they ask for at any address,
  Limits,      \* and at the first one
  Vectors,     \* sequences of values that they write,
  LongVectors, \* and those at the limits
  Masks,       \* words of a mask write
  Records,     \* sequences of record lengths
  Stores,      \* the stores there may be at the start
  Identities,  \* the device identities there may be
  Busy         \* kinds of the stores beside which the program logs and counts

\* Addresses, values and numbers of them are unsigned.
ASSUME RequestsAssumption ==
  /\ Addresses \subseteq Nat /\ Counts \cup Limits \subseteq Nat
  /\ Vectors \cup LongVectors \subseteq Seq(Nat) /\ Records \subseteq Seq(Nat)
ASSUME StoresAssumption == \A s \in Stores : IsStore(s)

\* A device has a few objects, each with the values it was given, and no object
\* is too long for an answer of its own.
IsIdentity(identity) ==
  /\ DOMAIN identity # {} /\ IsFiniteSet(DOMAIN identity) /\ DOMAIN identity \subseteq Nat
  /\ \A i \in DOMAIN identity :
       LET object == Objects(identity, {i})
       IN identity[i] \in Seq(Nat) /\ Used(object, Len(object)) < Space
ASSUME IdentitiesAssumption == None \notin Nat /\ \A i \in Identities : IsIdentity(i)

VARIABLES
  store,   \* the slave context
  alive    \* the event loop goes on

deviceVars == <<mcb, store, alive>>

-----------------------------------------------------------------------------
(* The requests: what ModbusClientMixin builds, and what decode() makes of *)
(* the requests of other clients, whose counts need not agree.             *)

ReadRequests ==
  [fc : {1, 2, 3, 4}, a : Addresses, n : Counts] \cup [fc : {1, 2, 3, 4}, a : {0}, n : Limits]

\* Several values, with the byte count of their encoding, or another one.
WriteMany ==
  {[fc |-> fc, a |-> a, vals |-> vals, 
    bytes |-> more + (IF fc = 15 THEN BytesOf(Len(vals)) ELSE 2 * Len(vals))] :
      fc \in {15, 16}, a \in Addresses, vals \in Vectors, more \in {0, 1}}
    \cup {[fc |-> fc, a |-> 0, vals |-> vals,
           bytes |-> IF fc = 15 THEN BytesOf(Len(vals)) ELSE 2 * Len(vals)] :
            fc \in {15, 16}, vals \in LongVectors}

WriteSingle == [fc : {5, 6}, a : Addresses, value : {0, 1}]

WriteRequests ==
  WriteSingle \cup WriteMany
    \cup [fc : {22}, a : Addresses, and : Masks, or : Masks]
    \cup {[fc |-> 23, a |-> a, vals |-> vals, ra |-> ra, n |-> n,
           bytes |-> more + 2 * Len(vals)] :
            a \in Addresses, vals \in Vectors, ra \in Addresses, n \in Counts, more \in {0, 2}}
    \cup {[fc |-> 23, a |-> 0, vals |-> vals, ra |-> 0, n |-> 1, bytes |-> 2 * Len(vals)] :
            vals \in LongVectors}

\* Sub-functions of the link and of the mode, with those there are none of; those
\* of the counters; and the requests for a status, an event counter, a log and an
\* id, which is what the program has made of the identity by then.
Diagnostic(subs) == [fc : {8}, sub : subs, data : {0, GetStatistics, ClearStatistics}]
DiagnosticRequests == Diagnostic((0 .. 9) \cup {22})
CounterRequests == Diagnostic(10 .. 21)
StatusRequests ==
  [fc : {7, 11, 12}] \cup [fc : {17}, id : {SlaveIdLength(i) : i \in Identities}]

FileRequests == [fc : {20, 21}, records : Records] \cup [fc : {24}, a : Addresses]
OtherRequests == [fc : {43}, code : 0 .. 5, oid : {0}] \cup [fc : {99}]

Requests ==
  ReadRequests \cup WriteRequests \cup DiagnosticRequests \cup CounterRequests
    \cup StatusRequests \cup FileRequests \cup OtherRequests

-----------------------------------------------------------------------------
(* execute() of the message classes                                        *)

Refused(code) == Result(code, <<>>, store)

\* A word that does not fit its two bytes cannot be sent.
Sendable(result) ==
  IF result.code = 0 /\ \E k \in DOMAIN result.vals : result.vals[k] > WordMax
    THEN [result EXCEPT !.code = Unsendable] ELSE result

\* How many values a request may be for.
Within(n, most) == 1 <= n /\ n <= most

\* One call of the context after another, unless the last one failed.
Then(result, Call(_)) == IF result.code = 0 THEN Call(result.store) ELSE result

ReadBits(r) ==
  IF ~Within(r.n, 2000) THEN Refused(IllegalValue)
  ELSE Then(Validate(store, r.fc, r.a, r.n), LAMBDA s : GetValues(s, r.fc, r.a, r.n))

ReadRegisters(r) ==
  IF ~Within(r.n, 125) THEN Refused(IllegalValue)
  ELSE Sendable(Then(Validate(store, r.fc, r.a, r.n), LAMBDA s : GetValues(s, r.fc, r.a, r.n)))

\* A single write is read back for the answer.
WriteOne(r) ==
  Sendable(Then(Then(Validate(store, r.fc, r.a, 1),
                     LAMBDA s : SetValues(s, r.fc, r.a, <<r.value>>)),
                LAMBDA s : GetValues(s, r.fc, r.a, 1)))

WriteCoils(r) ==
  LET n == Len(r.vals)
  IN IF ~Within(n, 1968) \/ r.bytes # BytesOf(n) THEN Refused(IllegalValue)
     ELSE Then(Validate(store, 15, r.a, n), LAMBDA s : SetValues(s, 15, r.a, r.vals))

WriteRegisters(r) ==
  LET n == Len(r.vals)
  IN IF ~Within(n, 123) \/ r.bytes # 2 * n THEN Refused(IllegalValue)
     ELSE Then(Validate(store, 16, r.a, n), LAMBDA s : SetValues(s, 16, r.a, r.vals))

\* (value & and_mask) | (or_mask & ~and_mask)
Masked(value, and, or) ==
  MapThenSumSet(LAMBDA b : 2^b * (IF Bit(and, b) = 1 THEN Bit(value, b) ELSE Bit(or, b)),
                0 .. WordBits - 1)

MaskWrite(r) ==
  LET got == Then(Validate(store, 22, r.a, 1), LAMBDA s : GetValues(s, 22, r.a, 1))
  IN Then(got, LAMBDA s : SetValues(s, 22, r.a, <<Masked(got.vals[1], r.and, r.or)>>))

\* The numbers of values, and the byte count of those to write.
ReadWriteFits(r) ==
  Within(r.n, 125) /\ Within(Len(r.vals), 121) /\ r.bytes = 2 * Len(r.vals)

\* Mutant of ReadWrite: written before the address of the read is checked.
WritesFirst(r) ==
  IF ~ReadWriteFits(r) THEN Refused(IllegalValue)
  ELSE Sendable(Then(Then(Then(Validate(store, 23, r.a, Len(r.vals)),
                               LAMBDA s : SetValues(s, 23, r.a, r.vals)),
                          LAMBDA s : Validate(s, 23, r.ra, r.n)),
                     LAMBDA s : GetValues(s, 23, r.ra, r.n)))

\* Mutant of ReadWrite: read before it is written.
ReadsFirst(r) ==
  IF ~ReadWriteFits(r) THEN Refused(IllegalValue)
  ELSE LET got == Then(Then(Validate(store, 23, r.a, Len(r.vals)),
                            LAMBDA s : Validate(s, 23, r.ra, r.n)),
                       LAMBDA s : GetValues(s, 23, r.ra, r.n))
       IN Then(got, LAMBDA s : [SetValues(s, 23, r.a, r.vals) EXCEPT !.vals = got.vals])

\* Both addresses are checked, then it writes, then it reads.
ReadWrite(r) ==
  IF ~ReadWriteFits(r) THEN Refused(IllegalValue)
  ELSE Sendable(Then(Then(Then(Validate(store, 23, r.a, Len(r.vals)),
                               LAMBDA s : Validate(s, 23, r.ra, r.n)),
                          LAMBDA s : SetValues(s, 23, r.a, r.vals)),
                     LAMBDA s : GetValues(s, 23, r.ra, r.n)))

\* Files are not stored, and nothing fills a queue.
FileAccess(r) == Refused(0)

\* Read code 0 passes the check, but there is nothing to look up for it.
DeviceInfo(r) ==
  Refused(IF r.code > 4 THEN IllegalValue ELSE IF r.code = 0 THEN SlaveFailure ELSE 0)

\* The request's execute(), found by its function code.
Data(r) ==
  IF r.fc \in {1, 2} THEN ReadBits(r)
  ELSE IF r.fc \in {3, 4} THEN ReadRegisters(r)
  ELSE IF r.fc \in {5, 6} THEN WriteOne(r)
  ELSE IF r.fc = 15 THEN WriteCoils(r)
  ELSE IF r.fc = 16 THEN WriteRegisters(r)
  ELSE IF r.fc = 22 THEN MaskWrite(r)
  ELSE IF r.fc = 23 THEN ReadWrite(r)
  ELSE IF r.fc \in {20, 21, 24} THEN FileAccess(r)
  ELSE IF r.fc = 43 THEN DeviceInfo(r)
  ELSE Refused(IllegalFunction)

IsDiagnostic(r) == r.fc \in {7, 8, 11, 12, 17}

\* What the client is answered: a code, and values.
Executed(r) ==
  IF IsDiagnostic(r)
    THEN LET done == IF r.fc = 8 THEN Diagnose(r) ELSE Report(r)
         IN [code |-> done.code, vals |-> done.vals, store |-> store, block |-> done.block]
    ELSE LET done == Data(r)
         IN [code |-> done.code, vals |-> done.vals, store |-> done.store, block |-> mcb]

RequestShape(r) ==
  IF r.fc \in {1, 2} THEN ReadBitsShape(r)
  ELSE IF r.fc \in {3, 4} THEN ReadRegistersShape(r)
  ELSE IF r.fc \in {5, 6} THEN WriteOneShape
  ELSE IF r.fc = 15 THEN WriteCoilsShape(r)
  ELSE IF r.fc = 16 THEN WriteRegistersShape(r)
  ELSE IF r.fc = 22 THEN MaskWriteShape
  ELSE IF r.fc = 23 THEN ReadWriteShape(r)
  ELSE IF r.fc = 8 THEN DiagnosticShape(r)
  ELSE IF r.fc = 20 THEN ReadFileShape(r)
  ELSE IF r.fc = 21 THEN WriteFileShape(r)
  ELSE IF r.fc = 24 THEN FifoShape
  ELSE IF r.fc = 43 THEN DeviceInfoShape
  ELSE OtherShape

\* The answer of a request that is not refused.
AnswerShape(r) ==
  IF IsDiagnostic(r) THEN DiagnosticAnswerShape(r)
  ELSE IF r.fc \in {1, 2} THEN BitsShape(r.n)
  ELSE IF r.fc \in {3, 4, 23} THEN RegistersShape(r.n)
  ELSE IF r.fc \in {5, 6, 15, 16, 22} THEN WrittenShape(r.fc)
  ELSE IF r.fc = 20 THEN FileReadShape
  ELSE IF r.fc = 21 THEN [pdu |-> WriteFileShape(r).pdu, frame |-> WriteFileShape(r).frame]
  ELSE QueueShape(0)

-----------------------------------------------------------------------------
Init == store \in Stores /\ mcb = NewControlBlock /\ alive = TRUE

\* A request is executed and answered, or never is.  A cell that counts its
\* reads stops, for the model, one past what a word holds.
Serve(r) ==
  LET done == Executed(r)
  IN /\ alive
     /\ store.kind = "simulator" =>
          \A i \in DOMAIN store.cells : done.store.cells[i].value <= WordMax + 1
     /\ store' = done.store
     /\ mcb' = done.block
     /\ alive' = (done.code # Hangs)

\* The program around the server, up to an event more than a word can count.
\* It counts up only.
Application ==
  /\ alive
  /\ store.kind \in Busy
  /\ \/ mcb.counters[EventCounter] <= WordMax /\ (AddEvent("sent") \/ Count(EventCounter))
     \/ mcb.counters[0] = 0 /\ Count(0)
     \/ ClearEvents
     \/ \E on \in BOOLEAN : SetDiagnostic(1, on)
  /\ UNCHANGED <<store, alive>>

\* The far device of a gateway answers or does not, the gateway's client has a
\* connection to it or none.
FarDevice ==
  /\ store.kind = "remote"
  /\ \E far \in {"up", "silent", "gone"} : store' = [store EXCEPT !.far = far]
  /\ UNCHANGED <<mcb, alive>>

Next == (\E r \in Requests : Serve(r)) \/ Application \/ FarDevice

Spec == Init /\ [][Next]_deviceVars

-----------------------------------------------------------------------------
\* A request that is answered with an exception has changed nothing, whatever
\* it checked before it wrote: a master that repeats it, or gives up, finds the
\* slave as it was.  (A simulator's cells act, and its writes of bits may reach
\* past its last cell: see OnlyWritableChange.)
FailedChangesNothing ==
  store.kind # "simulator" =>
    \A r \in Requests :
      Executed(r).code > 0 => Executed(r).store = store /\ Executed(r).block = mcb

\* The values an acknowledged write stands for, by address.
Written(w) ==
  IF w.fc \in {5, 6} THEN [a \in {w.a} |-> w.value]
  ELSE IF w.fc = 22
    THEN [a \in {w.a} |-> Masked(GetValues(store, 3, w.a, 1).vals[1], w.and, w.or)]
  ELSE [a \in w.a .. w.a + Len(w.vals) - 1 |-> w.vals[a - w.a + 1]]

\* What a client reads, one address at a time, in a store as it is.
Reads(s, fc, a) ==
  IF Validate(s, fc, a, 1).code = 0 THEN GetValues(s, fc, a, 1).vals ELSE <<>>

Passive == store.kind \in {"sequential", "sparse"}

\* After an acknowledged write every address of the table reads as what was
\* written there, and every other one as before; no other table has changed.
\* A write that also reads answers with what it wrote.
ReadsWhatWasWritten ==
  Passive =>
    \A w \in WriteRequests :
      LET done == Executed(w)
          read == IF w.fc \in BitFunctions THEN 1 ELSE 3
      IN done.code = 0 =>
           /\ \A a \in Addresses :
                Reads(done.store, read, a) =
                  IF a \in DOMAIN Written(w) THEN <<Written(w)[a]>> ELSE Reads(store, read, a)
           /\ \A other \in {1, 2, 3, 4} \ {read}, a \in Addresses :
                Reads(done.store, other, a) = Reads(store, other, a)
           /\ w.fc = 23 => done.vals = GetValues(done.store, 3, w.ra, w.n).vals

\* Cells that may be written, and cells that act when they are read.
Changeable(cell) == cell.access \/ cell.action = "increment"

\* Cell i is of the value that begins in cell j: two cells for 32 bits, and for
\* a string those after it that begin nothing.
Takes(cells, j, i) ==
  IF Wide(cells[j].type) THEN i \in {j, j + 1}
  ELSE \A k \in j + 1 .. i : cells[k].type = "next"

\* Through a simulator, a request for words changes only such cells, and those
\* of a value that begins in one: a strict simulator looks at the first cell of
\* a value for all of it, and a value that counts carries into its second.
OnlyWritableChange ==
  store.kind = "simulator" =>
    \A r \in {q \in Requests : q.fc \notin BitFunctions}, i \in DOMAIN store.cells :
      Executed(r).store.cells[i] # store.cells[i] =>
        \E j \in 0 .. i :
          /\ Changeable(store.cells[j]) /\ Takes(store.cells, j, i)
          /\ i = j \/ store.strict \/ store.cells[j].action = "increment"

\* No section "repeat" has copied the first word of a 32-bit value only.
Uncut(cells) ==
  \A i \in DOMAIN cells :
    Wide(cells[i].type) => i + 1 \in DOMAIN cells /\ cells[i + 1].type = "next"

\* A strict simulator hands out, and takes, both words of a 32-bit value or none.
WholeValues ==
  (store.kind = "simulator" /\ store.strict /\ Uncut(store.cells)) =>
    \A r \in {q \in Requests : q.fc \in {3, 4, 6, 16, 22}}, i \in DOMAIN store.cells :
      LET first == CellOf(store, r.fc, r.a)
          count == IF r.fc \in {3, 4} THEN r.n ELSE IF r.fc = 16 THEN Len(r.vals) ELSE 1
          last == first + count - 1
      IN (Executed(r).code = 0 /\ Wide(store.cells[i].type))
           => (i \in first .. last <=> i + 1 \in first .. last)

\* The cells that a request has checked: those it reads, and those it writes.
Checked(r) ==
  LET Cells(fc, a, n) == CellOf(store, fc, a) .. CellOf(store, fc, a) + CellsOf(fc, n) - 1
  IN IF r.fc \in 1 .. 4 THEN {Cells(r.fc, r.a, r.n)}
     ELSE IF r.fc = 23 THEN {Cells(23, r.a, Len(r.vals)), Cells(23, r.ra, r.n)}
     ELSE {Cells(r.fc, r.a, IF r.fc \in {15, 16} THEN Len(r.vals) ELSE 1)}

\* The event loop goes on after every request but those, to a strict simulator,
\* that reach from a string into the value after it.  A master that asks for one
\* string at a time, or for single words, never stops a server for all others.
OnlyStringsHang ==
  \A r \in Requests :
    Executed(r).code = Hangs =>
      /\ store.kind = "simulator" /\ store.strict
      /\ \E cells \in Checked(r) : \E j, k \in cells \cap DOMAIN store.cells :
           j < k /\ store.cells[j].type = "string" /\ store.cells[k].type # "next"

\* Whatever clears the log, the counters or both, by a request or in the program:
\* the event counter is never behind the log that is answered beside it, and the
\* log is no longer than it may be.
LogIsCounted == Len(mcb.events) <= Min({EventCap, mcb.counters[EventCounter]})

\* Forcing a slave to listen only, which nothing answers, and the statistics of
\* Modbus Plus, whose 55 words the code counts as 56.
Unpredicted(r) == r.fc = 8 /\ r.sub \in {4, 21}

\* The places that know how long a message is agree.  A request the server does
\* not refuse for its values, and its answer, fit a PDU, but for those to files,
\* of which nothing counts the records, and for the slave's id, which is sent up
\* to four bytes over.  The client waits for exactly as many
\* bytes as a normal answer has: for one more it would wait out its timeout, one
\* less it would leave in the line.  On a serial line both ends find the end of
\* every frame from its first bytes.
LengthsAgree ==
  /\ \A r \in Requests :
       LET asked == RequestShape(r)
           answer == AnswerShape(r)
       IN /\ asked.frame = asked.pdu + RtuOverhead
          /\ Executed(r).code # IllegalValue /\ r.fc \notin {20, 21} =>
               asked.pdu <= MaxPdu /\ (r.fc \notin {17, 43} => answer.pdu <= MaxPdu)
          /\ Executed(r).code = 0 /\ r.fc = 17 => answer.pdu <= MaxPdu + 4
          /\ ~Unpredicted(r) =>
               /\ asked.expected # None => asked.expected = answer.pdu
               /\ r.fc # 43 => answer.frame = answer.pdu + RtuOverhead
  /\ ExceptionShape.frame = ExceptionShape.pdu + RtuOverhead

\* decode() takes from registers and file records all that encode() put in them,
\* for as many as a request may ask for, and from a queue of values, if it is
\* empty; and a client that reads an identity object by object, going on where
\* each answer tells it to, ends with all of them.
AllDecoded ==
  /\ \A fc \in {3, 4, 23}, n \in 0 .. 125 : RegistersDecoded(fc, n) = n
  /\ \A n \in 0 .. 35 : RecordsDecoded(n) = n
  /\ QueueDecoded(0) = 0
  /\ \A identity \in Identities, code \in 1 .. 3 :
       /\ Walked(identity, code, 0) =
            [got |-> UNION {{i} \X (DOMAIN identity[i]) : i \in ObjectIds(identity, code, 0)},
             next |-> None]
       /\ \A oid \in DOMAIN identity :
            LET page == Page(identity, code, oid)
            IN page.pdu <= MaxPdu /\ page.frame = page.pdu + RtuOverhead

\* A client ends with all the device has for it.  What it decodes of an answer
\* the device gives are as many words as it asked for, whatever the store was
\* made of and whichever writes went before.  The same holds of messages at the
\* limits, and of an identity that takes several answers, if each object fits
\* one; every one of these answers fits a PDU and is measured right.
NothingLost ==
  /\ \A r \in {q \in Requests : q.fc \in {3, 4, 23}} :
       LET done == Executed(r)
       IN done.code = 0 => RegistersDecoded(r.fc, Len(done.vals)) = r.n
  /\ AllDecoded
=============================================================================
