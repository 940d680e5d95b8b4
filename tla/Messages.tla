------------------------------ MODULE Messages ------------------------------
(***************************************************************************)
(* The messages of pymodbus: how long their encodings are, how long the    *)
(* client expects the answer to be before it has it, and how long a frame  *)
(* on a serial line is judged to be from its first bytes.  Payloads are    *)
(* counted, not spelled out: the properties are about lengths.             *)
(*                                                                         *)
(* A request is a record with the function code fc and the fields of its   *)
(* class: a (address), n (count), vals (values to write), and so on.       *)
(* A shape gives for a message                                             *)
(*   pdu       bytes of the function code and what encode() returns,       *)
(*   frame     what calculateRtuFrameSize() says of its frame,             *)
(*   expected  for a request: get_response_pdu_size(), or None.            *)
(***************************************************************************)
EXTENDS Integers, Sequences, FiniteSets, FiniteSetsExt

CONSTANT None   \* no value

IllegalFunction == 1
IllegalAddress == 2
IllegalValue == 3
SlaveFailure == 4

MaxPdu == 253     \* bytes of a PDU, by the Modbus specification
RtuOverhead == 3  \* the unit before the PDU, the CRC after it

\* pack_bitstring(): eight bits to a byte.
BytesOf(bits) == (bits + 7) \div 8

\* rtuFrameSize(): header, byte count, data and CRC.
CountedFrame(byteCount, position) == byteCount + position + 3

\* The number of values Python's range(first, limit, step) has.
RangeLength(first, limit, step) ==
  IF limit <= first THEN 0 ELSE (limit - first + step - 1) \div step

\* The first k of some numbers, added up.
SumOf(numbers, k) ==
  LET Sum[j \in 0 .. Len(numbers)] == IF j = 0 THEN 0 ELSE Sum[j - 1] + numbers[j]
  IN Sum[k]

-----------------------------------------------------------------------------
(* bit_read_message.py and register_read_message.py                        *)

\* Mutant of ReadBitsShape: a byte more for the bits left over, even if there are none.
AlwaysOneMore(r) == [pdu |-> 5, frame |-> 8, expected |-> 2 + r.n \div 8 + 1]

ReadBitsShape(r) ==
  [pdu |-> 5, frame |-> 8,
   expected |-> 2 + r.n \div 8 + (IF r.n % 8 = 0 THEN 0 ELSE 1)]

BitsShape(n) == [pdu |-> 2 + BytesOf(n), frame |-> CountedFrame(BytesOf(n), 2)]

ReadRegistersShape(r) == [pdu |-> 5, frame |-> 8, expected |-> 2 + 2 * r.n]

RegistersShape(n) == [pdu |-> 2 + 2 * n, frame |-> CountedFrame(2 * n, 2)]

ReadWriteShape(r) ==
  [pdu |-> 10 + 2 * Len(r.vals), frame |-> CountedFrame(2 * Len(r.vals), 10),
   expected |-> 2 + 2 * r.n]

\* Mutant of RegistersDecoded: the range ends before the last register.
AllButLast(fc, n) == RangeLength(1, 2 * n - 1, 2)

\* The registers decode() takes from an answer that carries n of them.
RegistersDecoded(fc, n) ==
  IF fc = 23 THEN RangeLength(1, 2 * n, 2) ELSE RangeLength(1, 2 * n + 1, 2)

-----------------------------------------------------------------------------
(* bit_write_message.py and register_write_message.py                      *)

WriteOneShape == [pdu |-> 5, frame |-> 8, expected |-> 5]

WriteCoilsShape(r) ==
  [pdu |-> 6 + BytesOf(Len(r.vals)),
   frame |-> CountedFrame(BytesOf(Len(r.vals)), 6), expected |-> 5]

WriteRegistersShape(r) ==
  [pdu |-> 6 + 2 * Len(r.vals), frame |-> CountedFrame(2 * Len(r.vals), 6),
   expected |-> 5]

MaskWriteShape == [pdu |-> 7, frame |-> 10, expected |-> None]

\* All writes answer with as many bytes as a single one, a mask with its own.
WrittenShape(fc) ==
  IF fc = 22 THEN [pdu |-> 7, frame |-> 10] ELSE [pdu |-> 5, frame |-> 8]

-----------------------------------------------------------------------------
(* other_message.py, diag_message.py and pdu.py                            *)

\* 7: exception status, 11: event counter, 12: event log, 17: slave id.
OtherShape == [pdu |-> 1, frame |-> 4, expected |-> None]

StatusShape == [pdu |-> 2, frame |-> 5]
CounterShape == [pdu |-> 5, frame |-> 8]
EventLogShape(events) == [pdu |-> 8 + events, frame |-> CountedFrame(6 + events, 2)]
SlaveIdShape(length) == [pdu |-> 3 + length, frame |-> CountedFrame(length + 1, 2)]

\* The 55 words of ModbusPlusStatistics.encode(), after the operation.
PlusWords == 55
GetStatistics == 3
ClearStatistics == 4

\* Sub-function 21 is the only one that does not answer with one word.
DiagnosticShape(r) ==
  [pdu |-> 5, frame |-> 8,
   expected |-> IF r.sub # 21 THEN 5
                ELSE IF r.data = GetStatistics THEN 117 ELSE 7]

DiagnosedShape(r) ==
  [pdu |-> IF r.sub = 4 THEN 3
           ELSE IF r.sub = 21 /\ r.data # ClearStatistics
                  THEN 3 + 2 * (1 + PlusWords)
           ELSE 5,
   frame |-> 8]

ExceptionShape == [pdu |-> 2, frame |-> 5]

-----------------------------------------------------------------------------
(* file_message.py                                                         *)

ReadFileShape(r) ==
  [pdu |-> 2 + 7 * Len(r.records), frame |-> CountedFrame(7 * Len(r.records), 2),
   expected |-> None]

\* execute() answers without a record, whatever was asked.
FileReadShape == [pdu |-> 2, frame |-> CountedFrame(0, 2)]

\* A record is its length in words; the answer is an echo of the request.
FileBytes(records) == SumOf([k \in DOMAIN records |-> 7 + 2 * records[k]], Len(records))
WriteFileShape(r) ==
  [pdu |-> 2 + FileBytes(r.records), frame |-> CountedFrame(FileBytes(r.records), 2),
   expected |-> None]

FifoShape == [pdu |-> 3, frame |-> 6, expected |-> None]
QueueShape(n) == [pdu |-> 5 + 2 * n, frame |-> (2 + 2 * n) + 6]

\* The values decode() takes from a queue of n: the byte count stands where
\* it reads the number of values.
QueueDecoded(n) == RangeLength(0, 2 * n - 4, 1)

\* The records a read request for n of them is decoded to.
RecordsDecoded(n) == RangeLength(1, 7 * n, 7)

-----------------------------------------------------------------------------
(* mei_message.py and DeviceInformationFactory of device.py                *)

DeviceInfoShape == [pdu |-> 4, frame |-> 7, expected |-> None]

\* The objects of an identity that a request asks for: identity maps an
\* object's id to the lengths of its values, an empty sequence if it has none.
ObjectIds(identity, code, oid) ==
  LET named == {i \in DOMAIN identity : identity[i] # <<>>}
      ids == IF code = 2 THEN 0 .. 6 ELSE DOMAIN identity \ 7 .. 127
  IN IF code = 1 THEN {i \in named : i \in oid .. 2}
     ELSE IF code = 4 THEN {oid}
     ELSE IF oid \in named THEN {i \in named \cap ids : i >= oid}
     ELSE named \cap ids

\* How long the slave's id is, the basic objects joined by dashes, b"Pymodbus"
\* if there are none, for an identity whose objects are texts.
NotText == -1
SlaveIdLength(identity) ==
  LET ids == ObjectIds(identity, 1, 0)
      Part(i) == IF i \in ids THEN identity[i][1] ELSE 0
      length == Part(0) + Part(1) + Part(2) + Cardinality(ids) - 1
  IN IF \E i \in ids : Len(identity[i]) > 1 THEN NotText
     ELSE IF length <= 0 THEN 8 ELSE length

\* Their values one after the other, in the order of the ids; an object asked
\* for by its id is sent even if it is empty.
Objects(identity, ids) ==
  LET Values(i) == IF identity[i] = <<>> THEN <<0>> ELSE identity[i]
      From[rest \in SUBSET ids] ==
        IF rest = {} THEN <<>>
        ELSE LET i == Min(rest)
             IN [k \in DOMAIN Values(i) |-> <<i, k, Values(i)[k]>>]
                  \o From[rest \ {i}]
  IN From[ids]

\* The space 253 - 6 is used up by two bytes of header and the data of each
\* object; an object that would leave nothing of it waits for another request.
Space == MaxPdu - 6
Used(objects, k) == SumOf([j \in DOMAIN objects |-> 2 + objects[j][3]], k)
Sent(objects) ==
  Max({k \in 0 .. Len(objects) : \A j \in 1 .. k : Used(objects, j) < Space})

\* One answer: the objects in it, and the id to go on with, if any.
Page(identity, code, oid) ==
  LET objects == Objects(identity, ObjectIds(identity, code, oid))
      sent == Sent(objects)
  IN [objects |-> {<<objects[k][1], objects[k][2]>> : k \in 1 .. sent},
      pdu |-> 7 + Used(objects, sent),
      frame |-> 10 + Used(objects, sent),
      next |-> IF sent < Len(objects) THEN objects[sent + 1][1] ELSE None]

\* What a client has that goes on where each answer tells it to: after as many
\* answers as there are objects it must have seen them all.
Walked(identity, code, oid) ==
  LET Walk[k \in 0 .. Cardinality(DOMAIN identity)] ==
        IF k = 0 THEN [got |-> {}, next |-> oid]
        ELSE LET before == Walk[k - 1]
             IN IF before.next = None THEN before
                ELSE LET page == Page(identity, code, before.next)
                     IN [got |-> before.got \cup page.objects, next |-> page.next]
  IN Walk[Cardinality(DOMAIN identity)]
=============================================================================
