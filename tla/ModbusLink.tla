----------------------------- MODULE ModbusLink -----------------------------
(***************************************************************************)
(* One driver's polls through the synchronous client of pymodbus: the      *)
(* transaction manager, the framer, and the serial port or the socket.     *)
(*                                                                         *)
(* A poll asks for the batches of registers of Lengths, one request at a   *)
(* time; after a poll that got all of them the driver may write a register *)
(* (Solis.apply_power_limit).  The device answers in the order it was      *)
(* asked, as late as it likes: the client has stopped waiting for many of  *)
(* the answers that arrive.  On a serial line nothing says which request   *)
(* an answer belongs to; on TCP the transaction identifier would, but the  *)
(* client never compares it, so there too the order of arrival decides.    *)
(*                                                                         *)
(* Requests are numbered in the order they are made (`request').  What the *)
(* device still owes is in `owed', what has arrived since the line was     *)
(* last flushed in `buffer', each frame with the bytes it occupies.        *)
(***************************************************************************)
EXTENDS Integers, Sequences

CONSTANTS
  Lengths,      \* registers in each batch of a poll
  Transports,   \* "rtu": serial line; "tcp": socket
  Backlog,      \* requests the device keeps while it is slow
  MaxRequests   \* bound: requests made by one process

ASSUME LengthsAssumption ==
  /\ Lengths \in Seq(1 .. 125)
  /\ Lengths # <<>>
ASSUME TransportsAssumption == Transports \subseteq {"rtu", "tcp"}
ASSUME BacklogAssumption == Backlog \in Nat \ {0}

VARIABLES
  transport,   \* which client the driver made
  up,          \* whether the port can be opened and the device is there
  open,        \* ModbusSerialClient.socket, ModbusTcpClient.socket
  noResponse,  \* the unit is in _no_response_devices
  pc,          \* "idle", "ask", "wait", "write", "ended"
  batch,       \* the batch of this poll being read
  request,     \* number of the last request made
  size,        \* its registers; 0 for a write
  taken,       \* for each batch: the request whose answer was taken for it
  failed,      \* read_status_data(): error
  owed,        \* requests the device has yet to answer
  buffer,      \* frames that have arrived and were not flushed
  written,     \* the request whose answer confirmed the last write
  inSync,      \* history: nothing was owed when this poll began
  prompt       \* history: nor has any answer since been late or damaged

driverVars == <<pc, batch, request, size, taken, failed, written>>
clientVars == <<open, noResponse>>
deviceVars == <<up, owed, buffer>>
historyVars == <<inSync, prompt>>
vars == <<transport, driverVars, clientVars, deviceVars, historyVars>>

Batch == DOMAIN Lengths
Kind == {"data", "written", "exception", "garbage"}

\* A request as the device keeps it: its number, and its registers.
Asked == [id : Nat, size : 0 .. 125]

\* A frame that has arrived: the request it answers, the bytes it occupies, and
\* where it ends in the stream.
Arrived == [id : Nat, size : 0 .. 125, kind : Kind, bytes : Nat, upto : Nat]

-----------------------------------------------------------------------------
\* The bytes of an answer: byte count and registers, or address and count, or
\* an exception code, behind the function code and inside the frame: unit and
\* CRC, or an MBAP header.
FrameBytes == IF transport = "tcp" THEN 7 ELSE 3
ReadBytes(n) == FrameBytes + 2 + 2 * n
WriteBytes == FrameBytes + 5
ExceptionBytes == FrameBytes + 2
\* What is read first, to see the function code: on TCP the header before it.
MinBytes == IF transport = "tcp" THEN 8 ELSE 4

\* get_response_pdu_size() of the request, plus the frame around it.
WithoutCrc == IF size = 0 THEN WriteBytes ELSE ReadBytes(size) - 2
ExpectedBytes == IF size = 0 THEN WriteBytes ELSE ReadBytes(size)

AnswerBytes(asked, kind) ==
  IF kind = "exception" THEN ExceptionBytes
  ELSE IF asked.size = 0 THEN WriteBytes ELSE ReadBytes(asked.size)

Received == IF buffer = <<>> THEN 0 ELSE buffer[Len(buffer)].upto

\* The frame an answer makes behind what has already arrived.
Frame(asked, kind, bytes) ==
  [id |-> asked.id, size |-> asked.size, kind |-> kind,
   bytes |-> bytes, upto |-> Received + bytes]

\* _recv(): the bytes asked for, unless the function code of the first bytes
\* says exception; a unit that did not answer is read in full at once.
Wanted ==
  IF ~noResponse /\ buffer[1].kind = "exception" THEN ExceptionBytes
  ELSE ExpectedBytes

\* The bytes a frame must end within to have been read.  On TCP the MBAP header
\* says where the first frame ends, or a full read has no bound.
WithinRead(k) ==
  IF transport = "rtu" THEN buffer[k].upto <= Wanted ELSE noResponse \/ k = 1

\* processIncomingPacket(): the frames that are complete in what was read, up
\* to the first that is none.
Answers ==
  {k \in DOMAIN buffer : /\ WithinRead(k)
                         /\ \A j \in 1 .. k : buffer[j].kind # "garbage"}

\* All are filed under the transaction id of the request, so the last one is
\* what getTransaction() returns.
IsResponse(k) == k \in Answers /\ \A j \in Answers : j <= k

\* Too little to read the function code: InvalidMessageReceivedException, or
\* nothing at all in a full read.  Both leave an empty response.
NothingRead ==
  \/ buffer = <<>>
  \/ ~noResponse /\ Received < MinBytes

-----------------------------------------------------------------------------
TypeOK ==
  /\ transport \in Transports
  /\ up \in BOOLEAN
  /\ open \in BOOLEAN
  /\ noResponse \in BOOLEAN
  /\ pc \in {"idle", "ask", "wait", "write", "ended"}
  /\ batch \in Batch \cup {Len(Lengths) + 1}
  /\ request \in Nat
  /\ size \in 0 .. 125
  /\ taken \in [Batch -> Nat]
  /\ failed \in BOOLEAN
  /\ owed \in Seq(Asked)
  /\ buffer \in Seq(Arrived)
  /\ written \in Nat
  /\ inSync \in BOOLEAN
  /\ prompt \in BOOLEAN

NothingTaken == [b \in Batch |-> 0]

Init ==
  /\ transport \in Transports
  /\ up = TRUE
  /\ open = FALSE
  /\ noResponse = FALSE
  /\ pc = "idle"
  /\ batch = 1
  /\ request = 0
  /\ size = 0
  /\ taken = NothingTaken
  /\ failed = FALSE
  /\ owed = <<>>
  /\ buffer = <<>>
  /\ written = 0
  /\ inSync = FALSE
  /\ prompt = FALSE

-----------------------------------------------------------------------------
\* The driver.

BeginPoll ==
  /\ pc = "idle"
  /\ request + Len(Lengths) < MaxRequests
  /\ pc' = "ask"
  /\ batch' = 1
  /\ taken' = NothingTaken
  /\ failed' = FALSE
  /\ inSync' = (owed = <<>>)
  /\ prompt' = (up /\ inSync')
  /\ UNCHANGED <<transport, request, size, written, clientVars, deviceVars>>

\* Each batch is read, whether or not those before it failed.
SkipsOne == batch + 2
Following == batch + 1

\* The limit is looked at, and written, only when refresh_data() returned True.
WritesAnyway(error) == "write"
AfterPoll(error) == IF error THEN "idle" ELSE "write"

\* The batch is over: the next one, or the end of read_status_data().
NextBatch(got) ==
  /\ taken' = [taken EXCEPT ![batch] = got]
  /\ failed' = (failed \/ got = 0)
  /\ batch' = Following
  /\ pc' = IF batch < Len(Lengths) THEN "ask" ELSE AfterPoll(failed \/ got = 0)
  /\ UNCHANGED written

\* apply_power_limit(): its result is not looked at.
EndWrite(got) ==
  /\ written' = got
  /\ pc' = "idle"
  /\ UNCHANGED <<batch, taken, failed>>

Finish(got) == IF size = 0 THEN EndWrite(got) ELSE NextBatch(got)

\* A poll that went well need not write.
SkipWrite ==
  /\ pc = "write"
  /\ EndWrite(0)
  /\ UNCHANGED <<transport, request, size, clientVars, deviceVars, historyVars>>

\* _ensure_connected() fails: `No connection'.
CannotConnect ==
  /\ pc \in {"ask", "write"}
  /\ ~open
  /\ ~up
  /\ IF pc = "write" THEN EndWrite(0) ELSE NextBatch(0)
  /\ UNCHANGED <<transport, request, size, clientVars, deviceVars, historyVars>>

\* A serial port flushes what has arrived before it writes, a socket does not.
FlushesNothing == buffer
Flushed == IF transport = "rtu" \/ ~open THEN <<>> ELSE buffer

\* execute() to the end of send(), on a connection opened again if need be.
Send ==
  /\ pc \in {"ask", "write"}
  /\ open \/ up
  /\ open' = TRUE
  /\ request' = request + 1
  /\ size' = IF pc = "write" THEN 0 ELSE Lengths[batch]
  /\ pc' = "wait"
  /\ buffer' = Flushed
  /\ owed' = IF up /\ Len(owed) < Backlog
             THEN Append(owed, [id |-> request + 1, size |-> size'])
             ELSE owed
  /\ UNCHANGED <<transport, up, noResponse, batch, taken, failed, written, historyVars>>

\* close(): a TCP server drops what it owed on that connection, a serial
\* device does not know.
StaysOpen == UNCHANGED <<open, buffer, owed>>
Close ==
  /\ open' = FALSE
  /\ buffer' = <<>>
  /\ owed' = IF transport = "tcp" THEN <<>> ELSE owed

\* No answer in the buffer that can be decoded: execute() returns a
\* ModbusIOException and closes, reset_socket being True.
Failure ==
  /\ pc = "wait"
  /\ Answers = {} \/ NothingRead
  /\ IF NothingRead THEN noResponse' = TRUE
     \* _validate_response() may find the unit and the function in garbage.
     ELSE noResponse' \in {noResponse, FALSE}
  /\ prompt' = (prompt /\ owed = <<>>)
  /\ Close
  /\ Finish(0)
  /\ UNCHANGED <<transport, up, request, size, inSync>>

\* What is left of the stream: a socket keeps what was not read; what a
\* serial port keeps is flushed by the next send.
Consume ==
  /\ buffer' = IF transport = "tcp" /\ ~noResponse THEN Tail(buffer) ELSE <<>>
  /\ UNCHANGED <<open, owed, up>>

\* The kind the request calls for, which validates the response: a unit that
\* answers is no longer one that does not.  A wrong one changes nothing.
Valid(frame) == (frame.size = 0) = (size = 0)

\* _read_batch() refuses fewer registers than it asked for.
NeverTruncated(frame) == FALSE
Truncated(frame) == frame.size < size

\* The answer is taken for the answer to the last request, whichever it
\* answers: retry_on_invalid is False, so _validate_response() has no effect.
Accept ==
  /\ pc = "wait"
  /\ ~NothingRead
  /\ \E k \in DOMAIN buffer :
       /\ IsResponse(k)
       /\ size # 0 => buffer[k].kind # "written"
       /\ Finish(IF buffer[k].kind = "exception" \/ Truncated(buffer[k])
                 THEN 0 ELSE buffer[k].id)
  /\ noResponse' = (noResponse /\ ~Valid(buffer[1]))
  /\ Consume
  /\ UNCHANGED <<transport, request, size, historyVars>>

\* What cannot be decoded raises what execute() does not catch, and the poll
\* quits the main loop: the answer to a write has no `registers'; the socket
\* framer takes the rest of a full read, too short for a header, for a PDU.
Undecodable ==
  \/ size # 0 /\ \E k \in DOMAIN buffer : IsResponse(k) /\ buffer[k].kind = "written"
  \/ /\ transport = "tcp" /\ noResponse
     /\ \E k \in DOMAIN buffer :
          buffer[k].kind = "garbage" /\ buffer[k].bytes < MinBytes

DecodeRaises ==
  /\ pc = "wait"
  /\ ~NothingRead
  /\ Undecodable
  /\ pc' = "ended"
  /\ UNCHANGED <<transport, batch, request, size, taken, failed, written,
                 clientVars, deviceVars, historyVars>>

\* The server closes the connection before it has sent anything:
\* _handle_abrupt_socket_close() raises ConnectionException through execute().
AbruptClose ==
  /\ pc = "wait"
  /\ transport = "tcp"
  /\ buffer = <<>>
  /\ pc' = "ended"
  /\ prompt' = FALSE
  /\ Close
  /\ UNCHANGED <<transport, up, batch, request, size, taken, failed, written,
                 noResponse, inSync>>

\* The supervisor starts the process again, with a client of its own.
Restart ==
  /\ pc = "ended"
  /\ pc' = "idle"
  /\ noResponse' = FALSE
  /\ written' = 0
  /\ prompt' = FALSE
  /\ Close
  /\ UNCHANGED <<transport, up, batch, request, size, taken, failed, inSync>>

-----------------------------------------------------------------------------
\* The device and its line.

\* The oldest request is answered, with its registers or an exception.
Answer ==
  /\ owed # <<>> /\ up
  /\ \E kind \in Kind \ {"garbage"} :
       /\ kind = "written" => Head(owed).size = 0
       /\ kind = "data" => Head(owed).size # 0
       /\ buffer' = Append(buffer, Frame(Head(owed), kind, AnswerBytes(Head(owed), kind)))
       /\ prompt' = (prompt /\ kind # "exception")
  /\ owed' = Tail(owed)
  /\ UNCHANGED <<transport, up, driverVars, clientVars, inSync>>

\* Bytes of the answer are lost or changed on the way, some or all of them.
Garble ==
  /\ owed # <<>>
  /\ \/ \E bytes \in {MinBytes - 1, AnswerBytes(Head(owed), "data")} :
          buffer' = Append(buffer, Frame(Head(owed), "garbage", bytes))
     \/ buffer' = buffer
  /\ owed' = Tail(owed)
  /\ prompt' = FALSE
  /\ UNCHANGED <<transport, up, driverVars, clientVars, inSync>>

\* The adapter is pulled out, the gateway goes, or either comes back; what the
\* device owes may go with it.
ChangeDevice ==
  /\ up' = ~up
  /\ owed' \in {owed, <<>>}
  /\ prompt' = FALSE
  /\ UNCHANGED <<transport, buffer, driverVars, clientVars, inSync>>

Driver ==
  \/ BeginPoll \/ SkipWrite \/ CannotConnect \/ Send
  \/ Failure \/ Accept \/ DecodeRaises \/ AbruptClose \/ Restart

Next == Driver \/ Answer \/ Garble \/ ChangeDevice

Spec == Init /\ [][Next]_vars

-----------------------------------------------------------------------------
OwnAnswers == \A b \in Batch : taken[b] = request - Len(Lengths) + b

\* A poll that begins with nothing owed and gets all its batches got for each
\* the answer to its own request, whatever was late or lost in between: to
\* take a late answer, a batch before it must have failed.
InSyncPollIsOwn == pc = "write" /\ inSync => OwnAnswers

\* Whatever was late or lost before, a poll that begins with nothing owed and
\* is answered in time and whole gets all its batches, and does not raise.
PromptPollSucceeds == prompt => ~failed /\ pc # "ended"

\* Over TCP an answer is only ever taken for the request it answers, though no
\* identifier is compared: what came late was lost with its connection.
TcpTakesOwn ==
  [][transport = "tcp" /\ Accept =>
       \A k \in DOMAIN buffer : IsResponse(k) => buffer[k].id = request]_vars

\* The registers a batch takes were read for as many registers as it asked for.
TakenHaveItsSize ==
  [][\A b \in Batch : taken'[b] \notin {0, taken[b]} =>
       \E k \in DOMAIN buffer : /\ buffer[k].id = taken'[b]
                                /\ buffer[k].size = Lengths[b]]_vars

\* After such a poll a write counts as done only by the answer to that write.
WriteIsOwn ==
  [][inSync /\ written' # written => written' \in {0, request}]_vars
=============================================================================
