---------------------------- MODULE AsyncServer ----------------------------
(***************************************************************************)
(* ModbusTcpServer (async_io.py) with the socket framer: a handler task    *)
(* for every connection, which takes what was received from a queue and    *)
(* executes the whole requests in it on the slaves of the context.         *)
(*                                                                         *)
(* What execute() of a request comes to is its kind (see ModbusDevice):    *)
(*   "ok" answered, "fails" an exception in the datastore, "mute" one that *)
(*   nothing answers, "unsendable" an answer that cannot be encoded.       *)
(***************************************************************************)
EXTENDS Connection

CONSTANT Slaves   \* the units of the context, in order

ASSUME SlavesAssumption == Slaves \in Seq(Nat) /\ Slaves # <<>>

VARIABLES
  server,    \* mode, ignore (missing slaves), listener, started
  handler,   \* of each connection: task, queue, buffer of the framer, units
  executed,  \* what execute() was called for, of what was sent: request and units, in order
  misread    \* requests whose bytes were read as others

serverVars == <<server, handler, executed, misread>>

\* What a handler that is done still holds is of no use to anyone.
NoHandler == [task |-> "none", queue |-> <<>>, buffer |-> <<>>]

\* One context for all units ("single"), or one for each of them, broadcasts
\* off ("many") or on ("broadcast").
IsBroadcast(i) == server.mode = "broadcast" /\ Sent(i).unit = 0

\* _validate_unit_id(): 0 or 255 among the units lets every unit pass; handle()
\* adds 0 for broadcasts.
ValidUnit(i) ==
  \/ server.mode \in {"single", "broadcast"}
  \/ ToSet(Slaves) \cap {0, 255, Sent(i).unit} # {}

\* The units that request i is executed on: all, up to one that raises an
\* exception, for a broadcast; one or, a NoSuchSlaveException, none.
ExecutedOn(i) ==
  IF IsBroadcast(i)
    THEN IF Sent(i).kind = "fails" THEN {Slaves[1]} ELSE ToSet(Slaves)
  ELSE IF server.mode = "single" THEN {0}
  ELSE {Sent(i).unit} \cap ToSet(Slaves)

\* Mutant of Answered: a broadcast is answered, by the last slave.
AnswersAll(i) == Sent(i).kind \in {"ok", "fails"}

\* No answer to a broadcast, to a request whose answer is not sent, or to one
\* for a slave that is missing if such are ignored.
Answered(i) ==
  /\ ~IsBroadcast(i)
  /\ IF ExecutedOn(i) = {} THEN ~server.ignore ELSE Sent(i).kind \in {"ok", "fails"}

\* The answers to the requests of run that have one.
Answers(run) ==
  LET To[k \in 0 .. Len(run)] ==
        IF k = 0 THEN <<>>
        ELSE IF Answered(run[k]) THEN Append(To[k - 1], run[k]) ELSE To[k - 1]
  IN To[Len(run)]

\* The answer cannot be encoded: the exception leaves execute() and the framer.
CannotSend(i) ==
  Sent(i).kind = "unsendable" /\ ~IsBroadcast(i) /\ ExecutedOn(i) # {}

\* What the framer makes of the pieces in its buffer: the requests it calls
\* execute() for, what is left, and whether it raised an exception.  It works
\* through whole frames, each a head and a tail, up to an answer that cannot be
\* sent or to a frame for another unit, which drops all that is behind it.  With
\* less than a frame it does not wait: eight bytes or more are dropped, fewer
\* raise an exception; luck says which.  Where a frame has lost its head, the
\* bytes are taken for a header, and come to one or the other, or to Misread().
Parsed(pieces, luck) ==
  LET Whole(k) == k < Len(pieces) /\ pieces[k].part = "head"
      Passed(k) == Whole(k) /\ ValidUnit(pieces[k].id) /\ ~CannotSend(pieces[k].id)
      n == Max({m \in 0 .. Len(pieces) : \A j \in 1 .. m : Passed(2 * j - 1)})
      next == 2 * n + 1
      Run(m) == [j \in 1 .. m |-> pieces[2 * j - 1].id]
      Rest(k) == SubSeq(pieces, k, Len(pieces))
  IN IF next <= Len(pieces) /\ ~Whole(next) /\ luck = "raised"
       THEN [run |-> Run(n), left |-> Rest(next), raised |-> TRUE]
     ELSE IF next <= Len(pieces) /\ Whole(next) /\ ValidUnit(pieces[next].id)
       THEN [run |-> Run(n + 1), left |-> Rest(next + 2), raised |-> TRUE]
     ELSE [run |-> Run(n), left |-> <<>>, raised |-> FALSE]

-----------------------------------------------------------------------------
ServerInit(mode, ignore) ==
  /\ server = [mode |-> mode, ignore |-> ignore, listener |-> "none", started |-> FALSE]
  /\ handler = [c \in Conns |-> NoHandler]
  /\ executed = <<>> /\ misread = {}

\* serve_forever(): a second time, after server_close(), the future that tells
\* of the start is done already: InvalidStateError, but the socket listens.
ServeForever ==
  /\ server.listener = "none"
  /\ server' = [server EXCEPT !.listener = IF server.started THEN "orphan" ELSE "serving",
                              !.started = TRUE]
  /\ UNCHANGED <<handler, executed, misread, connectionVars>>

\* server_close(): the handler tasks are cancelled, their transports stay open.
ServerClose ==
  /\ server.listener # "none"
  /\ server' = [server EXCEPT !.listener = "none"]
  /\ handler' = [c \in Conns |-> NoHandler]
  /\ UNCHANGED <<executed, misread, connectionVars>>

\* connection_made() of the handler.
Accept(c) == handler' = [handler EXCEPT ![c] = [NoHandler EXCEPT !.task = "running"]]

\* data_received(): the first n pieces under way, with whatever is in the queue.
DataReceived(c, n) ==
  /\ far[c] = "open"
  /\ n \in 1 .. Len(up[c])
  /\ handler' = IF handler[c].task = "none" THEN handler
                 ELSE [handler EXCEPT ![c].queue = Append(@, SubSeq(up[c], 1, n))]
  /\ up' = [up EXCEPT ![c] = SubSeq(@, n + 1, Len(@))]
  /\ UNCHANGED <<server, executed, misread, request, near, far, down>>

\* Mutant of Buffered: a frame that was begun is forgotten.
OnlyNew(c) == Head(handler[c].queue)

\* addToFrame(): what was left and what has come.
Buffered(c) == handler[c].buffer \o Head(handler[c].queue)

\* One round of handle(): the answers of all whole requests are written at
\* once; an exception closes the transport, but the loop goes on until
\* connection_lost().
Handle(c, luck) ==
  LET parsed == Parsed(Buffered(c), luck)
  IN /\ handler[c].task = "running" /\ handler[c].queue # <<>>
     /\ handler' = [handler EXCEPT ![c].queue = Tail(@), ![c].buffer = parsed.left]
     /\ executed' = executed \o [k \in DOMAIN parsed.run |->
                      [id |-> parsed.run[k], units |-> ExecutedOn(parsed.run[k])]]
     /\ down' = [down EXCEPT ![c] = Writes(@, far[c], Answers(parsed.run))]
     /\ far' = [far EXCEPT ![c] = IF parsed.raised THEN Closing(@) ELSE @]
     /\ UNCHANGED <<server, misread, request, near, up>>

\* The answer that fewer than eight bytes get whose first is 0x80 or more: they
\* are taken for a request with an unknown function, and no header.
Unframed == [tid |-> 0, unit |-> 0, kind |-> "ok"]

Bitten(piece) == [piece EXCEPT !.part = IF @ = "head" THEN "rest" ELSE @]

\* What is left when the first n pieces were read, the last one whole or in part.
Unread(pieces, n, whole) ==
  (IF whole THEN <<>> ELSE <<Bitten(pieces[n])>>) \o SubSeq(pieces, n + 1, Len(pieces))

\* Bytes at the beginning of the buffer that are not a whole frame happen to be
\* a request: a header, of which no more than the length and the unit is looked
\* at, and what follows it; or less than a header.  It is executed and answered,
\* and the framer works on behind it: in the same round, unless the answer
\* cannot be sent.  Other tasks may run before that here, as if the next bytes
\* had come by themselves.
Misread(c, alien, n, whole) ==
  LET pieces == Buffered(c)
  IN /\ handler[c].task = "running" /\ handler[c].queue # <<>>
     /\ n \in DOMAIN pieces
     /\ \/ pieces[1].part # "head" /\ ValidUnit(alien)
        \/ (pieces[1].part # "head" \/ Len(pieces) = 1) /\ Sent(alien) = Unframed
     /\ handler' = [handler EXCEPT
          ![c].queue = IF CannotSend(alien) THEN Tail(@) ELSE [@ EXCEPT ![1] = <<>>],
          ![c].buffer = Unread(pieces, n, whole)]
     /\ misread' = misread \cup {pieces[k].id : k \in 1 .. n}
     /\ down' = [down EXCEPT ![c] = Writes(@, far[c], Answers(<<alien>>))]
     /\ far' = [far EXCEPT ![c] = IF CannotSend(alien) THEN Closing(@) ELSE @]
     /\ UNCHANGED <<server, executed, request, near, up>>

\* connection_lost() of the handler: after close(), at the end of what the
\* client sent, or when the network gives up.
HandlerLost(c) ==
  /\ far[c] = "closing" \/ (far[c] = "open" /\ near[c] = "lost")
  /\ far' = [far EXCEPT ![c] = "lost"]
  /\ up' = [up EXCEPT ![c] = <<>>]
  /\ handler' = [handler EXCEPT ![c] = NoHandler]
  /\ UNCHANGED <<server, executed, misread, request, near, down>>
=============================================================================
