----------------------------- MODULE ModbusTcp -----------------------------
(***************************************************************************)
(* The asynchronous TCP client of pymodbus with its asynchronous server:   *)
(* overlapping requests, timeouts, lost connections and refused attempts,  *)
(* requests cut in two by the network, a server that is closed and started *)
(* again, an application that connects and closes when it likes.           *)
(***************************************************************************)
EXTENDS AsyncServer, AsyncClient

CONSTANTS
  Scenarios,  \* mode and ignore of the server, the id that a connection's earlier
              \* requests came to, and what the application asks in turn: unit, kind
  MaxTroubles \* bound on connect(), close(), server_close(), the connections that
              \* the network loses, the attempts it refuses, and the requests that
              \* are misread, all together

\* A request that timed out stays pending until its connection is lost: if more
\* are made than there are ids, a new one takes its id.
ASSUME ScenariosAssumption ==
  Scenarios \subseteq
    [mode : {"single", "many", "broadcast"}, ignore : BOOLEAN, tid : 0 .. TidModulus - 1,
     asks : {asks \in Seq([unit : Nat, kind : {"ok", "fails", "mute", "unsendable"}]) :
               Len(asks) <= TidModulus}]

VARIABLES
  scenario,  \* one of them
  troubles   \* those so far

vars == <<connectionVars, serverVars, clientVars, scenario, troubles>>

Init ==
  /\ ConnectionInit /\ ClientInit
  /\ \E s \in Scenarios : scenario = s /\ ServerInit(s.mode, s.ignore)
  /\ troubles = 0

Trouble == troubles < MaxTroubles /\ troubles' = troubles + 1 /\ UNCHANGED scenario

Untroubled == UNCHANGED <<scenario, troubles>>
ClientOnly == UNCHANGED serverVars /\ Untroubled
ServerOnly == UNCHANGED clientVars /\ Untroubled

\* An attempt to connect is accepted by the server, or fails.
Free(c) == Unused(c) /\ c # client.protocol
Establish(c) ==
  /\ server.listener # "none"
  /\ Free(c) /\ \A d \in Conns : d < c => ~Free(d)
  /\ Made(c, scenario.tid) /\ Open(c) /\ Accept(c)
  /\ UNCHANGED <<request, server, executed, misread>> /\ Untroubled
Refused ==
  /\ AttemptFails
  /\ Trouble \/ (server.listener = "none" /\ Untroubled)
  /\ UNCHANGED serverVars

Ask ==
  /\ Requests # DOMAIN scenario.asks
  /\ LET next == scenario.asks[Len(request) + 1]
     IN Execute(next.unit, next.kind, server.mode = "broadcast" /\ next.unit = 0)
  /\ ClientOnly

\* The client's end of a connection is lost: closed by either end, or broken.
ClientLost(c) ==
  /\ Lost(c)
  /\ \/ /\ near[c] = "closing" \/ (near[c] = "open" /\ far[c] = "lost" /\ down[c] = <<>>)
        /\ Untroubled
     \/ near[c] = "open" /\ Trouble
  /\ UNCHANGED serverVars

ClientStep ==
  \/ Connect /\ Trouble /\ UNCHANGED serverVars
  \/ Wake /\ ClientOnly
  \/ Close /\ Trouble /\ UNCHANGED serverVars
  \/ \E c \in Conns : Receive(c) /\ ClientOnly
  \/ \E i \in Requests : Timeout(i) /\ ClientOnly

ServerStep ==
  \/ ServeForever /\ ServerOnly
  \/ ServerClose /\ Trouble /\ UNCHANGED clientVars
  \/ \E c \in Conns, n \in 1 .. 2 * Len(scenario.asks) : DataReceived(c, n) /\ ServerOnly
  \/ \E c \in Conns, luck \in {"dropped", "raised"} : Handle(c, luck) /\ ServerOnly
  \/ \E c \in Conns, alien \in Aliens, n \in 1 .. 2 * Len(scenario.asks), whole \in BOOLEAN :
       Misread(c, alien, n, whole) /\ Trouble /\ UNCHANGED clientVars
  \/ \E c \in Conns : HandlerLost(c) /\ ServerOnly

Next ==
  \/ ClientStep \/ ServerStep \/ Refused \/ Ask
  \/ \E c \in Conns : Establish(c) \/ ClientLost(c)

\* The event loops run what is ready: tasks that slept, attempts, bytes under
\* way, callbacks of lost connections, timeouts.
Fairness ==
  /\ WF_vars(Wake /\ ClientOnly)
  /\ WF_vars(Refused \/ \E c \in Conns : Establish(c))
  /\ WF_vars((\E i \in Requests : Timeout(i)) /\ ClientOnly)
  /\ \A c \in Conns :
       /\ WF_vars(near[c] = "closing" /\ ClientLost(c))
       /\ WF_vars(far[c] = "lost" /\ down[c] = <<>> /\ ClientLost(c))
       /\ WF_vars(HandlerLost(c) /\ ServerOnly)
       /\ WF_vars(Receive(c) /\ ClientOnly)

Spec == Init /\ [][Next]_vars /\ Fairness

-----------------------------------------------------------------------------
TidZero(i) == Sent(i).tid = 0

\* An answer resolves the request it is the answer to, whatever timed out, was
\* not answered or came late before; but one with id 0, which comes once round
\* of the counter, resolves the request entered last; and where the server has
\* read bytes of one request as another, the answer to that resolves the one
\* whose id the bytes were, on the same connection.
OwnAnswer ==
  \A i \in Requests :
    request[i].state = "answered" =>
      \/ request[i].by = i \/ TidZero(request[i].by)
      \/ request[i].by \in Aliens /\ \E j \in misread : request[j].conn = request[i].conn

\* On each connection requests are executed in the order they were sent in, each
\* once, only where they were sent to, and not at all once bytes of theirs were
\* read as another request; what is answered was executed, or has no slave, or
\* is such another request; a broadcast is not answered.
ServedAsSent ==
  /\ \A j, k \in DOMAIN executed :
       j < k /\ request[executed[j].id].conn = request[executed[k].id].conn
         => executed[j].id < executed[k].id
  /\ \A k \in DOMAIN executed :
       LET i == executed[k].id
       IN /\ executed[k].units \subseteq {0, request[i].unit} \/ IsBroadcast(i)
          /\ i \notin misread
  /\ \A c \in Conns : \A i \in ToSet(down[c]) \ Aliens :
       /\ ~IsBroadcast(i)
       /\ \/ \E j \in DOMAIN executed : executed[j].id = i /\ executed[j].units # {}
          \/ request[i].unit \notin ToSet(Slaves)

\* No request waits on a connection that is lost, unless id 0 was used on it.
NoneForgotten ==
  \A i \in Requests :
    (request[i].state = "waiting" /\ near[request[i].conn] = "lost")
      => \E j \in Requests : request[j].conn = request[i].conn /\ TidZero(j)

\* After close() the client connects no more until it is told to, unless an
\* attempt was under way at that moment.
ClosedStaysClosed ==
  [][client.closed /\ ~client.late =>
       \A c \in Conns : near'[c] = "open" => near[c] = "open"]_vars

\* The callback of a lost connection has failed: the client takes itself to be
\* connected, and does nothing about it.
Stuck == client.connected /\ near[client.protocol] = "lost"

\* As long as the server listens and the client is not closed, it is connected
\* again and again.
Reconnects ==
  <>[](server.listener # "none" /\ ~client.closed /\ ~Stuck)
    => []<>(client.connected /\ near[client.protocol] = "open")
=============================================================================
