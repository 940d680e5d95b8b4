-------------------------- MODULE ModbusTcpProofs --------------------------
(***************************************************************************)
(* What holds of the asynchronous client with its server for any number of *)
(* connections, requests, slaves, attempts and troubles, every delay, and  *)
(* whatever was asked: a client that was closed stays closed; an answer    *)
(* finds its own request, unless the server read bytes of one request as   *)
(* another; requests are executed in order, once and where they were sent  *)
(* to, and not once such bytes of theirs were read; none is forgotten on a *)
(* connection that is lost.                                                *)
(***************************************************************************)
EXTENDS ModbusTcp, NaturalFacts, SequenceTheorems, TLAPS

-----------------------------------------------------------------------------
(* A client that was closed                                                *)

ClientType ==
  /\ DOMAIN client = {"connected", "protocol", "delay", "reconnect", "attempts", "closed", "late"}
  /\ client.attempts \in Nat
  /\ DOMAIN near = Conns

\* A closed client has no attempt under way and none to come: a connection that
\* is lost asks for one only if there is a delay, and there is none since
\* close(), or no connection yet.
ClosedInv ==
  client.closed /\ ~client.late =>
    /\ client.attempts = 0 /\ ~client.reconnect
    /\ client.delay = 0 \/ \A c \in Conns : near[c] = "none"

ClientInv == ClientType /\ ClosedInv

LEMMA InitClient == Init => ClientInv
BY DEF Init, ClientInit, ConnectionInit, ClientInv, ClientType, ClosedInv

\* What a step may do to the client's end of its connections.
NoneOpened == \A c \in Conns : near'[c] = "open" => near[c] = "open"

\* A step of the server leaves the client's side alone.
LEMMA ServerLeaves == ServerStep => UNCHANGED <<request, near, client, link, scenario>>
<1>1. ServerStep => UNCHANGED <<client, link, scenario>>
  BY DEF ServerStep, ServerOnly, Untroubled, Trouble, clientVars
<1>2. ServeForever \/ ServerClose => UNCHANGED <<request, near>>
  BY DEF ServeForever, ServerClose, connectionVars
<1>3. ASSUME NEW c \in Conns, NEW n, DataReceived(c, n) PROVE UNCHANGED <<request, near>>
  BY <1>3 DEF DataReceived
<1>4. ASSUME NEW c \in Conns, NEW luck, Handle(c, luck) PROVE UNCHANGED <<request, near>>
  BY <1>4 DEF Handle
<1>5. ASSUME NEW c \in Conns, NEW alien, NEW n, NEW whole, Misread(c, alien, n, whole)
      PROVE  UNCHANGED <<request, near>>
  BY <1>5 DEF Misread
<1>6. ASSUME NEW c \in Conns, HandlerLost(c) PROVE UNCHANGED <<request, near>>
  BY <1>6 DEF HandlerLost
<1> QED BY <1>1, <1>2, <1>3, <1>4, <1>5, <1>6 DEF ServerStep

\* Every step keeps the invariant, and opens a connection only for a client
\* that is not closed.
LEMMA StepClient ==
  ASSUME ClientInv, [Next]_vars
  PROVE  ClientInv' /\ (client.closed /\ ~client.late => NoneOpened)
<1> USE DEF ClientInv, ClientType, ClosedInv, NoneOpened
<1>1. CASE Connect /\ Trouble /\ UNCHANGED serverVars
  <2>1. /\ client' = [client EXCEPT !.delay = 1, !.attempts = client.attempts + 1,
                                    !.closed = FALSE, !.late = FALSE]
        /\ near' = near
    BY <1>1 DEF Connect, connectionVars
  <2>2. ClientType'
    BY <2>1
  <2>3. client'.closed = FALSE
    BY <2>1
  <2> QED
    BY <2>1, <2>2, <2>3
<1>2. CASE Wake /\ ClientOnly
  <2>1. client.reconnect /\ near' = near
    BY <1>2 DEF Wake, connectionVars
  <2>2. ClientType'
    BY <1>2, <2>1, ClientAssumption DEF Wake, Woken
  <2>3. client'.closed = client.closed /\ client'.late = client.late
    BY <1>2 DEF Wake, Woken
  <2> QED
    BY <2>1, <2>2, <2>3
<1>3. CASE Close /\ Trouble /\ UNCHANGED serverVars
  <2>1. client' = [client EXCEPT !.reconnect = FALSE, !.delay = 0, !.closed = TRUE,
                                 !.late = (client.attempts > 0)]
    BY <1>3 DEF Close, Cancelled
  <2>2. ClientType' /\ NoneOpened
    BY <1>3, <2>1 DEF Close, Closing
  <2>3. client'.attempts = client.attempts /\ client'.delay = 0 /\ ~client'.reconnect
    BY <2>1
  <2>4. CASE client.attempts = 0
    BY <2>2, <2>3, <2>4
  <2>5. CASE client.attempts # 0
    <3>1. (client.attempts > 0) = TRUE
      BY <2>5
    <3>2. client'.late = TRUE
      BY <2>1, <3>1
    <3> QED
      BY <2>2, <2>3, <3>2
  <2> QED
    BY <2>4, <2>5
<1>4. CASE \E c \in Conns : Receive(c) /\ ClientOnly
  BY <1>4 DEF Receive
<1>5. CASE \E i \in Requests : Timeout(i) /\ ClientOnly
  BY <1>5 DEF Timeout, clientVars
<1>6. CASE ServerStep
  <2>1. UNCHANGED <<client, near>>
    BY <1>6, ServerLeaves
  <2> QED BY <2>1
<1>7. CASE Refused
  BY <1>7 DEF Refused, AttemptFails, Launched, connectionVars
<1>8. CASE Ask
  BY <1>8 DEF Ask, Execute
<1>9. ASSUME NEW c \in Conns, Establish(c) PROVE ClientInv' /\ (client.closed /\ ~client.late => NoneOpened)
  BY <1>9 DEF Establish, Made, Open
<1>10. ASSUME NEW c \in Conns, ClientLost(c) PROVE ClientInv' /\ (client.closed /\ ~client.late => NoneOpened)
  <2>1. near[c] \in {"open", "closing"}
    BY <1>10 DEF ClientLost
  <2>2. near' = [near EXCEPT ![c] = "lost"]
    BY <1>10 DEF ClientLost, Lost
  <2>3. \/ client' = client
        \/ client' = Launched([client EXCEPT !.connected = FALSE, !.protocol = None])
    BY <1>10 DEF ClientLost, Lost
  <2>4. /\ client'.closed = client.closed /\ client'.late = client.late
        /\ client'.attempts = client.attempts /\ client'.delay = client.delay
        /\ DOMAIN client' = DOMAIN client
    BY <2>3 DEF Launched
  <2>5. ASSUME client.delay = 0 PROVE client'.reconnect = client.reconnect
    <3> DEFINE told == [client EXCEPT !.connected = FALSE, !.protocol = None]
    <3>1. client' = client \/ client' = Launched(told)
      BY <2>3
    <3>2. told.delay = 0 /\ told.reconnect = client.reconnect
      BY <2>5
    <3> HIDE DEF told
    <3>3. client' = client \/ client' = told
      BY <3>1, <3>2 DEF Launched
    <3> QED
      BY <3>2, <3>3
  <2>6. client'.closed /\ ~client'.late => client.closed /\ ~client.late
    BY <2>4, Zenon
  <2>7. client.delay = 0 /\ ~client.reconnect => ~client'.reconnect
    BY <2>5, Zenon
  <2>8. ClientType' /\ NoneOpened
    BY <2>2, <2>4
  <2>9. ClosedInv'
    BY <2>1, <2>4, <2>6, <2>7
  <2> QED
    BY <2>8, <2>9
<1>11. CASE UNCHANGED vars
  BY <1>11 DEF vars, clientVars, connectionVars
<1> QED
  BY <1>1, <1>2, <1>3, <1>4, <1>5, <1>6, <1>7, <1>8, <1>9, <1>10, <1>11 DEF Next, ClientStep

\* After close() the client connects no more until it is told to, unless an
\* attempt was under way at that moment (AsyncModbusTcpClient.close).
THEOREM StaysClosed == Spec => ClosedStaysClosed
<1>1. ClientInv /\ [Next]_vars => ClientInv'
  BY StepClient
<1>2. ClientInv /\ [Next]_vars
        => [client.closed /\ ~client.late =>
              \A c \in Conns : near'[c] = "open" => near[c] = "open"]_vars
  BY StepClient DEF NoneOpened
<1> QED
  BY InitClient, <1>1, <1>2, PTL DEF Spec, ClosedStaysClosed

-----------------------------------------------------------------------------
(* What the framer makes of its buffer                                     *)

Piece == [id : Nat, part : {"head", "tail", "rest"}]

\* The framer executes what whole frames, one behind the other, hold from the
\* first piece on, and keeps nothing but what is behind them.
LEMMA ParsedFacts ==
  ASSUME NEW pieces \in Seq(Piece), NEW luck, NEW p, p = Parsed(pieces, luck)
  PROVE  /\ p.run \in Seq(Nat)
         /\ \A j \in 1 .. Len(p.run) :
              /\ 2 * j - 1 \in 1 .. Len(pieces) /\ 2 * j \in 1 .. Len(pieces)
              /\ p.run[j] = pieces[2 * j - 1].id
              /\ pieces[2 * j - 1].part = "head"
         /\ p.left \in {<<>>, SubSeq(pieces, 2 * Len(p.run) + 1, Len(pieces))}
<1> DEFINE Whole(k) == k < Len(pieces) /\ pieces[k].part = "head"
           Passed(k) == Whole(k) /\ ValidUnit(pieces[k].id) /\ ~CannotSend(pieces[k].id)
           S == {m \in 0 .. Len(pieces) : \A j \in 1 .. m : Passed(2 * j - 1)}
           n == Max(S)
           next == 2 * n + 1
           Run(m) == [j \in 1 .. m |-> pieces[2 * j - 1].id]
           Rest(k) == SubSeq(pieces, k, Len(pieces))
<1>0. Len(pieces) \in Nat /\ \A k \in 1 .. Len(pieces) : pieces[k] \in Piece
  OBVIOUS
<1>1. n \in 0 .. Len(pieces) /\ \A j \in 1 .. n : Passed(2 * j - 1)
  <2>1. S \in SUBSET Nat /\ 0 \in S /\ \A s \in S : s <= Len(pieces)
    BY <1>0
  <2> HIDE DEF S
  <2>2. n \in S
    BY <1>0, <2>1, MaxExists
  <2> QED BY <2>2 DEF S
<1> HIDE DEF n
<1>2. ASSUME NEW m \in Nat, \A j \in 1 .. m : Whole(2 * j - 1)
      PROVE  /\ Run(m) \in Seq(Nat) /\ Len(Run(m)) = m
             /\ \A j \in 1 .. m : /\ 2 * j - 1 \in 1 .. Len(pieces)
                                  /\ 2 * j \in 1 .. Len(pieces)
                                  /\ Run(m)[j] = pieces[2 * j - 1].id
                                  /\ pieces[2 * j - 1].part = "head"
  <2>1. \A j \in 1 .. m : /\ 2 * j - 1 \in 1 .. Len(pieces) /\ 2 * j \in 1 .. Len(pieces)
                          /\ pieces[2 * j - 1].id \in Nat
    BY <1>0, <1>2 DEF Piece
  <2>2. Run(m) \in [1 .. m -> Nat]
    BY <2>1
  <2>3. Run(m) \in Seq(Nat) /\ Len(Run(m)) = m
    BY <2>2
  <2> QED BY <1>2, <2>1, <2>3
<1>3. \/ p = [run |-> Run(n), left |-> Rest(next), raised |-> TRUE]
      \/ /\ Whole(next)
         /\ p = [run |-> Run(n + 1), left |-> Rest(next + 2), raised |-> TRUE]
      \/ p = [run |-> Run(n), left |-> <<>>, raised |-> FALSE]
  BY DEF Parsed, n
<1>4. CASE p = [run |-> Run(n), left |-> Rest(next), raised |-> TRUE]
           \/ p = [run |-> Run(n), left |-> <<>>, raised |-> FALSE]
  <2>1. p.run = Run(n) /\ p.left \in {<<>>, Rest(next)}
    <3> HIDE DEF Run, Rest, next
    <3> QED BY <1>4
  <2>2. n \in Nat /\ \A j \in 1 .. n : Whole(2 * j - 1)
    BY <1>1
  <2> QED BY <1>2, <2>1, <2>2
<1>5. CASE Whole(next) /\ p = [run |-> Run(n + 1), left |-> Rest(next + 2), raised |-> TRUE]
  <2>1. p.run = Run(n + 1) /\ p.left = Rest(next + 2)
    <3> HIDE DEF Run, Rest, next
    <3> QED BY <1>5
  <2>2. n + 1 \in Nat /\ \A j \in 1 .. n + 1 : Whole(2 * j - 1)
    BY <1>1, <1>5
  <2>3. next + 2 = 2 * (n + 1) + 1
    BY <1>1
  <2> QED BY <1>2, <2>1, <2>2, <2>3
<1> QED BY <1>3, <1>4, <1>5

\* The answers are to requests that were executed, and that have one.
LEMMA AnswersFacts ==
  ASSUME NEW run \in Seq(Int)
  PROVE  Answers(run) \in Seq({i \in {run[j] : j \in DOMAIN run} : Answered(i)})
<1> DEFINE G == {i \in {run[j] : j \in DOMAIN run} : Answered(i)}
           L == Len(run)
           Body(f, k) == IF k = 0 THEN <<>>
                         ELSE IF Answered(run[k]) THEN Append(f[k - 1], run[k]) ELSE f[k - 1]
           Exists(n) == \E f : f = [k \in 0 .. n |-> Body(f, k)]
           N == {n \in Nat : n <= L => Exists(n)}
           F == CHOOSE f : f = [k \in 0 .. L |-> Body(f, k)]
           M == {k \in Nat : k <= L => F[k] \in Seq(G)}
<1>0. L \in Nat /\ DOMAIN run = 1 .. L
  OBVIOUS
<1>1. N = Nat
  <2>1. 0 \in N
    <3> DEFINE f == [k \in 0 .. 0 |-> <<>>]
    <3>1. f = [k \in 0 .. 0 |-> Body(f, k)]
      OBVIOUS
    <3> HIDE DEF f
    <3> QED BY <3>1
  <2>2. ASSUME NEW n \in N PROVE n + 1 \in N
    <3>1. ASSUME n + 1 <= L, NEW g, g = [k \in 0 .. n |-> Body(g, k)] PROVE Exists(n + 1)
      <4> DEFINE f == [k \in 0 .. n + 1 |-> IF k = n + 1 THEN Body(g, k) ELSE g[k]]
      <4>1. ASSUME NEW k \in 0 .. n + 1 PROVE f[k] = Body(f, k)
        <5>1. CASE k = 0
          <6>1. k # n + 1 /\ k \in 0 .. n
            BY <5>1
          <6>2. g[k] = Body(g, k)
            <7> HIDE DEF Body
            <7> QED BY <3>1, <6>1
          <6> QED BY <5>1, <6>1, <6>2
        <5>2. CASE k # 0
          <6>1. k - 1 \in 0 .. n /\ f[k - 1] = g[k - 1]
            BY <5>2
          <6>2. Body(f, k) = Body(g, k)
            BY <5>2, <6>1
          <6>3. k \in 0 .. n => g[k] = Body(g, k)
            <7> HIDE DEF Body
            <7> QED BY <3>1
          <6>4. k = n + 1 \/ k \in 0 .. n
            OBVIOUS
          <6>5. k = n + 1 => f[k] = Body(g, k)
            OBVIOUS
          <6>6. k # n + 1 => f[k] = g[k]
            OBVIOUS
          <6> HIDE DEF f, Body
          <6> QED BY <6>2, <6>3, <6>4, <6>5, <6>6
        <5> QED BY <5>1, <5>2
      <4>2. f = [k \in 0 .. n + 1 |-> f[k]]
        OBVIOUS
      <4> HIDE DEF f
      <4>3. f = [k \in 0 .. n + 1 |-> Body(f, k)]
        BY <4>1, <4>2
      <4> QED BY <4>3
    <3>2. n + 1 <= L => \E g : g = [k \in 0 .. n |-> Body(g, k)]
      <4>1. n + 1 <= L => Exists(n)
        <5> HIDE DEF Exists
        <5> QED BY <1>0
      <4> QED BY <4>1
    <3>3. n + 1 <= L => Exists(n + 1)
      <4> HIDE DEF Exists
      <4> QED BY <3>1, <3>2
    <3> HIDE DEF Exists
    <3> QED BY <3>3
  <2>3. N \in SUBSET Nat
    OBVIOUS
  <2> HIDE DEF N
  <2> QED BY <2>1, <2>2, <2>3, SetInduction
<1>2. F = [k \in 0 .. L |-> Body(F, k)]
  <2>1. L \in N
    BY <1>0, <1>1
  <2>2. \E f : f = [k \in 0 .. L |-> Body(f, k)]
    BY <1>0, <2>1
  <2> QED BY <2>2
<1> HIDE DEF F
<1>3. M = Nat
  <2>1. 0 \in M
    BY <1>0, <1>2
  <2>2. ASSUME NEW n \in M PROVE n + 1 \in M
    <3> SUFFICES ASSUME n + 1 <= L PROVE F[n + 1] \in Seq(G)
      OBVIOUS
    <3>1. F[n] \in Seq(G)
      BY <1>0
    <3>2. F[n + 1] = IF Answered(run[n + 1]) THEN Append(F[n], run[n + 1]) ELSE F[n]
      <4>1. n + 1 \in 0 .. L /\ n + 1 # 0 /\ (n + 1) - 1 = n
        BY <1>0
      <4>2. F[n + 1] = Body(F, n + 1)
        <5> HIDE DEF Body
        <5> QED BY <1>2, <4>1
      <4> QED BY <4>1, <4>2
    <3>3. Answered(run[n + 1]) => run[n + 1] \in G
      BY <1>0
    <3> HIDE DEF G
    <3> QED BY <3>1, <3>2, <3>3
  <2>3. M \in SUBSET Nat
    OBVIOUS
  <2> HIDE DEF M
  <2> QED BY <2>1, <2>2, <2>3, SetInduction
<1>4. F[L] \in Seq(G)
  <2>1. L \in M
    BY <1>0, <1>3
  <2> QED BY <1>0, <2>1
<1>5. Answers(run) = F[L]
  BY DEF Answers, F
<1> QED BY <1>4, <1>5

-----------------------------------------------------------------------------
(* Types                                                                   *)

Transport == {"none", "open", "closing", "lost"}
Kinds == {"ok", "fails", "mute", "unsendable"}
States == {"waiting", "broadcast", "answered", "timeout", "failed"}
Answer == Nat \cup Aliens
Request == [conn : Conns, tid : 0 .. TidModulus - 1, unit : Nat, kind : Kinds,
            by : Answer \cup {None}, state : States]
Handler == [task : {"none", "running"}, queue : Seq(Seq(Piece)), buffer : Seq(Piece)]
Link == [tid : 0 .. TidModulus - 1, pending : SUBSET Nat]
Executed == [id : Nat, units : SUBSET Nat]

RequestType ==
  /\ scenario \in Scenarios
  /\ request \in Seq(Request) /\ Len(request) <= Len(scenario.asks)
ServerType ==
  /\ server \in [mode : {"single", "many", "broadcast"}, ignore : BOOLEAN,
                 listener : {"none", "serving", "orphan"}, started : BOOLEAN]
  /\ handler \in [Conns -> Handler]
  /\ executed \in Seq(Executed) /\ misread \in SUBSET Nat
LineType ==
  /\ near \in [Conns -> Transport] /\ far \in [Conns -> Transport]
  /\ up \in [Conns -> Seq(Piece)] /\ down \in [Conns -> Seq(Answer)]
  /\ link \in [Conns -> Link]

ProtocolType ==
  /\ "protocol" \in DOMAIN client
  /\ client.protocol \in Conns \cup {None}

Ids(pieces) == {pieces[k].id : k \in DOMAIN pieces}

\* The requests that connection c may still be concerned with: pending, or
\* their pieces or answers under way or with the handler.
Travelling(c) ==
  link[c].pending \cup ({down[c][k] : k \in DOMAIN down[c]} \cap Nat) \cup Ids(up[c])
    \cup Ids(handler[c].buffer)
    \cup UNION {Ids(handler[c].queue[k]) : k \in DOMAIN handler[c].queue}

\* They were all sent on it.
CarriedInv ==
  \A c \in Conns : \A i \in Travelling(c) : i \in Requests /\ request[i].conn = c

BaseInv == RequestType /\ ServerType /\ LineType /\ ProtocolType /\ CarriedInv

\* What no step changes of a request that was made.
Kept ==
  /\ request' \in Seq(Request)
  /\ \A i \in Requests :
       /\ i \in Requests'
       /\ request'[i].conn = request[i].conn /\ request'[i].tid = request[i].tid
       /\ request'[i].unit = request[i].unit /\ request'[i].kind = request[i].kind

\* The requests are a sequence of records.
LEMMA RequestFacts ==
  ASSUME request \in Seq(Request)
  PROVE  /\ Len(request) \in Nat /\ Requests = 1 .. Len(request)
         /\ \A i \in Requests :
              /\ request[i] \in Request /\ i \in Nat
              /\ request[i].conn \in Conns /\ request[i].tid \in 0 .. TidModulus - 1
<1>1. /\ Len(request) \in Nat /\ Requests = 1 .. Len(request)
      /\ \A i \in Requests : request[i] \in Request
  BY DEF Requests
<1>2. \A r \in Request : r.conn \in Conns /\ r.tid \in 0 .. TidModulus - 1
  BY DEF Request
<1> QED BY <1>1, <1>2

\* Those of the client, and those that only the server has seen.
LEMMA SentFacts ==
  /\ \A i \in Nat : Sent(i) = request[i] /\ i \notin Aliens
  /\ \A i \in Aliens : i \in Int /\ i < 0 /\ i # None
  /\ None \notin Int
BY NoneAssumption, MisreadsAssumption DEF Sent, Aliens

\* Settling a request changes it alone, and only if it waits.
LEMMA SettledFacts ==
  ASSUME request \in Seq(Request), NEW i \in Requests, NEW state \in States,
         NEW by \in Answer \cup {None}
  PROVE  /\ Settled(i, state, by) \in Seq(Request)
         /\ Len(Settled(i, state, by)) = Len(request)
         /\ \A j \in Requests : j # i => Settled(i, state, by)[j] = request[j]
         /\ \/ /\ request[i].state \in {"waiting", "broadcast"}
               /\ Settled(i, state, by)[i] = [request[i] EXCEPT !.state = state, !.by = by]
            \/ /\ request[i].state \notin {"waiting", "broadcast"}
               /\ Settled(i, state, by)[i] = request[i]
<1>0. Requests = 1 .. Len(request) /\ request[i] \in Request
  BY RequestFacts
<1>1. [request[i] EXCEPT !.state = state, !.by = by] \in Request
  BY <1>0 DEF Request
<1>2. CASE request[i].state \in {"waiting", "broadcast"}
  <2> DEFINE r == [request EXCEPT ![i] = [request[i] EXCEPT !.state = state, !.by = by]]
  <2>1. Settled(i, state, by) = r
    BY <1>2 DEF Settled
  <2>2. /\ r \in Seq(Request) /\ Len(r) = Len(request)
        /\ \A j \in 1 .. Len(request) :
             r[j] = IF j = i THEN [request[i] EXCEPT !.state = state, !.by = by] ELSE request[j]
    BY <1>0, <1>1, ExceptSeq
  <2> HIDE DEF r
  <2> QED BY <1>0, <1>2, <2>1, <2>2
<1>3. CASE request[i].state \notin {"waiting", "broadcast"}
  BY <1>3 DEF Settled
<1> QED BY <1>2, <1>3

\* A request that is settled keeps what it was sent with.
LEMMA SettledKeeps ==
  ASSUME request \in Seq(Request), NEW i \in Requests, NEW state \in States,
         NEW by \in Answer \cup {None}, request' = Settled(i, state, by)
  PROVE  Kept /\ Len(request') = Len(request)
<1>0. Requests = 1 .. Len(request) /\ request[i] \in Request
  BY RequestFacts
<1>1. request' \in Seq(Request) /\ Len(request') = Len(request)
  BY SettledFacts
<1>2. Requests' = Requests
  BY <1>0, <1>1 DEF Requests
<1>3. ASSUME NEW j \in Requests
      PROVE  /\ request'[j].conn = request[j].conn /\ request'[j].tid = request[j].tid
             /\ request'[j].unit = request[j].unit /\ request'[j].kind = request[j].kind
  <2>1. CASE j # i
    BY <2>1, SettledFacts
  <2>2. CASE j = i
    <3>1. \/ request'[i] = [request[i] EXCEPT !.state = state, !.by = by]
          \/ request'[i] = request[i]
      BY SettledFacts
    <3>2. \A r \in Request : LET s == [r EXCEPT !.state = state, !.by = by]
                            IN s.conn = r.conn /\ s.tid = r.tid /\ s.unit = r.unit /\ s.kind = r.kind
      BY DEF Request
    <3> QED BY <1>0, <2>2, <3>1, <3>2
  <2> QED BY <2>1, <2>2
<1> QED BY <1>1, <1>2, <1>3 DEF Kept

\* A transaction manager finds one of its requests, or none; for an id other
\* than 0 the one with that id.
LEMMA FoundFacts ==
  ASSUME NEW pending \in SUBSET Requests, request \in Seq(Request), NEW tid, NEW found,
         found = Found(pending, tid)
  PROVE  \/ found = None
         \/ found \in pending /\ (tid # 0 => request[found].tid = tid)
<1>1. CASE tid = 0 /\ pending # {}
  <2>1. Requests = 1 .. Len(request) /\ Len(request) \in Nat
    BY RequestFacts
  <2>2. pending \in SUBSET Nat /\ \A i \in pending : i <= Len(request)
    BY <2>1
  <2>3. Max(pending) \in pending
    BY <1>1, <2>1, <2>2, MaxExists
  <2> QED BY <1>1, <2>3 DEF Found
<1>2. CASE ~(tid = 0 /\ pending # {}) /\ {i \in pending : request[i].tid = tid} = {}
  BY <1>2 DEF Found
<1>3. CASE ~(tid = 0 /\ pending # {}) /\ {i \in pending : request[i].tid = tid} # {}
  BY <1>3 DEF Found
<1> QED BY <1>1, <1>2, <1>3

\* What is left when a connection is lost.
LEMMA FailsFacts ==
  ASSUME NEW pending \in SUBSET Nat
  PROVE  /\ FailsAll(pending).left \in SUBSET pending
         /\ \A i \in FailsAll(pending).left : TidZero(i)
<1>1. ASSUME NEW i \in Nat, request[i].tid = 0 PROVE TidZero(i)
  BY <1>1, SentFacts DEF TidZero
<1> QED BY <1>1 DEF FailsAll

\* What is pending on a connection, and answered on it, was sent on it.
LEMMA CarriedFacts ==
  ASSUME BaseInv, NEW c \in Conns
  PROVE  /\ link[c].pending \in SUBSET Requests
         /\ \A i \in link[c].pending : request[i].conn = c
         /\ \A k \in DOMAIN down[c] :
              \/ down[c][k] \in Aliens
              \/ down[c][k] \in Requests /\ down[c][k] \in Travelling(c) /\ request[down[c][k]].conn = c
<1>1. \A k \in DOMAIN down[c] : down[c][k] \in Nat \cup Aliens
  BY DEF BaseInv, LineType, Answer
<1> QED BY <1>1 DEF BaseInv, CarriedInv, Travelling

\* The requests of connection c fail, all but those in left.
LEMMA LostFacts ==
  ASSUME BaseInv, NEW c \in Conns, Lost(c)
  PROVE  /\ Kept /\ Len(request') = Len(request)
         /\ \A i \in Requests :
              IF i \in link[c].pending \ FailsAll(link[c].pending).left
                THEN request'[i] = Settled(i, "failed", None)[i]
                ELSE request'[i] = request[i]
<1> DEFINE failed == link[c].pending \ FailsAll(link[c].pending).left
<1>0. request \in Seq(Request) /\ Requests = 1 .. Len(request) /\ Len(request) \in Nat
  BY RequestFacts DEF BaseInv, RequestType
<1>1. request' = [i \in Requests |-> IF i \in failed THEN Settled(i, "failed", None)[i]
                                     ELSE request[i]]
  BY DEF Lost
<1> HIDE DEF failed
<1>2. ASSUME NEW i \in Requests
      PROVE  /\ request'[i] \in Request
             /\ request'[i].conn = request[i].conn /\ request'[i].tid = request[i].tid
             /\ request'[i].unit = request[i].unit /\ request'[i].kind = request[i].kind
  <2>1. \/ request'[i] = [request[i] EXCEPT !.state = "failed", !.by = None]
        \/ request'[i] = request[i]
    <3>1. "failed" \in States /\ None \in Answer \cup {None}
      BY DEF States
    <3>2. request'[i] \in {request[i], Settled(i, "failed", None)[i]}
      BY <1>1
    <3> QED BY <1>0, <3>1, <3>2, SettledFacts, ZenonT(40)
  <2>2. request[i] \in Request
    BY <1>0
  <2> QED BY <2>1, <2>2 DEF Request, States
<1>3. request' \in [1 .. Len(request) -> Request]
  <2>1. request' = [i \in 1 .. Len(request) |-> request'[i]]
    BY <1>0, <1>1
  <2> QED BY <1>0, <1>2, <2>1
<1>4. request' \in Seq(Request) /\ Len(request') = Len(request)
  BY <1>0, <1>3
<1>5. Requests' = Requests
  BY <1>0, <1>4 DEF Requests
<1>6. Kept
  BY <1>2, <1>4, <1>5 DEF Kept
<1> QED BY <1>1, <1>4, <1>6 DEF failed

\* A request that is made is the last one.
LEMMA AskFacts ==
  ASSUME BaseInv, Ask
  PROVE  LET c == client.protocol
             i == Len(request) + 1
         IN /\ c \in Conns /\ near[c] # "lost"
            /\ Kept /\ Len(request') = i /\ i <= Len(scenario.asks)
            /\ request'[i].conn = c /\ request'[i].tid = NextTid(link[c].tid)
            /\ request'[i].state \in {"waiting", "broadcast"}
            /\ \A j \in Requests : request'[j] = request[j]
<1> DEFINE c == client.protocol
           i == Len(request) + 1
           asked == scenario.asks[i]
           state == IF server.mode = "broadcast" /\ asked.unit = 0 THEN "broadcast" ELSE "waiting"
           new == [conn |-> c, tid |-> NextTid(link[c].tid), unit |-> asked.unit,
                   kind |-> asked.kind, by |-> None, state |-> state]
<1>0. request \in Seq(Request) /\ Requests = 1 .. Len(request) /\ Len(request) \in Nat
  BY RequestFacts DEF BaseInv, RequestType
<1>1. /\ c # None /\ near[c] # "lost" /\ Requests # DOMAIN scenario.asks
      /\ request' = Append(request, new)
  BY DEF Ask, Execute
<1>2. c \in Conns
  BY <1>1 DEF BaseInv, ProtocolType
<1>3. /\ scenario.asks \in Seq([unit : Nat, kind : Kinds])
      /\ Len(request) <= Len(scenario.asks)
  BY ScenariosAssumption DEF BaseInv, RequestType, Kinds
<1>4. i \in 1 .. Len(scenario.asks) /\ asked \in [unit : Nat, kind : Kinds]
  <2>1. Len(scenario.asks) \in Nat /\ DOMAIN scenario.asks = 1 .. Len(scenario.asks)
    BY <1>3
  <2>2. i \in 1 .. Len(scenario.asks)
    BY <1>0, <1>1, <1>3, <2>1
  <2> QED BY <1>3, <2>2, ElementOfSeq
<1>5. new \in Request
  <2>1. link[c].tid \in Nat
    BY <1>2 DEF BaseInv, LineType, Link
  <2>2. NextTid(link[c].tid) \in 0 .. TidModulus - 1
    BY <2>1, TidAssumption DEF NextTid
  <2>3. state \in States
    BY DEF States
  <2> HIDE DEF state, asked, i
  <2> QED BY <1>2, <1>4, <2>2, <2>3 DEF Request
<1> HIDE DEF new
<1>6. /\ request' \in Seq(Request) /\ Len(request') = i
      /\ \A j \in 1 .. Len(request) : request'[j] = request[j]
      /\ request'[i] = new
  BY <1>0, <1>1, <1>5, AppendProperties
<1>7. Requests \subseteq Requests'
  BY <1>0, <1>6 DEF Requests
<1>8. /\ new.conn = c /\ new.tid = NextTid(link[c].tid) /\ new.state \in {"waiting", "broadcast"}
  BY DEF new
<1>9. Kept
  BY <1>0, <1>6, <1>7 DEF Kept
<1>10. i <= Len(scenario.asks)
  BY <1>4
<1> HIDE DEF asked
<1> QED BY <1>0, <1>1, <1>2, <1>6, <1>8, <1>9, <1>10

\* An answer that is received, and what is found for it.
LEMMA ReceiveFacts ==
  ASSUME BaseInv, NEW c \in Conns, Receive(c)
  PROVE  \E answer \in Answer, found \in link[c].pending \cup {None} :
           /\ near[c] = "open"
           /\ answer \in Aliens \/ (answer \in Requests /\ answer \in Travelling(c))
           /\ \E k \in DOMAIN down[c] : answer = down[c][k]
           /\ request' = IF found = None THEN request ELSE Settled(found, "answered", answer)
           /\ link' = [link EXCEPT ![c].pending = Without(@, found)]
           /\ Sent(answer).tid # 0 /\ found # None
                => request[found].tid = Sent(answer).tid
<1> DEFINE answer == Head(down[c])
           found == Found(link[c].pending, Sent(answer).tid)
<1>1. /\ near[c] = "open" /\ down[c] # <<>>
      /\ request' = IF found = None THEN request ELSE Settled(found, "answered", answer)
      /\ link' = [link EXCEPT ![c].pending = Without(@, found)]
  BY DEF Receive
<1>2. down[c] \in Seq(Answer) /\ request \in Seq(Request)
  BY DEF BaseInv, LineType, RequestType
<1>3. 1 \in DOMAIN down[c] /\ answer = down[c][1]
  BY <1>1, <1>2
<1>4. /\ answer \in Aliens \/ (answer \in Requests /\ answer \in Travelling(c))
      /\ answer \in Answer /\ \E k \in DOMAIN down[c] : answer = down[c][k]
  BY <1>2, <1>3, CarriedFacts
<1>5. link[c].pending \in SUBSET Requests
  BY CarriedFacts
<1> HIDE DEF answer
<1>6. \/ found = None
      \/ found \in link[c].pending
         /\ (Sent(answer).tid # 0 => request[found].tid = Sent(answer).tid)
  BY <1>2, <1>5, FoundFacts
<1> HIDE DEF found
<1>7. found \in link[c].pending \cup {None}
  BY <1>6
<1> QED BY <1>1, <1>4, <1>6, <1>7

\* No step changes what a request was sent with, or the scenario.
LEMMA KeptStep ==
  ASSUME BaseInv, [Next]_vars
  PROVE  Kept /\ RequestType' /\ scenario' = scenario
<1>0. request \in Seq(Request) /\ RequestType
  BY DEF BaseInv, RequestType
<1>1. ASSUME request' = request PROVE Kept /\ Len(request') = Len(request)
  BY <1>0, <1>1 DEF Kept, Requests
<1>2. ASSUME NEW c \in Conns, Receive(c) PROVE Kept /\ Len(request') = Len(request)
  <2>1. PICK answer \in Answer, found \in link[c].pending \cup {None} :
           request' = IF found = None THEN request ELSE Settled(found, "answered", answer)
    BY <1>2, ReceiveFacts
  <2>2. CASE found = None
    BY <1>1, <2>1, <2>2
  <2>3. CASE found # None
    <3>1. found \in Requests /\ "answered" \in States /\ answer \in Answer \cup {None}
      BY <1>0, <2>3, CarriedFacts, RequestFacts DEF States
    <3> QED BY <1>0, <2>1, <2>3, <3>1, SettledKeeps
  <2> QED BY <2>2, <2>3
<1>3. ASSUME NEW i \in Requests, Timeout(i) PROVE Kept /\ Len(request') = Len(request)
  <2>1. "timeout" \in States /\ None \in Answer \cup {None} /\ request' = Settled(i, "timeout", None)
    BY <1>3 DEF Timeout, States
  <2> QED BY <1>0, <2>1, SettledKeeps
<1>4. Kept /\ scenario' = scenario
      /\ (Len(request') = Len(request) \/ Len(request') <= Len(scenario.asks))
  <2>1. CASE Ask
    BY <2>1, AskFacts DEF Ask, ClientOnly, Untroubled
  <2>2. ASSUME NEW c \in Conns, ClientLost(c) PROVE Kept /\ Len(request') = Len(request)
    BY <2>2, LostFacts DEF ClientLost
  <2>3. ASSUME NEW c \in Conns, ClientLost(c) PROVE scenario' = scenario
    BY <2>3 DEF ClientLost, Untroubled, Trouble
  <2>4. CASE ServerStep
    <3>1. request' = request /\ scenario' = scenario
      BY <2>4, ServerLeaves
    <3> QED BY <1>1, <3>1
  <2>5. CASE ClientStep
    <3>1. scenario' = scenario
      BY <2>5 DEF ClientStep, ClientOnly, Untroubled, Trouble
    <3>2. \/ request' = request
          \/ \E c \in Conns : Receive(c)
          \/ \E i \in Requests : Timeout(i)
      BY <2>5 DEF ClientStep, Connect, Wake, Close, connectionVars
    <3> QED BY <1>1, <1>2, <1>3, <3>1, <3>2
  <2>6. CASE Refused \/ (\E c \in Conns : Establish(c)) \/ UNCHANGED vars
    <3>1. request' = request /\ scenario' = scenario
      BY <2>6 DEF Refused, AttemptFails, Establish, Untroubled, Trouble, connectionVars, vars
    <3> QED BY <1>1, <3>1
  <2> QED BY <2>1, <2>2, <2>3, <2>4, <2>5, <2>6 DEF Next
<1> QED BY <1>0, <1>4 DEF RequestType, Kept

\* The client's protocol is a connection, or none.
LEMMA ProtocolStep ==
  ASSUME BaseInv, [Next]_vars
  PROVE  ProtocolType'
<1> USE DEF BaseInv, ProtocolType
<1>1. CASE client' = client
  BY <1>1
<1>2. CASE \E c \in Conns : Establish(c)
  BY <1>2 DEF Establish, Made
<1>3. CASE \E c \in Conns : ClientLost(c)
  BY <1>3 DEF ClientLost, Lost, Launched
<1>4. CASE Refused
  BY <1>4 DEF Refused, AttemptFails, Launched
<1>5. CASE ClientStep
  BY <1>5 DEF ClientStep, Connect, Wake, Woken, Close, Cancelled, Receive, Timeout, clientVars
<1>6. CASE Ask \/ ServerStep \/ UNCHANGED vars
  BY <1>1, <1>6 DEF Ask, Execute, ServerStep, ServerOnly, ServerClose, clientVars, vars
<1> QED BY <1>2, <1>3, <1>4, <1>5, <1>6 DEF Next

\* What is executed of a request.
LEMMA ExecutedOnFacts ==
  ASSUME BaseInv, NEW i \in Requests
  PROVE  /\ ExecutedOn(i) \in SUBSET Nat
         /\ ExecutedOn(i) \subseteq {0, request[i].unit} \/ IsBroadcast(i)
         /\ ~IsBroadcast(i) /\ ExecutedOn(i) = {} => request[i].unit \notin ToSet(Slaves)
<1>1. ToSet(Slaves) \in SUBSET Nat /\ Slaves[1] \in Nat
  BY SlavesAssumption DEF ToSet
<1>2. Sent(i) = request[i]
  BY SentFacts, RequestFacts DEF BaseInv, RequestType
<1> QED BY <1>1, <1>2 DEF ExecutedOn

\* One round of a handler: what is in its buffer, and what becomes of it.
LEMMA HandleFacts ==
  ASSUME BaseInv, NEW c \in Conns, NEW luck, Handle(c, luck)
  PROVE  \E run \in Seq(Requests), left \in Seq(Piece) :
           LET pieces == Buffered(c)
           IN /\ handler[c].queue # <<>> /\ pieces \in Seq(Piece)
              /\ \A j \in 1 .. Len(run) :
                   /\ 2 * j - 1 \in 1 .. Len(pieces) /\ 2 * j \in 1 .. Len(pieces)
                   /\ run[j] = pieces[2 * j - 1].id
                   /\ pieces[2 * j - 1].part = "head"
              /\ left \in {<<>>, SubSeq(pieces, 2 * Len(run) + 1, Len(pieces))}
              /\ handler' = [handler EXCEPT ![c].queue = Tail(@), ![c].buffer = left]
              /\ executed' = executed \o [k \in DOMAIN run |->
                                            [id |-> run[k], units |-> ExecutedOn(run[k])]]
              /\ down' \in {down, [down EXCEPT ![c] = @ \o Answers(run)]}
              /\ far' \in {far, [far EXCEPT ![c] = "closing"]}
              /\ UNCHANGED <<server, misread, request, near, up>>
<1> DEFINE pieces == Buffered(c)
           p == Parsed(pieces, luck)
<1>1. handler[c] \in Handler /\ down \in [Conns -> Seq(Answer)] /\ far \in [Conns -> Transport]
  BY DEF BaseInv, ServerType, LineType
<1>2. handler[c].queue \in Seq(Seq(Piece)) /\ handler[c].buffer \in Seq(Piece)
  BY <1>1 DEF Handler
<1>3. handler[c].queue # <<>>
  BY DEF Handle
<1>4. Head(handler[c].queue) \in Seq(Piece)
  BY <1>2, <1>3, HeadTailProperties
<1>5. pieces \in Seq(Piece)
  BY <1>2, <1>4, ConcatProperties DEF Buffered
<1>6. /\ handler' = [handler EXCEPT ![c].queue = Tail(@), ![c].buffer = p.left]
      /\ executed' = executed \o [k \in DOMAIN p.run |->
                                    [id |-> p.run[k], units |-> ExecutedOn(p.run[k])]]
      /\ down' = [down EXCEPT ![c] = Writes(@, far[c], Answers(p.run))]
      /\ far' = [far EXCEPT ![c] = IF p.raised THEN Closing(@) ELSE @]
      /\ UNCHANGED <<server, misread, request, near, up>>
  BY DEF Handle
<1> HIDE DEF pieces
<1>7. /\ p.run \in Seq(Nat)
      /\ \A j \in 1 .. Len(p.run) :
           /\ 2 * j - 1 \in 1 .. Len(pieces) /\ 2 * j \in 1 .. Len(pieces)
           /\ p.run[j] = pieces[2 * j - 1].id
           /\ pieces[2 * j - 1].part = "head"
      /\ p.left \in {<<>>, SubSeq(pieces, 2 * Len(p.run) + 1, Len(pieces))}
  BY <1>5, ParsedFacts
<1> HIDE DEF p
<1>8. p.run \in Seq(Requests)
  <2>1. \A k \in 1 .. Len(pieces) : pieces[k].id \in Requests
    <3>1. \A k \in DOMAIN handler[c].buffer : handler[c].buffer[k].id \in Requests
      BY DEF BaseInv, CarriedInv, Travelling, Ids
    <3>2. 1 \in DOMAIN handler[c].queue /\ Head(handler[c].queue) = handler[c].queue[1]
      BY <1>2, <1>3
    <3>3. \A k \in DOMAIN Head(handler[c].queue) : Head(handler[c].queue)[k].id \in Requests
      BY <3>2 DEF BaseInv, CarriedInv, Travelling, Ids
    <3>4. ASSUME NEW s \in Seq(Piece), NEW t \in Seq(Piece),
                 \A k \in DOMAIN s : s[k].id \in Requests,
                 \A k \in DOMAIN t : t[k].id \in Requests,
                 NEW k \in 1 .. Len(s \o t)
          PROVE  (s \o t)[k].id \in Requests
      <4>1. (s \o t)[k] = IF k <= Len(s) THEN s[k] ELSE t[k - Len(s)]
        BY <3>4, ConcatProperties
      <4>2. k <= Len(s) \/ k - Len(s) \in 1 .. Len(t)
        BY <3>4, ConcatProperties
      <4> QED BY <3>4, <4>1, <4>2
    <3> QED BY <1>2, <1>4, <3>1, <3>3, <3>4 DEF Buffered, pieces
  <2>2. p.run \in [1 .. Len(p.run) -> Requests] /\ Len(p.run) \in Nat
    <3>1. p.run \in [1 .. Len(p.run) -> Nat] /\ Len(p.run) \in Nat
      BY <1>7, LenProperties
    <3> QED BY <1>7, <2>1, <3>1
  <2> QED BY <2>2
<1>9. p.left \in Seq(Piece)
  <2>1. <<>> \in Seq(Piece)
    OBVIOUS
  <2> DEFINE m == 2 * Len(p.run) + 1
  <2>2. m \in Int /\ Len(pieces) \in Int /\ \A i \in m .. Len(pieces) : pieces[i] \in Piece
    BY <1>5, <1>7
  <2>3. SubSeq(pieces, m, Len(pieces)) \in Seq(Piece)
    <3> HIDE DEF m
    <3> QED BY <2>2, SubSeqProperties
  <2> QED BY <1>7, <2>1, <2>3
<1>10. down' \in {down, [down EXCEPT ![c] = @ \o Answers(p.run)]}
  BY <1>1, <1>6 DEF Writes
<1>11. far' \in {far, [far EXCEPT ![c] = "closing"]}
  BY <1>1, <1>6 DEF Closing
<1>12. pieces = Buffered(c)
  BY DEF pieces
<1> QED BY <1>3, <1>5, <1>6, <1>7, <1>8, <1>9, <1>10, <1>11, <1>12

\* A part of some pieces, and their requests.
LEMMA IdsSubSeq ==
  ASSUME NEW s \in Seq(Piece), NEW m \in Nat \ {0}, NEW n \in 0 .. Len(s)
  PROVE  SubSeq(s, m, n) \in Seq(Piece) /\ Ids(SubSeq(s, m, n)) \subseteq Ids(s)
<1>0. \A i \in m .. n : s[i] \in Piece /\ i \in DOMAIN s
  OBVIOUS
<1>1. /\ SubSeq(s, m, n) \in Seq(Piece)
      /\ Len(SubSeq(s, m, n)) = IF m <= n THEN n - m + 1 ELSE 0
      /\ \A i \in 1 .. n - m + 1 : SubSeq(s, m, n)[i] = s[m + i - 1]
  BY <1>0, SubSeqProperties
<1>2. \A k \in DOMAIN SubSeq(s, m, n) : k \in 1 .. n - m + 1 /\ m + k - 1 \in DOMAIN s
  BY <1>0, <1>1
<1> QED BY <1>1, <1>2 DEF Ids

\* Pieces joined, and their requests.
LEMMA IdsConcat ==
  ASSUME NEW s \in Seq(Piece), NEW t \in Seq(Piece)
  PROVE  s \o t \in Seq(Piece) /\ Ids(s \o t) \subseteq Ids(s) \cup Ids(t)
<1>1. /\ s \o t \in Seq(Piece) /\ Len(s \o t) = Len(s) + Len(t)
      /\ \A i \in 1 .. Len(s) + Len(t) :
           (s \o t)[i] = IF i <= Len(s) THEN s[i] ELSE t[i - Len(s)]
  BY ConcatProperties
<1>2. \A i \in DOMAIN (s \o t) :
        \/ i \in DOMAIN s /\ (s \o t)[i] = s[i]
        \/ i - Len(s) \in DOMAIN t /\ (s \o t)[i] = t[i - Len(s)]
  BY <1>1
<1> QED BY <1>1, <1>2 DEF Ids

\* The types of what a connection has on the server's side.
LEMMA HandlerFacts ==
  ASSUME BaseInv, NEW c \in Conns
  PROVE  /\ handler \in [Conns -> Handler] /\ handler[c] \in Handler
         /\ handler[c].queue \in Seq(Seq(Piece)) /\ handler[c].buffer \in Seq(Piece)
         /\ up \in [Conns -> Seq(Piece)] /\ up[c] \in Seq(Piece)
         /\ down \in [Conns -> Seq(Answer)] /\ down[c] \in Seq(Answer)
BY DEF BaseInv, ServerType, LineType, Handler

\* A handler that is new or done holds nothing.
LEMMA NoHandlerFacts ==
  /\ NoHandler \in Handler /\ [NoHandler EXCEPT !.task = "running"] \in Handler
  /\ NoHandler.queue = <<>> /\ NoHandler.buffer = <<>>
  /\ [NoHandler EXCEPT !.task = "running"].queue = <<>>
  /\ [NoHandler EXCEPT !.task = "running"].buffer = <<>>
<1>1. <<>> \in Seq(Seq(Piece)) /\ <<>> \in Seq(Piece)
  OBVIOUS
<1> QED BY <1>1 DEF NoHandler, Handler

\* The pieces that a handler receives.
LEMMA ReceivedFacts ==
  ASSUME BaseInv, NEW c \in Conns, NEW n, DataReceived(c, n)
  PROVE  /\ n \in 1 .. Len(up[c])
         /\ \/ handler' = handler
            \/ /\ handler' = [handler EXCEPT ![c].queue = Append(@, SubSeq(up[c], 1, n))]
               /\ SubSeq(up[c], 1, n) \in Seq(Piece)
               /\ Ids(SubSeq(up[c], 1, n)) \subseteq Ids(up[c])
         /\ up' = [up EXCEPT ![c] = SubSeq(@, n + 1, Len(@))]
         /\ SubSeq(up[c], n + 1, Len(up[c])) \in Seq(Piece)
         /\ Ids(SubSeq(up[c], n + 1, Len(up[c]))) \subseteq Ids(up[c])
         /\ UNCHANGED <<server, executed, misread, request, near, far, down>>
<1>1. n \in 1 .. Len(up[c]) /\ up[c] \in Seq(Piece)
  BY HandlerFacts DEF DataReceived
<1>2. /\ n \in 0 .. Len(up[c]) /\ Len(up[c]) \in 0 .. Len(up[c])
      /\ 1 \in Nat \ {0} /\ n + 1 \in Nat \ {0}
  BY <1>1
<1> QED BY <1>1, <1>2, IdsSubSeq DEF DataReceived

\* A piece that was read in part.
LEMMA BittenFacts ==
  ASSUME NEW p \in Piece
  PROVE  /\ Bitten(p) \in Piece /\ Bitten(p).id = p.id /\ Bitten(p).part # "head"
         /\ Bitten(p).part = "tail" <=> p.part = "tail"
BY DEF Bitten, Piece

\* The queue when its head was looked at in part: what is behind it, and nothing
\* before that.
Again(q, queue) == queue = Tail(q) \/ queue = [q EXCEPT ![1] = <<>>]

LEMMA QueuedAgain ==
  ASSUME NEW q \in Seq(Seq(Piece)), q # <<>>, NEW queue, Again(q, queue)
  PROVE  /\ queue \in Seq(Seq(Piece))
         /\ \A k \in DOMAIN queue : queue[k] = <<>> \/ \E j \in DOMAIN q : queue[k] = q[j]
         /\ \/ queue = Tail(q)
            \/ /\ Len(queue) = Len(q) /\ queue[1] = <<>> /\ DOMAIN queue = 1 .. Len(q)
               /\ \A k \in 2 .. Len(q) : queue[k] = q[k]
<1> DEFINE none == <<>>
<1>1. none \in Seq(Piece)
  OBVIOUS
<1>0. Len(q) \in Nat \ {0} /\ DOMAIN q = 1 .. Len(q)
  BY EmptySeq, LenProperties
<1>2. queue = Tail(q) \/ queue = [q EXCEPT ![1] = none]
  BY DEF Again
<1> HIDE DEF none
<1>3. CASE queue = Tail(q)
  <2>1. /\ queue \in Seq(Seq(Piece)) /\ Len(queue) = Len(q) - 1
        /\ DOMAIN queue = 1 .. Len(queue)
        /\ \A k \in 1 .. Len(queue) : queue[k] = q[k + 1]
    BY <1>3, HeadTailProperties
  <2>2. \A k \in DOMAIN queue : k + 1 \in DOMAIN q
    BY <1>0, <2>1
  <2> QED BY <1>3, <2>1, <2>2
<1>4. CASE queue = [q EXCEPT ![1] = none]
  <2>1. 1 \in 1 .. Len(q)
    BY <1>0
  <2>2. /\ queue \in Seq(Seq(Piece)) /\ Len(queue) = Len(q)
        /\ \A k \in 1 .. Len(q) : queue[k] = IF k = 1 THEN none ELSE q[k]
    BY <1>1, <1>4, <2>1, ExceptSeq
  <2>3. DOMAIN queue = 1 .. Len(q)
    BY <2>2, LenProperties
  <2>4. queue[1] = <<>>
    BY <2>1, <2>2 DEF none
  <2>5. \A k \in 2 .. Len(q) : queue[k] = q[k]
    BY <1>0, <2>2
  <2>6. ASSUME NEW k \in DOMAIN queue
        PROVE  queue[k] = <<>> \/ \E j \in DOMAIN q : queue[k] = q[j]
    <3>1. k \in 1 .. Len(q) /\ k \in DOMAIN q
      BY <1>0, <2>3, <2>6
    <3> QED BY <2>2, <2>4, <3>1
  <2> QED BY <2>2, <2>3, <2>4, <2>5, <2>6
<1> QED BY <1>2, <1>3, <1>4

Remains(pieces, n, left) ==
  LET behind == SubSeq(pieces, n + 1, Len(pieces))
  IN left = behind \/ left = <<Bitten(pieces[n])>> \o behind

\* What is left behind a request that was misread.
LEMMA UnreadFacts ==
  ASSUME NEW pieces \in Seq(Piece), NEW n \in 1 .. Len(pieces), NEW whole
  PROVE  /\ SubSeq(pieces, n + 1, Len(pieces)) \in Seq(Piece)
         /\ <<Bitten(pieces[n])>> \in Seq(Piece)
         /\ Unread(pieces, n, whole) \in Seq(Piece)
         /\ Ids(Unread(pieces, n, whole)) \subseteq Ids(pieces)
         /\ Remains(pieces, n, Unread(pieces, n, whole))
<1> DEFINE behind == SubSeq(pieces, n + 1, Len(pieces))
           bitten == <<Bitten(pieces[n])>>
<1>1. n + 1 \in Nat \ {0} /\ Len(pieces) \in 0 .. Len(pieces) /\ pieces[n] \in Piece
  OBVIOUS
<1>2. behind \in Seq(Piece) /\ Ids(behind) \subseteq Ids(pieces)
  BY <1>1, IdsSubSeq
<1>3. bitten \in Seq(Piece) /\ Ids(bitten) \subseteq Ids(pieces)
  <2>1. Bitten(pieces[n]) \in Piece /\ Bitten(pieces[n]).id = pieces[n].id
    BY <1>1, BittenFacts
  <2> QED BY <2>1 DEF Ids
<1>4. <<>> \in Seq(Piece) /\ Ids(<<>>) \subseteq Ids(pieces)
  BY DEF Ids
<1>5. Unread(pieces, n, whole) = bitten \o behind \/ Unread(pieces, n, whole) = <<>> \o behind
  BY DEF Unread
<1> HIDE DEF behind, bitten
<1>6. /\ bitten \o behind \in Seq(Piece) /\ Ids(bitten \o behind) \subseteq Ids(pieces)
      /\ <<>> \o behind \in Seq(Piece) /\ Ids(<<>> \o behind) \subseteq Ids(pieces)
  <2>1. /\ bitten \o behind \in Seq(Piece)
        /\ Ids(bitten \o behind) \subseteq Ids(bitten) \cup Ids(behind)
    BY <1>2, <1>3, IdsConcat
  <2>2. /\ <<>> \o behind \in Seq(Piece)
        /\ Ids(<<>> \o behind) \subseteq Ids(<<>>) \cup Ids(behind)
    BY <1>2, <1>4, IdsConcat
  <2> QED BY <1>2, <1>3, <1>4, <2>1, <2>2
<1>7. Unread(pieces, n, whole) \in Seq(Piece) /\ Ids(Unread(pieces, n, whole)) \subseteq Ids(pieces)
  BY <1>5, <1>6
<1>8. <<>> \o behind = behind
  BY <1>2, ConcatEmptySeq
<1> QED BY <1>2, <1>3, <1>5, <1>7, <1>8 DEF behind, bitten, Remains

\* A request that is misread: what it is read from, and what becomes of that.
LEMMA MisreadFacts ==
  ASSUME BaseInv, NEW c \in Conns, NEW alien \in Aliens, NEW n, NEW whole,
         Misread(c, alien, n, whole)
  PROVE  /\ handler[c].queue # <<>> /\ handler[c].queue \in Seq(Seq(Piece))
         /\ Buffered(c) \in Seq(Piece) /\ n \in 1 .. Len(Buffered(c))
         /\ 1 \in DOMAIN handler[c].queue
         /\ Ids(Buffered(c)) \subseteq Ids(handler[c].buffer) \cup Ids(handler[c].queue[1])
         /\ handler' \in [Conns -> Handler]
         /\ \A d \in Conns : d # c => handler'[d] = handler[d]
         /\ Remains(Buffered(c), n, handler'[c].buffer)
         /\ Ids(handler'[c].buffer) \subseteq Ids(Buffered(c))
         /\ Again(handler[c].queue, handler'[c].queue)
         /\ misread' = misread \cup {Buffered(c)[k].id : k \in 1 .. n}
         /\ \A k \in 1 .. n : Buffered(c)[k].id \in Ids(Buffered(c)) \cap Nat
         /\ \E new \in Seq({alien}) : down' = down \/ down' = [down EXCEPT ![c] = @ \o new]
         /\ far' = far \/ far' = [far EXCEPT ![c] = "closing"]
         /\ UNCHANGED <<server, executed, request, near, up>>
<1> DEFINE pieces == Buffered(c)
           left == Unread(pieces, n, whole)
           queue == IF CannotSend(alien) THEN Tail(handler[c].queue)
                    ELSE [handler[c].queue EXCEPT ![1] = <<>>]
           new == Answers(<<alien>>)
<1>1. /\ handler[c].queue # <<>> /\ n \in DOMAIN pieces
      /\ handler' = [handler EXCEPT ![c].queue = queue, ![c].buffer = left]
      /\ misread' = misread \cup {pieces[k].id : k \in 1 .. n}
      /\ down' = [down EXCEPT ![c] = Writes(@, far[c], new)]
      /\ far' = [far EXCEPT ![c] = IF CannotSend(alien) THEN Closing(@) ELSE @]
      /\ UNCHANGED <<server, executed, request, near, up>>
  BY DEF Misread
<1>2. /\ handler \in [Conns -> Handler]
      /\ handler[c].queue \in Seq(Seq(Piece)) /\ handler[c].buffer \in Seq(Piece)
      /\ down \in [Conns -> Seq(Answer)] /\ far \in [Conns -> Transport]
  BY HandlerFacts DEF BaseInv, LineType
<1>3. /\ Head(handler[c].queue) \in Seq(Piece)
      /\ 1 \in DOMAIN handler[c].queue /\ Head(handler[c].queue) = handler[c].queue[1]
  BY <1>1, <1>2, HeadTailProperties
<1>4. /\ pieces \in Seq(Piece)
      /\ Ids(pieces) \subseteq Ids(handler[c].buffer) \cup Ids(handler[c].queue[1])
  BY <1>2, <1>3, IdsConcat DEF Buffered
<1>5. new \in Seq({alien})
  <2> DEFINE run == <<alien>>
             G == {i \in {run[j] : j \in DOMAIN run} : Answered(i)}
  <2>1. run \in Seq(Int)
    BY SentFacts
  <2>2. G \subseteq {alien}
    OBVIOUS
  <2>3. Answers(run) \in Seq(G)
    <3> HIDE DEF run
    <3> QED BY <2>1, AnswersFacts
  <2> HIDE DEF G
  <2> QED BY <2>2, <2>3, SeqMonotonic
<1>6. Again(handler[c].queue, queue)
  BY DEF Again
<1> HIDE DEF pieces, new, queue
<1>7. queue \in Seq(Seq(Piece))
  BY <1>1, <1>2, <1>6, QueuedAgain
<1>8. n \in 1 .. Len(pieces)
  BY <1>1, <1>4
<1>9. left \in Seq(Piece) /\ Ids(left) \subseteq Ids(pieces) /\ Remains(pieces, n, left)
  BY <1>4, <1>8, UnreadFacts
<1>10. \A k \in 1 .. n : pieces[k].id \in Ids(pieces) /\ pieces[k].id \in Nat
  <2>1. \A k \in 1 .. n : k \in DOMAIN pieces /\ pieces[k] \in Piece
    BY <1>4, <1>8
  <2> QED BY <2>1 DEF Ids, Piece
<1> HIDE DEF left
<1>11. down' = down \/ down' = [down EXCEPT ![c] = @ \o new]
  BY <1>1, <1>2 DEF Writes
<1>12. far' = far \/ far' = [far EXCEPT ![c] = "closing"]
  BY <1>1, <1>2 DEF Closing
<1>13. /\ handler' \in [Conns -> Handler]
       /\ \A d \in Conns : d # c => handler'[d] = handler[d]
       /\ handler'[c].buffer = left /\ handler'[c].queue = queue
  BY <1>1, <1>2, <1>7, <1>9 DEF Handler
<1>14. /\ misread' = misread \cup {pieces[k].id : k \in 1 .. n}
       /\ UNCHANGED <<server, executed, request, near, up>>
  BY <1>1
<1>15. \E seq \in Seq({alien}) : down' = down \/ down' = [down EXCEPT ![c] = @ \o seq]
  BY <1>5, <1>11
<1>16. pieces = Buffered(c)
  BY DEF pieces
<1>17. /\ handler[c].queue # <<>> /\ handler[c].queue \in Seq(Seq(Piece))
       /\ Buffered(c) \in Seq(Piece) /\ n \in 1 .. Len(Buffered(c))
       /\ 1 \in DOMAIN handler[c].queue
       /\ Ids(Buffered(c)) \subseteq Ids(handler[c].buffer) \cup Ids(handler[c].queue[1])
  BY <1>1, <1>2, <1>3, <1>4, <1>8, <1>16
<1>18. /\ handler' \in [Conns -> Handler]
       /\ \A d \in Conns : d # c => handler'[d] = handler[d]
       /\ Remains(Buffered(c), n, handler'[c].buffer)
       /\ Ids(handler'[c].buffer) \subseteq Ids(Buffered(c))
       /\ Again(handler[c].queue, handler'[c].queue)
  BY <1>6, <1>9, <1>13, <1>16
<1>19. /\ misread' = misread \cup {Buffered(c)[k].id : k \in 1 .. n}
       /\ \A k \in 1 .. n : Buffered(c)[k].id \in Ids(Buffered(c)) \cap Nat
       /\ UNCHANGED <<server, executed, request, near, up>>
  BY <1>10, <1>14, <1>16
<1> QED BY <1>12, <1>15, <1>17, <1>18, <1>19

\* Every step keeps the types of the server.
LEMMA ServerTypeStep ==
  ASSUME BaseInv, [Next]_vars
  PROVE  ServerType'
<1>0. ServerType
  BY DEF BaseInv
<1>1. CASE serverVars' = serverVars
  BY <1>0, <1>1 DEF ServerType, serverVars
<1>2. CASE ServeForever
  BY <1>0, <1>2 DEF ServeForever, ServerType
<1>3. CASE ServerClose
  BY <1>0, <1>3, NoHandlerFacts DEF ServerClose, ServerType
<1>4. ASSUME NEW c \in Conns, NEW n, DataReceived(c, n) PROVE ServerType'
  <2>1. handler' \in [Conns -> Handler]
    <3>1. \/ handler' = handler
          \/ /\ handler' = [handler EXCEPT ![c].queue = Append(@, SubSeq(up[c], 1, n))]
             /\ SubSeq(up[c], 1, n) \in Seq(Piece)
      BY <1>4, ReceivedFacts
    <3>2. ASSUME NEW s \in Seq(Piece), handler' = [handler EXCEPT ![c].queue = Append(@, s)]
          PROVE  handler' \in [Conns -> Handler]
      <4>1. Append(handler[c].queue, s) \in Seq(Seq(Piece))
        BY <3>2, HandlerFacts
      <4> QED BY <3>2, <4>1, HandlerFacts DEF Handler
    <3> QED BY <3>1, <3>2, HandlerFacts
  <2> QED BY <1>0, <1>4, <2>1, ReceivedFacts DEF ServerType
<1>5. ASSUME NEW c \in Conns, NEW luck, Handle(c, luck) PROVE ServerType'
  <2>1. PICK run \in Seq(Requests), left \in Seq(Piece) :
          /\ handler[c].queue # <<>>
          /\ handler' = [handler EXCEPT ![c].queue = Tail(@), ![c].buffer = left]
          /\ executed' = executed \o [k \in DOMAIN run |->
                                        [id |-> run[k], units |-> ExecutedOn(run[k])]]
          /\ server' = server /\ misread' = misread
    BY <1>5, HandleFacts
  <2>2. handler' \in [Conns -> Handler]
    <3>1. Tail(handler[c].queue) \in Seq(Seq(Piece))
      BY <2>1, HandlerFacts, HeadTailProperties
    <3> QED BY <2>1, <3>1, HandlerFacts DEF Handler
  <2>3. executed' \in Seq(Executed)
    <3> DEFINE new == [k \in DOMAIN run |-> [id |-> run[k], units |-> ExecutedOn(run[k])]]
    <3>1. ASSUME NEW k \in 1 .. Len(run) PROVE new[k] \in Executed
      <4>1. run[k] \in Requests /\ run[k] \in Nat
        BY RequestFacts DEF BaseInv, RequestType
      <4> QED BY <4>1, ExecutedOnFacts DEF Executed
    <3>2. DOMAIN run = 1 .. Len(run) /\ Len(run) \in Nat
      OBVIOUS
    <3>3. new \in [1 .. Len(run) -> Executed]
      BY <3>1, <3>2
    <3>4. new \in Seq(Executed)
      BY <3>2, <3>3
    <3> HIDE DEF new
    <3>5. executed' = executed \o new
      BY <2>1 DEF new
    <3> QED BY <1>0, <3>4, <3>5, ConcatProperties DEF ServerType
  <2> QED BY <1>0, <2>1, <2>2, <2>3 DEF ServerType
<1>6. ASSUME NEW c \in Conns, HandlerLost(c) PROVE ServerType'
  BY <1>0, <1>6, NoHandlerFacts DEF HandlerLost, ServerType
<1>7. ASSUME NEW c \in Conns, Establish(c) PROVE ServerType'
  BY <1>0, <1>7, NoHandlerFacts DEF Establish, Accept, ServerType
<1>10. ASSUME NEW c \in Conns, NEW alien \in Aliens, NEW n, NEW whole, Misread(c, alien, n, whole)
       PROVE  ServerType'
  <2>1. /\ handler' \in [Conns -> Handler]
        /\ misread' = misread \cup {Buffered(c)[k].id : k \in 1 .. n}
        /\ \A k \in 1 .. n : Buffered(c)[k].id \in Nat
        /\ UNCHANGED <<server, executed>>
    BY <1>10, MisreadFacts
  <2> QED BY <1>0, <2>1 DEF ServerType
<1>8. CASE ServerStep
  BY <1>2, <1>3, <1>4, <1>5, <1>6, <1>8, <1>10 DEF ServerStep
<1>9. \/ serverVars' = serverVars \/ ServerStep \/ \E c \in Conns : Establish(c)
  BY DEF Next, ClientStep, ClientOnly, ClientLost, Refused, Ask, vars, serverVars
<1> QED BY <1>1, <1>7, <1>8, <1>9

\* Every step keeps the types of the connections.
LEMMA LineTypeStep ==
  ASSUME BaseInv, [Next]_vars
  PROVE  LineType'
<1>0. LineType
  BY DEF BaseInv
<1> USE <1>0 DEF LineType
<1>1. CASE UNCHANGED <<near, far, up, down, link>>
  BY <1>1
<1>2. ASSUME NEW tid \in 0 .. TidModulus - 1 PROVE NewLink(tid) \in Link
  BY <1>2 DEF NewLink, Link
<1>3. ASSUME NEW c \in Conns, Establish(c) PROVE LineType'
  <2>1. scenario.tid \in 0 .. TidModulus - 1
    BY ScenariosAssumption DEF BaseInv, RequestType
  <2>2. NewLink(scenario.tid) \in Link
    BY <1>2, <2>1
  <2>3. <<>> \in Seq(Piece) /\ <<>> \in Seq(Answer)
    OBVIOUS
  <2> QED BY <1>3, <2>2, <2>3 DEF Establish, Made, Open, Transport
<1>4. CASE Ask
  <2> DEFINE c == client.protocol
             i == Len(request) + 1
  <2>1. c \in Conns
    BY <1>4, AskFacts
  <2>2. i \in Nat /\ Frame(i) \in Seq(Piece)
    <3>1. i \in Nat
      BY RequestFacts DEF BaseInv, RequestType
    <3> QED BY <3>1 DEF Frame, Piece
  <2>3. /\ up' = [up EXCEPT ![c] = Writes(@, near[c], Frame(i))]
        /\ link' = [link EXCEPT ![c].tid = NextTid(@), ![c].pending = Added(@, i)]
        /\ UNCHANGED <<near, far, down>>
    BY <1>4 DEF Ask, Execute
  <2> HIDE DEF i, c
  <2>4. Writes(up[c], near[c], Frame(i)) \in Seq(Piece)
    BY <2>1, <2>2, ConcatProperties DEF Writes
  <2>5. link[c] \in Link /\ NextTid(link[c].tid) \in 0 .. TidModulus - 1
        /\ Added(link[c].pending, i) \in SUBSET Nat
    BY <2>1, <2>2, TidAssumption DEF Link, NextTid, Added
  <2>6. [link[c] EXCEPT !.tid = NextTid(@), !.pending = Added(@, i)] \in Link
    BY <2>5 DEF Link
  <2>7. link' = [link EXCEPT ![c] = [link[c] EXCEPT !.tid = NextTid(@), !.pending = Added(@, i)]]
    BY <2>3
  <2>8. link' \in [Conns -> Link]
    BY <2>1, <2>6, <2>7
  <2> QED BY <2>1, <2>3, <2>4, <2>8
<1>5. ASSUME NEW c \in Conns, ClientLost(c) PROVE LineType'
  <2>1. <<>> \in Seq(Answer) /\ NewLink(0) \in Link
    BY <1>2, TidAssumption
  <2>2. /\ near' = [near EXCEPT ![c] = "lost"] /\ down' = [down EXCEPT ![c] = <<>>]
        /\ link' = [link EXCEPT ![c] = NewLink(0)] /\ UNCHANGED <<far, up>>
    BY <1>5 DEF ClientLost, Lost
  <2> QED BY <2>1, <2>2 DEF Transport
<1>6. ASSUME NEW c \in Conns, Receive(c) PROVE LineType'
  <2>1. PICK found : link' = [link EXCEPT ![c].pending = Without(@, found)]
    BY <1>6, ReceiveFacts
  <2>2. link' \in [Conns -> Link]
    BY <2>1 DEF Link, Without
  <2>3. down[c] \in Seq(Answer) /\ down[c] # <<>>
    BY <1>6 DEF Receive
  <2>4. Tail(down[c]) \in Seq(Answer)
    BY <2>3, HeadTailProperties
  <2> QED BY <1>6, <2>2, <2>4 DEF Receive
<1>7. CASE Close
  BY <1>7 DEF Close, Closing, Transport
<1>8. CASE ClientStep
  <2>1. \/ UNCHANGED <<near, far, up, down, link>>
        \/ Close \/ \E c \in Conns : Receive(c)
    BY <1>8 DEF ClientStep, Connect, Wake, Timeout, connectionVars, clientVars
  <2> QED BY <1>1, <1>6, <1>7, <2>1
<1>9. ASSUME NEW c \in Conns, NEW n, DataReceived(c, n) PROVE /\ near' \in [Conns -> Transport]
             /\ far' \in [Conns -> Transport] /\ up' \in [Conns -> Seq(Piece)]
             /\ down' \in [Conns -> Seq(Answer)]
  BY <1>9, ReceivedFacts
<1>10. ASSUME NEW c \in Conns, NEW luck, Handle(c, luck) PROVE /\ near' \in [Conns -> Transport]
             /\ far' \in [Conns -> Transport] /\ up' \in [Conns -> Seq(Piece)]
             /\ down' \in [Conns -> Seq(Answer)]
  <2>1. PICK run \in Seq(Requests) :
          /\ down' \in {down, [down EXCEPT ![c] = @ \o Answers(run)]}
          /\ far' \in {far, [far EXCEPT ![c] = "closing"]}
          /\ UNCHANGED <<near, up>>
    BY <1>10, HandleFacts
  <2>2. run \in Seq(Nat)
    <3>1. Requests \subseteq Nat
      BY RequestFacts DEF BaseInv, RequestType
    <3> QED BY <3>1, SeqMonotonic
  <2>3. Answers(run) \in Seq(Answer)
    <3>1. {i \in {run[j] : j \in DOMAIN run} : Answered(i)} \subseteq Answer
      BY <2>2 DEF Answer
    <3>2. run \in Seq(Int)
      BY <2>2, SeqMonotonic
    <3> QED BY <3>1, <3>2, AnswersFacts, SeqMonotonic
  <2>4. down[c] \o Answers(run) \in Seq(Answer)
    BY <2>3, ConcatProperties
  <2> QED BY <2>1, <2>4 DEF Transport
<1>11. ASSUME NEW c \in Conns, HandlerLost(c) PROVE /\ near' \in [Conns -> Transport]
             /\ far' \in [Conns -> Transport] /\ up' \in [Conns -> Seq(Piece)]
             /\ down' \in [Conns -> Seq(Answer)]
  BY <1>11 DEF HandlerLost, Transport
<1>14. ASSUME NEW c \in Conns, NEW alien \in Aliens, NEW n, NEW whole, Misread(c, alien, n, whole)
       PROVE /\ near' \in [Conns -> Transport]
             /\ far' \in [Conns -> Transport] /\ up' \in [Conns -> Seq(Piece)]
             /\ down' \in [Conns -> Seq(Answer)]
  <2>0. (far' = far \/ far' = [far EXCEPT ![c] = "closing"]) /\ UNCHANGED <<near, up>>
    BY <1>14, MisreadFacts
  <2>1. PICK new \in Seq({alien}) : down' = down \/ down' = [down EXCEPT ![c] = @ \o new]
    BY <1>14, MisreadFacts
  <2>2. new \in Seq(Answer)
    <3>1. {alien} \subseteq Answer
      BY DEF Answer
    <3> QED BY <3>1, SeqMonotonic
  <2>3. down[c] \o new \in Seq(Answer)
    BY <2>2, ConcatProperties
  <2> QED BY <2>0, <2>1, <2>3 DEF Transport
<1>12. CASE ServerStep
  <2>1. link' = link
    BY <1>12 DEF ServerStep, ServerOnly, clientVars
  <2>2. \/ UNCHANGED <<near, far, up, down>>
        \/ \E c \in Conns : \/ \E n : DataReceived(c, n)
                            \/ \E luck : Handle(c, luck)
                            \/ \E alien \in Aliens : \E n, whole : Misread(c, alien, n, whole)
                            \/ HandlerLost(c)
    BY <1>12 DEF ServerStep, ServeForever, ServerClose, connectionVars
  <2> QED BY <1>9, <1>10, <1>11, <1>14, <2>1, <2>2
<1>13. CASE Refused \/ UNCHANGED vars
  BY <1>1, <1>13 DEF Refused, AttemptFails, connectionVars, vars, clientVars
<1> QED BY <1>3, <1>4, <1>5, <1>8, <1>12, <1>13 DEF Next

\* What a handler, and the line to it, are concerned with.
Upwards(c) ==
  Ids(up[c]) \cup Ids(handler[c].buffer)
    \cup UNION {Ids(handler[c].queue[k]) : k \in DOMAIN handler[c].queue}
Downwards(c) == link[c].pending \cup ({down[c][k] : k \in DOMAIN down[c]} \cap Nat)

\* What a connection is concerned with goes up or down.
LEMMA TwoWays == \A c : Travelling(c) = Upwards(c) \cup Downwards(c)
BY DEF Travelling, Upwards, Downwards

\* No pieces, no requests.
LEMMA EmptyIds == Ids(<<>>) = {}
BY DEF Ids

\* Only a request that is made adds to what goes up.
LEMMA UpwardsStep ==
  ASSUME BaseInv, [Next]_vars, NEW c \in Conns
  PROVE  \/ Upwards(c)' \subseteq Upwards(c)
         \/ /\ Ask /\ c = client.protocol
            /\ Upwards(c)' \subseteq Upwards(c) \cup {Len(request) + 1}
<1>1. ASSUME UNCHANGED <<up, handler>> PROVE Upwards(c)' = Upwards(c)
  BY <1>1 DEF Upwards
<1>2. CASE Ask
  <2> DEFINE d == client.protocol
             i == Len(request) + 1
  <2>1. d \in Conns /\ handler' = handler
    BY <1>2, AskFacts DEF Ask, ClientOnly, serverVars
  <2>2. up' = [up EXCEPT ![d] = Writes(@, near[d], Frame(i))]
    BY <1>2 DEF Ask, Execute
  <2>3. i \in Nat /\ Frame(i) \in Seq(Piece) /\ Ids(Frame(i)) \subseteq {i}
    <3>1. i \in Nat
      BY RequestFacts DEF BaseInv, RequestType
    <3> QED BY <3>1 DEF Frame, Piece, Ids
  <2> HIDE DEF i, d
  <2>4. Ids(Writes(up[d], near[d], Frame(i))) \subseteq Ids(up[d]) \cup {i}
    BY <2>1, <2>3, HandlerFacts, IdsConcat DEF Writes
  <2>5. CASE c = d
    <3>1. Ids(up'[c]) \subseteq Ids(up[c]) \cup {i}
      BY <2>1, <2>2, <2>4, <2>5, HandlerFacts
    <3> QED BY <1>2, <2>1, <2>5, <3>1 DEF Upwards, i, d
  <2>6. CASE c # d
    <3>1. up'[c] = up[c]
      BY <2>1, <2>2, <2>6, HandlerFacts
    <3> QED BY <2>1, <3>1 DEF Upwards, i, d
  <2> QED BY <1>2, <2>5, <2>6 DEF i, d
<1>3. ASSUME NEW d \in Conns, Establish(d) PROVE Upwards(c)' \subseteq Upwards(c)
  <2>1. /\ up' = [up EXCEPT ![d] = <<>>]
        /\ handler' = [handler EXCEPT ![d] = [NoHandler EXCEPT !.task = "running"]]
    BY <1>3 DEF Establish, Open, Accept
  <2>2. CASE c = d
    <3>1. up'[c] = <<>> /\ handler'[c].queue = <<>> /\ handler'[c].buffer = <<>>
      BY <2>1, <2>2, HandlerFacts, NoHandlerFacts
    <3> QED BY <2>2, <3>1, EmptyIds DEF Upwards
  <2>3. CASE c # d
    BY <2>1, <2>3, HandlerFacts DEF Upwards
  <2> QED BY <2>2, <2>3
<1>4. CASE ServerClose
  <2>1. up' = up /\ handler'[c].queue = <<>> /\ handler'[c].buffer = <<>>
    BY <1>4, NoHandlerFacts DEF ServerClose, connectionVars
  <2> QED BY <2>1, EmptyIds DEF Upwards
<1>5. ASSUME NEW d \in Conns, NEW n, DataReceived(d, n) PROVE Upwards(c)' \subseteq Upwards(c)
  <2>0. /\ up' = [up EXCEPT ![d] = SubSeq(@, n + 1, Len(@))]
        /\ Ids(SubSeq(up[d], n + 1, Len(up[d]))) \subseteq Ids(up[d])
    BY <1>5, ReceivedFacts
  <2>1. CASE c = d
    <3>1. Ids(up'[c]) \subseteq Ids(up[c])
      BY <2>0, <2>1, HandlerFacts
    <3>2. CASE handler' = handler
      BY <3>1, <3>2 DEF Upwards
    <3>3. ASSUME NEW s \in Seq(Piece), handler' = [handler EXCEPT ![d].queue = Append(@, s)],
                 Ids(s) \subseteq Ids(up[d])
          PROVE  Upwards(c)' \subseteq Upwards(c)
      <4>1. handler'[c].queue = Append(handler[c].queue, s) /\ handler'[c].buffer = handler[c].buffer
        BY <2>1, <3>3, HandlerFacts DEF Handler
      <4>2. \A k \in DOMAIN handler'[c].queue :
              \/ k \in DOMAIN handler[c].queue /\ handler'[c].queue[k] = handler[c].queue[k]
              \/ handler'[c].queue[k] = s
        BY <4>1, HandlerFacts, AppendProperties
      <4> HIDE DEF Ids
      <4> QED BY <2>1, <3>1, <3>3, <4>1, <4>2 DEF Upwards
    <3> QED BY <1>5, <2>1, <3>2, <3>3, ReceivedFacts
  <2>2. CASE c # d
    <3>1. up'[c] = up[c] /\ handler'[c] = handler[c]
      BY <1>5, <2>2, HandlerFacts, ReceivedFacts, ZenonT(40)
    <3> QED BY <3>1 DEF Upwards
  <2> QED BY <2>1, <2>2
<1>6. ASSUME NEW d \in Conns, NEW luck, Handle(d, luck) PROVE Upwards(c)' \subseteq Upwards(c)
  <2>1. PICK run \in Seq(Requests), left \in Seq(Piece) :
          LET pieces == Buffered(d)
          IN /\ handler[d].queue # <<>> /\ pieces \in Seq(Piece)
             /\ left \in {<<>>, SubSeq(pieces, 2 * Len(run) + 1, Len(pieces))}
             /\ handler' = [handler EXCEPT ![d].queue = Tail(@), ![d].buffer = left]
             /\ up' = up
    BY <1>6, HandleFacts
  <2>2. CASE c = d
    <3> DEFINE q == handler[d].queue
    <3>1. q \in Seq(Seq(Piece)) /\ q # <<>> /\ handler[d].buffer \in Seq(Piece)
      BY <2>1, HandlerFacts
    <3>2. 1 \in DOMAIN q /\ Head(q) = q[1] /\ Head(q) \in Seq(Piece)
      BY <3>1
    <3>3. Ids(Buffered(d)) \subseteq Ids(handler[d].buffer) \cup Ids(q[1])
      BY <3>1, <3>2, IdsConcat DEF Buffered
    <3>4. Ids(left) \subseteq Ids(Buffered(d))
      <4>1. 2 * Len(run) + 1 \in Nat \ {0} /\ Len(Buffered(d)) \in 0 .. Len(Buffered(d))
        BY <2>1
      <4>2. Ids(SubSeq(Buffered(d), 2 * Len(run) + 1, Len(Buffered(d)))) \subseteq Ids(Buffered(d))
        BY <2>1, <4>1, IdsSubSeq
      <4> QED BY <2>1, <4>2, EmptyIds
    <3>5. \A k \in DOMAIN Tail(q) : k + 1 \in DOMAIN q /\ Tail(q)[k] = q[k + 1]
      BY <3>1, HeadTailProperties
    <3>6. handler'[c].queue = Tail(q) /\ handler'[c].buffer = left
      BY <2>1, <2>2, HandlerFacts DEF Handler
    <3> HIDE DEF q
    <3>7. \A k \in DOMAIN Tail(q) : Ids(Tail(q)[k]) \subseteq UNION {Ids(q[j]) : j \in DOMAIN q}
      BY <3>5
    <3>8. Ids(left) \subseteq Ids(handler[d].buffer) \cup UNION {Ids(q[j]) : j \in DOMAIN q}
      BY <3>2, <3>3, <3>4
    <3>9. Upwards(c)' = Ids(up[c]) \cup Ids(left) \cup UNION {Ids(Tail(q)[k]) : k \in DOMAIN Tail(q)}
      BY <2>1, <3>6 DEF Upwards
    <3>10. Upwards(c) = Ids(up[c]) \cup Ids(handler[d].buffer) \cup UNION {Ids(q[j]) : j \in DOMAIN q}
      BY <2>2 DEF Upwards, q
    <3> QED BY <3>7, <3>8, <3>9, <3>10
  <2>3. CASE c # d
    <3>1. up'[c] = up[c] /\ handler'[c] = handler[c]
      BY <2>1, <2>3, HandlerFacts
    <3> QED BY <3>1 DEF Upwards
  <2> QED BY <2>2, <2>3
<1>7. ASSUME NEW d \in Conns, HandlerLost(d) PROVE Upwards(c)' \subseteq Upwards(c)
  <2>1. CASE c = d
    <3>1. up'[c] = <<>> /\ handler'[c].queue = <<>> /\ handler'[c].buffer = <<>>
      BY <1>7, <2>1, HandlerFacts, NoHandlerFacts DEF HandlerLost
    <3> QED BY <3>1, EmptyIds DEF Upwards
  <2>2. CASE c # d
    <3>1. up'[c] = up[c] /\ handler'[c] = handler[c]
      BY <1>7, <2>2, HandlerFacts DEF HandlerLost
    <3> QED BY <3>1 DEF Upwards
  <2> QED BY <2>1, <2>2
<1>10. ASSUME NEW d \in Conns, NEW alien \in Aliens, NEW n, NEW whole, Misread(d, alien, n, whole)
       PROVE  Upwards(c)' \subseteq Upwards(c)
  <2>1. /\ handler[d].queue # <<>> /\ handler[d].queue \in Seq(Seq(Piece))
        /\ Ids(handler'[d].buffer) \subseteq Ids(Buffered(d))
        /\ Ids(Buffered(d)) \subseteq Ids(handler[d].buffer) \cup Ids(handler[d].queue[1])
        /\ 1 \in DOMAIN handler[d].queue
        /\ Again(handler[d].queue, handler'[d].queue)
        /\ \A e \in Conns : e # d => handler'[e] = handler[e]
        /\ up' = up
    BY <1>10, MisreadFacts
  <2>2. CASE c = d
    <3> DEFINE q == handler[d].queue
               queue == handler'[d].queue
    <3>1. q \in Seq(Seq(Piece)) /\ q # <<>> /\ Again(q, queue) /\ 1 \in DOMAIN q
      BY <2>1
    <3>2. Ids(handler'[d].buffer) \subseteq Ids(handler[d].buffer) \cup Ids(q[1])
      BY <2>1
    <3>3. /\ Upwards(c)' = Ids(up[c]) \cup Ids(handler'[d].buffer)
                              \cup UNION {Ids(queue[k]) : k \in DOMAIN queue}
          /\ Upwards(c) = Ids(up[c]) \cup Ids(handler[d].buffer)
                             \cup UNION {Ids(q[j]) : j \in DOMAIN q}
      BY <2>1, <2>2 DEF Upwards
    <3> HIDE DEF q, queue
    <3>4. \A k \in DOMAIN queue : queue[k] = <<>> \/ \E j \in DOMAIN q : queue[k] = q[j]
      BY <3>1, QueuedAgain
    <3>5. \A k \in DOMAIN queue : Ids(queue[k]) \subseteq UNION {Ids(q[j]) : j \in DOMAIN q}
      BY <3>4, EmptyIds
    <3> QED BY <3>1, <3>2, <3>3, <3>5
  <2>3. CASE c # d
    <3>1. up'[c] = up[c] /\ handler'[c] = handler[c]
      BY <2>1, <2>3, HandlerFacts
    <3> QED BY <3>1 DEF Upwards
  <2> QED BY <2>2, <2>3
<1>8. CASE ServerStep
  <2>1. ServeForever => UNCHANGED <<up, handler>>
    BY DEF ServeForever, connectionVars
  <2> QED BY <1>1, <1>4, <1>5, <1>6, <1>7, <1>8, <1>10, <2>1 DEF ServerStep
<1>9. UNCHANGED <<up, handler>> \/ ServerStep \/ Ask \/ \E d \in Conns : Establish(d)
  BY DEF Next, ClientStep, ClientOnly, ClientLost, Lost, Connect, Wake, Close, Receive,
     Timeout, Refused, AttemptFails, connectionVars, serverVars, vars
<1> QED BY <1>1, <1>2, <1>3, <1>8, <1>9

\* A sequence to which copies of something were joined.
LEMMA JoinedWith ==
  ASSUME NEW S, NEW s \in Seq(S), NEW e, NEW new \in Seq({e})
  PROVE  \A k \in DOMAIN (s \o new) : (s \o new)[k] = e \/ \E j \in DOMAIN s : (s \o new)[k] = s[j]
<1>1. s \in Seq(S \cup {e}) /\ new \in Seq(S \cup {e})
  BY SeqMonotonic
<1>2. /\ s \o new \in Seq(S \cup {e}) /\ Len(s \o new) = Len(s) + Len(new)
      /\ \A i \in 1 .. Len(s) + Len(new) :
           (s \o new)[i] = IF i <= Len(s) THEN s[i] ELSE new[i - Len(s)]
  BY <1>1, ConcatProperties
<1>3. \A k \in 1 .. Len(new) : new[k] = e
  OBVIOUS
<1>4. ASSUME NEW k \in DOMAIN (s \o new)
      PROVE  (s \o new)[k] = e \/ \E j \in DOMAIN s : (s \o new)[k] = s[j]
  <2>1. k \in 1 .. Len(s) + Len(new) /\ Len(s) \in Nat /\ Len(new) \in Nat
    BY <1>2
  <2>2. CASE k <= Len(s)
    BY <1>2, <2>1, <2>2
  <2>3. CASE k > Len(s)
    <3>1. k - Len(s) \in 1 .. Len(new)
      BY <2>1, <2>3
    <3> QED BY <1>2, <1>3, <2>1, <2>3, <3>1
  <2> QED BY <2>1, <2>2, <2>3
<1> QED BY <1>4

\* What comes down went up before, or is a request that is made.
LEMMA DownwardsStep ==
  ASSUME BaseInv, [Next]_vars, NEW c \in Conns
  PROVE  \/ /\ Downwards(c)' \subseteq Downwards(c) \cup Upwards(c)
            /\ link'[c].tid = link[c].tid /\ (near'[c] # "lost" => near[c] # "lost")
         \/ Downwards(c)' \subseteq Downwards(c) /\ near'[c] = "lost"
         \/ Establish(c) /\ Downwards(c)' = {}
         \/ /\ Ask /\ c = client.protocol /\ near[c] # "lost"
            /\ Downwards(c)' \subseteq Downwards(c) \cup {Len(request) + 1}
            /\ link'[c].tid = NextTid(link[c].tid)
<1>0. /\ link \in [Conns -> Link] /\ near \in [Conns -> Transport] /\ down \in [Conns -> Seq(Answer)]
  BY DEF BaseInv, LineType
<1>1. ASSUME link'[c] = link[c], down'[c] = down[c], near'[c] # "lost" => near[c] # "lost"
      PROVE  /\ Downwards(c)' \subseteq Downwards(c) \cup Upwards(c)
             /\ link'[c].tid = link[c].tid /\ (near'[c] # "lost" => near[c] # "lost")
  BY <1>1 DEF Downwards
<1>2. CASE Ask
  <2> DEFINE d == client.protocol
             i == Len(request) + 1
  <2>1. d \in Conns /\ near[d] # "lost" /\ down' = down /\ near' = near
    BY <1>2, AskFacts DEF Ask, Execute
  <2>2. link' = [link EXCEPT ![d].tid = NextTid(@), ![d].pending = Added(@, i)]
    BY <1>2 DEF Ask, Execute
  <2>3. CASE c = d
    <3>1. link'[c].tid = NextTid(link[c].tid) /\ link'[c].pending = link[c].pending \cup {i}
      BY <1>0, <2>2, <2>3 DEF Link, Added
    <3> HIDE DEF i
    <3>2. Downwards(c)' \subseteq Downwards(c) \cup {i}
      BY <2>1, <3>1 DEF Downwards
    <3> QED BY <1>2, <2>1, <2>3, <3>1, <3>2 DEF i
  <2>4. CASE c # d
    <3>1. link'[c] = link[c]
      BY <1>0, <2>2, <2>4
    <3> QED BY <1>1, <2>1, <3>1
  <2> QED BY <2>3, <2>4
<1>3. ASSUME NEW d \in Conns, Establish(d)
      PROVE  \/ d = c /\ Downwards(c)' = {}
             \/ d # c /\ link'[c] = link[c] /\ down'[c] = down[c] /\ near'[c] = near[c]
  <2>1. /\ down' = [down EXCEPT ![d] = <<>>] /\ near' = [near EXCEPT ![d] = "open"]
        /\ link' = [link EXCEPT ![d] = NewLink(scenario.tid)]
    BY <1>3 DEF Establish, Open, Made
  <2>2. CASE c = d
    <3>1. down'[c] = <<>> /\ link'[c].pending = {}
      BY <1>0, <2>1, <2>2 DEF NewLink
    <3> QED BY <2>2, <3>1 DEF Downwards
  <2>3. CASE c # d
    BY <1>0, <2>1, <2>3
  <2> QED BY <2>2, <2>3
<1>4. ASSUME NEW d \in Conns, ClientLost(d)
      PROVE  \/ d = c /\ Downwards(c)' \subseteq Downwards(c) /\ near'[c] = "lost"
             \/ d # c /\ link'[c] = link[c] /\ down'[c] = down[c] /\ near'[c] = near[c]
  <2>1. /\ down' = [down EXCEPT ![d] = <<>>] /\ near' = [near EXCEPT ![d] = "lost"]
        /\ link' = [link EXCEPT ![d] = NewLink(0)]
    BY <1>4 DEF ClientLost, Lost
  <2>2. CASE c = d
    <3>1. down'[c] = <<>> /\ link'[c].pending = {} /\ near'[c] = "lost"
      BY <1>0, <2>1, <2>2 DEF NewLink
    <3> QED BY <2>2, <3>1 DEF Downwards
  <2>3. CASE c # d
    BY <1>0, <2>1, <2>3
  <2> QED BY <2>2, <2>3
<1>5. ASSUME NEW d \in Conns, Receive(d)
      PROVE  /\ Downwards(c)' \subseteq Downwards(c) \cup Upwards(c)
             /\ link'[c].tid = link[c].tid /\ (near'[c] # "lost" => near[c] # "lost")
  <2>1. PICK found : link' = [link EXCEPT ![d].pending = Without(@, found)]
    BY <1>5, ReceiveFacts
  <2>2. down[d] # <<>> /\ down' = [down EXCEPT ![d] = Tail(@)] /\ near' = near
    BY <1>5 DEF Receive
  <2>3. CASE c = d
    <3>1. link'[c].tid = link[c].tid /\ link'[c].pending \subseteq link[c].pending
      BY <1>0, <2>1, <2>3 DEF Link, Without
    <3>2. down'[c] = Tail(down[c]) /\ down[c] \in Seq(Answer) /\ down[c] # <<>>
      BY <1>0, <2>2, <2>3
    <3>3. \A k \in DOMAIN down'[c] : k + 1 \in DOMAIN down[c] /\ down'[c][k] = down[c][k + 1]
      BY <3>2, HeadTailProperties
    <3> QED BY <2>2, <3>1, <3>3 DEF Downwards
  <2>4. CASE c # d
    BY <1>0, <1>1, <2>1, <2>2, <2>4
  <2> QED BY <2>3, <2>4
<1>6. ASSUME NEW d \in Conns, NEW luck, Handle(d, luck), link' = link
      PROVE  /\ Downwards(c)' \subseteq Downwards(c) \cup Upwards(c)
             /\ link'[c].tid = link[c].tid /\ (near'[c] # "lost" => near[c] # "lost")
  <2>1. PICK run \in Seq(Requests) :
          LET pieces == Buffered(d)
          IN /\ handler[d].queue # <<>> /\ pieces \in Seq(Piece)
             /\ \A j \in 1 .. Len(run) :
                  /\ 2 * j - 1 \in 1 .. Len(pieces)
                  /\ run[j] = pieces[2 * j - 1].id
             /\ down' \in {down, [down EXCEPT ![d] = @ \o Answers(run)]}
             /\ near' = near
    BY <1>6, HandleFacts
  <2>2. CASE c = d /\ down' = [down EXCEPT ![d] = @ \o Answers(run)]
    <3>1. \A j \in DOMAIN run : run[j] \in Upwards(d)
      <4>1. \A j \in DOMAIN run : run[j] \in Ids(Buffered(d))
        BY <2>1 DEF Ids
      <4>2. handler[d].queue \in Seq(Seq(Piece)) /\ handler[d].queue # <<>>
            /\ handler[d].buffer \in Seq(Piece)
        BY <2>1, HandlerFacts
      <4>3. Ids(Buffered(d)) \subseteq Ids(handler[d].buffer) \cup Ids(handler[d].queue[1])
        BY <4>2, IdsConcat DEF Buffered
      <4>4. 1 \in DOMAIN handler[d].queue
        BY <4>2
      <4> QED BY <4>1, <4>3, <4>4 DEF Upwards
    <3>2. Answers(run) \in Seq(Upwards(d))
      <4>1. run \in Seq(Nat)
        <5>1. Requests \subseteq Nat
          BY RequestFacts DEF BaseInv, RequestType
        <5> QED BY <5>1, SeqMonotonic
      <4>2. {i \in {run[j] : j \in DOMAIN run} : Answered(i)} \subseteq Upwards(d)
        BY <3>1
      <4>3. run \in Seq(Int)
        BY <4>1, SeqMonotonic
      <4> QED BY <4>2, <4>3, AnswersFacts, SeqMonotonic
    <3> DEFINE Own == Downwards(c) \cup Upwards(c) \cup Aliens
    <3>3. down[c] \in Seq(Own)
      <4>1. down[c] \in Seq(Answer)
        BY <1>0
      <4>2. \A k \in DOMAIN down[c] : down[c][k] \in Own
        BY <4>1 DEF Downwards, Answer
      <4> QED BY <4>1, <4>2
    <3>4. down[c] \o Answers(run) \in Seq(Own)
      <4>1. Answers(run) \in Seq(Own)
        BY <2>2, <3>2, SeqMonotonic
      <4> HIDE DEF Own
      <4> QED BY <3>3, <4>1, ConcatProperties
    <3>5. down'[c] \in Seq(Own)
      <4> HIDE DEF Own
      <4> QED BY <1>0, <2>2, <3>4
    <3>6. \A k \in DOMAIN down'[c] : down'[c][k] \in Nat => down'[c][k] \in Downwards(c) \cup Upwards(c)
      <4>1. \A k \in DOMAIN down'[c] : down'[c][k] \in Own
        <5> HIDE DEF Own
        <5> QED BY <3>5
      <4> QED BY <4>1, SentFacts
    <3>7. link[c].pending \subseteq Downwards(c)
      BY DEF Downwards
    <3>8. Downwards(c)' = link[c].pending \cup ({down'[c][k] : k \in DOMAIN down'[c]} \cap Nat)
      BY <1>6 DEF Downwards
    <3> HIDE DEF Own
    <3> QED BY <1>6, <2>1, <3>6, <3>7, <3>8
  <2>3. CASE ~(c = d /\ down' = [down EXCEPT ![d] = @ \o Answers(run)])
    <3>1. down'[c] = down[c]
      BY <1>0, <2>1, <2>3
    <3> QED BY <1>1, <1>6, <2>1, <3>1
  <2> QED BY <2>2, <2>3
<1>10. ASSUME NEW d \in Conns, NEW alien \in Aliens, NEW n, NEW whole, Misread(d, alien, n, whole),
              link' = link
      PROVE  /\ Downwards(c)' \subseteq Downwards(c) \cup Upwards(c)
             /\ link'[c].tid = link[c].tid /\ (near'[c] # "lost" => near[c] # "lost")
  <2>0. near' = near
    BY <1>10, MisreadFacts
  <2>1. PICK new \in Seq({alien}) : down' = down \/ down' = [down EXCEPT ![d] = @ \o new]
    BY <1>10, MisreadFacts
  <2>2. CASE c = d /\ down' = [down EXCEPT ![d] = @ \o new]
    <3>1. down'[c] = down[c] \o new /\ down[c] \in Seq(Answer)
      BY <1>0, <2>2
    <3>2. \A k \in DOMAIN down'[c] : \/ \E j \in DOMAIN down[c] : down'[c][k] = down[c][j]
                                    \/ down'[c][k] = alien
      BY <3>1, JoinedWith
    <3>3. {down'[c][k] : k \in DOMAIN down'[c]} \cap Nat \subseteq {down[c][k] : k \in DOMAIN down[c]} \cap Nat
      BY <3>2, SentFacts
    <3> QED BY <1>10, <2>0, <2>1, <3>3 DEF Downwards
  <2>3. CASE ~(c = d /\ down' = [down EXCEPT ![d] = @ \o new])
    <3>1. down'[c] = down[c]
      BY <1>0, <2>1, <2>3
    <3> QED BY <1>1, <1>10, <2>0, <2>1, <3>1
  <2> QED BY <2>2, <2>3
<1>7. CASE Close
  BY <1>0, <1>1, <1>7 DEF Close, Closing
<1>8. CASE ServerStep
  <2>1. link' = link
    BY <1>8 DEF ServerStep, ServerOnly, clientVars
  <2>2. \/ UNCHANGED <<down, near>>
        \/ \E d \in Conns : \E luck : Handle(d, luck)
        \/ \E d \in Conns : \E alien \in Aliens : \E n, whole : Misread(d, alien, n, whole)
    BY <1>8 DEF ServerStep, ServeForever, ServerClose, DataReceived, HandlerLost, connectionVars
  <2> QED BY <1>1, <1>6, <1>10, <2>1, <2>2
<1>9. \/ UNCHANGED <<down, near, link>> \/ ServerStep \/ Ask \/ Close
      \/ \E d \in Conns : Establish(d) \/ ClientLost(d) \/ Receive(d)
  BY DEF Next, ClientStep, Connect, Wake, Timeout, Refused, AttemptFails, connectionVars,
     clientVars, vars
<1> QED BY <1>1, <1>2, <1>3, <1>4, <1>5, <1>7, <1>8, <1>9

\* What a connection is concerned with after a step.
LEMMA TravelStep ==
  ASSUME BaseInv, [Next]_vars, NEW c \in Conns
  PROVE  \/ /\ Travelling(c)' \subseteq Travelling(c)
            /\ \/ near'[c] = "lost"
               \/ link'[c].tid = link[c].tid /\ near[c] # "lost"
         \/ Travelling(c)' = {}
         \/ /\ Ask /\ c = client.protocol /\ near[c] # "lost"
            /\ Travelling(c)' \subseteq Travelling(c) \cup {Len(request) + 1}
            /\ link'[c].tid = NextTid(link[c].tid)
<1>1. Travelling(c) = Upwards(c) \cup Downwards(c) /\ Travelling(c)' = Upwards(c)' \cup Downwards(c)'
  BY DEF Travelling, Upwards, Downwards
<1>2. CASE Establish(c)
  <2>1. /\ up' = [up EXCEPT ![c] = <<>>]
        /\ handler' = [handler EXCEPT ![c] = [NoHandler EXCEPT !.task = "running"]]
        /\ down' = [down EXCEPT ![c] = <<>>] 
        /\ link' = [link EXCEPT ![c] = NewLink(scenario.tid)]
    BY <1>2 DEF Establish, Open, Accept, Made
  <2>2. up'[c] = <<>> /\ handler'[c].queue = <<>> /\ handler'[c].buffer = <<>>
    BY <2>1, HandlerFacts, NoHandlerFacts
  <2>3. down'[c] = <<>> /\ link'[c].pending = {}
    BY <2>1 DEF BaseInv, LineType, NewLink
  <2> QED BY <2>2, <2>3, EmptyIds DEF Travelling
<1>3. CASE Ask /\ c = client.protocol
  <2> DEFINE i == Len(request) + 1
  <2>1. near[c] # "lost" /\ down' = down
        /\ link' = [link EXCEPT ![c].tid = NextTid(@), ![c].pending = Added(@, i)]
    BY <1>3 DEF Ask, Execute
  <2>2. link'[c].tid = NextTid(link[c].tid) /\ link'[c].pending = link[c].pending \cup {i}
    BY <2>1 DEF BaseInv, LineType, Link, Added
  <2> HIDE DEF i
  <2>3. Downwards(c)' \subseteq Downwards(c) \cup {i}
    BY <2>1, <2>2 DEF Downwards
  <2>4. Upwards(c)' \subseteq Upwards(c) \cup {i}
    BY UpwardsStep DEF i
  <2> QED BY <1>1, <1>3, <2>1, <2>2, <2>3, <2>4 DEF i
<1>4. CASE ~(Ask /\ c = client.protocol) /\ ~Establish(c)
  BY <1>1, <1>4, UpwardsStep, DownwardsStep
<1> QED BY <1>2, <1>3, <1>4

\* Every step keeps to each connection what was sent on it.
LEMMA CarriedStep ==
  ASSUME BaseInv, [Next]_vars
  PROVE  CarriedInv'
<1> SUFFICES ASSUME NEW c \in Conns, NEW i \in Travelling(c)'
             PROVE  i \in Requests' /\ request'[i].conn = c
  BY DEF CarriedInv
<1>1. CASE i \in Travelling(c)
  <2>1. i \in Requests /\ request[i].conn = c
    BY <1>1 DEF BaseInv, CarriedInv
  <2> QED BY <2>1, KeptStep DEF Kept
<1>2. CASE i \notin Travelling(c)
  <2>1. Ask /\ c = client.protocol /\ i = Len(request) + 1
    BY <1>2, TravelStep
  <2>2. /\ request'[i].conn = c /\ Len(request') = i
        /\ request' \in Seq(Request)
    BY <2>1, AskFacts, KeptStep DEF Kept
  <2>3. i \in Nat
    BY <2>1, RequestFacts DEF BaseInv, RequestType
  <2>4. i \in Requests'
    <3>1. i # 0
      BY <2>1, RequestFacts DEF BaseInv, RequestType
    <3>2. Requests' = 1 .. Len(request')
      BY <2>2 DEF Requests
    <3> QED BY <2>2, <2>3, <3>1, <3>2
  <2> QED BY <2>2, <2>4
<1> QED BY <1>1, <1>2

\* The requests that a connection which is not lost is concerned with are few
\* enough, and recent enough, to have different ids.
Behind(i, c) ==
  \E d \in 0 .. Len(request) - i :
    link[c].tid \in {request[i].tid + d, request[i].tid + d - TidModulus}
IdsInv ==
  \A c \in Conns : near[c] # "lost" =>
    /\ \A i \in Travelling(c) : Behind(i, c)
    /\ \A i, j \in Travelling(c) : i # j => request[i].tid # request[j].tid

\* The next id is that of none of them.
LEMMA NextTidIsNew ==
  ASSUME NEW m \in Nat \ {0}, NEW tid \in 0 .. m - 1, NEW last \in 0 .. m - 1,
         NEW d \in Nat, d + 1 < m, last \in {tid + d, tid + d - m}
  PROVE  LET next == (last + 1) % m
         IN /\ next # tid
            /\ next \in {tid + (d + 1), tid + (d + 1) - m}
<1>1. CASE last + 1 < m
  <2>1. (last + 1) % m = last + 1
    BY <1>1
  <2> QED BY <2>1
<1>2. CASE last + 1 = m
  <2>1. (last + 1) % m = 0
    BY <1>2
  <2> QED BY <1>2, <2>1
<1> QED BY <1>1, <1>2

\* Every step keeps the ids of a connection apart.
LEMMA IdsStep ==
  ASSUME BaseInv, IdsInv, [Next]_vars
  PROVE  IdsInv'
<1> SUFFICES ASSUME NEW c \in Conns, near'[c] # "lost"
             PROVE  /\ \A i \in Travelling(c)' : Behind(i, c)'
                    /\ \A i, j \in Travelling(c)' : i # j => request'[i].tid # request'[j].tid
  BY DEF IdsInv
<1>0. /\ request \in Seq(Request) /\ Requests = 1 .. Len(request) /\ Len(request) \in Nat
      /\ request' \in Seq(Request) /\ Requests \subseteq Requests'
      /\ Requests' = 1 .. Len(request') /\ Len(request') \in Nat
      /\ \A i \in Requests : request'[i].tid = request[i].tid
      /\ \A i \in Requests : request[i].tid \in 0 .. TidModulus - 1
      /\ link[c].tid \in 0 .. TidModulus - 1
  <2>1. request \in Seq(Request) /\ request' \in Seq(Request) /\ Kept
    BY KeptStep DEF BaseInv, RequestType, Kept
  <2>2. link[c].tid \in 0 .. TidModulus - 1
    BY DEF BaseInv, LineType, Link
  <2>3. Requests' = 1 .. Len(request') /\ Len(request') \in Nat
    BY <2>1 DEF Requests
  <2> QED BY <2>1, <2>2, <2>3, RequestFacts DEF Kept
<1>1. \A i \in Travelling(c) : i \in Requests
  BY DEF BaseInv, CarriedInv
<1>2. Len(request) <= Len(request')
  <2>1. Len(request) = 0 \/ Len(request) \in 1 .. Len(request')
    BY <1>0
  <2> QED BY <1>0, <2>1
<1>3. CASE /\ Travelling(c)' \subseteq Travelling(c)
           /\ link'[c].tid = link[c].tid /\ near[c] # "lost"
  <2>1. ASSUME NEW i \in Travelling(c)' PROVE Behind(i, c)'
    <3>1. i \in Requests /\ Behind(i, c)
      BY <1>1, <1>3, <2>1 DEF IdsInv
    <3>2. PICK d \in 0 .. Len(request) - i :
            link[c].tid \in {request[i].tid + d, request[i].tid + d - TidModulus}
      BY <3>1 DEF Behind
    <3>3. d \in 0 .. Len(request') - i
      BY <1>0, <1>2, <3>1
    <3> QED BY <1>0, <1>3, <3>1, <3>2, <3>3 DEF Behind
  <2>2. \A i, j \in Travelling(c)' : i # j => request'[i].tid # request'[j].tid
    BY <1>0, <1>1, <1>3 DEF IdsInv
  <2> QED BY <2>1, <2>2
<1>4. CASE Travelling(c)' = {}
  BY <1>4
<1>5. CASE /\ Ask /\ c = client.protocol /\ near[c] # "lost"
           /\ Travelling(c)' \subseteq Travelling(c) \cup {Len(request) + 1}
           /\ link'[c].tid = NextTid(link[c].tid)
  <2>0. PICK n \in Nat \ {0} : n = Len(request) + 1
    BY <1>0
  <2>1. /\ Len(request') = n /\ request'[n].tid = NextTid(link[c].tid)
        /\ n <= Len(scenario.asks)
    BY <1>5, <2>0, AskFacts
  <2>2. n <= TidModulus
    <3>1. Len(scenario.asks) <= TidModulus /\ Len(scenario.asks) \in Nat
      BY ScenariosAssumption DEF BaseInv, RequestType
    <3> QED BY <1>0, <2>1, <3>1, TidAssumption
  <2>3. ASSUME NEW i \in Travelling(c)
        PROVE  i \in Requests /\ Behind(i, c)' /\ request[i].tid # request'[n].tid
    <3>1. i \in Requests /\ Behind(i, c)
      BY <1>1, <1>5, <2>3 DEF IdsInv
    <3>2. PICK d \in 0 .. Len(request) - i :
            link[c].tid \in {request[i].tid + d, request[i].tid + d - TidModulus}
      BY <3>1 DEF Behind
    <3>3. d \in Nat /\ d + 1 < TidModulus
      BY <1>0, <2>0, <2>2, <3>1, TidAssumption
    <3> DEFINE next == (link[c].tid + 1) % TidModulus
    <3>4. /\ next # request[i].tid
          /\ next \in {request[i].tid + (d + 1), request[i].tid + (d + 1) - TidModulus}
      BY <1>0, <3>1, <3>2, <3>3, TidAssumption, NextTidIsNew
    <3> HIDE DEF next
    <3>5. link'[c].tid = next /\ request'[n].tid = next
      BY <1>5, <2>1 DEF NextTid, next
    <3>6. d + 1 \in 0 .. Len(request') - i
      BY <1>0, <2>0, <2>1, <3>1
    <3>7. Behind(i, c)'
      <4>1. request'[i].tid = request[i].tid /\ request[i].tid \in Nat
        BY <1>0, <3>1
      <4>2. link'[c].tid \in {request'[i].tid + (d + 1), request'[i].tid + (d + 1) - TidModulus}
        BY <3>4, <3>5, <4>1
      <4> QED BY <3>6, <4>2 DEF Behind
    <3> QED BY <3>1, <3>4, <3>5, <3>7
  <2>4. Behind(n, c)'
    <3>1. 0 \in 0 .. Len(request') - n /\ link'[c].tid = request'[n].tid
      BY <1>0, <1>5, <2>0, <2>1
    <3>2. request'[n].tid \in Int
      <4>1. n \in Requests'
        BY <1>0, <2>0, <2>1
      <4>2. request'[n] \in Request
        BY <1>0, <4>1
      <4> QED BY <4>2 DEF Request
    <3>3. link'[c].tid \in {request'[n].tid + 0, request'[n].tid + 0 - TidModulus}
      BY <3>1, <3>2
    <3> QED BY <3>1, <3>3 DEF Behind
  <2>5. ASSUME NEW i \in Travelling(c)' PROVE Behind(i, c)'
    BY <1>5, <2>0, <2>3, <2>4, <2>5
  <2>6. ASSUME NEW i \in Travelling(c)', NEW j \in Travelling(c)', i # j
        PROVE  request'[i].tid # request'[j].tid
    <3>1. \A k \in Travelling(c) : request'[k].tid = request[k].tid
      BY <1>0, <1>1
    <3>2. CASE i \in Travelling(c) /\ j \in Travelling(c)
      BY <1>5, <2>6, <3>1, <3>2 DEF IdsInv
    <3>3. CASE i = n \/ j = n
      BY <1>5, <2>0, <2>3, <2>6, <3>1, <3>3
    <3> QED BY <1>5, <2>0, <2>6, <3>2, <3>3
  <2> QED BY <2>5, <2>6
<1> QED BY <1>3, <1>4, <1>5, TravelStep

\* What a request becomes that is settled.
LEMMA SettledState ==
  ASSUME request \in Seq(Request), NEW i \in Requests, NEW state \in States,
         NEW by \in Answer \cup {None}, NEW j \in Requests
  PROVE  \/ /\ Settled(i, state, by)[j] = request[j]
            /\ j = i => request[j].state \notin {"waiting", "broadcast"}
         \/ /\ j = i
            /\ Settled(i, state, by)[j].state = state /\ Settled(i, state, by)[j].by = by
<1>1. CASE j # i
  <2>1. Settled(i, state, by)[j] = request[j]
    BY <1>1, SettledFacts
  <2> QED BY <1>1, <2>1
<1>2. CASE j = i
  <2>1. request[i] \in Request
    BY RequestFacts
  <2>2. /\ [request[i] EXCEPT !.state = state, !.by = by].state = state
        /\ [request[i] EXCEPT !.state = state, !.by = by].by = by
    BY <2>1 DEF Request
  <2> DEFINE new == [request[i] EXCEPT !.state = state, !.by = by]
  <2>3. \/ request[i].state \in {"waiting", "broadcast"} /\ Settled(i, state, by)[i] = new
        \/ request[i].state \notin {"waiting", "broadcast"} /\ Settled(i, state, by)[i] = request[i]
    BY SettledFacts
  <2> HIDE DEF new
  <2>4. new.state = state /\ new.by = by
    BY <2>2 DEF new
  <2> QED BY <1>2, <2>3, <2>4
<1> QED BY <1>1, <1>2

\* A request that is settled does not wait.
LEMMA SettledWaiting ==
  ASSUME request \in Seq(Request), NEW i \in Requests, NEW state \in States \ {"waiting"},
         NEW by \in Answer \cup {None}
  PROVE  Settled(i, state, by)[i].state # "waiting"
BY SettledState

\* A request stays as it is, or takes the new state.
LEMMA SettledOther ==
  ASSUME request \in Seq(Request), NEW i \in Requests, NEW state \in States,
         NEW by \in Answer \cup {None}, NEW j \in Requests
  PROVE  \/ /\ Settled(i, state, by)[j].state = request[j].state
            /\ Settled(i, state, by)[j].by = request[j].by
         \/ Settled(i, state, by)[j].state = state
BY SettledState

\* What a step may do to the requests: it makes one, an answer settles one, one
\* times out, those of a lost connection fail.
LEMMA RequestStep ==
  ASSUME BaseInv, [Next]_vars
  PROVE  \/ request' = request
         \/ Ask
         \/ /\ Requests' = Requests
            /\ \/ \E c \in Conns : \E answer \in Answer, found \in link[c].pending :
                    /\ near[c] = "open" /\ found \in Travelling(c)
                    /\ answer \in Aliens \/ (answer \in Requests /\ answer \in Travelling(c))
                    /\ \E k \in DOMAIN down[c] : answer = down[c][k]
                    /\ Sent(answer).tid # 0 => request[found].tid = Sent(answer).tid
                    /\ request' = Settled(found, "answered", answer)
                    /\ link' = [link EXCEPT ![c].pending = Without(@, found)]
                    /\ near' = near
               \/ \E i \in Requests : Timeout(i) /\ request' = Settled(i, "timeout", None)
               \/ \E c \in Conns :
                    /\ ClientLost(c)
                    /\ \A i \in Requests :
                         IF i \in link[c].pending \ FailsAll(link[c].pending).left
                           THEN request'[i] = Settled(i, "failed", None)[i]
                           ELSE request'[i] = request[i]
<1>0. request \in Seq(Request) /\ Requests = 1 .. Len(request) /\ Requests \subseteq Nat
  BY RequestFacts DEF BaseInv, RequestType
<1>1. ASSUME request' \in Seq(Request), Len(request') = Len(request) PROVE Requests' = Requests
  BY <1>0, <1>1 DEF Requests
<1>2. ASSUME NEW i \in Requests, NEW state \in States, NEW by \in Answer \cup {None},
             request' = Settled(i, state, by)
      PROVE  Requests' = Requests
  BY <1>0, <1>1, <1>2, SettledFacts, ZenonT(40)
<1>3. "answered" \in States /\ "timeout" \in States /\ None \in Answer \cup {None}
  BY DEF States
<1>4. ASSUME NEW c \in Conns, Receive(c)
      PROVE  \/ request' = request
             \/ Requests' = Requests
                /\ \E answer \in Answer, found \in link[c].pending :
                     /\ near[c] = "open" /\ found \in Travelling(c)
                     /\ answer \in Aliens \/ (answer \in Requests /\ answer \in Travelling(c))
                     /\ \E k \in DOMAIN down[c] : answer = down[c][k]
                     /\ Sent(answer).tid # 0 => request[found].tid = Sent(answer).tid
                     /\ request' = Settled(found, "answered", answer)
                     /\ link' = [link EXCEPT ![c].pending = Without(@, found)]
                     /\ near' = near
  <2>1. PICK answer \in Answer, found \in link[c].pending \cup {None} :
           /\ near[c] = "open"
           /\ answer \in Aliens \/ (answer \in Requests /\ answer \in Travelling(c))
           /\ \E k \in DOMAIN down[c] : answer = down[c][k]
           /\ request' = IF found = None THEN request ELSE Settled(found, "answered", answer)
           /\ link' = [link EXCEPT ![c].pending = Without(@, found)]
           /\ Sent(answer).tid # 0 /\ found # None
                => request[found].tid = Sent(answer).tid
    BY <1>4, ReceiveFacts
  <2>2. CASE found = None
    BY <2>1, <2>2
  <2>3. CASE found # None
    <3>1. found \in link[c].pending /\ found \in Requests
      BY <2>3, CarriedFacts
    <3>2. found \in Travelling(c)
      BY <2>1, <3>1 DEF Travelling
    <3>3. Requests' = Requests
      BY <1>0, <1>2, <1>3, <2>1, <2>3, <3>1
    <3>4. near' = near
      BY <1>4 DEF Receive
    <3> QED BY <2>1, <2>3, <3>1, <3>2, <3>3, <3>4
  <2> QED BY <2>2, <2>3
<1>5. ASSUME NEW i \in Requests, Timeout(i)
      PROVE  Requests' = Requests /\ request' = Settled(i, "timeout", None)
  BY <1>2, <1>3, <1>5 DEF Timeout
<1>6. ASSUME NEW c \in Conns, ClientLost(c)
      PROVE  /\ Requests' = Requests
             /\ \A i \in Requests :
                  IF i \in link[c].pending \ FailsAll(link[c].pending).left
                    THEN request'[i] = Settled(i, "failed", None)[i]
                    ELSE request'[i] = request[i]
  <2>1. Lost(c)
    BY <1>6 DEF ClientLost
  <2> QED BY <1>1, <2>1, LostFacts DEF Kept
<1>7. \/ request' = request \/ Ask
      \/ \E c \in Conns : Receive(c) \/ ClientLost(c)
      \/ \E i \in Requests : Timeout(i)
  BY ServerLeaves DEF Next, ClientStep, Connect, Wake, Close, Refused, AttemptFails, Establish,
     connectionVars, vars
<1> QED BY <1>4, <1>5, <1>6, <1>7

\* What a request was sent with, or is taken to be sent with, stays.
LEMMA ZeroFacts ==
  ASSUME BaseInv, [Next]_vars
  PROVE  /\ Requests \subseteq Requests' /\ Requests' \subseteq Nat
         /\ \A j \in Requests : TidZero(j) <=> request[j].tid = 0
         /\ \A j \in Requests' : TidZero(j)' <=> request'[j].tid = 0
         /\ \A j \in Requests \cup Aliens : TidZero(j)' <=> TidZero(j)
<1>1. /\ Requests \subseteq Requests' /\ Requests \subseteq Nat /\ request' \in Seq(Request)
      /\ \A j \in Requests : request'[j].tid = request[j].tid
  BY KeptStep, RequestFacts DEF Kept, BaseInv, RequestType
<1>2. Requests' \subseteq Nat
  BY <1>1 DEF Requests
<1>3. /\ \A j \in Nat : Sent(j) = request[j] /\ Sent(j)' = request'[j]
      /\ \A j \in Aliens : Sent(j)' = Sent(j)
  BY SentFacts DEF Sent
<1> QED BY <1>1, <1>2, <1>3 DEF TidZero

\* A sequence joined to another adds what is in it.
LEMMA JoinedFacts ==
  ASSUME NEW S, NEW s \in Seq(S), NEW t \in Seq(S), NEW k \in DOMAIN (s \o t)
  PROVE  (\E j \in DOMAIN s : (s \o t)[k] = s[j]) \/ (\E j \in DOMAIN t : (s \o t)[k] = t[j])
<1>1. /\ s \o t \in Seq(S) /\ Len(s \o t) = Len(s) + Len(t)
      /\ \A i \in 1 .. Len(s) + Len(t) :
           (s \o t)[i] = IF i <= Len(s) THEN s[i] ELSE t[i - Len(s)]
  BY ConcatProperties
<1>2. /\ DOMAIN s = 1 .. Len(s) /\ DOMAIN t = 1 .. Len(t) /\ Len(s) \in Nat /\ Len(t) \in Nat
      /\ k \in 1 .. Len(s) + Len(t)
  BY <1>1
<1> QED BY <1>1, <1>2

\* The answers of a round are to requests.
LEMMA RunAnswers ==
  ASSUME BaseInv, NEW run \in Seq(Requests)
  PROVE  /\ Answers(run) \in Seq(Answer)
         /\ \A k \in DOMAIN Answers(run) : /\ Answers(run)[k] \in {run[j] : j \in DOMAIN run}
                                           /\ Answered(Answers(run)[k])
<1> DEFINE G == {i \in {run[j] : j \in DOMAIN run} : Answered(i)}
           answers == Answers(run)
<1>1. Requests \subseteq Nat /\ Requests \subseteq Int
  BY RequestFacts DEF BaseInv, RequestType
<1>2. run \in Seq(Int) /\ run \in Seq(Nat)
  BY <1>1, SeqMonotonic
<1>3. answers \in Seq(G)
  BY <1>2, AnswersFacts
<1>4. G \subseteq Answer
  BY <1>2 DEF Answer
<1>5. \A i \in G : i \in {run[j] : j \in DOMAIN run} /\ Answered(i)
  OBVIOUS
<1> HIDE DEF G, answers
<1>6. answers \in Seq(Answer) /\ \A k \in DOMAIN answers : answers[k] \in G
  BY <1>3, <1>4, SeqMonotonic
<1> QED BY <1>5, <1>6 DEF answers

\* What is on the way back after a step: what was, and answers of a handler.
LEMMA DownStep ==
  ASSUME BaseInv, [Next]_vars, NEW c \in Conns
  PROVE  \/ \E luck : Handle(c, luck)
         \/ \E alien \in Aliens : \E n, whole : Misread(c, alien, n, whole)
         \/ \A k \in DOMAIN down'[c] : \E j \in DOMAIN down[c] : down'[c][k] = down[c][j]
<1>0. down \in [Conns -> Seq(Answer)]
  BY DEF BaseInv, LineType
<1>1. ASSUME down'[c] \in {down[c], <<>>}
      PROVE  \A k \in DOMAIN down'[c] : \E j \in DOMAIN down[c] : down'[c][k] = down[c][j]
  BY <1>1
<1>2. ASSUME NEW d \in Conns, Receive(d)
      PROVE  \A k \in DOMAIN down'[c] : \E j \in DOMAIN down[c] : down'[c][k] = down[c][j]
  <2>1. down[d] # <<>> /\ down' = [down EXCEPT ![d] = Tail(@)]
    BY <1>2 DEF Receive
  <2>2. CASE c = d
    <3>1. down'[c] = Tail(down[c]) /\ down[c] \in Seq(Answer) /\ down[c] # <<>>
      BY <1>0, <2>1, <2>2
    <3>2. \A k \in DOMAIN down'[c] : k + 1 \in DOMAIN down[c] /\ down'[c][k] = down[c][k + 1]
      BY <3>1, HeadTailProperties
    <3> QED BY <3>2
  <2>3. CASE c # d
    BY <1>0, <1>1, <2>1, <2>3
  <2> QED BY <2>2, <2>3
<1>3. ASSUME NEW d \in Conns, NEW luck, Handle(d, luck), d # c PROVE down'[c] = down[c]
  <2>1. PICK run : down' \in {down, [down EXCEPT ![d] = @ \o Answers(run)]}
    BY <1>3, HandleFacts
  <2> QED BY <1>0, <1>3, <2>1
<1>6. ASSUME NEW d \in Conns, NEW alien \in Aliens, NEW n, NEW whole,
             Misread(d, alien, n, whole), d # c
      PROVE  down'[c] = down[c]
  <2>1. PICK new : down' = down \/ down' = [down EXCEPT ![d] = @ \o new]
    BY <1>6, MisreadFacts
  <2> QED BY <1>0, <1>6, <2>1
<1>4. ASSUME NEW d \in Conns, Establish(d) \/ ClientLost(d) PROVE down'[c] \in {down[c], <<>>}
  <2>1. down' = [down EXCEPT ![d] = <<>>]
    BY <1>4 DEF Establish, Open, ClientLost, Lost
  <2> QED BY <1>0, <2>1
<1>5. \/ down' = down
      \/ \E d \in Conns : \/ Establish(d) \/ ClientLost(d) \/ Receive(d)
                          \/ \E luck : Handle(d, luck)
                          \/ \E alien \in Aliens : \E n, whole : Misread(d, alien, n, whole)
  BY DEF Next, ClientStep, ServerStep, Connect, Wake, Close, Timeout, Refused, AttemptFails, Ask,
     Execute, ServeForever, ServerClose, DataReceived, HandlerLost, connectionVars, clientVars, vars
<1> QED BY <1>1, <1>2, <1>3, <1>4, <1>5, <1>6

\* Where bytes of a request were read as another.
Strayed(c) == \E j \in misread : request[j].conn = c
StrayInv ==
  /\ misread \subseteq Requests
  /\ \A c \in Conns : (\E k \in DOMAIN down[c] : down[c][k] \in Aliens) => Strayed(c)

\* Only a request that is misread adds to those that were.
LEMMA MisreadStep ==
  ASSUME BaseInv, [Next]_vars
  PROVE  \/ misread' = misread
         \/ \E c \in Conns, alien \in Aliens : \E n, whole : Misread(c, alien, n, whole)
BY DEF Next, ClientStep, ServerStep, ClientOnly, ClientLost, Establish, Refused, Ask,
   serverVars, vars, ServeForever, ServerClose, DataReceived, Handle, HandlerLost

\* What is misread was sent, on the connection it was read from.
LEMMA MisreadMade ==
  ASSUME BaseInv, NEW c \in Conns, NEW alien \in Aliens, NEW n, NEW whole,
         Misread(c, alien, n, whole)
  PROVE  /\ misread \subseteq misread'
         /\ \A i \in misread' \ misread : i \in Requests /\ request[i].conn = c
         /\ \E i \in misread' : i \in Requests /\ request[i].conn = c
<1>1. /\ Buffered(c) \in Seq(Piece) /\ n \in 1 .. Len(Buffered(c)) /\ 1 \in DOMAIN handler[c].queue
      /\ Ids(Buffered(c)) \subseteq Ids(handler[c].buffer) \cup Ids(handler[c].queue[1])
      /\ misread' = misread \cup {Buffered(c)[k].id : k \in 1 .. n}
      /\ \A k \in 1 .. n : Buffered(c)[k].id \in Ids(Buffered(c)) \cap Nat
  BY MisreadFacts
<1>2. Ids(Buffered(c)) \subseteq Travelling(c)
  BY <1>1 DEF Travelling
<1>3. \A k \in 1 .. n : Buffered(c)[k].id \in Requests /\ request[Buffered(c)[k].id].conn = c
  BY <1>1, <1>2 DEF BaseInv, CarriedInv
<1>4. 1 \in 1 .. n
  BY <1>1
<1> QED BY <1>1, <1>3, <1>4

\* Every step keeps the answers to what nobody sent where bytes were misread.
LEMMA StrayStep ==
  ASSUME BaseInv, StrayInv, [Next]_vars
  PROVE  /\ misread \subseteq misread' /\ StrayInv'
         /\ \A c \in Conns : Strayed(c) => Strayed(c)'
<1>1. \A i \in Requests : i \in Requests' /\ request'[i].conn = request[i].conn
  BY KeptStep DEF Kept
<1>2. misread \subseteq misread' /\ misread' \subseteq Requests
  BY MisreadStep, MisreadMade DEF StrayInv
<1>3. \A c \in Conns : Strayed(c) => Strayed(c)'
  BY <1>1, <1>2 DEF Strayed
<1>4. ASSUME NEW c \in Conns, NEW alien \in Aliens, NEW n, NEW whole, Misread(c, alien, n, whole)
      PROVE  Strayed(c)'
  BY <1>1, <1>4, MisreadMade DEF Strayed
<1>5. ASSUME NEW c \in Conns, NEW k \in DOMAIN down'[c], down'[c][k] \in Aliens,
             NEW luck, Handle(c, luck)
      PROVE  \E j \in DOMAIN down[c] : down'[c][k] = down[c][j]
  <2>1. PICK run \in Seq(Requests) : down' \in {down, [down EXCEPT ![c] = @ \o Answers(run)]}
    BY <1>5, HandleFacts
  <2>2. CASE down' = down
    BY <1>5, <2>2
  <2>3. CASE down' = [down EXCEPT ![c] = @ \o Answers(run)]
    <3>1. /\ down'[c] = down[c] \o Answers(run) /\ down[c] \in Seq(Answer)
          /\ Answers(run) \in Seq(Answer)
      BY <2>3, HandlerFacts, RunAnswers
    <3>2. \A j \in DOMAIN Answers(run) : Answers(run)[j] \in Nat
      <4>1. Requests \subseteq Nat /\ \A j \in DOMAIN run : run[j] \in Requests
        BY RequestFacts DEF BaseInv, RequestType
      <4> QED BY <4>1, RunAnswers
    <3> QED BY <1>5, <3>1, <3>2, JoinedFacts, SentFacts
  <2> QED BY <2>1, <2>2, <2>3
<1>6. ASSUME NEW c \in Conns, NEW k \in DOMAIN down'[c], down'[c][k] \in Aliens PROVE Strayed(c)'
  <2>1. ASSUME NEW j \in DOMAIN down[c], down'[c][k] = down[c][j] PROVE Strayed(c)'
    BY <1>3, <1>6, <2>1 DEF StrayInv
  <2> QED BY <1>4, <1>5, <1>6, <2>1, DownStep
<1>7. misread' \subseteq Requests'
  BY <1>1, <1>2
<1> QED BY <1>2, <1>3, <1>6, <1>7 DEF StrayInv

\* A request was answered by a request of its own id or with id 0, or by one that
\* nobody sent.
AnsweredInv ==
  \A i \in Requests : request[i].state = "answered" =>
    /\ request[i].by \in Requests \cup Aliens
    /\ \/ request[i].by = i \/ TidZero(request[i].by)
       \/ request[i].by \in Aliens /\ Strayed(request[i].conn)

\* Every step keeps the answers with their requests.
LEMMA AnsweredStep ==
  ASSUME BaseInv, IdsInv, StrayInv, AnsweredInv, [Next]_vars
  PROVE  AnsweredInv'
<1>0. request \in Seq(Request) /\ Requests = 1 .. Len(request) /\ Requests \subseteq Nat
      /\ Len(request) \in Nat /\ \A i \in Requests : request[i].conn \in Conns
  BY RequestFacts DEF BaseInv, RequestType
<1>1. Kept /\ "answered" \in States /\ "timeout" \in States /\ "failed" \in States
      /\ None \in Answer \cup {None}
  BY KeptStep DEF States
<1> DEFINE Own(i) == request'[i].state = "answered" =>
                       /\ request'[i].by \in Requests \cup Aliens
                       /\ \/ request'[i].by = i \/ TidZero(request'[i].by)
                          \/ request'[i].by \in Aliens /\ Strayed(request[i].conn)
<1>2. ASSUME NEW i \in Requests, request'[i].state = request[i].state, request'[i].by = request[i].by
      PROVE  Own(i)
  BY <1>2 DEF AnsweredInv
<1>3. ASSUME NEW i \in Requests, request'[i].state # "answered"
      PROVE  Own(i)
  BY <1>3
<1> HIDE DEF Own
<1>10. ASSUME NEW i \in Requests, Own(i), request'[i].state = "answered"
       PROVE  /\ request'[i].by \in Requests' \cup Aliens
              /\ \/ request'[i].by = i
                 \/ (IF request'[i].by < 0 THEN Misreads[-request'[i].by]
                     ELSE request'[request'[i].by]).tid = 0
                 \/ /\ request'[i].by \in Aliens
                    /\ \E j \in misread' : request'[j].conn = request'[i].conn
  <2>1. PICK by \in Requests \cup Aliens :
          /\ by = request'[i].by
          /\ by = i \/ TidZero(by) \/ (by \in Aliens /\ Strayed(request[i].conn))
    BY <1>10 DEF Own
  <2>2. request'[i].conn = request[i].conn /\ Requests \subseteq Requests'
    BY <1>1 DEF Kept
  <2>3. Strayed(request[i].conn) => \E j \in misread' : request'[j].conn = request[i].conn
    <3>1. \A j \in misread : j \in misread' /\ request'[j].conn = request[j].conn
      BY <1>1, StrayStep DEF Kept, StrayInv
    <3> QED BY <3>1 DEF Strayed
  <2>4. TidZero(by) => (IF by < 0 THEN Misreads[-by] ELSE request'[by]).tid = 0
    BY <2>1, ZeroFacts DEF TidZero, Sent
  <2> QED BY <2>1, <2>2, <2>3, <2>4
<1>4. ASSUME Requests' = Requests, \A i \in Requests : Own(i)
      PROVE  AnsweredInv'
  BY <1>4, <1>10 DEF AnsweredInv, TidZero, Sent, Strayed
<1>5. CASE request' = request
  <2>1. Requests' = Requests
    BY <1>5 DEF Requests
  <2> QED BY <1>2, <1>4, <1>5, <2>1
<1>6. CASE Ask
  <2>1. PICK n \in Nat : n = Len(request) + 1
    BY <1>0
  <2>2. /\ Len(request') = n /\ request'[n].state # "answered"
        /\ \A j \in Requests : request'[j] = request[j]
    BY <1>6, <2>1, AskFacts
  <2>3. Requests' = Requests \cup {n}
    <3>1. Requests' = 1 .. n
      BY <1>1, <2>2 DEF Kept, Requests
    <3> QED BY <1>0, <2>1, <3>1
  <2>4. \A i \in Requests : Own(i)
    BY <1>2, <2>2
  <2>5. \A i \in Requests' : request'[i].state = "answered" => i \in Requests
    BY <2>2, <2>3
  <2> QED BY <1>10, <2>4, <2>5 DEF AnsweredInv, TidZero, Sent, Strayed
<1>7. ASSUME NEW c \in Conns, NEW answer \in Answer, NEW found \in link[c].pending,
             near[c] = "open", found \in Travelling(c),
             answer \in Aliens \/ (answer \in Requests /\ answer \in Travelling(c)),
             \E k \in DOMAIN down[c] : answer = down[c][k],
             Sent(answer).tid # 0 => request[found].tid = Sent(answer).tid,
             request' = Settled(found, "answered", answer), Requests' = Requests
      PROVE  AnsweredInv'
  <2>1. /\ found \in Requests /\ answer \in Answer \cup {None}
        /\ answer \in Requests \cup Aliens
    BY <1>7, CarriedFacts
  <2>2. \/ found = answer \/ TidZero(answer)
        \/ answer \in Aliens /\ Strayed(request[found].conn)
    <3>1. CASE answer \in Aliens
      <4>1. Strayed(c) /\ request[found].conn = c
        BY <1>7, <3>1 DEF StrayInv, BaseInv, CarriedInv
      <4> QED BY <3>1, <4>1
    <3>2. CASE answer \in Requests /\ answer \in Travelling(c)
      <4>1. Sent(answer) = request[answer]
        BY <1>0, <3>2, SentFacts
      <4> QED BY <1>7, <3>2, <4>1 DEF IdsInv, TidZero
    <3> QED BY <1>7, <3>1, <3>2
  <2>3. ASSUME NEW j \in Requests PROVE Own(j)
    <3>1. \/ request'[j].state = request[j].state /\ request'[j].by = request[j].by
          \/ j = found /\ request'[j].state = "answered" /\ request'[j].by = answer
      BY <1>0, <1>1, <1>7, <2>1, SettledState
    <3>2. CASE j = found /\ request'[j].state = "answered" /\ request'[j].by = answer
      BY <2>1, <2>2, <3>2 DEF Own
    <3> QED BY <1>2, <3>1, <3>2
  <2> QED BY <1>4, <1>7, <2>3
<1>8. ASSUME NEW i \in Requests, request' = Settled(i, "timeout", None), Requests' = Requests
      PROVE  AnsweredInv'
  <2>1. ASSUME NEW j \in Requests PROVE Own(j)
    <3>0. request \in Seq(Request) /\ "timeout" \in States /\ None \in Answer \cup {None}
      BY <1>0, <1>1
    <3>1. \/ /\ Settled(i, "timeout", None)[j].state = request[j].state
             /\ Settled(i, "timeout", None)[j].by = request[j].by
          \/ Settled(i, "timeout", None)[j].state = "timeout"
      BY <3>0, SettledOther
    <3> QED BY <1>2, <1>3, <1>8, <3>1
  <2> QED BY <1>4, <1>8, <2>1
<1>9. ASSUME NEW c \in Conns, Requests' = Requests,
             \A i \in Requests :
               IF i \in link[c].pending \ FailsAll(link[c].pending).left
                 THEN request'[i] = Settled(i, "failed", None)[i]
                 ELSE request'[i] = request[i]
      PROVE  AnsweredInv'
  <2>1. ASSUME NEW j \in Requests PROVE Own(j)
    <3>1. \/ request'[j] = request[j]
          \/ request'[j] = Settled(j, "failed", None)[j]
      BY <1>9
    <3>2. \/ request'[j].state = request[j].state /\ request'[j].by = request[j].by
          \/ request'[j].state = "failed"
      <4>1. request \in Seq(Request) /\ "failed" \in States /\ None \in Answer \cup {None}
        BY <1>0, <1>1
      <4>2. \/ /\ Settled(j, "failed", None)[j].state = request[j].state
               /\ Settled(j, "failed", None)[j].by = request[j].by
            \/ Settled(j, "failed", None)[j].state = "failed"
        BY <4>1, SettledOther
      <4> QED BY <3>1, <4>2
    <3> QED BY <1>2, <1>3, <3>2
  <2> QED BY <1>4, <1>9, <2>1
<1> QED BY <1>5, <1>6, <1>7, <1>8, <1>9, RequestStep

\* A waiting request is pending, or its connection is lost and one with id 0
\* was sent on it.
WaitsInv ==
  \A i \in Requests : request[i].state = "waiting" =>
    IF near[request[i].conn] = "lost"
      THEN \E j \in Requests : request[j].conn = request[i].conn /\ TidZero(j)
      ELSE i \in link[request[i].conn].pending

\* Every step keeps what waits among the pending.
LEMMA WaitsStep ==
  ASSUME BaseInv, WaitsInv, [Next]_vars
  PROVE  WaitsInv'
<1>0. request \in Seq(Request) /\ Requests = 1 .. Len(request) /\ Requests \subseteq Nat
      /\ Len(request) \in Nat /\ \A i \in Requests : request[i].conn \in Conns
  BY RequestFacts DEF BaseInv, RequestType
<1>1. Kept /\ "answered" \in States /\ "timeout" \in States /\ "failed" \in States
      /\ None \in Answer \cup {None}
  BY KeptStep DEF States
<1>2. near \in [Conns -> Transport] /\ link \in [Conns -> Link]
  BY DEF BaseInv, LineType
<1>3. ASSUME NEW i \in Requests, request[i].state = "waiting",
             LET c == request[i].conn IN
               \/ near'[c] = near[c] /\ (i \in link[c].pending => i \in link'[c].pending)
               \/ near[c] # "lost" /\ near'[c] # "lost" /\ i \in link'[c].pending
      PROVE  IF near'[request'[i].conn] = "lost"
               THEN \E j \in Requests' : request'[j].conn = request'[i].conn /\ request'[j].tid = 0
               ELSE i \in link'[request'[i].conn].pending
  <2>1. request'[i].conn = request[i].conn
    BY <1>1 DEF Kept
  <2>2. CASE near'[request[i].conn] = "lost"
    <3>1. PICK j \in Requests : request[j].conn = request[i].conn /\ request[j].tid = 0
      BY <1>3, <2>2, ZeroFacts DEF WaitsInv
    <3>2. j \in Requests' /\ request'[j].conn = request[j].conn /\ request'[j].tid = request[j].tid
      BY <1>1 DEF Kept
    <3> QED BY <2>1, <2>2, <3>1, <3>2
  <2>3. CASE near'[request[i].conn] # "lost"
    BY <1>3, <2>1, <2>3 DEF WaitsInv
  <2> QED BY <2>2, <2>3
<1> SUFFICES ASSUME NEW i \in Requests', request'[i].state = "waiting"
             PROVE  IF near'[request'[i].conn] = "lost"
                      THEN \E j \in Requests' : request'[j].conn = request'[i].conn /\ request'[j].tid = 0
                      ELSE i \in link'[request'[i].conn].pending
  BY ZeroFacts DEF WaitsInv
<1> DEFINE c == request[i].conn
<1>4. CASE Ask
  <2>1. /\ client.protocol \in Conns /\ near[client.protocol] # "lost"
        /\ Len(request') = Len(request) + 1 /\ request'[Len(request) + 1].conn = client.protocol
        /\ \A j \in Requests : request'[j] = request[j]
    BY <1>4, AskFacts
  <2>2. /\ link' = [link EXCEPT ![client.protocol].tid = NextTid(@),
                                ![client.protocol].pending = Added(@, Len(request) + 1)]
        /\ near' = near
    BY <1>4 DEF Ask, Execute
  <2>3. \A d \in Conns : link[d].pending \subseteq link'[d].pending
    BY <1>2, <2>1, <2>2 DEF Link, Added
  <2>4. Len(request) + 1 \in link'[client.protocol].pending
    BY <1>2, <2>1, <2>2 DEF Link, Added
  <2>5. Requests' = 1 .. Len(request) + 1
    BY <1>0, <1>1, <2>1 DEF Kept, Requests
  <2>6. CASE i = Len(request) + 1
    BY <2>1, <2>2, <2>4, <2>6
  <2>7. CASE i # Len(request) + 1
    <3>1. i \in Requests /\ request'[i] = request[i]
      BY <1>0, <2>1, <2>5, <2>7
    <3> QED BY <1>0, <1>3, <2>2, <2>3, <3>1
  <2> QED BY <2>6, <2>7
<1>5. ASSUME NEW d \in Conns, NEW answer \in Answer, NEW found \in link[d].pending,
             request' = Settled(found, "answered", answer), Requests' = Requests,
             link' = [link EXCEPT ![d].pending = Without(@, found)], near' = near
      PROVE  /\ i \in Requests /\ request[i].state = "waiting"
             /\ near'[c] = near[c] /\ (i \in link[c].pending => i \in link'[c].pending)
  <2>1. found \in Requests /\ answer \in Answer \cup {None}
    BY <1>0, CarriedFacts
  <2>2. /\ i \in Requests /\ request[i].state = "waiting" /\ i # found
    <3>1. i \in Requests
      BY <1>5
    <3> QED BY <1>0, <1>1, <1>5, <2>1, <3>1, SettledState
  <2>3. c \in Conns
    BY <1>0, <2>2
  <2>4. i \in link[c].pending => i \in link'[c].pending
    BY <1>2, <1>5, <2>2, <2>3 DEF Link, Without
  <2> QED BY <1>5, <2>2, <2>4
<1>6. ASSUME NEW j \in Requests, request' = Settled(j, "timeout", None), Requests' = Requests,
             Timeout(j)
      PROVE  /\ i \in Requests /\ request[i].state = "waiting"
             /\ near'[c] = near[c] /\ (i \in link[c].pending => i \in link'[c].pending)
  <2>1. i \in Requests
    BY <1>6
  <2>2. request[i].state = "waiting"
    <3>0. request \in Seq(Request) /\ "timeout" \in States /\ None \in Answer \cup {None}
      BY <1>0, <1>1
    <3>1. \/ Settled(j, "timeout", None)[i].state = request[i].state
          \/ Settled(j, "timeout", None)[i].state = "timeout"
      BY <2>1, <3>0, SettledOther
    <3> QED BY <1>6, <3>1
  <2> QED BY <1>6, <2>1, <2>2 DEF Timeout, clientVars
<1>7. ASSUME NEW d \in Conns, ClientLost(d), Requests' = Requests,
             \A j \in Requests :
               IF j \in link[d].pending \ FailsAll(link[d].pending).left
                 THEN request'[j] = Settled(j, "failed", None)[j]
                 ELSE request'[j] = request[j]
      PROVE  IF near'[request'[i].conn] = "lost"
               THEN \E j \in Requests' : request'[j].conn = request'[i].conn /\ request'[j].tid = 0
               ELSE i \in link'[request'[i].conn].pending
  <2>1. i \in Requests /\ c \in Conns
    BY <1>0, <1>7
  <2>2. near[d] # "lost" /\ near' = [near EXCEPT ![d] = "lost"]
        /\ link' = [link EXCEPT ![d] = NewLink(0)]
    BY <1>7 DEF ClientLost, Lost
  <2>3. request[i].state = "waiting" /\ i \notin link[d].pending \ FailsAll(link[d].pending).left
    <3>1. CASE i \in link[d].pending \ FailsAll(link[d].pending).left
      <4>1. request'[i] = Settled(i, "failed", None)[i]
        BY <1>7, <2>1, <3>1
      <4>2. "failed" \in States \ {"waiting"}
        BY DEF States
      <4> QED BY <1>0, <1>1, <2>1, <4>1, <4>2, SettledWaiting
    <3>2. CASE i \notin link[d].pending \ FailsAll(link[d].pending).left
      BY <1>7, <2>1, <3>2
    <3> QED BY <3>1, <3>2
  <2>4. CASE c = d
    <3>1. i \in link[d].pending
      BY <2>1, <2>2, <2>3, <2>4 DEF WaitsInv
    <3>2. TidZero(i)
      <4>1. link[d].pending \in SUBSET Nat
        BY <1>2 DEF Link
      <4> QED BY <2>3, <3>1, <4>1, FailsFacts
    <3>3. request'[i].tid = 0
      BY <1>1, <2>1, <3>2, ZeroFacts DEF Kept
    <3> QED BY <1>1, <1>2, <2>1, <2>2, <2>4, <3>3 DEF Kept
  <2>5. CASE c # d
    <3>1. near'[c] = near[c] /\ link'[c] = link[c]
      BY <1>2, <2>1, <2>2, <2>5
    <3> QED BY <1>3, <2>1, <2>3, <3>1
  <2> QED BY <2>4, <2>5
<1>8. CASE request' = request
  <2>1. i \in Requests /\ request[i].state = "waiting" /\ c \in Conns
    <3>1. i \in Requests
      BY <1>8 DEF Requests
    <3> QED BY <1>0, <1>8, <3>1
  <2>2. ASSUME NEW d \in Conns, Establish(d) PROVE near'[c] = near[c] /\ link'[c] = link[c]
    <3>1. c # d
      BY <2>1, <2>2 DEF Establish, Free, Unused
    <3> QED BY <1>2, <2>1, <2>2, <3>1 DEF Establish, Open, Made
  <2>3. CASE Close
    <3>1. link' = link /\ near'[c] \in {near[c], Closing(near[c])}
      BY <2>1, <2>3 DEF Close
    <3>2. near'[c] = near[c] \/ (near[c] # "lost" /\ near'[c] # "lost")
      BY <3>1 DEF Closing
    <3> QED BY <1>3, <2>1, <3>1, <3>2 DEF WaitsInv
  <2>4. ASSUME UNCHANGED <<near, link>> PROVE near'[c] = near[c] /\ link'[c] = link[c]
    BY <2>4
  <2>5. ASSUME NEW d \in Conns, Receive(d) 
        PROVE  near'[c] = near[c] /\ (i \in link[c].pending => i \in link'[c].pending)
    <3>1. PICK answer \in Answer, found \in link[d].pending \cup {None} :
           /\ near[d] = "open"
           /\ request' = IF found = None THEN request ELSE Settled(found, "answered", answer)
           /\ link' = [link EXCEPT ![d].pending = Without(@, found)]
      BY <2>5, ReceiveFacts
    <3>2. near' = near
      BY <2>5 DEF Receive
    <3>3. CASE found = i
      <4>1. found # None /\ answer \in Answer \cup {None}
        BY <1>0, <2>1, <3>3, NoneAssumption
      <4> QED BY <1>0, <1>1, <1>8, <2>1, <3>1, <3>3, <4>1, SettledState
    <3>4. CASE found # i
      BY <1>2, <2>1, <3>1, <3>2, <3>4 DEF Link, Without
    <3> QED BY <3>3, <3>4
  <2>6. ASSUME NEW d \in Conns, ClientLost(d)
        PROVE  IF near'[request'[i].conn] = "lost"
                 THEN \E j \in Requests' : request'[j].conn = request'[i].conn /\ request'[j].tid = 0
                 ELSE i \in link'[request'[i].conn].pending
    BY <1>1, <1>7, <1>8, <2>1, <2>6, LostFacts DEF ClientLost, Requests
  <2>7. \/ UNCHANGED <<near, link>> \/ Close \/ Ask
        \/ \E d \in Conns : Establish(d) \/ Receive(d) \/ ClientLost(d)
    <3>1. ServerStep => UNCHANGED <<near, link>>
      BY ServerLeaves
    <3> QED BY <3>1 DEF Next, ClientStep, Connect, Wake, Refused, AttemptFails, Timeout,
                       connectionVars, clientVars, vars
  <2> QED BY <1>3, <1>4, <2>1, <2>2, <2>3, <2>4, <2>5, <2>6, <2>7
<1> QED BY <1>3, <1>4, <1>5, <1>6, <1>7, <1>8, RequestStep

-----------------------------------------------------------------------------
(* The order of what is sent                                               *)

\* The pieces as they were written: by request, the head before the tail.
Rank(p) == IF p.part = "tail" THEN 2 * p.id + 1 ELSE 2 * p.id
Precedes(s, t) == \A a \in DOMAIN s : \A b \in DOMAIN t : Rank(s[a]) < Rank(t[b])
Ordered(s) == \A a, b \in DOMAIN s : a < b => Rank(s[a]) < Rank(s[b])

\* What the framer holds, then what is queued, then what is under way.
InOrder(buffer, queue, way) ==
  /\ Ordered(buffer) /\ Ordered(way) /\ Precedes(buffer, way)
  /\ \A k \in DOMAIN queue :
       Ordered(queue[k]) /\ Precedes(buffer, queue[k]) /\ Precedes(queue[k], way)
  /\ \A j, k \in DOMAIN queue : j < k => Precedes(queue[j], queue[k])

\* All of it is of some kind of pieces.
Within(P, s) == \A a \in DOMAIN s : s[a] \in P
AllWithin(P, buffer, queue, way) ==
  Within(P, buffer) /\ Within(P, way) /\ \A k \in DOMAIN queue : Within(P, queue[k])

\* Two such kinds: behind a rank, and not the untouched head of one of some requests.
Above(rank) == {p \in Piece : rank < Rank(p)}
Begun(M) == {p \in Piece : p.part = "head" => p.id \notin M}

\* The requests that the first n pieces are of.
Of(pieces, n) == {pieces[k].id : k \in 1 .. n}

\* The rank of a piece.
LEMMA RankFacts ==
  ASSUME NEW p \in Piece
  PROVE  /\ Rank(p) \in Nat /\ 2 * p.id <= Rank(p) /\ Rank(p) <= 2 * p.id + 1 /\ p.id \in Nat
         /\ p.part = "head" => Rank(p) = 2 * p.id
         /\ Bitten(p) \in Piece /\ Rank(Bitten(p)) = Rank(p)
         /\ \A M : Bitten(p) \in Begun(M)
BY DEF Rank, Piece, Bitten, Begun

\* What is all of a kind is all of a wider one.
LEMMA WiderFacts ==
  ASSUME NEW P, NEW Q, NEW buffer, NEW queue, NEW way, AllWithin(P, buffer, queue, way)
  PROVE  /\ P \subseteq Q => AllWithin(Q, buffer, queue, way)
         /\ AllWithin(Q, buffer, queue, way) => AllWithin(P \cap Q, buffer, queue, way)
BY DEF AllWithin, Within

\* No piece of a request is before its head.
LEMMA HeadIsFirst ==
  ASSUME NEW p \in Piece, NEW q \in Piece, p.part = "head", q.id = p.id
  PROVE  Rank(p) <= Rank(q)
BY RankFacts

\* A part of a sequence keeps its order.
LEMMA PartFacts ==
  ASSUME NEW s \in Seq(Piece), NEW m \in Nat \ {0}, NEW n \in 0 .. Len(s)
  PROVE  LET part == SubSeq(s, m, n)
         IN /\ part \in Seq(Piece)
            /\ \A a \in DOMAIN part : m + a - 1 \in DOMAIN s /\ m + a - 1 <= n /\ part[a] = s[m + a - 1]
            /\ Ordered(s) => Ordered(part)
            /\ \A t : Precedes(s, t) => Precedes(part, t)
            /\ \A t : Precedes(t, s) => Precedes(t, part)
            /\ \A P : Within(P, s) => Within(P, part)
<1> DEFINE part == SubSeq(s, m, n)
<1>0. \A i \in m .. n : s[i] \in Piece /\ i \in DOMAIN s
  OBVIOUS
<1>1. /\ part \in Seq(Piece)
      /\ Len(part) = IF m <= n THEN n - m + 1 ELSE 0
      /\ \A i \in 1 .. n - m + 1 : part[i] = s[m + i - 1]
  BY <1>0, SubSeqProperties
<1>2. \A a \in DOMAIN part : a \in Nat /\ m + a - 1 \in DOMAIN s /\ m + a - 1 <= n /\ part[a] = s[m + a - 1]
  BY <1>0, <1>1
<1> HIDE DEF part
<1>3. Ordered(s) => Ordered(part)
  <2> SUFFICES ASSUME Ordered(s), NEW a \in DOMAIN part, NEW b \in DOMAIN part, a < b
               PROVE  Rank(part[a]) < Rank(part[b])
    BY DEF Ordered
  <2>1. m + a - 1 < m + b - 1
    BY <1>2
  <2> QED BY <1>2, <2>1 DEF Ordered
<1>4. \A t : (Precedes(s, t) => Precedes(part, t)) /\ (Precedes(t, s) => Precedes(t, part))
  BY <1>2 DEF Precedes
<1>5. \A P : Within(P, s) => Within(P, part)
  BY <1>2 DEF Within
<1> QED BY <1>1, <1>2, <1>3, <1>4, <1>5 DEF part

\* Two sequences in order, joined.
LEMMA JoinFacts ==
  ASSUME NEW s \in Seq(Piece), NEW t \in Seq(Piece)
  PROVE  /\ s \o t \in Seq(Piece)
         /\ Ordered(s) /\ Ordered(t) /\ Precedes(s, t) => Ordered(s \o t)
         /\ \A u : Precedes(s, u) /\ Precedes(t, u) => Precedes(s \o t, u)
         /\ \A u : Precedes(u, s) /\ Precedes(u, t) => Precedes(u, s \o t)
         /\ \A P : Within(P, s) /\ Within(P, t) => Within(P, s \o t)
<1> DEFINE j == s \o t
<1>1. /\ j \in Seq(Piece) /\ Len(j) = Len(s) + Len(t)
      /\ \A i \in 1 .. Len(s) + Len(t) : j[i] = IF i <= Len(s) THEN s[i] ELSE t[i - Len(s)]
  BY ConcatProperties
<1>2. /\ \A a \in DOMAIN j : /\ a \in Nat
                             /\ \/ a \in DOMAIN s /\ j[a] = s[a]
                                \/ /\ a \notin DOMAIN s
                                   /\ a - Len(s) \in DOMAIN t /\ j[a] = t[a - Len(s)]
      /\ Len(s) \in Nat /\ DOMAIN s = 1 .. Len(s)
  BY <1>1
<1> HIDE DEF j
<1>3. Ordered(s) /\ Ordered(t) /\ Precedes(s, t) => Ordered(j)
  <2> SUFFICES ASSUME Ordered(s), Ordered(t), Precedes(s, t),
                      NEW a \in DOMAIN j, NEW b \in DOMAIN j, a < b
               PROVE  Rank(j[a]) < Rank(j[b])
    BY DEF Ordered
  <2>1. CASE a \in DOMAIN s /\ b \in DOMAIN s
    BY <1>2, <2>1 DEF Ordered
  <2>2. CASE a \in DOMAIN s /\ b \notin DOMAIN s
    BY <1>2, <2>2 DEF Precedes
  <2>3. CASE a \notin DOMAIN s
    <3>1. b \notin DOMAIN s
      BY <1>2, <2>3
    <3>2. a - Len(s) < b - Len(s)
      BY <1>2
    <3> QED BY <1>2, <2>3, <3>1, <3>2 DEF Ordered
  <2> QED BY <2>1, <2>2, <2>3
<1>4. \A u : /\ Precedes(s, u) /\ Precedes(t, u) => Precedes(j, u)
             /\ Precedes(u, s) /\ Precedes(u, t) => Precedes(u, j)
  BY <1>2 DEF Precedes
<1>5. \A P : Within(P, s) /\ Within(P, t) => Within(P, j)
  BY <1>2 DEF Within
<1> QED BY <1>1, <1>3, <1>4, <1>5 DEF j

\* Nothing is in order.
LEMMA NothingInOrder ==
  /\ \A s : Precedes(<<>>, s) /\ Precedes(s, <<>>)
  /\ Ordered(<<>>) /\ InOrder(<<>>, <<>>, <<>>)
  /\ \A P : Within(P, <<>>) /\ AllWithin(P, <<>>, <<>>, <<>>)
BY DEF Precedes, Ordered, InOrder, Within, AllWithin

\* A frame is written behind all that is under way.
LEMMA SendOrder ==
  ASSUME NEW buffer \in Seq(Piece), NEW queue \in Seq(Seq(Piece)), NEW way \in Seq(Piece),
         NEW new \in Nat, InOrder(buffer, queue, way),
         \A i \in Ids(way) \cup Ids(buffer) \cup UNION {Ids(queue[k]) : k \in DOMAIN queue} : i < new
  PROVE  /\ InOrder(buffer, queue, way \o Frame(new))
         /\ \A P : Within(P, Frame(new)) /\ AllWithin(P, buffer, queue, way)
                    => AllWithin(P, buffer, queue, way \o Frame(new))
<1>1. /\ Frame(new) \in Seq(Piece) /\ DOMAIN Frame(new) = {1, 2}
      /\ Rank(Frame(new)[1]) = 2 * new /\ Rank(Frame(new)[2]) = 2 * new + 1
  BY DEF Frame, Piece, Rank
<1>2. ASSUME NEW s \in Seq(Piece), \A i \in Ids(s) : i < new PROVE Precedes(s, Frame(new))
  <2> SUFFICES ASSUME NEW a \in DOMAIN s, NEW b \in DOMAIN Frame(new)
               PROVE  Rank(s[a]) < Rank(Frame(new)[b])
    BY DEF Precedes
  <2>1. s[a] \in Piece /\ s[a].id < new /\ s[a].id \in Nat
    <3>1. s[a] \in Piece
      OBVIOUS
    <3>2. s[a].id \in Ids(s)
      BY DEF Ids
    <3> QED BY <1>2, <3>1, <3>2 DEF Piece
  <2>2. Rank(s[a]) \in Nat /\ Rank(s[a]) <= 2 * s[a].id + 1
    BY <2>1, RankFacts
  <2> QED BY <1>1, <2>1, <2>2
<1>3. /\ Precedes(way, Frame(new)) /\ Precedes(buffer, Frame(new))
      /\ \A k \in DOMAIN queue : Precedes(queue[k], Frame(new))
  <2>1. ASSUME NEW k \in DOMAIN queue PROVE Precedes(queue[k], Frame(new))
    <3>1. queue[k] \in Seq(Piece)
      OBVIOUS
    <3>2. \A i \in Ids(queue[k]) : i < new
      OBVIOUS
    <3> QED BY <1>2, <3>1, <3>2
  <2> QED BY <1>2, <2>1
<1>4. Ordered(Frame(new))
  BY <1>1 DEF Ordered
<1>5. InOrder(buffer, queue, way \o Frame(new))
  <2>1. Ordered(way \o Frame(new)) /\ Precedes(buffer, way \o Frame(new))
    BY <1>1, <1>3, <1>4, JoinFacts DEF InOrder
  <2>2. ASSUME NEW k \in DOMAIN queue PROVE Precedes(queue[k], way \o Frame(new))
    <3>1. Precedes(queue[k], way) /\ Precedes(queue[k], Frame(new))
      BY <1>3 DEF InOrder
    <3> QED BY <1>1, <3>1, JoinFacts
  <2> QED BY <2>1, <2>2 DEF InOrder
<1>6. \A P : Within(P, Frame(new)) /\ AllWithin(P, buffer, queue, way)
              => AllWithin(P, buffer, queue, way \o Frame(new))
  BY <1>1, JoinFacts DEF AllWithin
<1> QED BY <1>5, <1>6

\* The first pieces under way are queued, or lost.
LEMMA ReceiveOrder ==
  ASSUME NEW buffer \in Seq(Piece), NEW queue \in Seq(Seq(Piece)), NEW way \in Seq(Piece),
         NEW n \in 1 .. Len(way), InOrder(buffer, queue, way)
  PROVE  LET first == SubSeq(way, 1, n)
             rest == SubSeq(way, n + 1, Len(way))
         IN /\ InOrder(buffer, queue, rest)
            /\ InOrder(buffer, Append(queue, first), rest)
            /\ \A P : AllWithin(P, buffer, queue, way)
                        => /\ AllWithin(P, buffer, queue, rest)
                           /\ AllWithin(P, buffer, Append(queue, first), rest)
<1> DEFINE first == SubSeq(way, 1, n)
           rest == SubSeq(way, n + 1, Len(way))
<1>0. 1 \in Nat \ {0} /\ n + 1 \in Nat \ {0} /\ n \in 0 .. Len(way) /\ Len(way) \in 0 .. Len(way)
  OBVIOUS
<1>1. /\ first \in Seq(Piece) /\ rest \in Seq(Piece)
      /\ Ordered(first) /\ Ordered(rest)
      /\ \A t : Precedes(t, way) => Precedes(t, first) /\ Precedes(t, rest)
      /\ \A P : Within(P, way) => Within(P, first) /\ Within(P, rest)
  BY <1>0, PartFacts DEF InOrder
<1>2. Precedes(first, rest)
  <2>1. \A a \in DOMAIN first : a \in Nat /\ 1 + a - 1 \in DOMAIN way /\ 1 + a - 1 <= n /\ first[a] = way[1 + a - 1]
    BY <1>0, <1>1, PartFacts
  <2>2. \A b \in DOMAIN rest : b \in Nat \ {0} /\ n + 1 + b - 1 \in DOMAIN way /\ rest[b] = way[n + 1 + b - 1]
    BY <1>0, <1>1, PartFacts
  <2> HIDE DEF first, rest
  <2> SUFFICES ASSUME NEW a \in DOMAIN first, NEW b \in DOMAIN rest
               PROVE  Rank(first[a]) < Rank(rest[b])
    BY DEF Precedes
  <2>3. 1 + a - 1 < n + 1 + b - 1
    BY <2>1, <2>2
  <2> QED BY <2>1, <2>2, <2>3 DEF InOrder, Ordered
<1> HIDE DEF first, rest
<1>3. /\ Append(queue, first) \in Seq(Seq(Piece)) /\ Len(queue) \in Nat
      /\ \A k \in DOMAIN Append(queue, first) :
           /\ k \in 1 .. Len(queue) + 1
           /\ k <= Len(queue) => k \in DOMAIN queue /\ Append(queue, first)[k] = queue[k]
           /\ k > Len(queue) => Append(queue, first)[k] = first
  BY <1>1, AppendProperties
<1> DEFINE q == Append(queue, first)
<1> HIDE DEF q
<1>4. InOrder(buffer, queue, rest)
  BY <1>1 DEF InOrder
<1>5. InOrder(buffer, q, rest)
  <2>1. ASSUME NEW k \in DOMAIN q
        PROVE  Ordered(q[k]) /\ Precedes(buffer, q[k]) /\ Precedes(q[k], rest)
    BY <1>1, <1>2, <1>3, <2>1 DEF InOrder, q
  <2>2. ASSUME NEW j \in DOMAIN q, NEW k \in DOMAIN q, j < k PROVE Precedes(q[j], q[k])
    <3>1. j <= Len(queue) /\ j \in DOMAIN queue /\ q[j] = queue[j]
      BY <1>3, <2>2 DEF q
    <3>2. CASE k <= Len(queue)
      BY <1>3, <2>2, <3>1, <3>2 DEF InOrder, q
    <3>3. CASE k > Len(queue)
      BY <1>1, <1>3, <2>2, <3>1, <3>3 DEF InOrder, q
    <3> QED BY <1>3, <3>2, <3>3 DEF q
  <2> QED BY <1>1, <2>1, <2>2 DEF InOrder
<1>6. \A P : AllWithin(P, buffer, queue, way)
              => AllWithin(P, buffer, queue, rest) /\ AllWithin(P, buffer, q, rest)
  <2> SUFFICES ASSUME NEW P, AllWithin(P, buffer, queue, way)
               PROVE  AllWithin(P, buffer, queue, rest) /\ AllWithin(P, buffer, q, rest)
    OBVIOUS
  <2>1. \A k \in DOMAIN q : Within(P, q[k])
    BY <1>1, <1>3 DEF AllWithin, q
  <2> QED BY <1>1, <2>1 DEF AllWithin
<1> QED BY <1>4, <1>5, <1>6 DEF first, rest, q

\* The framer takes the head of the queue: what it has then, and what is behind it.
LEMMA AheadFacts ==
  ASSUME NEW buffer \in Seq(Piece), NEW queue \in Seq(Seq(Piece)), NEW way \in Seq(Piece),
         queue # <<>>, InOrder(buffer, queue, way), NEW behind, Again(queue, behind)
  PROVE  LET all == buffer \o Head(queue)
         IN /\ all \in Seq(Piece) /\ Ordered(all) /\ Precedes(all, way)
            /\ behind \in Seq(Seq(Piece)) /\ \A k \in DOMAIN behind : Precedes(all, behind[k])
            /\ \A P : AllWithin(P, buffer, queue, way)
                        => /\ Within(P, all) /\ Within(P, way)
                           /\ \A k \in DOMAIN behind : Within(P, behind[k])
            /\ \A left : /\ Ordered(left) /\ Precedes(left, way)
                         /\ \A k \in DOMAIN behind : Precedes(left, behind[k])
                         => InOrder(left, behind, way)
<1> DEFINE all == buffer \o Head(queue)
<1>1. 1 \in DOMAIN queue /\ Head(queue) = queue[1] /\ Head(queue) \in Seq(Piece)
  BY HeadTailProperties
<1>2. ASSUME NEW j \in DOMAIN queue, 1 < j
      PROVE  Precedes(buffer, queue[j]) /\ Precedes(Head(queue), queue[j])
  BY <1>1, <1>2 DEF InOrder
<1>3. /\ all \in Seq(Piece) /\ Ordered(all) /\ Precedes(all, way)
      /\ \A j \in DOMAIN queue : 1 < j => Precedes(all, queue[j])
      /\ \A P : AllWithin(P, buffer, queue, way) => Within(P, all)
  BY <1>1, <1>2, JoinFacts DEF InOrder, AllWithin
<1> HIDE DEF all
<1>4. /\ behind \in Seq(Seq(Piece))
      /\ \/ /\ behind = Tail(queue)
            /\ \A k \in DOMAIN behind : /\ k \in Nat /\ k + 1 \in DOMAIN queue /\ 1 < k + 1
                                        /\ behind[k] = queue[k + 1]
         \/ /\ DOMAIN behind = 1 .. Len(queue) /\ behind[1] = <<>> /\ DOMAIN queue = 1 .. Len(queue)
            /\ \A k \in 2 .. Len(queue) : behind[k] = queue[k]
  <2>1. /\ behind \in Seq(Seq(Piece))
        /\ \/ behind = Tail(queue)
           \/ /\ behind[1] = <<>> /\ DOMAIN behind = 1 .. Len(queue)
              /\ \A k \in 2 .. Len(queue) : behind[k] = queue[k]
    BY QueuedAgain
  <2>2. CASE behind = Tail(queue)
    <3>1. /\ Len(queue) \in Nat /\ DOMAIN queue = 1 .. Len(queue)
          /\ Len(behind) = Len(queue) - 1 /\ DOMAIN behind = 1 .. Len(behind)
          /\ \A k \in 1 .. Len(behind) : behind[k] = queue[k + 1]
      BY <2>2, HeadTailProperties, LenProperties
    <3>2. \A k \in DOMAIN behind : k \in Nat /\ k + 1 \in DOMAIN queue /\ 1 < k + 1
      BY <3>1
    <3> QED BY <2>1, <2>2, <3>1, <3>2
  <2>3. DOMAIN queue = 1 .. Len(queue)
    OBVIOUS
  <2> QED BY <2>1, <2>2, <2>3
<1>5. ASSUME NEW k \in DOMAIN behind
      PROVE  \/ behind[k] = <<>>
             \/ \E j \in DOMAIN queue : 1 < j /\ behind[k] = queue[j]
  <2>1. CASE /\ behind = Tail(queue)
             /\ \A x \in DOMAIN behind : /\ x \in Nat /\ x + 1 \in DOMAIN queue /\ 1 < x + 1
                                         /\ behind[x] = queue[x + 1]
    BY <1>5, <2>1
  <2>2. CASE /\ DOMAIN behind = 1 .. Len(queue) /\ behind[1] = <<>> /\ DOMAIN queue = 1 .. Len(queue)
             /\ \A x \in 2 .. Len(queue) : behind[x] = queue[x]
    <3>1. k = 1 \/ (k \in 2 .. Len(queue) /\ 1 < k /\ k \in DOMAIN queue)
      BY <1>5, <2>2
    <3> QED BY <2>2, <3>1
  <2> QED BY <1>4, <2>1, <2>2
<1>6. \A k \in DOMAIN behind :
        Ordered(behind[k]) /\ Precedes(behind[k], way) /\ Precedes(all, behind[k])
  BY <1>3, <1>5, NothingInOrder DEF InOrder
<1>7. \A P : AllWithin(P, buffer, queue, way) => \A k \in DOMAIN behind : Within(P, behind[k])
  BY <1>5, NothingInOrder DEF AllWithin
<1>8. ASSUME NEW j \in DOMAIN behind, NEW k \in DOMAIN behind, j < k
      PROVE  Precedes(behind[j], behind[k])
  <2>1. CASE behind = Tail(queue)
            /\ \A x \in DOMAIN behind : /\ x \in Nat /\ x + 1 \in DOMAIN queue /\ 1 < x + 1
                                        /\ behind[x] = queue[x + 1]
    <3>1. j + 1 < k + 1 /\ j + 1 \in DOMAIN queue /\ k + 1 \in DOMAIN queue
      BY <1>8, <2>1
    <3> QED BY <2>1, <3>1 DEF InOrder
  <2>2. CASE /\ DOMAIN behind = 1 .. Len(queue) /\ behind[1] = <<>> /\ DOMAIN queue = 1 .. Len(queue)
             /\ \A x \in 2 .. Len(queue) : behind[x] = queue[x]
    <3>1. CASE j = 1
      BY <2>2, <3>1, NothingInOrder
    <3>2. CASE j # 1
      <4>1. j \in 2 .. Len(queue) /\ k \in 2 .. Len(queue)
        BY <1>8, <2>2, <3>2
      <4> QED BY <1>8, <2>2, <4>1 DEF InOrder
    <3> QED BY <3>1, <3>2
  <2> QED BY <1>4, <2>1, <2>2
<1>9. ASSUME NEW left, Ordered(left), Precedes(left, way),
             \A k \in DOMAIN behind : Precedes(left, behind[k])
      PROVE  InOrder(left, behind, way)
  <2>1. Ordered(way)
    BY DEF InOrder
  <2> QED BY <1>6, <1>8, <1>9, <2>1 DEF InOrder
<1>10. \A P : AllWithin(P, buffer, queue, way) => Within(P, way)
  BY DEF AllWithin
<1> QED BY <1>3, <1>4, <1>6, <1>7, <1>9, <1>10 DEF all

\* What comes behind a piece is above its rank.
LEMMA BehindFacts ==
  ASSUME NEW s \in Seq(Piece), NEW t \in Seq(Piece), Precedes(s, t), NEW a \in DOMAIN s
  PROVE  Within(Above(Rank(s[a])), t)
BY DEF Precedes, Within, Above

\* The framer executes what it finds at the head, and keeps a part of the rest.
LEMMA TakeOrder ==
  ASSUME NEW buffer \in Seq(Piece), NEW queue \in Seq(Seq(Piece)), NEW way \in Seq(Piece),
         queue # <<>>, InOrder(buffer, queue, way), NEW m \in Nat \ {0}, NEW left,
         left \in {<<>>, SubSeq(buffer \o Head(queue), m, Len(buffer \o Head(queue)))}
  PROVE  LET all == buffer \o Head(queue)
         IN /\ Ordered(all)
            /\ InOrder(left, Tail(queue), way)
            /\ \A P : AllWithin(P, buffer, queue, way)
                        => Within(P, all) /\ AllWithin(P, left, Tail(queue), way)
            /\ \A a \in DOMAIN all :
                 a < m => AllWithin(Above(Rank(all[a])), left, Tail(queue), way)
<1> DEFINE all == buffer \o Head(queue)
           behind == Tail(queue)
<1>1. Again(queue, behind)
  BY DEF Again
<1> HIDE DEF behind
<1>2. /\ all \in Seq(Piece) /\ Ordered(all) /\ Precedes(all, way)
      /\ behind \in Seq(Seq(Piece)) /\ \A k \in DOMAIN behind : Precedes(all, behind[k])
      /\ \A P : AllWithin(P, buffer, queue, way)
                  => /\ Within(P, all) /\ Within(P, way)
                     /\ \A k \in DOMAIN behind : Within(P, behind[k])
      /\ \A s : /\ Ordered(s) /\ Precedes(s, way)
                /\ \A k \in DOMAIN behind : Precedes(s, behind[k])
                => InOrder(s, behind, way)
  BY <1>1, AheadFacts
<1> HIDE DEF all
<1>3. /\ Ordered(left)
      /\ \A t : Precedes(all, t) => Precedes(left, t)
      /\ \A P : Within(P, all) => Within(P, left)
  <2>1. Len(all) \in 0 .. Len(all)
    BY <1>2
  <2>2. left = <<>> \/ left = SubSeq(all, m, Len(all))
    BY DEF all
  <2>3. CASE left = <<>>
    BY <2>3, NothingInOrder
  <2>4. CASE left = SubSeq(all, m, Len(all))
    BY <1>2, <2>1, <2>4, PartFacts
  <2> QED BY <2>2, <2>3, <2>4
<1>4. InOrder(left, behind, way)
  BY <1>2, <1>3
<1>5. \A P : AllWithin(P, buffer, queue, way) => Within(P, all) /\ AllWithin(P, left, behind, way)
  BY <1>2, <1>3 DEF AllWithin
<1>6. ASSUME NEW a \in DOMAIN all, a < m
      PROVE  AllWithin(Above(Rank(all[a])), left, behind, way)
  <2>1. Within(Above(Rank(all[a])), left)
    <3>1. CASE left = <<>>
      BY <3>1, NothingInOrder
    <3>2. CASE left = SubSeq(all, m, Len(all))
      <4>1. Len(all) \in 0 .. Len(all)
        BY <1>2
      <4>2. \A b \in DOMAIN left : b \in Nat \ {0} /\ m + b - 1 \in DOMAIN all /\ left[b] = all[m + b - 1]
        BY <1>2, <3>2, <4>1, PartFacts, SMTT(30)
      <4>3. a \in Nat /\ \A b \in DOMAIN all : all[b] \in Piece
        BY <1>2
      <4> SUFFICES ASSUME NEW b \in DOMAIN left PROVE left[b] \in Above(Rank(all[a]))
        BY DEF Within
      <4>4. a < m + b - 1
        BY <1>6, <4>2, <4>3
      <4> QED BY <1>2, <4>2, <4>3, <4>4 DEF Ordered, Above
    <3> QED BY <3>1, <3>2 DEF all
  <2>2. Within(Above(Rank(all[a])), way)
    BY <1>2, BehindFacts
  <2>3. \A k \in DOMAIN behind : Within(Above(Rank(all[a])), behind[k])
    <3>1. \A k \in DOMAIN behind : behind[k] \in Seq(Piece)
      BY <1>2
    <3> QED BY <1>2, <3>1, BehindFacts
  <2> QED BY <2>1, <2>2, <2>3 DEF AllWithin
<1> QED BY <1>2, <1>4, <1>5, <1>6 DEF all, behind

\* The framer reads bytes from the head as another request, and keeps the rest,
\* and the rest of the last piece.
LEMMA MisreadOrder ==
  ASSUME NEW buffer \in Seq(Piece), NEW queue \in Seq(Seq(Piece)), NEW way \in Seq(Piece),
         queue # <<>>, InOrder(buffer, queue, way), NEW behind, Again(queue, behind),
         NEW all, all = buffer \o Head(queue), NEW n \in 1 .. Len(all), NEW left,
         Remains(all, n, left)
  PROVE  /\ InOrder(left, behind, way)
         /\ \A P : (\A p \in P : Bitten(p) \in P) /\ AllWithin(P, buffer, queue, way)
                     => Within(P, all) /\ AllWithin(P, left, behind, way)
         /\ AllWithin(Begun(Of(all, n)), left, behind, way)
<1>1. /\ all \in Seq(Piece) /\ Ordered(all) /\ Precedes(all, way)
      /\ behind \in Seq(Seq(Piece)) /\ \A k \in DOMAIN behind : Precedes(all, behind[k])
      /\ \A P : AllWithin(P, buffer, queue, way)
                  => /\ Within(P, all) /\ Within(P, way)
                     /\ \A k \in DOMAIN behind : Within(P, behind[k])
      /\ \A s : /\ Ordered(s) /\ Precedes(s, way)
                /\ \A k \in DOMAIN behind : Precedes(s, behind[k])
                => InOrder(s, behind, way)
  BY AheadFacts
<1> DEFINE rest == SubSeq(all, n + 1, Len(all))
           bitten == <<Bitten(all[n])>>
           M == Of(all, n)
<1>2. all[n] \in Piece /\ n \in DOMAIN all /\ n \in Nat /\ Len(all) \in 0 .. Len(all)
  BY <1>1
<1>0. PICK m \in Nat \ {0} : m = n + 1
  BY <1>2
<1>3. /\ rest \in Seq(Piece) /\ Ordered(rest)
      /\ \A a \in DOMAIN rest : m + a - 1 \in DOMAIN all /\ a \in Nat \ {0}
                                /\ rest[a] = all[m + a - 1]
      /\ \A t : Precedes(all, t) => Precedes(rest, t)
      /\ \A P : Within(P, all) => Within(P, rest)
  <2> DEFINE part == SubSeq(all, m, Len(all))
  <2>1. rest = part
    BY <1>0
  <2>2. /\ part \in Seq(Piece) /\ Ordered(part)
        /\ \A a \in DOMAIN part : m + a - 1 \in DOMAIN all /\ part[a] = all[m + a - 1]
        /\ \A t : Precedes(all, t) => Precedes(part, t)
        /\ \A P : Within(P, all) => Within(P, part)
    <3>1. PICK l \in Nat : l = Len(all)
      BY <1>1
    <3>2. m \in Nat \ {0} /\ l <= Len(all)
      BY <3>1
    <3>3. all \in Seq(Piece) /\ Ordered(all)
      BY <1>1
    <3> DEFINE last == SubSeq(all, m, l)
    <3>4. /\ last \in Seq(Piece) /\ Ordered(last)
          /\ \A a \in DOMAIN last : m + a - 1 \in DOMAIN all /\ last[a] = all[m + a - 1]
          /\ \A t : Precedes(all, t) => Precedes(last, t)
          /\ \A P : Within(P, all) => Within(P, last)
      BY ONLY <3>1, <3>2, <3>3, PartFacts
    <3>5. part = last
      BY <3>1
    <3> QED BY ONLY <3>4, <3>5
  <2> HIDE DEF part, rest
  <2>3. \A a \in DOMAIN part : a \in Nat \ {0}
    BY <2>2
  <2> QED BY <2>1, <2>2, <2>3
<1>4. /\ bitten \in Seq(Piece) /\ DOMAIN bitten = {1} /\ bitten[1] = Bitten(all[n])
      /\ Bitten(all[n]) \in Piece /\ Rank(bitten[1]) = Rank(all[n]) /\ \A N : bitten[1] \in Begun(N)
  BY <1>2, RankFacts
<1>5. left = rest \/ left = bitten \o rest
  BY DEF Remains
<1> HIDE DEF rest, bitten, M
<1>6. \A a \in DOMAIN rest : Rank(all[n]) < Rank(rest[a]) /\ rest[a] \in Piece
  <2> SUFFICES ASSUME NEW a \in DOMAIN rest PROVE Rank(all[n]) < Rank(rest[a]) /\ rest[a] \in Piece
    OBVIOUS
  <2>1. n < m + a - 1
    BY <1>0, <1>2, <1>3
  <2>2. rest[a] = all[m + a - 1] /\ m + a - 1 \in DOMAIN all
    BY <1>3
  <2>3. Rank(all[n]) < Rank(all[m + a - 1])
    BY <1>1, <1>2, <2>1, <2>2 DEF Ordered
  <2>4. rest[a] \in Piece
    BY <1>3
  <2> QED BY <2>2, <2>3, <2>4
<1>7. /\ Ordered(bitten) /\ Precedes(bitten, rest)
      /\ \A t : Precedes(all, t) => Precedes(bitten, t)
      /\ \A P : (\A p \in P : Bitten(p) \in P) /\ Within(P, all) => Within(P, bitten)
  BY <1>2, <1>4, <1>6 DEF Ordered, Precedes, Within
<1>8. /\ Ordered(left)
      /\ \A t : Precedes(all, t) => Precedes(left, t)
      /\ \A P : (\A p \in P : Bitten(p) \in P) /\ Within(P, all) => Within(P, left)
  <2>1. CASE left = rest
    BY <1>3, <2>1
  <2>2. CASE left = bitten \o rest
    BY <1>3, <1>4, <1>7, <2>2, JoinFacts
  <2> QED BY <1>5, <2>1, <2>2
<1>9. InOrder(left, behind, way)
  BY <1>1, <1>8
<1>10. \A P : (\A p \in P : Bitten(p) \in P) /\ AllWithin(P, buffer, queue, way)
                => Within(P, all) /\ AllWithin(P, left, behind, way)
  BY <1>1, <1>8 DEF AllWithin
<1>11. ASSUME NEW p \in Piece, Rank(all[n]) < Rank(p) PROVE p \in Begun(M)
  <2> SUFFICES ASSUME p.part = "head", NEW k \in 1 .. n, p.id = all[k].id PROVE FALSE
    BY DEF Begun, M, Of
  <2>1. all[k] \in Piece /\ k \in DOMAIN all /\ (k = n \/ k < n)
    BY <1>1, <1>2
  <2>2. PICK q \in Piece, r \in Piece : q = all[k] /\ r = all[n]
    BY <1>2, <2>1
  <2>3. /\ Rank(p) \in Nat /\ Rank(q) \in Nat /\ Rank(r) \in Nat
        /\ Rank(p) = 2 * p.id /\ 2 * q.id <= Rank(q) /\ p.id \in Nat /\ q.id = p.id
    BY <2>2, RankFacts
  <2>4. q = r \/ Rank(q) < Rank(r)
    BY <1>1, <1>2, <2>1, <2>2 DEF Ordered
  <2>5. Rank(r) < Rank(p)
    BY <1>11, <2>2
  <2>6. Rank(p) <= Rank(q)
    BY <2>2, HeadIsFirst, <2>3
  <2>7. PICK a \in Nat, b \in Nat, h \in Nat : a = Rank(q) /\ b = Rank(r) /\ h = Rank(p)
    BY <2>3
  <2>8. h <= a /\ (a = b \/ a < b) /\ b < h
    BY <2>4, <2>5, <2>6, <2>7
  <2> QED BY <2>7, <2>8
<1>12. /\ Within(Begun(M), way)
       /\ \A k \in DOMAIN behind : Within(Begun(M), behind[k])
  <2>1. ASSUME NEW t \in Seq(Piece), Precedes(all, t) PROVE Within(Begun(M), t)
    <3>1. ASSUME NEW a \in DOMAIN t PROVE t[a] \in Piece /\ Rank(all[n]) < Rank(t[a])
      BY <1>2, <2>1, <3>1 DEF Precedes
    <3> QED BY <1>11, <3>1 DEF Within
  <2>2. \A k \in DOMAIN behind : behind[k] \in Seq(Piece)
    BY <1>1
  <2> QED BY <1>1, <2>1, <2>2
<1>13. Within(Begun(M), left)
  <2>1. Within(Begun(M), rest) /\ Within(Begun(M), bitten)
    BY <1>4, <1>6, <1>11 DEF Within
  <2> QED BY <1>3, <1>4, <1>5, <2>1, JoinFacts
<1> QED BY <1>9, <1>10, <1>12, <1>13 DEF AllWithin, M

OrderInv == \A c \in Conns : InOrder(handler[c].buffer, handler[c].queue, up[c])

\* All that connection c has for the framer is of some kind of pieces.
Past(P, c) == AllWithin(P, handler[c].buffer, handler[c].queue, up[c])

\* What is behind the frame of request i.
Later(i) == Above(2 * i + 1)

\* What was executed is behind the framer, and so is the beginning of what was
\* misread.
PastInv ==
  \A k \in DOMAIN executed :
    LET i == executed[k].id IN i \in Requests /\ Past(Later(i), request[i].conn)
BegunInv == \A c \in Conns : Past(Begun(misread), c)

\* What a round of the handler of connection d executes, and what it leaves.
LEMMA RoundFacts ==
  ASSUME BaseInv, OrderInv, NEW d \in Conns, NEW luck, Handle(d, luck)
  PROVE  \E run \in Seq(Requests) :
           /\ executed' \in Seq(Executed) /\ Len(executed') = Len(executed) + Len(run)
           /\ \A k \in DOMAIN executed : k \in DOMAIN executed' /\ executed'[k] = executed[k]
           /\ \A k \in DOMAIN executed' \ DOMAIN executed :
                /\ k - Len(executed) \in DOMAIN run
                /\ executed'[k] = [id |-> run[k - Len(executed)],
                                   units |-> ExecutedOn(run[k - Len(executed)])]
           /\ \A j \in DOMAIN run :
                /\ request[run[j]].conn = d
                /\ AllWithin(Later(run[j]), handler'[d].buffer, handler'[d].queue, up[d])
           /\ \A j, k \in DOMAIN run : j < k => run[j] < run[k]
           /\ \A P : Past(P, d)
                       => /\ AllWithin(P, handler'[d].buffer, handler'[d].queue, up[d])
                          /\ \A j \in DOMAIN run : [id |-> run[j], part |-> "head"] \in P
           /\ InOrder(handler'[d].buffer, handler'[d].queue, up[d])
           /\ \A c \in Conns \ {d} : handler'[c] = handler[c]
           /\ down' \in {down, [down EXCEPT ![d] = @ \o Answers(run)]}
           /\ UNCHANGED <<server, misread, request, near, up>>
<1>1. PICK run \in Seq(Requests), left \in Seq(Piece) :
         LET pieces == Buffered(d)
         IN /\ handler[d].queue # <<>> /\ pieces \in Seq(Piece)
            /\ \A j \in 1 .. Len(run) :
                 /\ 2 * j - 1 \in 1 .. Len(pieces) /\ 2 * j \in 1 .. Len(pieces)
                 /\ run[j] = pieces[2 * j - 1].id
                 /\ pieces[2 * j - 1].part = "head"
            /\ left \in {<<>>, SubSeq(pieces, 2 * Len(run) + 1, Len(pieces))}
            /\ handler' = [handler EXCEPT ![d].queue = Tail(@), ![d].buffer = left]
            /\ executed' = executed \o [k \in DOMAIN run |->
                                          [id |-> run[k], units |-> ExecutedOn(run[k])]]
            /\ down' \in {down, [down EXCEPT ![d] = @ \o Answers(run)]}
            /\ UNCHANGED <<server, misread, request, near, up>>
  BY HandleFacts
<1> DEFINE buffer == handler[d].buffer
           queue == handler[d].queue
           pieces == buffer \o Head(queue)
           m == 2 * Len(run) + 1
<1>2. /\ buffer \in Seq(Piece) /\ queue \in Seq(Seq(Piece)) /\ up[d] \in Seq(Piece)
      /\ handler'[d].buffer = left /\ handler'[d].queue = Tail(queue)
      /\ \A c \in Conns \ {d} : handler'[c] = handler[c]
  BY <1>1, HandlerFacts DEF Handler
<1>3. /\ run \in [1 .. Len(run) -> Requests] /\ Len(run) \in Nat /\ DOMAIN run = 1 .. Len(run)
      /\ Requests \subseteq Nat
  BY RequestFacts DEF BaseInv, RequestType
<1>4. /\ pieces \in Seq(Piece) /\ m \in Nat \ {0}
      /\ \A j \in 1 .. Len(run) : /\ 2 * j - 1 \in DOMAIN pieces /\ 2 * j - 1 < 2 * j
                                  /\ 2 * j \in DOMAIN pieces /\ 2 * j < m
                                  /\ run[j] = pieces[2 * j - 1].id
                                  /\ pieces[2 * j - 1].part = "head"
      /\ left \in {<<>>, SubSeq(pieces, m, Len(pieces))}
  <2>1. pieces = Buffered(d)
    BY DEF Buffered
  <2> HIDE DEF pieces
  <2>2. pieces \in Seq(Piece) /\ left \in {<<>>, SubSeq(pieces, m, Len(pieces))}
    BY <1>1, <2>1
  <2>3. m \in Nat \ {0} /\ \A j \in 1 .. Len(run) : 2 * j < m /\ 2 * j - 1 < 2 * j
    BY <1>3
  <2>4. \A j \in 1 .. Len(run) : /\ 2 * j - 1 \in 1 .. Len(pieces) /\ 2 * j \in 1 .. Len(pieces)
                                 /\ run[j] = pieces[2 * j - 1].id
                                 /\ pieces[2 * j - 1].part = "head"
    <3> HIDE DEF m
    <3> QED BY <1>1, <2>1
  <2> QED BY <2>2, <2>3, <2>4
<1>5. InOrder(buffer, queue, up[d])
  BY DEF OrderInv
<1> HIDE DEF m, buffer, queue
<1>6. /\ Ordered(pieces)
      /\ InOrder(left, Tail(queue), up[d])
      /\ \A P : AllWithin(P, buffer, queue, up[d])
                  => Within(P, pieces) /\ AllWithin(P, left, Tail(queue), up[d])
      /\ \A a \in DOMAIN pieces :
           a < m => AllWithin(Above(Rank(pieces[a])), left, Tail(queue), up[d])
  <2>1. queue # <<>>
    BY <1>1 DEF queue
  <2>2. buffer \in Seq(Piece) /\ queue \in Seq(Seq(Piece)) /\ up[d] \in Seq(Piece)
    BY <1>2
  <2>3. m \in Nat \ {0}
    BY <1>4
  <2>4. left \in {<<>>, SubSeq(pieces, m, Len(pieces))}
    BY <1>4
  <2> QED BY <1>5, <2>1, <2>2, <2>3, <2>4, TakeOrder
<1> HIDE DEF pieces
<1>8. \A j \in DOMAIN run : /\ Rank(pieces[2 * j - 1]) = 2 * run[j] /\ run[j] \in Nat
                            /\ pieces[2 * j - 1] = [id |-> run[j], part |-> "head"]
  <2> SUFFICES ASSUME NEW j \in DOMAIN run
               PROVE  /\ Rank(pieces[2 * j - 1]) = 2 * run[j] /\ run[j] \in Nat
                      /\ pieces[2 * j - 1] = [id |-> run[j], part |-> "head"]
    OBVIOUS
  <2>1. /\ 2 * j - 1 \in DOMAIN pieces /\ run[j] = pieces[2 * j - 1].id
        /\ pieces[2 * j - 1].part = "head" /\ run[j] \in Nat
    BY <1>3, <1>4
  <2>2. PICK p \in Piece : p = pieces[2 * j - 1]
    BY <1>4, <2>1
  <2>3. p.part = "head" /\ p.id = run[j]
    BY <2>1, <2>2
  <2>4. Rank(p) = 2 * p.id
    BY <2>3, RankFacts
  <2>5. p = [id |-> run[j], part |-> "head"]
    BY <2>3 DEF Piece
  <2> QED BY <2>1, <2>2, <2>3, <2>4, <2>5
<1>7. ASSUME NEW j \in DOMAIN run PROVE AllWithin(Later(run[j]), left, Tail(queue), up[d])
  <2>1. 2 * j - 1 \in DOMAIN pieces /\ 2 * j \in DOMAIN pieces /\ 2 * j < m /\ 2 * j - 1 < 2 * j
    BY <1>3, <1>4
  <2>2. Rank(pieces[2 * j - 1]) < Rank(pieces[2 * j])
    BY <1>6, <2>1 DEF Ordered
  <2>3. PICK rank \in Nat : rank = Rank(pieces[2 * j])
    <3>1. pieces[2 * j] \in Piece
      BY <1>4, <2>1
    <3> QED BY <3>1, RankFacts
  <2>4. 2 * run[j] + 1 <= rank /\ run[j] \in Nat
    <3>1. PICK i \in Nat : i = run[j]
      BY <1>8
    <3>2. 2 * i < rank
      BY <1>8, <2>2, <2>3, <3>1
    <3> QED BY <3>1, <3>2
  <2>5. Above(rank) \subseteq Later(run[j])
    <3> SUFFICES ASSUME NEW p \in Piece, rank < Rank(p) PROVE 2 * run[j] + 1 < Rank(p)
      BY DEF Above, Later
    <3>1. Rank(p) \in Nat
      BY RankFacts
    <3> QED BY <2>4, <3>1
  <2>6. AllWithin(Above(rank), left, Tail(queue), up[d])
    BY <1>6, <2>1, <2>3
  <2> QED BY <2>5, <2>6, WiderFacts
<1>9. ASSUME NEW j \in DOMAIN run, NEW k \in DOMAIN run, j < k PROVE run[j] < run[k]
  <2>0. j \in Nat /\ k \in Nat
    BY <1>3, <1>9
  <2>1. 2 * j - 1 \in DOMAIN pieces /\ 2 * k - 1 \in DOMAIN pieces /\ 2 * j - 1 < 2 * k - 1
    <3>1. 2 * j - 1 \in DOMAIN pieces /\ 2 * k - 1 \in DOMAIN pieces
      BY <1>3, <1>4, <1>9
    <3>2. 2 * j - 1 < 2 * k - 1
      BY ONLY <1>9, <2>0
    <3> QED BY <3>1, <3>2
  <2>2. Rank(pieces[2 * j - 1]) < Rank(pieces[2 * k - 1])
    BY <1>6, <2>1 DEF Ordered
  <2>3. PICK a \in Nat, b \in Nat : a = run[j] /\ b = run[k]
    BY <1>8
  <2>4. 2 * a < 2 * b
    BY <1>8, <2>2, <2>3
  <2> QED BY <2>3, <2>4
<1>10. ASSUME NEW P, AllWithin(P, buffer, queue, up[d]), NEW j \in DOMAIN run
       PROVE  [id |-> run[j], part |-> "head"] \in P
  <2>1. pieces[2 * j - 1] \in P
    BY <1>3, <1>4, <1>6, <1>10 DEF Within
  <2> QED BY <1>8, <2>1
<1>11. ASSUME NEW j \in DOMAIN run PROVE request[run[j]].conn = d
  <2>1. Ids(pieces) \subseteq Ids(buffer) \cup Ids(Head(queue))
    <3>1. Head(queue) \in Seq(Piece)
      BY <1>1, <1>2, HeadTailProperties DEF queue
    <3> QED BY <1>2, <3>1, IdsConcat DEF pieces
  <2>2. 1 \in DOMAIN queue /\ Head(queue) = queue[1]
    BY <1>1, <1>2 DEF queue
  <2>3. Ids(buffer) \cup Ids(Head(queue)) \subseteq Travelling(d)
    BY <2>2 DEF Travelling, buffer, queue
  <2>4. run[j] \in Ids(pieces)
    BY <1>3, <1>4 DEF Ids
  <2> QED BY <2>1, <2>3, <2>4 DEF BaseInv, CarriedInv
<1> DEFINE new == [k \in DOMAIN run |-> [id |-> run[k], units |-> ExecutedOn(run[k])]]
<1>12. /\ new \in Seq(Executed) /\ Len(new) = Len(run) /\ DOMAIN new = DOMAIN run
       /\ \A k \in DOMAIN run : new[k] = [id |-> run[k], units |-> ExecutedOn(run[k])]
  <2>1. ASSUME NEW k \in 1 .. Len(run) PROVE new[k] \in Executed
    <3>1. run[k] \in Requests /\ run[k] \in Nat
      BY <1>3
    <3> QED BY <1>3, <3>1, ExecutedOnFacts DEF Executed
  <2>2. new \in [1 .. Len(run) -> Executed]
    BY <1>3, <2>1
  <2> QED BY <1>3, <2>2
<1>13. executed' = executed \o new /\ executed \in Seq(Executed)
  BY <1>1 DEF BaseInv, ServerType
<1> HIDE DEF new
<1>14. /\ executed' \in Seq(Executed) /\ Len(executed') = Len(executed) + Len(run)
       /\ \A k \in 1 .. Len(executed) + Len(run) :
            executed'[k] = IF k <= Len(executed) THEN executed[k] ELSE new[k - Len(executed)]
  <2> DEFINE joined == executed \o new
  <2>1. /\ joined \in Seq(Executed) /\ Len(joined) = Len(executed) + Len(run)
        /\ \A k \in 1 .. Len(executed) + Len(run) :
             joined[k] = IF k <= Len(executed) THEN executed[k] ELSE new[k - Len(executed)]
    <3>1. executed \in Seq(Executed) /\ new \in Seq(Executed) /\ Len(new) = Len(run)
      BY <1>12, <1>13
    <3> HIDE DEF joined
    <3>2. joined \in Seq(Executed) /\ Len(joined) = Len(executed) + Len(new)
      BY <3>1, ConcatProperties DEF joined
    <3>3. \A k \in 1 .. Len(executed) + Len(new) :
            joined[k] = IF k <= Len(executed) THEN executed[k] ELSE new[k - Len(executed)]
      BY <3>1, ConcatProperties DEF joined
    <3> QED BY <3>1, <3>2, <3>3
  <2> HIDE DEF joined
  <2>2. executed' = joined
    BY <1>13 DEF joined
  <2> QED BY <2>1, <2>2
<1>15. \A k \in DOMAIN executed : k \in DOMAIN executed' /\ executed'[k] = executed[k]
  BY <1>3, <1>13, <1>14
<1>16. \A k \in DOMAIN executed' \ DOMAIN executed :
         /\ k - Len(executed) \in DOMAIN run
         /\ executed'[k] = [id |-> run[k - Len(executed)], units |-> ExecutedOn(run[k - Len(executed)])]
  <2> SUFFICES ASSUME NEW k \in DOMAIN executed' \ DOMAIN executed
               PROVE  /\ k - Len(executed) \in DOMAIN run
                      /\ executed'[k] = [id |-> run[k - Len(executed)],
                                         units |-> ExecutedOn(run[k - Len(executed)])]
    OBVIOUS
  <2>1. k - Len(executed) \in DOMAIN run /\ k > Len(executed)
    BY <1>3, <1>13, <1>14
  <2>2. executed'[k] = new[k - Len(executed)]
    BY <1>3, <1>13, <1>14, <2>1
  <2> QED BY <1>12, <2>1, <2>2
<1>17. \A P : AllWithin(P, buffer, queue, up[d])
               => /\ AllWithin(P, left, Tail(queue), up[d])
                  /\ \A j \in DOMAIN run : [id |-> run[j], part |-> "head"] \in P
  BY <1>6, <1>10
<1>18. /\ down' \in {down, [down EXCEPT ![d] = @ \o Answers(run)]}
       /\ UNCHANGED <<server, misread, request, near, up>>
  BY <1>1
<1> QED BY <1>2, <1>6, <1>7, <1>9, <1>11, <1>14, <1>15, <1>16, <1>17, <1>18 DEF buffer, queue, Past

\* What becomes of the pieces of connection c.
LEMMA PiecesStep ==
  ASSUME BaseInv, [Next]_vars, NEW c \in Conns
  PROVE  \/ handler'[c].buffer = handler[c].buffer /\ handler'[c].queue = handler[c].queue /\ up'[c] = up[c]
         \/ handler'[c].buffer = <<>> /\ handler'[c].queue = <<>> /\ up'[c] \in {up[c], <<>>}
         \/ /\ Ask /\ c = client.protocol
            /\ handler'[c].buffer = handler[c].buffer /\ handler'[c].queue = handler[c].queue
            /\ up'[c] = up[c] \o Frame(Len(request) + 1)
         \/ \E n \in 1 .. Len(up[c]) :
              /\ handler'[c].buffer = handler[c].buffer
              /\ handler'[c].queue \in {handler[c].queue,
                                        Append(handler[c].queue, SubSeq(up[c], 1, n))}
              /\ up'[c] = SubSeq(up[c], n + 1, Len(up[c]))
         \/ \E luck : Handle(c, luck)
         \/ \E alien \in Aliens : \E n, whole : Misread(c, alien, n, whole)
<1> DEFINE Same == handler'[c].buffer = handler[c].buffer /\ handler'[c].queue = handler[c].queue
                   /\ up'[c] = up[c]
           Gone == handler'[c].buffer = <<>> /\ handler'[c].queue = <<>> /\ up'[c] \in {up[c], <<>>}
<1>1. ASSUME UNCHANGED <<up, handler>> PROVE Same
  BY <1>1
<1>2. CASE Ask
  <2> DEFINE d == client.protocol
             i == Len(request) + 1
  <2>1. d \in Conns /\ handler' = handler
    BY <1>2, AskFacts DEF Ask, ClientOnly, serverVars
  <2>2. up' = [up EXCEPT ![d] = Writes(@, near[d], Frame(i))]
    BY <1>2 DEF Ask, Execute
  <2> HIDE DEF i, d
  <2>3. CASE c = d
    <3>1. up'[c] \in {up[c], up[c] \o Frame(i)}
      BY <2>2, <2>3, HandlerFacts DEF Writes
    <3> QED BY <1>2, <2>1, <2>3, <3>1 DEF i, d
  <2>4. CASE c # d
    <3>1. up'[c] = up[c]
      BY <2>1, <2>2, <2>4, HandlerFacts
    <3> QED BY <2>1, <3>1
  <2> QED BY <2>3, <2>4
<1>3. ASSUME NEW d \in Conns, Establish(d) PROVE Same \/ Gone
  <2>1. /\ up' = [up EXCEPT ![d] = <<>>]
        /\ handler' = [handler EXCEPT ![d] = [NoHandler EXCEPT !.task = "running"]]
    BY <1>3 DEF Establish, Open, Accept
  <2> QED BY <2>1, HandlerFacts, NoHandlerFacts
<1>4. CASE ServerClose
  BY <1>4, NoHandlerFacts DEF ServerClose, connectionVars
<1>5. ASSUME NEW d \in Conns, NEW n, DataReceived(d, n), d # c PROVE Same
  <2>1. handler'[c] = handler[c] /\ up'[c] = up[c]
    BY <1>5, HandlerFacts, ReceivedFacts, ZenonT(40)
  <2> QED BY <2>1
<1>6. ASSUME NEW n, DataReceived(c, n)
      PROVE  /\ n \in 1 .. Len(up[c])
             /\ handler'[c].buffer = handler[c].buffer
             /\ handler'[c].queue \in {handler[c].queue, Append(handler[c].queue, SubSeq(up[c], 1, n))}
             /\ up'[c] = SubSeq(up[c], n + 1, Len(up[c]))
  <2>1. /\ n \in 1 .. Len(up[c]) /\ up' = [up EXCEPT ![c] = SubSeq(@, n + 1, Len(@))]
        /\ \/ handler' = handler
           \/ handler' = [handler EXCEPT ![c].queue = Append(@, SubSeq(up[c], 1, n))]
    BY <1>6, ReceivedFacts
  <2> QED BY <2>1, HandlerFacts DEF Handler
<1>7. ASSUME NEW d \in Conns, NEW luck, Handle(d, luck), d # c PROVE Same
  <2>1. PICK left : handler' = [handler EXCEPT ![d].queue = Tail(@), ![d].buffer = left] /\ up' = up
    BY <1>7, HandleFacts
  <2>2. handler'[c] = handler[c] /\ up'[c] = up[c]
    BY <1>7, <2>1, HandlerFacts
  <2> QED BY <2>2
<1>8. ASSUME NEW d \in Conns, HandlerLost(d) PROVE Same \/ Gone
  BY <1>8, HandlerFacts, NoHandlerFacts DEF HandlerLost
<1>11. ASSUME NEW d \in Conns, NEW alien \in Aliens, NEW n, NEW whole,
              Misread(d, alien, n, whole), d # c
       PROVE  Same
  <2>1. handler'[c] = handler[c] /\ up'[c] = up[c]
    BY <1>11, MisreadFacts
  <2> QED BY <2>1
<1>9. CASE ServerStep
  <2>1. ServeForever => UNCHANGED <<up, handler>>
    BY DEF ServeForever, connectionVars
  <2>2. \/ UNCHANGED <<up, handler>> \/ ServerClose
        \/ \E d \in Conns : \/ \E n : DataReceived(d, n)
                            \/ \E luck : Handle(d, luck)
                            \/ \E alien \in Aliens : \E n, whole : Misread(d, alien, n, whole)
                            \/ HandlerLost(d)
    BY <1>9, <2>1 DEF ServerStep
  <2> QED BY <1>1, <1>4, <1>5, <1>6, <1>7, <1>8, <1>11, <2>2
<1>10. UNCHANGED <<up, handler>> \/ ServerStep \/ Ask \/ \E d \in Conns : Establish(d)
  BY DEF Next, ClientStep, ClientOnly, ClientLost, Lost, Connect, Wake, Close, Receive,
     Timeout, Refused, AttemptFails, connectionVars, serverVars, vars
<1> QED BY <1>1, <1>2, <1>3, <1>9, <1>10

\* Kinds of pieces that a new request is of, and one that was read in part.
Lasting(P) == Within(P, Frame(Len(request) + 1)) /\ \A p \in P : Bitten(p) \in P

LEMMA LastingFacts ==
  ASSUME BaseInv
  PROVE  /\ \A i \in Requests : Lasting(Later(i))
         /\ \A M \in SUBSET Requests : Lasting(Begun(M))
<1> DEFINE n == Len(request) + 1
<1>1. /\ n \in Nat /\ \A i \in Requests : i \in Nat /\ i < n
  BY RequestFacts DEF BaseInv, RequestType
<1>2. /\ Frame(n)[1] \in Piece /\ Frame(n)[2] \in Piece /\ DOMAIN Frame(n) = {1, 2}
      /\ Rank(Frame(n)[1]) = 2 * n /\ Rank(Frame(n)[2]) = 2 * n + 1
      /\ Frame(n)[1].id = n /\ Frame(n)[2].id = n
  <2> HIDE DEF n
  <2> QED BY <1>1 DEF Frame, Piece, Rank
<1> HIDE DEF n
<1>3. ASSUME NEW i \in Requests PROVE Within(Later(i), Frame(n)) /\ \A p \in Later(i) : Bitten(p) \in Later(i)
  <2>1. \A p \in Later(i) : Bitten(p) \in Later(i)
    BY RankFacts DEF Later, Above
  <2>2. 2 * i + 1 < 2 * n /\ 2 * i + 1 < 2 * n + 1
    BY <1>1
  <2> QED BY <1>2, <2>1, <2>2 DEF Within, Later, Above
<1>4. ASSUME NEW M \in SUBSET Requests
      PROVE  Within(Begun(M), Frame(n)) /\ \A p \in Begun(M) : Bitten(p) \in Begun(M)
  <2>1. \A p \in Begun(M) : p \in Piece
    BY DEF Begun
  <2>2. n \notin M
    BY <1>1
  <2>3. Within(Begun(M), Frame(n))
    BY <1>2, <2>2 DEF Within, Begun
  <2> QED BY <2>1, <2>3, RankFacts
<1> QED BY <1>3, <1>4 DEF Lasting, n

\* What is left for the framer when a request was misread.
LEMMA MisreadRound ==
  ASSUME BaseInv, OrderInv, NEW c \in Conns, NEW alien \in Aliens, NEW n, NEW whole,
         Misread(c, alien, n, whole)
  PROVE  /\ InOrder(handler'[c].buffer, handler'[c].queue, up'[c])
         /\ \A P : (\A p \in P : Bitten(p) \in P) /\ Past(P, c)
                     => /\ AllWithin(P, handler'[c].buffer, handler'[c].queue, up'[c])
                        /\ \A i \in misread' \ misread : \E p \in P \cap Piece : p.id = i
         /\ \E M : /\ misread' = misread \cup M
                   /\ AllWithin(Begun(M), handler'[c].buffer, handler'[c].queue, up'[c])
<1> DEFINE all == Buffered(c)
           M == Of(all, n)
           left == handler'[c].buffer
           behind == handler'[c].queue
<1>1. /\ handler[c].queue # <<>> /\ all \in Seq(Piece) /\ n \in 1 .. Len(all)
      /\ Remains(all, n, left) /\ Again(handler[c].queue, behind)
      /\ misread' = misread \cup M /\ up' = up
  <2>1. handler[c].queue # <<>> /\ Buffered(c) \in Seq(Piece) /\ n \in 1 .. Len(Buffered(c))
    BY MisreadFacts
  <2>2. Remains(Buffered(c), n, handler'[c].buffer)
    BY MisreadFacts
  <2>3. Again(handler[c].queue, handler'[c].queue)
    BY MisreadFacts
  <2>4. misread' = misread \cup {Buffered(c)[k].id : k \in 1 .. n} /\ up' = up
    BY MisreadFacts
  <2> QED BY <2>1, <2>2, <2>3, <2>4 DEF Of
<1>2. /\ handler[c].buffer \in Seq(Piece) /\ handler[c].queue \in Seq(Seq(Piece)) /\ up[c] \in Seq(Piece)
      /\ InOrder(handler[c].buffer, handler[c].queue, up[c])
      /\ all = handler[c].buffer \o Head(handler[c].queue)
  BY HandlerFacts DEF OrderInv, Buffered
<1> HIDE DEF all, left, behind
<1>3. /\ InOrder(left, behind, up[c])
      /\ \A P : (\A p \in P : Bitten(p) \in P) /\ AllWithin(P, handler[c].buffer, handler[c].queue, up[c])
                  => Within(P, all) /\ AllWithin(P, left, behind, up[c])
      /\ AllWithin(Begun(M), left, behind, up[c])
  <2>1. /\ handler[c].buffer \in Seq(Piece) /\ handler[c].queue \in Seq(Seq(Piece))
        /\ up[c] \in Seq(Piece) /\ handler[c].queue # <<>>
        /\ InOrder(handler[c].buffer, handler[c].queue, up[c])
        /\ Again(handler[c].queue, behind) /\ all = handler[c].buffer \o Head(handler[c].queue)
        /\ n \in 1 .. Len(all) /\ Remains(all, n, left)
    BY <1>1, <1>2
  <2>2. PICK buffer \in Seq(Piece), queue \in Seq(Seq(Piece)), way \in Seq(Piece) :
          buffer = handler[c].buffer /\ queue = handler[c].queue /\ way = up[c]
    BY <2>1
  <2>3. /\ queue # <<>> /\ InOrder(buffer, queue, way) /\ Again(queue, behind)
        /\ all = buffer \o Head(queue)
    BY <2>1, <2>2
  <2>4. n \in 1 .. Len(all) /\ Remains(all, n, left)
    BY <2>1
  <2>5. InOrder(left, behind, way)
    BY ONLY <2>3, <2>4, MisreadOrder
  <2>6. \A P : (\A p \in P : Bitten(p) \in P) /\ AllWithin(P, buffer, queue, way)
                 => Within(P, all) /\ AllWithin(P, left, behind, way)
    BY ONLY <2>3, <2>4, MisreadOrder
  <2>7. AllWithin(Begun(Of(all, n)), left, behind, way)
    BY ONLY <2>3, <2>4, MisreadOrder
  <2> QED BY <2>2, <2>5, <2>6, <2>7
<1>4. \A P : Within(P, all) => \A i \in M : \E p \in P \cap Piece : p.id = i
  <2>1. \A k \in 1 .. n : k \in DOMAIN all /\ all[k] \in Piece
    BY <1>1
  <2> QED BY <2>1 DEF Within, Of
<1> HIDE DEF M
<1>5. \A i \in misread' \ misread : i \in M
  BY <1>1
<1> QED BY <1>1, <1>3, <1>4, <1>5 DEF left, behind, Past

\* Both orders at once: of the pieces, and of the pieces and what was executed.
LEMMA OrderStep ==
  ASSUME BaseInv, OrderInv, [Next]_vars, NEW c \in Conns
  PROVE  /\ InOrder(handler'[c].buffer, handler'[c].queue, up'[c])
         /\ \A P : Lasting(P) /\ Past(P, c)
                     => AllWithin(P, handler'[c].buffer, handler'[c].queue, up'[c])
<1> DEFINE buffer == handler[c].buffer
           queue == handler[c].queue
           way == up[c]
<1>0. /\ buffer \in Seq(Piece) /\ queue \in Seq(Seq(Piece)) /\ way \in Seq(Piece)
      /\ InOrder(buffer, queue, way)
      /\ Len(request) \in Nat /\ Requests = 1 .. Len(request)
  BY HandlerFacts, RequestFacts DEF OrderInv, BaseInv, RequestType
<1>1. CASE handler'[c].buffer = buffer /\ handler'[c].queue = queue /\ up'[c] = way
  BY <1>0, <1>1 DEF Past
<1>2. CASE handler'[c].buffer = <<>> /\ handler'[c].queue = <<>> /\ up'[c] \in {way, <<>>}
  BY <1>0, <1>2, NothingInOrder DEF InOrder, Past, AllWithin
<1>3. CASE handler'[c].buffer = buffer /\ handler'[c].queue = queue
           /\ up'[c] = way \o Frame(Len(request) + 1)
  <2>1. \A i \in Ids(way) \cup Ids(buffer) \cup UNION {Ids(queue[k]) : k \in DOMAIN queue} :
          i < Len(request) + 1
    <3>1. Ids(way) \cup Ids(buffer) \cup UNION {Ids(queue[k]) : k \in DOMAIN queue} \subseteq Travelling(c)
      BY DEF Travelling
    <3>2. \A i \in Travelling(c) : i \in Requests
      BY DEF BaseInv, CarriedInv
    <3>3. \A i \in Requests : i < Len(request) + 1
      BY <1>0
    <3> HIDE DEF way, buffer, queue
    <3> QED BY <3>1, <3>2, <3>3
  <2>2. Len(request) + 1 \in Nat
    BY <1>0
  <2> HIDE DEF way, buffer, queue
  <2>3. /\ InOrder(buffer, queue, way \o Frame(Len(request) + 1))
        /\ \A P : Within(P, Frame(Len(request) + 1)) /\ AllWithin(P, buffer, queue, way)
                    => AllWithin(P, buffer, queue, way \o Frame(Len(request) + 1))
    BY <1>0, <2>1, <2>2, SendOrder
  <2> QED BY <1>3, <2>3 DEF way, buffer, queue, Lasting, Past
<1>4. ASSUME NEW n \in 1 .. Len(up[c]), handler'[c].buffer = buffer,
             handler'[c].queue \in {queue, Append(queue, SubSeq(way, 1, n))},
             up'[c] = SubSeq(way, n + 1, Len(way))
      PROVE  /\ InOrder(handler'[c].buffer, handler'[c].queue, up'[c])
             /\ \A P : AllWithin(P, buffer, queue, way)
                         => AllWithin(P, handler'[c].buffer, handler'[c].queue, up'[c])
  <2> HIDE DEF buffer, queue
  <2>1. /\ InOrder(buffer, queue, up'[c]) /\ InOrder(buffer, Append(queue, SubSeq(way, 1, n)), up'[c])
        /\ \A P : AllWithin(P, buffer, queue, way)
             => /\ AllWithin(P, buffer, queue, up'[c])
                /\ AllWithin(P, buffer, Append(queue, SubSeq(way, 1, n)), up'[c])
    BY <1>0, <1>4, ReceiveOrder
  <2>2. CASE handler'[c].queue = queue
    BY <1>4, <2>1, <2>2
  <2>3. CASE handler'[c].queue = Append(queue, SubSeq(way, 1, n))
    BY <1>4, <2>1, <2>3
  <2> QED BY <1>4, <2>2, <2>3
<1>5. ASSUME NEW luck, Handle(c, luck)
      PROVE  /\ InOrder(handler'[c].buffer, handler'[c].queue, up'[c])
             /\ \A P : Past(P, c) => AllWithin(P, handler'[c].buffer, handler'[c].queue, up'[c])
  <2>1. /\ InOrder(handler'[c].buffer, handler'[c].queue, up[c]) /\ up' = up
        /\ \A P : Past(P, c) => AllWithin(P, handler'[c].buffer, handler'[c].queue, up[c])
    BY <1>5, RoundFacts
  <2> QED BY <2>1
<1>6. ASSUME NEW alien \in Aliens, NEW n, NEW whole, Misread(c, alien, n, whole)
      PROVE  /\ InOrder(handler'[c].buffer, handler'[c].queue, up'[c])
             /\ \A P : Lasting(P) /\ Past(P, c)
                         => AllWithin(P, handler'[c].buffer, handler'[c].queue, up'[c])
  BY <1>6, MisreadRound DEF Lasting
<1> QED BY <1>1, <1>2, <1>3, <1>4, <1>5, <1>6, PiecesStep DEF Past

\* The mode of the server stays; only a round of a handler executes requests.
LEMMA ServerSteps ==
  ASSUME BaseInv, [Next]_vars
  PROVE  /\ server'.mode = server.mode
         /\ executed' = executed \/ \E d \in Conns : \E luck : Handle(d, luck)
<1>1. server'.mode = server.mode
  <2>1. "mode" \in DOMAIN server
    BY DEF BaseInv, ServerType
  <2>2. ServerStep => server' = server \/ ServeForever \/ ServerClose
    <3>1. ASSUME NEW c \in Conns, NEW n, DataReceived(c, n) PROVE server' = server
      BY <3>1 DEF DataReceived
    <3>2. ASSUME NEW c \in Conns, NEW luck, Handle(c, luck) PROVE server' = server
      BY <3>2 DEF Handle
    <3>3. ASSUME NEW c \in Conns, NEW alien, NEW n, NEW whole, Misread(c, alien, n, whole)
          PROVE  server' = server
      BY <3>3 DEF Misread
    <3>4. ASSUME NEW c \in Conns, HandlerLost(c) PROVE server' = server
      BY <3>4 DEF HandlerLost
    <3> QED BY <3>1, <3>2, <3>3, <3>4 DEF ServerStep
  <2>3. server' = server \/ ServeForever \/ ServerClose
    BY <2>2 DEF Next, ClientStep, ClientOnly, ClientLost, Establish, Refused, Ask, serverVars, vars
  <2>4. ServeForever => server'.mode = server.mode
    BY <2>1 DEF ServeForever
  <2>5. ServerClose => server'.mode = server.mode
    BY <2>1 DEF ServerClose
  <2> QED BY <2>3, <2>4, <2>5
<1>2. executed' = executed \/ \E d \in Conns : \E luck : Handle(d, luck)
  BY DEF Next, ClientStep, ServerStep, ClientOnly, ClientLost, Establish, Refused, Ask,
     serverVars, vars, ServeForever, ServerClose, DataReceived, Misread, HandlerLost
<1> QED BY <1>1, <1>2

\* Every step keeps what was executed behind the framer.
LEMMA PastStep ==
  ASSUME BaseInv, OrderInv, PastInv, [Next]_vars
  PROVE  PastInv'
<1>0. Kept /\ executed \in Seq(Executed)
  BY KeptStep DEF BaseInv, ServerType
<1>1. ASSUME NEW i \in Requests, Past(Later(i), request[i].conn)
      PROVE  LET c == request'[i].conn
             IN i \in Requests' /\ AllWithin(Later(i), handler'[c].buffer, handler'[c].queue, up'[c])
  <2>1. request[i].conn \in Conns /\ Lasting(Later(i))
    BY RequestFacts, LastingFacts DEF BaseInv, RequestType
  <2>2. i \in Requests' /\ request'[i].conn = request[i].conn
    BY <1>0 DEF Kept
  <2> QED BY <1>1, <2>1, <2>2, OrderStep
<1>2. CASE executed' = executed
  BY <1>1, <1>2 DEF PastInv, Past
<1>3. ASSUME NEW d \in Conns, NEW luck, Handle(d, luck) PROVE PastInv'
  <2>1. PICK run \in Seq(Requests) :
           /\ \A k \in DOMAIN executed : k \in DOMAIN executed' /\ executed'[k] = executed[k]
           /\ \A k \in DOMAIN executed' \ DOMAIN executed :
                /\ k - Len(executed) \in DOMAIN run
                /\ executed'[k] = [id |-> run[k - Len(executed)],
                                   units |-> ExecutedOn(run[k - Len(executed)])]
           /\ \A j \in DOMAIN run :
                /\ request[run[j]].conn = d
                /\ AllWithin(Later(run[j]), handler'[d].buffer, handler'[d].queue, up[d])
           /\ UNCHANGED <<request, up>>
    BY <1>3, RoundFacts
  <2> SUFFICES ASSUME NEW k \in DOMAIN executed'
               PROVE  LET i == executed'[k].id
                          c == request'[i].conn
                      IN /\ i \in Requests'
                         /\ AllWithin(Later(i), handler'[c].buffer, handler'[c].queue, up'[c])
    BY DEF PastInv, Past
  <2>2. CASE k \in DOMAIN executed
    BY <1>1, <2>1, <2>2 DEF PastInv
  <2>3. CASE k \notin DOMAIN executed
    <3>1. PICK j \in DOMAIN run : executed'[k].id = run[j]
      BY <2>1, <2>3
    <3>2. run[j] \in Requests
      OBVIOUS
    <3>3. Requests' = Requests
      BY <2>1 DEF Requests
    <3> QED BY <2>1, <3>1, <3>2, <3>3
  <2> QED BY <2>2, <2>3
<1> QED BY <1>2, <1>3, ServerSteps

\* All that a connection has for the framer is of requests sent on it.
LEMMA SentOnIt ==
  ASSUME BaseInv, NEW c \in Conns
  PROVE  AllWithin({p \in Piece : p.id \in Requests /\ request[p.id].conn = c},
                   handler[c].buffer, handler[c].queue, up[c])
<1> DEFINE P == {p \in Piece : p.id \in Requests /\ request[p.id].conn = c}
<1>1. ASSUME NEW s \in Seq(Piece), Ids(s) \subseteq Travelling(c) PROVE Within(P, s)
  <2> SUFFICES ASSUME NEW a \in DOMAIN s PROVE s[a] \in P
    BY DEF Within
  <2>1. s[a] \in Piece /\ s[a].id \in Travelling(c)
    BY <1>1 DEF Ids
  <2> QED BY <2>1 DEF BaseInv, CarriedInv
<1>2. /\ handler[c].buffer \in Seq(Piece) /\ handler[c].queue \in Seq(Seq(Piece)) /\ up[c] \in Seq(Piece)
      /\ \A k \in DOMAIN handler[c].queue : handler[c].queue[k] \in Seq(Piece)
  BY HandlerFacts
<1> HIDE DEF P
<1>3. /\ Ids(handler[c].buffer) \subseteq Travelling(c) /\ Ids(up[c]) \subseteq Travelling(c)
      /\ \A k \in DOMAIN handler[c].queue : Ids(handler[c].queue[k]) \subseteq Travelling(c)
  BY DEF Travelling
<1>4. AllWithin(P, handler[c].buffer, handler[c].queue, up[c])
  BY <1>1, <1>2, <1>3 DEF AllWithin
<1> QED BY <1>4 DEF P

\* Every step keeps what was misread begun.
LEMMA BegunStep ==
  ASSUME BaseInv, OrderInv, StrayInv, BegunInv, [Next]_vars
  PROVE  BegunInv'
<1>0. Lasting(Begun(misread)) /\ \A p \in Begun(misread) : Bitten(p) \in Begun(misread)
  BY LastingFacts DEF StrayInv, Lasting
<1>1. ASSUME NEW c \in Conns
      PROVE  AllWithin(Begun(misread), handler'[c].buffer, handler'[c].queue, up'[c])
  BY <1>0, OrderStep DEF BegunInv
<1>2. CASE misread' = misread
  BY <1>1, <1>2 DEF BegunInv, Past
<1>3. ASSUME NEW d \in Conns, NEW alien \in Aliens, NEW n, NEW whole, Misread(d, alien, n, whole)
      PROVE  BegunInv'
  <2> SUFFICES ASSUME NEW c \in Conns
               PROVE  AllWithin(Begun(misread'), handler'[c].buffer, handler'[c].queue, up'[c])
    BY DEF BegunInv, Past
  <2>1. CASE c = d
    <3>1. PICK M : /\ misread' = misread \cup M
                   /\ AllWithin(Begun(M), handler'[c].buffer, handler'[c].queue, up'[c])
      BY <1>3, <2>1, MisreadRound
    <3>2. Begun(misread) \cap Begun(M) \subseteq Begun(misread')
      BY <3>1 DEF Begun
    <3>3. AllWithin(Begun(misread) \cap Begun(M), handler'[c].buffer, handler'[c].queue, up'[c])
      BY <1>1, <3>1, WiderFacts
    <3> QED BY <3>2, <3>3, WiderFacts
  <2>2. CASE c # d
    <3> DEFINE P == {p \in Piece : p.id \in Requests /\ request[p.id].conn = c}
    <3>1. handler'[c] = handler[c] /\ up' = up
      BY <1>3, <2>2, MisreadFacts
    <3>2. AllWithin(P, handler[c].buffer, handler[c].queue, up[c])
      BY SentOnIt
    <3>3. AllWithin(Begun(misread), handler[c].buffer, handler[c].queue, up[c])
      BY DEF BegunInv, Past
    <3>4. AllWithin(Begun(misread) \cap P, handler[c].buffer, handler[c].queue, up[c])
      <4> HIDE DEF P
      <4> QED BY <3>2, <3>3, WiderFacts
    <3>5. Begun(misread) \cap P \subseteq Begun(misread')
      BY <1>3, <2>2, MisreadMade DEF Begun
    <3>6. AllWithin(Begun(misread'), handler[c].buffer, handler[c].queue, up[c])
      <4> HIDE DEF P
      <4> QED BY <3>4, <3>5, WiderFacts
    <3> QED BY <3>1, <3>6
  <2> QED BY <2>1, <2>2
<1> QED BY <1>2, <1>3, MisreadStep

-----------------------------------------------------------------------------
(* Requests are served as they were sent                                   *)

ExecutedInOrder ==
  \A j, k \in DOMAIN executed :
    j < k /\ request[executed[j].id].conn = request[executed[k].id].conn
      => executed[j].id < executed[k].id
ExecutedWhereSent ==
  \A k \in DOMAIN executed :
    \/ executed[k].units \subseteq {0, request[executed[k].id].unit}
    \/ IsBroadcast(executed[k].id)
UntouchedInv == \A k \in DOMAIN executed : executed[k].id \notin misread
Served(i) ==
  /\ ~IsBroadcast(i)
  /\ \/ \E j \in DOMAIN executed : executed[j].id = i /\ executed[j].units # {}
     \/ request[i].unit \notin ToSet(Slaves)
AnsweredAsExecuted ==
  \A c \in Conns : \A k \in DOMAIN down[c] : down[c][k] \in Aliens \/ Served(down[c][k])

ServedInv ==
  /\ PastInv /\ BegunInv
  /\ ExecutedInOrder /\ ExecutedWhereSent /\ UntouchedInv /\ AnsweredAsExecuted

\* The invariant is what is promised, PastInv and BegunInv.
LEMMA ServedInvImplies ==
  ServedInv => ServedAsSent
<1> SUFFICES ASSUME ServedInv PROVE ServedAsSent
  OBVIOUS
<1>1. \A j, k \in DOMAIN executed :
       j < k /\ request[executed[j].id].conn = request[executed[k].id].conn
         => executed[j].id < executed[k].id
  BY DEF ServedInv, ExecutedInOrder
<1>2. \A k \in DOMAIN executed :
       LET i == executed[k].id
       IN /\ executed[k].units \subseteq {0, request[i].unit} \/ IsBroadcast(i)
          /\ i \notin misread
  BY DEF ServedInv, ExecutedWhereSent, UntouchedInv
<1>3. ASSUME NEW c \in Conns, NEW i \in ToSet(down[c]), i \notin Aliens PROVE Served(i)
  <2>1. PICK k \in DOMAIN down[c] : i = down[c][k]
    BY DEF ToSet
  <2> QED BY <1>3, <2>1 DEF ServedInv, AnsweredAsExecuted
<1> QED BY <1>1, <1>2, <1>3 DEF ServedAsSent, Served

\* What a round adds to what was served.
LEMMA ServedRound ==
  ASSUME BaseInv, OrderInv, ServedInv, [Next]_vars, NEW d \in Conns, NEW luck, Handle(d, luck)
  PROVE  ExecutedInOrder' /\ ExecutedWhereSent' /\ UntouchedInv' /\ AnsweredAsExecuted'
<1>1. PICK run \in Seq(Requests) :
        /\ executed' \in Seq(Executed) /\ Len(executed') = Len(executed) + Len(run)
        /\ \A k \in DOMAIN executed : k \in DOMAIN executed' /\ executed'[k] = executed[k]
        /\ \A k \in DOMAIN executed' \ DOMAIN executed :
             /\ k - Len(executed) \in DOMAIN run
             /\ executed'[k] = [id |-> run[k - Len(executed)],
                                units |-> ExecutedOn(run[k - Len(executed)])]
        /\ \A j \in DOMAIN run : request[run[j]].conn = d
        /\ \A j, k \in DOMAIN run : j < k => run[j] < run[k]
        /\ \A P : Past(P, d) => \A j \in DOMAIN run : [id |-> run[j], part |-> "head"] \in P
        /\ down' \in {down, [down EXCEPT ![d] = @ \o Answers(run)]}
        /\ UNCHANGED <<server, misread, request>>
  BY RoundFacts
<1>2. /\ executed \in Seq(Executed) /\ Len(executed) \in Nat
      /\ DOMAIN executed = 1 .. Len(executed) /\ DOMAIN executed' = 1 .. Len(executed')
      /\ run \in Seq(Nat) /\ Len(run) \in Nat /\ DOMAIN run = 1 .. Len(run)
      /\ \A j \in DOMAIN run : run[j] \in Requests /\ run[j] \in Nat
  <2>1. Requests \subseteq Nat
    BY RequestFacts DEF BaseInv, RequestType
  <2>2. run \in Seq(Nat)
    BY <2>1, SeqMonotonic
  <2> QED BY <1>1, <2>2 DEF BaseInv, ServerType
<1>3. /\ \A i : IsBroadcast(i)' = IsBroadcast(i)
      /\ \A i : ExecutedOn(i)' = ExecutedOn(i)
  BY <1>1 DEF IsBroadcast, ExecutedOn, Sent
<1>4. ExecutedInOrder'
  <2> SUFFICES ASSUME NEW j \in DOMAIN executed', NEW k \in DOMAIN executed', j < k,
                      request[executed'[j].id].conn = request[executed'[k].id].conn
               PROVE  executed'[j].id < executed'[k].id
    BY <1>1 DEF ExecutedInOrder
  <2>1. CASE k \in DOMAIN executed
    <3>1. j \in DOMAIN executed
      BY <1>2, <2>1
    <3> QED BY <1>1, <2>1, <3>1 DEF ServedInv, ExecutedInOrder
  <2>2. CASE k \notin DOMAIN executed /\ j \in DOMAIN executed
    <3>1. PICK b \in DOMAIN run : executed'[k].id = run[b]
      BY <1>1, <2>2
    <3>2. /\ executed'[j] = executed[j] /\ executed[j].id \in Requests
          /\ request[executed[j].id].conn = d
      BY <1>1, <2>2, <3>1 DEF ServedInv, PastInv
    <3>3. Past(Later(executed[j].id), d)
      BY <2>2, <3>2 DEF ServedInv, PastInv
    <3>4. [id |-> run[b], part |-> "head"] \in Later(executed[j].id)
      BY <1>1, <3>1, <3>3
    <3>5. 2 * executed[j].id + 1 < 2 * run[b]
      BY <3>4 DEF Later, Above, Rank
    <3>6. executed[j].id \in Nat /\ run[b] \in Nat
      <4>1. executed[j] \in Executed /\ run[b] \in Nat
        BY <1>2, <2>2, <3>1
      <4> QED BY <4>1 DEF Executed
    <3>7. executed[j].id < run[b]
      BY <3>5, <3>6
    <3> QED BY <3>1, <3>2, <3>7
  <2>3. CASE k \notin DOMAIN executed /\ j \notin DOMAIN executed
    <3>1. /\ k - Len(executed) \in DOMAIN run /\ j - Len(executed) \in DOMAIN run
          /\ executed'[k].id = run[k - Len(executed)] /\ executed'[j].id = run[j - Len(executed)]
      BY <1>1, <2>3
    <3>2. j - Len(executed) < k - Len(executed)
      BY <1>2
    <3> QED BY <1>1, <3>1, <3>2
  <2> QED BY <2>1, <2>2, <2>3
<1>5. ExecutedWhereSent'
  <2> SUFFICES ASSUME NEW k \in DOMAIN executed'
               PROVE  \/ executed'[k].units \subseteq {0, request[executed'[k].id].unit}
                      \/ IsBroadcast(executed'[k].id)
    BY <1>1, <1>3 DEF ExecutedWhereSent
  <2>1. CASE k \in DOMAIN executed
    BY <1>1, <2>1 DEF ServedInv, ExecutedWhereSent
  <2>2. CASE k \notin DOMAIN executed
    <3>1. PICK i \in Requests : executed'[k].id = i /\ executed'[k].units = ExecutedOn(i)
      BY <1>1, <1>2, <2>2
    <3> QED BY <3>1, ExecutedOnFacts
  <2> QED BY <2>1, <2>2
<1>6. UntouchedInv'
  <2> SUFFICES ASSUME NEW k \in DOMAIN executed' PROVE executed'[k].id \notin misread
    BY <1>1 DEF UntouchedInv
  <2>1. CASE k \in DOMAIN executed
    BY <1>1, <2>1 DEF ServedInv, UntouchedInv
  <2>2. CASE k \notin DOMAIN executed
    <3>1. PICK j \in DOMAIN run : executed'[k].id = run[j]
      BY <1>1, <2>2
    <3>2. [id |-> run[j], part |-> "head"] \in Begun(misread)
      BY <1>1, <3>1 DEF ServedInv, BegunInv
    <3> QED BY <3>1, <3>2 DEF Begun
  <2> QED BY <2>1, <2>2
<1>7. AnsweredAsExecuted'
  <2> DEFINE Is(i) == /\ ~IsBroadcast(i)
                      /\ \/ \E j \in DOMAIN executed' : executed'[j].id = i /\ executed'[j].units # {}
                         \/ request[i].unit \notin ToSet(Slaves)
             Right(i) == i \in Aliens \/ Is(i)
  <2>0. ASSUME NEW i, Served(i) PROVE Is(i)
    BY <1>1, <2>0 DEF Served
  <2>1. ASSUME NEW c \in Conns, NEW k \in DOMAIN down[c] PROVE Right(down[c][k])
    BY <2>0, <2>1 DEF ServedInv, AnsweredAsExecuted
  <2>2. ASSUME NEW i \in {run[j] : j \in DOMAIN run}, Answered(i) PROVE Right(i)
    <3>1. i \in Requests /\ ~IsBroadcast(i)
      BY <1>2, <2>2 DEF Answered
    <3>2. CASE ExecutedOn(i) = {}
      BY <3>1, <3>2, ExecutedOnFacts
    <3>3. CASE ExecutedOn(i) # {}
      <4>1. PICK j \in DOMAIN run : i = run[j]
        BY <2>2
      <4>2. PICK k \in Nat : k = Len(executed) + j
        BY <1>2, <4>1
      <4>3. k \in DOMAIN executed' \ DOMAIN executed /\ k - Len(executed) = j
        BY <1>1, <1>2, <4>1, <4>2
      <4>4. executed'[k] = [id |-> run[k - Len(executed)],
                            units |-> ExecutedOn(run[k - Len(executed)])]
        <5>1. \A x \in DOMAIN executed' \ DOMAIN executed :
                executed'[x] = [id |-> run[x - Len(executed)],
                                units |-> ExecutedOn(run[x - Len(executed)])]
          BY <1>1
        <5> QED BY <4>3, <5>1
      <4>5. executed'[k].id = i /\ executed'[k].units # {}
        BY <3>3, <4>1, <4>3, <4>4
      <4> QED BY <3>1, <4>3, <4>5
    <3> QED BY <3>2, <3>3
  <2> HIDE DEF Right
  <2>3. ASSUME NEW c \in Conns, NEW k \in DOMAIN down'[c] PROVE Right(down'[c][k])
    <3>0. down[c] \in Seq(Answer) /\ down \in [Conns -> Seq(Answer)]
      BY DEF BaseInv, LineType
    <3>1. CASE down'[c] = down[c]
      BY <2>1, <2>3, <3>1
    <3>2. CASE c = d /\ down'[c] = down[c] \o Answers(run)
      <4>1. /\ Answers(run) \in Seq(Answer)
            /\ \A b \in DOMAIN Answers(run) : Right(Answers(run)[b])
        BY <2>2, RunAnswers
      <4> QED BY <2>1, <2>3, <3>0, <3>2, <4>1, JoinedFacts
    <3>3. down'[c] = down[c] \/ (c = d /\ down'[c] = down[c] \o Answers(run))
      BY <1>1, <3>0
    <3> QED BY <3>1, <3>2, <3>3
  <2>4. \A i : Right(i) => i \in Aliens \/ Served(i)'
    BY <1>1, <1>3 DEF Right, Served
  <2> QED BY <2>3, <2>4 DEF AnsweredAsExecuted
<1> QED BY <1>4, <1>5, <1>6, <1>7

\* What was executed is not misread.
LEMMA UntouchedStep ==
  ASSUME BaseInv, OrderInv, PastInv, UntouchedInv, [Next]_vars, executed' = executed
  PROVE  UntouchedInv'
<1>1. CASE misread' = misread
  BY <1>1 DEF UntouchedInv
<1>2. ASSUME NEW d \in Conns, NEW alien \in Aliens, NEW n, NEW whole, Misread(d, alien, n, whole),
             NEW k \in DOMAIN executed, executed[k].id \in misread' \ misread
      PROVE  FALSE
  <2> DEFINE i == executed[k].id
  <2>1. i \in Requests /\ i \in Nat /\ request[i].conn = d /\ Past(Later(i), d)
    BY <1>2, MisreadMade, RequestFacts DEF PastInv, BaseInv, RequestType
  <2>2. \A p \in Later(i) : Bitten(p) \in Later(i)
    BY <2>1, LastingFacts DEF Lasting
  <2>3. PICK p \in Later(i) \cap Piece : p.id = i
    BY <1>2, <2>1, <2>2, MisreadRound
  <2> HIDE DEF i
  <2>4. 2 * i + 1 < Rank(p) /\ Rank(p) \in Nat /\ Rank(p) <= 2 * i + 1
    BY <2>3, RankFacts DEF Later, Above
  <2> QED BY <2>1, <2>4
<1> QED BY <1>1, <1>2, MisreadStep DEF UntouchedInv

\* Every step serves as it should.
LEMMA ServedStep ==
  ASSUME BaseInv, OrderInv, StrayInv, ServedInv, [Next]_vars
  PROVE  ServedInv'
<1>0. Kept /\ server'.mode = server.mode /\ PastInv' /\ BegunInv'
  BY KeptStep, ServerSteps, PastStep, BegunStep DEF ServedInv
<1>1. CASE executed' = executed /\ ~\E d \in Conns : \E luck : Handle(d, luck)
  <2>1. \A i \in Requests : /\ IsBroadcast(i)' = IsBroadcast(i)
                            /\ request'[i].unit = request[i].unit
                            /\ request'[i].conn = request[i].conn
    <3>1. \A i \in Requests : i \in Nat /\ Sent(i) = request[i] /\ Sent(i)' = request'[i]
      <4>1. Requests \subseteq Nat
        BY RequestFacts DEF BaseInv, RequestType
      <4> QED BY <4>1 DEF Sent
    <3> QED BY <1>0, <3>1 DEF Kept, IsBroadcast
  <2>2. \A k \in DOMAIN executed : executed[k].id \in Requests
    BY DEF ServedInv, PastInv
  <2>3. ExecutedInOrder' /\ ExecutedWhereSent' /\ UntouchedInv'
    BY <1>1, <2>1, <2>2, UntouchedStep DEF ServedInv, ExecutedInOrder, ExecutedWhereSent
  <2>4. AnsweredAsExecuted'
    <3>1. ASSUME NEW i \in Requests, Served(i) PROVE Served(i)'
      BY <1>1, <2>1, <3>1 DEF Served
    <3>2. ASSUME NEW c \in Conns, NEW j \in DOMAIN down[c], NEW i, i = down[c][j]
          PROVE  i \in Aliens \/ Served(i)'
      <4>1. i \in Aliens \/ i \in Requests
        BY <3>2, CarriedFacts
      <4>2. i \in Aliens \/ Served(i)
        BY <3>2 DEF ServedInv, AnsweredAsExecuted
      <4> QED BY <3>1, <4>1, <4>2
    <3>3. ASSUME NEW c \in Conns, NEW alien \in Aliens, NEW n, NEW whole,
                 Misread(c, alien, n, whole), NEW k \in DOMAIN down'[c]
          PROVE  down'[c][k] = alien \/ \E j \in DOMAIN down[c] : down'[c][k] = down[c][j]
      <4>1. down \in [Conns -> Seq(Answer)]
        BY DEF BaseInv, LineType
      <4>2. PICK new \in Seq({alien}) : down' = down \/ down' = [down EXCEPT ![c] = @ \o new]
        BY <3>3, MisreadFacts
      <4>3. CASE down' = down
        BY <3>3, <4>3
      <4>4. CASE down' = [down EXCEPT ![c] = @ \o new]
        <5>1. down'[c] = down[c] \o new /\ down[c] \in Seq(Answer)
          BY <4>1, <4>4
        <5> QED BY <3>3, <5>1, JoinedWith
      <4> QED BY <4>2, <4>3, <4>4
    <3>4. ASSUME NEW c \in Conns, NEW k \in DOMAIN down'[c]
          PROVE  down'[c][k] \in Aliens \/ \E j \in DOMAIN down[c] : down'[c][k] = down[c][j]
      BY <1>1, <3>3, <3>4, DownStep
    <3>5. ASSUME NEW c \in Conns, NEW k \in DOMAIN down'[c]
          PROVE  \E i : i = down'[c][k] /\ (i \in Aliens \/ Served(i)')
      <4>1. PICK i : i = down'[c][k]
        OBVIOUS
      <4>2. i \in Aliens \/ \E j \in DOMAIN down[c] : i = down[c][j]
        BY <3>4, <3>5, <4>1
      <4> QED BY <3>2, <4>1, <4>2
    <3> QED BY <3>5 DEF AnsweredAsExecuted, Served
  <2> QED BY <1>0, <2>3, <2>4 DEF ServedInv
<1>2. CASE \E d \in Conns : \E luck : Handle(d, luck)
  BY <1>0, <1>2, ServedRound DEF ServedInv
<1> QED BY <1>1, <1>2, ServerSteps

-----------------------------------------------------------------------------
\* The invariant holds at the start.
LEMMA InitInv ==
  ASSUME Init
  PROVE  BaseInv /\ IdsInv /\ OrderInv /\ StrayInv /\ ServedInv /\ AnsweredInv /\ WaitsInv
<1>1. /\ request = <<>> /\ executed = <<>> /\ misread = {}
      /\ near = [c \in Conns |-> "none"] /\ far = near
      /\ up = [c \in Conns |-> <<>>] /\ down = up
      /\ handler = [c \in Conns |-> NoHandler]
      /\ link = [c \in Conns |-> NewLink(0)] /\ client.protocol = None
      /\ "protocol" \in DOMAIN client
  BY DEF Init, ConnectionInit, ClientInit, ServerInit
<1>2. PICK s \in Scenarios : scenario = s /\ ServerInit(s.mode, s.ignore)
  BY DEF Init
<1>3. Requests = {} /\ DOMAIN executed = {}
  BY <1>1 DEF Requests
<1>4. RequestType
  <2>1. s.asks \in Seq([unit : Nat, kind : Kinds])
    BY <1>2, ScenariosAssumption DEF Kinds
  <2>2. Len(s.asks) \in Nat
    BY <2>1
  <2> QED BY <1>1, <1>2, <2>2 DEF RequestType
<1>5. ServerType
  <2>1. s.mode \in {"single", "many", "broadcast"} /\ s.ignore \in BOOLEAN
    BY ScenariosAssumption
  <2> QED BY <1>1, <1>2, <2>1, NoHandlerFacts DEF ServerType, ServerInit
<1>6. LineType
  <2>1. NewLink(0) \in Link
    BY TidAssumption DEF NewLink, Link
  <2>2. <<>> \in Seq(Piece) /\ <<>> \in Seq(Answer)
    OBVIOUS
  <2> QED BY <1>1, <2>1, <2>2 DEF LineType, Transport
<1>7. ASSUME NEW c \in Conns
      PROVE  /\ handler[c].queue = <<>> /\ handler[c].buffer = <<>> /\ up[c] = <<>>
             /\ down[c] = <<>> /\ link[c].pending = {}
  BY <1>1, NoHandlerFacts DEF NewLink
<1>8. \A c \in Conns : Travelling(c) = {}
  <2> SUFFICES ASSUME NEW c \in Conns PROVE Travelling(c) = {}
    OBVIOUS
  <2> QED BY <1>7, EmptyIds DEF Travelling
<1>9. BaseInv
  BY <1>1, <1>4, <1>5, <1>6, <1>8 DEF BaseInv, ProtocolType, CarriedInv
<1>10. IdsInv
  BY <1>8 DEF IdsInv
<1>11. OrderInv
  BY <1>7, NothingInOrder DEF OrderInv
<1>12. ServedInv
  <2>1. AnsweredAsExecuted
    BY <1>7 DEF AnsweredAsExecuted
  <2>2. BegunInv
    BY <1>7, NothingInOrder DEF BegunInv, Past
  <2> QED BY <1>3, <2>1, <2>2 DEF ServedInv, PastInv, ExecutedInOrder, ExecutedWhereSent, UntouchedInv
<1>13. AnsweredInv /\ WaitsInv /\ StrayInv
  BY <1>1, <1>3, <1>7 DEF AnsweredInv, WaitsInv, StrayInv
<1> QED BY <1>9, <1>10, <1>11, <1>12, <1>13

\* Every step keeps the types.
LEMMA BaseStep ==
  ASSUME BaseInv, [Next]_vars
  PROVE  BaseInv'
BY KeptStep, ServerTypeStep, LineTypeStep, ProtocolStep, CarriedStep DEF BaseInv

\* All of it together.
TcpInv ==
  BaseInv /\ IdsInv /\ OrderInv /\ StrayInv /\ ServedInv /\ AnsweredInv /\ WaitsInv

\* The inductive invariant.
LEMMA TcpInvariant == Spec => []TcpInv
<1>1. Init => TcpInv
  BY InitInv DEF TcpInv
<1>2. TcpInv /\ [Next]_vars => TcpInv'
  <2> SUFFICES ASSUME TcpInv, [Next]_vars PROVE TcpInv'
    OBVIOUS
  <2>1. OrderInv'
    BY OrderStep DEF OrderInv, TcpInv
  <2> QED BY <2>1, BaseStep, IdsStep, StrayStep, ServedStep, AnsweredStep, WaitsStep DEF TcpInv
<1> QED BY <1>1, <1>2, PTL DEF Spec

\* An answer resolves the request it is the answer to, or has id 0, or is to a
\* request that the server read in the bytes of one sent on the same connection
\* (DictTransactionManager.getTransaction, ModbusSocketFramer.processIncomingPacket).
THEOREM AnswersAreOwn == Spec => []OwnAnswer
<1>1. TcpInv => OwnAnswer
  BY DEF TcpInv, AnsweredInv, OwnAnswer, Strayed
<1> QED BY <1>1, TcpInvariant, PTL

\* Requests are executed in order, once, where they were sent to, not at all once
\* bytes of theirs were read as another, and what is answered was executed
\* (ModbusServerRequestHandler.handle, ModbusSocketFramer.processIncomingPacket).
THEOREM AllAreServedAsSent == Spec => []ServedAsSent
<1>1. TcpInv => ServedAsSent
  BY ServedInvImplies DEF TcpInv
<1> QED BY <1>1, TcpInvariant, PTL

\* No request waits on a connection that is lost, unless id 0 was used on it
\* (ModbusClientProtocol._connection_lost).
THEOREM NoneIsForgotten == Spec => []NoneForgotten
<1>1. TcpInv => NoneForgotten
  BY DEF TcpInv, WaitsInv, NoneForgotten
<1> QED BY <1>1, TcpInvariant, PTL
=============================================================================
