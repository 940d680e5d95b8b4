---------------------------- MODULE AsyncClient ----------------------------
(***************************************************************************)
(* AsyncModbusTcpClient (client/tcp.py) and the ModbusClientProtocol that  *)
(* it makes for every connection (client/base.py): requests overlap, their *)
(* answers find them by the transaction id, and a lost connection is made  *)
(* again after a delay.                                                    *)
(***************************************************************************)
EXTENDS Connection

CONSTANTS
  MaxDelay,     \* the longest delay, the shortest is 1
  MaxAttempts   \* calls of _connect() under way at a time

ASSUME ClientAssumption == MaxDelay \in Nat \ {0} /\ MaxAttempts \in Nat

VARIABLES
  client,  \* connected, protocol, delay, reconnect (a task sleeps), attempts
           \* (under way), closed (close() was called, and connect() not since),
           \* late (an attempt was under way when it was)
  link     \* of each connection: tid, the last one used; pending, the requests
           \* of its transaction manager, entered in that order, none once it is lost

clientVars == <<client, link>>

NewLink(tid) == [tid |-> tid, pending |-> {}]

ClientInit ==
  /\ client = [connected |-> FALSE, protocol |-> None, delay |-> 1, reconnect |-> FALSE,
               attempts |-> 0, closed |-> TRUE, late |-> FALSE]
  /\ link = [c \in Conns |-> NewLink(0)]

-----------------------------------------------------------------------------
(* DictTransactionManager                                                  *)

NextTid(tid) == (tid + 1) % TidModulus

\* addTransaction().  Fewer requests are made than there are ids, so that none
\* takes the place of another.
Added(pending, i) == pending \cup {i}

\* Mutant of Found: as the manager of serial clients, the one that waits longest.
FirstPending(pending, tid) == IF pending = {} THEN None ELSE Min(pending)

\* getTransaction(): the request with that id; for id 0 the one entered last.
Found(pending, tid) ==
  LET same == {i \in pending : request[i].tid = tid}
  IN IF tid = 0 /\ pending # {} THEN Max(pending)
     ELSE IF same = {} THEN None
     ELSE CHOOSE i \in same : TRUE

Without(pending, i) == pending \ {i}

\* Mutant of FailsAll: a loop over the dictionary itself ends when it shrinks.
FailsOne(pending) == [left |-> IF pending = {} THEN {} ELSE pending \ {Min(pending)}, raised |-> FALSE]

\* _connection_lost(): the loop over the ids finds the requests one after the
\* other.  When id 0 has taken the last one instead of its own, that one's turn
\* ends in an AttributeError, and the one with id 0 stays.
FailsAll(pending) ==
  LET zero == {i \in pending : request[i].tid = 0 /\ i # Max(pending)}
  IN [left |-> zero, raised |-> zero # {}]

\* resolve_future(), raise_future(), and the end of wait_for(): only a future
\* that is not done.
Settled(i, state, by) ==
  IF request[i].state \in {"waiting", "broadcast"}
    THEN [request EXCEPT ![i].state = state, ![i].by = by] ELSE request

-----------------------------------------------------------------------------
\* connect() of the application, again if it likes to.
Connect ==
  /\ client.attempts < MaxAttempts
  /\ client' = [client EXCEPT !.delay = 1, !.attempts = @ + 1, !.closed = FALSE, !.late = FALSE]
  /\ UNCHANGED <<link, connectionVars>>

\* An attempt succeeds: connection_made(), protocol_made_connection().  A second
\* connection is kept, but the client goes on with the first.  Requests before
\* those of the model have come to id tid.
Made(c, tid) ==
  /\ client.attempts > 0
  /\ client' = [client EXCEPT !.attempts = @ - 1, !.delay = 1, !.connected = TRUE,
                              !.protocol = IF client.connected THEN @ ELSE c]
  /\ link' = [link EXCEPT ![c] = NewLink(tid)]

\* Mutant of Launched: the shortest delay is taken for none.
LaunchedIfLonger(state) == IF state.delay > 1 THEN [state EXCEPT !.reconnect = TRUE] ELSE state

\* _launch_reconnect(): one at a time.
Launched(state) == IF state.delay > 0 THEN [state EXCEPT !.reconnect = TRUE] ELSE state

\* An attempt fails.
AttemptFails ==
  /\ client.attempts > 0
  /\ client' = Launched([client EXCEPT !.attempts = @ - 1])
  /\ UNCHANGED <<link, connectionVars>>

\* _reconnect(), after the delay.
Woken == [client EXCEPT !.reconnect = FALSE]
Wake ==
  /\ client.reconnect /\ client.attempts < MaxAttempts
  /\ client' = [Woken EXCEPT !.delay = IF 2 * @ > MaxDelay THEN MaxDelay ELSE 2 * @,
                             !.attempts = @ + 1]
  /\ UNCHANGED <<link, connectionVars>>

\* execute() of a request: it is written, and entered among the pending ones.
\* A broadcast is not waited for, but it is entered all the same.
Execute(unit, kind, broadcast) ==
  LET c == client.protocol
      i == Len(request) + 1
  IN /\ c # None /\ near[c] # "lost"
     /\ request' = Append(request, [conn |-> c, tid |-> NextTid(link[c].tid), unit |-> unit,
                                    kind |-> kind, by |-> None,
                                    state |-> IF broadcast THEN "broadcast" ELSE "waiting"])
     /\ up' = [up EXCEPT ![c] = Writes(@, near[c], Frame(i))]
     /\ link' = [link EXCEPT ![c].tid = NextTid(@), ![c].pending = Added(@, i)]
     /\ UNCHANGED <<client, near, far, down>>

\* An answer is received, and resolves what is found for its id.
Receive(c) ==
  /\ near[c] = "open" /\ down[c] # <<>>
  /\ LET answer == Head(down[c])
         found == Found(link[c].pending, Sent(answer).tid)
     IN /\ request' = IF found = None THEN request ELSE Settled(found, "answered", answer)
        /\ link' = [link EXCEPT ![c].pending = Without(@, found)]
  /\ down' = [down EXCEPT ![c] = Tail(@)]
  /\ UNCHANGED <<client, near, far, up>>

\* wait_for() gives up; the future stays among the pending ones.
Timeout(i) ==
  /\ request[i].state = "waiting"
  /\ request' = Settled(i, "timeout", None)
  /\ UNCHANGED <<clientVars, near, far, up, down>>

\* connection_lost(): the pending requests fail, then the client is told, which
\* takes any protocol for its own.
Lost(c) ==
  LET lost == FailsAll(link[c].pending)
      failed == link[c].pending \ lost.left
  IN /\ near' = [near EXCEPT ![c] = "lost"]
     /\ down' = [down EXCEPT ![c] = <<>>]
     /\ request' = [i \in Requests |->
                      IF i \in failed THEN Settled(i, "failed", None)[i] ELSE request[i]]
     /\ link' = [link EXCEPT ![c] = NewLink(0)]
     /\ client' = IF lost.raised THEN client
                  ELSE Launched([client EXCEPT !.connected = FALSE, !.protocol = None])
     /\ UNCHANGED <<far, up>>

\* Mutant of Cancelled: a task that sleeps goes on.
StillLaunched == client

\* close(): no more reconnecting, unless an attempt is under way.
Cancelled == [client EXCEPT !.reconnect = FALSE]
Close ==
  /\ client' = [Cancelled EXCEPT !.delay = 0, !.closed = TRUE, !.late = client.attempts > 0]
  /\ near' = [c \in Conns |-> IF client.connected /\ c = client.protocol
                                THEN Closing(near[c]) ELSE near[c]]
  /\ UNCHANGED <<link, request, far, up, down>>
=============================================================================
