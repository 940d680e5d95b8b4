----------------------------- MODULE Connection -----------------------------
(***************************************************************************)
(* Requests and answers between the asyncio client and the asyncio server  *)
(* of pymodbus over TCP: the two transports of every connection and the    *)
(* bytes under way.  A request's frame travels in two pieces, a head and a *)
(* tail, as TCP keeps the order of bytes but not the borders of writes; of *)
(* a piece that was read in part its rest is left.  An answer is short and *)
(* travels whole.  A request that nobody sent, but the server has read in  *)
(* the bytes of others, is named by a negative number.                     *)
(***************************************************************************)
EXTENDS Integers, Sequences, FiniteSets, SequencesExt

CONSTANTS
  Conns,       \* the connections there may be at a time
  TidModulus,  \* transaction identifiers (65536 in the code)
  None,        \* no connection
  Misreads     \* requests that bytes out of step may be taken for: tid, unit, kind

ASSUME TidAssumption == TidModulus \in Nat \ {0}
ASSUME NoneAssumption == None \notin Int
ASSUME MisreadsAssumption ==
  Misreads \in Seq([tid : 0 .. TidModulus - 1, unit : Nat,
                    kind : {"ok", "fails", "mute", "unsendable"}])

VARIABLES
  request,  \* what the client has sent: connection, tid, unit, kind and state
  near,     \* the client's transport of a connection: none, open, closing, lost
  far,      \* the server's
  up,       \* pieces of requests on the way to the server
  down      \* answers on the way to the client, named by what they answer

connectionVars == <<request, near, far, up, down>>

Requests == DOMAIN request
Aliens == {-k : k \in DOMAIN Misreads}

\* What the server has read as request i.
Sent(i) == IF i < 0 THEN Misreads[-i] ELSE request[i]

\* transport.write(): into the void when the transport is closing.
Frame(i) == <<[id |-> i, part |-> "head"], [id |-> i, part |-> "tail"]>>
Writes(queue, transport, data) == IF transport = "open" THEN queue \o data ELSE queue

\* transport.close(): connection_lost() will be called.
Closing(transport) == IF transport = "open" THEN "closing" ELSE transport

\* A connection can be made anew once both ends know that it is lost and no
\* request waits for it.
Unused(c) ==
  /\ near[c] \in {"none", "lost"} /\ far[c] \in {"none", "lost"}
  /\ \A i \in Requests : request[i].conn = c => request[i].state # "waiting"

ConnectionInit ==
  /\ request = <<>>
  /\ near = [c \in Conns |-> "none"] /\ far = near
  /\ up = [c \in Conns |-> <<>>] /\ down = up

\* connection_made() at both ends; nothing of an earlier connection is left.
Open(c) ==
  /\ near' = [near EXCEPT ![c] = "open"] /\ far' = [far EXCEPT ![c] = "open"]
  /\ up' = [up EXCEPT ![c] = <<>>] /\ down' = [down EXCEPT ![c] = <<>>]
=============================================================================
