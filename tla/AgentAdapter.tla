---------------------------- MODULE AgentAdapter ----------------------------
(***************************************************************************)
(* adapters/AgentAdapter.ts: requests over a pool of sockets, with         *)
(* redirects, a limit on the response and a timeout on an idle socket; and *)
(* what is checked of the host that is configured.                         *)
(*                                                                         *)
(* Of an address it matters in which private network it is.  A response is *)
(* a number of chunks; of the body of a redirect, which is read and        *)
(* dropped without a limit, it matters how long it keeps its socket.       *)
(* Where a redirect leads and informational responses are left out.        *)
(***************************************************************************)
EXTENDS Integers, FiniteSets

CONSTANTS
    Requests,       \* bound: calls that run at a time
    MaxRedirects,   \* 5 in the code
    MaxResponse,    \* MAX_RESPONSE_SIZE, in chunks
    MaxSockets,     \* maxSockets of an http.Agent, 10 in the code
    Octets          \* bound: the octets of the addresses tried

ASSUME AgentAssumption ==
    /\ MaxRedirects \in Nat /\ MaxResponse \in Nat /\ MaxSockets \in Nat \ {0}
    /\ Octets \subseteq 0..255

VARIABLES
    session,        \* "none", "health" while connect() waits, "connected", "failed", "closed"
    pool,           \* the http.Agents exist
    requests,       \* the calls and their requests
    draining        \* per pool: the sockets on which the body of a redirect comes in

agentVars == <<session, pool, requests, draining>>

\* A call waits for a socket, for the response, for its chunks, or is over while its
\* response is still on the socket.  A request that is made after disconnect() is late:
\* it has a pool of its own.
Request == [pc : {"idle", "queued", "sent", "chunks", "unread"},
            sent : 0..(MaxRedirects + 1), size : 0..(MaxResponse + 1),
            health : BOOLEAN, late : BOOLEAN]

\* The adapter's session, its pool and the running calls.
AgentTypeOK ==
    /\ session \in {"none", "health", "connected", "failed", "closed"}
    /\ pool \in BOOLEAN
    /\ requests \in [Requests -> Request]
    /\ draining \in [BOOLEAN -> 0..MaxSockets]

Free == [pc |-> "idle", sent |-> 0, size |-> 0, health |-> FALSE, late |-> FALSE]

AgentInit ==
    /\ session = "none"
    /\ pool = FALSE
    /\ requests = [r \in Requests |-> Free]
    /\ draining = [late \in BOOLEAN |-> 0]

OnSocket == {r \in Requests : requests[r].pc \in {"sent", "chunks", "unread"}}

Late == session = "closed"

Become(r, request) == requests' = [requests EXCEPT ![r] = request]
-----------------------------------------------------------------------------
(* Checks                                                                  *)

\* validateHost(): the addresses that are refused, by their first two octets.
RefusedAddress(a, b) ==
    \/ a = 10
    \/ a = 172 /\ b >= 16 /\ b <= 31
    \/ a = 192 /\ b = 168
    \/ a = 169 /\ b = 254
-----------------------------------------------------------------------------
(* connect() and disconnect()                                              *)

\* A request is made ready; the pool is made if there is none.
Submit(r, health) ==
    /\ requests[r] = Free
    /\ Become(r, [Free EXCEPT !.pc = "queued", !.sent = 1, !.health = health,
                           !.late = Late])
    /\ pool' = TRUE

\* The host is refused, or a health check is made.
Connect(r) ==
    /\ session = "none"
    /\ \/ Submit(r, TRUE) /\ session' = "health"
       \/ session' = "failed" /\ UNCHANGED <<pool, requests>>
    /\ UNCHANGED draining

\* The manager disconnects an adapter once, after connect().  The sockets of the pool
\* are destroyed, and the calls on them reject; Node gives the calls that queue others.
Disconnect ==
    /\ session = "connected"
    /\ session' = "closed"
    /\ pool' = FALSE
    /\ requests' = [r \in Requests |-> IF r \in OnSocket THEN Free ELSE requests[r]]
    /\ draining' = [draining EXCEPT ![FALSE] = 0]

\* An operation of the interface, of a provider that has the adapter: it does not
\* look at the session.
Call(r) ==
    /\ session \in {"connected", "closed"}
    /\ Submit(r, FALSE)
    /\ UNCHANGED <<session, draining>>

\* The call of r ends; a health check ends connect().
Settle(r, ok, pc) ==
    /\ Become(r, IF pc = "idle" THEN Free ELSE [requests[r] EXCEPT !.pc = pc])
    /\ session' = IF requests[r].health /\ session = "health"
                  THEN IF ok THEN "connected" ELSE "failed" ELSE session
-----------------------------------------------------------------------------
(* apiRequest()                                                            *)

\* The requests that have a socket of a pool.
Sockets(late) == {r \in OnSocket : requests[r].late = late}

\* Node: a socket of the pool is free.
GetSocket(r) ==
    LET late == requests[r].late IN
    /\ requests[r].pc = "queued"
    /\ Cardinality(Sockets(late)) + draining[late] < MaxSockets
    /\ Become(r, [requests[r] EXCEPT !.pc = "sent"])
    /\ UNCHANGED <<session, pool, draining>>

\* Mutation of Redirect: one redirect more is followed.
RedirectOneMore(r) ==
    LET request == requests[r] IN
    /\ request.pc = "sent"
    /\ IF request.sent > MaxRedirects + 1
       THEN Settle(r, FALSE, "unread") /\ UNCHANGED <<pool, draining>>
       ELSE /\ Become(r, [request EXCEPT !.pc = "queued", !.sent = @ + 1, !.late = Late])
            /\ draining' = [draining EXCEPT ![request.late] = @ + 1]
            /\ pool' = TRUE
            /\ UNCHANGED session

\* A redirect makes another request, over the pool there is by then, unless there
\* were too many; its body stays on the socket until it ends.  That of the last one is
\* not read.
Redirect(r) ==
    LET request == requests[r] IN
    /\ request.pc = "sent"
    /\ IF request.sent > MaxRedirects
       THEN Settle(r, FALSE, "unread") /\ UNCHANGED <<pool, draining>>
       ELSE /\ Become(r, [request EXCEPT !.pc = "queued", !.sent = @ + 1, !.late = Late])
            /\ draining' = [draining EXCEPT ![request.late] = @ + 1]
            /\ pool' = TRUE
            /\ UNCHANGED session

\* The body of a redirect has ended, or its socket fails or is silent for 30 seconds:
\* then the call rejects, although its next request goes on.  During connect() there is
\* no other call.
Drained(late) ==
    /\ draining[late] > 0
    /\ draining' = [draining EXCEPT ![late] = @ - 1]
    /\ session' \in {session} \cup (IF session = "health" THEN {"failed"} ELSE {})
    /\ UNCHANGED <<pool, requests>>

\* Another response begins; its content-length may be over the limit.
Response(r) ==
    /\ requests[r].pc = "sent"
    /\ \/ Become(r, [requests[r] EXCEPT !.pc = "chunks"]) /\ UNCHANGED session
       \/ Settle(r, FALSE, "idle")
    /\ UNCHANGED <<pool, draining>>

\* Mutation of Chunk: the limit is looked at before the chunk is counted.
ChunkUncounted(r) ==
    /\ requests[r].pc = "chunks"
    /\ IF requests[r].size <= MaxResponse
       THEN Become(r, [requests[r] EXCEPT !.size = @ + 1]) /\ UNCHANGED session
       ELSE Settle(r, FALSE, "idle")
    /\ UNCHANGED <<pool, draining>>

\* A chunk over the limit destroys the request.
Chunk(r) ==
    /\ requests[r].pc = "chunks"
    /\ IF requests[r].size < MaxResponse
       THEN Become(r, [requests[r] EXCEPT !.size = @ + 1]) /\ UNCHANGED session
       ELSE Settle(r, FALSE, "idle")
    /\ UNCHANGED <<pool, draining>>

\* The response ends, with a status that is a success or not.
End(r) ==
    /\ requests[r].pc = "chunks"
    /\ \E ok \in BOOLEAN : Settle(r, ok, "idle")
    /\ UNCHANGED <<pool, draining>>

\* The socket or the response fails.
Fail(r) ==
    /\ r \in OnSocket
    /\ Settle(r, FALSE, "idle")
    /\ UNCHANGED <<pool, draining>>

\* Nothing has come over the socket for 30 seconds.
Timeout(r) ==
    /\ requests[r].pc \in {"sent", "chunks", "unread"}
    /\ Settle(r, FALSE, "idle")
    /\ UNCHANGED <<pool, draining>>

AgentStep(r) ==
    \/ Connect(r) \/ Call(r) \/ GetSocket(r) \/ Redirect(r)
    \/ Response(r) \/ Chunk(r) \/ End(r) \/ Fail(r) \/ Timeout(r)

AgentNext ==
    \/ Disconnect
    \/ \E r \in Requests : AgentStep(r)
    \/ \E late \in BOOLEAN : Drained(late)

\* A socket that is silent times out, and one that is not is over after MaxResponse
\* chunks; the requests of a pool queue for its sockets.  Of the body of a redirect
\* nothing is assumed: a server may send it for ever.
AgentFairness == \A r \in Requests : WF_agentVars(Timeout(r)) /\ SF_agentVars(GetSocket(r))
-----------------------------------------------------------------------------
\* The addresses of 10/8, 172.16/12, 192.168/16 and 169.254/16: two are in the same
\* network if they agree but for the last bits, those below its size.
Private(a, b) ==
    LET network(x, y, size) == (256 * x + y) \div size IN
    \/ network(a, b, 256) = network(10, 0, 256)
    \/ network(a, b, 16) = network(172, 16, 16)
    \/ network(a, b, 1) = network(192, 168, 1)
    \/ network(a, b, 1) = network(169, 254, 1)

\* The chunks the responses of a pool occupy in memory, by their requests.
Kept(late) == {chunk \in Requests \X (1..(MaxResponse + 1)) :
                  requests[chunk[1]].late = late /\ chunk[2] <= requests[chunk[1]].size}

\* What is refused of the addresses are the private networks, to the bit; and what the
\* responses of a pool occupy in memory together is bounded by its sockets, with or
\* without a truthful content-length, over redirects, failures and a disconnect().
RequestsAreConfined ==
    /\ \A a, b \in Octets : RefusedAddress(a, b) = Private(a, b)
    /\ \A late \in BOOLEAN : Cardinality(Kept(late)) <= MaxSockets * MaxResponse

\* Every call of an agent's ends, and leaves its socket to others: a server that is
\* silent, redirects in circles, declares lengths that are not true or never comes to an
\* end cannot use the pool up.  It can with redirects whose bodies it sends for ever,
\* for these are read without a limit: once they hold all sockets of a pool, every other
\* call waits for ever, with no timeout.
CallsEnd ==
    \A r \in Requests :
        \/ \E late \in BOOLEAN : <>[](draining[late] = MaxSockets)
        \/ requests[r].pc # "idle" ~> requests[r].pc = "idle"
=============================================================================
