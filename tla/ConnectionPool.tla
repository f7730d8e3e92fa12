--------------------------- MODULE ConnectionPool ---------------------------
(***************************************************************************)
(* What the other parts of the extension see of core/ConnectionManager.ts: *)
(* for each connection a status and the adapter getAdapter() returns, and  *)
(* the changes of the two that may be seen.  Most changes come with a      *)
(* statusChange event.  ConnectionManager implements this module.          *)
(***************************************************************************)
CONSTANTS
    Ids,            \* connection ids
    Adapters,       \* adapter objects
    None            \* no adapter

ASSUME AdaptersAssumption == None \notin Adapters

VARIABLE pool       \* per id: getStatus() and getAdapter()

PoolTypeOK ==
    pool \in [Ids -> [status : {"idle", "connecting", "connected",
                                "disconnected", "error"},
                      adapter : Adapters \cup {None}]]

PoolInit == pool = [id \in Ids |-> [status |-> "idle", adapter |-> None]]

Unregistered == {a \in Adapters : \A id \in Ids : pool[id].adapter # a}

\* What may follow pool[id] with an event: an attempt begins, succeeds with an
\* adapter nobody had, or fails; the keepalive finds the adapter dead and
\* leaves it registered; the connection is closed.
Announced(id) ==
    LET p == pool[id] IN
    {q \in {[p EXCEPT !.status = "connecting"]} :
        p.status \notin {"connected", "connecting"}}
    \cup {[status |-> "connected", adapter |-> a] : a \in Unregistered}
    \cup {[p EXCEPT !.status = "error"]}
    \cup {q \in {[p EXCEPT !.status = "disconnected"]} : p.adapter # None}
    \cup {[status |-> "disconnected", adapter |-> None]}

\* setAdapter() of a terminal-only session, and the end of removeConnection().
TerminalOnly(id) == {[pool[id] EXCEPT !.adapter = a] : a \in Unregistered}

Forgotten == [status |-> "idle", adapter |-> None]

\* A keepalive check may announce the end of several connections at once.
PoolNext ==
    /\ DOMAIN pool' = Ids
    /\ \A id \in Ids :
          \/ pool'[id] = pool[id]
          \/ pool'[id] \in {Forgotten} \cup Announced(id) \cup TerminalOnly(id)

PoolSpec == PoolInit /\ [][PoolNext]_pool
=============================================================================
