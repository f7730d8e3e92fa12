------------------------------ MODULE Extension ------------------------------
(***************************************************************************)
(* extension.ts: what activate() wires to the events of the connection     *)
(* manager - the file system providers, the adapters of the sidebar, the   *)
(* sync handlers and the status bar (ui/StatusBarManager.ts) - composed    *)
(* with the connection pool and the terminals.                             *)
(*                                                                         *)
(* The handler of a statusChange event reads the adapter at once and goes  *)
(* on after it has awaited the connection's configuration; meanwhile the   *)
(* pool moves on.                                                          *)
(***************************************************************************)
EXTENDS TerminalManager, Integers, FiniteSets

CONSTANT SecretsMayFail     \* getConnection() may reject

VARIABLES
    configured,     \* ids whose configuration exists
    kind,           \* per adapter: the method that opened its session
    pending,        \* handlers of "connected" that await the configuration
    schemes,        \* per protocol: the provider registered for remote-<protocol>
    sidebar,        \* SidebarProvider.adapters
    syncHandlers,   \* the adapter of each sync handler
    statusBar       \* the number of connections shown, 0 for none

wiringVars == <<configured, kind, pending, schemes, sidebar, syncHandlers, statusBar>>
vars == <<pool, terminalVars, wiringVars>>

Protocols == {"ssh", "ftp", "agent"}

\* connect() asks for a file channel, which an SSH server may refuse: the session is
\* registered and announced all the same.  connectTerminalOnly() does not ask for one.
Kinds == {"unused", "connect", "terminal"}

ASSUME ConnectionsAssumption == IsFiniteSet(Ids) /\ Protocol \in [Ids -> Protocols]

Provider == [id : Ids, adapter : Adapters]
Handler == [id : Ids, adapter : Adapters, protocol : Protocols]

TypeOK ==
    /\ PoolTypeOK /\ TerminalTypeOK
    /\ configured \subseteq Ids
    /\ kind \in [Adapters -> Kinds]
    /\ pending \subseteq Handler
    /\ schemes \in [Protocols -> Provider \cup {None}]
    /\ sidebar \in [Ids -> Adapters \cup {None}]
    /\ syncHandlers \in [Ids -> Adapters \cup {None}]
    /\ statusBar \in 0..Cardinality(Ids)

Init ==
    /\ PoolInit /\ TerminalInit
    /\ configured = Ids
    /\ kind = [a \in Adapters |-> "unused"]
    /\ pending = {}
    /\ schemes = [p \in Protocols |-> None]
    /\ sidebar = [id \in Ids |-> None]
    /\ syncHandlers = [id \in Ids |-> None]
    /\ statusBar = 0
-----------------------------------------------------------------------------
Active(c) == {id \in Ids : c[id].adapter # None}

CountShown(status, c) ==
    IF status \in {"connected", "disconnected"} THEN Cardinality(Active(c)) ELSE 0

\* Mutation of UpdateStatus: the event comes before the maps are updated.
UpdateStatusEarly(status, c) == statusBar' = CountShown(status, pool)

\* StatusBarManager.updateStatus() in the state c of the pool: while connecting
\* and after an error no count is shown.
UpdateStatus(status, c) == statusBar' = CountShown(status, c)

\* "if (event.status === 'connected')", when getAdapter() returns the new adapter.
GoesOn(q) == q.status = "connected"

\* The synchronous part of the statusChange handler, in the step that changes
\* the pool's entry of id to q.  A connection that is not configured any more
\* counts as ssh.
StatusChange(id, q) ==
    LET handler == [id |-> id, adapter |-> q.adapter,
                    protocol |-> IF id \in configured THEN Protocol[id] ELSE "ssh"]
    IN
    /\ pool' = [pool EXCEPT ![id] = q]
    /\ UpdateStatus(q.status, pool')
    /\ pending' = IF GoesOn(q) THEN pending \cup {handler} ELSE pending
    /\ sidebar' = IF q.status \in {"disconnected", "error"}
                  THEN [sidebar EXCEPT ![id] = None] ELSE sidebar
    /\ kind' = IF q.status = "connected" THEN [kind EXCEPT ![q.adapter] = "connect"]
               ELSE kind
    /\ UNCHANGED <<terminalVars, configured, schemes, syncHandlers>>

\* An event of the pool.  Adapters are new objects: a success brings an unused
\* one.
PoolEvent(id) ==
    \E q \in Announced(id) :
        /\ q.status = "connected" => kind[q.adapter] = "unused"
        /\ StatusChange(id, q)

\* The end of removeConnection(): no event.
Forget(id) ==
    /\ id \in configured
    /\ pool[id].adapter = None
    /\ pool' = [pool EXCEPT ![id] = Forgotten]
    /\ configured' = configured \ {id}
    /\ UNCHANGED <<terminalVars, kind, pending, schemes, sidebar, syncHandlers, statusBar>>

\* Mutations of Resume: the adapter is read after the await; the sidebar is
\* served before the scheme is registered.
ResumeReadsAdapter(h) ==
    LET a == pool[h.id].adapter IN
    /\ h \in pending
    /\ pending' = pending \ {h}
    /\ \/ /\ schemes[h.protocol] = None /\ a # None
          /\ schemes' = [schemes EXCEPT ![h.protocol] = [id |-> h.id, adapter |-> a]]
          /\ sidebar' = [sidebar EXCEPT ![h.id] = a]
          /\ syncHandlers' = [syncHandlers EXCEPT ![h.id] = a]
       \/ /\ schemes[h.protocol] # None \/ a = None
          /\ UNCHANGED <<schemes, sidebar, syncHandlers>>
    /\ UNCHANGED <<pool, terminalVars, configured, kind, statusBar>>

ResumeSidebarFirst(h) ==
    /\ h \in pending
    /\ pending' = pending \ {h}
    /\ sidebar' = [sidebar EXCEPT ![h.id] = h.adapter]
    /\ \/ /\ schemes[h.protocol] = None
          /\ schemes' = [schemes EXCEPT ![h.protocol] = [id |-> h.id, adapter |-> h.adapter]]
          /\ syncHandlers' = [syncHandlers EXCEPT ![h.id] = h.adapter]
       \/ /\ schemes[h.protocol] # None
          /\ UNCHANGED <<schemes, syncHandlers>>
    /\ UNCHANGED <<pool, terminalVars, configured, kind, statusBar>>

\* The rest of the handler, after the await.  A scheme is registered once and
\* stays until the extension is deactivated: for any later connection
\* registerFileSystemProvider() throws, and what follows is skipped.
Resume(h) ==
    /\ h \in pending
    /\ pending' = pending \ {h}
    /\ \/ /\ schemes[h.protocol] = None
          /\ schemes' = [schemes EXCEPT ![h.protocol] = [id |-> h.id, adapter |-> h.adapter]]
          /\ sidebar' = [sidebar EXCEPT ![h.id] = h.adapter]
          /\ syncHandlers' = [syncHandlers EXCEPT ![h.id] = h.adapter]
       \/ /\ schemes[h.protocol] # None
          /\ UNCHANGED <<schemes, sidebar, syncHandlers>>
    /\ UNCHANGED <<pool, terminalVars, configured, kind, statusBar>>

\* The secret storage rejects: the handler ends.
LookupFails(h) ==
    /\ SecretsMayFail
    /\ h \in pending
    /\ pending' = pending \ {h}
    /\ UNCHANGED <<pool, terminalVars, configured, kind, schemes, sidebar,
                   syncHandlers, statusBar>>

\* A step of a terminal; the session one opens is terminal-only.
Terminal(t) ==
    /\ TerminalStep(t)
    /\ LET opened == {pool'[id].adapter : id \in {i \in Ids : pool'[i] # pool[i]}} IN
       /\ \A a \in opened : kind[a] = "unused"
       /\ kind' = [a \in Adapters |-> IF a \in opened THEN "terminal" ELSE kind[a]]
    /\ UNCHANGED <<configured, pending, schemes, sidebar, syncHandlers, statusBar>>

Next ==
    \/ \E id \in Ids : PoolEvent(id) \/ Forget(id)
    \/ \E h \in pending : Resume(h) \/ LookupFails(h)
    \/ \E t \in Terminals : Terminal(t)
    \/ DisposeTerminals /\ UNCHANGED wiringVars

Spec == Init /\ [][Next]_vars
-----------------------------------------------------------------------------
\* A connection that can be browsed in the sidebar can be synchronised, and
\* over the same session: the handler is never left half done, although the
\* registration in its middle may throw.
BrowsableHasSync ==
    \A id \in Ids : sidebar[id] # None => syncHandlers[id] = sidebar[id]

\* What activate() wires to a connection - its provider, its entry in the sidebar, its
\* sync handler - has a session that connect() has opened, never a terminal-only one,
\* however the terminals overwrite the pool's adapters.  This is no promise of a file
\* channel: an SSH server may have refused it, and the commands of the menu take
\* whatever adapter the pool has by then, a terminal-only one too.
TerminalsAreNotWired ==
    /\ \A p \in Protocols : schemes[p] # None => kind[schemes[p].adapter] = "connect"
    /\ \A id \in Ids : \A a \in {sidebar[id], syncHandlers[id]} \ {None} :
            kind[a] = "connect"

\* The status bar never counts a connection that is closed.
BarNeverOvercounts == statusBar <= Cardinality(Active(pool))
=============================================================================
