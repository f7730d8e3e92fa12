------------------------- MODULE ConnectionManager -------------------------
(***************************************************************************)
(* core/ConnectionManager.ts with the parts of adapters/SSHAdapter.ts and  *)
(* terminal/TerminalManager.ts that open and close its sessions: the       *)
(* connection pool, automatic reconnection, the keepalive loop and         *)
(* disposal.                                                               *)
(*                                                                         *)
(* A session is one call of connect() or ensureConnected() together with   *)
(* the adapter it creates: the call may end (60 s timeout) while the       *)
(* adapter lives on, and an adapter may outlive its registration.  What    *)
(* runs between two awaits that wait for something outside the program is  *)
(* one action; a continuation that only waits for an already settled       *)
(* promise belongs to the action that settled it.                          *)
(*                                                                         *)
(* Time is abstracted: a timer that is armed may fire.  Credentials and    *)
(* the file of configurations are left out.                                *)
(***************************************************************************)
EXTENDS Integers, FiniteSets

CONSTANTS
    Ids,            \* connection ids
    SshIds,         \* those with the protocol ssh; the others have ftp or agent
    Sessions,       \* bound: sessions alive or being opened at a time
    None,           \* no adapter
    MaxAttempts     \* MAX_RECONNECT_ATTEMPTS, 3 in the code

ASSUME SessionsAssumption == IsFiniteSet(Sessions) /\ None \notin Sessions
ASSUME SshAssumption == SshIds \subseteq Ids
ASSUME AttemptsAssumption == MaxAttempts \in Nat \ {0}

VARIABLES
    conn,           \* per id: the entries of the manager's maps
    sess,           \* per session: its connect call and its adapter
    keepalive,      \* keepaliveInterval: null, armed, or fired and not null
    autoReconnect,  \* the cached setting
    disposal        \* dispose(): not called, awaiting a disconnect, finished

vars == <<conn, sess, keepalive, autoReconnect, disposal>>

Statuses == {"idle", "connecting", "connected", "disconnected", "error"}

\* An adapter's link: "dialing" until the handshake ends; "partial" is an SSH
\* client whose SFTP channel was refused; "lost" is a dead socket or server that the
\* adapter has not noticed.
Links == {"down", "dialing", "up", "partial", "lost"}

\* Who awaits the adapter's disconnect().
Closers == {"user", "remove", "dispose"}

Conn == [config : {"absent", "present", "removed"},
         status : Statuses,             \* statusMap, "idle" when unset
         adapter : Sessions \cup {None},\* activeAdapters
         timer : BOOLEAN,               \* reconnectTimers
         attempts : 0..MaxAttempts,     \* reconnectAttempts
         cooled : BOOLEAN,              \* lastReconnectTime is 5 min ago
         inProgress : BOOLEAN,          \* reconnectingInProgress
         blocked : BOOLEAN]             \* reconnectBlocked

Session == [id : Ids,
            by : {"nobody", "user", "timer", "terminal"},
            pc : {"idle", "lookup", "race"},
            link : Links,
            closers : SUBSET Closers]

\* The manager's maps, the sessions, the keepalive field and the setting.
TypeOK ==
    /\ conn \in [Ids -> Conn]
    /\ sess \in [Sessions -> Session]
    /\ keepalive \in {"off", "armed", "fired"}
    /\ autoReconnect \in BOOLEAN
    /\ disposal \in {"no", "running", "done"}

\* loadConfigurations(): the ids found in the file are configured.
Init ==
    /\ conn \in [Ids -> {[config |-> f, status |-> "idle", adapter |-> None,
                          timer |-> FALSE, attempts |-> 0, cooled |-> TRUE,
                          inProgress |-> FALSE, blocked |-> FALSE]
                         : f \in {"absent", "present"}}]
    /\ \E id \in Ids :
        sess = [s \in Sessions |-> [id |-> id, by |-> "nobody", pc |-> "idle",
                                    link |-> "down", closers |-> {}]]
    /\ keepalive = "off"
    /\ autoReconnect \in BOOLEAN
    /\ disposal = "no"
-----------------------------------------------------------------------------
(* The synchronous parts of the manager's methods, as functions of the     *)
(* entries c of one id.                                                    *)

\* Mutations of StartReconnect: without guard 1; the cooldown never resets the
\* counter.
StartReconnectUnguarded(c) ==
    IF c.inProgress \/ c.timer THEN c
    ELSE IF c.attempts >= MaxAttempts /\ ~c.cooled THEN [c EXCEPT !.status = "error"]
    ELSE [c EXCEPT !.inProgress = TRUE, !.timer = TRUE, !.cooled = FALSE,
                   !.attempts = IF @ >= MaxAttempts THEN 1 ELSE @ + 1]

StartReconnectGivesUp(c) ==
    IF c.blocked \/ c.inProgress \/ c.timer THEN c
    ELSE IF c.attempts >= MaxAttempts THEN [c EXCEPT !.status = "error"]
    ELSE [c EXCEPT !.inProgress = TRUE, !.timer = TRUE, !.cooled = FALSE,
                   !.attempts = @ + 1]

\* startReconnect()
StartReconnect(c) ==
    IF c.blocked \/ c.inProgress \/ c.timer THEN c
    ELSE IF c.attempts >= MaxAttempts /\ ~c.cooled THEN [c EXCEPT !.status = "error"]
    ELSE [c EXCEPT !.inProgress = TRUE, !.timer = TRUE, !.cooled = FALSE,
                   !.attempts = IF @ >= MaxAttempts THEN 1 ELSE @ + 1]

\* The end of the reconnect timer's callback, after connect() returned or threw.
CallReturns(c, by) == IF by = "timer" THEN [c EXCEPT !.inProgress = FALSE] ELSE c

CallThrows(c, by) ==
    IF by = "timer"
    THEN StartReconnect([c EXCEPT !.inProgress = FALSE, !.timer = FALSE])
    ELSE c

\* Mutation of BeginDisconnect: the mark of a running cycle stays.
BeginDisconnectKeepsMark(c) == [c EXCEPT !.blocked = TRUE, !.timer = FALSE]

\* disconnect(), before and after it awaits the adapter.
BeginDisconnect(c) ==
    [c EXCEPT !.blocked = TRUE, !.timer = FALSE, !.inProgress = FALSE]

\* Mutation of EndDisconnect: the adapter goes, the status is not updated.
EndDisconnectSilently(c) == [c EXCEPT !.adapter = None]

EndDisconnect(c) == [c EXCEPT !.adapter = None, !.status = "disconnected"]

\* removeConnection(), after the connection is closed.
Forget(c) ==
    [c EXCEPT !.config = "removed", !.status = "idle", !.blocked = FALSE,
              !.inProgress = FALSE, !.attempts = 0, !.cooled = TRUE]

\* isConnected(): a flag, which an SSH adapter resets when its socket closes.  An FTP
\* or agent adapter resets it in disconnect() only.
IsConnected(s) == sess[s].link \in {"up", "lost"}

Registered(c) == {id \in Ids : c[id].adapter # None}

\* Mutation of StopKeepalive: it ignores the other connections.
StopKeepaliveAlways(c) == keepalive' = "off"

\* startKeepalive() and stopKeepaliveIfNoConnections()
StartKeepalive == keepalive' = IF keepalive = "off" THEN "armed" ELSE keepalive

StopKeepalive(c) == keepalive' = IF Registered(c) = {} THEN "off" ELSE keepalive
-----------------------------------------------------------------------------
(* Sessions.  A slot whose call has ended and whose adapter nobody refers  *)
(* to may be taken again: whatever becomes of that adapter, the manager    *)
(* cannot tell.                                                            *)

Free == {s \in Sessions : /\ sess[s].pc = "idle"
                          /\ sess[s].closers = {}
                          /\ \A id \in Ids : conn[id].adapter # s}

Open(s, id, by) ==
    sess' = [sess EXCEPT ![s] = [id |-> id, by |-> by, pc |-> "lookup",
                                 link |-> "down", closers |-> {}]]

\* The call of s ends and leaves the adapter's link as given.
EndCall(s, link) ==
    sess' = [sess EXCEPT ![s].pc = "idle", ![s].by = "nobody", ![s].link = link]

Commands(id) == conn[id].config = "present" /\ disposal = "no"

\* addConnection()
Add(id) ==
    /\ conn[id].config = "absent"
    /\ disposal = "no"
    /\ conn' = [conn EXCEPT ![id].config = "present", ![id].status = "idle"]
    /\ UNCHANGED <<sess, keepalive, autoReconnect, disposal>>

\* connect() called by a command: the configuration is read, then the secrets
\* are looked up.
UserConnect(id) ==
    /\ Commands(id)
    /\ \E s \in Free : Open(s, id, "user")
    /\ UNCHANGED <<conn, keepalive, autoReconnect, disposal>>

\* The callback of the reconnect timer, up to its first await.
TimerFires(id) ==
    /\ conn[id].timer
    /\ \/ /\ conn[id].config = "present"
          /\ conn' = [conn EXCEPT ![id].timer = FALSE]
          /\ \E s \in Free : Open(s, id, "timer")
       \/ /\ conn[id].config # "present"
          /\ conn' = [conn EXCEPT ![id] = CallThrows(@, "timer")]
          /\ UNCHANGED sess
    /\ UNCHANGED <<keepalive, autoReconnect, disposal>>

\* ensureConnected() of the terminal manager: a connected adapter is shared, and
\* protocols without a shell are refused.
OpenTerminal(id) ==
    /\ Commands(id)
    /\ id \in SshIds
    /\ conn[id].adapter # None => ~IsConnected(conn[id].adapter)
    /\ \E s \in Free : Open(s, id, "terminal")
    /\ UNCHANGED <<conn, keepalive, autoReconnect, disposal>>

\* The secrets are there: connect() is skipped when it is not needed, and
\* otherwise creates an adapter and races it against the timeout.
LookupDone(s) ==
    LET id == sess[s].id  by == sess[s].by IN
    /\ sess[s].pc = "lookup"
    /\ \/ /\ by # "terminal"
          /\ conn[id].status \in {"connected", "connecting"}
          /\ conn' = [conn EXCEPT ![id] = CallReturns(@, by)]
          /\ EndCall(s, "down")
       \/ /\ by # "terminal"
          /\ conn[id].status \notin {"connected", "connecting"}
          /\ conn' = [conn EXCEPT ![id].status = "connecting"]
          /\ sess' = [sess EXCEPT ![s].pc = "race", ![s].link = "dialing"]
       \/ /\ by = "terminal"
          /\ sess' = [sess EXCEPT ![s].pc = "race", ![s].link = "dialing"]
          /\ UNCHANGED conn
    /\ UNCHANGED <<keepalive, autoReconnect, disposal>>

\* The secret storage rejects: connect() throws before it touches the status.
LookupFails(s) ==
    /\ sess[s].pc = "lookup"
    /\ conn' = [conn EXCEPT ![sess[s].id] = CallThrows(@, sess[s].by)]
    /\ EndCall(s, "down")
    /\ UNCHANGED <<keepalive, autoReconnect, disposal>>

\* The links a handshake may end with.
Opened(id) == IF id \in SshIds THEN {"up", "partial"} ELSE {"up"}

\* The adapter wins the race.  An SSH client without SFTP counts as success.
ConnectOk(s, link) ==
    LET id == sess[s].id IN
    /\ sess[s].pc = "race" /\ sess[s].by # "terminal"
    /\ link \in Opened(id)
    /\ conn' = [conn EXCEPT ![id] =
                  CallReturns([@ EXCEPT !.adapter = s, !.attempts = 0,
                                        !.blocked = FALSE, !.status = "connected"],
                              sess[s].by)]
    /\ EndCall(s, link)
    /\ StartKeepalive
    /\ UNCHANGED <<autoReconnect, disposal>>

\* setAdapter() of a terminal-only session.
TerminalOk(s) ==
    /\ sess[s].pc = "race" /\ sess[s].by = "terminal"
    /\ conn' = [conn EXCEPT ![sess[s].id].adapter = s]
    /\ EndCall(s, "up")
    /\ UNCHANGED <<keepalive, autoReconnect, disposal>>

\* Mutation of ConnectThrows: the error is thrown without a status.
ConnectThrowsSilently(s, link) ==
    /\ sess[s].pc = "race" /\ sess[s].by # "terminal"
    /\ conn' = [conn EXCEPT ![sess[s].id] = CallThrows(@, sess[s].by)]
    /\ EndCall(s, link)
    /\ UNCHANGED <<keepalive, autoReconnect, disposal>>

\* The attempt fails, or the timeout wins the race: nobody stops the adapter,
\* which goes on dialing.
ConnectThrows(s, link) ==
    /\ sess[s].pc = "race" /\ sess[s].by # "terminal"
    /\ conn' = [conn EXCEPT ![sess[s].id] =
                  CallThrows([@ EXCEPT !.status = "error"], sess[s].by)]
    /\ EndCall(s, link)
    /\ UNCHANGED <<keepalive, autoReconnect, disposal>>

ConnectFails(s) == ConnectThrows(s, "down")
ConnectTimesOut(s) == ConnectThrows(s, "dialing")

TerminalFails(s) ==
    /\ sess[s].pc = "race" /\ sess[s].by = "terminal"
    /\ EndCall(s, "down")
    /\ UNCHANGED <<conn, keepalive, autoReconnect, disposal>>

\* An adapter whose call has timed out ends its handshake after all.
LateHandshake(s) ==
    /\ sess[s].pc = "idle" /\ sess[s].link = "dialing"
    /\ \E link \in Opened(sess[s].id) \cup {"down"} : sess' = [sess EXCEPT ![s].link = link]
    /\ UNCHANGED <<conn, keepalive, autoReconnect, disposal>>

\* The server or the network drops a link.
Drop(s) ==
    /\ sess[s].link \in {"up", "partial"}
    /\ sess' = [sess EXCEPT ![s].link = IF @ = "up" THEN "lost" ELSE "down"]
    /\ UNCHANGED <<conn, keepalive, autoReconnect, disposal>>

\* The SSH client's close event.  Nothing tells an FTP or agent adapter.
Notice(s) ==
    /\ sess[s].link = "lost"
    /\ sess[s].id \in SshIds
    /\ sess' = [sess EXCEPT ![s].link = "down"]
    /\ UNCHANGED <<conn, keepalive, autoReconnect, disposal>>
-----------------------------------------------------------------------------
(* Closing.                                                                *)

\* disconnect() called by a command.
UserDisconnect(id) ==
    LET s == conn[id].adapter IN
    /\ Commands(id)
    /\ \/ /\ s = None
          /\ conn' = [conn EXCEPT ![id] = EndDisconnect(BeginDisconnect(@))]
          /\ StopKeepalive(conn')
          /\ UNCHANGED sess
       \/ /\ s # None
          /\ conn' = [conn EXCEPT ![id] = BeginDisconnect(@)]
          /\ sess' = [sess EXCEPT ![s].closers = @ \cup {"user"}]
          /\ UNCHANGED keepalive
    /\ UNCHANGED <<autoReconnect, disposal>>

\* removeConnection(): a registered adapter is disconnected first.
Remove(id) ==
    LET s == conn[id].adapter IN
    /\ Commands(id)
    /\ \/ /\ s = None
          /\ conn' = [conn EXCEPT ![id] = Forget(@)]
          /\ UNCHANGED sess
       \/ /\ s # None
          /\ conn' = [conn EXCEPT ![id] = BeginDisconnect(@)]
          /\ sess' = [sess EXCEPT ![s].closers = @ \cup {"remove"}]
    /\ UNCHANGED <<keepalive, autoReconnect, disposal>>

\* The loop of dispose() from its next iteration on, in the state c, t of the
\* connections and sessions.
DisposeLoop(c, t) ==
    \/ /\ Registered(c) = {}
       /\ disposal' = "done" /\ conn' = c /\ sess' = t
    \/ \E id \in Registered(c) :
          /\ disposal' = "running"
          /\ conn' = [c EXCEPT ![id] = BeginDisconnect(@)]
          /\ sess' = [t EXCEPT ![c[id].adapter].closers = @ \cup {"dispose"}]

\* dispose()
Dispose ==
    /\ disposal = "no"
    /\ keepalive' = "off"
    /\ DisposeLoop([id \in Ids |-> [conn[id] EXCEPT !.timer = FALSE,
                                                    !.inProgress = FALSE,
                                                    !.blocked = FALSE]], sess)
    /\ UNCHANGED autoReconnect

\* The adapter of s has closed (or 10 s have passed), and one of the calls
\* that awaited it goes on: whatever adapter is registered by now is dropped.
CloseDone(s, who) ==
    LET id == sess[s].id
        t == [sess EXCEPT ![s].link = "down", ![s].closers = @ \ {who}]
    IN
    /\ who \in sess[s].closers
    /\ \/ /\ who = "user"
          /\ conn' = [conn EXCEPT ![id] = EndDisconnect(@)]
          /\ sess' = t
          /\ UNCHANGED disposal
       \/ /\ who = "remove"
          /\ conn' = [conn EXCEPT ![id] = Forget(EndDisconnect(@))]
          /\ sess' = t
          /\ UNCHANGED disposal
       \/ /\ who = "dispose"
          /\ DisposeLoop([conn EXCEPT ![id] = EndDisconnect(@)], t)
    /\ StopKeepalive([conn EXCEPT ![id] = EndDisconnect(@)])
    /\ UNCHANGED autoReconnect
-----------------------------------------------------------------------------
(* The clock and the settings.                                             *)

\* Mutation of KeepaliveTick: the loop is not scheduled again.
KeepaliveTickOnce ==
    /\ keepalive = "armed"
    /\ conn' = [id \in Ids |->
                  LET c == conn[id]
                      dead == [c EXCEPT !.status = "disconnected"]
                  IN IF c.adapter = None \/ IsConnected(c.adapter) THEN c
                     ELSE IF autoReconnect THEN StartReconnect(dead) ELSE dead]
    /\ keepalive' = "fired"
    /\ UNCHANGED <<sess, autoReconnect, disposal>>

\* The keepalive timer: every registered adapter is checked.
KeepaliveTick ==
    /\ keepalive = "armed"
    /\ conn' = [id \in Ids |->
                  LET c == conn[id]
                      dead == [c EXCEPT !.status = "disconnected"]
                  IN IF c.adapter = None \/ IsConnected(c.adapter) THEN c
                     ELSE IF autoReconnect THEN StartReconnect(dead) ELSE dead]
    /\ keepalive' = IF Registered(conn) # {} THEN "armed" ELSE "fired"
    /\ UNCHANGED <<sess, autoReconnect, disposal>>

\* Five minutes have passed since the last attempt; no retry is scheduled, for
\* its delay is 30 s at most.
CooldownElapses(id) ==
    /\ conn[id].attempts = MaxAttempts
    /\ ~conn[id].cooled /\ ~conn[id].timer
    /\ conn' = [conn EXCEPT ![id].cooled = TRUE]
    /\ UNCHANGED <<sess, keepalive, autoReconnect, disposal>>

\* onDidChangeConfiguration
ToggleAutoReconnect ==
    /\ disposal = "no"
    /\ autoReconnect' = ~autoReconnect
    /\ UNCHANGED <<conn, sess, keepalive, disposal>>

Attempt(s) ==
    \/ LookupDone(s) \/ LookupFails(s)
    \/ \E link \in {"up", "partial"} : ConnectOk(s, link)
    \/ TerminalOk(s) \/ ConnectFails(s) \/ ConnectTimesOut(s) \/ TerminalFails(s)

Next ==
    \/ \E id \in Ids :
        \/ Add(id) \/ UserConnect(id) \/ UserDisconnect(id) \/ Remove(id)
        \/ OpenTerminal(id) \/ TimerFires(id) \/ CooldownElapses(id)
    \/ \E s \in Sessions :
        \/ Attempt(s) \/ LateHandshake(s) \/ Drop(s) \/ Notice(s)
        \/ \E who \in Closers : CloseDone(s, who)
    \/ KeepaliveTick \/ ToggleAutoReconnect \/ Dispose

Spec == Init /\ [][Next]_vars

\* Timers fire, lookups and handshakes end (the race has a timeout), an
\* adapter's disconnect() ends (it has one too), an SSH client notices its dead socket.
\* Nobody has to use the extension, and no link has to break.  Fairness of the
\* timers is strong because their callbacks may find every slot taken, which is
\* a bound of the model and not of the code.
Fairness ==
    /\ \A id \in Ids : SF_vars(TimerFires(id)) /\ WF_vars(CooldownElapses(id))
    /\ \A s \in Sessions :
        /\ WF_vars(Attempt(s)) /\ WF_vars(Notice(s))
        /\ \A who \in Closers : WF_vars(CloseDone(s, who))
    /\ WF_vars(KeepaliveTick)

FairSpec == Spec /\ Fairness
-----------------------------------------------------------------------------
\* The connect call of s runs for id and is past its guard.
Attempting(s, id) == sess[s].id = id /\ sess[s].pc = "race" /\ sess[s].by # "terminal"

\* A connection shown as connected has an adapter, and the keepalive loop that
\* watches it is running.
ConnectedIsServed ==
    \A id \in Ids :
        conn[id].status = "connected" =>
            /\ conn[id].adapter # None
            /\ disposal = "no" => keepalive = "armed"

\* Status "connecting" always belongs to a call that will still replace it, or
\* the guard of connect() would refuse every later attempt.
NoStuckConnecting ==
    \A id \in Ids :
        conn[id].status = "connecting" => \E s \in Sessions : Attempting(s, id)

\* The keepalive loop never ends with its field still set, after which
\* startKeepalive() could not start it again.
KeepaliveNeverStalls == keepalive # "fired"

\* A registered adapter belongs to the id it is registered under and has ended
\* its handshake.
AdapterMatchesId ==
    \A id \in Ids :
        LET s == conn[id].adapter IN
        s # None => /\ sess[s].id = id
                    /\ sess[s].pc = "idle"
                    /\ sess[s].link # "dialing"

\* A reconnect marked as in progress has a timer or a call behind it: a mark
\* left behind would suppress reconnection for good (guard 2).
ProgressIsBacked ==
    \A id \in Ids :
        conn[id].inProgress =>
            \/ conn[id].timer
            \/ \E s \in Sessions : sess[s].id = id /\ sess[s].by = "timer"

\* While a connection is blocked no reconnect cycle is scheduled or running
\* for it (guard 1 of startReconnect() and the first lines of disconnect()).
NoReconnectWhileBlocked ==
    \A id \in Ids :
        conn[id].blocked => ~conn[id].timer /\ ~conn[id].inProgress

Pool == INSTANCE ConnectionPool
            WITH Adapters <- Sessions,
                 pool <- [id \in Ids |-> [status |-> conn[id].status,
                                          adapter |-> conn[id].adapter]]

\* To the rest of the extension the manager is a pool of connections: an
\* attempt never begins on a connection that is up or being attempted, an
\* adapter is replaced by a new one only and disappears together with the
\* status, whatever calls, timers and checks overlap.
ImplementsConnectionPool == Pool!PoolSpec

\* Every attempt shown as connecting comes to an end.
ConnectingSettles ==
    \A id \in Ids :
        conn[id].status = "connecting" ~> conn[id].status # "connecting"

\* An ssh connection is not shown as connected for ever while its link is dead.  An
\* FTP or agent connection may be: the flag behind isConnected() survives every error
\* of an operation, so neither a keepalive check nor connect() replaces the adapter.
DeadLinkIsNoticed ==
    \A id \in SshIds :
        LET shownUp == disposal = "no" /\ conn[id].status = "connected"
            alive == \E s \in Sessions : conn[id].adapter = s /\ sess[s].link = "up"
        IN shownUp /\ ~alive ~> ~shownUp \/ alive

\* A dead adapter that is registered and not blocked is reconnected, at the
\* latest after the cooldown, as long as the setting stays on.  The keepalive
\* loop must be running: setAdapter() does not start it.
DeadLinkIsRetried ==
    \A id \in Ids :
        LET c == conn[id]
            recoverable == /\ keepalive = "armed" /\ disposal = "no"
                           /\ autoReconnect /\ ~c.blocked
                           /\ c.status \in {"connected", "disconnected", "error"}
                           /\ \E s \in Sessions : c.adapter = s /\ ~IsConnected(s)
        IN recoverable ~> ~recoverable \/ c.timer \/ c.inProgress

\* A reconnect cycle in progress gets somewhere: it ends, or it goes on to
\* another attempt.
CyclesMoveOn ==
    \A id \in Ids : \A k \in 0..MaxAttempts :
        conn[id].inProgress /\ conn[id].attempts = k
            ~> ~conn[id].inProgress \/ conn[id].attempts # k

\* Attempts and the cycles they belong to both get somewhere.
AttemptsMoveOn == ConnectingSettles /\ CyclesMoveOn
=============================================================================
