-------------------- MODULE ConnectionManagerRefinement --------------------
(***************************************************************************)
(* The connection manager implements ConnectionPool, for any number of     *)
(* connections and sessions: every step of the manager, in a state that    *)
(* satisfies its invariant, is a step of the pool or none.                 *)
(***************************************************************************)
EXTENDS ConnectionManagerProofs

\* An id that was not added yet has no adapter, and no call runs for it.
Unused ==
    /\ \A id \in Ids : conn[id].config = "absent" => conn[id].adapter = None
    /\ \A s \in Sessions : sess[s].pc # "idle" => conn[sess[s].id].config # "absent"

\* The entries d may follow the entries c of an id, as the pool sees them.
Move(c, d) ==
    \/ d.adapter = c.adapter /\ d.status \in {c.status, "error"}
    \/ /\ d.adapter = c.adapter /\ d.status = "connecting"
       /\ c.status \notin {"connected", "connecting"}
    \/ d.adapter = c.adapter /\ d.status = "disconnected" /\ c.adapter # None
    \/ d.adapter = None /\ d.status \in {"disconnected", "idle"}
    \/ /\ d.adapter \in Sessions /\ d.status \in {"connected", c.status}
       /\ \A id \in Ids : conn[id].adapter # d.adapter

\* The entries d may follow c, and are not those of an id that was not added
\* if c are not.
Change(c, d) ==
    /\ Move(c, d)
    /\ d.config = "absent" => c.config = "absent" /\ (c.adapter = None => d.adapter = None)

\* A call that runs after the step ran before it for the same id, or was
\* started for an id that is configured.
CallOK(s) ==
    sess'[s].pc # "idle" =>
        \/ sess[s].pc # "idle" /\ sess'[s].id = sess[s].id
        \/ conn'[sess'[s].id].config # "absent"

Follows == /\ \A id \in Ids : Change(conn[id], conn'[id])
           /\ \A s \in Sessions : CallOK(s)

-----------------------------------------------------------------------------
(* What such a step is to the pool.                                        *)

LEMMA UnusedKept ==
    ASSUME TypeOK, Unused, Follows, TypeOK'
    PROVE  Unused'
<1>1. ASSUME NEW id \in Ids, conn'[id].config = "absent"
      PROVE  conn'[id].adapter = None
    BY <1>1 DEF Follows, Change, Unused
<1>2. ASSUME NEW s \in Sessions, sess'[s].pc # "idle"
      PROVE  conn'[sess'[s].id].config # "absent"
  <2>1. sess'[s].id \in Ids
      BY DEF TypeOK, Session
  <2> QED
      BY <1>2, <2>1 DEF Follows, Change, CallOK, Unused
<1> QED
    BY <1>1, <1>2 DEF Unused

\* The pairs of the pool are the status and the adapter of each id.
LEMMA FollowsIsPoolStep ==
    ASSUME TypeOK, Follows
    PROVE  Pool!PoolNext
<1> DEFINE p == [id \in Ids |-> [status |-> conn[id].status, adapter |-> conn[id].adapter]]
           q(id) == [status |-> conn'[id].status, adapter |-> conn'[id].adapter]
<1>1. ASSUME NEW id \in Ids
      PROVE  q(id) = p[id] \/ q(id) \in {Pool!Forgotten} \cup Pool!Announced(id)
                                            \cup Pool!TerminalOnly(id)
  <2> DEFINE c == conn[id]  d == conn'[id]
  <2>1. Move(c, d)
      BY DEF Follows, Change
  <2>2. CASE d.adapter = c.adapter /\ d.status = c.status
      BY <2>2
  <2>3. CASE d.adapter = c.adapter /\ d.status = "error"
    <3>1. q(id) = [p[id] EXCEPT !.status = "error"]
        BY <2>3
    <3> QED
        BY <3>1 DEF Pool!Announced
  <2>4. CASE /\ d.adapter = c.adapter /\ d.status = "connecting"
             /\ c.status \notin {"connected", "connecting"}
    <3>1. q(id) = [p[id] EXCEPT !.status = "connecting"]
        BY <2>4
    <3> QED
        BY <2>4, <3>1 DEF Pool!Announced
  <2>5. CASE d.adapter = c.adapter /\ d.status = "disconnected" /\ c.adapter # None
    <3>1. q(id) = [p[id] EXCEPT !.status = "disconnected"]
        BY <2>5
    <3> QED
        BY <2>5, <3>1 DEF Pool!Announced
  <2>6. CASE d.adapter = None /\ d.status \in {"disconnected", "idle"}
      BY <2>6 DEF Pool!Announced, Pool!Forgotten
  <2>7. CASE /\ d.adapter \in Sessions /\ d.status \in {"connected", c.status}
             /\ \A i \in Ids : conn[i].adapter # d.adapter
    <3>1. d.adapter \in Pool!Unregistered
        BY <2>7 DEF Pool!Unregistered
    <3>2. CASE d.status = "connected"
        BY <3>1, <3>2 DEF Pool!Announced
    <3>3. CASE d.status = c.status
      <4>1. q(id) = [p[id] EXCEPT !.adapter = d.adapter]
          BY <3>3
      <4> QED
          BY <3>1, <4>1 DEF Pool!TerminalOnly
    <3> QED
        BY <2>7, <3>2, <3>3
  <2> QED
      BY <2>1, <2>2, <2>3, <2>4, <2>5, <2>6, <2>7 DEF Move
<1> QED
    BY <1>1 DEF Pool!PoolNext

-----------------------------------------------------------------------------
(* What the synchronous parts of the manager are to the pool.              *)

\* Parts that schedule something keep the adapter; they may give up.
Keeps(c, d) == /\ d.adapter = c.adapter /\ d.config = c.config
               /\ d.status \in {c.status, "error"}

LEMMA StartReconnectKeeps == ASSUME NEW c \in Conn PROVE Keeps(c, StartReconnect(c))
<1>1. CASE c.blocked \/ c.inProgress \/ c.timer
    BY <1>1 DEF StartReconnect, Keeps
<1>2. CASE /\ ~(c.blocked \/ c.inProgress \/ c.timer)
           /\ c.attempts >= MaxAttempts /\ ~c.cooled
  <2>1. StartReconnect(c) = [c EXCEPT !.status = "error"]
      BY <1>2 DEF StartReconnect
  <2> QED
      BY <2>1 DEF Keeps, Conn
<1>3. CASE /\ ~(c.blocked \/ c.inProgress \/ c.timer)
           /\ ~(c.attempts >= MaxAttempts /\ ~c.cooled)
  <2> DEFINE n == IF c.attempts >= MaxAttempts THEN 1 ELSE c.attempts + 1
  <2>1. StartReconnect(c) = [c EXCEPT !.inProgress = TRUE, !.timer = TRUE, !.cooled = FALSE,
                                      !.attempts = n]
      BY <1>3 DEF StartReconnect
  <2> HIDE DEF n
  <2> QED
      BY <2>1 DEF Keeps, Conn
<1> QED
    BY <1>1, <1>2, <1>3

LEMMA CallThrowsKeeps ==
    ASSUME NEW c \in Conn, NEW by PROVE Keeps(c, CallThrows(c, by))
<1>1. CASE by = "timer"
  <2> DEFINE d == [c EXCEPT !.inProgress = FALSE, !.timer = FALSE]
  <2>1. d \in Conn /\ d.adapter = c.adapter /\ d.config = c.config /\ d.status = c.status
      BY DEF Conn
  <2>2. CallThrows(c, by) = StartReconnect(d)
      BY <1>1 DEF CallThrows
  <2> HIDE DEF d
  <2> QED
      BY <2>1, <2>2, StartReconnectKeeps DEF Keeps
<1>2. CASE by # "timer"
    BY <1>2 DEF CallThrows, Keeps
<1> QED
    BY <1>1, <1>2

LEMMA CallReturnsKeeps ==
    ASSUME NEW c \in Conn, NEW by
    PROVE  /\ CallReturns(c, by).adapter = c.adapter
           /\ CallReturns(c, by).config = c.config
           /\ CallReturns(c, by).status = c.status
    BY DEF CallReturns, Conn

LEMMA BeginDisconnectKeeps ==
    ASSUME NEW c \in Conn
    PROVE  /\ BeginDisconnect(c) \in Conn
           /\ BeginDisconnect(c).adapter = c.adapter
           /\ BeginDisconnect(c).config = c.config
           /\ BeginDisconnect(c).status = c.status
<1>1. BeginDisconnect(c) \in Conn
    BY DEF BeginDisconnect, Conn
<1> QED
    BY <1>1 DEF BeginDisconnect, Conn

\* Parts that close a connection drop its adapter.
Closes(c, d) == /\ d.adapter = None /\ d.status \in {"disconnected", "idle"}
                /\ d.config \in {c.config, "removed"}

LEMMA EndDisconnectCloses ==
    ASSUME NEW c \in Conn
    PROVE  /\ EndDisconnect(c) \in Conn
           /\ Closes(c, EndDisconnect(c))
           /\ Closes(c, Forget(EndDisconnect(c)))
<1> DEFINE d == EndDisconnect(c)
<1>1. d \in Conn /\ d.adapter = None /\ d.status = "disconnected" /\ d.config = c.config
    BY DEF EndDisconnect, Conn, Statuses
<1> HIDE DEF d
<1>2. Forget(d).adapter = None /\ Forget(d).status = "idle" /\ Forget(d).config = "removed"
    BY <1>1 DEF Forget, Conn
<1> QED
    BY <1>1, <1>2 DEF Closes, d

\* Either is a change the pool allows.
LEMMA PartsChange ==
    ASSUME NEW c, NEW d, Keeps(c, d) \/ Closes(c, d)
    PROVE  Change(c, d)
    BY DEF Keeps, Closes, Change, Move

-----------------------------------------------------------------------------
(* One lemma per action.                                                   *)

\* No call is started.
LEMMA NoCallStarts ==
    ASSUME \A s \in Sessions : sess'[s].pc # "idle" =>
                sess[s].pc # "idle" /\ sess'[s].id = sess[s].id
    PROVE  \A s \in Sessions : CallOK(s)
    BY DEF CallOK

\* The end of a call, and a change of a link or of the closers, starts none.
LEMMA SessionKept ==
    ASSUME TypeOK, NEW s \in Sessions, NEW t,
           t.pc # "idle" => sess[s].pc # "idle" /\ t.id = sess[s].id,
           sess' = [sess EXCEPT ![s] = t]
    PROVE  \A r \in Sessions : CallOK(r)
<1>1. sess \in [Sessions -> Session]
    BY DEF TypeOK
<1> QED
    BY <1>1 DEF CallOK

\* The entries of one id change.
LEMMA OneChanges ==
    ASSUME TypeOK, NEW id \in Ids, NEW d, Change(conn[id], d),
           conn' = [conn EXCEPT ![id] = d]
    PROVE  \A i \in Ids : Change(conn[i], conn'[i])
<1>1. conn \in [Ids -> Conn]
    BY DEF TypeOK
<1>2. \A i \in Ids : Change(conn[i], conn[i])
    BY DEF Change, Move
<1> QED
    BY <1>1, <1>2

LEMMA NoneChanges ==
    ASSUME conn' = conn PROVE \A i \in Ids : Change(conn[i], conn'[i])
    BY DEF Change, Move

LEMMA AddFollows ==
    ASSUME TypeOK, Unused, NEW id \in Ids, Add(id) PROVE Follows
<1> DEFINE d == [conn[id] EXCEPT !.config = "present", !.status = "idle"]
<1>1. conn \in [Ids -> Conn] /\ conn[id] \in Conn
    BY DEF TypeOK
<1>2. conn' = [conn EXCEPT ![id] = d]
    BY <1>1 DEF Add
<1>3. d.adapter = None /\ d.status = "idle" /\ d.config = "present"
    BY <1>1 DEF Add, Unused, Conn
<1> HIDE DEF d
<1>4. \A i \in Ids : Change(conn[i], conn'[i])
    BY <1>2, <1>3, OneChanges DEF Change, Move
<1>5. sess' = sess
    BY DEF Add
<1> QED
    BY <1>4, <1>5, NoCallStarts DEF Follows

\* A call is started for an id that is configured.
LEMMA OpenFollows ==
    ASSUME TypeOK, NEW id \in Ids, NEW s \in Free, NEW by, Open(s, id, by),
           conn'[id].config = "present"
    PROVE  \A r \in Sessions : CallOK(r)
<1>1. sess \in [Sessions -> Session] /\ s \in Sessions
    BY DEF TypeOK, Free
<1>2. \A r \in Sessions \ {s} : sess'[r] = sess[r]
    BY <1>1 DEF Open
<1>3. sess'[s].id = id
    BY <1>1 DEF Open
<1> QED
    BY <1>2, <1>3 DEF CallOK

LEMMA CommandFollows ==
    ASSUME TypeOK, NEW id \in Ids, UserConnect(id) \/ OpenTerminal(id)
    PROVE  Follows
<1>1. conn' = conn /\ conn[id].config = "present"
    BY DEF UserConnect, OpenTerminal, Commands
<1>2. \E s \in Free, by \in {"user", "terminal"} : Open(s, id, by)
    BY DEF UserConnect, OpenTerminal
<1> QED
    BY <1>1, <1>2, OpenFollows, NoneChanges DEF Follows

LEMMA TimerFollows ==
    ASSUME TypeOK, NEW id \in Ids, TimerFires(id) PROVE Follows
<1>1. conn \in [Ids -> Conn] /\ conn[id] \in Conn
    BY DEF TypeOK
<1>2. CASE /\ conn[id].config = "present"
           /\ conn' = [conn EXCEPT ![id].timer = FALSE]
           /\ \E s \in Free : Open(s, id, "timer")
  <2> DEFINE d == [conn[id] EXCEPT !.timer = FALSE]
  <2>1. Keeps(conn[id], d)
      BY <1>1 DEF Keeps, Conn
  <2>2. conn' = [conn EXCEPT ![id] = d]
      BY <1>1, <1>2
  <2> HIDE DEF d
  <2>3. conn'[id].config = "present"
      BY <1>1, <1>2, <2>1, <2>2 DEF Keeps
  <2> QED
      BY <1>2, <2>1, <2>2, <2>3, PartsChange, OneChanges, OpenFollows DEF Follows
<1>3. CASE conn' = [conn EXCEPT ![id] = CallThrows(conn[id], "timer")] /\ sess' = sess
    BY <1>1, <1>3, CallThrowsKeeps, PartsChange, OneChanges, NoCallStarts DEF Follows
<1> QED
    BY <1>1, <1>2, <1>3 DEF TimerFires

LEMMA EndCallFollows ==
    ASSUME TypeOK, NEW s \in Sessions, NEW link, EndCall(s, link)
    PROVE  \A r \in Sessions : CallOK(r)
<1> DEFINE t == [sess[s] EXCEPT !.pc = "idle", !.by = "nobody", !.link = link]
<1>1. sess \in [Sessions -> Session]
    BY DEF TypeOK
<1>2. sess' = [sess EXCEPT ![s] = t] /\ t.pc = "idle"
    BY <1>1 DEF EndCall, Session
<1> HIDE DEF t
<1> QED
    BY <1>2, SessionKept

LEMMA LookupFollows ==
    ASSUME IInv, NEW s \in Sessions, LookupDone(s) \/ LookupFails(s)
    PROVE  Follows
<1> DEFINE id == sess[s].id  by == sess[s].by
<1>1. TypeOK /\ conn \in [Ids -> Conn] /\ sess \in [Sessions -> Session]
    BY DEF IInv, TypeOK
<1>2. id \in Ids /\ conn[id] \in Conn
    BY <1>1 DEF Session
<1>3. sess[s].pc # "idle"
    BY DEF LookupDone, LookupFails
<1>4. CASE conn' = [conn EXCEPT ![id] = CallReturns(conn[id], by)] /\ EndCall(s, "down")
  <2>1. Keeps(conn[id], CallReturns(conn[id], by))
      BY <1>2, CallReturnsKeeps DEF Keeps
  <2> QED
      BY <1>1, <1>2, <1>4, <2>1, PartsChange, OneChanges, EndCallFollows DEF Follows
<1>5. CASE conn' = [conn EXCEPT ![id] = CallThrows(conn[id], by)] /\ EndCall(s, "down")
    BY <1>1, <1>2, <1>5, CallThrowsKeeps, PartsChange, OneChanges, EndCallFollows DEF Follows
<1>6. ASSUME sess' = [sess EXCEPT ![s].pc = "race", ![s].link = "dialing"]
      PROVE  \A r \in Sessions : CallOK(r)
  <2> DEFINE t == [sess[s] EXCEPT !.pc = "race", !.link = "dialing"]
  <2>1. sess' = [sess EXCEPT ![s] = t] /\ t.id = sess[s].id
      BY <1>1, <1>6 DEF Session
  <2> HIDE DEF t
  <2> QED
      BY <1>1, <1>3, <2>1, SessionKept
<1>7. CASE /\ conn[id].status \notin {"connected", "connecting"}
           /\ conn' = [conn EXCEPT ![id].status = "connecting"]
           /\ sess' = [sess EXCEPT ![s].pc = "race", ![s].link = "dialing"]
  <2> DEFINE d == [conn[id] EXCEPT !.status = "connecting"]
  <2>1. conn' = [conn EXCEPT ![id] = d]
      BY <1>1, <1>7
  <2>2. d.status = "connecting" /\ d.adapter = conn[id].adapter /\ d.config = conn[id].config
      BY <1>2 DEF Conn
  <2>3. Change(conn[id], d)
      BY <1>7, <2>2 DEF Change, Move
  <2> HIDE DEF d
  <2>4. \A i \in Ids : Change(conn[i], conn'[i])
      BY <1>1, <1>2, <2>1, <2>3, OneChanges
  <2> QED
      BY <1>6, <1>7, <2>4 DEF Follows
<1>8. CASE /\ sess' = [sess EXCEPT ![s].pc = "race", ![s].link = "dialing"]
           /\ conn' = conn
    BY <1>6, <1>8, NoneChanges DEF Follows
<1> QED
    BY <1>1, <1>4, <1>5, <1>7, <1>8 DEF LookupDone, LookupFails

\* An adapter that is registered was not registered before.
LEMMA RegisterFollows ==
    ASSUME IInv, Unused, NEW s \in Sessions, TerminalOk(s) \/ \E link \in Links : ConnectOk(s, link)
    PROVE  Follows
<1>1. TypeOK /\ conn \in [Ids -> Conn] /\ sess \in [Sessions -> Session]
    BY DEF IInv, TypeOK
<1>3. sess[s].pc # "idle"
    BY DEF TerminalOk, ConnectOk
<1> PICK id \in Ids, by \in {"user", "timer", "terminal"} : id = sess[s].id /\ by = sess[s].by
    BY <1>3, RunningIsUnregistered
<1> DEFINE c == [conn[id] EXCEPT !.adapter = s, !.attempts = 0, !.blocked = FALSE,
                                 !.status = "connected"]
<1>2. conn[id] \in Conn /\ 0 \in 0..MaxAttempts
    BY <1>1, AttemptsAssumption
<1>4. conn[id].config # "absent" /\ \A i \in Ids : conn[i].adapter # s
    BY <1>3, RunningIsUnregistered DEF Unused
<1>5. CASE TerminalOk(s)
  <2> DEFINE d == [conn[id] EXCEPT !.adapter = s]
  <2>1. conn' = [conn EXCEPT ![id] = d]
      BY <1>1, <1>5 DEF TerminalOk
  <2>2. d.adapter = s /\ d.status = conn[id].status /\ d.config = conn[id].config
      BY <1>2 DEF Conn
  <2>3. Change(conn[id], d)
      BY <1>4, <2>2 DEF Change, Move
  <2>4. EndCall(s, "up")
      BY <1>5 DEF TerminalOk
  <2> HIDE DEF d
  <2> QED
      BY <1>1, <1>2, <2>1, <2>3, <2>4, OneChanges, EndCallFollows DEF Follows
<1>6. ASSUME NEW link \in Links, ConnectOk(s, link)
      PROVE  Follows
  <2> DEFINE d == CallReturns(c, by)
  <2>1. conn' = [conn EXCEPT ![id] = d] /\ EndCall(s, link)
      BY <1>1, <1>6 DEF ConnectOk
  <2>2. /\ c \in Conn /\ c.adapter = s /\ c.status = "connected"
        /\ c.config = conn[id].config
      BY <1>2 DEF Conn, Statuses
  <2> HIDE DEF c
  <2>3. d.adapter = s /\ d.status = "connected" /\ d.config = conn[id].config
      BY <2>2, CallReturnsKeeps
  <2>4. Change(conn[id], d)
      BY <1>4, <2>3 DEF Change, Move
  <2> HIDE DEF d
  <2> QED
      BY <1>1, <1>2, <2>1, <2>4, OneChanges, EndCallFollows DEF Follows
<1> QED
    BY <1>5, <1>6

LEMMA FailureFollows ==
    ASSUME IInv, NEW s \in Sessions,
           TerminalFails(s) \/ ConnectFails(s) \/ ConnectTimesOut(s)
    PROVE  Follows
<1> DEFINE id == sess[s].id  by == sess[s].by  c == [conn[id] EXCEPT !.status = "error"]
<1>1. TypeOK /\ conn \in [Ids -> Conn] /\ sess \in [Sessions -> Session]
    BY DEF IInv, TypeOK
<1>2. id \in Ids /\ conn[id] \in Conn
    BY <1>1 DEF Session
<1>3. CASE TerminalFails(s)
    BY <1>1, <1>3, NoneChanges, EndCallFollows DEF TerminalFails, Follows
<1>4. ASSUME NEW link, ConnectThrows(s, link)
      PROVE  Follows
  <2> DEFINE d == CallThrows(c, by)
  <2>1. conn' = [conn EXCEPT ![id] = d] /\ EndCall(s, link)
      BY <1>1, <1>4 DEF ConnectThrows
  <2>2. c \in Conn /\ Keeps(conn[id], c) /\ c.status = "error"
      BY <1>2 DEF Conn, Statuses, Keeps
  <2> HIDE DEF c
  <2>3. Keeps(c, d)
      BY <2>2, CallThrowsKeeps
  <2> HIDE DEF d
  <2>4. Keeps(conn[id], d)
      BY <2>2, <2>3 DEF Keeps
  <2> QED
      BY <1>1, <1>2, <2>1, <2>4, PartsChange, OneChanges, EndCallFollows DEF Follows
<1> QED
    BY <1>3, <1>4 DEF ConnectFails, ConnectTimesOut

LEMMA LinkFollows ==
    ASSUME TypeOK, NEW s \in Sessions, LateHandshake(s) \/ Drop(s) \/ Notice(s)
    PROVE  Follows
<1>1. sess \in [Sessions -> Session] /\ conn' = conn
    BY DEF TypeOK, LateHandshake, Drop, Notice
<1>2. PICK link : sess' = [sess EXCEPT ![s].link = link]
    BY <1>1 DEF LateHandshake, Drop, Notice
<1>3. \A r \in Sessions : sess'[r].pc = sess[r].pc /\ sess'[r].id = sess[r].id
    BY <1>1, <1>2 DEF Session
<1> QED
    BY <1>1, <1>3, NoCallStarts, NoneChanges DEF Follows

\* A closer that is added, or leaves, changes no call.
LEMMA CloserFollows ==
    ASSUME NEW t \in [Sessions -> Session], NEW s, NEW cs,
           \A r \in Sessions : t[r].pc = sess[r].pc /\ t[r].id = sess[r].id,
           sess' = [t EXCEPT ![s].closers = cs]
    PROVE  \A r \in Sessions : CallOK(r)
<1>1. \A r \in Sessions : sess'[r].pc = t[r].pc /\ sess'[r].id = t[r].id
    BY DEF Session
<1> QED
    BY <1>1, NoCallStarts

LEMMA UserDisconnectFollows ==
    ASSUME TypeOK, NEW id \in Ids, UserDisconnect(id) PROVE Follows
<1> DEFINE s == conn[id].adapter  b == BeginDisconnect(conn[id])  e == EndDisconnect(b)
<1>1. conn \in [Ids -> Conn] /\ conn[id] \in Conn /\ sess \in [Sessions -> Session]
    BY DEF TypeOK
<1>2. b \in Conn /\ Keeps(conn[id], b)
    BY <1>1, BeginDisconnectKeeps DEF Keeps
<1> HIDE DEF b
<1>3. CASE conn' = [conn EXCEPT ![id] = e] /\ sess' = sess
  <2>1. Closes(b, e)
      BY <1>2, EndDisconnectCloses
  <2> HIDE DEF e
  <2>2. Closes(conn[id], e)
      BY <1>2, <2>1 DEF Closes, Keeps
  <2> QED
      BY <1>1, <1>3, <2>2, PartsChange, OneChanges, NoCallStarts DEF Follows
<1>4. CASE conn' = [conn EXCEPT ![id] = b]
           /\ sess' = [sess EXCEPT ![s].closers = @ \cup {"user"}]
  <2>1. sess' = [sess EXCEPT ![s].closers = sess[s].closers \cup {"user"}]
      BY <1>4
  <2>2. \A r \in Sessions : CallOK(r)
      BY <1>1, <2>1, CloserFollows
  <2> QED
      BY <1>1, <1>2, <1>4, <2>2, PartsChange, OneChanges DEF Follows
<1> QED
    BY <1>1, <1>3, <1>4 DEF UserDisconnect, b

LEMMA RemoveFollows ==
    ASSUME TypeOK, NEW id \in Ids, Remove(id) PROVE Follows
<1> DEFINE s == conn[id].adapter  b == BeginDisconnect(conn[id])  f == Forget(conn[id])
<1>1. conn \in [Ids -> Conn] /\ conn[id] \in Conn /\ sess \in [Sessions -> Session]
    BY DEF TypeOK
<1>2. Keeps(conn[id], b)
    BY <1>1, BeginDisconnectKeeps DEF Keeps
<1> HIDE DEF b
<1>3. CASE s = None /\ conn' = [conn EXCEPT ![id] = f] /\ sess' = sess
  <2>1. f.adapter = None /\ f.status = "idle" /\ f.config = "removed"
      BY <1>1, <1>3 DEF Forget, Conn
  <2> HIDE DEF f
  <2>2. Closes(conn[id], f)
      BY <2>1 DEF Closes
  <2> QED
      BY <1>1, <1>3, <2>2, PartsChange, OneChanges, NoCallStarts DEF Follows
<1>4. CASE conn' = [conn EXCEPT ![id] = b]
           /\ sess' = [sess EXCEPT ![s].closers = @ \cup {"remove"}]
  <2>1. sess' = [sess EXCEPT ![s].closers = sess[s].closers \cup {"remove"}]
      BY <1>4
  <2>2. \A r \in Sessions : CallOK(r)
      BY <1>1, <2>1, CloserFollows
  <2> QED
      BY <1>1, <1>2, <1>4, <2>2, PartsChange, OneChanges DEF Follows
<1> QED
    BY <1>1, <1>3, <1>4 DEF Remove, b

\* The loop of dispose() changes nothing the pool sees of the state c it works on.
LEMMA DisposeLoopKeeps ==
    ASSUME NEW c \in [Ids -> Conn], NEW t \in [Sessions -> Session],
           \A r \in Sessions : t[r].pc = sess[r].pc /\ t[r].id = sess[r].id,
           DisposeLoop(c, t)
    PROVE  /\ \A i \in Ids : /\ conn'[i].adapter = c[i].adapter
                             /\ conn'[i].status = c[i].status
                             /\ conn'[i].config = c[i].config
           /\ \A r \in Sessions : CallOK(r)
<1>1. CASE conn' = c /\ sess' = t
    BY <1>1, NoCallStarts
<1>2. ASSUME NEW id \in Registered(c),
             conn' = [c EXCEPT ![id] = BeginDisconnect(@)],
             sess' = [t EXCEPT ![c[id].adapter].closers = @ \cup {"dispose"}]
      PROVE  /\ \A i \in Ids : /\ conn'[i].adapter = c[i].adapter
                               /\ conn'[i].status = c[i].status
                               /\ conn'[i].config = c[i].config
             /\ \A r \in Sessions : CallOK(r)
  <2> DEFINE b == BeginDisconnect(c[id])
  <2>1. id \in Ids /\ c[id] \in Conn
      BY DEF Registered
  <2>2. b.adapter = c[id].adapter /\ b.status = c[id].status /\ b.config = c[id].config
      BY <2>1, BeginDisconnectKeeps
  <2> HIDE DEF b
  <2>3. conn' = [c EXCEPT ![id] = b]
      BY <1>2 DEF b
  <2>4. sess' = [t EXCEPT ![c[id].adapter].closers = t[c[id].adapter].closers \cup {"dispose"}]
      BY <1>2
  <2>5. \A r \in Sessions : CallOK(r)
      BY <2>4, CloserFollows
  <2> QED
      BY <2>1, <2>2, <2>3, <2>5
<1> QED
    BY <1>1, <1>2 DEF DisposeLoop

LEMMA DisposeFollows == ASSUME TypeOK, Dispose PROVE Follows
<1> DEFINE reset(id) == [conn[id] EXCEPT !.timer = FALSE, !.inProgress = FALSE,
                                         !.blocked = FALSE]
           c == [id \in Ids |-> reset(id)]
<1>1. conn \in [Ids -> Conn] /\ sess \in [Sessions -> Session]
    BY DEF TypeOK
<1>2. ASSUME NEW id \in Ids
      PROVE  reset(id) \in Conn /\ Keeps(conn[id], reset(id))
             /\ reset(id).status = conn[id].status
  <2>1. conn[id] \in Conn
      BY <1>1
  <2> QED
      BY <2>1 DEF Conn, Keeps
<1>3. DisposeLoop(c, sess)
    BY DEF Dispose
<1> HIDE DEF reset
<1>4. c \in [Ids -> Conn]
    BY <1>2
<1>5. \A i \in Ids : c[i] = reset(i)
    OBVIOUS
<1> HIDE DEF c
<1>6. /\ \A i \in Ids : /\ conn'[i].adapter = c[i].adapter
                        /\ conn'[i].status = c[i].status
                        /\ conn'[i].config = c[i].config
      /\ \A r \in Sessions : CallOK(r)
    BY <1>1, <1>3, <1>4, DisposeLoopKeeps
<1>7. \A i \in Ids : Keeps(conn[i], conn'[i])
    BY <1>2, <1>5, <1>6 DEF Keeps
<1> QED
    BY <1>6, <1>7, PartsChange DEF Follows

LEMMA CloseDoneFollows ==
    ASSUME TypeOK, NEW s \in Sessions, NEW who \in Closers, CloseDone(s, who)
    PROVE  Follows
<1>1. conn \in [Ids -> Conn] /\ sess \in [Sessions -> Session]
    BY DEF TypeOK
<1> PICK id \in Ids : id = sess[s].id
    BY <1>1 DEF Session
<1> DEFINE e == EndDisconnect(conn[id])
           f == Forget(e)
           c == [conn EXCEPT ![id] = e]
           x == [sess[s] EXCEPT !.link = "down", !.closers = @ \ {who}]
           t == [sess EXCEPT ![s] = x]
<1>2. e \in Conn /\ Closes(conn[id], e) /\ Closes(conn[id], f)
    BY <1>1, EndDisconnectCloses
<1>3. x \in Session /\ x.id = sess[s].id /\ x.pc = sess[s].pc
    BY <1>1 DEF Session, Links
<1>4. [sess EXCEPT ![s].link = "down", ![s].closers = @ \ {who}] = t
    BY <1>1
<1>5. \/ conn' = c /\ sess' = t
      \/ conn' = [conn EXCEPT ![id] = f] /\ sess' = t
      \/ DisposeLoop(c, t)
    BY <1>4 DEF CloseDone
<1> HIDE DEF e, f, x
<1>6. /\ t \in [Sessions -> Session]
      /\ \A r \in Sessions : t[r].pc = sess[r].pc /\ t[r].id = sess[r].id
    BY <1>1, <1>3
<1> HIDE DEF t
<1>7. CASE (conn' = c \/ conn' = [conn EXCEPT ![id] = f]) /\ sess' = t
  <2>1. \A r \in Sessions : CallOK(r)
      BY <1>6, <1>7, NoCallStarts
  <2> QED
      BY <1>2, <1>7, <2>1, PartsChange, OneChanges DEF Follows
<1>8. CASE DisposeLoop(c, t)
  <2>1. c \in [Ids -> Conn] /\ c[id] = e /\ \A i \in Ids \ {id} : c[i] = conn[i]
      BY <1>1, <1>2
  <2> HIDE DEF c
  <2>2. /\ \A i \in Ids : /\ conn'[i].adapter = c[i].adapter
                          /\ conn'[i].status = c[i].status
                          /\ conn'[i].config = c[i].config
        /\ \A r \in Sessions : CallOK(r)
      BY <1>6, <1>8, <2>1, DisposeLoopKeeps
  <2>3. \A i \in Ids : Keeps(conn[i], conn'[i]) \/ Closes(conn[i], conn'[i])
      BY <1>2, <2>1, <2>2 DEF Keeps, Closes
  <2> QED
      BY <2>2, <2>3, PartsChange DEF Follows
<1> QED
    BY <1>5, <1>7, <1>8

\* The adapters that are dead stay registered until the next attempt.
LEMMA KeepaliveTickFollows == ASSUME TypeOK, KeepaliveTick PROVE Follows
<1>1. conn \in [Ids -> Conn] /\ sess' = sess
    BY DEF TypeOK, KeepaliveTick
<1> DEFINE dead(id) == [conn[id] EXCEPT !.status = "disconnected"]
           e(id) == IF conn[id].adapter = None \/ IsConnected(conn[id].adapter) THEN conn[id]
                    ELSE IF autoReconnect THEN StartReconnect(dead(id)) ELSE dead(id)
<1>2. \A id \in Ids : conn'[id] = e(id)
    BY DEF KeepaliveTick
<1>3. ASSUME NEW id \in Ids
      PROVE  Change(conn[id], e(id))
  <2>1. /\ dead(id) \in Conn /\ dead(id).adapter = conn[id].adapter
        /\ dead(id).config = conn[id].config /\ dead(id).status = "disconnected"
      BY <1>1 DEF Conn, Statuses
  <2> HIDE DEF dead
  <2>2. Keeps(dead(id), StartReconnect(dead(id)))
      BY <2>1, StartReconnectKeeps
  <2>3. CASE conn[id].adapter = None \/ IsConnected(conn[id].adapter)
      BY <2>3 DEF Change, Move
  <2>4. CASE ~(conn[id].adapter = None \/ IsConnected(conn[id].adapter))
    <3>1. e(id) = StartReconnect(dead(id)) \/ e(id) = dead(id)
        BY <2>4
    <3> QED
        BY <2>1, <2>2, <2>4, <3>1 DEF Keeps, Change, Move
  <2> QED
      BY <2>3, <2>4
<1> HIDE DEF e
<1> QED
    BY <1>1, <1>2, <1>3, NoCallStarts DEF Follows

LEMMA CooldownFollows ==
    ASSUME TypeOK, NEW id \in Ids, CooldownElapses(id) PROVE Follows
<1> DEFINE d == [conn[id] EXCEPT !.cooled = TRUE]
<1>1. conn \in [Ids -> Conn] /\ conn[id] \in Conn /\ sess' = sess
    BY DEF TypeOK, CooldownElapses
<1>2. conn' = [conn EXCEPT ![id] = d]
    BY <1>1 DEF CooldownElapses
<1>3. Keeps(conn[id], d)
    BY <1>1 DEF Keeps, Conn
<1> HIDE DEF d
<1> QED
    BY <1>1, <1>2, <1>3, PartsChange, OneChanges, NoCallStarts DEF Follows

LEMMA QuietFollows == ASSUME UNCHANGED <<conn, sess>> PROVE Follows
    BY NoneChanges, NoCallStarts DEF Follows

-----------------------------------------------------------------------------
LEMMA StepFollows == IInv /\ Unused /\ [Next]_vars => Follows
<1> SUFFICES ASSUME IInv, Unused, [Next]_vars PROVE Follows
    OBVIOUS
<1>0. TypeOK
    BY DEF IInv
<1>1. ASSUME NEW id \in Ids,
             \/ Add(id) \/ UserConnect(id) \/ UserDisconnect(id) \/ Remove(id)
             \/ OpenTerminal(id) \/ TimerFires(id) \/ CooldownElapses(id)
      PROVE  Follows
    BY <1>0, <1>1, AddFollows, CommandFollows, UserDisconnectFollows, RemoveFollows,
       TimerFollows, CooldownFollows
<1>2. ASSUME NEW s \in Sessions, Attempt(s)
      PROVE  Follows
    BY <1>2, LookupFollows, RegisterFollows, FailureFollows DEF Attempt, Links
<1>3. ASSUME NEW s \in Sessions,
             \/ LateHandshake(s) \/ Drop(s) \/ Notice(s)
             \/ \E who \in Closers : CloseDone(s, who)
      PROVE  Follows
    BY <1>0, <1>3, LinkFollows, CloseDoneFollows
<1>4. CASE KeepaliveTick \/ Dispose
    BY <1>0, <1>4, KeepaliveTickFollows, DisposeFollows
<1>5. CASE ToggleAutoReconnect \/ UNCHANGED vars
    BY <1>5, QuietFollows DEF ToggleAutoReconnect, vars
<1> QED
    BY <1>1, <1>2, <1>3, <1>4, <1>5 DEF Next

LEMMA InitUnused == Init => Unused /\ Pool!PoolInit
<1> SUFFICES ASSUME Init PROVE Unused /\ Pool!PoolInit
    OBVIOUS
<1>1. \A id \in Ids : conn[id].status = "idle" /\ conn[id].adapter = None
    BY DEF Init
<1>2. \A s \in Sessions : sess[s].pc = "idle"
    BY DEF Init
<1> QED
    BY <1>1, <1>2 DEF Unused, Pool!PoolInit

\* What the rest of the extension relies on, for any number of connections and
\* sessions and any limit of attempts: the manager's statuses and registered
\* adapters change as those of a connection pool, whatever calls, timers, checks
\* and closings overlap.
THEOREM PoolRefinement == Spec => ImplementsConnectionPool
<1>1. Init => IInv /\ Unused /\ Pool!PoolInit
    BY InitIInv, InitUnused
<1>2. IInv /\ Unused /\ [Next]_vars => (IInv /\ Unused)' /\ Pool!PoolNext
  <2> SUFFICES ASSUME IInv, Unused, [Next]_vars PROVE (IInv /\ Unused)' /\ Pool!PoolNext
      OBVIOUS
  <2>1. IInv' /\ Follows
      BY NextIInv, StepFollows
  <2>2. TypeOK /\ TypeOK'
      BY <2>1 DEF IInv
  <2> QED
      BY <2>1, <2>2, UnusedKept, FollowsIsPoolStep
<1> QED
    BY <1>1, <1>2, PTL DEF Spec, ImplementsConnectionPool, Pool!PoolSpec
=============================================================================
