---------------------- MODULE ConnectionManagerProofs ----------------------
(***************************************************************************)
(* For any number of connections and sessions and any limit of attempts:   *)
(* the type invariant and the safety invariants of the connection manager. *)
(***************************************************************************)
EXTENDS ConnectionManager, TLAPS

\* Some call of connect() for id is past its guard.
Attempted(id) == \E s \in Sessions : Attempting(s, id)

\* The reconnect timer's callback of id runs.
TimerCall(id) == \E s \in Sessions : sess[s].id = id /\ sess[s].by = "timer"

\* The marks of the reconnect cycle that the invariant allows for the entries c
\* of an id of which a timer's callback runs or not.
Consistent(c, timerCall) ==
    /\ c.inProgress => c.timer \/ timerCall
    /\ c.blocked => ~c.timer /\ ~c.inProgress

\* A registered adapter belongs to its id and its connect call is over, so that
\* the end of another call never touches it.
AdapterOK(id) ==
    LET s == conn[id].adapter IN
    s # None => sess[s].id = id /\ sess[s].pc = "idle" /\ sess[s].link # "dialing"

EntryOK(id) ==
    /\ AdapterOK(id)
    /\ conn[id].status = "connected" => conn[id].adapter # None
    /\ conn[id].status = "connected" /\ disposal = "no" => keepalive # "off"
    /\ conn[id].status = "connecting" => Attempted(id)
    /\ Consistent(conn[id], TimerCall(id))

\* A slot has a caller exactly while its call runs.
CallersHaveCalls == \A s \in Sessions : sess[s].pc = "idle" <=> sess[s].by = "nobody"

\* The keepalive loop is armed only while it has something to watch.
ArmedHasAdapter == keepalive = "armed" => Registered(conn) # {}

IInv ==
    /\ TypeOK
    /\ CallersHaveCalls
    /\ ArmedHasAdapter
    /\ KeepaliveNeverStalls
    /\ \A id \in Ids : EntryOK(id)

-----------------------------------------------------------------------------
(* What the synchronous parts of the manager do to the entries of one id.  *)

\* startReconnect() keeps the registration and leaves a consistent mark.
LEMMA StartReconnectFacts ==
    ASSUME NEW c \in Conn, NEW timerCall \in BOOLEAN, Consistent(c, timerCall)
    PROVE  /\ StartReconnect(c) \in Conn
           /\ StartReconnect(c).config = c.config
           /\ StartReconnect(c).adapter = c.adapter
           /\ StartReconnect(c).status \in {c.status, "error"}
           /\ Consistent(StartReconnect(c), timerCall)
<1>1. CASE c.blocked \/ c.inProgress \/ c.timer
    BY <1>1 DEF StartReconnect
<1>2. CASE /\ ~(c.blocked \/ c.inProgress \/ c.timer)
           /\ c.attempts >= MaxAttempts /\ ~c.cooled
  <2> DEFINE d == [c EXCEPT !.status = "error"]
  <2>1. StartReconnect(c) = d
      BY <1>2 DEF StartReconnect
  <2>2. /\ d \in Conn /\ d.config = c.config /\ d.adapter = c.adapter /\ d.status = "error"
        /\ d.timer = c.timer /\ d.inProgress = c.inProgress /\ d.blocked = c.blocked
      BY DEF Conn, Statuses
  <2> QED
      BY <2>1, <2>2 DEF Consistent
<1>3. CASE /\ ~(c.blocked \/ c.inProgress \/ c.timer)
           /\ ~(c.attempts >= MaxAttempts /\ ~c.cooled)
  <2> DEFINE n == IF c.attempts >= MaxAttempts THEN 1 ELSE c.attempts + 1
             d == [c EXCEPT !.inProgress = TRUE, !.timer = TRUE, !.cooled = FALSE,
                            !.attempts = n]
  <2>1. n \in 0..MaxAttempts
      BY AttemptsAssumption DEF Conn
  <2>2. StartReconnect(c) = d
      BY <1>3 DEF StartReconnect
  <2> HIDE DEF n
  <2>3. /\ d \in Conn /\ d.config = c.config /\ d.adapter = c.adapter /\ d.status = c.status
        /\ d.timer /\ d.blocked = c.blocked
      BY <2>1 DEF Conn
  <2> QED
      BY <1>3, <2>2, <2>3 DEF Consistent
<1> QED
    BY <1>1, <1>2, <1>3

\* So does the end of the reconnect timer's callback, whose call is over.
LEMMA CallThrowsFacts ==
    ASSUME NEW c \in Conn, NEW by \in {"user", "timer", "terminal"},
           NEW timerCall \in BOOLEAN,
           Consistent(c, timerCall \/ by = "timer")
    PROVE  /\ CallThrows(c, by) \in Conn
           /\ CallThrows(c, by).config = c.config
           /\ CallThrows(c, by).adapter = c.adapter
           /\ CallThrows(c, by).status \in {c.status, "error"}
           /\ Consistent(CallThrows(c, by), timerCall)
<1>1. CASE by = "timer"
  <2> DEFINE d == [c EXCEPT !.inProgress = FALSE, !.timer = FALSE]
  <2>1. d \in Conn /\ d.config = c.config /\ d.adapter = c.adapter /\ d.status = c.status
      BY DEF Conn
  <2>2. Consistent(d, timerCall)
      BY DEF Conn, Consistent
  <2>3. CallThrows(c, by) = StartReconnect(d)
      BY <1>1 DEF CallThrows
  <2> QED
      BY <2>1, <2>2, <2>3, StartReconnectFacts
<1>2. CASE by # "timer"
    BY <1>2 DEF CallThrows
<1> QED
    BY <1>1, <1>2

LEMMA CallReturnsFacts ==
    ASSUME NEW c \in Conn, NEW by \in {"user", "timer", "terminal"},
           NEW timerCall \in BOOLEAN,
           Consistent(c, timerCall \/ by = "timer")
    PROVE  /\ CallReturns(c, by) \in Conn
           /\ CallReturns(c, by).adapter = c.adapter
           /\ CallReturns(c, by).status = c.status
           /\ Consistent(CallReturns(c, by), timerCall)
    BY DEF CallReturns, Conn, Consistent

\* The two halves of disconnect(), and removeConnection() after them.
LEMMA DisconnectFacts ==
    ASSUME NEW c \in Conn, NEW timerCall \in BOOLEAN, Consistent(c, timerCall)
    PROVE  /\ BeginDisconnect(c) \in Conn
           /\ BeginDisconnect(c).adapter = c.adapter
           /\ BeginDisconnect(c).status = c.status
           /\ Consistent(BeginDisconnect(c), timerCall)
<1>1. BeginDisconnect(c) \in Conn
    BY DEF BeginDisconnect, Conn
<1>2. /\ BeginDisconnect(c).adapter = c.adapter
      /\ BeginDisconnect(c).status = c.status
      /\ BeginDisconnect(c).timer = FALSE
      /\ BeginDisconnect(c).inProgress = FALSE
    BY DEF BeginDisconnect, Conn
<1> QED
    BY <1>1, <1>2 DEF Consistent

LEMMA EndDisconnectFacts ==
    ASSUME NEW c \in Conn, NEW timerCall \in BOOLEAN, Consistent(c, timerCall)
    PROVE  /\ EndDisconnect(c) \in Conn
           /\ EndDisconnect(c).adapter = None
           /\ EndDisconnect(c).status = "disconnected"
           /\ Consistent(EndDisconnect(c), timerCall)
<1>1. EndDisconnect(c) \in Conn
    BY DEF EndDisconnect, Conn, Statuses
<1>2. /\ EndDisconnect(c).adapter = None
      /\ EndDisconnect(c).status = "disconnected"
      /\ EndDisconnect(c).timer = c.timer
      /\ EndDisconnect(c).inProgress = c.inProgress
      /\ EndDisconnect(c).blocked = c.blocked
    BY DEF EndDisconnect, Conn
<1> QED
    BY <1>1, <1>2 DEF Consistent

LEMMA ForgetFacts ==
    ASSUME NEW c \in Conn, NEW timerCall \in BOOLEAN
    PROVE  /\ Forget(c) \in Conn
           /\ Forget(c).adapter = c.adapter
           /\ Forget(c).status = "idle"
           /\ Consistent(Forget(c), timerCall)
<1>0. 0 \in 0..MaxAttempts
    BY AttemptsAssumption
<1>1. Forget(c) \in Conn
    BY <1>0 DEF Forget, Conn, Statuses
<1>2. /\ Forget(c).adapter = c.adapter
      /\ Forget(c).status = "idle"
      /\ Forget(c).inProgress = FALSE
      /\ Forget(c).blocked = FALSE
    BY DEF Forget, Conn
<1> QED
    BY <1>1, <1>2 DEF Consistent
-----------------------------------------------------------------------------
(* What the changes of the sessions do to the entries.                     *)

\* The step takes nothing from the entries of id: its calls and its adapter
\* are there afterwards.
Kept(id) ==
    /\ Attempted(id) => Attempted(id)'
    /\ TimerCall(id) => TimerCall(id)'
    /\ LET s == conn[id].adapter IN
       s # None => /\ sess'[s].id = sess[s].id
                   /\ sess'[s].pc = sess[s].pc
                   /\ sess'[s].link = "dialing" => sess[s].link = "dialing"

\* What the invariant says of one id is kept when its entries are.
LEMMA EntryKept ==
    ASSUME IInv, NEW id \in Ids, conn'[id] = conn[id], Kept(id),
           disposal' = "no" => disposal = "no",
           keepalive' = "off" => keepalive = "off" \/ conn[id].adapter = None
    PROVE  EntryOK(id)'
<1>1. EntryOK(id)
    BY DEF IInv
<1>2. AdapterOK(id)'
    BY <1>1 DEF Kept, EntryOK, AdapterOK
<1>3. Consistent(conn[id], TimerCall(id))'
    BY <1>1 DEF Kept, EntryOK, Consistent
<1>4. conn'[id].status = "connecting" => Attempted(id)'
    BY <1>1 DEF Kept, EntryOK
<1>5. /\ conn'[id].status = "connected" => conn'[id].adapter # None
      /\ conn'[id].status = "connected" /\ disposal' = "no" => keepalive' # "off"
    BY <1>1 DEF EntryOK
<1> QED
    BY <1>2, <1>3, <1>4, <1>5 DEF EntryOK

\* A session that only changes its link, and not to dialing, or its closers.
LEMMA SameCallsKept ==
    ASSUME IInv, sess' \in [Sessions -> Session],
           \A s \in Sessions : /\ sess'[s].id = sess[s].id
                               /\ sess'[s].by = sess[s].by
                               /\ sess'[s].pc = sess[s].pc
                               /\ sess'[s].link = "dialing" => sess[s].link = "dialing"
    PROVE  CallersHaveCalls' /\ \A id \in Ids : Kept(id)
<1>1. CallersHaveCalls'
    BY DEF IInv, CallersHaveCalls
<1>2. ASSUME NEW id \in Ids PROVE Kept(id)
  <2>1. conn[id].adapter # None => conn[id].adapter \in Sessions
      BY DEF IInv, TypeOK, Conn
  <2>2. Attempted(id) => Attempted(id)'
      BY DEF Attempted, Attempting
  <2>3. TimerCall(id) => TimerCall(id)'
      BY DEF TimerCall
  <2> QED
      BY <2>1, <2>2, <2>3 DEF Kept
<1> QED
    BY <1>1, <1>2

\* A call that starts takes a slot nobody refers to.
LEMMA OpenFacts ==
    ASSUME IInv, NEW s \in Free, NEW own \in Ids,
           NEW by \in {"user", "timer", "terminal"}, Open(s, own, by)
    PROVE  /\ sess' \in [Sessions -> Session]
           /\ CallersHaveCalls'
           /\ \A id \in Ids : Kept(id)
           /\ by = "timer" => TimerCall(own)'
<1>1. s \in Sessions /\ sess[s].pc = "idle" /\ sess[s].by = "nobody"
      /\ \A id \in Ids : conn[id].adapter # s
    BY DEF Free, IInv, CallersHaveCalls
<1>2. sess \in [Sessions -> Session]
    BY DEF IInv, TypeOK
<1>3. [id |-> own, by |-> by, pc |-> "lookup", link |-> "down", closers |-> {}] \in Session
    BY DEF Session, Links
<1>4. sess' \in [Sessions -> Session]
    BY <1>1, <1>2, <1>3 DEF Open
<1>5. /\ \A t \in Sessions \ {s} : sess'[t] = sess[t]
      /\ sess'[s].id = own /\ sess'[s].by = by /\ sess'[s].pc = "lookup"
    BY <1>1, <1>2 DEF Open
<1>6. CallersHaveCalls'
    BY <1>5 DEF IInv, CallersHaveCalls
<1>7. ASSUME NEW id \in Ids PROVE Kept(id)
  <2>1. conn[id].adapter # None => conn[id].adapter \in Sessions \ {s}
      BY <1>1 DEF IInv, TypeOK, Conn
  <2>2. Attempted(id) => Attempted(id)'
      BY <1>1, <1>5 DEF Attempted, Attempting
  <2>3. TimerCall(id) => TimerCall(id)'
      BY <1>1, <1>5 DEF TimerCall
  <2> QED
      BY <1>5, <2>1, <2>2, <2>3 DEF Kept
<1>8. by = "timer" => TimerCall(own)'
    BY <1>1, <1>5 DEF TimerCall
<1> QED
    BY <1>4, <1>6, <1>7, <1>8

\* A call that runs has not registered its adapter.
LEMMA RunningIsUnregistered ==
    ASSUME IInv, NEW s \in Sessions, sess[s].pc # "idle"
    PROVE  /\ \A id \in Ids : conn[id].adapter # s
           /\ sess[s].by \in {"user", "timer", "terminal"}
           /\ sess[s].id \in Ids
<1>1. \A id \in Ids : conn[id].adapter # s
    BY SessionsAssumption DEF IInv, EntryOK, AdapterOK
<1>2. sess[s].by \in {"user", "timer", "terminal"} /\ sess[s].id \in Ids
    BY DEF IInv, CallersHaveCalls, TypeOK, Session
<1> QED
    BY <1>1, <1>2

\* The end of a call concerns its own id only.
LEMMA EndCallFacts ==
    ASSUME IInv, NEW s \in Sessions, sess[s].pc # "idle", NEW link \in Links,
           EndCall(s, link)
    PROVE  /\ sess' \in [Sessions -> Session]
           /\ CallersHaveCalls'
           /\ \A id \in Ids \ {sess[s].id} : Kept(id)
           /\ sess[s].pc # "race" \/ sess[s].by = "terminal" => 
                 (Attempted(sess[s].id) => Attempted(sess[s].id)')
           /\ TimerCall(sess[s].id) => TimerCall(sess[s].id)' \/ sess[s].by = "timer"
           /\ \A t \in Sessions \ {s} : sess'[t] = sess[t]
           /\ sess'[s].id = sess[s].id /\ sess'[s].pc = "idle" /\ sess'[s].link = link
<1>1. sess \in [Sessions -> Session]
    BY DEF IInv, TypeOK
<1>2. [sess[s] EXCEPT !.pc = "idle", !.by = "nobody", !.link = link] \in Session
    BY <1>1 DEF Session
<1>3. sess' = [sess EXCEPT ![s] = [sess[s] EXCEPT !.pc = "idle", !.by = "nobody", !.link = link]]
    BY <1>1 DEF EndCall
<1>4. sess' \in [Sessions -> Session]
    BY <1>1, <1>2, <1>3
<1>5. /\ \A t \in Sessions \ {s} : sess'[t] = sess[t]
      /\ sess'[s].id = sess[s].id /\ sess'[s].pc = "idle" /\ sess'[s].link = link
      /\ sess'[s].by = "nobody"
    BY <1>1, <1>3 DEF Session
<1>6. CallersHaveCalls'
    BY <1>5 DEF IInv, CallersHaveCalls
<1>7. ASSUME NEW id \in Ids \ {sess[s].id} PROVE Kept(id)
  <2>1. conn[id].adapter # None => conn[id].adapter \in Sessions \ {s}
      BY RunningIsUnregistered DEF IInv, TypeOK, Conn
  <2>2. Attempted(id) => Attempted(id)'
      BY <1>5 DEF Attempted, Attempting
  <2>3. TimerCall(id) => TimerCall(id)'
      BY <1>5 DEF TimerCall
  <2> QED
      BY <1>5, <2>1, <2>2, <2>3 DEF Kept
<1>8. sess[s].pc # "race" \/ sess[s].by = "terminal" => 
        (Attempted(sess[s].id) => Attempted(sess[s].id)')
    BY <1>5 DEF Attempted, Attempting
<1>9. TimerCall(sess[s].id) => TimerCall(sess[s].id)' \/ sess[s].by = "timer"
    BY <1>5 DEF TimerCall
<1> QED
    BY <1>4, <1>5, <1>6, <1>7, <1>8, <1>9

\* A call that enters the race.
LEMMA RaceFacts ==
    ASSUME IInv, NEW s \in Sessions, sess[s].pc = "lookup",
           sess' = [sess EXCEPT ![s].pc = "race", ![s].link = "dialing"]
    PROVE  /\ sess' \in [Sessions -> Session]
           /\ CallersHaveCalls'
           /\ \A id \in Ids : Kept(id)
           /\ sess'[s].id = sess[s].id
           /\ sess[s].by # "terminal" => Attempted(sess[s].id)'
<1>1. sess \in [Sessions -> Session]
    BY DEF IInv, TypeOK
<1>2. [sess[s] EXCEPT !.pc = "race", !.link = "dialing"] \in Session
    BY <1>1 DEF Session, Links
<1>3. sess' = [sess EXCEPT ![s] = [sess[s] EXCEPT !.pc = "race", !.link = "dialing"]]
    BY <1>1
<1>4. sess' \in [Sessions -> Session]
    BY <1>1, <1>2, <1>3
<1>5. /\ \A t \in Sessions \ {s} : sess'[t] = sess[t]
      /\ sess'[s].id = sess[s].id /\ sess'[s].pc = "race" /\ sess'[s].by = sess[s].by
    BY <1>1, <1>3 DEF Session
<1>6. CallersHaveCalls'
    BY <1>5 DEF IInv, CallersHaveCalls
<1>7. ASSUME NEW id \in Ids PROVE Kept(id)
  <2>1. conn[id].adapter # None => conn[id].adapter \in Sessions \ {s}
      BY RunningIsUnregistered DEF IInv, TypeOK, Conn
  <2>2. Attempted(id) => Attempted(id)'
      BY <1>5 DEF Attempted, Attempting
  <2>3. TimerCall(id) => TimerCall(id)'
      BY <1>5 DEF TimerCall
  <2> QED
      BY <1>5, <2>1, <2>2, <2>3 DEF Kept
<1>8. sess[s].by # "terminal" => Attempted(sess[s].id)'
    BY <1>5 DEF Attempted, Attempting
<1> QED
    BY <1>4, <1>5, <1>6, <1>7, <1>8
-----------------------------------------------------------------------------
(* Every action keeps the invariant.                                       *)

LEMMA TypeFacts ==
    ASSUME IInv
    PROVE  /\ conn \in [Ids -> Conn] /\ sess \in [Sessions -> Session]
           /\ keepalive \in {"off", "armed", "fired"} /\ autoReconnect \in BOOLEAN
           /\ disposal \in {"no", "running", "done"}
           /\ \A id \in Ids : EntryOK(id) /\ TimerCall(id) \in BOOLEAN
    BY DEF IInv, TypeOK, TimerCall

\* The keepalive field is left alone and no adapter is unregistered.
LEMMA WatchKept ==
    ASSUME IInv, UNCHANGED keepalive,
           \A id \in Ids : conn[id].adapter # None => conn'[id].adapter # None
    PROVE  ArmedHasAdapter' /\ KeepaliveNeverStalls'
    BY DEF IInv, ArmedHasAdapter, KeepaliveNeverStalls, Registered

\* A step that changes neither conn nor the calls.
LEMMA LinkStep ==
    ASSUME IInv, UNCHANGED <<conn, keepalive, autoReconnect, disposal>>,
           sess' \in [Sessions -> Session],
           CallersHaveCalls', \A id \in Ids : Kept(id)
    PROVE  IInv'
<1>1. \A id \in Ids : EntryOK(id)'
    BY EntryKept
<1>2. ArmedHasAdapter' /\ KeepaliveNeverStalls'
    BY WatchKept
<1>3. TypeOK'
    BY DEF IInv, TypeOK
<1> QED
    BY <1>1, <1>2, <1>3 DEF IInv

\* A step of one id, own, that keeps its adapter and the keepalive field.
LEMMA EntryStep ==
    ASSUME IInv, UNCHANGED <<keepalive, autoReconnect, disposal>>,
           NEW own \in Ids, NEW d \in Conn, conn' = [conn EXCEPT ![own] = d],
           sess' \in [Sessions -> Session], CallersHaveCalls',
           \A id \in Ids \ {own} : Kept(id),
           d.adapter = conn[own].adapter,
           conn[own].adapter # None =>
              /\ sess'[conn[own].adapter].id = own
              /\ sess'[conn[own].adapter].pc = "idle"
              /\ sess'[conn[own].adapter].link # "dialing",
           d.status \in {conn[own].status, "idle", "error"} \/ d.status = "connecting",
           d.status = "connecting" => Attempted(own)',
           Consistent(d, TimerCall(own)')
    PROVE  IInv'
<1>1. conn' \in [Ids -> Conn] /\ conn'[own] = d /\ \A id \in Ids \ {own} : conn'[id] = conn[id]
    BY TypeFacts
<1>2. \A id \in Ids \ {own} : EntryOK(id)'
    BY <1>1, EntryKept
<1>3. EntryOK(own)
    BY TypeFacts
<1>4. EntryOK(own)'
  <2>1. AdapterOK(own)'
      BY <1>1 DEF AdapterOK
  <2>2. /\ conn'[own].status = "connected" => conn'[own].adapter # None
        /\ conn'[own].status = "connected" /\ disposal' = "no" => keepalive' # "off"
      BY <1>1, <1>3 DEF EntryOK
  <2>3. conn'[own].status = "connecting" => Attempted(own)'
      BY <1>1
  <2>4. Consistent(conn[own], TimerCall(own))'
      BY <1>1
  <2> QED
      BY <2>1, <2>2, <2>3, <2>4 DEF EntryOK
<1>5. ArmedHasAdapter' /\ KeepaliveNeverStalls'
    BY <1>1, WatchKept
<1>6. TypeOK'
    BY <1>1 DEF IInv, TypeOK
<1> QED
    BY <1>2, <1>4, <1>5, <1>6 DEF IInv

\* The same for a step that leaves the sessions alone.
LEMMA QuietStep ==
    ASSUME IInv, UNCHANGED <<sess, keepalive, autoReconnect, disposal>>,
           NEW own \in Ids, NEW d \in Conn, conn' = [conn EXCEPT ![own] = d],
           d.adapter = conn[own].adapter,
           d.status \in {conn[own].status, "idle", "error"},
           Consistent(d, TimerCall(own))
    PROVE  IInv'
<1>1. sess' \in [Sessions -> Session] /\ CallersHaveCalls' /\ \A id \in Ids : Kept(id)
    BY SameCallsKept, TypeFacts
<1>2. EntryOK(own) /\ (Attempted(own) => Attempted(own)') /\ TimerCall(own)' = TimerCall(own)
    BY <1>1, TypeFacts DEF Kept, TimerCall
<1>3. conn[own].adapter # None =>
              /\ sess'[conn[own].adapter].id = own
              /\ sess'[conn[own].adapter].pc = "idle"
              /\ sess'[conn[own].adapter].link # "dialing"
    BY <1>2 DEF EntryOK, AdapterOK
<1>4. d.status = "connecting" => Attempted(own)'
    BY <1>2 DEF EntryOK
<1> QED
    BY <1>1, <1>2, <1>3, <1>4, EntryStep

\* What a registered adapter still is when the calls and sessions of its id are
\* kept.
LEMMA AdapterStays ==
    ASSUME IInv, NEW id \in Ids, Kept(id), conn[id].adapter # None
    PROVE  /\ sess'[conn[id].adapter].id = id
           /\ sess'[conn[id].adapter].pc = "idle"
           /\ sess'[conn[id].adapter].link # "dialing"
    BY DEF IInv, EntryOK, AdapterOK, Kept

LEMMA AddStep == ASSUME IInv, NEW id \in Ids, Add(id) PROVE IInv'
<1> DEFINE d == [conn[id] EXCEPT !.config = "present", !.status = "idle"]
<1>1. conn' = [conn EXCEPT ![id] = d]
    BY TypeFacts DEF Add
<1>2. d \in Conn /\ d.adapter = conn[id].adapter /\ d.status = "idle"
    BY TypeFacts DEF Conn, Statuses
<1>3. Consistent(d, TimerCall(id))
    BY TypeFacts DEF EntryOK, Consistent, Conn
<1> QED
    BY <1>1, <1>2, <1>3, QuietStep DEF Add

LEMMA OpenStep ==
    ASSUME IInv, NEW id \in Ids, UserConnect(id) \/ OpenTerminal(id) PROVE IInv'
<1>1. PICK s \in Free, by \in {"user", "terminal"} : Open(s, id, by)
    BY DEF UserConnect, OpenTerminal
<1>2. UNCHANGED <<conn, keepalive, autoReconnect, disposal>>
    BY DEF UserConnect, OpenTerminal
<1> QED
    BY <1>1, <1>2, OpenFacts, LinkStep

LEMMA TimerStep == ASSUME IInv, NEW id \in Ids, TimerFires(id) PROVE IInv'
<1>0. EntryOK(id) /\ conn[id] \in Conn /\ conn[id].timer
      /\ UNCHANGED <<keepalive, autoReconnect, disposal>>
    BY TypeFacts DEF TimerFires
<1>1. CASE conn[id].config = "present"
  <2> DEFINE d == [conn[id] EXCEPT !.timer = FALSE]
  <2>1. PICK s \in Free : Open(s, id, "timer")
      BY <1>1 DEF TimerFires
  <2>2. conn' = [conn EXCEPT ![id] = d]
      BY <1>1, TypeFacts DEF TimerFires
  <2>3. d \in Conn /\ d.adapter = conn[id].adapter /\ d.status = conn[id].status
      BY <1>0 DEF Conn
  <2>4. /\ sess' \in [Sessions -> Session] /\ CallersHaveCalls'
        /\ \A i \in Ids : Kept(i)
        /\ TimerCall(id)'
      BY <2>1, OpenFacts
  <2>5. Consistent(d, TimerCall(id)')
      BY <1>0, <2>4 DEF EntryOK, Consistent, Conn
  <2>6. d.status = "connecting" => Attempted(id)'
      BY <1>0, <2>3, <2>4 DEF EntryOK, Kept
  <2> HIDE DEF d
  <2> QED
      BY <1>0, <2>2, <2>3, <2>4, <2>5, <2>6, AdapterStays, EntryStep
<1>2. CASE conn[id].config # "present"
  <2> DEFINE d == CallThrows(conn[id], "timer")
  <2>1. conn' = [conn EXCEPT ![id] = d] /\ UNCHANGED sess
      BY <1>2 DEF TimerFires
  <2>2. TimerCall(id) \in BOOLEAN
      BY DEF TimerCall
  <2>3. Consistent(conn[id], TimerCall(id) \/ "timer" = "timer")
      BY <1>0 DEF EntryOK, Consistent
  <2>4. /\ d \in Conn /\ d.adapter = conn[id].adapter /\ d.status \in {conn[id].status, "error"}
        /\ Consistent(d, TimerCall(id))
      BY <1>0, <2>2, <2>3, CallThrowsFacts
  <2> HIDE DEF d
  <2> QED
      BY <1>0, <2>1, <2>4, QuietStep
<1> QED
    BY <1>1, <1>2

\* The call of s ends and the entries of its id become d.
LEMMA EndStep ==
    ASSUME IInv, NEW s \in Sessions, sess[s].pc # "idle", NEW link \in Links,
           EndCall(s, link), UNCHANGED <<keepalive, autoReconnect, disposal>>,
           NEW own \in Ids, own = sess[s].id,
           NEW d \in Conn, conn' = [conn EXCEPT ![own] = d],
           d.adapter = conn[own].adapter,
           \/ d.status \in {"idle", "error"}
           \/ /\ sess[s].pc # "race" \/ sess[s].by = "terminal"
              /\ d.status \in {conn[own].status, "error"},
           \A timerCall \in BOOLEAN :
              (TimerCall(own) => timerCall \/ sess[s].by = "timer")
                 => Consistent(d, timerCall)
    PROVE  IInv'
<1>1. EntryOK(own) /\ conn[own] \in Conn
    BY TypeFacts
<1>2. /\ sess' \in [Sessions -> Session] /\ CallersHaveCalls'
      /\ \A id \in Ids \ {own} : Kept(id)
      /\ sess[s].pc # "race" \/ sess[s].by = "terminal" => (Attempted(own) => Attempted(own)')
      /\ TimerCall(own) => TimerCall(own)' \/ sess[s].by = "timer"
      /\ \A t \in Sessions \ {s} : sess'[t] = sess[t]
    BY EndCallFacts
<1>3. conn[own].adapter # None =>
              /\ sess'[conn[own].adapter].id = own
              /\ sess'[conn[own].adapter].pc = "idle"
              /\ sess'[conn[own].adapter].link # "dialing"
    BY <1>1, <1>2, RunningIsUnregistered DEF EntryOK, AdapterOK, Conn
<1>4. d.status = "connecting" => Attempted(own)'
    BY <1>1, <1>2 DEF EntryOK
<1>5. TimerCall(own)' \in BOOLEAN
    BY DEF TimerCall
<1>6. Consistent(d, TimerCall(own)')
    BY <1>2, <1>5
<1>7. d.status \in {conn[own].status, "idle", "error"} \/ d.status = "connecting"
    OBVIOUS
<1> QED
    BY <1>1, <1>2, <1>3, <1>4, <1>6, <1>7, EntryStep

\* The two ends of a call leave a consistent mark.
LEMMA CallEndsConsistent ==
    ASSUME IInv, NEW s \in Sessions, sess[s].pc # "idle",
           NEW c \in Conn, Consistent(c, TimerCall(sess[s].id)),
           NEW timerCall \in BOOLEAN,
           TimerCall(sess[s].id) => timerCall \/ sess[s].by = "timer"
    PROVE  /\ Consistent(CallThrows(c, sess[s].by), timerCall)
           /\ Consistent(CallReturns(c, sess[s].by), timerCall)
<1>1. sess[s].by \in {"user", "timer", "terminal"}
    BY RunningIsUnregistered
<1>2. Consistent(c, timerCall \/ sess[s].by = "timer")
    BY DEF Consistent
<1> QED
    BY <1>1, <1>2, CallThrowsFacts, CallReturnsFacts

LEMMA LookupStep ==
    ASSUME IInv, NEW s \in Sessions, LookupDone(s) \/ LookupFails(s) PROVE IInv'
<1>. PICK own \in Ids, by \in {"user", "timer", "terminal"} : own = sess[s].id /\ by = sess[s].by
    BY RunningIsUnregistered DEF LookupDone, LookupFails
<1>0. /\ sess[s].pc = "lookup"
      /\ conn[own] \in Conn /\ EntryOK(own) /\ "down" \in Links /\ "dialing" \in Links
      /\ UNCHANGED <<keepalive, autoReconnect, disposal>>
    BY TypeFacts DEF LookupDone, LookupFails, Links
<1>1. CASE conn' = [conn EXCEPT ![own] = CallReturns(@, by)] /\ EndCall(s, "down")
  <2> DEFINE d == CallReturns(conn[own], by)
  <2>1. d \in Conn /\ d.adapter = conn[own].adapter /\ d.status = conn[own].status
    <3>1. conn[own] \in Conn
        BY <1>0
    <3> QED
        BY <3>1 DEF CallReturns, Conn
  <2>2. ASSUME NEW timerCall \in BOOLEAN, TimerCall(own) => timerCall \/ by = "timer"
        PROVE  Consistent(d, timerCall)
      BY <1>0, <2>2, CallEndsConsistent DEF EntryOK
  <2>3. conn' = [conn EXCEPT ![own] = d] /\ EndCall(s, "down") /\ sess[s].pc = "lookup"
      BY <1>0, <1>1
  <2> HIDE DEF d
  <2>4. \A timerCall \in BOOLEAN :
           (TimerCall(own) => timerCall \/ sess[s].by = "timer") => Consistent(d, timerCall)
      BY <2>2
  <2> QED
      BY <1>0, <2>1, <2>3, <2>4, EndStep
<1>2. CASE conn' = [conn EXCEPT ![own] = CallThrows(@, by)] /\ EndCall(s, "down")
  <2> DEFINE d == CallThrows(conn[own], by)
  <2>1. Consistent(conn[own], TRUE \/ by = "timer")
      BY <1>0 DEF EntryOK, Consistent
  <2>2. d \in Conn /\ d.adapter = conn[own].adapter /\ d.status \in {conn[own].status, "error"}
      BY <1>0, <2>1, CallThrowsFacts
  <2>3. ASSUME NEW timerCall \in BOOLEAN, TimerCall(own) => timerCall \/ by = "timer"
        PROVE  Consistent(d, timerCall)
      BY <1>0, <2>3, CallEndsConsistent DEF EntryOK
  <2>4. conn' = [conn EXCEPT ![own] = d] /\ EndCall(s, "down") /\ sess[s].pc = "lookup"
      BY <1>0, <1>2
  <2> HIDE DEF d
  <2>5. \A timerCall \in BOOLEAN :
           (TimerCall(own) => timerCall \/ sess[s].by = "timer") => Consistent(d, timerCall)
      BY <2>3
  <2> QED
      BY <1>0, <2>2, <2>4, <2>5, EndStep
<1>3. CASE /\ by # "terminal"
           /\ conn' = [conn EXCEPT ![own].status = "connecting"]
           /\ sess' = [sess EXCEPT ![s].pc = "race", ![s].link = "dialing"]
  <2> DEFINE d == [conn[own] EXCEPT !.status = "connecting"]
  <2>1. /\ conn' = [conn EXCEPT ![own] = d] /\ d \in Conn
        /\ d.adapter = conn[own].adapter /\ d.status = "connecting"
        /\ d.timer = conn[own].timer /\ d.inProgress = conn[own].inProgress
        /\ d.blocked = conn[own].blocked
      BY <1>0, <1>3, TypeFacts DEF Conn, Statuses
  <2> HIDE DEF d
  <2>2. /\ sess' \in [Sessions -> Session] /\ CallersHaveCalls'
        /\ \A id \in Ids : Kept(id)
      BY <1>0, <1>3, RaceFacts
  <2>3. Attempted(own)'
      BY <1>0, <1>3, RaceFacts
  <2>4. TimerCall(own) => TimerCall(own)'
      BY <2>2 DEF Kept
  <2>5. Consistent(d, TimerCall(own)')
      BY <1>0, <2>1, <2>4 DEF EntryOK, Consistent
  <2>6. conn[own].adapter # None =>
              /\ sess'[conn[own].adapter].id = own
              /\ sess'[conn[own].adapter].pc = "idle"
              /\ sess'[conn[own].adapter].link # "dialing"
      BY <2>2, AdapterStays
  <2> QED
      BY <1>0, <2>1, <2>2, <2>3, <2>5, <2>6, EntryStep
<1>4. CASE /\ sess' = [sess EXCEPT ![s].pc = "race", ![s].link = "dialing"]
           /\ UNCHANGED conn
    BY <1>0, <1>4, RaceFacts, LinkStep
<1> QED
    BY <1>1, <1>2, <1>3, <1>4 DEF LookupDone, LookupFails

\* Failures: of an attempt, whose status is replaced, and of a terminal's session.
LEMMA ConnectThrowsStep ==
    ASSUME IInv, NEW s \in Sessions, NEW link \in Links, ConnectThrows(s, link) PROVE IInv'
<1>. PICK own \in Ids, by \in {"user", "timer", "terminal"} : own = sess[s].id /\ by = sess[s].by
    BY RunningIsUnregistered DEF ConnectThrows
<1>0. /\ sess[s].pc = "race" /\ EndCall(s, link)
      /\ conn[own] \in Conn /\ EntryOK(own)
      /\ UNCHANGED <<keepalive, autoReconnect, disposal>>
    BY TypeFacts DEF ConnectThrows
<1> DEFINE c == [conn[own] EXCEPT !.status = "error"]
           d == CallThrows(c, by)
<1>1. /\ c \in Conn /\ c.adapter = conn[own].adapter /\ c.status = "error"
      /\ c.timer = conn[own].timer /\ c.inProgress = conn[own].inProgress
      /\ c.blocked = conn[own].blocked
    BY <1>0 DEF Conn, Statuses
<1>2. conn' = [conn EXCEPT ![own] = d]
    BY DEF ConnectThrows
<1> HIDE DEF c
<1>3. Consistent(c, TimerCall(own)) /\ Consistent(c, TRUE \/ by = "timer")
    BY <1>0, <1>1 DEF EntryOK, Consistent
<1>4. d \in Conn /\ d.adapter = c.adapter /\ d.status = "error"
    BY <1>1, <1>3, CallThrowsFacts
<1>5. ASSUME NEW timerCall \in BOOLEAN, TimerCall(own) => timerCall \/ by = "timer"
      PROVE  Consistent(d, timerCall)
    BY <1>0, <1>1, <1>3, <1>5, CallEndsConsistent
<1> HIDE DEF d
<1> QED
    BY <1>0, <1>1, <1>2, <1>4, <1>5, EndStep

LEMMA TerminalFailsStep ==
    ASSUME IInv, NEW s \in Sessions, TerminalFails(s) PROVE IInv'
<1>. PICK own \in Ids : own = sess[s].id
    BY RunningIsUnregistered DEF TerminalFails
<1>0. /\ sess[s].pc = "race" /\ sess[s].by = "terminal" /\ EndCall(s, "down") /\ "down" \in Links
      /\ UNCHANGED <<conn, keepalive, autoReconnect, disposal>>
    BY DEF TerminalFails, Links
<1>1. /\ sess' \in [Sessions -> Session] /\ CallersHaveCalls'
      /\ \A id \in Ids \ {own} : Kept(id)
      /\ Attempted(own) => Attempted(own)'
      /\ TimerCall(own) => TimerCall(own)'
      /\ \A t \in Sessions \ {s} : sess'[t] = sess[t]
    BY <1>0, EndCallFacts
<1>2. conn[own].adapter # None => conn[own].adapter \in Sessions \ {s}
    BY <1>0, RunningIsUnregistered, TypeFacts DEF Conn
<1>3. Kept(own)
    BY <1>1, <1>2 DEF Kept
<1> QED
    BY <1>0, <1>1, <1>3, LinkStep

\* The adapter of s is registered under its id, whose entries become d.
LEMMA RegisterStep ==
    ASSUME IInv, NEW s \in Sessions, sess[s].pc = "race",
           NEW link \in Links, link # "dialing",
           EndCall(s, link), UNCHANGED <<autoReconnect, disposal>>,
           NEW own \in Ids, own = sess[s].id,
           NEW d \in Conn, conn' = [conn EXCEPT ![own] = d],
           d.adapter = s,
           \/ d.status = "connected" /\ keepalive' = "armed"
           \/ /\ d.status = conn[own].status /\ sess[s].by = "terminal"
              /\ UNCHANGED keepalive,
           \A timerCall \in BOOLEAN :
              (TimerCall(own) => timerCall \/ sess[s].by = "timer")
                 => Consistent(d, timerCall)
    PROVE  IInv'
<1>1. /\ conn' \in [Ids -> Conn] /\ conn'[own] = d /\ EntryOK(own)
      /\ \A id \in Ids \ {own} : conn'[id] = conn[id]
      /\ keepalive \in {"off", "armed"} /\ keepalive' \in {"off", "armed"}
    BY TypeFacts DEF IInv, KeepaliveNeverStalls
<1>2. /\ sess' \in [Sessions -> Session] /\ CallersHaveCalls'
      /\ \A id \in Ids \ {own} : Kept(id)
      /\ sess[s].by = "terminal" => (Attempted(own) => Attempted(own)')
      /\ TimerCall(own) => TimerCall(own)' \/ sess[s].by = "timer"
      /\ sess'[s].id = own /\ sess'[s].pc = "idle" /\ sess'[s].link = link
    BY EndCallFacts
<1>3. \A id \in Ids \ {own} : EntryOK(id)'
    BY <1>1, <1>2, EntryKept
<1>4. EntryOK(own)'
  <2>1. AdapterOK(own)'
      BY <1>1, <1>2 DEF AdapterOK
  <2>2. /\ conn'[own].status = "connected" => conn'[own].adapter # None
        /\ conn'[own].status = "connected" /\ disposal' = "no" => keepalive' # "off"
      BY <1>1, SessionsAssumption DEF EntryOK
  <2>3. conn'[own].status = "connecting" => Attempted(own)'
      BY <1>1, <1>2 DEF EntryOK
  <2>4. TimerCall(own)' \in BOOLEAN
      BY DEF TimerCall
  <2>5. Consistent(d, TimerCall(own)')
      BY <1>2, <2>4
  <2>6. Consistent(conn[own], TimerCall(own))'
      BY <1>1, <2>5
  <2> QED
      BY <2>1, <2>2, <2>3, <2>6 DEF EntryOK
<1>5. Registered(conn') # {}
    BY <1>1, SessionsAssumption DEF Registered
<1>6. ArmedHasAdapter' /\ KeepaliveNeverStalls'
    BY <1>1, <1>5 DEF ArmedHasAdapter, KeepaliveNeverStalls
<1>7. TypeOK'
    BY <1>1, <1>2, TypeFacts DEF TypeOK
<1> QED
    BY <1>2, <1>3, <1>4, <1>6, <1>7 DEF IInv

LEMMA ConnectOkStep ==
    ASSUME IInv, NEW s \in Sessions, NEW link \in {"up", "partial"}, ConnectOk(s, link)
    PROVE  IInv'
<1>. PICK own \in Ids, by \in {"user", "timer", "terminal"} : own = sess[s].id /\ by = sess[s].by
    BY RunningIsUnregistered DEF ConnectOk
<1>0. /\ sess[s].pc = "race" /\ EndCall(s, link) /\ link \in Links /\ link # "dialing"
      /\ conn[own] \in Conn /\ EntryOK(own)
      /\ keepalive' = "armed"
      /\ UNCHANGED <<autoReconnect, disposal>>
    BY TypeFacts DEF ConnectOk, Links, StartKeepalive, IInv, KeepaliveNeverStalls
<1> DEFINE c == [conn[own] EXCEPT !.adapter = s, !.attempts = 0,
                                  !.blocked = FALSE, !.status = "connected"]
           d == CallReturns(c, by)
<1>1. 0 \in 0..MaxAttempts
    BY AttemptsAssumption
<1>2. /\ c \in Conn /\ c.adapter = s /\ c.status = "connected"
      /\ c.timer = conn[own].timer /\ c.inProgress = conn[own].inProgress
      /\ c.blocked = FALSE
    BY <1>0, <1>1 DEF Conn, Statuses
<1>3. conn' = [conn EXCEPT ![own] = d]
    BY DEF ConnectOk
<1> HIDE DEF c
<1>4. Consistent(c, TimerCall(own)) /\ Consistent(c, TRUE \/ by = "timer")
    BY <1>0, <1>2 DEF EntryOK, Consistent
<1>5. d \in Conn /\ d.adapter = s /\ d.status = "connected"
    BY <1>2, <1>4, CallReturnsFacts
<1>6. ASSUME NEW timerCall \in BOOLEAN, TimerCall(own) => timerCall \/ by = "timer"
      PROVE  Consistent(d, timerCall)
    BY <1>0, <1>2, <1>4, <1>6, CallEndsConsistent
<1> HIDE DEF d
<1>7. \A timerCall \in BOOLEAN :
         (TimerCall(own) => timerCall \/ sess[s].by = "timer") => Consistent(d, timerCall)
    BY <1>6
<1> QED
    BY <1>0, <1>3, <1>5, <1>7, RegisterStep

LEMMA TerminalOkStep ==
    ASSUME IInv, NEW s \in Sessions, TerminalOk(s) PROVE IInv'
<1>. PICK own \in Ids : own = sess[s].id
    BY RunningIsUnregistered DEF TerminalOk
<1>0. /\ sess[s].pc = "race" /\ sess[s].by = "terminal"
      /\ EndCall(s, "up") /\ "up" \in Links
      /\ conn[own] \in Conn /\ EntryOK(own)
      /\ UNCHANGED <<keepalive, autoReconnect, disposal>>
    BY TypeFacts DEF TerminalOk, Links
<1> DEFINE d == [conn[own] EXCEPT !.adapter = s]
<1>1. /\ d \in Conn /\ d.adapter = s /\ d.status = conn[own].status
      /\ d.timer = conn[own].timer /\ d.inProgress = conn[own].inProgress
      /\ d.blocked = conn[own].blocked
    BY <1>0 DEF Conn
<1>2. conn' = [conn EXCEPT ![own] = d]
    BY TypeFacts DEF TerminalOk
<1> HIDE DEF d
<1>3. \A timerCall \in BOOLEAN :
         (TimerCall(own) => timerCall \/ sess[s].by = "timer") => Consistent(d, timerCall)
    BY <1>0, <1>1 DEF EntryOK, Consistent
<1> QED
    BY <1>0, <1>1, <1>2, <1>3, RegisterStep

LEMMA LinkChangeStep ==
    ASSUME IInv, NEW s \in Sessions, LateHandshake(s) \/ Drop(s) \/ Notice(s) PROVE IInv'
<1>1. /\ sess \in [Sessions -> Session]
      /\ UNCHANGED <<conn, keepalive, autoReconnect, disposal>>
    BY TypeFacts DEF LateHandshake, Drop, Notice
<1>2. PICK link \in Links \ {"dialing"} : sess' = [sess EXCEPT ![s].link = link]
    BY <1>1 DEF LateHandshake, Drop, Notice, Links, Opened
<1>3. [sess[s] EXCEPT !.link = link] \in Session
    BY <1>1 DEF Session
<1>4. sess' = [sess EXCEPT ![s] = [sess[s] EXCEPT !.link = link]]
    BY <1>1, <1>2
<1>5. sess' \in [Sessions -> Session]
    BY <1>1, <1>3, <1>4
<1>6. \A t \in Sessions : /\ sess'[t].id = sess[t].id
                          /\ sess'[t].by = sess[t].by
                          /\ sess'[t].pc = sess[t].pc
                          /\ sess'[t].link = "dialing" => sess[t].link = "dialing"
    BY <1>1, <1>4 DEF Session
<1> QED
    BY <1>1, <1>5, <1>6, SameCallsKept, LinkStep

\* A step that may close adapters and changes the calls of none.
LEMMA BulkStep ==
    ASSUME IInv, conn' \in [Ids -> Conn], sess' \in [Sessions -> Session],
           autoReconnect' \in BOOLEAN, disposal' \in {"no", "running", "done"},
           \A id \in Ids :
              /\ \/ conn'[id].adapter = conn[id].adapter
                 \/ conn'[id].adapter = None /\ conn'[id].status # "connected"
              /\ conn'[id].status \in {conn[id].status, "idle", "disconnected", "error"}
              /\ Consistent(conn'[id], TimerCall(id)),
           \A s \in Sessions : /\ sess'[s].id = sess[s].id
                               /\ sess'[s].by = sess[s].by
                               /\ sess'[s].pc = sess[s].pc
                               /\ sess'[s].link = "dialing" => sess[s].link = "dialing",
           disposal' = "no" => disposal = "no",
           keepalive' \in {keepalive, "off"},
           keepalive' # "off" => Registered(conn') # {},
           keepalive' = "off" =>
              keepalive = "off" \/ disposal' # "no" \/ Registered(conn') = {}
    PROVE  IInv'
<1>1. CallersHaveCalls' /\ \A id \in Ids : Kept(id)
    BY SameCallsKept
<1>2. ASSUME NEW id \in Ids PROVE EntryOK(id)'
  <2>1. EntryOK(id) /\ Kept(id) /\ (TimerCall(id)' = TimerCall(id))
      BY <1>1, TypeFacts DEF TimerCall
  <2>2. AdapterOK(id)'
      BY <2>1 DEF Kept, EntryOK, AdapterOK
  <2>3. Consistent(conn[id], TimerCall(id))'
      BY <2>1
  <2>4. conn'[id].status = "connecting" => Attempted(id)'
      BY <2>1 DEF Kept, EntryOK
  <2>5. conn'[id].status = "connected" => conn'[id].adapter # None
      BY <2>1 DEF EntryOK
  <2>6. conn'[id].status = "connected" /\ disposal' = "no" => keepalive' # "off"
      BY <2>1, <2>5 DEF EntryOK, Registered
  <2> QED
      BY <2>2, <2>3, <2>4, <2>5, <2>6 DEF EntryOK
<1>3. ArmedHasAdapter' /\ KeepaliveNeverStalls'
    BY DEF IInv, ArmedHasAdapter, KeepaliveNeverStalls
<1>4. TypeOK'
    BY TypeFacts DEF TypeOK
<1> QED
    BY <1>1, <1>2, <1>3, <1>4 DEF IInv

\* Only who waits for the close of s differs.
ClosersSet(u, t, s, closers) == u = [t EXCEPT ![s].closers = closers]

\* The sessions of u and t are the same but for who waits for their close.
SameCalls(u, t) ==
    /\ u \in [Sessions -> Session]
    /\ \A r \in Sessions : /\ u[r].id = t[r].id /\ u[r].by = t[r].by
                           /\ u[r].pc = t[r].pc /\ u[r].link = t[r].link

\* A caller that starts or ends to wait for a close, of a registered adapter.
LEMMA ClosersFacts ==
    ASSUME NEW t \in [Sessions -> Session], NEW s \in Sessions,
           NEW closers \in SUBSET Closers, NEW u, ClosersSet(u, t, s, closers)
    PROVE  SameCalls(u, t)
<1> DEFINE x == [t[s] EXCEPT !.closers = closers]
<1>1. x \in Session /\ x.id = t[s].id /\ x.by = t[s].by /\ x.pc = t[s].pc /\ x.link = t[s].link
    BY DEF Session
<1>2. u = [t EXCEPT ![s] = x]
    BY DEF ClosersSet
<1> HIDE DEF x
<1> QED
    BY <1>1, <1>2 DEF SameCalls

LEMMA DisposeLoopFacts ==
    ASSUME NEW c \in [Ids -> Conn], NEW t \in [Sessions -> Session],
           \A id \in Ids : TimerCall(id) \in BOOLEAN /\ Consistent(c[id], TimerCall(id)),
           DisposeLoop(c, t)
    PROVE  /\ conn' \in [Ids -> Conn] /\ sess' \in [Sessions -> Session]
           /\ disposal' \in {"running", "done"}
           /\ \A id \in Ids : /\ conn'[id].adapter = c[id].adapter
                              /\ conn'[id].status = c[id].status
                              /\ Consistent(conn'[id], TimerCall(id))
           /\ \A s \in Sessions : /\ sess'[s].id = t[s].id /\ sess'[s].by = t[s].by
                                  /\ sess'[s].pc = t[s].pc /\ sess'[s].link = t[s].link
<1>1. CASE disposal' = "done" /\ conn' = c /\ sess' = t
    BY <1>1
<1>2. CASE \E id \in Registered(c) :
              /\ disposal' = "running"
              /\ conn' = [c EXCEPT ![id] = BeginDisconnect(@)]
              /\ sess' = [t EXCEPT ![c[id].adapter].closers = @ \cup {"dispose"}]
  <2>1. PICK id \in Registered(c) :
              /\ disposal' = "running"
              /\ conn' = [c EXCEPT ![id] = BeginDisconnect(@)]
              /\ sess' = [t EXCEPT ![c[id].adapter].closers = @ \cup {"dispose"}]
      BY <1>2
  <2> DEFINE d == BeginDisconnect(c[id])
  <2>2. id \in Ids /\ c[id] \in Conn /\ c[id].adapter \in Sessions
      BY DEF Registered, Conn
  <2>3. /\ d \in Conn /\ d.adapter = c[id].adapter /\ d.status = c[id].status
        /\ Consistent(d, TimerCall(id))
      BY <2>2, DisconnectFacts
  <2>4. conn' = [c EXCEPT ![id] = d]
      BY <2>1
  <2>5. PICK r \in Sessions : r = c[id].adapter
      BY <2>2
  <2>6. PICK closers \in SUBSET Closers : closers = t[r].closers \cup {"dispose"}
      BY DEF Session, Closers
  <2>7. sess' = [t EXCEPT ![r].closers = closers]
      BY <2>1, <2>5, <2>6
  <2>8. /\ sess' \in [Sessions -> Session]
        /\ \A s \in Sessions : /\ sess'[s].id = t[s].id /\ sess'[s].by = t[s].by
                               /\ sess'[s].pc = t[s].pc /\ sess'[s].link = t[s].link
    <3>1. ClosersSet(sess', t, r, closers)
        BY <2>7 DEF ClosersSet
    <3>2. SameCalls(sess', t)
        BY <3>1, ClosersFacts, Zenon
    <3> QED
        BY <3>2 DEF SameCalls
  <2> HIDE DEF d
  <2>9. /\ conn' \in [Ids -> Conn] /\ conn'[id] = d
        /\ \A i \in Ids \ {id} : conn'[i] = c[i]
      BY <2>2, <2>3, <2>4
  <2>10. disposal' = "running"
      BY <2>1
  <2>11. ASSUME NEW i \in Ids
         PROVE  /\ conn'[i].adapter = c[i].adapter
                /\ conn'[i].status = c[i].status
                /\ Consistent(conn'[i], TimerCall(i))
    <3>1. CASE i = id
        BY <2>3, <2>9, <3>1
    <3>2. CASE i # id
        BY <2>9, <3>2
    <3> QED
        BY <3>1, <3>2
  <2> QED
      BY <2>8, <2>9, <2>10, <2>11
<1> QED
    BY <1>1, <1>2 DEF DisposeLoop

\* A command starts to wait for the close of the adapter s of id.
LEMMA CloserStep ==
    ASSUME IInv, NEW id \in Ids, NEW s \in Sessions, NEW closers \in SUBSET Closers,
           sess' = [sess EXCEPT ![s].closers = closers],
           NEW d \in Conn, conn' = [conn EXCEPT ![id] = d],
           d.adapter = conn[id].adapter, d.status = conn[id].status,
           Consistent(d, TimerCall(id)),
           UNCHANGED <<keepalive, autoReconnect, disposal>>
    PROVE  IInv'
<1>1. /\ sess' \in [Sessions -> Session]
      /\ \A r \in Sessions : /\ sess'[r].id = sess[r].id /\ sess'[r].by = sess[r].by
                             /\ sess'[r].pc = sess[r].pc /\ sess'[r].link = sess[r].link
  <2>1. sess \in [Sessions -> Session]
      BY TypeFacts
  <2>2. ClosersSet(sess', sess, s, closers)
      BY DEF ClosersSet
  <2>3. SameCalls(sess', sess)
      BY <2>1, <2>2, ClosersFacts, Zenon
  <2> QED
      BY <2>3 DEF SameCalls
<1>2. CallersHaveCalls' /\ \A i \in Ids : Kept(i)
    BY <1>1, SameCallsKept
<1>3. EntryOK(id) /\ (Attempted(id) => Attempted(id)') /\ TimerCall(id)' = TimerCall(id)
    BY <1>1, <1>2, TypeFacts DEF Kept, TimerCall
<1>4. conn[id].adapter # None =>
              /\ sess'[conn[id].adapter].id = id
              /\ sess'[conn[id].adapter].pc = "idle"
              /\ sess'[conn[id].adapter].link # "dialing"
    BY <1>2, AdapterStays
<1>5. d.status = "connecting" => Attempted(id)'
    BY <1>3 DEF EntryOK
<1>6. d.status \in {conn[id].status, "idle", "error"} \/ d.status = "connecting"
    OBVIOUS
<1>7. Consistent(d, TimerCall(id)')
    BY <1>3
<1> QED
    BY <1>1, <1>2, <1>4, <1>5, <1>6, <1>7, EntryStep, Zenon

LEMMA UserDisconnectStep ==
    ASSUME IInv, NEW id \in Ids, UserDisconnect(id) PROVE IInv'
<1>0. /\ conn \in [Ids -> Conn] /\ conn[id] \in Conn /\ sess \in [Sessions -> Session]
      /\ EntryOK(id) /\ TimerCall(id) \in BOOLEAN
      /\ UNCHANGED <<autoReconnect, disposal>>
    BY TypeFacts DEF UserDisconnect
<1> DEFINE b == BeginDisconnect(conn[id])
<1>1. /\ b \in Conn /\ b.adapter = conn[id].adapter /\ b.status = conn[id].status
      /\ Consistent(b, TimerCall(id))
    BY <1>0, DisconnectFacts DEF EntryOK
<1>2. CASE conn[id].adapter = None
  <2> DEFINE d == EndDisconnect(b)
  <2>1. /\ conn' = [conn EXCEPT ![id] = d] /\ UNCHANGED sess
        /\ StopKeepalive(conn')
      BY <1>2 DEF UserDisconnect
  <2> HIDE DEF b
  <2>2. /\ d \in Conn /\ d.adapter = None /\ d.status = "disconnected"
        /\ Consistent(d, TimerCall(id))
      BY <1>0, <1>1, EndDisconnectFacts
  <2> HIDE DEF d
  <2>3. /\ conn' \in [Ids -> Conn]
        /\ \A i \in Ids :
              /\ \/ conn'[i].adapter = conn[i].adapter
                 \/ conn'[i].adapter = None /\ conn'[i].status # "connected"
              /\ conn'[i].status \in {conn[i].status, "idle", "disconnected", "error"}
              /\ Consistent(conn'[i], TimerCall(i))
      BY <1>0, <2>1, <2>2, TypeFacts DEF EntryOK
  <2>4. /\ keepalive' \in {keepalive, "off"}
        /\ keepalive' # "off" => Registered(conn') # {}
        /\ keepalive' = "off" => keepalive = "off" \/ Registered(conn') = {}
      BY <2>1 DEF StopKeepalive
  <2> QED
      BY <1>0, <2>1, <2>3, <2>4, TypeFacts, BulkStep
<1>3. CASE conn[id].adapter # None
  <2>1. PICK s \in Sessions : s = conn[id].adapter
      BY <1>0, <1>3 DEF Conn
  <2>2. PICK closers \in SUBSET Closers : closers = sess[s].closers \cup {"user"}
      BY <1>0 DEF Session, Closers
  <2>3. /\ sess' = [sess EXCEPT ![s].closers = closers] /\ UNCHANGED keepalive
        /\ conn' = [conn EXCEPT ![id] = b]
      BY <1>0, <1>3, <2>1, <2>2 DEF UserDisconnect
  <2> HIDE DEF b
  <2> QED
      BY <1>0, <1>1, <2>3, CloserStep
<1> QED
    BY <1>2, <1>3

LEMMA RemoveStep ==
    ASSUME IInv, NEW id \in Ids, Remove(id) PROVE IInv'
<1>0. /\ conn \in [Ids -> Conn] /\ conn[id] \in Conn /\ sess \in [Sessions -> Session]
      /\ EntryOK(id) /\ TimerCall(id) \in BOOLEAN
      /\ UNCHANGED <<keepalive, autoReconnect, disposal>>
    BY TypeFacts DEF Remove
<1>1. CASE conn[id].adapter = None
  <2> DEFINE d == Forget(conn[id])
  <2>1. conn' = [conn EXCEPT ![id] = d] /\ UNCHANGED sess
      BY <1>1 DEF Remove
  <2>2. /\ d \in Conn /\ d.adapter = conn[id].adapter /\ d.status = "idle"
        /\ Consistent(d, TimerCall(id))
      BY <1>0, ForgetFacts
  <2> HIDE DEF d
  <2> QED
      BY <1>0, <2>1, <2>2, QuietStep
<1>2. CASE conn[id].adapter # None
  <2> DEFINE b == BeginDisconnect(conn[id])
  <2>1. /\ b \in Conn /\ b.adapter = conn[id].adapter /\ b.status = conn[id].status
        /\ Consistent(b, TimerCall(id))
      BY <1>0, DisconnectFacts DEF EntryOK
  <2>2. PICK s \in Sessions : s = conn[id].adapter
      BY <1>0, <1>2 DEF Conn
  <2>3. PICK closers \in SUBSET Closers : closers = sess[s].closers \cup {"remove"}
      BY <1>0 DEF Session, Closers
  <2>4. /\ sess' = [sess EXCEPT ![s].closers = closers]
        /\ conn' = [conn EXCEPT ![id] = b]
      BY <1>0, <1>2, <2>2, <2>3 DEF Remove
  <2> HIDE DEF b
  <2> QED
      BY <1>0, <2>1, <2>4, CloserStep
<1> QED
    BY <1>1, <1>2

LEMMA DisposeStep == ASSUME IInv, Dispose PROVE IInv'
<1> DEFINE c == [id \in Ids |-> [conn[id] EXCEPT !.timer = FALSE, !.inProgress = FALSE,
                                                 !.blocked = FALSE]]
<1>0. /\ conn \in [Ids -> Conn] /\ sess \in [Sessions -> Session]
      /\ \A id \in Ids : TimerCall(id) \in BOOLEAN
      /\ DisposeLoop(c, sess) /\ keepalive' = "off" /\ autoReconnect' \in BOOLEAN
    BY TypeFacts DEF Dispose
<1>1. ASSUME NEW id \in Ids
      PROVE  /\ c[id] \in Conn /\ c[id].adapter = conn[id].adapter
             /\ c[id].status = conn[id].status
             /\ Consistent(c[id], TimerCall(id))
    BY <1>0 DEF Conn, Consistent
<1>2. c \in [Ids -> Conn]
    BY <1>1
<1> HIDE DEF c
<1>3. /\ conn' \in [Ids -> Conn] /\ sess' \in [Sessions -> Session]
      /\ disposal' \in {"running", "done"}
      /\ \A id \in Ids : /\ conn'[id].adapter = c[id].adapter
                         /\ conn'[id].status = c[id].status
                         /\ Consistent(conn'[id], TimerCall(id))
      /\ \A s \in Sessions : /\ sess'[s].id = sess[s].id /\ sess'[s].by = sess[s].by
                             /\ sess'[s].pc = sess[s].pc /\ sess'[s].link = sess[s].link
    BY <1>0, <1>1, <1>2, DisposeLoopFacts
<1> QED
    BY <1>0, <1>1, <1>3, BulkStep

LEMMA CloseDoneStep ==
    ASSUME IInv, NEW s \in Sessions, NEW who \in Closers, CloseDone(s, who) PROVE IInv'
<1>0. /\ conn \in [Ids -> Conn] /\ sess \in [Sessions -> Session]
      /\ \A id \in Ids : EntryOK(id) /\ TimerCall(id) \in BOOLEAN
      /\ disposal \in {"no", "running", "done"}
      /\ autoReconnect' \in BOOLEAN
    BY TypeFacts DEF CloseDone
<1>. PICK own \in Ids : own = sess[s].id
    BY <1>0 DEF Session
<1> DEFINE e == EndDisconnect(conn[own])
           c == [conn EXCEPT ![own] = e]
           x == [sess[s] EXCEPT !.link = "down", !.closers = @ \ {who}]
           t == [sess EXCEPT ![s] = x]
<1>1. /\ e \in Conn /\ e.adapter = None /\ e.status = "disconnected"
      /\ Consistent(e, TimerCall(own))
    BY <1>0, EndDisconnectFacts DEF EntryOK
<1>2. t = [sess EXCEPT ![s].link = "down", ![s].closers = @ \ {who}]
    BY <1>0
<1>3. /\ x \in Session /\ x.id = sess[s].id /\ x.by = sess[s].by /\ x.pc = sess[s].pc
      /\ x.link = "down"
    BY <1>0 DEF Session, Links
<1>4. StopKeepalive(c)
    BY DEF CloseDone
<1>5. \/ conn' = c /\ sess' = t /\ UNCHANGED disposal
      \/ conn' = [conn EXCEPT ![own] = Forget(e)] /\ sess' = t /\ UNCHANGED disposal
      \/ DisposeLoop(c, t)
    BY <1>2 DEF CloseDone
<1> HIDE DEF e, x
<1>6. /\ t \in [Sessions -> Session]
      /\ \A r \in Sessions : /\ t[r].id = sess[r].id /\ t[r].by = sess[r].by
                             /\ t[r].pc = sess[r].pc
                             /\ t[r].link = "dialing" => sess[r].link = "dialing"
    BY <1>0, <1>3
<1>7. /\ c \in [Ids -> Conn]
      /\ \A id \in Ids :
            /\ \/ c[id].adapter = conn[id].adapter
               \/ c[id].adapter = None /\ c[id].status # "connected"
            /\ c[id].status \in {conn[id].status, "idle", "disconnected", "error"}
            /\ Consistent(c[id], TimerCall(id))
    BY <1>0, <1>1 DEF EntryOK
<1>8. /\ keepalive' \in {keepalive, "off"}
      /\ keepalive' # "off" => Registered(c) # {}
      /\ keepalive' = "off" => keepalive = "off" \/ Registered(c) = {}
    BY <1>4 DEF StopKeepalive
<1>9. CASE conn' = c /\ sess' = t /\ UNCHANGED disposal
  <2> HIDE DEF c, t
  <2> QED
      BY <1>0, <1>6, <1>7, <1>8, <1>9, BulkStep
<1>10. CASE conn' = [conn EXCEPT ![own] = Forget(e)] /\ sess' = t /\ UNCHANGED disposal
  <2>1. /\ Forget(e) \in Conn /\ Forget(e).adapter = None /\ Forget(e).status = "idle"
        /\ Consistent(Forget(e), TimerCall(own))
      BY <1>0, <1>1, ForgetFacts
  <2>2. /\ conn' \in [Ids -> Conn]
        /\ \A id \in Ids : /\ conn'[id].adapter = c[id].adapter
                           /\ id # own => conn'[id] = c[id]
        /\ conn'[own] = Forget(e)
      BY <1>0, <1>1, <1>10, <2>1
  <2>3. Registered(conn') = Registered(c)
      BY <2>2 DEF Registered
  <2> HIDE DEF t
  <2>4. \A id \in Ids :
            /\ \/ conn'[id].adapter = conn[id].adapter
               \/ conn'[id].adapter = None /\ conn'[id].status # "connected"
            /\ conn'[id].status \in {conn[id].status, "idle", "disconnected", "error"}
            /\ Consistent(conn'[id], TimerCall(id))
      BY <1>7, <2>1, <2>2
  <2> HIDE DEF c
  <2> QED
      BY <1>0, <1>6, <1>8, <1>10, <2>2, <2>3, <2>4, BulkStep
<1>11. CASE DisposeLoop(c, t)
  <2> HIDE DEF c, t
  <2>1. /\ conn' \in [Ids -> Conn] /\ sess' \in [Sessions -> Session]
        /\ disposal' \in {"running", "done"}
        /\ \A id \in Ids : /\ conn'[id].adapter = c[id].adapter
                           /\ conn'[id].status = c[id].status
                           /\ Consistent(conn'[id], TimerCall(id))
        /\ \A r \in Sessions : /\ sess'[r].id = t[r].id /\ sess'[r].by = t[r].by
                               /\ sess'[r].pc = t[r].pc /\ sess'[r].link = t[r].link
      BY <1>0, <1>6, <1>7, <1>11, DisposeLoopFacts
  <2>2. Registered(conn') = Registered(c)
      BY <2>1 DEF Registered
  <2> QED
      BY <1>0, <1>6, <1>7, <1>8, <2>1, <2>2, BulkStep
<1> QED
    BY <1>5, <1>9, <1>10, <1>11

LEMMA KeepaliveTickStep == ASSUME IInv, KeepaliveTick PROVE IInv'
<1>0. /\ conn \in [Ids -> Conn] /\ sess \in [Sessions -> Session]
      /\ \A id \in Ids : EntryOK(id) /\ TimerCall(id) \in BOOLEAN
      /\ disposal \in {"no", "running", "done"} /\ autoReconnect \in BOOLEAN
      /\ UNCHANGED <<sess, autoReconnect, disposal>>
    BY TypeFacts DEF KeepaliveTick
<1> DEFINE dead(id) == [conn[id] EXCEPT !.status = "disconnected"]
           e(id) == IF conn[id].adapter = None \/ IsConnected(conn[id].adapter) THEN conn[id]
                    ELSE IF autoReconnect THEN StartReconnect(dead(id)) ELSE dead(id)
<1>1. conn' = [id \in Ids |-> e(id)]
    BY DEF KeepaliveTick
<1>2. ASSUME NEW id \in Ids
      PROVE  /\ e(id) \in Conn /\ e(id).adapter = conn[id].adapter
             /\ e(id).status \in {conn[id].status, "idle", "disconnected", "error"}
             /\ Consistent(e(id), TimerCall(id))
  <2>1. /\ dead(id) \in Conn /\ dead(id).adapter = conn[id].adapter
        /\ dead(id).status = "disconnected"
        /\ dead(id).timer = conn[id].timer /\ dead(id).inProgress = conn[id].inProgress
        /\ dead(id).blocked = conn[id].blocked
      BY <1>0 DEF Conn, Statuses
  <2> HIDE DEF dead
  <2>2. Consistent(conn[id], TimerCall(id)) /\ Consistent(dead(id), TimerCall(id))
      BY <1>0, <2>1 DEF EntryOK, Consistent
  <2>3. /\ StartReconnect(dead(id)) \in Conn
        /\ StartReconnect(dead(id)).adapter = conn[id].adapter
        /\ StartReconnect(dead(id)).status \in {"disconnected", "error"}
        /\ Consistent(StartReconnect(dead(id)), TimerCall(id))
      BY <1>0, <2>1, <2>2, StartReconnectFacts
  <2> QED
      BY <1>0, <2>1, <2>2, <2>3
<1> HIDE DEF e
<1>3. /\ conn' \in [Ids -> Conn]
      /\ \A id \in Ids : conn'[id] = e(id)
    BY <1>1, <1>2
<1>4. Registered(conn') = Registered(conn)
    BY <1>2, <1>3 DEF Registered
<1>5. keepalive = "armed" /\ keepalive' = "armed" /\ Registered(conn') # {}
    BY <1>4 DEF KeepaliveTick, IInv, ArmedHasAdapter
<1> QED
    BY <1>0, <1>2, <1>3, <1>5, BulkStep

LEMMA CooldownStep == ASSUME IInv, NEW id \in Ids, CooldownElapses(id) PROVE IInv'
<1> DEFINE d == [conn[id] EXCEPT !.cooled = TRUE]
<1>1. conn' = [conn EXCEPT ![id] = d]
    BY TypeFacts DEF CooldownElapses
<1>2. /\ d \in Conn /\ d.adapter = conn[id].adapter /\ d.status = conn[id].status
      /\ d.timer = conn[id].timer /\ d.inProgress = conn[id].inProgress
      /\ d.blocked = conn[id].blocked
    BY TypeFacts DEF Conn
<1> HIDE DEF d
<1>3. Consistent(d, TimerCall(id))
    BY <1>2, TypeFacts DEF EntryOK, Consistent
<1> QED
    BY <1>1, <1>2, <1>3, QuietStep DEF CooldownElapses

\* A step that changes at most the setting.
LEMMA SettingStep ==
    ASSUME IInv, UNCHANGED <<conn, sess, keepalive, disposal>>, autoReconnect' \in BOOLEAN
    PROVE  IInv'
<1>1. \A id \in Ids : Consistent(conn'[id], TimerCall(id))
  <2>1. TAKE id \in Ids
  <2>2. conn'[id] = conn[id] /\ EntryOK(id)
      BY TypeFacts
  <2> QED
      BY <2>2 DEF EntryOK
<1>2. keepalive' # "off" => Registered(conn') # {}
    BY DEF IInv, TypeOK, ArmedHasAdapter, KeepaliveNeverStalls
<1> QED
    BY <1>1, <1>2, TypeFacts, BulkStep
-----------------------------------------------------------------------------
(* The inductive invariant and what follows from it.                       *)

LEMMA InitIInv == Init => IInv
<1> SUFFICES ASSUME Init PROVE IInv
    OBVIOUS
<1>0. 0 \in 0..MaxAttempts
    BY AttemptsAssumption
<1>1. PICK own \in Ids :
        sess = [s \in Sessions |-> [id |-> own, by |-> "nobody", pc |-> "idle",
                                    link |-> "down", closers |-> {}]]
    BY DEF Init
<1>2. sess \in [Sessions -> Session]
    BY <1>1 DEF Session, Links
<1>3. \A id \in Ids : /\ conn[id] \in Conn /\ conn[id].adapter = None
                      /\ conn[id].status = "idle"
                      /\ ~conn[id].inProgress /\ ~conn[id].blocked
  <2>1. TAKE id \in Ids
  <2>2. PICK f \in {"absent", "present"} :
          conn[id] = [config |-> f, status |-> "idle", adapter |-> None, timer |-> FALSE,
                      attempts |-> 0, cooled |-> TRUE, inProgress |-> FALSE,
                      blocked |-> FALSE]
      BY DEF Init
  <2>3. conn[id] \in Conn
      BY <1>0, <2>2 DEF Conn, Statuses
  <2> QED
      BY <2>2, <2>3
<1>4. conn \in [Ids -> Conn]
    BY <1>3 DEF Init
<1>5. TypeOK
    BY <1>2, <1>4 DEF Init, TypeOK
<1>6. CallersHaveCalls
    BY <1>1 DEF CallersHaveCalls
<1>7. ArmedHasAdapter /\ KeepaliveNeverStalls
    BY DEF Init, ArmedHasAdapter, KeepaliveNeverStalls
<1>8. \A id \in Ids : EntryOK(id)
    BY <1>3 DEF EntryOK, AdapterOK, Consistent
<1> QED
    BY <1>5, <1>6, <1>7, <1>8 DEF IInv

LEMMA NextIInv == IInv /\ [Next]_vars => IInv'
<1> SUFFICES ASSUME IInv, [Next]_vars PROVE IInv'
    OBVIOUS
<1>1. ASSUME NEW id \in Ids,
             \/ Add(id) \/ UserConnect(id) \/ UserDisconnect(id) \/ Remove(id)
             \/ OpenTerminal(id) \/ TimerFires(id) \/ CooldownElapses(id)
      PROVE  IInv'
    BY <1>1, AddStep, OpenStep, UserDisconnectStep, RemoveStep, TimerStep, CooldownStep
<1>2. ASSUME NEW s \in Sessions, Attempt(s)
      PROVE  IInv'
  <2>1. CASE LookupDone(s) \/ LookupFails(s)
      BY <2>1, LookupStep
  <2>2. CASE \E link \in {"up", "partial"} : ConnectOk(s, link)
      BY <2>2, ConnectOkStep
  <2>3. CASE TerminalOk(s)
      BY <2>3, TerminalOkStep
  <2>4. CASE ConnectFails(s) \/ ConnectTimesOut(s)
      BY <2>4, ConnectThrowsStep DEF ConnectFails, ConnectTimesOut, Links
  <2>5. CASE TerminalFails(s)
      BY <2>5, TerminalFailsStep
  <2> QED
      BY <1>2, <2>1, <2>2, <2>3, <2>4, <2>5 DEF Attempt
<1>3. ASSUME NEW s \in Sessions,
             \/ LateHandshake(s) \/ Drop(s) \/ Notice(s)
             \/ \E who \in Closers : CloseDone(s, who)
      PROVE  IInv'
    BY <1>3, LinkChangeStep, CloseDoneStep
<1>4. CASE KeepaliveTick
    BY <1>4, KeepaliveTickStep
<1>5. CASE ToggleAutoReconnect
    BY <1>5, TypeFacts, SettingStep DEF ToggleAutoReconnect
<1>6. CASE Dispose
    BY <1>6, DisposeStep
<1>7. CASE UNCHANGED vars
    BY <1>7, TypeFacts, SettingStep DEF vars
<1> QED
    BY <1>1, <1>2, <1>3, <1>4, <1>5, <1>6, <1>7 DEF Next

LEMMA Consequences ==
    ASSUME IInv
    PROVE  /\ TypeOK /\ ConnectedIsServed /\ NoStuckConnecting /\ KeepaliveNeverStalls
           /\ AdapterMatchesId /\ ProgressIsBacked /\ NoReconnectWhileBlocked
<1>1. \A id \in Ids : EntryOK(id)
    BY DEF IInv
<1>2. TypeOK /\ KeepaliveNeverStalls
    BY DEF IInv
<1>3. ConnectedIsServed
    BY <1>1, <1>2 DEF ConnectedIsServed, EntryOK, TypeOK, KeepaliveNeverStalls
<1>4. NoStuckConnecting
    BY <1>1 DEF NoStuckConnecting, EntryOK, Attempted
<1>5. AdapterMatchesId
    BY <1>1 DEF AdapterMatchesId, EntryOK, AdapterOK
<1>6. ProgressIsBacked /\ NoReconnectWhileBlocked
    BY <1>1 DEF ProgressIsBacked, NoReconnectWhileBlocked, EntryOK, Consistent, TimerCall
<1> QED
    BY <1>2, <1>3, <1>4, <1>5, <1>6

LEMMA Invariance == Spec => []IInv
    BY InitIInv, NextIInv, PTL DEF Spec

\* A connection that is shown as connected has an adapter and is watched by the
\* keepalive loop, after every attempt, drop, check and disconnect: _doConnect()
\* and checkConnections() leave no entry half registered.
THEOREM ConnectedHasAdapter == Spec => []ConnectedIsServed
    BY Invariance, Consequences, PTL

\* The mark of a reconnect cycle has a call or a timer behind it: a cycle that
\* attemptReconnect() has marked as being in progress is never forgotten.
THEOREM CyclesGoOn == Spec => []ProgressIsBacked
    BY Invariance, Consequences, PTL

\* The manager's maps, its keepalive field and its sessions agree in every
\* reachable state: a connection shown as connected has an adapter and is
\* watched, the status "connecting" and the mark of a reconnect cycle have a
\* call or a timer behind them, a blocked connection has neither, an adapter is
\* registered under its own id, and the keepalive loop never stalls.
THEOREM Safety ==
    Spec => [](/\ TypeOK /\ ConnectedIsServed /\ NoStuckConnecting /\ KeepaliveNeverStalls
               /\ AdapterMatchesId /\ ProgressIsBacked /\ NoReconnectWhileBlocked)
    BY Invariance, Consequences, PTL
=============================================================================
