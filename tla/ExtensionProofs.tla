-------------------------- MODULE ExtensionProofs --------------------------
(***************************************************************************)
(* For any number of connections, adapters and terminals: the type         *)
(* invariant and the safety invariants of the wiring, the status bar and   *)
(* the terminals.                                                          *)
(***************************************************************************)
EXTENDS Extension, FiniteSetTheorems, TLAPS

\* A terminal nobody has asked for has no window.
UnusedIsClosed == \A t \in Terminals : term[t].pc = "unused" => ~term[t].window

\* A handler that waits goes on with a session that connect() has opened.
PendingAreConnected == \A h \in pending : kind[h.adapter] = "connect"

TerminalInv == TerminalTypeOK /\ UnusedIsClosed /\ TrackedIsOpen

WiringInv ==
    /\ PoolTypeOK
    /\ configured \subseteq Ids
    /\ kind \in [Adapters -> Kinds]
    /\ pending \subseteq Handler
    /\ schemes \in [Protocols -> Provider \cup {None}]
    /\ sidebar \in [Ids -> Adapters \cup {None}]
    /\ syncHandlers \in [Ids -> Adapters \cup {None}]
    /\ PendingAreConnected /\ TerminalsAreNotWired /\ BrowsableHasSync

BarInv == statusBar \in 0..Cardinality(Ids) /\ BarNeverOvercounts

IInv == TerminalInv /\ WiringInv /\ BarInv

-----------------------------------------------------------------------------
(* The terminals                                                           *)

LEMMA OpenTerminalKept ==
    ASSUME TerminalInv, NEW t \in Terminals, NEW id \in Ids, OpenTerminal(t, id)
    PROVE  TerminalInv'
<1>1. PICK pc \in {"labelling", "connecting"} :
            term' = [term EXCEPT ![t].id = id, ![t].pc = pc]
    BY DEF OpenTerminal
<1>2. term \in [Terminals -> [id : Ids, pc : Pcs, window : BOOLEAN]]
    BY DEF TerminalInv, TerminalTypeOK
<1>3. ~term[t].window
    BY DEF OpenTerminal, TerminalInv, UnusedIsClosed
<1>4. /\ \A u \in Terminals \ {t} : term'[u] = term[u]
      /\ term'[t].window = term[t].window /\ term'[t].pc = pc
    BY <1>1, <1>2
<1>5. UNCHANGED <<activeTerminals, closeListeners, listening, disposed>>
    BY DEF OpenTerminal, UntrackedUnchanged
<1>6. TerminalTypeOK'
    BY <1>1, <1>2, <1>5 DEF TerminalInv, TerminalTypeOK, Pcs
<1>7. UnusedIsClosed'
    BY <1>3, <1>4 DEF TerminalInv, UnusedIsClosed
<1>8. TrackedIsOpen'
  <2> SUFFICES ASSUME NEW i \in Ids, activeTerminals[i] # None
               PROVE  /\ term'[activeTerminals[i]].window
                      /\ term'[activeTerminals[i]].id = i
      BY <1>5 DEF TerminalInv, TrackedIsOpen
  <2>1. activeTerminals[i] \in Terminals /\ activeTerminals[i] # t
      BY <1>3 DEF TerminalInv, TerminalTypeOK, TrackedIsOpen
  <2> QED
      BY <1>4, <2>1 DEF TerminalInv, TrackedIsOpen
<1> QED
    BY <1>6, <1>7, <1>8 DEF TerminalInv

\* A stage that changes nothing but the stage.
LEMMA GotoKept ==
    ASSUME TerminalInv, NEW t \in Terminals, NEW pc \in Pcs \ {"unused"}, Goto(t, pc),
           UntrackedUnchanged
    PROVE  TerminalInv'
<1>1. term \in [Terminals -> [id : Ids, pc : Pcs, window : BOOLEAN]]
    BY DEF TerminalInv, TerminalTypeOK
<1>2. /\ term' \in [Terminals -> [id : Ids, pc : Pcs, window : BOOLEAN]]
      /\ \A u \in Terminals : /\ term'[u].id = term[u].id
                              /\ term'[u].window = term[u].window
                              /\ term'[u].pc = "unused" => term[u].pc = "unused"
    BY <1>1 DEF Goto
<1>3. TerminalTypeOK' /\ UnusedIsClosed'
    BY <1>2 DEF UntrackedUnchanged, TerminalInv, TerminalTypeOK, UnusedIsClosed
<1>4. \A id \in Ids : activeTerminals[id] # None => activeTerminals[id] \in Terminals
    BY DEF TerminalInv, TerminalTypeOK
<1>5. TrackedIsOpen'
    BY <1>2, <1>4 DEF UntrackedUnchanged, TerminalInv, TrackedIsOpen
<1> QED
    BY <1>3, <1>5 DEF TerminalInv

LEMMA CreatedKept ==
    ASSUME TerminalInv, NEW t \in Terminals, TerminalCreated(t)
    PROVE  TerminalInv'
<1>1. term \in [Terminals -> [id : Ids, pc : Pcs, window : BOOLEAN]]
    BY DEF TerminalInv, TerminalTypeOK
<1> PICK id \in Ids : id = term[t].id
    BY <1>1
<1>2. /\ term' \in [Terminals -> [id : Ids, pc : Pcs, window : BOOLEAN]]
      /\ \A u \in Terminals \ {t} : term'[u] = term[u]
      /\ term'[t].id = id /\ term'[t].window /\ term'[t].pc = "created"
    BY <1>1 DEF TerminalCreated, Pcs
<1>3. /\ activeTerminals' = [activeTerminals EXCEPT ![id] = t]
      /\ closeListeners' = [closeListeners EXCEPT ![id] = t]
      /\ listening' = listening \cup {t}
      /\ disposed' = disposed
    BY DEF TerminalCreated
<1>4. TerminalTypeOK' /\ UnusedIsClosed'
    BY <1>2, <1>3 DEF TerminalInv, TerminalTypeOK, UnusedIsClosed
<1>5. ASSUME NEW i \in Ids
      PROVE  LET u == activeTerminals'[i] IN
             /\ u = closeListeners'[i]
             /\ u # None => term'[u].window /\ term'[u].id = i /\ u \in listening'
  <2>1. CASE i = id
      BY <1>2, <1>3, <2>1 DEF TerminalInv, TerminalTypeOK
  <2>2. CASE i # id
    <3>1. /\ activeTerminals'[i] = activeTerminals[i]
          /\ closeListeners'[i] = closeListeners[i]
          /\ activeTerminals[i] # None => activeTerminals[i] \in Terminals
        BY <1>3, <2>2 DEF TerminalInv, TerminalTypeOK
    <3>2. activeTerminals[i] # None => activeTerminals[i] # t
        BY <2>2 DEF TerminalInv, TrackedIsOpen
    <3> QED
        BY <1>2, <1>3, <3>1, <3>2 DEF TerminalInv, TrackedIsOpen
  <2> QED
      BY <2>1, <2>2
<1> QED
    BY <1>4, <1>5 DEF TerminalInv, TrackedIsOpen

\* A window that closes is tracked for its own connection only.
LEMMA WindowClosesKept ==
    ASSUME TerminalInv, NEW t \in Terminals, WindowCloses(t)
    PROVE  TerminalInv'
<1>1. term \in [Terminals -> [id : Ids, pc : Pcs, window : BOOLEAN]]
    BY DEF TerminalInv, TerminalTypeOK
<1> PICK id \in Ids : id = term[t].id
    BY <1>1
<1> DEFINE kept(map) == IF t \in listening THEN None ELSE map[id]
<1>2. ClosePty(term[t]) \in [id : Ids, pc : Pcs, window : BOOLEAN]
      /\ ~ClosePty(term[t]).window
      /\ (ClosePty(term[t]).pc = "unused" => term[t].pc = "unused")
    BY <1>1 DEF ClosePty, Pcs
<1>3. /\ term' \in [Terminals -> [id : Ids, pc : Pcs, window : BOOLEAN]]
      /\ \A u \in Terminals \ {t} : term'[u] = term[u]
      /\ ~term'[t].window
    BY <1>1, <1>2 DEF WindowCloses
<1>4. /\ activeTerminals' = [activeTerminals EXCEPT ![id] = kept(activeTerminals)]
      /\ closeListeners' = [closeListeners EXCEPT ![id] = kept(closeListeners)]
      /\ listening' = listening \ {t}
      /\ disposed' = disposed
    BY DEF WindowCloses
<1>5. TerminalTypeOK' /\ UnusedIsClosed'
    BY <1>3, <1>4 DEF TerminalInv, TerminalTypeOK, UnusedIsClosed
<1>6. ASSUME NEW i \in Ids
      PROVE  LET u == activeTerminals'[i] IN
             /\ u = closeListeners'[i]
             /\ u # None => term'[u].window /\ term'[u].id = i /\ u \in listening'
  <2>1. /\ activeTerminals[i] = closeListeners[i]
        /\ activeTerminals[i] # None => /\ activeTerminals[i] \in Terminals
                                        /\ term[activeTerminals[i]].window
                                        /\ term[activeTerminals[i]].id = i
                                        /\ activeTerminals[i] \in listening
      BY DEF TerminalInv, TerminalTypeOK, TrackedIsOpen
  <2>2. CASE i = id /\ t \in listening
    <3>1. activeTerminals'[i] = None /\ closeListeners'[i] = None
        BY <1>4, <2>2 DEF TerminalInv, TerminalTypeOK
    <3> QED
        BY <3>1
  <2>3. CASE ~(i = id /\ t \in listening)
    <3>1. activeTerminals'[i] = activeTerminals[i] /\ closeListeners'[i] = closeListeners[i]
        BY <1>4, <2>3 DEF TerminalInv, TerminalTypeOK
    <3>2. activeTerminals[i] # None => activeTerminals[i] # t
        BY <2>1, <2>3
    <3> QED
        BY <1>3, <1>4, <2>1, <3>1, <3>2
  <2> QED
      BY <2>2, <2>3
<1> QED
    BY <1>5, <1>6 DEF TerminalInv, TrackedIsOpen

LEMMA DisposeKept ==
    ASSUME TerminalInv, DisposeTerminals PROVE TerminalInv'
<1>1. term \in [Terminals -> [id : Ids, pc : Pcs, window : BOOLEAN]]
    BY DEF TerminalInv, TerminalTypeOK
<1>2. ASSUME NEW t \in Terminals
      PROVE  /\ ClosePty(term[t]) \in [id : Ids, pc : Pcs, window : BOOLEAN]
             /\ ~ClosePty(term[t]).window
    BY <1>1 DEF ClosePty, Pcs
<1>3. ASSUME NEW t \in Terminals
      PROVE  term'[t] = ClosePty(term[t]) \/ term'[t] = term[t]
    BY DEF DisposeTerminals
<1>4. /\ term' \in [Terminals -> [id : Ids, pc : Pcs, window : BOOLEAN]]
    BY <1>1, <1>2 DEF DisposeTerminals
<1>5. /\ activeTerminals' = [id \in Ids |-> None] /\ closeListeners' = [id \in Ids |-> None]
      /\ disposed' = TRUE /\ listening' \subseteq listening
    BY DEF DisposeTerminals
<1>6. TerminalTypeOK' /\ UnusedIsClosed'
    BY <1>2, <1>3, <1>4, <1>5 DEF TerminalInv, TerminalTypeOK, UnusedIsClosed
<1> QED
    BY <1>5, <1>6 DEF TerminalInv, TrackedIsOpen

LEMMA TerminalsKept ==
    ASSUME TerminalInv,
           \/ \E t \in Terminals : TerminalStep(t)
           \/ DisposeTerminals
           \/ UNCHANGED terminalVars
    PROVE  TerminalInv'
<1>1. ASSUME NEW t \in Terminals, TerminalStep(t)
      PROVE  TerminalInv'
  <2>1. CASE \E id \in Ids : OpenTerminal(t, id)
      BY <2>1, OpenTerminalKept
  <2>2. CASE \/ \E a \in Adapters : SessionOpened(t, a)
             \/ CreateFails(t) \/ OpenPty(t) \/ ShellSettles(t)
    <3>1. PICK pc \in Pcs \ {"unused"} : Goto(t, pc) /\ UntrackedUnchanged
        BY <2>2 DEF SessionOpened, CreateFails, OpenPty, ShellSettles, Pcs
    <3> QED
        BY <3>1, GotoKept
  <2>3. CASE TerminalCreated(t) \/ WindowCloses(t)
      BY <2>3, CreatedKept, WindowClosesKept
  <2> QED
      BY <1>1, <2>1, <2>2, <2>3 DEF TerminalStep
<1>2. CASE UNCHANGED terminalVars
    BY <1>2 DEF terminalVars, TerminalInv, TerminalTypeOK, UnusedIsClosed, TrackedIsOpen
<1> QED
    BY <1>1, <1>2, DisposeKept
-----------------------------------------------------------------------------
(* The wiring: no session with a file channel ever loses it                *)

PoolEntry == [status : {"idle", "connecting", "connected", "disconnected", "error"},
              adapter : Adapters \cup {None}]

LEMMA AnnouncedType ==
    ASSUME PoolTypeOK, NEW id \in Ids, NEW q \in Announced(id)
    PROVE  /\ q \in PoolEntry
           /\ q.status = "connected" => q.adapter \in Adapters
<1>1. pool[id] \in PoolEntry
    BY DEF PoolTypeOK, PoolEntry
<1>2. CASE \E a \in Unregistered : q = [status |-> "connected", adapter |-> a]
    BY <1>2 DEF Unregistered, PoolEntry
<1>3. CASE q = [status |-> "disconnected", adapter |-> None]
    BY <1>3 DEF PoolEntry
<1>4. CASE \E s \in {"connecting", "error", "disconnected"} :
               q = [pool[id] EXCEPT !.status = s]
    BY <1>1, <1>4 DEF PoolEntry
<1> QED
    BY <1>2, <1>3, <1>4 DEF Announced

\* A step that connects nothing to the files keeps what is connected, when the
\* sessions with a file channel keep it.
LEMMA FilesKept ==
    ASSUME WiringInv,
           kind' \in [Adapters -> Kinds],
           \A a \in Adapters : kind[a] = "connect" => kind'[a] = "connect",
           UNCHANGED <<schemes, syncHandlers>>,
           \A id \in Ids : sidebar'[id] \in {None, sidebar[id]}
    PROVE  TerminalsAreNotWired' /\ BrowsableHasSync'
<1>1. ASSUME NEW p \in Protocols, schemes[p] # None
      PROVE  kind'[schemes[p].adapter] = "connect"
    BY <1>1 DEF WiringInv, TerminalsAreNotWired, Provider
<1>2. ASSUME NEW id \in Ids, NEW a \in {sidebar'[id], syncHandlers[id]} \ {None}
      PROVE  kind'[a] = "connect"
  <2>1. a \in {sidebar[id], syncHandlers[id]} \ {None} /\ a \in Adapters
      BY DEF WiringInv
  <2> QED
      BY <2>1 DEF WiringInv, TerminalsAreNotWired
<1> QED
    BY <1>1, <1>2 DEF WiringInv, TerminalsAreNotWired, BrowsableHasSync

LEMMA StatusChangeWired ==
    ASSUME WiringInv, NEW id \in Ids, PoolEvent(id)
    PROVE  WiringInv'
<1>1. PICK q \in Announced(id) :
            /\ q.status = "connected" => kind[q.adapter] = "unused"
            /\ StatusChange(id, q)
    BY DEF PoolEvent
<1>2. q \in PoolEntry /\ (q.status = "connected" => q.adapter \in Adapters)
    BY AnnouncedType DEF WiringInv
<1>3. PoolTypeOK'
    BY <1>1, <1>2 DEF StatusChange, WiringInv, PoolTypeOK, PoolEntry
<1>4. /\ kind' \in [Adapters -> Kinds]
      /\ \A a \in Adapters : kind[a] = "connect" => kind'[a] = "connect"
      /\ q.status = "connected" => kind'[q.adapter] = "connect"
    BY <1>1, <1>2 DEF StatusChange, WiringInv, Kinds
<1>5. PICK protocol \in Protocols :
            pending' = IF GoesOn(q)
                       THEN pending \cup {[id |-> id, adapter |-> q.adapter,
                                           protocol |-> protocol]}
                       ELSE pending
  <2>1. (IF id \in configured THEN Protocol[id] ELSE "ssh") \in Protocols
      BY ConnectionsAssumption DEF Protocols
  <2> QED
      BY <1>1, <2>1 DEF StatusChange
<1>6. pending' \subseteq Handler
    BY <1>2, <1>5 DEF GoesOn, Handler, WiringInv
<1>7. PendingAreConnected'
  <2> SUFFICES ASSUME NEW h \in pending'
               PROVE  kind'[h.adapter] = "connect"
      BY DEF PendingAreConnected
  <2>1. CASE h \in pending
      BY <1>4, <2>1 DEF WiringInv, PendingAreConnected, Handler
  <2>2. CASE h \notin pending
      BY <1>4, <1>5, <2>2 DEF GoesOn
  <2> QED
      BY <2>1, <2>2
<1>8. /\ sidebar' \in [Ids -> Adapters \cup {None}]
      /\ \A i \in Ids : sidebar'[i] \in {None, sidebar[i]}
    BY <1>1 DEF StatusChange, WiringInv
<1>9. UNCHANGED <<configured, schemes, syncHandlers>>
    BY <1>1 DEF StatusChange
<1>10. TerminalsAreNotWired' /\ BrowsableHasSync'
    BY <1>4, <1>8, <1>9, FilesKept
<1> QED
    BY <1>3, <1>4, <1>6, <1>7, <1>8, <1>9, <1>10 DEF WiringInv

LEMMA ResumeWired ==
    ASSUME WiringInv, NEW h \in pending, Resume(h)
    PROVE  WiringInv'
<1>1. h \in Handler /\ kind[h.adapter] = "connect"
    BY DEF WiringInv, PendingAreConnected
<1>2. h.id \in Ids /\ h.adapter \in Adapters /\ h.protocol \in Protocols
    BY <1>1 DEF Handler
<1>3. UNCHANGED <<pool, configured, kind>> /\ pending' = pending \ {h}
    BY DEF Resume
<1>4. CASE UNCHANGED <<schemes, sidebar, syncHandlers>>
    BY <1>3, <1>4 DEF WiringInv, PoolTypeOK, PendingAreConnected, TerminalsAreNotWired,
                      BrowsableHasSync
<1>5. CASE ~UNCHANGED <<schemes, sidebar, syncHandlers>>
  <2>1. PICK id \in Ids, a \in Adapters, p \in Protocols :
            id = h.id /\ a = h.adapter /\ p = h.protocol
      BY <1>2
  <2>2. /\ schemes' = [schemes EXCEPT ![p] = [id |-> id, adapter |-> a]]
        /\ sidebar' = [sidebar EXCEPT ![id] = a]
        /\ syncHandlers' = [syncHandlers EXCEPT ![id] = a]
      BY <1>5, <2>1 DEF Resume
  <2>3. kind[a] = "connect"
      BY <1>1, <2>1
  <2>4. /\ schemes' \in [Protocols -> Provider \cup {None}]
        /\ \A r \in Protocols : schemes'[r] # None =>
               schemes'[r] = schemes[r] \/ schemes'[r].adapter = a
      BY <2>2 DEF WiringInv, Provider
  <2>5. /\ sidebar' \in [Ids -> Adapters \cup {None}]
        /\ syncHandlers' \in [Ids -> Adapters \cup {None}]
        /\ sidebar'[id] = a /\ syncHandlers'[id] = a
        /\ \A i \in Ids \ {id} : /\ sidebar'[i] = sidebar[i]
                                  /\ syncHandlers'[i] = syncHandlers[i]
      BY <2>2 DEF WiringInv
  <2>6. TerminalsAreNotWired'
      BY <1>3, <2>3, <2>4, <2>5 DEF WiringInv, TerminalsAreNotWired
  <2>7. BrowsableHasSync'
      BY <2>5 DEF WiringInv, BrowsableHasSync
  <2> QED
      BY <1>3, <2>4, <2>5, <2>6, <2>7 DEF WiringInv, PoolTypeOK, PendingAreConnected
<1> QED
    BY <1>4, <1>5

\* Of the steps of a terminal one changes the pool: a session is opened.
LEMMA TerminalPool ==
    ASSUME PoolTypeOK, TerminalTypeOK, NEW t \in Terminals, TerminalStep(t)
    PROVE  \/ UNCHANGED pool
           \/ \E id \in Ids, a \in Unregistered : pool' = [pool EXCEPT ![id].adapter = a]
<1>1. term[t].id \in Ids
    BY DEF TerminalTypeOK
<1> QED
    BY <1>1 DEF TerminalStep, OpenTerminal, SessionOpened, CreateFails, TerminalCreated,
                OpenPty, ShellSettles, WindowCloses

LEMMA TerminalWired ==
    ASSUME WiringInv, TerminalTypeOK, NEW t \in Terminals, Terminal(t)
    PROVE  WiringInv'
<1>1. PoolTypeOK'
  <2>1. CASE UNCHANGED pool
      BY <2>1 DEF WiringInv, PoolTypeOK
  <2>2. ASSUME NEW id \in Ids, NEW a \in Unregistered, pool' = [pool EXCEPT ![id].adapter = a]
        PROVE  PoolTypeOK'
      BY <2>2 DEF WiringInv, PoolTypeOK, Unregistered
  <2> QED
      BY <2>1, <2>2, TerminalPool DEF Terminal, WiringInv
<1>2. /\ kind' \in [Adapters -> Kinds]
      /\ \A a \in Adapters : kind[a] = "connect" => kind'[a] = "connect"
  <2> DEFINE opened == {pool'[id].adapter : id \in {i \in Ids : pool'[i] # pool[i]}}
  <2>1. /\ \A a \in opened : kind[a] = "unused"
        /\ kind' = [a \in Adapters |-> IF a \in opened THEN "terminal" ELSE kind[a]]
      BY DEF Terminal
  <2> HIDE DEF opened
  <2> QED
      BY <2>1 DEF WiringInv, Kinds
<1>3. UNCHANGED <<configured, pending, schemes, sidebar, syncHandlers>>
    BY DEF Terminal
<1>4. PendingAreConnected'
    BY <1>2, <1>3 DEF WiringInv, PendingAreConnected, Handler
<1>5. TerminalsAreNotWired' /\ BrowsableHasSync'
    BY <1>2, <1>3, FilesKept
<1> QED
    BY <1>1, <1>2, <1>3, <1>4, <1>5 DEF WiringInv

LEMMA ForgetWired ==
    ASSUME WiringInv, NEW id \in Ids, Forget(id)
    PROVE  WiringInv'
<1>1. PoolTypeOK'
    BY DEF Forget, Forgotten, WiringInv, PoolTypeOK
<1>2. configured' \subseteq Ids
    BY DEF Forget, WiringInv
<1>3. UNCHANGED <<kind, pending, schemes, sidebar, syncHandlers>>
    BY DEF Forget
<1> QED
    BY <1>1, <1>2, <1>3 DEF WiringInv, PendingAreConnected, TerminalsAreNotWired, BrowsableHasSync

LEMMA WiringKept ==
    ASSUME WiringInv, TerminalInv, [Next]_vars PROVE WiringInv'
<1>1. ASSUME NEW h \in pending, LookupFails(h)
      PROVE  WiringInv'
    BY <1>1 DEF LookupFails, WiringInv, PoolTypeOK, PendingAreConnected,
                TerminalsAreNotWired, BrowsableHasSync
<1>2. CASE DisposeTerminals /\ UNCHANGED wiringVars
    BY <1>2 DEF DisposeTerminals, wiringVars, WiringInv, PoolTypeOK, PendingAreConnected,
                TerminalsAreNotWired, BrowsableHasSync
<1>3. CASE UNCHANGED vars
    BY <1>3 DEF vars, wiringVars, WiringInv, PoolTypeOK, PendingAreConnected,
                TerminalsAreNotWired, BrowsableHasSync
<1> QED
    BY <1>1, <1>2, <1>3, StatusChangeWired, ForgetWired, ResumeWired, TerminalWired
    DEF Next, TerminalInv

-----------------------------------------------------------------------------
(* The status bar                                                          *)

LEMMA ActiveIsFinite ==
    ASSUME NEW c
    PROVE  /\ Cardinality(Ids) \in Nat /\ Cardinality(Active(c)) \in Nat
           /\ Cardinality(Active(c)) <= Cardinality(Ids)
           /\ IsFiniteSet(Active(c))
<1>1. IsFiniteSet(Ids)
    BY ConnectionsAssumption
<1>2. Active(c) \subseteq Ids
    BY DEF Active
<1> QED
    BY <1>1, <1>2, FS_Subset, FS_CardinalityType

\* What is shown stays right when no session is lost.
LEMMA BarKept ==
    ASSUME BarInv, UNCHANGED statusBar, Active(pool) \subseteq Active(pool)'
    PROVE  BarInv'
<1>1. Cardinality(Active(pool)) <= Cardinality(Active(pool)')
  <2>1. Active(pool)' = Active(pool')
      BY DEF Active
  <2> QED
      BY <2>1, ActiveIsFinite, FS_Subset
<1>2. /\ Cardinality(Active(pool)) \in Nat
      /\ Cardinality(Active(pool)') \in Nat
  <2>1. Active(pool)' = Active(pool')
      BY DEF Active
  <2> QED
      BY <2>1, ActiveIsFinite
<1>3. Cardinality(Ids) \in Nat
    BY ActiveIsFinite
<1> QED
    BY <1>1, <1>2, <1>3 DEF BarInv, BarNeverOvercounts

LEMMA BarInvKept ==
    ASSUME BarInv, WiringInv, TerminalInv, [Next]_vars PROVE BarInv'
<1>1. ASSUME NEW id \in Ids, PoolEvent(id)
      PROVE  BarInv'
  <2>1. PICK q \in Announced(id) : statusBar' = CountShown(q.status, pool')
      BY <1>1 DEF PoolEvent, StatusChange, UpdateStatus
  <2>2. statusBar' \in {0, Cardinality(Active(pool'))}
      BY <2>1 DEF CountShown
  <2>3. Active(pool)' = Active(pool')
      BY DEF Active
  <2>4. /\ Cardinality(Ids) \in Nat /\ Cardinality(Active(pool')) \in Nat
        /\ Cardinality(Active(pool')) <= Cardinality(Ids)
      BY ActiveIsFinite
  <2> QED
      BY <2>2, <2>3, <2>4 DEF BarInv, BarNeverOvercounts
<1>2. ASSUME NEW id \in Ids, Forget(id)
      PROVE  BarInv'
  <2>1. Active(pool) \subseteq Active(pool)'
      BY <1>2 DEF Forget, Active, WiringInv, PoolTypeOK
  <2> QED
      BY <1>2, <2>1, BarKept DEF Forget
<1>3. ASSUME NEW t \in Terminals, Terminal(t)
      PROVE  BarInv'
  <2>1. Active(pool) \subseteq Active(pool)'
    <3>1. CASE UNCHANGED pool
        BY <3>1 DEF Active
    <3>2. ASSUME NEW id \in Ids, NEW a \in Unregistered,
                 pool' = [pool EXCEPT ![id].adapter = a]
          PROVE  Active(pool) \subseteq Active(pool)'
      <4>1. a # None
          BY AdaptersAssumption DEF Unregistered
      <4> QED
          BY <3>2, <4>1 DEF Active, WiringInv, PoolTypeOK
    <3> QED
        BY <1>3, <3>1, <3>2, TerminalPool DEF Terminal, WiringInv, TerminalInv
  <2> QED
      BY <1>3, <2>1, BarKept DEF Terminal
<1>4. CASE UNCHANGED <<pool, statusBar>>
    BY <1>4, BarKept DEF Active
<1>5. CASE UNCHANGED vars
    BY <1>4, <1>5 DEF vars, wiringVars
<1> QED
    BY <1>1, <1>2, <1>3, <1>4, <1>5
    DEF Next, Resume, LookupFails, DisposeTerminals, wiringVars

-----------------------------------------------------------------------------
LEMMA InitIInv == Init => IInv
<1> SUFFICES ASSUME Init PROVE IInv
    OBVIOUS
<1>1. TerminalInv
  <2>1. PICK id \in Ids : term = [t \in Terminals |->
                                    [id |-> id, pc |-> "unused", window |-> FALSE]]
      BY DEF Init, TerminalInit
  <2> QED
      BY <2>1 DEF Init, TerminalInit, TerminalInv, TerminalTypeOK, UnusedIsClosed,
                  TrackedIsOpen, Pcs
<1>2. WiringInv
    BY DEF Init, PoolInit, WiringInv, PoolTypeOK, PendingAreConnected, TerminalsAreNotWired,
           BrowsableHasSync, Kinds
<1>3. BarInv
  <2>1. /\ Cardinality(Ids) \in Nat /\ Cardinality(Active(pool)) \in Nat
      BY ActiveIsFinite
  <2> QED
      BY <2>1 DEF Init, BarInv, BarNeverOvercounts
<1> QED
    BY <1>1, <1>2, <1>3 DEF IInv

LEMMA NextIInv == IInv /\ [Next]_vars => IInv'
<1> SUFFICES ASSUME IInv, [Next]_vars PROVE IInv'
    OBVIOUS
<1>1. \/ \E t \in Terminals : TerminalStep(t)
      \/ DisposeTerminals
      \/ UNCHANGED terminalVars
    BY DEF Next, vars, PoolEvent, StatusChange, Forget, Resume, LookupFails, Terminal
<1>2. TerminalInv'
    BY <1>1, TerminalsKept DEF IInv
<1>3. WiringInv' /\ BarInv'
    BY WiringKept, BarInvKept DEF IInv
<1> QED
    BY <1>2, <1>3 DEF IInv

LEMMA Invariance == Spec => []IInv
    BY InitIInv, NextIInv, PTL DEF Spec

LEMMA Consequences ==
    ASSUME IInv
    PROVE  /\ TypeOK /\ BrowsableHasSync /\ TerminalsAreNotWired
           /\ BarNeverOvercounts /\ TrackedIsOpen
    BY DEF IInv, TerminalInv, WiringInv, BarInv, TypeOK

\* In whatever order connections, drops, terminals and answers come, the statusChange
\* handler of activate() gives no terminal-only session to a provider, the sidebar or a
\* sync handler: it has read the adapter before its await.  Whether connect() got a file
\* channel is not told apart, nor what the commands of the menu take from the pool.
THEOREM TerminalSessionsAreNotWired == Spec => []TerminalsAreNotWired
    BY Invariance, Consequences, PTL

\* The count in the status bar, which is set from the pool in some handlers only,
\* may lag behind a connection that has come up, and never behind one that closed.
THEOREM BarCountsOpenOnly == Spec => []BarNeverOvercounts
    BY Invariance, Consequences, PTL

\* The maps of TerminalManager agree with the windows: a terminal that is tracked
\* for a connection is open, belongs to it, and its closing is listened to, with
\* any number of terminals opening, failing and closing at a time.
THEOREM TerminalsAreTracked == Spec => []TrackedIsOpen
    BY Invariance, Consequences, PTL

\* extension.ts with the terminals, for any number of connections, sessions and
\* terminals: what the sidebar browses can be synchronised over the same
\* session, no terminal-only session is wired, the status bar counts no connection
\* that is closed, and only open windows are tracked.
THEOREM WiringSafety ==
    Spec => [](/\ TypeOK /\ BrowsableHasSync /\ TerminalsAreNotWired
               /\ BarNeverOvercounts /\ TrackedIsOpen)
    BY Invariance, Consequences, PTL
=============================================================================
