--------------------------- MODULE TerminalManager ---------------------------
(***************************************************************************)
(* terminal/TerminalManager.ts: SSH terminals over the sessions of the     *)
(* connection pool, the maps that track them, and the pseudoterminal that  *)
(* joins the shell of a session to a window of the editor.                 *)
(***************************************************************************)
EXTENDS ConnectionPool

CONSTANTS
    Terminals,      \* bound: calls of createTerminal()
    Protocol        \* the protocol each connection is configured with

VARIABLES
    term,           \* per terminal: createTerminal() and its pseudoterminal
    activeTerminals, closeListeners,
    listening,      \* terminals whose close listener is registered
    disposed        \* dispose() was called

terminalVars == <<term, activeTerminals, closeListeners, listening, disposed>>

\* "connecting" and "labelling" await in createTerminal(), "opening" awaits
\* createShell(); "live" is a shell nobody has closed: when the server ends it,
\* nothing changes.
Pcs == {"unused", "connecting", "labelling", "created", "opening", "live",
        "refused", "done"}

TerminalTypeOK ==
    /\ term \in [Terminals -> [id : Ids, pc : Pcs, window : BOOLEAN]]
    /\ activeTerminals \in [Ids -> Terminals \cup {None}]
    /\ closeListeners \in [Ids -> Terminals \cup {None}]
    /\ listening \subseteq Terminals
    /\ disposed \in BOOLEAN

TerminalInit ==
    /\ \E id \in Ids : term = [t \in Terminals |->
            [id |-> id, pc |-> "unused", window |-> FALSE]]
    /\ activeTerminals = [id \in Ids |-> None]
    /\ closeListeners = [id \in Ids |-> None]
    /\ listening = {}
    /\ disposed = FALSE
-----------------------------------------------------------------------------
Goto(t, pc) == term' = [term EXCEPT ![t].pc = pc]

UntrackedUnchanged == UNCHANGED <<activeTerminals, closeListeners, listening, disposed>>

\* openTerminal() with a connection chosen, to the first await: an adapter that
\* is connected is shared, and must have createShell(); otherwise a session of
\* its own is opened for ssh.  Every other case throws.
OpenTerminal(t, id) ==
    /\ term[t].pc = "unused" /\ ~disposed
    /\ Protocol[id] = "ssh"
    /\ \/ /\ pool[id].adapter # None
          /\ term' = [term EXCEPT ![t].id = id, ![t].pc = "labelling"]
       \/ term' = [term EXCEPT ![t].id = id, ![t].pc = "connecting"]
    /\ UNCHANGED pool
    /\ UntrackedUnchanged

\* ensureConnected() registers the session it has opened, over whatever is
\* registered by then.
SessionOpened(t, a) ==
    LET id == term[t].id IN
    /\ term[t].pc = "connecting"
    /\ a \in Unregistered
    /\ pool' = [pool EXCEPT ![id].adapter = a]
    /\ Goto(t, "labelling")
    /\ UntrackedUnchanged

\* One of the awaits of createTerminal() rejects.
CreateFails(t) ==
    /\ term[t].pc \in {"connecting", "labelling"}
    /\ Goto(t, "done")
    /\ UNCHANGED pool
    /\ UntrackedUnchanged

\* The label is there: the window is created, tracked and listened to.
TerminalCreated(t) ==
    LET id == term[t].id IN
    /\ term[t].pc = "labelling"
    /\ term' = [term EXCEPT ![t].pc = "created", ![t].window = TRUE]
    /\ activeTerminals' = [activeTerminals EXCEPT ![id] = t]
    /\ closeListeners' = [closeListeners EXCEPT ![id] = t]
    /\ listening' = listening \cup {t}
    /\ UNCHANGED <<pool, disposed>>

\* open() of the pseudoterminal, and the end of its createShell().  Whether the
\* window is still there is not looked at.
OpenPty(t) ==
    /\ term[t].pc = "created"
    /\ Goto(t, "opening")
    /\ UNCHANGED pool
    /\ UntrackedUnchanged

ShellSettles(t) ==
    /\ term[t].pc = "opening"
    /\ \E pc \in {"live", "refused"} : Goto(t, pc)
    /\ UNCHANGED pool
    /\ UntrackedUnchanged

\* close() of the pseudoterminal: a shell that is there is disposed of.
ClosePty(r) ==
    [r EXCEPT !.window = FALSE, !.pc = IF @ = "opening" THEN @ ELSE "done"]

\* Mutation of WindowCloses: the terminal stays in activeTerminals.
WindowClosesTracked(t) ==
    LET id == term[t].id IN
    /\ term[t].window
    /\ term' = [term EXCEPT ![t] = ClosePty(@)]
    /\ closeListeners' = [closeListeners EXCEPT ![id] = IF t \in listening THEN None ELSE @]
    /\ listening' = listening \ {t}
    /\ UNCHANGED <<pool, activeTerminals, disposed>>

\* The user closes the window, or the editor does because the shell was
\* refused: the listener drops what is tracked for the connection.
WindowCloses(t) ==
    LET id == term[t].id
        drop(map) == [map EXCEPT ![id] = IF t \in listening THEN None ELSE @]
    IN
    /\ term[t].window
    /\ term' = [term EXCEPT ![t] = ClosePty(@)]
    /\ activeTerminals' = drop(activeTerminals)
    /\ closeListeners' = drop(closeListeners)
    /\ listening' = listening \ {t}
    /\ UNCHANGED <<pool, disposed>>

\* dispose()
DisposeTerminals ==
    LET tracked == {activeTerminals[id] : id \in Ids} IN
    /\ ~disposed
    /\ disposed' = TRUE
    /\ term' = [t \in Terminals |-> IF t \in tracked THEN ClosePty(term[t]) ELSE term[t]]
    /\ listening' = listening \ {closeListeners[id] : id \in Ids}
    /\ activeTerminals' = [id \in Ids |-> None]
    /\ closeListeners' = [id \in Ids |-> None]
    /\ UNCHANGED pool

TerminalStep(t) ==
    \/ \E id \in Ids : OpenTerminal(t, id)
    \/ \E a \in Adapters : SessionOpened(t, a)
    \/ CreateFails(t) \/ TerminalCreated(t)
    \/ OpenPty(t) \/ ShellSettles(t) \/ WindowCloses(t)
-----------------------------------------------------------------------------
\* What is tracked for a connection is an open window of that connection whose
\* closing will be heard: a map never keeps a terminal that is gone.
TrackedIsOpen ==
    \A id \in Ids :
        LET t == activeTerminals[id] IN
        /\ t = closeListeners[id]
        /\ t # None => term[t].window /\ term[t].id = id /\ t \in listening
=============================================================================
