----------------------------- MODULE SSHAdapter -----------------------------
(***************************************************************************)
(* The session of adapters/SSHAdapter.ts: connect() with a password or a   *)
(* key, with or without SFTP, disconnect() with its timer, and the         *)
(* operations that go over the session.  delete() and search() have        *)
(* modules of their own, SSHDelete and RemoteSearch.                       *)
(*                                                                         *)
(* An adapter is connected once, and disconnected only after connect() has *)
(* resolved, maybe by two calls at a time.  Of ssh2 the events of the      *)
(* client are modelled, of the server a directory of a few names; a file   *)
(* is written and read in blocks.                                          *)
(***************************************************************************)
EXTENDS Integers, Sequences

CONSTANTS
    Calls,          \* bound: operations that run at a time
    Ends,           \* bound: calls of disconnect()
    Names,          \* the names in the directory
    Blocks          \* the blocks of a file that is written

ASSUME SshAssumption == Blocks \in Nat \ {0} /\ Names # {} /\ "connect" \notin Ends

VARIABLES
    attempt,        \* the stage of connect()
    client,         \* this.client is set
    socket,         \* of the client: "none", "open", "ended" after end(), "closed"
    connected, sftp, terminalOnly,      \* the fields of that name
    ends,           \* the calls of disconnect()
    listener,       \* who listens to the close event: connect(), or a disconnect()
    server,         \* what the directory on the server holds
    calls           \* the operations

sshVars == <<attempt, client, socket, connected, sftp, terminalOnly, ends, listener,
             server, calls>>
fields == <<client, connected, sftp, terminalOnly>>

Types == {"file", "directory", "symlink"}
Node == [kind : {"none", "file", "directory", "symlink"}, blocks : 0..Blocks]
Absent == [kind |-> "none", blocks |-> 0]
Readers == {"stat", "readDirectory", "readFile"}
Ops == Readers \cup {"writeFile", "rename", "createDirectory", "createShell"}

\* A listing reads the type of each name.  A call is undisturbed (history) if no other
\* ran beside it.
Operation == [op : Ops, name : Names, pc : {"asked", "open", "ok", "error", "resolved", "rejected"},
              types : [Names -> Types \cup {"none"}], undisturbed : BOOLEAN]
NoTypes == [n \in Names |-> "none"]
NoCall == [op |-> "stat", name |-> CHOOSE n \in Names : TRUE, pc |-> "resolved",
           types |-> NoTypes, undisturbed |-> FALSE]

\* The session, its ends and its operations.
SshTypeOK ==
    /\ attempt \in {"none", "key", "handshake", "sftp", "resolved", "rejected"}
    /\ socket \in {"none", "open", "ended", "closed"}
    /\ {client, connected, sftp, terminalOnly} \subseteq BOOLEAN
    /\ ends \in [Ends -> {"idle", "waiting", "resolved"}]
    /\ listener \in Ends \cup {"connect"}
    /\ server \in [Names -> Node]
    /\ calls \in [Calls -> Operation]

SshInit ==
    /\ attempt = "none" /\ client = FALSE /\ socket = "none"
    /\ connected = FALSE /\ sftp = FALSE /\ terminalOnly = FALSE
    /\ ends = [e \in Ends |-> "idle"] /\ listener = "connect"
    /\ server \in [Names -> {Absent, [kind |-> "symlink", blocks |-> 0],
                             [kind |-> "file", blocks |-> Blocks]}]
    /\ calls = [c \in Calls |-> NoCall]

Running == {c \in Calls : calls[c].pc \notin {"resolved", "rejected"}}
-----------------------------------------------------------------------------
(* connect()                                                               *)

\* connect() and connectTerminalOnly(): terminalOnly stands for their flag until it is
\* set.  Without a way to log in, nothing is sent.
SshConnect(withSftp, auth) ==
    /\ attempt = "none"
    /\ client' = TRUE
    /\ terminalOnly' = ~withSftp
    /\ attempt' = CASE auth = "key" -> "key" [] auth = "none" -> "rejected" [] OTHER -> "handshake"
    /\ socket' = IF attempt' = "handshake" THEN "open" ELSE socket
    /\ UNCHANGED <<connected, sftp, ends, listener, server, calls>>

\* The private key is read, or cannot be.
KeyRead(ok) ==
    /\ attempt = "key"
    /\ attempt' = IF ok THEN "handshake" ELSE "rejected"
    /\ socket' = IF ok THEN "open" ELSE socket
    /\ UNCHANGED <<fields, ends, listener, server, calls>>

\* The ready event.
Ready ==
    /\ attempt = "handshake" /\ socket = "open"
    /\ attempt' = IF terminalOnly THEN "resolved" ELSE "sftp"
    /\ connected' = TRUE
    /\ UNCHANGED <<client, socket, sftp, terminalOnly, ends, listener, server, calls>>

\* sftp() answers, with an error also after the socket has closed; connect() resolves.
SftpReply(ok) ==
    /\ attempt = "sftp"
    /\ ok => socket = "open"
    /\ attempt' = "resolved"
    /\ sftp' = ok
    /\ UNCHANGED <<client, socket, connected, terminalOnly, ends, listener, server, calls>>

\* The error event, of which only one before the ready event counts.
SshError ==
    /\ attempt = "handshake" /\ socket = "open"
    /\ attempt' = "rejected"
    /\ connected' = FALSE
    /\ UNCHANGED <<client, socket, sftp, terminalOnly, ends, listener, server, calls>>
-----------------------------------------------------------------------------
(* disconnect()                                                            *)

IsConnected == connected /\ (terminalOnly \/ sftp)

Over(e) == ends' = [ends EXCEPT ![e] = "resolved"]

ClearFields ==
    client' = FALSE /\ connected' = FALSE /\ sftp' = FALSE /\ terminalOnly' = FALSE

\* ssh2 fails the operations of a session that is over.
FailCalls ==
    calls' = [c \in Calls |-> IF c \in Running THEN [calls[c] EXCEPT !.pc = "error"]
                              ELSE calls[c]]

\* A call of disconnect() takes the close event from connect() or another call.
SshDisconnect(e) ==
    /\ ends[e] = "idle" /\ attempt = "resolved"
    /\ IF client
       THEN /\ ends' = [ends EXCEPT ![e] = "waiting"]
            /\ listener' = e
            /\ socket' = IF socket = "open" THEN "ended" ELSE socket
       ELSE Over(e) /\ UNCHANGED <<listener, socket>>
    /\ UNCHANGED <<attempt, fields, server, calls>>

\* Mutation of EndTimer: the socket is left to the server.
EndTimerKeepsSocket(e) ==
    /\ ends[e] = "waiting"
    /\ ClearFields /\ Over(e)
    /\ UNCHANGED socket

\* The timer of a call that has seen no close event.
EndTimer(e) ==
    /\ ends[e] = "waiting"
    /\ ClearFields /\ Over(e)
    /\ socket' = IF client THEN "closed" ELSE socket

DisconnectTimeout(e) ==
    /\ EndTimer(e)
    /\ IF socket' = "closed" THEN FailCalls ELSE UNCHANGED calls
    /\ UNCHANGED <<attempt, listener, server>>

\* The close event, of a session that was ended or lost.
SocketClose ==
    /\ socket \in {"open", "ended"} /\ attempt # "handshake"
    /\ socket' = "closed"
    /\ FailCalls
    /\ IF listener \in Ends
       THEN ClearFields /\ Over(listener)
       ELSE /\ connected' = FALSE /\ sftp' = FALSE
            /\ UNCHANGED <<client, terminalOnly, ends>>
    /\ UNCHANGED <<attempt, listener, server>>
-----------------------------------------------------------------------------
(* The operations                                                          *)

\* ensureConnected(); the calls that have settled are forgotten.
Ask(c, op, name) ==
    /\ c \notin Running
    /\ calls' = [d \in Calls |->
            IF d = c THEN [NoCall EXCEPT !.op = op, !.name = name, !.pc = "asked",
                                         !.undisturbed = Running = {}]
            ELSE IF d \in Running THEN [calls[d] EXCEPT !.undisturbed = FALSE] ELSE NoCall]
    /\ UNCHANGED <<attempt, fields, socket, ends, listener, server>>

SftpCall(c, op, name) == sftp /\ connected /\ Ask(c, op, name)

Stat(c, name) == SftpCall(c, "stat", name)
ReadDirectory(c) == SftpCall(c, "readDirectory", NoCall.name)
ReadFile(c, name) == SftpCall(c, "readFile", name)
WriteFile(c, name) == SftpCall(c, "writeFile", name)
Rename(c, name) == SftpCall(c, "rename", name)
CreateDirectory(c, name) == SftpCall(c, "createDirectory", name)

\* A shell needs no SFTP.
CreateShell(c) == client /\ connected /\ Ask(c, "createShell", NoCall.name)

\* The file type in the mode of an entry, its bits from 2^12 on.
Format(kind) == CASE kind = "directory" -> 4 [] kind = "file" -> 8 [] OTHER -> 10

SharesBit(a, b) == \E k \in 0..3 : (a \div 2^k) % 2 = 1 /\ (b \div 2^k) % 2 = 1

\* mapStat(): the bits of 0o040000 and 0o120000 are looked at.
MapStat(mode) ==
    IF SharesBit(mode, 4) THEN "directory" ELSE IF SharesBit(mode, 10) THEN "symlink" ELSE "file"

TypeOf(name) == IF server[name].kind = "none" THEN "none" ELSE MapStat(Format(server[name].kind))

Reply(c, ok) == calls' = [calls EXCEPT ![c].pc = IF ok THEN "ok" ELSE "error"]

\* The server reads; a listing does not follow links.
ServeRead(c, op, name) ==
    /\ op \in Readers
    /\ IF op = "readDirectory"
       THEN calls' = [calls EXCEPT ![c].pc = "ok", ![c].types = [n \in Names |-> TypeOf(n)]]
       ELSE Reply(c, server[name].kind # "none")
    /\ UNCHANGED server

\* The server makes a directory, or moves an entry to a name that is free.
ServeName(c, op, name) ==
    \/ /\ op = "createDirectory"
       /\ Reply(c, server[name].kind = "none")
       /\ server' = IF server[name].kind = "none"
                    THEN [server EXCEPT ![name] = [kind |-> "directory", blocks |-> 0]] ELSE server
    \/ /\ op = "rename"
       /\ \E to \in Names \ {name} :
            LET ok == server[name].kind # "none" /\ server[to].kind = "none" IN
            /\ Reply(c, ok)
            /\ server' = IF ok THEN [server EXCEPT ![name] = Absent, ![to] = server[name]]
                         ELSE server

\* A file is made empty, and written block by block.
ServeWrite(c, op, name) ==
    /\ op = "writeFile"
    /\ \/ /\ calls[c].pc = "asked"
          /\ server[name].kind \in {"none", "file"}
          /\ server' = [server EXCEPT ![name] = [kind |-> "file", blocks |-> 0]]
          /\ calls' = [calls EXCEPT ![c].pc = "open"]
       \/ /\ calls[c].pc = "open" /\ server[name].kind = "file"
          /\ server' = [server EXCEPT ![name].blocks = IF @ < Blocks THEN @ + 1 ELSE @]
          /\ IF server'[name].blocks = Blocks THEN Reply(c, TRUE) ELSE UNCHANGED calls

\* The server answers, or refuses.
Serve(c) ==
    LET call == calls[c] IN
    /\ socket \in {"open", "ended"} /\ call.pc \in {"asked", "open"}
    /\ \/ ServeRead(c, call.op, call.name)
       \/ ServeName(c, call.op, call.name)
       \/ ServeWrite(c, call.op, call.name)
       \/ call.op = "createShell" /\ Reply(c, TRUE) /\ UNCHANGED server
       \/ Reply(c, FALSE) /\ UNCHANGED server
    /\ UNCHANGED <<attempt, fields, socket, ends, listener>>

\* Mutation of Outcome: the error of the callback is overlooked.
OutcomeOverlooked(pc) == "resolved"

\* The callback resolves or rejects.
Outcome(pc) == IF pc = "ok" THEN "resolved" ELSE "rejected"

Callback(c) ==
    /\ calls[c].pc \in {"ok", "error"}
    /\ calls' = [calls EXCEPT ![c].pc = Outcome(@)]
    /\ UNCHANGED <<attempt, fields, socket, ends, listener, server>>

Operate(c) ==
    \/ \E name \in Names :
        \/ Stat(c, name) \/ ReadFile(c, name) \/ WriteFile(c, name)
        \/ Rename(c, name) \/ CreateDirectory(c, name)
    \/ ReadDirectory(c) \/ CreateShell(c) \/ Serve(c) \/ Callback(c)

SshNext ==
    \/ \E withSftp \in BOOLEAN, auth \in {"password", "key", "none"} : SshConnect(withSftp, auth)
    \/ \E ok \in BOOLEAN : KeyRead(ok) \/ SftpReply(ok)
    \/ Ready \/ SshError \/ SocketClose
    \/ \E e \in Ends : SshDisconnect(e) \/ DisconnectTimeout(e)
    \/ \E c \in Calls : Operate(c)

\* Timers fire; nothing is assumed of the server.
SshFairness == \A e \in Ends : WF_sshVars(DisconnectTimeout(e))
-----------------------------------------------------------------------------
\* When a disconnect() has resolved, nothing of the session is left, also if another
\* one has taken the close event from it.
NothingIsLeftOpen ==
    (\E e \in Ends : ends[e] = "resolved") =>
        /\ ~client /\ ~IsConnected
        /\ socket = "closed"

\* A file is whole after a writeFile() that has resolved, if no other call ran beside
\* it: a write that is cut short is reported.
WrittenIsWhole ==
    \A c \in Calls :
        calls[c].op = "writeFile" /\ calls[c].pc = "resolved" /\ calls[c].undisturbed =>
            server[calls[c].name] = [kind |-> "file", blocks |-> Blocks]

\* Every disconnect() returns, even if the server never closes the connection.
DisconnectReturns == \A e \in Ends : ends[e] = "waiting" ~> ends[e] = "resolved"
-----------------------------------------------------------------------------
\* The type of '-rw-r--r--' is 'file'.
FilesAreFiles ==
    \A c \in Calls, n \in Names :
        calls[c].op = "readDirectory" /\ calls[c].undisturbed /\ calls[c].pc = "resolved" =>
            (server[n].kind = "file" => calls[c].types[n] = "file")
=============================================================================
