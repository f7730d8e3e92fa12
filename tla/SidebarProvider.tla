--------------------------- MODULE SidebarProvider ---------------------------
(***************************************************************************)
(* providers/SidebarProvider.ts over an adapter, with the commands of the  *)
(* menu (commands/commandRegistry.ts) and the operations of the file       *)
(* system provider that change directories.  The tree keeps the listings   *)
(* it gets from the adapter for DIR_CACHE_TTL; an FTP adapter keeps its    *)
(* own beneath.  An SSH or agent adapter keeps none and runs its calls     *)
(* side by side.                                                           *)
(*                                                                         *)
(* A call is the expansion of a directory, a command or an operation of    *)
(* the provider.  What the tree shows is not state: it is the listing kept *)
(* or the one that arrives.                                                *)
(***************************************************************************)
EXTENDS FTPAdapter

CONSTANTS
    Kinds,          \* the adapters there may be, out of {"ftp", "ssh"}
    Ops             \* the operations that are started

ASSUME OpsAssumption ==
    /\ Kinds \subseteq {"ftp", "ssh"}
    /\ Ops \subseteq {"list", "download", "create", "deleteFile", "renameFile",
                      "mkdir", "delete", "rename"}

VARIABLES
    kindOfAdapter,
    dirCache,       \* SidebarProvider.dirCache
    calls

vars == <<ftpVars, kindOfAdapter, dirCache, calls>>

\* Commands of the menu that refresh the tree; "create" is newFile or newFolder.  "list"
\* is readDirectory(), stat() or a poll of watch(); "mkdir", "delete" and "rename" are
\* the provider's.
Commands == {"create", "deleteFile", "renameFile"}

\* A call waits for the user, for the server to list or change something, or for
\* the answer.  dir is the path it lists or the parent of what it changes, to is the
\* parent of the new name.
Call == [op : {"none", "expand", "list", "download", "mkdir", "delete", "rename"}
              \cup Commands,
         dir : Dirs \cup {None}, to : Dirs \cup {None},
         pc : {"idle", "input", "listing", "listed", "changing", "changed"},
         trip : 0..MaxTrip, seen : Ages, lacks : SUBSET Marks]

\* The session, the listings kept on both levels and the running calls.
TypeOK ==
    /\ FtpTypeOK
    /\ kindOfAdapter \in Kinds
    /\ dirCache \in [Dirs -> Listing \cup {None}]
    /\ calls \in [Calls -> Call]

Idle == [op |-> "none", dir |-> None, to |-> None, pc |-> "idle", trip |-> 0,
         seen |-> 0, lacks |-> {}]

Init ==
    /\ FtpInit
    /\ kindOfAdapter \in Kinds
    /\ dirCache = Empty
    /\ calls = [c \in Calls |-> Idle]

Ftp == kindOfAdapter = "ftp"

Renames(op) == op \in {"renameFile", "rename"}

\* The parents of what a call changes.
Parents(call) ==
    CASE call.op = "download" -> {}
      [] Renames(call.op) -> {call.dir, call.to}
      [] OTHER -> {call.dir}

\* The other paths whose listings it makes out of date.
Others(call) == IF call.op = "download" THEN {} ELSE Dirs \ Parents(call)

InFlight == {c \in Calls : calls[c].pc \notin {"idle", "input"}}

\* What calls become when those in aborted reject.
Aborted(aborted) == [c \in Calls |-> IF c \in aborted THEN Idle ELSE
    [calls[c] EXCEPT !.lacks = @ \ aborted]]

ForgetCalls(cache, aborted) == [d \in Dirs |->
    IF cache[d] = None THEN None ELSE [cache[d] EXCEPT !.lacks = @ \ aborted]]
-----------------------------------------------------------------------------
(* The session.  A statusChange event makes the constructor's listener     *)
(* refresh the tree.                                                       *)

Open ==
    /\ IF Ftp THEN Connect \/ Confirm \/ Access
       ELSE client = "none" /\ client' = "open" /\ connected' = TRUE
            /\ UNCHANGED <<task, dirListCache>>
    /\ dirCache' = IF connected' # connected THEN Empty ELSE dirCache
    /\ UNCHANGED <<kindOfAdapter, calls>>

\* The calls that wait for the user go on with an adapter that is closed.
Leave ==
    /\ Disconnect
    /\ dirCache' = Empty
    /\ calls' = Aborted(Calls)
    /\ UNCHANGED kindOfAdapter

\* The session ends; the close event tells an SSH adapter, nothing tells an FTP
\* adapter.
Lose ==
    /\ IF Ftp THEN Close ELSE connected /\ connected' = FALSE
                              /\ UNCHANGED <<client, task, dirListCache>>
    /\ calls' = Aborted(InFlight)
    /\ dirCache' = ForgetCalls(dirCache, InFlight)
    /\ UNCHANGED kindOfAdapter

\* The adapter calls the library; on FTP the client may be closed, and the call
\* rejects, or busy, and both calls reject.
Send(c, call) ==
    \/ /\ IF Ftp THEN Launch(c) ELSE UNCHANGED ftpVars
       /\ calls' = [calls EXCEPT ![c] = call]
       /\ UNCHANGED dirCache
    \/ /\ Ftp /\ client = "closed"
       /\ calls' = [calls EXCEPT ![c] = Idle]
       /\ UNCHANGED <<ftpVars, dirCache>>
    \/ /\ Ftp
       /\ Collide
       /\ calls' = Aborted({c} \cup InFlight)
       /\ dirCache' = ForgetCalls(dirCache, InFlight)
-----------------------------------------------------------------------------
(* Listings                                                                *)

\* A listing that the tree takes over, with a time of its own.
Rows(seen, lacks) == [age |-> 0, seen |-> seen, lacks |-> lacks]

\* The adapter is asked for a listing it does not keep.
List(c, op, d) ==
    /\ calls[c] = Idle
    /\ IsConnected
    /\ ~(Ftp /\ Kept(d))
    /\ Send(c, [Idle EXCEPT !.op = op, !.dir = d, !.pc = "listing"])
    /\ UNCHANGED kindOfAdapter

\* getDirectoryChildren() shows a listing it keeps, and asks the adapter for others;
\* the FTP adapter may keep one.
Expand(c, d) ==
    /\ dirCache[d] = None
    /\ \/ List(c, "expand", d)
       \/ /\ calls[c] = Idle
          /\ IsConnected
          /\ Ftp /\ Kept(d)
          /\ dirCache' = [dirCache EXCEPT ![d] =
                            Rows(dirListCache[d].seen, dirListCache[d].lacks)]
          /\ UNCHANGED <<ftpVars, kindOfAdapter, calls>>

\* stat(), readDirectory() or a poll of watch() of the provider.
ReadDirectory(c, d) == "list" \in Ops /\ List(c, "list", d)

\* The listing arrives, or the call rejects; a delete() goes on in any case.
Arrive(c) ==
    LET call == calls[c]
        next == IF call.op \in {"expand", "list"} THEN None ELSE c IN
    /\ call.pc \in {"listing", "listed"}
    /\ IF ~Ftp THEN UNCHANGED ftpVars
       ELSE IF call.pc = "listed" THEN KeepList(call.dir, call.trip, call.seen,
                                                call.lacks, next)
       ELSE task' = next /\ UNCHANGED <<client, connected, dirListCache>>
    /\ dirCache' = IF call.op = "expand" /\ call.pc = "listed"
                   THEN [dirCache EXCEPT ![call.dir] = Rows(call.seen, call.lacks)]
                   ELSE dirCache
    /\ calls' = [calls EXCEPT ![c] = IF next = None THEN Idle ELSE
                    [Idle EXCEPT !.op = call.op, !.dir = call.dir, !.pc = "changing"]]
    /\ UNCHANGED kindOfAdapter

\* The refresh button, and the refresh of one directory.
Refresh(dirs) ==
    /\ dirCache' = Without(dirCache, dirs)
    /\ UNCHANGED <<ftpVars, kindOfAdapter, calls>>
-----------------------------------------------------------------------------
(* Changes                                                                 *)

\* A command takes the adapter and asks for a name or a confirmation first.
Begin(c, op, d, to) ==
    /\ calls[c] = Idle
    /\ op \in Ops
    /\ IsConnected
    /\ calls' = [calls EXCEPT ![c] = [Idle EXCEPT !.op = op, !.dir = d, !.to = to,
                                                  !.pc = "input"]]
    /\ UNCHANGED <<ftpVars, kindOfAdapter, dirCache>>

Cancel(c) ==
    /\ calls[c].pc = "input"
    /\ calls' = [calls EXCEPT ![c] = Idle]
    /\ UNCHANGED <<ftpVars, kindOfAdapter, dirCache>>

\* ensureClient() or ensureConnected(), and the call of the library.  delete() of
\* the FTP adapter looks the entry up in the listing of its parent first.
Submit(c) ==
    LET call == calls[c]
        looksUp == Ftp /\ call.op \in {"deleteFile", "delete"} /\ ~Kept(call.dir) IN
    /\ call.pc = "input"
    /\ IsConnected
    /\ Send(c, [call EXCEPT !.pc = IF looksUp THEN "listing" ELSE "changing"])
    /\ UNCHANGED kindOfAdapter

\* The server lists the directory or makes the change.  The listings lack it on FTP:
\* an SSH or agent adapter keeps none, and a late answer may bring any back.
Serve(c) ==
    LET call == calls[c]
        parents == IF Ftp THEN Parents(call) ELSE {}
    IN
    /\ \/ /\ call.pc = "listing"
          /\ calls' = [calls EXCEPT ![c].pc = "listed"]
          /\ UNCHANGED <<dirListCache, dirCache>>
       \/ /\ call.pc = "changing"
          /\ \E others \in SUBSET (IF Ftp THEN Others(call) ELSE {}) :
                /\ calls' = [b \in Calls |->
                     IF b = c THEN [call EXCEPT !.pc = "changed"]
                     ELSE IF calls[b].pc = "listed"
                     THEN [calls[b] EXCEPT !.lacks =
                                @ \cup Lacking(calls[b].dir, parents, others, c)]
                     ELSE calls[b]]
                /\ dirListCache' = Changed(dirListCache, parents, others, c)
                /\ dirCache' = Changed(dirCache, parents, others, c)
    /\ UNCHANGED <<client, connected, task, kindOfAdapter>>

\* Mutation of Refreshed: the parent of the path only.
RefreshedParent(call) == {call.dir}

\* What a command refreshes when its call returns; the provider refreshes nothing.
Refreshed(call) == IF call.op \in Commands THEN Dirs ELSE {}

\* The call returns or rejects.
Return(c, ok) ==
    LET call == calls[c]
        told == IF ~ok THEN {} ELSE IF call.op \in Commands THEN {"menu"} ELSE {"provider"}
    IN
    /\ call.pc \in {"changing", "changed"}
    /\ ok => call.pc = "changed"
    /\ IF Ftp THEN EndChange(c, Parents(call), call.dir, told) ELSE UNCHANGED ftpVars
    /\ dirCache' = Confirmed(IF ok THEN Without(dirCache, Refreshed(call)) ELSE dirCache,
                             c, told)
    /\ calls' = [b \in Calls |-> IF b = c THEN Idle
                 ELSE [calls[b] EXCEPT !.lacks = Returned(@, c, told)]]
    /\ UNCHANGED kindOfAdapter

\* Time passes: no call takes longer than MaxTrip.
Tick ==
    /\ \A c \in InFlight : calls[c].trip < MaxTrip
    /\ dirListCache' = Aged(dirListCache)
    /\ dirCache' = Aged(dirCache)
    /\ calls' = [c \in Calls |->
        IF c \notin InFlight THEN calls[c]
        ELSE [calls[c] EXCEPT !.trip = @ + 1,
                              !.seen = IF calls[c].pc = "listed" THEN @ + 1 ELSE 0]]
    /\ UNCHANGED <<client, connected, task, kindOfAdapter>>

\* The commands of the menu.
Download(c, d) == Begin(c, "download", d, d)
Create(c, d) == Begin(c, "create", d, d)
DeleteFile(c, d) == Begin(c, "deleteFile", d, d)
RenameFile(c, d, to) == Begin(c, "renameFile", d, to)

\* The operations of the provider, which wait for a slot of the controller.
CreateDirectory(c, d) == Begin(c, "mkdir", d, d)
DeleteEntry(c, d) == Begin(c, "delete", d, d)
RenameEntry(c, d, to) == Begin(c, "rename", d, to)

Step(c) ==
    \/ \E d \in Dirs :
        \/ Expand(c, d) \/ ReadDirectory(c, d) \/ Download(c, d)
        \/ Create(c, d) \/ DeleteFile(c, d)
        \/ CreateDirectory(c, d) \/ DeleteEntry(c, d)
        \/ \E to \in Dirs : RenameFile(c, d, to) \/ RenameEntry(c, d, to)
    \/ Cancel(c) \/ Submit(c) \/ Serve(c) \/ Arrive(c)
    \/ \E ok \in BOOLEAN : Return(c, ok)

Next ==
    \/ Open \/ Leave \/ Lose \/ Tick
    \/ \E c \in Calls : Step(c)
    \/ \E dirs \in {Dirs} \cup {{d} : d \in Dirs} : Refresh(dirs)

Spec == Init /\ [][Next]_vars
-----------------------------------------------------------------------------
\* A listing the tree still shows is at most one lifetime of the tree's cache and
\* one of the adapter's, or one call, behind the server: the two caches on top of
\* each other do not keep each other alive.
ListingIsRecent ==
    \A d \in Dirs : dirCache[d] # None =>
        \/ dirCache[d].seen - dirCache[d].age <= MaxTrip
        \/ dirCache[d].seen - dirCache[d].age < Ttl

\* On FTP the tree never lacks what the user has made, removed or renamed with the
\* menu in the directory it shows: no late answer brings a listing back that the
\* adapter or the tree has forgotten, and both ends of a rename are forgotten on both
\* levels.  The directory is the one that the path of the entry names.  Under its
\* other paths, such as a mounted path that ends in a slash, and under a directory
\* that is removed itself, the adapter forgets nothing, and the tree may lack the
\* change for as long as ListingIsRecent allows.
TreeHasMenuChanges ==
    Ftp => \A d \in Dirs : dirCache[d] # None => "menu" \notin dirCache[d].lacks

\* The same of the listings the FTP adapter keeps, for all who change directories:
\* what is kept under the parent of a change has it.
KeptListHasOwnChanges ==
    \A d \in Dirs : dirListCache[d] # None =>
        dirListCache[d].lacks \cap {"menu", "provider"} = {}
=============================================================================
