---------------------------- MODULE RemoteFiles ----------------------------
(***************************************************************************)
(* providers/RemoteFSProvider.ts and commands/syncCommands.ts over the     *)
(* local cache: files are read from the cache first, saved to the cache    *)
(* only, and moved between cache and server by the two sync commands.      *)
(*                                                                         *)
(* A call is one operation of the provider or one command.  Each action    *)
(* runs from one await of the call to the next.  The server, the other     *)
(* people who use it, the user's text and the editor's restarts are the    *)
(* environment.  Directory listings and stat() keep no state and are left  *)
(* out, as is the queue of the concurrency controller, which only delays   *)
(* an adapter's call.                                                      *)
(***************************************************************************)
EXTENDS LocalCacheManager

CONSTANTS
    Calls,          \* bound: operations that run at a time
    Ops,            \* the operations that are started, "other" by somebody else
    Overlap,        \* whether two calls may concern the same file
    Faults,         \* whether the disk may be full and the editor may crash
    MaxCounter      \* bound: no operation starts over this size counter

ASSUME OpsAssumption ==
    /\ Ops \subseteq {"read", "save", "pull", "push", "delete", "rename", "other"}
    /\ {Overlap, Faults} \subseteq BOOLEAN

VARIABLES
    remote,         \* the files on the server
    dirty,          \* a visible editor of the file holds text not saved
    calls,          \* the operations that run
    saved,          \* history: what the user saved last and has not uploaded,
                    \* replaced or deleted, and the cache has not pruned
    cutShort        \* history: a write to the cache has been cut short

vars == <<data, sidecar, made, age, counter, remote, dirty, calls, saved, cutShort>>

\* "begin" to "digest" are the stages of writeCache(), "stat" to "unlinkSidecar"
\* those of deleteCache(); the others belong to one operation each.
Stages == {"idle", "lookup", "download", "begin", "list", "prune", "truncate", "fill",
           "digest", "exists", "compare", "fetch", "upload", "remove", "stat", "unlink",
           "unlinkSidecar", "move", "probe", "copy"}

\* "presavePull" and "presavePush" are commands that save the open document first,
\* "refresh" is the save that ends a pull whose file is open in an editor.
CallOps == {"none", "read", "save", "pull", "push", "delete", "rename",
            "presavePull", "presavePush", "refresh"}

Targets == Files \cup {Dir}

Call == [op : CallOps, file : Targets, to : Targets,
         content : Contents \cup {Torn, Absent}, pc : Stages,
         plan : Seq([entry : Entries, size : Nat]), toFree : Int]

\* The cache and its counter, the server, the editors and the running calls.
TypeOK ==
    /\ CacheTypeOK
    /\ remote \in [Files -> Contents \cup {Torn, Absent}]
    /\ dirty \in [Files -> BOOLEAN]
    /\ calls \in [Calls -> Call]
    /\ saved \in [Files -> Contents \cup {Absent}]
    /\ cutShort \in BOOLEAN

Idle == [op |-> "none", file |-> Dir, to |-> Dir, content |-> Absent, pc |-> "idle",
         plan |-> <<>>, toFree |-> 0]

Init ==
    /\ CacheInit
    /\ remote \in [Files -> Contents \cup {Absent}]
    /\ dirty = [f \in Files |-> FALSE]
    /\ calls = [c \in Calls |-> Idle]
    /\ saved = [f \in Files |-> Absent]
    /\ cutShort = FALSE

Under(target) == IF target = Dir THEN Inside ELSE {target}

\* The files a call concerns, and those a writeCache() of it writes.
Concerns(call) == Under(call.file) \cup Under(call.to)
Writes(call) == IF call.op = "rename" THEN call.to ELSE call.file

Running == {c \in Calls : calls[c].pc # "idle"}

Go(c, stage) == calls' = [calls EXCEPT ![c].pc = stage]
Carry(c, stage, content) ==
    calls' = [calls EXCEPT ![c].pc = stage, ![c].content = content]
Return(c) == calls' = [calls EXCEPT ![c] = Idle]

At(c, stage) == calls[c].pc = stage

Kept == UNCHANGED <<remote, dirty, saved>>
-----------------------------------------------------------------------------
(* The start of an operation.                                              *)

Started(c, op, file, to, content, stage) ==
    LET call == [Idle EXCEPT !.op = op, !.file = file, !.to = to, !.content = content,
                             !.pc = stage] IN
    /\ calls[c] = Idle
    /\ counter <= MaxCounter
    /\ Overlap \/ \A d \in Running : Concerns(calls[d]) \cap Concerns(call) = {}
    /\ calls' = [calls EXCEPT ![c] = call]
    /\ UNCHANGED cacheVars

\* readFile() of the provider.
Read(c, f) ==
    /\ "read" \in Ops
    /\ Started(c, "read", f, f, Absent, "lookup")
    /\ Kept

\* The user edits the text in an editor.
Type(f) ==
    /\ "save" \in Ops
    /\ ~dirty[f]
    /\ dirty' = [dirty EXCEPT ![f] = TRUE]
    /\ UNCHANGED <<data, sidecar, made, age, counter, remote, calls, saved>>

\* writeFile() of the provider, with the text the editor holds.
Save(c, f, text) ==
    /\ "save" \in Ops
    /\ dirty[f]
    /\ Started(c, "save", f, f, text, "begin")
    /\ dirty' = [dirty EXCEPT ![f] = FALSE]
    /\ UNCHANGED <<remote, saved>>

\* syncFromRemote() and syncToRemote(): text that is not saved is saved first, or
\* the command is cancelled.
Sync(c, f, op, stage) ==
    /\ op \in Ops
    /\ \/ ~dirty[f] /\ Started(c, op, f, f, Absent, stage) /\ UNCHANGED dirty
       \/ /\ dirty[f]
          /\ \E text \in Contents :
                Started(c, IF op = "pull" THEN "presavePull" ELSE "presavePush",
                        f, f, text, "begin")
          /\ dirty' = [dirty EXCEPT ![f] = FALSE]
    /\ UNCHANGED <<remote, saved>>

\* The commands of the menu, the editor's title and the status bar, of which each
\* calls its method of the connection's sync handler.
SyncCurrentFile(c, f) == Sync(c, f, "pull", "download")
UploadCurrentFile(c, f) == Sync(c, f, "push", "exists")

\* delete() and rename() of the provider.  The user gives up what was saved.
Delete(c, target) ==
    /\ "delete" \in Ops
    /\ Started(c, "delete", target, target, Absent, "remove")
    /\ saved' = [f \in Files |-> IF f \in Under(target) THEN Absent ELSE saved[f]]
    /\ UNCHANGED <<remote, dirty>>

Rename(c, f, to) ==
    /\ "rename" \in Ops
    /\ f # to \/ f = Dir
    /\ Started(c, "rename", f, to, Absent, "move")
    /\ saved' = [g \in Files |-> IF g \in Under(f) /\ f = Dir THEN Absent ELSE saved[g]]
    /\ UNCHANGED <<remote, dirty>>
-----------------------------------------------------------------------------
(* readFile()                                                              *)

\* A cached file is returned, whatever it holds.
Lookup(c) ==
    /\ At(c, "lookup")
    /\ IF Cached(calls[c].file) THEN Return(c) ELSE Go(c, "download")
    /\ Kept /\ UNCHANGED cacheVars

\* The adapter's readFile().  A read then goes on to the cache unless the file is
\* too large or the user cancels, a pull to the comparison.
Download(c) ==
    LET f == calls[c].file IN
    /\ At(c, "download")
    /\ \/ Return(c)
       \/ /\ remote[f] # Absent
          /\ Carry(c, IF calls[c].op = "read" THEN "begin" ELSE "exists", remote[f])
    /\ UNCHANGED <<remote, dirty, saved>> /\ UNCHANGED cacheVars
-----------------------------------------------------------------------------
(* writeCache()                                                            *)

Begin(c) ==
    /\ At(c, "begin")
    /\ IF PruneIsDue
       THEN calls' = [calls EXCEPT ![c].pc = "list", ![c].toFree = counter - MaxSize]
       ELSE Go(c, "truncate")
    /\ Kept /\ UNCHANGED cacheVars

List(c) ==
    /\ At(c, "list")
    /\ calls' = [calls EXCEPT ![c].pc = "prune", ![c].plan = Listed]
    /\ Kept /\ UNCHANGED cacheVars

Prune(c) ==
    LET call == calls[c] IN
    /\ At(c, "prune")
    /\ IF call.toFree <= 0 \/ call.plan = <<>>
       THEN /\ calls' = [calls EXCEPT ![c].pc = "truncate", ![c].plan = <<>>,
                                      ![c].toFree = 0]
            /\ UNCHANGED cacheVars
       ELSE /\ Unlink(Head(call.plan))
            /\ calls' = [calls EXCEPT
                  ![c].plan = Tail(@),
                  ![c].toFree = IF Head(call.plan).entry \in ToSet(age)
                                THEN @ - Head(call.plan).size ELSE @]
    /\ saved' = [f \in Files |-> IF data'[f] # data[f] THEN Absent ELSE saved[f]]
    /\ UNCHANGED <<remote, dirty>>

\* The old content is gone from here on; the user who saves, or moves a file to
\* this name, gives it up.
Open(c) ==
    LET call == calls[c]  f == Writes(call) IN
    /\ At(c, "truncate")
    /\ Truncate(f)
    /\ Go(c, "fill")
    /\ saved' = IF call.op \in {"save", "presavePull", "presavePush", "rename"}
                THEN [saved EXCEPT ![f] = Absent] ELSE saved
    /\ UNCHANGED <<remote, dirty>>

Write(c) ==
    /\ At(c, "fill")
    /\ Fill(Writes(calls[c]), calls[c].content)
    /\ Go(c, "digest")
    /\ Kept

\* A sync command goes on after the open document is saved.
Resume(c) ==
    calls' = [calls EXCEPT
        ![c].op = IF calls[c].op = "presavePull" THEN "pull" ELSE "push",
        ![c].pc = IF calls[c].op = "presavePull" THEN "download" ELSE "exists"]

\* The disk is full: the call rejects, and the document stays unsaved.  save() of a
\* document does not reject: a sync command that saves first goes on.
WriteFails(c) ==
    LET call == calls[c] IN
    /\ Faults
    /\ At(c, "fill")
    /\ \/ call.op \notin {"presavePull", "presavePush"} /\ Return(c)
       \/ call.op \in {"presavePull", "presavePush"} /\ Resume(c)
    /\ dirty' = IF call.op \in {"save", "presavePull", "presavePush"}
                THEN [dirty EXCEPT ![call.file] = TRUE] ELSE dirty
    /\ cutShort' = TRUE
    /\ UNCHANGED <<remote, saved>> /\ UNCHANGED cacheVars

\* writeCache() returns, and the call that made it goes on.
Written(c) ==
    LET call == calls[c]  f == Writes(call) IN
    /\ At(c, "digest")
    /\ WriteLocalHash(f, call.content)
    /\ \/ call.op \in {"read", "save", "refresh"} /\ Return(c) /\ UNCHANGED dirty
       \/ call.op = "rename" /\ Go(c, "stat") /\ UNCHANGED dirty
       \/ call.op \in {"presavePull", "presavePush"} /\ Resume(c) /\ UNCHANGED dirty
       \/ call.op = "pull" /\ ~dirty[f] /\ Return(c) /\ UNCHANGED dirty
       \/ /\ call.op = "pull"       \* refreshEditor(): the file is visible
          /\ calls' = [calls EXCEPT ![c].op = "refresh", ![c].pc = "begin"]
          /\ dirty' = [dirty EXCEPT ![f] = FALSE]
    /\ LET kept(text) == IF Cached(f) THEN text ELSE Absent  \* or pruned already
       IN saved' = CASE call.op \in {"save", "presavePull", "presavePush"} ->
                          [saved EXCEPT ![f] = kept(call.content)]
                     [] call.op = "rename" ->
                          [saved EXCEPT ![f] = kept(saved[call.file]),
                                        ![call.file] = Absent]
                     [] OTHER -> saved
    /\ UNCHANGED remote
-----------------------------------------------------------------------------
(* The sync commands after the text is saved.                              *)

\* getCacheStat() of the cached file.
Exists(c) ==
    LET call == calls[c] IN
    /\ At(c, "exists")
    /\ IF call.op = "pull"
       THEN Go(c, IF Cached(call.file) THEN "compare" ELSE "begin")
       ELSE IF Cached(call.file) THEN Go(c, "fetch") ELSE Return(c)
    /\ Kept /\ UNCHANGED cacheVars

SaysUpToDate(c) == sidecar[calls[c].file] = calls[c].content

\* Mutation of Compare: a file that differs is replaced without a question.
CompareWithoutQuestion(c) ==
    /\ At(c, "compare")
    /\ IF SaysUpToDate(c) THEN Return(c) ELSE Go(c, "begin")
    /\ Kept /\ UNCHANGED cacheVars

\* The sidecar is compared with the digest of the download: the file is up to
\* date, or the user decides between the two.
Compare(c) ==
    LET f == calls[c].file IN
    /\ At(c, "compare")
    /\ \/ Return(c) /\ UNCHANGED saved
       \/ /\ ~SaysUpToDate(c)
          /\ Go(c, "begin")
          /\ saved' = [saved EXCEPT ![f] = Absent]
    /\ UNCHANGED <<remote, dirty>> /\ UNCHANGED cacheVars

\* readCache() of the file to upload.
Fetch(c) ==
    LET f == calls[c].file IN
    /\ At(c, "fetch")
    /\ IF Cached(f) THEN Carry(c, "upload", data[f]) ELSE Return(c)
    /\ Kept /\ UNCHANGED cacheVars

\* The adapter's writeFile() succeeds or rejects.
Upload(c) ==
    LET f == calls[c].file IN
    /\ At(c, "upload")
    /\ Return(c)
    /\ \/ /\ remote' = [remote EXCEPT ![f] = calls[c].content]
          /\ saved' = [saved EXCEPT ![f] = IF @ = calls[c].content THEN Absent ELSE @]
       \/ UNCHANGED <<remote, saved>>
    /\ UNCHANGED dirty /\ UNCHANGED cacheVars
-----------------------------------------------------------------------------
(* delete() and rename()                                                   *)

DeleteRemote(c) ==
    LET gone == Under(calls[c].file) IN
    /\ At(c, "remove")
    /\ \/ Return(c) /\ UNCHANGED remote
       \/ /\ remote' = [f \in Files |-> IF f \in gone THEN Absent ELSE remote[f]]
          /\ Go(c, "stat")
    /\ UNCHANGED <<dirty, saved>> /\ UNCHANGED cacheVars

Stat(c) ==
    /\ At(c, "stat")
    /\ StatForDelete(calls[c].file)
    /\ Go(c, "unlink")
    /\ Kept

UnlinkCached(c) ==
    LET f == calls[c].file IN
    /\ At(c, "unlink")
    /\ IF f # Dir /\ Cached(f)
       THEN UnlinkData(f) /\ Go(c, "unlinkSidecar")
       ELSE UNCHANGED cacheVars /\ Return(c)
    /\ Kept

UnlinkDigest(c) ==
    /\ At(c, "unlinkSidecar")
    /\ UnlinkSidecar(calls[c].file)
    /\ Return(c)
    /\ Kept

\* The adapter's rename(), of a file to a name that may be taken, or of the
\* directory to one that is not modelled.
Move(c) ==
    LET f == calls[c].file  to == calls[c].to IN
    /\ At(c, "move")
    /\ \/ Return(c) /\ UNCHANGED remote
       \/ /\ f # Dir /\ remote[f] # Absent
          /\ remote' = [remote EXCEPT ![to] = remote[f], ![f] = Absent]
          /\ Go(c, "probe")
       \/ /\ f = Dir
          /\ remote' = [g \in Files |-> IF g \in Inside THEN Absent ELSE remote[g]]
          /\ Go(c, "probe")
    /\ UNCHANGED <<dirty, saved>> /\ UNCHANGED cacheVars

Probe(c) ==
    /\ At(c, "probe")
    /\ IF Cached(calls[c].file) THEN Go(c, "copy") ELSE Return(c)
    /\ Kept /\ UNCHANGED cacheVars

\* readCache() of the old name; a directory cannot be read, and rename() rejects.
Copy(c) ==
    LET f == calls[c].file IN
    /\ At(c, "copy")
    /\ IF f # Dir /\ Cached(f) THEN Carry(c, "begin", data[f]) ELSE Return(c)
    /\ Kept /\ UNCHANGED cacheVars
-----------------------------------------------------------------------------
\* Somebody else changes a file on the server.
OtherWrites(f, content) ==
    /\ "other" \in Ops
    /\ remote[f] # content
    /\ remote' = [remote EXCEPT ![f] = content]
    /\ UNCHANGED <<data, sidecar, made, age, counter, dirty, calls, saved>>

\* The editor is killed and started again.
Restart ==
    /\ Faults
    /\ CacheRestart
    /\ calls' = [c \in Calls |-> Idle]
    /\ dirty' = [f \in Files |-> FALSE]
    /\ cutShort' = (cutShort \/ \E c \in Calls : calls[c].pc \in {"fill", "digest"})
    /\ UNCHANGED <<remote, saved>>

Start(c) ==
    \/ \E f \in Files :
        \/ Read(c, f) \/ SyncCurrentFile(c, f) \/ UploadCurrentFile(c, f)
        \/ \E text \in Contents : Save(c, f, text)
        \/ \E to \in Files : Rename(c, f, to)
    \/ \E target \in Targets : Delete(c, target)
    \/ Rename(c, Dir, Dir)

Step(c) ==
    \/ Lookup(c) \/ Download(c)
    \/ Begin(c) \/ List(c) \/ Prune(c) \/ Open(c) \/ Write(c) \/ Written(c)
    \/ Exists(c) \/ Compare(c) \/ Fetch(c) \/ Upload(c)
    \/ DeleteRemote(c) \/ Stat(c) \/ UnlinkCached(c) \/ UnlinkDigest(c)
    \/ Move(c) \/ Probe(c) \/ Copy(c)

Next ==
    \/ /\ \/ \E c \in Calls : Start(c) \/ Step(c)
          \/ \E f \in Files : Type(f) \/ \E content \in Contents : OtherWrites(f, content)
       /\ UNCHANGED cutShort
    \/ \E c \in Calls : WriteFails(c)
    \/ Restart

Spec == Init /\ [][Next]_vars
-----------------------------------------------------------------------------
\* A cached file with a sidecar is the file the sidecar was written for, once the
\* write is over, as long as no write is cut short: the digests say what is in the
\* cache.  Files are pruned and deleted in two steps, which a crash may separate, and
\* in the middle of writes of other files.
SidecarMatches ==
    ~cutShort => \A f \in Files :
        (\A c \in Running : f \notin Concerns(calls[c])) =>
            data[f] = Absent \/ sidecar[f] \in {Absent, data[f]}

\* "File is already up to date" is never said of a cached file that differs from
\* the download, as long as no write is cut short.
UpToDateIsTrue ==
    ~cutShort => \A c \in Calls :
        At(c, "compare") /\ SaysUpToDate(c) =>
            data[calls[c].file] \in {calls[c].content, Absent}

\* What the user has saved stays in the cache until it is uploaded, or the user
\* replaces or deletes it, whatever other calls, crashes and full disks do: the
\* limit of the cache is all that can lose it.
SavedIsKept == \A f \in Files : saved[f] # Absent => data[f] = saved[f]

\* Nothing that is newer is pruned before something older: as long as no other
\* call writes, what is left of the list is at least as new as what was removed.
PrunesOldestFirst ==
    \A c \in Calls :
        At(c, "prune") /\ Running = {c} =>
            age = [i \in 1..Len(calls[c].plan) |-> calls[c].plan[i].entry]
-----------------------------------------------------------------------------
(* What a comment says and the code does not keep.                         *)

\* "Check for unsaved changes": a pull never discards text that is not saved.
UnsavedTextIsKept ==
    [][\A c \in Calls :
        calls[c].op = "pull" /\ calls'[c].op = "refresh" => ~dirty[calls[c].file]]_vars
=============================================================================
