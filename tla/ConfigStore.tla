----------------------------- MODULE ConfigStore -----------------------------
(***************************************************************************)
(* The configurations of core/ConnectionManager.ts: the map in memory, the *)
(* file they are saved to, the passwords in the editor's secret storage,   *)
(* and the calls that change them, each split at its awaits.               *)
(*                                                                         *)
(* Files are inodes under two names, so that a writer that has opened the  *)
(* temporary file goes on writing into it after another call has renamed   *)
(* it.  A password is only known to be there or not.  What the file is     *)
(* about is abstracted to the mounted paths and their labels.              *)
(***************************************************************************)
EXTENDS Integers, FiniteSets

CONSTANTS
    Ids,            \* connection ids
    Mounts,         \* the mounted paths a connection may have
    Labels,         \* labels of mounted paths
    Calls,          \* bound: calls that run at a time
    Inodes,         \* bound: files that exist at a time
    MaxCrashes,     \* bound: restarts of the editor
    Absent,         \* no such connection, no such file
    Torn            \* a file that is not the whole of what was written

VARIABLES
    mem,            \* ConnectionManager.connections
    disk,           \* the inodes of remote-fs.json and of its .tmp
    content,        \* what is in each inode
    secrets,        \* ids with a password in the secret storage
    calls,          \* the calls in progress
    acked,          \* the snapshot of the last save that reported success
    used, gone,     \* ids ever generated, and those whose removal has returned
    promised,       \* ids added or updated with a password by a call that returned
    crashes         \* restarts so far

storeVars == <<mem, disk, content, secrets, calls, acked, used, gone,
               promised, crashes>>

\* The label of each mounted path of a connection.
MountedPaths == UNION {[ms -> Labels] : ms \in SUBSET Mounts}

\* "typed" is a non-empty password; unset is JavaScript's undefined.
Passwords == {"unset", "empty", "typed"}
Config == [mounts : MountedPaths, password : Passwords]

\* What is saved: the whitelisted fields of each configuration.
Snapshots == [Ids -> MountedPaths \cup {Absent}]

ASSUME StoreAssumption ==
    /\ Absent \notin Labels \cup Inodes /\ Torn \notin Labels \cup Inodes
    /\ Absent \notin MountedPaths \cup Config /\ Torn \notin Snapshots

ASSUME BoundsAssumption == MaxCrashes \in Nat

Call == [pc : {"idle", "reading", "closing", "secret", "mkdir", "open", "write",
               "rename", "cleanup"},
         op : {"add", "update", "remove"},
         id : Ids \cup {Absent},
         mounts : MountedPaths,     \* what a sidebar command will write back
         password : Passwords,      \* what the call was given
         snap : Snapshots, inode : Inodes \cup {Absent}]

Nothing == [id \in Ids |-> Absent]

StoreTypeOK ==
    /\ mem \in [Ids -> Config \cup {Absent}]
    /\ disk \in [{"config", "tmp"} -> Inodes \cup {Absent}]
    /\ content \in [Inodes -> Snapshots \cup {Torn}]
    /\ secrets \subseteq Ids
    /\ calls \in [Calls -> Call]
    /\ acked \in Snapshots
    /\ used \subseteq Ids /\ gone \subseteq used /\ promised \subseteq used
    /\ crashes \in 0..MaxCrashes

IdleCall == [pc |-> "idle", op |-> "add", id |-> Absent, mounts |-> <<>>,
             password |-> "unset", snap |-> Nothing, inode |-> Absent]

\* The contents c of the inodes without those nobody refers to any more.
Kept(c, names, cs) ==
    [i \in Inodes |-> IF \/ \E n \in DOMAIN names : names[n] = i
                         \/ \E k \in DOMAIN cs : cs[k].inode = i
                      THEN c[i] ELSE Torn]

StoreInit ==
    /\ mem = Nothing
    /\ disk = [n \in {"config", "tmp"} |-> Absent]
    /\ content = [i \in Inodes |-> Torn]
    /\ secrets = {} /\ used = {} /\ gone = {} /\ promised = {}
    /\ calls = [c \in Calls |-> IdleCall]
    /\ acked = Nothing
    /\ crashes = 0
-----------------------------------------------------------------------------
Idle(c) == calls[c].pc = "idle"
Goto(c, pc) == calls' = [calls EXCEPT ![c].pc = pc]
Return(c) == calls' = [calls EXCEPT ![c] = IdleCall]

MemoryUnchanged == UNCHANGED mem
SecretsUnchanged == UNCHANGED <<secrets, used, gone, promised>>
DiskUnchanged == UNCHANGED <<disk, content, acked, crashes>>

\* addConnection() with a configuration of the dialog: a typed password is
\* stored before the file is saved.
AddConnection(c, id, conf) ==
    /\ Idle(c)
    /\ id \notin used
    /\ used' = used \cup {id}
    /\ mem' = [mem EXCEPT ![id] = conf]
    /\ calls' = [calls EXCEPT ![c] = [IdleCall EXCEPT
                    !.pc = IF conf.password = "typed" THEN "secret" ELSE "mkdir",
                    !.op = "add", !.id = id, !.password = conf.password]]
    /\ UNCHANGED <<secrets, gone, promised>>
    /\ DiskUnchanged

\* Mutation of ChangesSecret: no password given means that it is deleted.
ChangesSecretAlways(conf) == TRUE

ChangesSecret(conf) == conf.password # "unset"

\* Mutation of Update: it does not look whether the id is still there.
UpdateUpserts(c, id, conf) ==
    /\ mem' = [mem EXCEPT ![id] = conf]
    /\ promised' = IF conf.password = "empty" THEN promised \ {id} ELSE promised
    /\ calls' = [calls EXCEPT ![c] = [IdleCall EXCEPT
                    !.pc = IF ChangesSecret(conf) THEN "secret" ELSE "mkdir",
                    !.op = "update", !.id = id, !.password = conf.password]]

\* updateConnection(), once the caller has its configuration: it throws for an
\* id that is gone.
Update(c, id, conf) ==
    IF mem[id] = Absent
    THEN /\ Return(c)
         /\ UNCHANGED <<mem, promised>>
    ELSE /\ mem' = [mem EXCEPT ![id] = conf]
         /\ promised' = IF conf.password = "empty" THEN promised \ {id} ELSE promised
         /\ calls' = [calls EXCEPT ![c] = [IdleCall EXCEPT
                        !.pc = IF ChangesSecret(conf) THEN "secret" ELSE "mkdir",
                        !.op = "update", !.id = id, !.password = conf.password]]

UpdateConnection(c, id, conf) ==
    /\ Idle(c)
    /\ Update(c, id, conf)
    /\ UNCHANGED <<secrets, used, gone>>
    /\ DiskUnchanged

\* A sidebar command that changes the mounted paths: getConnection() takes the
\* configuration, then awaits its secrets.
BeginSidebarEdit(c, id, mounts) ==
    /\ Idle(c)
    /\ mem[id] # Absent
    /\ calls' = [calls EXCEPT ![c] = [IdleCall EXCEPT
                    !.pc = "reading", !.op = "update", !.id = id,
                    !.mounts = mounts]]
    /\ MemoryUnchanged /\ SecretsUnchanged /\ DiskUnchanged

\* The secrets are there: everything that was read is written back, the
\* password included.
SidebarEdit(c) ==
    LET k == calls[c]
        read == [mounts |-> k.mounts,
                 password |-> IF k.id \in secrets THEN "typed" ELSE "unset"]
    IN
    /\ k.pc = "reading"
    /\ Update(c, k.id, read)
    /\ UNCHANGED <<secrets, used, gone>>
    /\ DiskUnchanged

\* removeConnection(): a connection that is up is closed first, which takes up
\* to 10 s; then the maps are cleared.
RemoveConnection(c, id) ==
    /\ Idle(c)
    /\ calls' = [calls EXCEPT ![c] = [IdleCall EXCEPT
                    !.pc = "closing", !.op = "remove", !.id = id]]
    /\ MemoryUnchanged /\ SecretsUnchanged /\ DiskUnchanged

Closed(c) ==
    /\ calls[c].pc = "closing"
    /\ mem' = [mem EXCEPT ![calls[c].id] = Absent]
    /\ promised' = promised \ {calls[c].id}
    /\ Goto(c, "secret")
    /\ UNCHANGED <<secrets, used, gone>>
    /\ DiskUnchanged

\* storeCredential() or deleteCredential() ends.  (A second credential, the
\* agent's token, is never set by a dialog.)
SecretDone(c) ==
    LET k == calls[c] IN
    /\ k.pc = "secret"
    /\ secrets' = IF k.op # "remove" /\ k.password = "typed"
                  THEN secrets \cup {k.id} ELSE secrets \ {k.id}
    /\ Goto(c, "mkdir")
    /\ MemoryUnchanged /\ DiskUnchanged
    /\ UNCHANGED <<used, gone, promised>>

\* The secret storage, getConnection() or mkdir() rejects: the call ends, and
\* what it has changed in memory stays changed.
CallRejects(c) ==
    /\ calls[c].pc \in {"reading", "secret", "mkdir"}
    /\ Return(c)
    /\ MemoryUnchanged /\ SecretsUnchanged /\ DiskUnchanged
-----------------------------------------------------------------------------
(* saveConfiguration()                                                     *)

Snapshot == [id \in Ids |-> IF mem[id] = Absent THEN Absent ELSE mem[id].mounts]

\* The directory is there: the snapshot is taken and the file is opened.
TakeSnapshot(c) ==
    /\ calls[c].pc = "mkdir"
    /\ calls' = [calls EXCEPT ![c].pc = "open", ![c].snap = Snapshot]
    /\ MemoryUnchanged /\ SecretsUnchanged /\ DiskUnchanged

\* Inodes that no name and no writer refers to.
FreeInodes == {i \in Inodes : /\ \A n \in DOMAIN disk : disk[n] # i
                              /\ \A c \in Calls : calls[c].inode # i}

\* open(path, "w"): a file of that name is truncated, or one is created.
Open(c, name) ==
    /\ calls[c].pc = "open"
    /\ \E i \in IF disk[name] # Absent THEN {disk[name]} ELSE FreeInodes :
          /\ disk' = [disk EXCEPT ![name] = i]
          /\ content' = [content EXCEPT ![i] = Torn]
          /\ calls' = [calls EXCEPT ![c].pc = "write", ![c].inode = i]
    /\ MemoryUnchanged /\ SecretsUnchanged
    /\ UNCHANGED <<acked, crashes>>

\* Mutation of OpenTmp: the file is written in place.
OpenInPlace(c) == Open(c, "config")

OpenTmp(c) == Open(c, "tmp")

WriteTmp(c) ==
    /\ calls[c].pc = "write"
    /\ content' = [content EXCEPT ![calls[c].inode] = calls[c].snap]
    /\ calls' = [calls EXCEPT ![c].pc = "rename", ![c].inode = Absent]
    /\ MemoryUnchanged /\ SecretsUnchanged
    /\ UNCHANGED <<disk, acked, crashes>>

\* The file cannot be opened, or not be written to its end.
SaveFails(c) ==
    /\ calls[c].pc \in {"open", "write"}
    /\ calls' = [calls EXCEPT ![c].pc = "cleanup", ![c].inode = Absent]
    /\ MemoryUnchanged /\ SecretsUnchanged /\ DiskUnchanged

\* The rename, after which the call returns; another call may have renamed the
\* file already.
RenameTmp(c) ==
    LET k == calls[c] IN
    /\ k.pc = "rename"
    /\ IF disk["tmp"] = Absent
       THEN /\ Goto(c, "cleanup")
            /\ SecretsUnchanged /\ DiskUnchanged
       ELSE /\ disk' = [disk EXCEPT !["config"] = disk["tmp"], !["tmp"] = Absent]
            /\ acked' = k.snap
            /\ gone' = IF k.op = "remove" THEN gone \cup {k.id} ELSE gone
            /\ promised' = IF k.op # "remove" /\ k.password = "typed"
                           THEN promised \cup {k.id} ELSE promised
            /\ Return(c)
            /\ content' = Kept(content, disk', calls)
            /\ UNCHANGED <<secrets, used, crashes>>
    /\ MemoryUnchanged

\* The rest of a save that failed: the temporary file is unlinked, whoever's it
\* is, and the call throws.
CleanUp(c) ==
    /\ calls[c].pc = "cleanup"
    /\ disk' = [disk EXCEPT !["tmp"] = Absent]
    /\ Return(c)
    /\ content' = Kept(content, disk', calls)
    /\ MemoryUnchanged /\ SecretsUnchanged
    /\ UNCHANGED <<acked, crashes>>

\* loadConfigurations() of the next start: a file that cannot be parsed counts
\* as none.
Loaded ==
    IF disk["config"] # Absent /\ content[disk["config"]] # Torn
    THEN content[disk["config"]] ELSE Nothing

\* The editor is killed and started again.  (What a temporary file that stays
\* behind contains does not matter: it will be truncated.)
Restart ==
    /\ crashes < MaxCrashes
    /\ crashes' = crashes + 1
    /\ mem' = [id \in Ids |->
                 IF Loaded[id] = Absent THEN Absent
                 ELSE [mounts |-> Loaded[id], password |-> "unset"]]
    /\ acked' = Loaded
    /\ calls' = [c \in Calls |-> IdleCall]
    /\ content' = Kept(content, [disk EXCEPT !["tmp"] = Absent], calls')
    /\ UNCHANGED <<disk, secrets, used, gone, promised>>

CallStep(c) ==
    \/ SidebarEdit(c) \/ Closed(c) \/ SecretDone(c)
    \/ CallRejects(c) \/ TakeSnapshot(c) \/ OpenTmp(c) \/ WriteTmp(c)
    \/ SaveFails(c) \/ RenameTmp(c) \/ CleanUp(c)
-----------------------------------------------------------------------------
\* What is in the file of configurations.
OnDisk == IF disk["config"] = Absent THEN Nothing ELSE content[disk["config"]]

\* "Uses atomic write: write to .tmp first, then rename": whatever fails and
\* whenever the editor is killed, the file holds exactly what the last
\* successful save has written.
FileIsWhole == OnDisk = acked

\* A connection whose removal has returned never comes back.
RemovedStaysRemoved ==
    \A id \in gone : mem[id] = Absent /\ (OnDisk # Torn => OnDisk[id] = Absent)

\* A connection that was saved with its password keeps both, over every later
\* change and restart, until it is removed or the password is deleted.
PromisedIsKept ==
    \A id \in promised : id \in secrets /\ (OnDisk # Torn => OnDisk[id] # Absent)
=============================================================================
