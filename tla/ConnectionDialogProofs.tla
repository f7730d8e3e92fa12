----------------------- MODULE ConnectionDialogProofs -----------------------
(***************************************************************************)
(* The stored configurations, as long as no two calls change them at a     *)
(* time: for any number of connections, calls, inodes and restarts the     *)
(* file is whole, removed connections stay removed, and what was saved     *)
(* with its password is kept.                                              *)
(***************************************************************************)
EXTENDS ConnectionDialog, TLAPS

\* One call runs at a time.  The code does not see to it: two saves that overlap
\* share the temporary file.
Serial == \A c, d \in Calls : ~Idle(c) /\ ~Idle(d) => c = d

\* The two names are never one file.
NamesDiffer == disk["config"] # Absent => disk["config"] # disk["tmp"]

\* The stages after the configuration in memory is changed, and those of a save
\* that has taken its snapshot.
Changing == {"secret", "mkdir", "open", "write", "rename"}
Saving == {"open", "write", "rename"}

\* The call writes to the temporary file, and nobody else has it open.
WriterInv(k) ==
    /\ IF k.pc = "write" THEN k.inode = disk["tmp"] /\ k.inode # Absent
       ELSE k.inode = Absent
    /\ k.pc = "rename" => disk["tmp"] # Absent /\ content[disk["tmp"]] = k.snap

\* Memory is as the call has left it, and the snapshot has the connections that are
\* in memory.
MemoryInv(k) ==
    /\ k.pc \in Changing \cup {"reading", "closing"} => k.id \in used
    /\ k.pc = "closing" => k.op = "remove"
    /\ k.pc \in Changing => (mem[k.id] = Absent <=> k.op = "remove")
    /\ k.pc \in Saving => \A id \in Ids : k.snap[id] = Absent <=> mem[id] = Absent

\* A password is stored before the file is saved, and no longer promised when it is
\* deleted.
PasswordInv(k) ==
    LET stores == k.op # "remove" /\ k.password = "typed" IN
    /\ k.pc \in Changing \ {"secret"} /\ stores => k.id \in secrets
    /\ k.pc = "secret" /\ ~stores => k.id \notin promised

CallsInv == \A c \in Calls :
    WriterInv(calls[c]) /\ MemoryInv(calls[c]) /\ PasswordInv(calls[c])

\* What is promised is in memory, in the file and in the secret storage; what is gone
\* is in none of the first two.
StoredInv ==
    /\ \A id \in gone : mem[id] = Absent /\ acked[id] = Absent
    /\ \A id \in promised : mem[id] # Absent /\ acked[id] # Absent /\ id \in secrets

\* An id that is in memory, in the file or in a dialog was generated once.
UsedInv ==
    /\ \A id \in Ids : mem[id] # Absent \/ acked[id] # Absent => id \in used
    /\ dialog # NoDialog => dialog.id \in used

IInv == TypeOK /\ NamesDiffer /\ CallsInv /\ StoredInv /\ UsedInv /\ FileIsWhole
-----------------------------------------------------------------------------
(* The sets of mounted paths and calls                                     *)

LEMMA MountedPathsHas ==
    ASSUME NEW D \in SUBSET Mounts, NEW f \in [D -> Labels]
    PROVE  f \in MountedPaths
  BY DEF MountedPaths

LEMMA MountedPathsShape ==
    ASSUME NEW ms \in MountedPaths
    PROVE  /\ DOMAIN ms \in SUBSET Mounts
           /\ ms \in [DOMAIN ms -> Labels]
<1>1. PICK D \in SUBSET Mounts : ms \in [D -> Labels]
  BY DEF MountedPaths
<1> QED
  BY <1>1

LEMMA EmptyIsMountedPaths == <<>> \in MountedPaths
<1>1. <<>> \in [{} -> Labels]
  OBVIOUS
<1> QED
  BY <1>1, MountedPathsHas

LEMMA WithIsMountedPaths ==
    ASSUME NEW ms \in MountedPaths, NEW m \in Mounts, NEW l \in Labels
    PROVE  With(ms, m, l) \in MountedPaths
<1>1. With(ms, m, l) \in [DOMAIN ms \cup {m} -> Labels]
  BY MountedPathsShape DEF With
<1> QED
  BY <1>1, MountedPathsHas, MountedPathsShape

LEMMA WithoutIsMountedPaths ==
    ASSUME NEW ms \in MountedPaths, NEW m \in Mounts
    PROVE  Without(ms, m) \in MountedPaths
<1>1. Without(ms, m) \in [DOMAIN ms \ {m} -> Labels]
  BY MountedPathsShape DEF Without
<1> QED
  BY <1>1, MountedPathsHas, MountedPathsShape

LEMMA NothingIsSnapshot == Nothing \in Snapshots
  BY DEF Nothing, Snapshots

LEMMA IdleIsCall ==
    /\ IdleCall \in Call
    /\ IdleCall.pc = "idle" /\ IdleCall.inode = Absent
  BY EmptyIsMountedPaths, NothingIsSnapshot DEF IdleCall, Call, Passwords

LEMMA SnapshotIsSnapshot ==
    ASSUME mem \in [Ids -> Config \cup {Absent}]
    PROVE  /\ Snapshot \in Snapshots
           /\ \A id \in Ids : Snapshot[id] = Absent <=> mem[id] = Absent
  BY StoreAssumption DEF Snapshot, Snapshots, Config

LEMMA LoadedIsSnapshot ==
    ASSUME StoreTypeOK
    PROVE  Loaded \in Snapshots
  BY NothingIsSnapshot, StoreAssumption DEF StoreTypeOK, Loaded

LEMMA KeptType ==
    ASSUME NEW c \in [Inodes -> Snapshots \cup {Torn}], NEW names, NEW cs
    PROVE  /\ Kept(c, names, cs) \in [Inodes -> Snapshots \cup {Torn}]
           /\ \A n \in DOMAIN names : names[n] \in Inodes =>
                Kept(c, names, cs)[names[n]] = c[names[n]]
  BY DEF Kept
-----------------------------------------------------------------------------
(* The steps of a call                                                     *)

\* What the proofs say of one call.
CallInv(k) == WriterInv(k) /\ MemoryInv(k) /\ PasswordInv(k)

LEMMA IdleInv ==
    ASSUME NEW k, k.pc = "idle", k.inode = Absent
    PROVE  CallInv(k)
  BY DEF CallInv, WriterInv, MemoryInv, PasswordInv, Changing, Saving

\* While a call is not idle, every other is.
LEMMA OthersAreIdle ==
    ASSUME IInv, Serial, NEW c \in Calls, ~Idle(c), NEW d \in Calls \ {c}
    PROVE  calls[d].pc = "idle" /\ calls[d].inode = Absent
  BY DEF IInv, CallsInv, WriterInv, Serial, Idle

\* A step that changes one call has to see to that call only.
LEMMA OneCallStep ==
    ASSUME IInv, Serial, Serial', NEW c \in Calls,
           NEW k, calls' = [calls EXCEPT ![c] = k],
           Idle(c) => k.pc # "idle",
           CallInv(calls[c])'
    PROVE  CallsInv'
<1> SUFFICES ASSUME NEW d \in Calls
             PROVE  CallInv(calls[d])'
  BY DEF CallsInv, CallInv
<1> CASE d = c
  OBVIOUS
<1> CASE d # c
  <2>1. calls \in [Calls -> Call]
    BY DEF IInv, TypeOK, StoreTypeOK
  <2>2. calls'[d] = calls[d] /\ calls'[c] = k
    BY <2>1
  <2>3. calls[d].pc = "idle" /\ calls[d].inode = Absent
    <3>1. CASE ~Idle(c)
      BY <3>1, OthersAreIdle
    <3>2. CASE Idle(c)
      <4>1. Idle(d)
        BY <2>2, <3>2 DEF Serial, Idle
      <4> QED
        BY <4>1 DEF Idle, IInv, CallsInv, WriterInv
    <3> QED
      BY <3>1, <3>2
  <2> QED
    BY <2>2, <2>3 DEF CallInv, WriterInv, MemoryInv, PasswordInv, Changing, Saving
<1> QED
  OBVIOUS

\* A step of a call that leaves the file and the store of passwords alone.
LEMMA QuietStep ==
    ASSUME IInv, DiskUnchanged, UNCHANGED mem, SecretsUnchanged,
           dialog' \in {dialog, NoDialog}
    PROVE  NamesDiffer' /\ StoredInv' /\ UsedInv' /\ FileIsWhole'
  BY DEF UsedInv, IInv, DiskUnchanged, SecretsUnchanged, NamesDiffer, StoredInv, FileIsWhole,
     OnDisk

\* A call that does not open a dialog, and forgets no id.
LEMMA DialogKept ==
    ASSUME IInv, dialog' \in {dialog, NoDialog}, used \subseteq used'
    PROVE  dialog' \in Dialogs /\ (dialog' # NoDialog => dialog'.id \in used')
  BY DEF IInv, TypeOK, Dialogs, UsedInv

LEMMA AddKeepsInv ==
    ASSUME IInv, Serial, Serial', NEW c \in Calls, NEW id \in Ids, Add(c, id)
    PROVE  IInv'
<1> DEFINE started(conf) == [IdleCall EXCEPT
              !.pc = IF conf.password = "typed" THEN "secret" ELSE "mkdir",
              !.op = "add", !.id = id, !.password = conf.password]
<1>1. PICK conf \in WizardResults : AddConnection(c, id, conf)
  BY DEF Add
<1>2. conf \in Config
  BY DEF WizardResults, Config
<1>3. started(conf) \in Call
  BY <1>2, IdleIsCall DEF Call, Config, Passwords
<1>4. /\ started(conf).pc = IF conf.password = "typed" THEN "secret" ELSE "mkdir"
      /\ started(conf).op = "add" /\ started(conf).id = id
      /\ started(conf).password = conf.password /\ started(conf).inode = Absent
  BY DEF IdleCall
<1>5. calls' = [calls EXCEPT ![c] = started(conf)]
  BY <1>1 DEF AddConnection
<1> HIDE DEF started
<1>6. TypeOK'
  BY <1>1, <1>2, <1>3, <1>5 DEF Add, AddConnection, DiskUnchanged, IInv, TypeOK, StoreTypeOK
<1>7. calls'[c] = started(conf)
  BY <1>5 DEF IInv, TypeOK, StoreTypeOK
<1>8. mem' = [mem EXCEPT ![id] = conf] /\ mem'[id] # Absent
  BY <1>1, <1>2, StoreAssumption DEF AddConnection, IInv, TypeOK, StoreTypeOK
<1>9. id \notin gone /\ id \notin promised /\ id \in used'
  BY <1>1 DEF AddConnection, IInv, TypeOK, StoreTypeOK
<1>10. CallInv(calls[c])'
  BY <1>4, <1>7, <1>8, <1>9 DEF CallInv, WriterInv, MemoryInv, PasswordInv, Changing,
     Saving
<1>11. CallsInv'
  BY <1>4, <1>5, <1>10, OneCallStep
<1>12. NamesDiffer' /\ StoredInv' /\ UsedInv' /\ FileIsWhole'
  BY <1>1, <1>8, <1>9, DialogKept DEF Add, AddConnection, DiskUnchanged, IInv, TypeOK, StoreTypeOK,
     NamesDiffer, StoredInv, UsedInv, FileIsWhole, OnDisk
<1> QED
  BY <1>6, <1>11, <1>12 DEF IInv

\* Update(), whoever calls it with a configuration.
LEMMA UpdateKeepsInv ==
    ASSUME IInv, Serial, Serial', NEW c \in Calls, NEW id \in Ids, NEW conf \in Config,
           Idle(c) \/ calls[c].pc = "reading",
           Update(c, id, conf),
           UNCHANGED <<secrets, used, gone>>, DiskUnchanged, dialog' \in {dialog, NoDialog}
    PROVE  IInv'
<1> DEFINE started == [IdleCall EXCEPT
              !.pc = IF ChangesSecret(conf) THEN "secret" ELSE "mkdir",
              !.op = "update", !.id = id, !.password = conf.password]
<1>1. CASE mem[id] = Absent
  <2>1. calls' = [calls EXCEPT ![c] = IdleCall] /\ UNCHANGED <<mem, promised>>
    BY <1>1 DEF Update, Return
  <2>2. TypeOK'
    BY <2>1, DialogKept, IdleIsCall DEF DiskUnchanged, IInv, TypeOK, StoreTypeOK
  <2>3. CallsInv'
    <3> SUFFICES ASSUME NEW d \in Calls
                 PROVE  CallInv(calls[d])'
      BY DEF CallsInv, CallInv
    <3>1. CASE d = c
      <4>1. calls'[d] = IdleCall
        BY <2>1, <3>1 DEF IInv, TypeOK, StoreTypeOK
      <4> QED
        BY <4>1, IdleIsCall DEF CallInv, WriterInv, MemoryInv, PasswordInv, Changing,
           Saving
    <3>2. CASE d # c
      <4>1. calls'[d] = calls[d]
        BY <2>1, <3>2 DEF IInv, TypeOK, StoreTypeOK
      <4>2. CallInv(calls[d])
        BY DEF IInv, CallsInv, CallInv
      <4> QED
        BY <4>1, <4>2, <2>1 DEF CallInv, WriterInv, MemoryInv, PasswordInv, DiskUnchanged
    <3> QED
      BY <3>1, <3>2
  <2> QED
    BY <2>1, <2>2, <2>3, QuietStep DEF SecretsUnchanged, IInv
<1>2. CASE mem[id] # Absent
  <2>1. /\ mem' = [mem EXCEPT ![id] = conf]
        /\ promised' = IF conf.password = "empty" THEN promised \ {id} ELSE promised
        /\ calls' = [calls EXCEPT ![c] = started]
    BY <1>2 DEF Update
  <2>2. started \in Call
    BY IdleIsCall DEF Call, Config, Passwords
  <2>3. /\ started.pc = IF ChangesSecret(conf) THEN "secret" ELSE "mkdir"
        /\ started.op = "update" /\ started.id = id
        /\ started.password = conf.password /\ started.inode = Absent
    BY DEF IdleCall
  <2> HIDE DEF started
  <2>4. TypeOK'
    BY <2>1, DialogKept, <2>2 DEF DiskUnchanged, IInv, TypeOK, StoreTypeOK
  <2>5. calls'[c] = started
    BY <2>1 DEF IInv, TypeOK, StoreTypeOK
  <2>6. mem'[id] # Absent
    BY <2>1, StoreAssumption DEF IInv, TypeOK, StoreTypeOK
  <2>7. conf.password \in Passwords
    BY DEF Config
  <2>8. CallInv(calls[c])'
    BY <1>2, <2>1, <2>3, <2>5, <2>6, <2>7 DEF IInv, UsedInv, CallInv, WriterInv, MemoryInv, PasswordInv,
       Changing, Saving, ChangesSecret, Passwords
  <2>9. CallsInv'
    BY <2>1, <2>3, <2>8, OneCallStep
  <2>10. id \notin gone
    BY <1>2 DEF IInv, StoredInv
  <2>11. NamesDiffer' /\ StoredInv' /\ UsedInv' /\ FileIsWhole'
    BY <1>2, <2>1, <2>6, <2>10, DialogKept DEF DiskUnchanged, IInv, TypeOK, StoreTypeOK,
       NamesDiffer, StoredInv, UsedInv, FileIsWhole, OnDisk
  <2> QED
    BY <2>4, <2>9, <2>11 DEF IInv
<1> QED
  BY <1>1, <1>2

\* A call that is begun, or goes on, without a change to what is stored.
LEMMA CallOnlyKeepsInv ==
    ASSUME IInv, Serial, Serial', NEW c \in Calls, NEW k \in Call,
           calls' = [calls EXCEPT ![c] = k], Idle(c) => k.pc # "idle",
           CallInv(k),
           UNCHANGED mem, SecretsUnchanged, DiskUnchanged, dialog' \in {dialog, NoDialog}
    PROVE  IInv'
<1>1. TypeOK'
  BY DialogKept DEF SecretsUnchanged, DiskUnchanged, IInv, TypeOK, StoreTypeOK
<1>2. calls'[c] = k
  BY DEF IInv, TypeOK, StoreTypeOK
<1>3. CallInv(calls[c])'
  BY <1>2 DEF SecretsUnchanged, DiskUnchanged, CallInv, WriterInv, MemoryInv, PasswordInv
<1>4. CallsInv'
  BY <1>3, OneCallStep
<1> QED
  BY <1>1, <1>4, QuietStep DEF IInv

LEMMA BeginSidebarEditKeepsInv ==
    ASSUME IInv, Serial, Serial', NEW c \in Calls, NEW id \in Ids,
           NEW mounts \in MountedPaths,
           id \in used, BeginSidebarEdit(c, id, mounts), UNCHANGED dialog
    PROVE  IInv'
<1> DEFINE k == [IdleCall EXCEPT !.pc = "reading", !.op = "update", !.id = id,
                                 !.mounts = mounts]
<1>1. k \in Call /\ k.pc = "reading" /\ k.id = id /\ k.inode = Absent
  BY IdleIsCall DEF Call, IdleCall
<1>2. CallInv(k)
  BY <1>1 DEF CallInv, WriterInv, MemoryInv, PasswordInv, Changing, Saving
<1>3. calls' = [calls EXCEPT ![c] = k] /\ UNCHANGED mem /\ SecretsUnchanged /\ DiskUnchanged
  BY DEF BeginSidebarEdit, MemoryUnchanged
<1>4. dialog' \in {dialog, NoDialog}
  OBVIOUS
<1> HIDE DEF k
<1> QED
  BY <1>1, <1>2, <1>3, <1>4, CallOnlyKeepsInv

LEMMA RemoveConnectionKeepsInv ==
    ASSUME IInv, Serial, Serial', NEW c \in Calls, NEW id \in Ids,
           id \in used, RemoveConnection(c, id), dialog' \in {dialog, NoDialog}
    PROVE  IInv'
<1> DEFINE k == [IdleCall EXCEPT !.pc = "closing", !.op = "remove", !.id = id]
<1>1. k \in Call /\ k.pc = "closing" /\ k.op = "remove" /\ k.id = id /\ k.inode = Absent
  BY IdleIsCall DEF Call, IdleCall
<1>2. CallInv(k)
  BY <1>1 DEF CallInv, WriterInv, MemoryInv, PasswordInv, Changing, Saving
<1>3. calls' = [calls EXCEPT ![c] = k] /\ UNCHANGED mem /\ SecretsUnchanged /\ DiskUnchanged
  BY DEF RemoveConnection, MemoryUnchanged
<1> HIDE DEF k
<1> QED
  BY <1>1, <1>2, <1>3, CallOnlyKeepsInv

LEMMA SidebarEditKeepsInv ==
    ASSUME IInv, Serial, Serial', NEW c \in Calls, SidebarEdit(c), UNCHANGED dialog
    PROVE  IInv'
<1> DEFINE read == [mounts |-> calls[c].mounts,
              password |-> IF calls[c].id \in secrets THEN "typed" ELSE "unset"]
<1>1. calls[c] \in Call /\ calls[c].pc = "reading" /\ Update(c, calls[c].id, read)
  BY DEF SidebarEdit, IInv, TypeOK, StoreTypeOK
<1>2. read \in Config
  BY <1>1 DEF Call, Config, Passwords
<1>3. calls[c].id \in Ids
  BY <1>1 DEF IInv, TypeOK, StoreTypeOK, CallsInv, MemoryInv
<1>4. UNCHANGED <<secrets, used, gone>> /\ DiskUnchanged /\ dialog' \in {dialog, NoDialog}
  BY DEF SidebarEdit, IInv, TypeOK
<1> HIDE DEF read
<1> QED
  BY <1>1, <1>2, <1>3, <1>4, UpdateKeepsInv

LEMMA ClosedKeepsInv ==
    ASSUME IInv, Serial, Serial', NEW c \in Calls, Closed(c), UNCHANGED dialog
    PROVE  IInv'
<1> DEFINE k == [calls[c] EXCEPT !.pc = "secret"]
<1>1. calls[c] \in Call /\ calls[c].pc = "closing"
  BY DEF Closed, IInv, TypeOK, StoreTypeOK
<1>2. /\ calls[c].id \in used /\ calls[c].id \in Ids
      /\ calls[c].op = "remove" /\ calls[c].inode = Absent
  BY <1>1 DEF IInv, TypeOK, StoreTypeOK, CallsInv, MemoryInv, WriterInv
<1>3. calls' = [calls EXCEPT ![c] = k]
  BY DEF Closed, Goto, IInv, TypeOK, StoreTypeOK
<1>4. k \in Call /\ k.pc = "secret" /\ k.id = calls[c].id /\ k.op = "remove"
      /\ k.inode = Absent
  BY <1>1, <1>2 DEF Call
<1> HIDE DEF k
<1>5. TypeOK'
  BY <1>3, <1>4 DEF Closed, DiskUnchanged, IInv, TypeOK, StoreTypeOK
<1>6. calls'[c] = k
  BY <1>3 DEF IInv, TypeOK, StoreTypeOK
<1>7. mem' = [mem EXCEPT ![calls[c].id] = Absent] /\ promised' = promised \ {calls[c].id}
  BY DEF Closed
<1>8. CallInv(calls[c])'
  BY <1>2, <1>4, <1>6, <1>7 DEF Closed, CallInv, WriterInv, MemoryInv, PasswordInv,
     Changing, Saving, IInv, TypeOK, StoreTypeOK
<1>9. CallsInv'
  BY <1>1, <1>3, <1>8, OneCallStep DEF Idle
<1>10. NamesDiffer' /\ StoredInv' /\ UsedInv' /\ FileIsWhole'
  BY <1>7 DEF Closed, DiskUnchanged, IInv, TypeOK, StoreTypeOK,
     NamesDiffer, StoredInv, UsedInv, FileIsWhole, OnDisk
<1> QED
  BY <1>5, <1>9, <1>10 DEF IInv

LEMMA SecretDoneKeepsInv ==
    ASSUME IInv, Serial, Serial', NEW c \in Calls, SecretDone(c), UNCHANGED dialog
    PROVE  IInv'
<1> DEFINE k == [calls[c] EXCEPT !.pc = "mkdir"]
           stores == calls[c].op # "remove" /\ calls[c].password = "typed"
<1>1. calls[c] \in Call /\ calls[c].pc = "secret"
  BY DEF SecretDone, IInv, TypeOK, StoreTypeOK
<1>2. /\ calls[c].id \in used /\ calls[c].id \in Ids /\ calls[c].inode = Absent
      /\ mem[calls[c].id] = Absent <=> calls[c].op = "remove"
      /\ ~stores => calls[c].id \notin promised
  BY <1>1 DEF IInv, TypeOK, StoreTypeOK, CallsInv, MemoryInv, WriterInv, PasswordInv,
     Changing
<1>3. calls' = [calls EXCEPT ![c] = k]
  BY DEF SecretDone, Goto, IInv, TypeOK, StoreTypeOK
<1>4. k \in Call /\ k.pc = "mkdir" /\ k.id = calls[c].id /\ k.op = calls[c].op
      /\ k.inode = Absent /\ k.password = calls[c].password
  BY <1>1, <1>2 DEF Call
<1>5. secrets' = IF stores THEN secrets \cup {calls[c].id} ELSE secrets \ {calls[c].id}
  BY DEF SecretDone
<1> HIDE DEF k
<1>6. TypeOK'
  BY <1>2, <1>3, <1>4, <1>5 DEF SecretDone, MemoryUnchanged, DiskUnchanged, IInv, TypeOK,
     StoreTypeOK
<1>7. calls'[c] = k
  BY <1>3 DEF IInv, TypeOK, StoreTypeOK
<1>8. CallInv(calls[c])'
  BY <1>2, <1>4, <1>5, <1>7 DEF SecretDone, MemoryUnchanged, CallInv, WriterInv,
     MemoryInv, PasswordInv, Changing, Saving
<1>9. CallsInv'
  BY <1>1, <1>3, <1>8, OneCallStep DEF Idle
<1>10. NamesDiffer' /\ StoredInv' /\ UsedInv' /\ FileIsWhole'
  BY <1>2, <1>5 DEF SecretDone, MemoryUnchanged, DiskUnchanged, IInv,
     NamesDiffer, StoredInv, UsedInv, FileIsWhole, OnDisk
<1> QED
  BY <1>6, <1>9, <1>10 DEF IInv

LEMMA CallRejectsKeepsInv ==
    ASSUME IInv, Serial, Serial', NEW c \in Calls, CallRejects(c), UNCHANGED dialog
    PROVE  IInv'
<1>1. calls' = [calls EXCEPT ![c] = IdleCall] /\ ~Idle(c)
  BY DEF CallRejects, Return, Idle
<1>2. CallInv(IdleCall)
  BY IdleIsCall, IdleInv
<1>3. UNCHANGED mem /\ SecretsUnchanged /\ DiskUnchanged /\ dialog' \in {dialog, NoDialog}
  BY DEF CallRejects, MemoryUnchanged, IInv, TypeOK
<1> QED
  BY <1>1, <1>2, <1>3, IdleIsCall, CallOnlyKeepsInv

LEMMA TakeSnapshotKeepsInv ==
    ASSUME IInv, Serial, Serial', NEW c \in Calls, TakeSnapshot(c), UNCHANGED dialog
    PROVE  IInv'
<1> DEFINE k == [calls[c] EXCEPT !.pc = "open", !.snap = Snapshot]
<1>1. calls[c] \in Call /\ calls[c].pc = "mkdir" /\ CallInv(calls[c])
  BY DEF TakeSnapshot, IInv, TypeOK, StoreTypeOK, CallsInv, CallInv
<1>2. Snapshot \in Snapshots /\ \A id \in Ids : Snapshot[id] = Absent <=> mem[id] = Absent
  BY SnapshotIsSnapshot DEF IInv, TypeOK, StoreTypeOK
<1>3. calls' = [calls EXCEPT ![c] = k]
  BY DEF TakeSnapshot, IInv, TypeOK, StoreTypeOK
<1>4. /\ k \in Call /\ k.pc = "open" /\ k.snap = Snapshot /\ k.id = calls[c].id
      /\ k.op = calls[c].op /\ k.inode = calls[c].inode
      /\ k.password = calls[c].password
  BY <1>1, <1>2 DEF Call
<1> HIDE DEF k
<1>5. CallInv(k)
  BY <1>1, <1>2, <1>4 DEF CallInv, WriterInv, MemoryInv, PasswordInv, Changing, Saving
<1>6. UNCHANGED mem /\ SecretsUnchanged /\ DiskUnchanged /\ dialog' \in {dialog, NoDialog}
  BY DEF TakeSnapshot, MemoryUnchanged, IInv, TypeOK
<1> QED
  BY <1>1, <1>3, <1>4, <1>5, <1>6, CallOnlyKeepsInv DEF Idle
-----------------------------------------------------------------------------
(* The steps of a save                                                     *)

LEMMA OpenTmpKeepsInv ==
    ASSUME IInv, Serial, Serial', NEW c \in Calls, OpenTmp(c), UNCHANGED dialog
    PROVE  IInv'
<1>1. PICK i \in IF disk["tmp"] # Absent THEN {disk["tmp"]} ELSE FreeInodes :
        /\ disk' = [disk EXCEPT !["tmp"] = i]
        /\ content' = [content EXCEPT ![i] = Torn]
        /\ calls' = [calls EXCEPT ![c].pc = "write", ![c].inode = i]
  BY DEF OpenTmp, Open
<1>2. i \in Inodes /\ i # Absent /\ i # disk["config"]
  BY StoreAssumption DEF FreeInodes, IInv, TypeOK, StoreTypeOK, NamesDiffer
<1> DEFINE k == [calls[c] EXCEPT !.pc = "write", !.inode = i]
<1>3. calls[c] \in Call /\ calls[c].pc = "open" /\ CallInv(calls[c])
  BY DEF OpenTmp, Open, IInv, TypeOK, StoreTypeOK, CallsInv, CallInv
<1>4. calls' = [calls EXCEPT ![c] = k]
  BY <1>1 DEF IInv, TypeOK, StoreTypeOK
<1>5. /\ k \in Call /\ k.pc = "write" /\ k.inode = i /\ k.id = calls[c].id
      /\ k.op = calls[c].op /\ k.password = calls[c].password /\ k.snap = calls[c].snap
  BY <1>2, <1>3 DEF Call
<1> HIDE DEF k
<1>6. UNCHANGED <<mem, secrets, used, gone, promised, acked, crashes>>
  BY DEF OpenTmp, Open, MemoryUnchanged, SecretsUnchanged
<1>7. disk' \in [{"config", "tmp"} -> Inodes \cup {Absent}]
      /\ disk'["tmp"] = i /\ disk'["config"] = disk["config"]
  BY <1>1, <1>2 DEF IInv, TypeOK, StoreTypeOK
<1>8. content' \in [Inodes -> Snapshots \cup {Torn}]
      /\ \A j \in Inodes \ {i} : content'[j] = content[j]
  BY <1>1, <1>2 DEF IInv, TypeOK, StoreTypeOK
<1>9. TypeOK'
  BY <1>4, <1>5, <1>6, <1>7, <1>8 DEF IInv, TypeOK, StoreTypeOK
<1>10. calls'[c] = k
  BY <1>4 DEF IInv, TypeOK, StoreTypeOK
<1>11. CallInv(calls[c])'
  BY <1>2, <1>3, <1>5, <1>6, <1>7, <1>10 DEF CallInv, WriterInv, MemoryInv, PasswordInv,
     Changing, Saving
<1>12. CallsInv'
  BY <1>3, <1>4, <1>5, <1>11, OneCallStep DEF Idle
<1>13. NamesDiffer' /\ StoredInv' /\ UsedInv'
  BY <1>2, <1>6, <1>7 DEF IInv, NamesDiffer, StoredInv, UsedInv
<1>14. FileIsWhole'
  BY <1>2, <1>6, <1>7, <1>8 DEF IInv, TypeOK, StoreTypeOK, FileIsWhole, OnDisk
<1> QED
  BY <1>9, <1>12, <1>13, <1>14 DEF IInv

LEMMA WriteTmpKeepsInv ==
    ASSUME IInv, Serial, Serial', NEW c \in Calls, WriteTmp(c), UNCHANGED dialog
    PROVE  IInv'
<1> DEFINE k == [calls[c] EXCEPT !.pc = "rename", !.inode = Absent]
<1>1. calls[c] \in Call /\ calls[c].pc = "write" /\ CallInv(calls[c])
  BY DEF WriteTmp, IInv, TypeOK, StoreTypeOK, CallsInv, CallInv
<1>2. calls[c].inode = disk["tmp"] /\ disk["tmp"] # Absent /\ disk["tmp"] \in Inodes
      /\ disk["tmp"] # disk["config"]
  BY <1>1 DEF CallInv, WriterInv, IInv, TypeOK, StoreTypeOK, NamesDiffer
<1>3. calls' = [calls EXCEPT ![c] = k]
  BY DEF WriteTmp, IInv, TypeOK, StoreTypeOK
<1>4. /\ k \in Call /\ k.pc = "rename" /\ k.inode = Absent /\ k.id = calls[c].id
      /\ k.op = calls[c].op /\ k.password = calls[c].password /\ k.snap = calls[c].snap
  BY <1>1 DEF Call
<1> HIDE DEF k
<1>5. UNCHANGED <<mem, secrets, used, gone, promised, disk, acked, crashes>>
  BY DEF WriteTmp, MemoryUnchanged, SecretsUnchanged
<1>6. /\ content' \in [Inodes -> Snapshots \cup {Torn}]
      /\ content'[disk["tmp"]] = calls[c].snap
      /\ \A j \in Inodes \ {disk["tmp"]} : content'[j] = content[j]
  BY <1>1, <1>2 DEF WriteTmp, IInv, TypeOK, StoreTypeOK, Call
<1>7. TypeOK'
  BY <1>3, <1>4, <1>5, <1>6 DEF IInv, TypeOK, StoreTypeOK
<1>8. calls'[c] = k
  BY <1>3 DEF IInv, TypeOK, StoreTypeOK
<1>9. CallInv(calls[c])'
  BY <1>1, <1>2, <1>4, <1>5, <1>6, <1>8 DEF CallInv, WriterInv, MemoryInv, PasswordInv,
     Changing, Saving
<1>10. CallsInv'
  BY <1>1, <1>3, <1>4, <1>9, OneCallStep DEF Idle
<1>11. NamesDiffer' /\ StoredInv' /\ UsedInv'
  BY <1>5 DEF IInv, NamesDiffer, StoredInv, UsedInv
<1>12. FileIsWhole'
  BY <1>2, <1>5, <1>6 DEF IInv, TypeOK, StoreTypeOK, FileIsWhole, OnDisk
<1> QED
  BY <1>7, <1>10, <1>11, <1>12 DEF IInv

LEMMA SaveFailsKeepsInv ==
    ASSUME IInv, Serial, Serial', NEW c \in Calls, SaveFails(c), UNCHANGED dialog
    PROVE  IInv'
<1> DEFINE k == [calls[c] EXCEPT !.pc = "cleanup", !.inode = Absent]
<1>1. calls[c] \in Call /\ ~Idle(c)
  BY DEF SaveFails, IInv, TypeOK, StoreTypeOK, Idle
<1>2. calls' = [calls EXCEPT ![c] = k]
  BY DEF SaveFails, IInv, TypeOK, StoreTypeOK
<1>3. k \in Call /\ k.pc = "cleanup" /\ k.inode = Absent
  BY <1>1 DEF Call
<1> HIDE DEF k
<1>4. CallInv(k)
  BY <1>3 DEF CallInv, WriterInv, MemoryInv, PasswordInv, Changing, Saving
<1>5. UNCHANGED mem /\ SecretsUnchanged /\ DiskUnchanged /\ dialog' \in {dialog, NoDialog}
  BY DEF SaveFails, MemoryUnchanged, IInv, TypeOK
<1> QED
  BY <1>1, <1>2, <1>3, <1>4, <1>5, CallOnlyKeepsInv

\* A call returns, and the temporary file is gone.
LEMMA WithoutTmp ==
    ASSUME IInv, Serial, Serial', NEW c \in Calls, ~Idle(c), Return(c),
           disk'["tmp"] = Absent
    PROVE  CallsInv'
<1> SUFFICES ASSUME NEW d \in Calls
             PROVE  calls'[d].pc = "idle" /\ calls'[d].inode = Absent
  BY DEF CallsInv, WriterInv, MemoryInv, PasswordInv, Changing, Saving
<1>1. CASE d = c
  BY <1>1, IdleIsCall DEF Return, IInv, TypeOK, StoreTypeOK
<1>2. CASE d # c
  BY <1>2, OthersAreIdle DEF Return, IInv, TypeOK, StoreTypeOK
<1> QED
  BY <1>1, <1>2

LEMMA RenameTmpKeepsInv ==
    ASSUME IInv, Serial, Serial', NEW c \in Calls, RenameTmp(c), UNCHANGED dialog
    PROVE  IInv'
<1> DEFINE k == calls[c]
           stores == k.op # "remove" /\ k.password = "typed"
<1>1. k \in Call /\ k.pc = "rename" /\ CallInv(k) /\ ~Idle(c)
  BY DEF RenameTmp, IInv, TypeOK, StoreTypeOK, CallsInv, CallInv, Idle
<1>2. /\ disk["tmp"] \in Inodes /\ disk["tmp"] # Absent
      /\ content[disk["tmp"]] = k.snap
  BY <1>1 DEF CallInv, WriterInv, IInv, TypeOK, StoreTypeOK
<1>3. /\ k.id \in used /\ k.id \in Ids
      /\ mem[k.id] = Absent <=> k.op = "remove"
      /\ \A id \in Ids : k.snap[id] = Absent <=> mem[id] = Absent
      /\ stores => k.id \in secrets
  BY <1>1 DEF CallInv, MemoryInv, PasswordInv, Changing, Saving, IInv, TypeOK, StoreTypeOK
<1>4. /\ disk' = [disk EXCEPT !["config"] = disk["tmp"], !["tmp"] = Absent]
      /\ acked' = k.snap
      /\ gone' = IF k.op = "remove" THEN gone \cup {k.id} ELSE gone
      /\ promised' = IF stores THEN promised \cup {k.id} ELSE promised
      /\ Return(c)
      /\ content' = Kept(content, disk', calls)
      /\ UNCHANGED <<mem, secrets, used, crashes>>
  BY <1>2 DEF RenameTmp, MemoryUnchanged
<1>5. /\ disk' \in [{"config", "tmp"} -> Inodes \cup {Absent}]
      /\ disk'["config"] = disk["tmp"] /\ disk'["tmp"] = Absent
  BY <1>2, <1>4 DEF IInv, TypeOK, StoreTypeOK
<1>6. /\ content' \in [Inodes -> Snapshots \cup {Torn}]
      /\ content'[disk["tmp"]] = k.snap
  <2>1. content \in [Inodes -> Snapshots \cup {Torn}]
    BY DEF IInv, TypeOK, StoreTypeOK
  <2>2. "config" \in DOMAIN disk'
    BY <1>5
  <2>3. Kept(content, disk', calls)[disk'["config"]] = content[disk'["config"]]
    BY <1>2, <1>5, <2>1, <2>2, KeptType
  <2> QED
    BY <1>2, <1>4, <1>5, <2>1, <2>3, KeptType
<1>8. TypeOK'
  BY <1>1, <1>3, <1>4, <1>5, <1>6, IdleIsCall DEF Return, IInv, TypeOK, StoreTypeOK, Call
<1>9. CallsInv'
  BY <1>1, <1>4, <1>5, WithoutTmp
<1>10. NamesDiffer' /\ FileIsWhole'
  BY <1>2, <1>4, <1>5, <1>6 DEF NamesDiffer, FileIsWhole, OnDisk
<1>11. StoredInv' /\ UsedInv'
  BY <1>3, <1>4 DEF IInv, TypeOK, StoreTypeOK, StoredInv, UsedInv
<1> QED
  BY <1>8, <1>9, <1>10, <1>11 DEF IInv

LEMMA CleanUpKeepsInv ==
    ASSUME IInv, Serial, Serial', NEW c \in Calls, CleanUp(c), UNCHANGED dialog
    PROVE  IInv'
<1>1. /\ ~Idle(c) /\ Return(c)
      /\ disk' = [disk EXCEPT !["tmp"] = Absent]
      /\ content' = Kept(content, disk', calls)
      /\ UNCHANGED <<mem, secrets, used, gone, promised, acked, crashes>>
  BY DEF CleanUp, Idle, MemoryUnchanged, SecretsUnchanged
<1>2. /\ disk' \in [{"config", "tmp"} -> Inodes \cup {Absent}]
      /\ disk'["config"] = disk["config"] /\ disk'["tmp"] = Absent
  BY <1>1 DEF IInv, TypeOK, StoreTypeOK
<1>3. /\ content' \in [Inodes -> Snapshots \cup {Torn}]
      /\ disk["config"] # Absent => content'[disk["config"]] = content[disk["config"]]
  <2>1. content \in [Inodes -> Snapshots \cup {Torn}]
    BY DEF IInv, TypeOK, StoreTypeOK
  <2>2. "config" \in DOMAIN disk' /\ disk'["config"] \in Inodes \cup {Absent}
    BY <1>2
  <2>3. content' \in [Inodes -> Snapshots \cup {Torn}]
    BY <1>1, <2>1, KeptType
  <2>4. ASSUME disk["config"] # Absent
        PROVE  content'[disk["config"]] = content[disk["config"]]
    <3>1. Kept(content, disk', calls)[disk'["config"]] = content[disk'["config"]]
      BY <1>2, <2>1, <2>2, <2>4, KeptType
    <3> QED
      BY <1>1, <1>2, <3>1
  <2> QED
    BY <2>3, <2>4
<1>4. TypeOK'
  BY <1>1, <1>2, <1>3, IdleIsCall DEF Return, IInv, TypeOK, StoreTypeOK
<1>5. CallsInv'
  BY <1>1, <1>2, WithoutTmp
<1>6. NamesDiffer' /\ StoredInv' /\ UsedInv'
  BY <1>1, <1>2 DEF IInv, NamesDiffer, StoredInv, UsedInv
<1>7. FileIsWhole'
  BY <1>1, <1>2, <1>3 DEF IInv, FileIsWhole, OnDisk
<1> QED
  BY <1>4, <1>5, <1>6, <1>7 DEF IInv

LEMMA CallStepKeepsInv ==
    ASSUME IInv, Serial, Serial', NEW c \in Calls, CallStep(c), UNCHANGED dialog
    PROVE  IInv'
  BY SidebarEditKeepsInv, ClosedKeepsInv, SecretDoneKeepsInv, CallRejectsKeepsInv,
     TakeSnapshotKeepsInv, OpenTmpKeepsInv, WriteTmpKeepsInv, SaveFailsKeepsInv,
     RenameTmpKeepsInv, CleanUpKeepsInv
  DEF CallStep
-----------------------------------------------------------------------------
(* The dialogs, the commands and a restart                                 *)

LEMMA CommandKeepsInv ==
    ASSUME IInv, Serial, Serial', NEW c \in Calls, Command(c)
    PROVE  IInv'
<1>1. CASE \E id \in Ids : Add(c, id)
  BY <1>1, AddKeepsInv
<1>2. ASSUME NEW id \in Ids, NEW m \in Mounts, LabelRemotePath(c, id, m)
      PROVE  IInv'
  <2>1. mem[id] \in Config /\ id \in used
    BY <1>2 DEF LabelRemotePath, ConnectionNodes, IInv, TypeOK, StoreTypeOK, UsedInv
  <2>2. PICK l \in Labels : BeginSidebarEdit(c, id, With(mem[id].mounts, m, l))
    BY <1>2 DEF LabelRemotePath
  <2>3. With(mem[id].mounts, m, l) \in MountedPaths
    BY <2>1, WithIsMountedPaths DEF Config
  <2> QED
    BY <1>2, <2>1, <2>2, <2>3, BeginSidebarEditKeepsInv DEF LabelRemotePath
<1>3. ASSUME NEW id \in Ids, NEW m \in Mounts, DeleteRemotePath(c, id, m)
      PROVE  IInv'
  <2>1. mem[id] \in Config /\ id \in used
    BY <1>3 DEF DeleteRemotePath, MountedPathNodes, IInv, TypeOK, StoreTypeOK, UsedInv
  <2>2. Without(mem[id].mounts, m) \in MountedPaths
    BY <2>1, WithoutIsMountedPaths DEF Config
  <2> QED
    BY <1>3, <2>1, <2>2, BeginSidebarEditKeepsInv DEF DeleteRemotePath
<1>4. CASE DoneEditing(c)
  <2>1. dialog.id \in Ids /\ dialog.draft \in Config
    BY <1>4 DEF DoneEditing, Editing, IInv, TypeOK, Dialogs, NoDialog
  <2> QED
    BY <1>4, <2>1, UpdateKeepsInv DEF DoneEditing, UpdateConnection
<1>5. CASE ConfirmDelete(c)
  <2>1. dialog.id \in Ids /\ dialog.id \in used
    BY <1>5 DEF ConfirmDelete, IInv, TypeOK, Dialogs, NoDialog, UsedInv
  <2> QED
    BY <1>5, <2>1, RemoveConnectionKeepsInv DEF ConfirmDelete
<1> QED
  BY <1>1, <1>2, <1>3, <1>4, <1>5 DEF Command

\* A step that only changes the dialog.
LEMMA DialogOnlyKeepsInv ==
    ASSUME IInv, UNCHANGED storeVars, dialog' \in Dialogs,
           dialog' # NoDialog => dialog'.id \in used
    PROVE  IInv'
  BY DEF storeVars, IInv, TypeOK, StoreTypeOK, NamesDiffer, CallsInv, WriterInv, MemoryInv,
     PasswordInv, StoredInv, UsedInv, FileIsWhole, OnDisk

\* The dialog that edits, and its copy.
LEMMA EditShape ==
    ASSUME IInv, Editing
    PROVE  /\ dialog \in [kind : {"edit"}, id : Ids, draft : Config, own : SUBSET Mounts]
           /\ dialog.id \in used
           /\ dialog.draft \in [mounts : MountedPaths, password : Passwords]
           /\ \A d \in [kind : {"edit"}, id : {dialog.id}, draft : Config,
                         own : SUBSET Mounts] : d \in Dialogs /\ d.id \in used
  BY DEF IInv, TypeOK, Dialogs, NoDialog, Editing, UsedInv, Config

\* The draft gets other mounted paths.
LEMMA DraftKeepsInv ==
    ASSUME IInv, Editing, NEW ms \in MountedPaths, NEW own \in SUBSET Mounts,
           UNCHANGED storeVars,
           dialog' = [dialog EXCEPT !.draft.mounts = ms, !.own = own]
    PROVE  IInv'
<1>1. dialog' \in [kind : {"edit"}, id : {dialog.id}, draft : Config, own : SUBSET Mounts]
  BY EditShape DEF Config
<1> QED
  BY <1>1, EditShape, DialogOnlyKeepsInv

\* A label is edited in the object that the configuration holds as well: the
\* connection stays where it is.
LEMMA RelabelPathKeepsInv ==
    ASSUME IInv, NEW m \in Mounts, RelabelPath(m)
    PROVE  IInv'
<1>1. PICK l \in Labels :
        /\ dialog' = [dialog EXCEPT !.draft.mounts = With(@, m, l)]
        /\ mem' = IF m \notin dialog.own /\ m \in MountedPathNodes(dialog.id)
                  THEN [mem EXCEPT ![dialog.id].mounts = With(@, m, l)] ELSE mem
  BY DEF RelabelPath
<1>2. UNCHANGED <<disk, content, secrets, calls, acked, used, gone, promised, crashes>>
  BY DEF RelabelPath
<1>3. Editing
  BY DEF RelabelPath, Chosen
<1>4. dialog.id \in Ids /\ dialog.id \in used /\ dialog.draft.mounts \in MountedPaths
  BY <1>3, EditShape
<1>5. dialog' \in Dialogs /\ dialog'.id \in used
  <2>1. With(dialog.draft.mounts, m, l) \in MountedPaths
    BY <1>4, WithIsMountedPaths
  <2>2. dialog' = [dialog EXCEPT !.draft.mounts = With(dialog.draft.mounts, m, l)]
    BY <1>1
  <2>3. dialog' \in [kind : {"edit"}, id : {dialog.id}, draft : Config,
                      own : SUBSET Mounts]
    BY <1>3, <2>1, <2>2, EditShape DEF Config
  <2> QED
    BY <1>3, <2>3, EditShape
<1>6. mem' \in [Ids -> Config \cup {Absent}]
      /\ \A id \in Ids : mem'[id] = Absent <=> mem[id] = Absent
  <2>1. mem \in [Ids -> Config \cup {Absent}]
    BY DEF IInv, TypeOK, StoreTypeOK
  <2>2. CASE mem' = mem
    BY <2>1, <2>2
  <2>3. CASE m \in MountedPathNodes(dialog.id)
             /\ mem' = [mem EXCEPT ![dialog.id].mounts = With(@, m, l)]
    <3>1. mem[dialog.id] \in Config
      BY <1>4, <2>1, <2>3 DEF MountedPathNodes
    <3>2. With(mem[dialog.id].mounts, m, l) \in MountedPaths
      BY <3>1, WithIsMountedPaths DEF Config
    <3> DEFINE conf == [mem[dialog.id] EXCEPT !.mounts = With(mem[dialog.id].mounts, m, l)]
    <3>3. conf \in Config /\ mem' = [mem EXCEPT ![dialog.id] = conf]
      BY <2>1, <2>3, <3>1, <3>2 DEF Config
    <3>4. Absent \notin Config
      BY StoreAssumption
    <3> HIDE DEF conf
    <3> QED
      BY <1>4, <2>1, <3>1, <3>3, <3>4
  <2> QED
    BY <1>1, <2>2, <2>3
<1>7. TypeOK'
  BY <1>2, <1>5, <1>6 DEF IInv, TypeOK, StoreTypeOK
<1>8. CallsInv'
  <2> SUFFICES ASSUME NEW c \in Calls
               PROVE  CallInv(calls[c])'
    BY DEF CallsInv, CallInv
  <2>1. CallInv(calls[c]) /\ (calls[c].pc \in Changing => calls[c].id \in Ids)
    BY DEF IInv, CallsInv, CallInv, MemoryInv, TypeOK, StoreTypeOK
  <2> QED
    BY <1>2, <1>6, <2>1 DEF CallInv, WriterInv, MemoryInv, PasswordInv
<1>9. NamesDiffer' /\ StoredInv' /\ UsedInv' /\ FileIsWhole'
  BY <1>2, <1>5, <1>6 DEF IInv, TypeOK, StoreTypeOK, NamesDiffer, StoredInv, UsedInv,
     FileIsWhole, OnDisk
<1> QED
  BY <1>7, <1>8, <1>9 DEF IInv

LEMMA DialogKeepsInv ==
    ASSUME IInv, Dialog
    PROVE  IInv'
<1>1. ASSUME NEW id \in Ids, BeginEdit(id)
      PROVE  IInv'
  <2>1. mem[id] \in Config /\ id \in used
    BY <1>1 DEF BeginEdit, ConnectionNodes, IInv, TypeOK, StoreTypeOK, UsedInv
  <2>2. dialog' \in Dialogs /\ dialog'.id = id
    BY <1>1, <2>1 DEF BeginEdit, Dialogs
  <2> QED
    BY <1>1, <2>1, <2>2, DialogOnlyKeepsInv DEF BeginEdit
<1>2. ASSUME NEW id \in Ids, AskDelete(id)
      PROVE  IInv'
  <2>1. id \in used
    BY <1>2 DEF AskDelete, ConnectionNodes, IInv, UsedInv
  <2>2. dialog' \in Dialogs /\ dialog'.id = id
    BY <1>2 DEF AskDelete, Dialogs
  <2> QED
    BY <1>2, <2>1, <2>2, DialogOnlyKeepsInv DEF AskDelete
<1>3. CASE EditAuth
  <2>1. PICK p \in {"empty", "typed"} : dialog' = [dialog EXCEPT !.draft.password = p]
    BY <1>3 DEF EditAuth
  <2>2. Editing /\ UNCHANGED storeVars
    BY <1>3 DEF EditAuth
  <2>3. dialog' \in [kind : {"edit"}, id : {dialog.id}, draft : Config,
                      own : SUBSET Mounts]
    BY <2>1, <2>2, EditShape DEF Config, Passwords
  <2> QED
    BY <2>2, <2>3, EditShape, DialogOnlyKeepsInv
<1>4. ASSUME NEW m \in Mounts, AddPath(m)
      PROVE  IInv'
  <2>1. Editing /\ UNCHANGED storeVars
    BY <1>4 DEF AddPath
  <2>2. PICK l \in Labels :
          dialog' = [dialog EXCEPT !.draft.mounts = With(dialog.draft.mounts, m, l),
                                   !.own = dialog.own \cup {m}]
    BY <1>4 DEF AddPath
  <2>3. With(dialog.draft.mounts, m, l) \in MountedPaths /\ dialog.own \cup {m} \in SUBSET Mounts
    BY <2>1, EditShape, WithIsMountedPaths
  <2> QED
    BY <2>1, <2>2, <2>3, DraftKeepsInv
<1>5. ASSUME NEW m \in Mounts, DeletePath(m)
      PROVE  IInv'
  <2>1. Editing /\ UNCHANGED storeVars
    BY <1>5 DEF DeletePath, Chosen
  <2>2. dialog' = [dialog EXCEPT !.draft.mounts = Without(dialog.draft.mounts, m),
                                 !.own = dialog.own \ {m}]
    BY <1>5 DEF DeletePath
  <2>3. Without(dialog.draft.mounts, m) \in MountedPaths /\ dialog.own \ {m} \in SUBSET Mounts
    BY <2>1, EditShape, WithoutIsMountedPaths
  <2> QED
    BY <2>1, <2>2, <2>3, DraftKeepsInv
<1>6. CASE CancelDialog
  BY <1>6, DialogOnlyKeepsInv DEF CancelDialog, Dialogs
<1> QED
  BY <1>1, <1>2, <1>3, <1>4, <1>5, <1>6, RelabelPathKeepsInv DEF Dialog

\* The editor starts again with what is in the file.
LEMMA RestartKeepsInv ==
    ASSUME IInv, Restart, dialog' = NoDialog
    PROVE  IInv'
<1>1. Loaded \in Snapshots
  BY LoadedIsSnapshot DEF IInv, TypeOK
<1>2. Loaded = acked
  <2>1. CASE disk["config"] = Absent
    BY <2>1 DEF Loaded, IInv, FileIsWhole, OnDisk
  <2>2. CASE disk["config"] # Absent
    <3>1. content[disk["config"]] = acked /\ acked \in Snapshots
      BY <2>2 DEF IInv, FileIsWhole, OnDisk, TypeOK, StoreTypeOK
    <3> QED
      BY <2>2, <3>1, StoreAssumption DEF Loaded
  <2> QED
    BY <2>1, <2>2
<1>3. /\ mem' = [id \in Ids |-> IF acked[id] = Absent THEN Absent
                               ELSE [mounts |-> acked[id], password |-> "unset"]]
      /\ acked' = acked
      /\ calls' = [c \in Calls |-> IdleCall]
      /\ crashes' = crashes + 1 /\ crashes < MaxCrashes
      /\ UNCHANGED <<disk, secrets, used, gone, promised>>
  BY <1>2 DEF Restart
<1>4. /\ mem' \in [Ids -> Config \cup {Absent}]
      /\ \A id \in Ids : mem'[id] = Absent <=> acked[id] = Absent
  BY <1>1, <1>2, <1>3, StoreAssumption DEF Snapshots, Config, Passwords
<1>5. /\ content' \in [Inodes -> Snapshots \cup {Torn}]
      /\ disk["config"] # Absent => content'[disk["config"]] = content[disk["config"]]
  <2> DEFINE names == [disk EXCEPT !["tmp"] = Absent]
  <2>1. content \in [Inodes -> Snapshots \cup {Torn}]
        /\ disk \in [{"config", "tmp"} -> Inodes \cup {Absent}]
    BY DEF IInv, TypeOK, StoreTypeOK
  <2>2. "config" \in DOMAIN names /\ names["config"] = disk["config"]
    BY <2>1
  <2>3. content' = Kept(content, names, calls')
    BY DEF Restart
  <2> HIDE DEF names
  <2>4. content' \in [Inodes -> Snapshots \cup {Torn}]
    BY <2>1, <2>3, KeptType
  <2>5. ASSUME disk["config"] # Absent
        PROVE  content'[disk["config"]] = content[disk["config"]]
    <3>1. disk["config"] \in Inodes
      BY <2>1, <2>5
    <3> QED
      BY <2>1, <2>2, <2>3, <3>1, KeptType
  <2> QED
    BY <2>4, <2>5
<1>6. crashes' \in 0..MaxCrashes
  BY <1>3, BoundsAssumption DEF IInv, TypeOK, StoreTypeOK
<1>7. TypeOK'
  BY <1>3, <1>4, <1>5, <1>6, IdleIsCall DEF IInv, TypeOK, StoreTypeOK, Dialogs
<1>8. CallsInv'
  BY <1>3, IdleIsCall DEF CallsInv, WriterInv, MemoryInv, PasswordInv, Changing, Saving
<1>9. NamesDiffer' /\ StoredInv' /\ UsedInv' /\ FileIsWhole'
  BY <1>3, <1>4, <1>5 DEF IInv, TypeOK, StoreTypeOK, NamesDiffer, StoredInv, UsedInv,
     FileIsWhole, OnDisk
<1> QED
  BY <1>7, <1>8, <1>9 DEF IInv
-----------------------------------------------------------------------------
(* The theorems                                                            *)

LEMMA InitInv == Init => IInv
<1> SUFFICES ASSUME Init
             PROVE  IInv
  OBVIOUS
<1>1. TypeOK
  BY NothingIsSnapshot, IdleIsCall, BoundsAssumption
  DEF Init, StoreInit, TypeOK, StoreTypeOK, Nothing, Dialogs
<1>2. CallsInv
  BY IdleIsCall DEF Init, StoreInit, CallsInv, WriterInv, MemoryInv, PasswordInv,
     Changing, Saving
<1>3. NamesDiffer /\ StoredInv /\ UsedInv /\ FileIsWhole
  BY DEF Init, StoreInit, NamesDiffer, StoredInv, UsedInv, FileIsWhole, OnDisk, Nothing
<1> QED
  BY <1>1, <1>2, <1>3 DEF IInv

LEMMA NextKeepsInv ==
    ASSUME IInv, Serial, Serial', [Next]_vars
    PROVE  IInv'
<1>1. CASE UNCHANGED vars
  BY <1>1 DEF vars, storeVars, IInv, TypeOK, StoreTypeOK, NamesDiffer, CallsInv, WriterInv,
     MemoryInv, PasswordInv, StoredInv, UsedInv, FileIsWhole, OnDisk
<1>2. CASE Next
  BY <1>2, CommandKeepsInv, CallStepKeepsInv, DialogKeepsInv, RestartKeepsInv DEF Next
<1> QED
  BY <1>1, <1>2

LEMMA Invariance == Spec /\ []Serial => []IInv
<1>1. IInv /\ Serial /\ Serial' /\ [Next]_vars => IInv'
  BY NextKeepsInv
<1> QED
  BY <1>1, InitInv, PTL DEF Spec

\* Whatever the dialogs and the sidebar do, every variable of the stored
\* configurations and of the dialogs keeps its shape.
THEOREM DialogsAreTyped == Spec /\ []Serial => []TypeOK
<1>1. IInv => TypeOK
  BY DEF IInv
<1> QED
  BY <1>1, Invariance, PTL

\* saveConfiguration() writes to a temporary file and renames it: whatever fails and
\* whenever the editor is killed, the file holds exactly what the last successful save
\* has written, as long as saves do not overlap.
THEOREM FileStaysWhole == Spec /\ []Serial => []FileIsWhole
<1>1. IInv => FileIsWhole
  BY DEF IInv
<1> QED
  BY <1>1, Invariance, PTL

\* A connection whose removeConnection() has returned never comes back: not through a
\* dialog that was opened before, nor a sidebar command, nor a restart.
THEOREM RemovedIsNeverBack == Spec /\ []Serial => []RemovedStaysRemoved
<1>1. IInv => RemovedStaysRemoved
  BY DEF IInv, StoredInv, FileIsWhole, RemovedStaysRemoved
<1> QED
  BY <1>1, Invariance, PTL

\* A connection that a call has saved with its password keeps both, over every later
\* change, failure and restart, until it is removed or its password deleted.
THEOREM PromisesAreKept == Spec /\ []Serial => []PromisedIsKept
<1>1. IInv => PromisedIsKept
  BY DEF IInv, StoredInv, FileIsWhole, PromisedIsKept
<1> QED
  BY <1>1, Invariance, PTL
=============================================================================
