------------------------------ MODULE SSHDelete ------------------------------
(***************************************************************************)
(* delete() of adapters/SSHAdapter.ts: the entry is looked up, and a       *)
(* directory is removed with all it holds.  The children of a directory    *)
(* are removed side by side, the SFTP answers come in any order, and the   *)
(* first failure rejects while the other branches go on.                   *)
(*                                                                         *)
(* The server holds entries that are directories, links to directories,    *)
(* sockets or block devices, and files; somebody else may add an entry     *)
(* meanwhile, and the server may refuse a removal.                         *)
(***************************************************************************)
EXTENDS Naturals, FiniteSets

CONSTANTS
    Entries, Folders, Links,    \* entries, those that are directories or links
    Specials,                   \* those that are sockets or block devices
    Parent, LinkTo,             \* the directory an entry is in, and a link leads to
    Target,                     \* the entries delete() may be called on
    Additions,                  \* entries that may be added by somebody else
    None

ASSUME DeleteAssumption ==
    /\ Folders \cup Links \cup Specials \cup Target \cup Additions \subseteq Entries
    /\ Folders \cap Links = {} /\ Specials \cap (Folders \cup Links) = {}
    /\ Parent \in [Entries -> Folders \cup {None}]
    /\ LinkTo \in [Links -> Folders]
    /\ None \notin Entries /\ IsFiniteSet(Entries)

VARIABLES
    present,        \* the entries on the server
    deletion,       \* the call: its target and its stage
    frame,          \* per directory: the stage of its recursiveDelete()
    waiting,        \* per directory: children.length - completed
    unlinking,      \* entries whose unlink() is under way
    disturbed       \* history: the server refused a removal, or an entry was added

deleteVars == <<present, deletion, frame, waiting, unlinking, disturbed>>

\* The server, the call and the stages of its branches.
DeleteTypeOK ==
    /\ present \subseteq Entries
    /\ deletion \in [target : Target \cup {None}, recursive : BOOLEAN,
                 pc : {"idle", "stat", "running", "resolved", "rejected"}]
    /\ frame \in [Entries -> {"none", "readdir", "children", "rmdir", "done", "failed"}]
    /\ waiting \in [Entries -> 0..Cardinality(Entries)]
    /\ unlinking \subseteq Entries
    /\ disturbed \in BOOLEAN

DeleteInit ==
    /\ present = Entries \ Additions
    /\ deletion = [target |-> None, recursive |-> FALSE, pc |-> "idle"]
    /\ frame = [e \in Entries |-> "none"]
    /\ waiting = [e \in Entries |-> 0]
    /\ unlinking = {}
    /\ disturbed = FALSE

\* stat() and readdir() follow links; the stages of a directory are kept under its
\* own name.
Resolved(e) == IF e \in Links THEN LinkTo[e] ELSE e

Children(dir) == {e \in present : Parent[e] = dir}

TargetDir == Resolved(deletion.target)

\* The directories an entry lies in: those of every set that has, for the entry and
\* each of its directories, the one that is in.
Ancestors(e) ==
    {d \in Folders : \A dirs \in SUBSET Folders :
        (\A f \in dirs \cup {e} : Parent[f] \in dirs \cup {None}) => d \in dirs}

ASSUME TreeAssumption == \A e \in Entries : e \notin Ancestors(e)

\* The promise of the call: only the first outcome counts.
SettleDelete(outcome) ==
    deletion' = [deletion EXCEPT !.pc = IF @ = "running" THEN outcome ELSE @]

\* Mutation of ChildDone: the directory is removed after the first child.
ChildDoneAtOnce(e, frames) ==
    LET dir == Parent[e] IN
    IF e = TargetDir THEN SettleDelete("resolved") /\ frame' = frames /\ UNCHANGED waiting
    ELSE /\ waiting' = [waiting EXCEPT ![dir] = IF @ = 0 THEN 0 ELSE @ - 1]
         /\ frame' = IF frames[dir] = "children" THEN [frames EXCEPT ![dir] = "rmdir"]
                     ELSE frames
         /\ UNCHANGED deletion

\* The removal of e is done: the directory it was in has one child less to wait for,
\* and is removed after the last one.  A directory that has failed waits no more.
ChildDone(e, frames) ==
    LET dir == Parent[e] IN
    IF e = TargetDir THEN SettleDelete("resolved") /\ frame' = frames /\ UNCHANGED waiting
    ELSE /\ waiting' = [waiting EXCEPT ![dir] = @ - 1]
         /\ frame' = IF frames[dir] = "children" /\ waiting[dir] = 1
                     THEN [frames EXCEPT ![dir] = "rmdir"] ELSE frames
         /\ UNCHANGED deletion

\* The removal of e fails: so do all directories that wait for it.
ChildFails(e, frames) ==
    /\ frame' = [d \in Entries |->
            IF d \in Ancestors(e) /\ frames[d] = "children" THEN "failed" ELSE frames[d]]
    /\ SettleDelete("rejected")
    /\ UNCHANGED waiting
-----------------------------------------------------------------------------
\* delete() calls stat().
Delete(e, recursive) ==
    /\ deletion.pc = "idle"
    /\ deletion' = [target |-> e, recursive |-> recursive, pc |-> "stat"]
    /\ UNCHANGED <<present, frame, waiting, unlinking, disturbed>>

\* Mutation of IsFolder: a link to a directory is taken for one.
IsFolderFollowed(e) == Resolved(e) \in Folders \cup Specials

\* The bit of a directory is also set in the mode of a socket and of a block device.
\* readdir() does not follow the links it lists.
IsFolder(e) == e \in Folders \cup Specials

\* A directory, a link to one, or what is taken for one, is read or removed, anything
\* else unlinked.
StatAnswer ==
    LET isDirectory == IsFolder(TargetDir) IN
    /\ deletion.pc = "stat"
    /\ deletion' = [deletion EXCEPT !.pc = "running"]
    /\ IF isDirectory
       THEN /\ frame' = [frame EXCEPT ![TargetDir] = IF deletion.recursive THEN "readdir" ELSE "rmdir"]
            /\ UNCHANGED unlinking
       ELSE unlinking' = {deletion.target} /\ UNCHANGED frame
    /\ UNCHANGED <<present, waiting, disturbed>>

\* Mutation of Empty: the directory is left to its last child.
EmptyWaits(dir) == "children"

\* A directory with no children is removed at once.
Empty(dir) == "rmdir"

\* The children are removed side by side.
ReadAnswer(dir) ==
    LET children == Children(dir)
        folders == {Resolved(e) : e \in {e \in children : IsFolder(e)}} IN
    /\ frame[dir] = "readdir"
    /\ waiting' = [waiting EXCEPT ![dir] = Cardinality(children)]
    /\ frame' = [d \in Entries |->
            IF d = dir THEN IF children = {} THEN Empty(dir) ELSE "children"
            ELSE IF d \in folders THEN "readdir" ELSE frame[d]]
    /\ unlinking' = unlinking \cup {e \in children : ~IsFolder(e)}
    /\ UNCHANGED <<present, deletion, disturbed>>

UnlinkAnswer(e) ==
    /\ e \in unlinking
    /\ unlinking' = unlinking \ {e}
    /\ \/ /\ present' = present \ {e}
          /\ ChildDone(e, frame)
          /\ UNCHANGED disturbed
       \/ /\ ChildFails(e, frame)
          /\ disturbed' = TRUE
          /\ UNCHANGED present

\* The server removes a directory that is empty, and no link.
RmdirAnswer(dir) ==
    LET isLink == dir = TargetDir /\ deletion.target \in Links IN
    /\ frame[dir] = "rmdir"
    /\ \/ /\ Children(dir) = {} /\ ~isLink
          /\ present' = present \ {dir}
          /\ ChildDone(dir, [frame EXCEPT ![dir] = "done"])
          /\ UNCHANGED disturbed
       \/ /\ ChildFails(dir, [frame EXCEPT ![dir] = "failed"])
          /\ disturbed' = (disturbed \/ (Children(dir) = {} /\ ~isLink))
          /\ UNCHANGED present
    /\ UNCHANGED unlinking

\* The server neither reads nor removes as a directory what is none.
NotADirectory(e) ==
    /\ frame[e] \in {"readdir", "rmdir"}
    /\ ChildFails(e, [frame EXCEPT ![e] = "failed"])
    /\ UNCHANGED <<present, unlinking, disturbed>>

\* The server refuses stat() or readdir().
ServerRefuses ==
    /\ \/ /\ deletion.pc = "stat"
          /\ deletion' = [deletion EXCEPT !.pc = "rejected"]
          /\ UNCHANGED <<frame, waiting>>
       \/ \E dir \in Folders :
            /\ frame[dir] = "readdir"
            /\ ChildFails(dir, [frame EXCEPT ![dir] = "failed"])
    /\ disturbed' = TRUE
    /\ UNCHANGED <<present, unlinking>>

\* Somebody else adds an entry.
Add(e) ==
    /\ e \notin present
    /\ Parent[e] \in present
    /\ e \notin unlinking /\ deletion.pc \in {"stat", "running"}
    /\ present' = present \cup {e}
    /\ disturbed' = TRUE
    /\ UNCHANGED <<deletion, frame, waiting, unlinking>>

Answers ==
    \/ StatAnswer \/ ServerRefuses
    \/ \E dir \in Folders : ReadAnswer(dir) \/ RmdirAnswer(dir)
    \/ \E e \in Specials : NotADirectory(e)
    \/ \E e \in Entries : UnlinkAnswer(e)

DeleteNext ==
    \/ \E e \in Target, recursive \in BOOLEAN : Delete(e, recursive)
    \/ Answers
    \/ \E e \in Additions : Add(e)

\* The server answers every request.
DeleteFairness == WF_deleteVars(Answers)
-----------------------------------------------------------------------------
\* The call removes its target and what lies in it.  If the target is a link to a
\* directory, stat() and readdir() follow it, and what lies in that directory goes, but
\* neither the directory nor the link.  A link met below is removed and not followed.
Doomed(e) == TargetDir \in Ancestors(e) \/ (e = deletion.target /\ e \notin Links)

NothingElseIsRemoved == \A e \in Entries \ (Additions \cup present) : Doomed(e)

\* A recursive delete of a directory only fails if the server refuses something, if
\* somebody adds an entry, or if it comes to a socket or a block device: the branches do
\* not get in each other's way, and no directory is removed before its last child is.
FailsForAReason ==
    /\ deletion.pc = "rejected" /\ deletion.recursive
    /\ deletion.target \notin Links
    => disturbed \/ \E e \in Specials : e = TargetDir \/ TargetDir \in Ancestors(e)

\* The call settles however the branches end.
DeleteSettles == deletion.pc = "stat" ~> deletion.pc \in {"resolved", "rejected"}
=============================================================================
