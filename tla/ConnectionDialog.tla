-------------------------- MODULE ConnectionDialog --------------------------
(***************************************************************************)
(* ui/ConnectionDialog.ts and the commands of extension.ts that use it, on *)
(* top of the stored configurations.                                       *)
(*                                                                         *)
(* The editor shows one input at a time, so that at most one dialog is     *)
(* open, but calls and other commands go on behind it.  The wizard that    *)
(* adds a connection reads nothing that others change: its result is a     *)
(* choice.  The dialog that edits one works on a copy of the configuration *)
(* and of the array of its mounted paths, but on the same MountedPath      *)
(* objects.                                                                *)
(***************************************************************************)
EXTENDS ConfigStore

CONSTANT Misread    \* labels with "Back" or "Add" in them: the sub-dialog takes
                    \* the path for one of its two entries of that name

ASSUME MisreadAssumption == Misread \subseteq Labels

VARIABLE dialog     \* the dialog that is open

vars == <<storeVars, dialog>>

NoDialog == [kind |-> "none"]

Dialogs == {NoDialog}
    \cup [kind : {"edit"}, id : Ids, draft : Config,
           own : SUBSET Mounts]     \* paths the dialog has made itself
    \cup [kind : {"delete"}, id : Ids]

TypeOK == StoreTypeOK /\ dialog \in Dialogs

Init == StoreInit /\ dialog = NoDialog

-----------------------------------------------------------------------------
\* The rows of the tree, and of the lists of connections: what a command may be
\* called on.
ConnectionNodes == {id \in Ids : mem[id] # Absent}
MountedPathNodes(id) == IF mem[id] = Absent THEN {} ELSE DOMAIN mem[id].mounts

\* What showAddConnectionDialog() may return when no step that can cancel it
\* does.  The password may be left empty; for a key the passphrase is asked
\* for, may be cancelled, and is returned as the password.  Without a mounted
\* path the root is mounted.
WizardResults ==
    [mounts : MountedPaths \ {<<>>}, password : Passwords]

\* remote-fs.addConnection
Add(c, id) ==
    /\ dialog = NoDialog
    /\ \E conf \in WizardResults : AddConnection(c, id, conf)
    /\ UNCHANGED dialog

\* remote-fs.manageConnections, Edit: the draft of showEditConnectionDialog().
\* Bound: not during the few milliseconds in which a sidebar command reads.
BeginEdit(id) ==
    /\ dialog = NoDialog
    /\ \A c \in Calls : calls[c].pc # "reading"
    /\ id \in ConnectionNodes
    /\ dialog' = [kind |-> "edit", id |-> id, draft |-> mem[id], own |-> {}]
    /\ UNCHANGED storeVars

Editing == dialog.kind = "edit"

\* manageAuth(): a password is typed.  (A passphrase stays in memory, and is
\* not among what is saved.)
EditAuth ==
    /\ Editing
    /\ \E p \in {"empty", "typed"} : dialog' = [dialog EXCEPT !.draft.password = p]
    /\ UNCHANGED storeVars

\* The paths of ms with one more, or with another label, or one less.
With(ms, m, l) == [k \in DOMAIN ms \cup {m} |-> IF k = m THEN l ELSE ms[k]]
Without(ms, m) == [k \in DOMAIN ms \ {m} |-> ms[k]]

\* manageRemotePaths(): a path is added to the draft or taken out of it.
AddPath(m) ==
    /\ Editing
    /\ m \notin DOMAIN dialog.draft.mounts
    /\ \E l \in Labels : dialog' = [dialog EXCEPT !.draft.mounts = With(@, m, l),
                                                   !.own = @ \cup {m}]
    /\ UNCHANGED storeVars

Chosen(m) ==
    /\ Editing
    /\ m \in DOMAIN dialog.draft.mounts
    /\ dialog.draft.mounts[m] \notin Misread

DeletePath(m) ==
    /\ Chosen(m)
    /\ dialog' = [dialog EXCEPT !.draft.mounts = Without(@, m), !.own = @ \ {m}]
    /\ UNCHANGED storeVars

\* A label is edited in the object, which the configuration holds as well if
\* the path was there before.
RelabelPath(m) ==
    LET id == dialog.id
        aliased == m \notin dialog.own /\ m \in MountedPathNodes(id)
    IN
    /\ Chosen(m)
    /\ \E l \in Labels :
          /\ dialog' = [dialog EXCEPT !.draft.mounts = With(@, m, l)]
          /\ mem' = IF aliased THEN [mem EXCEPT ![id].mounts = With(@, m, l)] ELSE mem
    /\ UNCHANGED <<disk, content, secrets, calls, acked, used, gone, promised, crashes>>

\* The dialog is dismissed, or "Done Editing" saves the draft.
CancelDialog ==
    /\ dialog # NoDialog
    /\ dialog' = NoDialog
    /\ UNCHANGED storeVars

DoneEditing(c) ==
    /\ Editing
    /\ UpdateConnection(c, dialog.id, dialog.draft)
    /\ dialog' = NoDialog

\* remote-fs.manageConnections, Delete, with its question.
AskDelete(id) ==
    /\ dialog = NoDialog
    /\ id \in ConnectionNodes
    /\ dialog' = [kind |-> "delete", id |-> id]
    /\ UNCHANGED storeVars

ConfirmDelete(c) ==
    /\ dialog.kind = "delete"
    /\ RemoveConnection(c, dialog.id)
    /\ dialog' = NoDialog

\* remote-fs.renameRemotePath and addToRemotePaths, and deleteRemotePath, of the
\* sidebar; their own questions come before anything is read.
LabelRemotePath(c, id, m) ==
    /\ dialog = NoDialog
    /\ id \in ConnectionNodes
    /\ \E l \in Labels :
          /\ With(mem[id].mounts, m, l) # mem[id].mounts
          /\ BeginSidebarEdit(c, id, With(mem[id].mounts, m, l))
    /\ UNCHANGED dialog

DeleteRemotePath(c, id, m) ==
    /\ dialog = NoDialog
    /\ m \in MountedPathNodes(id)
    /\ BeginSidebarEdit(c, id, Without(mem[id].mounts, m))
    /\ UNCHANGED dialog

Command(c) ==
    \/ \E id \in Ids :
        \/ Add(c, id)
        \/ \E m \in Mounts : LabelRemotePath(c, id, m) \/ DeleteRemotePath(c, id, m)
    \/ DoneEditing(c) \/ ConfirmDelete(c)

Dialog ==
    \/ \E id \in Ids : BeginEdit(id) \/ AskDelete(id)
    \/ EditAuth
    \/ \E m \in Mounts : AddPath(m) \/ DeletePath(m) \/ RelabelPath(m)
    \/ CancelDialog

Next ==
    \/ \E c \in Calls : Command(c) \/ (CallStep(c) /\ UNCHANGED dialog)
    \/ Dialog
    \/ Restart /\ dialog' = NoDialog

Spec == Init /\ [][Next]_vars
=============================================================================
