--------------------------- MODULE MCRemoteFiles ---------------------------
(***************************************************************************)
(* Small instances: two files, both in a directory or one of them.         *)
(***************************************************************************)
EXTENDS RemoteFiles

CONSTANTS f1, f2, x, y, c1, c2

TwoFiles == {f1, f2}
InDir == {f1}
TwoContents == {x, y}
OneCall == {c1}
TwoCalls == {c1, c2}

AllOps == {"read", "save", "pull", "push", "delete", "rename", "other"}
SavesPullsDeletes == {"save", "pull", "delete"}

Symmetry == Permutations(Contents) \cup Permutations(Calls)
FileSymmetry == Symmetry \cup Permutations(Files)     \* when both are in the directory
=============================================================================
