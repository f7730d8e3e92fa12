------------------------- MODULE MCSidebarProvider -------------------------
(***************************************************************************)
(* Two directories, two calls at a time.                                   *)
(***************************************************************************)
EXTENDS SidebarProvider, TLC

CONSTANTS d1, d2, c1, c2

TwoDirs == {d1, d2}
TwoCalls == {c1, c2}
BothKinds == {"ftp", "ssh"}
AllOps == {"list", "download", "create", "deleteFile", "renameFile", "mkdir", "delete",
           "rename"}

Symmetry == Permutations(TwoCalls) \cup Permutations(TwoDirs)
=============================================================================
