------------------------- MODULE MCConnectionDialog -------------------------
(***************************************************************************)
(* Two connections with one mounted path each, one call at a time or two.  *)
(***************************************************************************)
EXTENDS ConnectionDialog, TLC

CONSTANTS c1, c2, m1, k1, k2, i1, i2, i3, docs, backup

TwoIds == {c1, c2}
OneMount == {m1}
OneCall == {k1}
TwoCalls == {k1, k2}
ThreeInodes == {i1, i2, i3}
OneLabel == {docs}
TwoLabels == {docs, backup}
NoneMisread == {}
OneMisread == {backup}

Symmetry == Permutations(Ids) \cup Permutations(Calls) \cup Permutations(Inodes)
=============================================================================
