------------------------ MODULE MCConnectionManager ------------------------
(***************************************************************************)
(* Small instances of the connection manager: one connection with several  *)
(* overlapping sessions, and an ssh and an ftp connection that share the   *)
(* keepalive loop.                                                         *)
(***************************************************************************)
EXTENDS ConnectionManager, TLC

CONSTANTS a, b, s1, s2, s3

OneId == {a}
TwoIds == {a, b}
TwoSessions == {s1, s2}
ThreeSessions == {s1, s2, s3}

\* Nothing tells two sessions apart.
Symmetry == Permutations(Sessions)
=============================================================================
