----------------------------- MODULE MCExtension -----------------------------
(***************************************************************************)
(* Two connections, an ssh and an ftp one or both ssh, with two terminals. *)
(***************************************************************************)
EXTENDS Extension, TLC

CONSTANTS c1, c2, a1, a2, a3, t1, t2

TwoIds == {c1, c2}
ThreeAdapters == {a1, a2, a3}
TwoAdapters == {a1, a2}
OneTerminal == {t1}
TwoTerminals == {t1, t2}

SshAndFtp == c1 :> "ssh" @@ c2 :> "ftp"
BothSsh == c1 :> "ssh" @@ c2 :> "ssh"

Symmetry == Permutations(Adapters) \cup Permutations(Terminals)
=============================================================================
