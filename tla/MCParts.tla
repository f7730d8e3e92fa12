------------------------------ MODULE MCParts ------------------------------
(***************************************************************************)
(* The parts that keep to themselves, checked in one run: the first state  *)
(* chooses one of Chosen, and the others stay in theirs.                   *)
(*                                                                         *)
(* path    six keys on a cache of four, so that evictions follow each      *)
(*         other                                                           *)
(* order   two directories in each other, up to three of four entries that *)
(*         differ, two of them shown; times and sizes compare like names   *)
(* search  matches with colons in the path and in the text                 *)
(* delete  two directories in a directory, one of them empty, and a link   *)
(*         to one outside; a directory with a socket in it                *)
(* agent   three calls on two sockets, two redirects, one chunk            *)
(* ssh     two calls of disconnect(), operations on two names one by one   *)
(***************************************************************************)
EXTENDS PathCache, TreeOrder, RemoteSearch, SSHDelete, AgentAdapter, SSHAdapter

CONSTANTS k1, k2, k3, k4, k5, k6, r1, r2, r3, c1, e1, e2, n1, n2,
          Chosen        \* the parts checked

VARIABLE part           \* the part chosen

vars == <<part, pathVars, orderVars, searchVars, deleteVars, agentVars, sshVars>>

Parts == {"path", "order", "search", "delete", "agent", "ssh"}

ASSUME ChosenAssumption == Chosen \subseteq Parts

SixKeys == {k1, k2, k3, k4, k5, k6}

TwoPaths == {<<>>, <<"a">>, <<"a", "b">>}
TwoFields == {"name", "type"}
FourSamples ==
    {[isDir |-> TRUE, name |-> 1, mtime |-> 2, size |-> 0, type |-> 0],
     [isDir |-> TRUE, name |-> 2, mtime |-> 1, size |-> 1, type |-> 1],
     [isDir |-> FALSE, name |-> 1, mtime |-> 1, size |-> 2, type |-> 1],
     [isDir |-> FALSE, name |-> 2, mtime |-> 2, size |-> 2, type |-> 0]}

Plain == <<"text">>
FiveMatches ==
    {[path |-> Plain, line |-> "short", content |-> Plain],
     [path |-> Plain, line |-> "long", content |-> <<"long", "text">>],
     [path |-> Plain, line |-> "short", content |-> <<"text", "short">>],
     [path |-> Plain, line |-> "short", content |-> <<"short", "text">>],
     [path |-> <<"text", "text">>, line |-> "short", content |-> Plain]}

Tree == [top |-> "none", file |-> "top", sub |-> "top", deep |-> "sub", link |-> "sub",
         side |-> "top",
         away |-> "none", kept |-> "away", new |-> "sub",
         run |-> "none", socket |-> "run"]
TreeEntries == DOMAIN Tree
TreeFolders == {"top", "sub", "side", "away", "run"}
TreeSpecials == {"socket"}
TreeLinks == {"link"}
TreeLinkTo == [link |-> "away"]
TreeTargets == {"top", "file", "link", "run"}
TreeAdditions == {"new"}

ThreeRequests == {r1, r2, r3}
SomeOctets == {0, 9, 10, 11, 15, 16, 17, 31, 32, 168, 169, 171, 172, 173, 192, 253, 254, 255}

TwoEnds == {e1, e2}
TwoNames == {n1, n2}

\* A part that is not chosen has one initial state.
Init ==
    /\ part \in Chosen
    /\ PathInit /\ SearchInit /\ DeleteInit /\ AgentInit
    /\ IF part = "order" THEN OrderInit ELSE sortConfigs = <<>> /\ listed = <<>>
    /\ SshInit
    /\ part # "ssh" => \A name \in Names : server[name] = Absent

Next ==
    \/ part = "path" /\ PathNext
         /\ UNCHANGED <<part, orderVars, searchVars, deleteVars, agentVars, sshVars>>
    \/ part = "order" /\ OrderNext
         /\ UNCHANGED <<part, pathVars, searchVars, deleteVars, agentVars, sshVars>>
    \/ part = "search" /\ SearchNext
         /\ UNCHANGED <<part, pathVars, orderVars, deleteVars, agentVars, sshVars>>
    \/ part = "delete" /\ DeleteNext
         /\ UNCHANGED <<part, pathVars, orderVars, searchVars, agentVars, sshVars>>
    \/ part = "agent" /\ AgentNext
         /\ UNCHANGED <<part, pathVars, orderVars, searchVars, deleteVars, sshVars>>
    \/ part = "ssh" /\ SshNext
         /\ UNCHANGED <<part, pathVars, orderVars, searchVars, deleteVars, agentVars>>

Spec == Init /\ [][Next]_vars

FairSpec == Spec /\ SearchFairness /\ DeleteFairness /\ AgentFairness /\ SshFairness

\* The state of each part has the types its code gives it.
TypeOK ==
    CASE part = "path" -> CacheIsLimited
      [] part = "order" -> OrderTypeOK
      [] part = "search" -> SearchTypeOK
      [] part = "delete" -> DeleteTypeOK
      [] part = "agent" -> AgentTypeOK
      [] part = "ssh" -> SshTypeOK

\* Who waits is answered, whether the server answers, hangs or goes away: every search
\* on an SSH connection, unless its output goes on for ever, and every disconnect();
\* every delete, if the server answers each request; and every call of an agent's,
\* unless the bodies of redirects that go on for ever hold all sockets.
EverythingSettles == SearchSettles /\ DeleteSettles /\ CallsEnd /\ DisconnectReturns
=============================================================================
