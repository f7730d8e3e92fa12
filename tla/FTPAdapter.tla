----------------------------- MODULE FTPAdapter -----------------------------
(***************************************************************************)
(* adapters/FTPAdapter.ts: the session, and the directory listings it      *)
(* keeps for DIR_LIST_CACHE_TTL.  The client of the basic-ftp library runs *)
(* one task at a time: a second one that is launched meanwhile closes the  *)
(* client, and both reject.                                                *)
(*                                                                         *)
(* Time is kept as ages, in ticks: a listing has the age its timestamp     *)
(* says and the age of what it says about the server.  A listing also has  *)
(* the set of changes it lacks: the calls that have changed it since, and  *)
(* who has been told of such a change, the user who chose it in the menu   *)
(* or the provider.                                                        *)
(*                                                                         *)
(* A listing is kept under the path it was asked for, as it was written.   *)
(* What changes a directory is known by the path that path.posix.dirname() *)
(* makes of an entry's, its parents.  It may change listings under other   *)
(* paths too, which nothing forgets, and which then lack a change made     *)
(* elsewhere: of the same directory with a slash at its end (a mounted     *)
(* path) or through a link, of a directory that is removed or moved and of *)
(* those below it, and of the ancestors that ensureDir() makes.            *)
(***************************************************************************)
EXTENDS Naturals, FiniteSets

CONSTANTS
    Dirs,           \* paths of directories, as they are written
    Calls,          \* bound: calls that run at a time
    Ttl,            \* DIR_LIST_CACHE_TTL and DIR_CACHE_TTL, 5 seconds both
    MaxTrip,        \* bound: ticks a call takes
    None

ASSUME TimeAssumption == Ttl \in Nat \ {0} /\ MaxTrip \in Nat

VARIABLES
    client,         \* the session: "none", a stage of connect(), "open" or "closed"
    connected,      \* FTPAdapter.connected
    task,           \* the call whose task the client runs
    dirListCache    \* the listings kept

ftpVars == <<client, connected, task, dirListCache>>

Ages == 0..(2 * Ttl + MaxTrip)

Told == {"menu", "provider"}

Marks == Calls \cup Told \cup {"elsewhere"}

ASSUME CallsAssumption == Calls \cap (Told \cup {"elsewhere"}) = {} /\ None \notin Calls

Listing == [age : 0..(Ttl - 1), seen : Ages, lacks : SUBSET Marks]

FtpTypeOK ==
    /\ client \in {"none", "asking", "opening", "open", "closed"}
    /\ connected \in BOOLEAN
    /\ task \in Calls \cup {None}
    /\ dirListCache \in [Dirs -> Listing \cup {None}]

Empty == [d \in Dirs |-> None]

FtpInit == client = "none" /\ connected = FALSE /\ task = None /\ dirListCache = Empty

IsConnected == connected /\ client # "none"

\* A tick in a cache: what has reached its lifetime is never returned again.
Aged(cache) == [d \in Dirs |->
    IF cache[d] = None \/ cache[d].age = Ttl - 1 THEN None
    ELSE [cache[d] EXCEPT !.age = @ + 1, !.seen = @ + 1]]

\* What a change by a call adds to what the listing under d lacks.
Lacking(d, parents, others, c) ==
    (IF d \in parents THEN {c} ELSE {}) \cup (IF d \in others THEN {"elsewhere"} ELSE {})

Changed(cache, parents, others, c) == [d \in Dirs |->
    IF cache[d] = None THEN None
    ELSE [cache[d] EXCEPT !.lacks = @ \cup Lacking(d, parents, others, c)]]

\* The end of the call; told is empty if it rejects.
Returned(lacks, c, told) == IF c \in lacks THEN (lacks \ {c}) \cup told ELSE lacks

Confirmed(cache, c, told) == [d \in Dirs |->
    IF cache[d] = None THEN None
    ELSE [cache[d] EXCEPT !.lacks = Returned(@, c, told)]]

Without(cache, dirs) == [d \in Dirs |-> IF d \in dirs THEN None ELSE cache[d]]
-----------------------------------------------------------------------------
(* connect() and disconnect()                                              *)

\* Port 990 is opened at once; port 21 is refused unless a setting allows it, and
\* the user is asked.
Connect ==
    /\ client = "none"
    /\ client' \in {"none", "opening", "asking"}
    /\ UNCHANGED <<connected, task, dirListCache>>

Confirm ==
    /\ client = "asking"
    /\ client' \in {"none", "opening"}
    /\ UNCHANGED <<connected, task, dirListCache>>

Access ==
    /\ client = "opening"
    /\ \/ client' = "open" /\ connected' = TRUE
       \/ client' = "none" /\ UNCHANGED connected
    /\ UNCHANGED <<task, dirListCache>>

\* disconnect(): the running task rejects.
Disconnect ==
    /\ client # "none"
    /\ client' = "none"
    /\ connected' = FALSE
    /\ task' = None
    /\ dirListCache' = Empty

\* basic-ftp: the server, the network or the 30 s socket timeout ends the session.
\* The adapter is not told.
Close ==
    /\ client = "open"
    /\ client' = "closed"
    /\ task' = None
    /\ UNCHANGED <<connected, dirListCache>>
-----------------------------------------------------------------------------
(* Tasks of the client.                                                    *)

CanLaunch == client = "open" /\ task = None

\* basic-ftp: a task is launched.
Launch(c) == CanLaunch /\ task' = c /\ UNCHANGED <<client, connected, dirListCache>>

\* basic-ftp: a task is launched while another one runs.
Collide ==
    /\ client = "open" /\ task # None
    /\ client' = "closed"
    /\ task' = None
    /\ UNCHANGED <<connected, dirListCache>>

\* getCachedList(): a listing that is kept is returned, even if the client is closed.
Kept(d) == dirListCache[d] # None

\* Mutation of KeepList: the time is taken when the listing has arrived.
KeepListOnArrival(d, trip, seen, lacks, next) ==
    /\ dirListCache' = [dirListCache EXCEPT ![d] =
                            [age |-> 0, seen |-> seen, lacks |-> lacks]]
    /\ task' = next
    /\ UNCHANGED <<client, connected>>

\* getCachedList(): the listing arrives, and is kept with the time it was asked for.
\* next is the task launched at once after it.
KeepList(d, trip, seen, lacks, next) ==
    /\ dirListCache' = [dirListCache EXCEPT ![d] =
                            IF trip >= Ttl THEN None
                            ELSE [age |-> trip, seen |-> seen, lacks |-> lacks]]
    /\ task' = next
    /\ UNCHANGED <<client, connected>>

\* Mutation of Forgotten: rename() forgets the old parent only.
ForgottenOldParent(parents, d) == {d}

\* writeFile(), delete(), rename() and createDirectory() forget the listing under the
\* path of each parent, and no other; d is the parent of the path, or of the old path.
Forgotten(parents, d) == parents

\* The adapter's call ends, and rejects if nobody is told.
EndChange(c, parents, d, told) ==
    /\ dirListCache' = Confirmed(IF told = {} THEN dirListCache
                                 ELSE Without(dirListCache, Forgotten(parents, d)), c, told)
    /\ task' = None
    /\ UNCHANGED <<client, connected>>
=============================================================================
