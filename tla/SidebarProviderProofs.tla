----------------------- MODULE SidebarProviderProofs -----------------------
(***************************************************************************)
(* Proofs about SidebarProvider, for any directories, calls, lifetime of   *)
(* the caches, duration of a call, and adapters.                           *)
(*                                                                         *)
(* The inductive invariant says what the adapter's listings, the tree's    *)
(* listings and the calls satisfy one by one, and how they hang together:  *)
(* the client of the FTP library runs one task, so a listing that is kept  *)
(* under a parent of a change lacks that of at most one call, which has    *)
(* not returned yet.                                                       *)
(***************************************************************************)
EXTENDS SidebarProvider, TLAPS

\* The listings the FTP adapter may keep, the tree may keep, and the calls there
\* may be.
KeptLists == {l \in Listing : l.seen <= l.age /\ l.lacks \cap Told = {}}

TreeLists == {l \in Listing : /\ \/ l.seen - l.age <= MaxTrip
                                 \/ l.seen - l.age < Ttl
                              /\ Ftp => "menu" \notin l.lacks}

GoodCalls == {k \in Call : k.seen <= k.trip /\ (Ftp => k.lacks = {})}

ListsInv ==
    /\ dirListCache \in [Dirs -> KeptLists \cup {None}]
    /\ dirCache \in [Dirs -> TreeLists \cup {None}]
    /\ calls \in [Calls -> GoodCalls]

SessionInv ==
    /\ client \in {"none", "asking", "opening", "open", "closed"}
    /\ connected \in BOOLEAN
    /\ task \in Calls \cup {None}
    /\ kindOfAdapter \in Kinds
    /\ ~Ftp \/ client \in {"none", "asking", "opening"} => dirListCache = Empty

\* A call that waits for an FTP server is the task the client runs.
TaskInv == Ftp => \A c \in InFlight : client = "open" /\ task = c

\* A listing that is kept lacks the changes of calls that have not returned.
LacksInv ==
    client = "open" => \A d \in Dirs : dirListCache[d] # None =>
        \A c \in Calls \cap dirListCache[d].lacks :
            calls[c].pc = "changed" /\ d \in Parents(calls[c])

IInv == ListsInv /\ SessionInv /\ TaskInv /\ LacksInv
-----------------------------------------------------------------------------
(* The operators on listings that are kept                                 *)

LEMMA Limits ==
    /\ Ttl \in Nat /\ Ttl >= 1 /\ MaxTrip \in Nat
    /\ Calls \cap Told = {} /\ None \notin Calls
    /\ \A c \in Calls : c \notin Told /\ c # "menu" /\ c # "elsewhere"
    /\ "elsewhere" \notin Told /\ Calls \subseteq Marks /\ Told \subseteq Marks
  BY TimeAssumption, CallsAssumption DEF Told, Marks

LEMMA OlderListing ==
    ASSUME NEW l \in KeptLists \cup TreeLists, l.age # Ttl - 1
    PROVE  /\ l \in KeptLists => [l EXCEPT !.age = @ + 1, !.seen = @ + 1] \in KeptLists
           /\ l \in TreeLists => [l EXCEPT !.age = @ + 1, !.seen = @ + 1] \in TreeLists
<1> DEFINE m == [l EXCEPT !.age = @ + 1, !.seen = @ + 1]
<1>1. l \in Listing /\ l.age \in 0..(Ttl - 1) /\ l.seen \in Nat
      /\ l.lacks \in SUBSET Marks
  BY Limits DEF KeptLists, TreeLists, Listing, Ages
<1>2. m.age = l.age + 1 /\ m.seen = l.seen + 1 /\ m.lacks = l.lacks
      /\ m = [age |-> l.age + 1, seen |-> l.seen + 1, lacks |-> l.lacks]
  <2>1. l = [age |-> l.age, seen |-> l.seen, lacks |-> l.lacks]
    BY <1>1 DEF Listing
  <2> HIDE DEF m
  <2>2. m = [[age |-> l.age, seen |-> l.seen, lacks |-> l.lacks]
               EXCEPT !.age = l.age + 1, !.seen = l.seen + 1]
    BY <2>1 DEF m
  <2> QED
    BY <2>2
<1>3. l.age + 1 \in 0..(Ttl - 1)
  BY <1>1, Limits
<1>4. l.seen + 1 \in Ages
  <2>1. l.seen <= l.age \/ l.seen - l.age <= MaxTrip \/ l.seen - l.age < Ttl
    BY DEF KeptLists, TreeLists
  <2> QED
    BY <1>1, <1>3, <2>1, Limits DEF Ages
<1>5. m \in Listing
  BY <1>1, <1>2, <1>3, <1>4 DEF Listing
<1> HIDE DEF m
<1>6. l \in KeptLists => m \in KeptLists
  BY <1>1, <1>2, <1>5 DEF KeptLists
<1>7. l \in TreeLists => m \in TreeLists
  BY <1>1, <1>2, <1>5, Limits DEF TreeLists
<1> QED
  BY <1>6, <1>7 DEF m

LEMMA AgedLists ==
    ASSUME NEW cache
    PROVE  /\ cache \in [Dirs -> KeptLists \cup {None}] =>
                Aged(cache) \in [Dirs -> KeptLists \cup {None}]
           /\ cache \in [Dirs -> TreeLists \cup {None}] =>
                Aged(cache) \in [Dirs -> TreeLists \cup {None}]
  BY OlderListing DEF Aged

\* What a listing lacks may grow and shrink.
LEMMA OtherLacks ==
    ASSUME NEW l \in KeptLists \cup TreeLists, NEW lacks \in SUBSET Marks
    PROVE  /\ l \in KeptLists /\ lacks \cap Told = {} => [l EXCEPT !.lacks = lacks] \in KeptLists
           /\ l \in TreeLists /\ (Ftp => "menu" \notin lacks) =>
                [l EXCEPT !.lacks = lacks] \in TreeLists
<1> DEFINE m == [l EXCEPT !.lacks = lacks]
<1>1. l \in Listing
  BY DEF KeptLists, TreeLists
<1>2. m \in Listing /\ m.age = l.age /\ m.seen = l.seen /\ m.lacks = lacks
  BY <1>1 DEF Listing
<1> HIDE DEF m
<1>3. l \in KeptLists /\ lacks \cap Told = {} => m \in KeptLists
  BY <1>2 DEF KeptLists
<1>4. l \in TreeLists /\ (Ftp => "menu" \notin lacks) => m \in TreeLists
  BY <1>2 DEF TreeLists
<1> QED
  BY <1>3, <1>4 DEF m

LEMMA LacksTyped ==
    ASSUME NEW l \in KeptLists \cup TreeLists
    PROVE  /\ l.lacks \in SUBSET Marks
           /\ l \in KeptLists => l.lacks \cap Told = {}
           /\ l \in TreeLists => (Ftp => "menu" \notin l.lacks)
  BY DEF KeptLists, TreeLists, Listing

\* A change is lacked by its call's mark under a parent, and leaves no mark of one who
\* has been told.
LEMMA LackingFacts ==
    ASSUME NEW d, NEW parents, NEW others, NEW c \in Calls
    PROVE  /\ Lacking(d, parents, others, c) \in SUBSET Marks
           /\ Lacking(d, parents, others, c) \cap Told = {}
           /\ "menu" \notin Lacking(d, parents, others, c)
           /\ \A b \in Calls : b \in Lacking(d, parents, others, c) => b = c /\ d \in parents
           /\ parents = {} /\ others = {} => Lacking(d, parents, others, c) = {}
<1>1. "menu" \in Told /\ "elsewhere" \in Marks
  BY DEF Told, Marks
<1> QED
  BY <1>1, Limits DEF Lacking

LEMMA ChangedLists ==
    ASSUME NEW cache, NEW parents, NEW others, NEW c \in Calls
    PROVE  /\ cache \in [Dirs -> KeptLists \cup {None}] =>
                Changed(cache, parents, others, c) \in [Dirs -> KeptLists \cup {None}]
           /\ cache \in [Dirs -> TreeLists \cup {None}] =>
                Changed(cache, parents, others, c) \in [Dirs -> TreeLists \cup {None}]
<1>1. ASSUME NEW l \in KeptLists \cup TreeLists, NEW d
      PROVE  LET m == [l EXCEPT !.lacks = @ \cup Lacking(d, parents, others, c)] IN
             (l \in KeptLists => m \in KeptLists) /\ (l \in TreeLists => m \in TreeLists)
  <2> DEFINE more == Lacking(d, parents, others, c)
  <2>1. more \in SUBSET Marks /\ more \cap Told = {} /\ "menu" \notin more
    BY LackingFacts
  <2>2. [l EXCEPT !.lacks = @ \cup more] = [l EXCEPT !.lacks = l.lacks \cup more]
    OBVIOUS
  <2> HIDE DEF more
  <2>3. l.lacks \cup more \in SUBSET Marks
    BY <2>1, LacksTyped
  <2>4. l \in KeptLists => (l.lacks \cup more) \cap Told = {}
    BY <2>1, LacksTyped
  <2>5. l \in TreeLists => (Ftp => "menu" \notin l.lacks \cup more)
    BY <2>1, LacksTyped
  <2> QED
    BY <2>2, <2>3, <2>4, <2>5, OtherLacks DEF more
<1> QED
  BY <1>1 DEF Changed

LEMMA ReturnedFacts ==
    ASSUME NEW lacks \in SUBSET Marks, NEW c \in Calls, NEW told \in SUBSET Told
    PROVE  /\ Returned(lacks, c, told) \in SUBSET Marks
           /\ c \notin lacks => Returned(lacks, c, told) = lacks
           /\ told = {} => Returned(lacks, c, told) = lacks \ {c}
           /\ lacks \cap Told = {} /\ (told = {} \/ c \notin lacks) =>
                Returned(lacks, c, told) \cap Told = {}
           /\ "menu" \notin lacks /\ "menu" \notin told => "menu" \notin Returned(lacks, c, told)
           /\ \A b \in Calls : b \in Returned(lacks, c, told) => b \in lacks /\ b # c
  BY Limits DEF Returned

LEMMA ConfirmedTree ==
    ASSUME NEW cache \in [Dirs -> TreeLists \cup {None}], NEW c \in Calls,
           NEW told \in SUBSET Told, Ftp => "menu" \notin told
    PROVE  Confirmed(cache, c, told) \in [Dirs -> TreeLists \cup {None}]
<1>1. ASSUME NEW l \in TreeLists
      PROVE  [l EXCEPT !.lacks = Returned(@, c, told)] \in TreeLists
  <2>1. l.lacks \in SUBSET Marks /\ (Ftp => "menu" \notin l.lacks)
    BY LacksTyped
  <2>2. /\ Returned(l.lacks, c, told) \in SUBSET Marks
        /\ Ftp => "menu" \notin Returned(l.lacks, c, told)
    BY <2>1, ReturnedFacts
  <2>3. [l EXCEPT !.lacks = Returned(@, c, told)] = [l EXCEPT !.lacks = Returned(l.lacks, c, told)]
    OBVIOUS
  <2> QED
    BY <2>2, <2>3, OtherLacks
<1> QED
  BY <1>1 DEF Confirmed

\* A change that rejects, or that no listing lacks.
LEMMA ConfirmedKept ==
    ASSUME NEW cache \in [Dirs -> KeptLists \cup {None}], NEW c \in Calls,
           NEW told \in SUBSET Told,
           told = {} \/ \A d \in Dirs : cache[d] # None => c \notin cache[d].lacks
    PROVE  Confirmed(cache, c, told) \in [Dirs -> KeptLists \cup {None}]
<1>1. ASSUME NEW d \in Dirs, cache[d] # None
      PROVE  [cache[d] EXCEPT !.lacks = Returned(@, c, told)] \in KeptLists
  <2> DEFINE l == cache[d]
  <2>1. l \in KeptLists /\ l.lacks \in SUBSET Marks /\ l.lacks \cap Told = {}
    BY <1>1, LacksTyped
  <2>2. told = {} \/ c \notin l.lacks
    BY <1>1
  <2>3. /\ Returned(l.lacks, c, told) \in SUBSET Marks
        /\ Returned(l.lacks, c, told) \cap Told = {}
    BY <2>1, <2>2, ReturnedFacts
  <2>4. [l EXCEPT !.lacks = Returned(@, c, told)] = [l EXCEPT !.lacks = Returned(l.lacks, c, told)]
    OBVIOUS
  <2> QED
    BY <2>1, <2>3, <2>4, OtherLacks
<1> QED
  BY <1>1 DEF Confirmed

LEMMA ForgottenCalls ==
    ASSUME NEW cache \in [Dirs -> TreeLists \cup {None}], NEW aborted
    PROVE  ForgetCalls(cache, aborted) \in [Dirs -> TreeLists \cup {None}]
<1>1. ASSUME NEW l \in TreeLists
      PROVE  [l EXCEPT !.lacks = @ \ aborted] \in TreeLists
  <2>1. l.lacks \ aborted \in SUBSET Marks /\ (Ftp => "menu" \notin l.lacks \ aborted)
    BY LacksTyped
  <2>2. [l EXCEPT !.lacks = @ \ aborted] = [l EXCEPT !.lacks = l.lacks \ aborted]
    OBVIOUS
  <2> QED
    BY <2>1, <2>2, OtherLacks
<1> QED
  BY <1>1 DEF ForgetCalls

LEMMA WithoutLists ==
    ASSUME NEW S, NEW cache \in [Dirs -> S \cup {None}], NEW dirs
    PROVE  /\ Without(cache, dirs) \in [Dirs -> S \cup {None}]
           /\ Empty \in [Dirs -> S \cup {None}]
  BY DEF Without, Empty
-----------------------------------------------------------------------------
(* The calls                                                               *)

LEMMA IdleIsGood == Idle \in GoodCalls /\ Idle.pc = "idle"
<1>1. 0 \in 0..MaxTrip /\ 0 \in Ages /\ {} \in SUBSET Marks
  BY Limits DEF Ages
<1> QED
  BY <1>1 DEF Idle, GoodCalls, Call

LEMMA IdleFields == Idle \in Call /\ Idle.seen = 0 /\ Idle.trip = 0 /\ Idle.lacks = {}
  BY IdleIsGood DEF Idle, GoodCalls

LEMMA CallFacts ==
    ASSUME ListsInv, NEW c \in Calls
    PROVE  /\ calls[c] \in GoodCalls /\ calls[c] \in Call
           /\ calls[c].seen \in Ages /\ calls[c].seen \in Nat /\ calls[c].seen <= calls[c].trip
           /\ calls[c].trip \in Nat /\ calls[c].trip <= MaxTrip
           /\ calls[c].lacks \in SUBSET Marks
           /\ Ftp => calls[c].lacks = {}
  BY Limits DEF ListsInv, GoodCalls, Call, Ages

\* On FTP, a call in flight is the only one.
LEMMA OneTask ==
    ASSUME TaskInv, Ftp, NEW c \in InFlight
    PROVE  client = "open" /\ task = c /\ InFlight = {c}
  BY DEF TaskInv

LEMMA NoTask ==
    ASSUME TaskInv, Ftp, client # "open" \/ task = None
    PROVE  InFlight = {}
  BY Limits DEF TaskInv, InFlight

\* Another stage of a call, with nothing else about it changed.
LEMMA OtherStage ==
    ASSUME NEW k \in GoodCalls,
           NEW pc \in {"idle", "input", "listing", "listed", "changing", "changed"}
    PROVE  [k EXCEPT !.pc = pc] \in GoodCalls /\ [k EXCEPT !.pc = pc].pc = pc
  BY DEF GoodCalls, Call

LEMMA OtherCallLacks ==
    ASSUME NEW k \in GoodCalls, NEW lacks \in SUBSET Marks, Ftp => lacks = {}
    PROVE  /\ [k EXCEPT !.lacks = lacks] \in GoodCalls
           /\ [k EXCEPT !.lacks = lacks].pc = k.pc
           /\ Parents([k EXCEPT !.lacks = lacks]) = Parents(k)
  BY DEF GoodCalls, Call, Parents, Renames

LEMMA AbortedCalls ==
    ASSUME ListsInv, NEW S
    PROVE  /\ Aborted(S) \in [Calls -> GoodCalls]
           /\ \A c \in Calls : IF c \in S THEN Aborted(S)[c].pc = "idle"
                              ELSE Aborted(S)[c].pc = calls[c].pc
<1>1. ASSUME NEW c \in Calls
      PROVE  /\ [calls[c] EXCEPT !.lacks = @ \ S] \in GoodCalls
             /\ [calls[c] EXCEPT !.lacks = @ \ S].pc = calls[c].pc
  <2>1. calls[c].lacks \ S \in SUBSET Marks /\ (Ftp => calls[c].lacks \ S = {})
    BY CallFacts
  <2>2. [calls[c] EXCEPT !.lacks = @ \ S] = [calls[c] EXCEPT !.lacks = calls[c].lacks \ S]
    OBVIOUS
  <2> QED
    BY <2>1, <2>2, CallFacts, OtherCallLacks
<1> QED
  BY <1>1, IdleIsGood DEF Aborted

LEMMA GoodCallsKept ==
    ASSUME UNCHANGED kindOfAdapter
    PROVE  GoodCalls' = GoodCalls /\ TreeLists' = TreeLists /\ KeptLists' = KeptLists
           /\ Ftp' = Ftp
  BY DEF GoodCalls, TreeLists, KeptLists, Ftp

\* A step that changes one call which has not changed anything yet.
LEMMA LacksFrame ==
    ASSUME LacksInv, NEW c \in Calls, \A b \in Calls \ {c} : calls'[b] = calls[b],
           calls[c].pc # "changed", UNCHANGED <<client, dirListCache>>
    PROVE  LacksInv'
  BY DEF LacksInv, Parents, Renames

LEMMA TaskFrame ==
    ASSUME TaskInv, NEW c \in Calls, \A b \in Calls \ {c} : calls'[b] = calls[b],
           calls'[c].pc \in {"idle", "input"} \/ c \in InFlight,
           UNCHANGED <<client, task, kindOfAdapter>>
    PROVE  TaskInv'
  BY DEF TaskInv, InFlight, Ftp

\* One call changes and keeps to the rules, and nothing else does.
LEMMA OneCallChanges ==
    ASSUME IInv, NEW c \in Calls, NEW k \in GoodCalls, calls' = [calls EXCEPT ![c] = k],
           calls[c].pc # "changed", k.pc \in {"idle", "input"} \/ c \in InFlight,
           UNCHANGED <<ftpVars, kindOfAdapter, dirCache>>
    PROVE  IInv'
<1>1. /\ \A b \in Calls \ {c} : calls'[b] = calls[b]
      /\ calls'[c] = k /\ calls' \in [Calls -> GoodCalls]
      /\ UNCHANGED <<client, connected, task, dirListCache>>
  BY DEF IInv, ListsInv, ftpVars
<1>2. ListsInv'
  BY <1>1, GoodCallsKept DEF IInv, ListsInv
<1>3. SessionInv'
  BY <1>1, GoodCallsKept DEF IInv, SessionInv
<1> QED
  BY <1>1, <1>2, <1>3, LacksFrame, TaskFrame DEF IInv
-----------------------------------------------------------------------------
(* The session                                                             *)

LEMMA OpenKeeps ==
    ASSUME IInv, Open
    PROVE  IInv'
<1>1. UNCHANGED <<kindOfAdapter, calls>> /\ dirListCache' = dirListCache /\ task' = task
  BY DEF Open, Connect, Confirm, Access
<1>2. dirCache' \in [Dirs -> TreeLists \cup {None}]
  BY WithoutLists DEF Open, IInv, ListsInv
<1>3. ListsInv'
  BY <1>1, <1>2, GoodCallsKept DEF IInv, ListsInv
<1>4. dirListCache = Empty /\ client # "open"
      /\ client' \in {"none", "asking", "opening", "open"} /\ connected' \in BOOLEAN
  BY DEF Open, Connect, Confirm, Access, IInv, SessionInv
<1>5. SessionInv'
  BY <1>1, <1>4, GoodCallsKept DEF IInv, SessionInv
<1>6. TaskInv'
  <2>1. Ftp => InFlight = {}
    BY <1>4, NoTask DEF IInv
  <2> QED
    BY <1>1, <2>1, GoodCallsKept DEF TaskInv, InFlight
<1>7. LacksInv'
  BY <1>1, <1>4 DEF LacksInv, Empty
<1> QED
  BY <1>3, <1>5, <1>6, <1>7 DEF IInv

LEMMA LeaveKeeps ==
    ASSUME IInv, Leave
    PROVE  IInv'
<1>1. /\ UNCHANGED kindOfAdapter /\ client' = "none" /\ connected' = FALSE /\ task' = None
      /\ dirListCache' = Empty /\ dirCache' = Empty /\ calls' = Aborted(Calls)
  BY DEF Leave, Disconnect
<1>2. ListsInv'
  BY <1>1, GoodCallsKept, WithoutLists, AbortedCalls DEF IInv, ListsInv
<1>3. SessionInv'
  BY <1>1, GoodCallsKept DEF IInv, SessionInv
<1>4. InFlight' = {}
  BY <1>1, AbortedCalls DEF InFlight, IInv
<1> QED
  BY <1>1, <1>2, <1>3, <1>4 DEF IInv, TaskInv, LacksInv

LEMMA LoseKeeps ==
    ASSUME IInv, Lose
    PROVE  IInv'
<1>1. /\ UNCHANGED <<kindOfAdapter, dirListCache>> /\ calls' = Aborted(InFlight)
      /\ dirCache' = ForgetCalls(dirCache, InFlight)
      /\ connected' \in BOOLEAN /\ task' \in Calls \cup {None}
  BY DEF Lose, Close, IInv, SessionInv
<1>2. ListsInv'
  BY <1>1, GoodCallsKept, ForgottenCalls, AbortedCalls DEF IInv, ListsInv
<1>3. IF Ftp THEN client' = "closed" ELSE client' = client
  BY DEF Lose, Close
<1>4. SessionInv'
  BY <1>1, <1>3, GoodCallsKept DEF IInv, SessionInv
<1>5. InFlight' = {}
  BY <1>1, AbortedCalls DEF InFlight, IInv
<1>6. LacksInv'
  <2>1. CASE Ftp
    BY <1>3, <2>1 DEF LacksInv
  <2>2. CASE ~Ftp
    BY <1>1, <2>2 DEF LacksInv, IInv, SessionInv, Empty
  <2> QED
    BY <2>1, <2>2
<1> QED
  BY <1>2, <1>4, <1>5, <1>6 DEF IInv, TaskInv

\* A call is sent: the client is free and runs it, or rejects it, or ends both.
LEMMA SendKeeps ==
    ASSUME IInv, NEW c \in Calls, NEW k \in GoodCalls, Send(c, k), UNCHANGED kindOfAdapter,
           calls[c].pc \in {"idle", "input"}
    PROVE  IInv'
<1>1. CASE /\ IF Ftp THEN Launch(c) ELSE UNCHANGED ftpVars
           /\ calls' = [calls EXCEPT ![c] = k]
           /\ UNCHANGED dirCache
  <2>1. /\ \A b \in Calls \ {c} : calls'[b] = calls[b]
        /\ calls' \in [Calls -> GoodCalls]
        /\ UNCHANGED <<client, connected, dirListCache>> /\ task' \in Calls \cup {None}
    BY <1>1 DEF IInv, ListsInv, ftpVars, Launch, SessionInv
  <2>2. ListsInv'
    BY <1>1, <2>1, GoodCallsKept DEF IInv, ListsInv
  <2>3. SessionInv'
    BY <2>1, GoodCallsKept DEF IInv, SessionInv
  <2>4. TaskInv'
    <3> SUFFICES ASSUME Ftp, NEW b \in InFlight'
                 PROVE  client' = "open" /\ task' = b
      BY GoodCallsKept DEF TaskInv
    <3>1. client = "open" /\ task = None /\ task' = c
      BY <1>1 DEF Launch, CanLaunch
    <3>2. InFlight = {}
      BY <3>1, NoTask DEF IInv
    <3> QED
      BY <2>1, <3>1, <3>2 DEF InFlight
  <2>5. LacksInv'
    BY <2>1, LacksFrame DEF IInv
  <2> QED
    BY <2>2, <2>3, <2>4, <2>5 DEF IInv
<1>2. CASE /\ Ftp /\ client = "closed"
           /\ calls' = [calls EXCEPT ![c] = Idle]
           /\ UNCHANGED <<ftpVars, dirCache>>
  BY <1>2, IdleIsGood, OneCallChanges
<1>3. CASE /\ Ftp
           /\ Collide
           /\ calls' = Aborted({c} \cup InFlight)
           /\ dirCache' = ForgetCalls(dirCache, InFlight)
  <2>1. client' = "closed" /\ task' = None /\ UNCHANGED <<connected, dirListCache>>
    BY <1>3 DEF Collide
  <2>2. ListsInv'
    BY <1>3, <2>1, GoodCallsKept, ForgottenCalls, AbortedCalls DEF IInv, ListsInv
  <2>3. SessionInv'
    BY <1>3, <2>1, GoodCallsKept DEF IInv, SessionInv
  <2>4. InFlight' = {}
    BY <1>3, AbortedCalls DEF InFlight, IInv
  <2> QED
    BY <2>1, <2>2, <2>3, <2>4 DEF IInv, TaskInv, LacksInv
<1> QED
  BY <1>1, <1>2, <1>3 DEF Send
-----------------------------------------------------------------------------
(* Listings                                                                *)

LEMMA ListKeeps ==
    ASSUME IInv, NEW c \in Calls, NEW op \in {"expand", "list"}, NEW d \in Dirs, List(c, op, d)
    PROVE  IInv'
<1> DEFINE k == [Idle EXCEPT !.op = op, !.dir = d, !.pc = "listing"]
<1>1. k \in GoodCalls
  <2>1. k \in Call /\ k.seen = 0 /\ k.trip = 0 /\ k.lacks = {}
    BY IdleFields DEF Call
  <2> HIDE DEF k
  <2> QED
    BY <2>1 DEF GoodCalls
<1>2. calls[c].pc = "idle" /\ Send(c, k) /\ UNCHANGED kindOfAdapter
  BY IdleIsGood DEF List
<1> HIDE DEF k
<1> QED
  BY <1>1, <1>2, SendKeeps

\* What the tree takes over from the adapter is less than a lifetime behind.
LEMMA ExpandKeeps ==
    ASSUME IInv, NEW c \in Calls, NEW d \in Dirs, Expand(c, d)
    PROVE  IInv'
<1>1. CASE List(c, "expand", d)
  BY <1>1, ListKeeps
<1>2. CASE /\ Ftp /\ Kept(d)
           /\ dirCache' = [dirCache EXCEPT ![d] =
                             Rows(dirListCache[d].seen, dirListCache[d].lacks)]
           /\ UNCHANGED <<ftpVars, kindOfAdapter, calls>>
  <2> DEFINE l == dirListCache[d]
  <2>1. l \in KeptLists
    BY <1>2 DEF Kept, IInv, ListsInv
  <2>2. Rows(l.seen, l.lacks) \in TreeLists
    <3> DEFINE m == Rows(l.seen, l.lacks)
    <3>1. m.age = 0 /\ m.seen = l.seen /\ m.lacks = l.lacks
      BY DEF Rows
    <3>2. /\ l.seen \in Ages /\ l.seen \in Nat /\ l.age \in 0..(Ttl - 1) /\ l.seen <= l.age
          /\ l.lacks \in SUBSET Marks /\ l.lacks \cap Told = {}
          /\ 0 \in 0..(Ttl - 1)
      BY <2>1, Limits DEF KeptLists, Listing, Ages
    <3>3. m \in Listing
      BY <3>2 DEF Rows, Listing
    <3>4. l.seen - 0 < Ttl /\ "menu" \notin l.lacks
      BY <3>2, Limits DEF Told
    <3> HIDE DEF m
    <3>5. m \in TreeLists
      BY <3>1, <3>3, <3>4 DEF TreeLists
    <3> QED
      BY <3>5 DEF m
  <2>3. ListsInv'
    BY <1>2, <2>2, GoodCallsKept DEF IInv, ListsInv, ftpVars
  <2>4. UNCHANGED <<client, connected, task, dirListCache, kindOfAdapter, calls>>
    BY <1>2 DEF ftpVars
  <2>5. SessionInv' /\ TaskInv' /\ LacksInv'
    BY <2>4, GoodCallsKept DEF IInv, SessionInv, TaskInv, InFlight, LacksInv
  <2> QED
    BY <2>3, <2>5 DEF IInv
<1> QED
  BY <1>1, <1>2 DEF Expand

\* The answer is kept with the time the listing was asked for.
LEMMA ArriveKeeps ==
    ASSUME IInv, NEW c \in Calls, Arrive(c)
    PROVE  IInv'
<1> DEFINE call == calls[c]
           next == IF call.op \in {"expand", "list"} THEN None ELSE c
           k == IF next = None THEN Idle
                ELSE [Idle EXCEPT !.op = call.op, !.dir = call.dir, !.pc = "changing"]
           asked == IF call.trip >= Ttl THEN None
                    ELSE [age |-> call.trip, seen |-> call.seen, lacks |-> call.lacks]
<1>1. /\ call.pc \in {"listing", "listed"} /\ c \in InFlight /\ UNCHANGED kindOfAdapter
      /\ calls' = [calls EXCEPT ![c] = k]
      /\ dirCache' = IF call.op = "expand" /\ call.pc = "listed"
                     THEN [dirCache EXCEPT ![call.dir] = Rows(call.seen, call.lacks)]
                     ELSE dirCache
  BY DEF Arrive, InFlight
<1>2. /\ call \in GoodCalls /\ call \in Call /\ call.seen \in Ages /\ call.seen \in Nat
      /\ call.seen <= call.trip /\ call.trip \in Nat /\ call.trip <= MaxTrip
      /\ call.lacks \in SUBSET Marks /\ (Ftp => call.lacks = {})
  BY CallFacts DEF IInv
<1>3. k \in GoodCalls /\ k.pc \in {"idle", "changing"} /\ (next = None => k.pc = "idle")
  <2>1. CASE next = None
    BY <2>1, IdleIsGood
  <2>2. CASE next # None
    <3> DEFINE m == [Idle EXCEPT !.op = call.op, !.dir = call.dir, !.pc = "changing"]
    <3>1. m \in Call /\ m.seen = 0 /\ m.trip = 0 /\ m.lacks = {} /\ m.pc = "changing"
      BY <1>2, IdleFields DEF Call
    <3>2. k = m
      BY <2>2
    <3> HIDE DEF m
    <3>3. m \in GoodCalls
      BY <3>1 DEF GoodCalls
    <3> HIDE DEF k
    <3> QED
      BY <2>2, <3>1, <3>2, <3>3
  <2> QED
    BY <2>1, <2>2
<1>4. IF ~Ftp THEN UNCHANGED ftpVars
      ELSE /\ task' = next /\ UNCHANGED <<client, connected>>
           /\ \/ dirListCache' = dirListCache
              \/ dirListCache' = [dirListCache EXCEPT ![call.dir] = asked]
  BY DEF Arrive, KeepList
<1>5. Ftp => asked \in KeptLists \cup {None}
  <2>1. CASE call.trip < Ttl /\ Ftp
    <3> DEFINE l == [age |-> call.trip, seen |-> call.seen, lacks |-> call.lacks]
    <3>1. call.trip \in 0..(Ttl - 1) /\ call.lacks = {}
      BY <1>2, <2>1, Limits
    <3>2. l \in Listing
      BY <1>2, <3>1 DEF Listing
    <3>3. l.seen <= l.age /\ l.lacks \cap Told = {}
      BY <1>2, <3>1
    <3>4. l \in KeptLists
      BY <3>2, <3>3 DEF KeptLists
    <3>5. asked = l
      BY <1>2, <2>1, Limits
    <3> QED
      BY <3>4, <3>5
  <2>2. CASE call.trip >= Ttl
    BY <2>2
  <2> QED
    BY <1>2, <2>1, <2>2, Limits
<1>6. Rows(call.seen, call.lacks) \in TreeLists
  <2> DEFINE m == Rows(call.seen, call.lacks)
  <2>1. m.age = 0 /\ m.seen = call.seen /\ m.lacks = call.lacks
    BY DEF Rows
  <2>2. m \in Listing
    BY <1>2, Limits DEF Rows, Listing
  <2>3. m.seen - m.age <= MaxTrip /\ (Ftp => "menu" \notin m.lacks)
    BY <1>2, <2>1, Limits
  <2> HIDE DEF m
  <2>4. m \in TreeLists
    BY <2>2, <2>3 DEF TreeLists
  <2> QED
    BY <2>4 DEF m
<1> HIDE DEF k, asked
<1>7. ListsInv'
  <2>1. dirCache' \in [Dirs -> TreeLists \cup {None}]
    BY <1>1, <1>6 DEF IInv, ListsInv
  <2>2. dirListCache' \in [Dirs -> KeptLists \cup {None}]
    BY <1>4, <1>5 DEF IInv, ListsInv, ftpVars
  <2>3. calls' \in [Calls -> GoodCalls]
    BY <1>1, <1>3 DEF IInv, ListsInv
  <2> QED
    BY <1>1, <2>1, <2>2, <2>3, GoodCallsKept DEF ListsInv
<1>8. \A b \in Calls \ {c} : calls'[b] = calls[b]
  BY <1>1 DEF IInv, ListsInv
<1>9. calls'[c] = k
  BY <1>1 DEF IInv, ListsInv
<1>10. CASE ~Ftp
  <2>1. UNCHANGED <<client, connected, task, dirListCache, kindOfAdapter>>
    BY <1>1, <1>4, <1>10 DEF ftpVars
  <2>2. SessionInv'
    BY <2>1, GoodCallsKept DEF IInv, SessionInv
  <2>3. TaskInv'
    BY <1>10, <2>1, GoodCallsKept DEF TaskInv
  <2>4. LacksInv'
    BY <1>10, <2>1 DEF LacksInv, IInv, SessionInv, Empty
  <2> QED
    BY <1>7, <2>2, <2>3, <2>4 DEF IInv
<1>11. CASE Ftp
  <2>1. client = "open" /\ task = c /\ InFlight = {c}
    BY <1>1, <1>11, OneTask DEF IInv
  <2>2. SessionInv'
    BY <1>1, <1>4, <1>11, <2>1, GoodCallsKept DEF IInv, SessionInv
  <2>3. TaskInv'
    <3> SUFFICES ASSUME NEW b \in InFlight'
                 PROVE  client' = "open" /\ task' = b
      BY DEF TaskInv
    <3>1. b = c
      BY <1>8, <2>1 DEF InFlight
    <3>2. next = c
      BY <1>3, <1>9, <3>1 DEF InFlight
    <3> QED
      BY <1>4, <1>11, <2>1, <3>1, <3>2
  <2>4. LacksInv'
    <3> SUFFICES ASSUME NEW d \in Dirs, dirListCache'[d] # None,
                        NEW b \in Calls \cap dirListCache'[d].lacks
                 PROVE  FALSE
      BY DEF LacksInv
    <3>1. \A a \in Calls : calls[a].pc # "changed"
      BY <1>1, <2>1 DEF InFlight
    <3>2. \A e \in Dirs : dirListCache[e] # None => Calls \cap dirListCache[e].lacks = {}
      BY <2>1, <3>1 DEF IInv, LacksInv
    <3>3. asked # None => asked.lacks = {}
      BY <1>2, <1>11 DEF asked
    <3> QED
      BY <1>4, <1>11, <3>2, <3>3 DEF IInv, ListsInv
  <2> QED
    BY <1>7, <2>2, <2>3, <2>4 DEF IInv
<1> QED
  BY <1>10, <1>11

LEMMA RefreshKeeps ==
    ASSUME IInv, NEW dirs, Refresh(dirs)
    PROVE  IInv'
<1>1. UNCHANGED <<client, connected, task, dirListCache, kindOfAdapter, calls>>
      /\ dirCache' = Without(dirCache, dirs)
  BY DEF Refresh, ftpVars
<1>2. ListsInv'
  BY <1>1, GoodCallsKept, WithoutLists DEF IInv, ListsInv
<1>3. SessionInv' /\ TaskInv' /\ LacksInv'
  BY <1>1, GoodCallsKept DEF IInv, SessionInv, TaskInv, InFlight, LacksInv
<1> QED
  BY <1>2, <1>3 DEF IInv
-----------------------------------------------------------------------------
(* Changes                                                                 *)

LEMMA BeginKeeps ==
    ASSUME IInv, NEW c \in Calls, NEW op, NEW d \in Dirs, NEW to \in Dirs, Begin(c, op, d, to)
    PROVE  IInv'
<1>1. op \in {"expand", "list", "download", "mkdir", "delete", "rename"} \cup Commands
  BY OpsAssumption DEF Begin, Commands
<1> DEFINE k == [Idle EXCEPT !.op = op, !.dir = d, !.to = to, !.pc = "input"]
<1>2. k \in GoodCalls /\ k.pc = "input"
  <2>1. k \in Call /\ k.seen = 0 /\ k.trip = 0 /\ k.lacks = {} /\ k.pc = "input"
    BY <1>1, IdleFields DEF Call
  <2> HIDE DEF k
  <2> QED
    BY <2>1 DEF GoodCalls
<1>3. /\ calls[c].pc = "idle" /\ calls' = [calls EXCEPT ![c] = k]
      /\ UNCHANGED <<ftpVars, kindOfAdapter, dirCache>>
  BY IdleIsGood DEF Begin
<1> HIDE DEF k
<1> QED
  BY <1>2, <1>3, OneCallChanges

LEMMA CancelKeeps ==
    ASSUME IInv, NEW c \in Calls, Cancel(c)
    PROVE  IInv'
  BY IdleIsGood, OneCallChanges DEF Cancel

LEMMA SubmitKeeps ==
    ASSUME IInv, NEW c \in Calls, Submit(c)
    PROVE  IInv'
<1>1. PICK pc \in {"listing", "changing"} :
        calls[c].pc = "input" /\ Send(c, [calls[c] EXCEPT !.pc = pc]) /\ UNCHANGED kindOfAdapter
  BY DEF Submit
<1>2. [calls[c] EXCEPT !.pc = pc] \in GoodCalls
  BY CallFacts, OtherStage DEF IInv
<1> QED
  BY <1>1, <1>2, SendKeeps

\* The server changes a directory: whatever has been listed before lacks it.
LEMMA ServeChangeKeeps ==
    ASSUME IInv, NEW c \in Calls, Serve(c), calls[c].pc = "changing"
    PROVE  IInv'
<1> DEFINE call == calls[c]
           parents == IF Ftp THEN Parents(call) ELSE {}
<1>1. PICK others \in SUBSET (IF Ftp THEN Others(call) ELSE {}) :
        /\ calls' = [b \in Calls |->
                IF b = c THEN [call EXCEPT !.pc = "changed"]
                ELSE IF calls[b].pc = "listed"
                THEN [calls[b] EXCEPT !.lacks =
                            @ \cup Lacking(calls[b].dir, parents, others, c)]
                ELSE calls[b]]
        /\ dirListCache' = Changed(dirListCache, parents, others, c)
        /\ dirCache' = Changed(dirCache, parents, others, c)
        /\ UNCHANGED <<client, connected, task, kindOfAdapter>>
  BY DEF Serve
<1>2. c \in InFlight
  BY DEF InFlight
<1>3. /\ calls'[c] \in GoodCalls /\ calls'[c].pc = "changed"
      /\ Parents(calls'[c]) = Parents(call)
  <2>1. [call EXCEPT !.pc = "changed"] \in GoodCalls /\ [call EXCEPT !.pc = "changed"].pc = "changed"
    BY CallFacts, OtherStage DEF IInv
  <2>2. Parents([call EXCEPT !.pc = "changed"]) = Parents(call)
    BY CallFacts DEF IInv, Parents, Renames, Call
  <2>3. calls'[c] = [call EXCEPT !.pc = "changed"]
    BY <1>1
  <2> QED
    BY <2>1, <2>2, <2>3
<1>4. ASSUME NEW b \in Calls \ {c}
      PROVE  calls'[b] \in GoodCalls /\ calls'[b].pc = calls[b].pc
  <2>1. CASE calls[b].pc = "listed"
    <3> DEFINE lacks == calls[b].lacks \cup Lacking(calls[b].dir, parents, others, c)
    <3>1. ~Ftp
      <4> SUFFICES ASSUME Ftp
                   PROVE  FALSE
        OBVIOUS
      <4>1. b \in InFlight
        BY <2>1 DEF InFlight
      <4>2. task = c /\ task = b
        BY <1>2, <4>1, OneTask DEF IInv
      <4> QED
        BY <4>2
    <3>2. lacks \in SUBSET Marks /\ calls[b] \in GoodCalls
      BY CallFacts, LackingFacts DEF IInv
    <3>3. calls'[b] = [calls[b] EXCEPT !.lacks = lacks]
      BY <1>1, <2>1
    <3> HIDE DEF lacks
    <3> QED
      BY <3>1, <3>2, <3>3, OtherCallLacks
  <2>2. CASE calls[b].pc # "listed"
    <3>1. calls'[b] = calls[b]
      BY <1>1, <2>2
    <3> QED
      BY <3>1, CallFacts DEF IInv
  <2> QED
    BY <2>1, <2>2
<1>5. calls' \in [Calls -> GoodCalls]
  <2>1. \A b \in Calls : calls'[b] \in GoodCalls
    BY <1>3, <1>4
  <2>2. calls' = [b \in Calls |-> calls'[b]]
    BY <1>1
  <2> QED
    BY <2>1, <2>2
<1>6. ListsInv'
  <2>1. dirListCache' \in [Dirs -> KeptLists \cup {None}]
    <3> HIDE DEF parents
    <3> QED
      BY <1>1, ChangedLists DEF IInv, ListsInv
  <2>2. dirCache' \in [Dirs -> TreeLists \cup {None}]
    <3> HIDE DEF parents
    <3> QED
      BY <1>1, ChangedLists DEF IInv, ListsInv
  <2> QED
    BY <1>1, <1>5, <2>1, <2>2, GoodCallsKept DEF ListsInv
<1>7. SessionInv'
  BY <1>1, GoodCallsKept DEF IInv, SessionInv, Changed, Empty
<1>8. TaskInv'
  <2>1. InFlight' = InFlight
    BY <1>3, <1>4 DEF InFlight
  <2> QED
    BY <1>1, <2>1, GoodCallsKept DEF IInv, TaskInv
<1>9. LacksInv'
  <2> SUFFICES ASSUME client = "open", NEW d \in Dirs, dirListCache'[d] # None,
                      NEW b \in Calls \cap dirListCache'[d].lacks
               PROVE  calls'[b].pc = "changed" /\ d \in Parents(calls'[b])
    BY <1>1 DEF LacksInv
  <2>1. Ftp /\ dirListCache[d] # None
    BY <1>1 DEF IInv, SessionInv, Changed, Empty
  <2>2. Calls \cap dirListCache[d].lacks = {}
    <3> SUFFICES ASSUME NEW a \in Calls \cap dirListCache[d].lacks
                 PROVE  FALSE
      OBVIOUS
    <3>1. calls[a].pc = "changed" /\ a \in InFlight
      BY <2>1 DEF IInv, LacksInv, InFlight
    <3>2. a = c
      BY <1>2, <2>1, <3>1, OneTask DEF IInv
    <3> QED
      BY <3>1, <3>2
  <2>3. b = c /\ d \in Parents(call)
    <3>1. dirListCache[d] \in Listing
      BY <2>1 DEF IInv, ListsInv, KeptLists
    <3>2. dirListCache'[d] =
            [dirListCache[d] EXCEPT !.lacks = @ \cup Lacking(d, parents, others, c)]
      BY <1>1, <2>1 DEF Changed
    <3>3. dirListCache'[d].lacks = dirListCache[d].lacks \cup Lacking(d, parents, others, c)
      BY <3>1, <3>2 DEF Listing
    <3>4. b \in Lacking(d, parents, others, c)
      BY <2>2, <3>3
    <3>5. b = c /\ d \in parents
      BY <3>4, LackingFacts
    <3> QED
      BY <2>1, <3>5
  <2> QED
    BY <1>3, <2>3
<1> QED
  BY <1>6, <1>7, <1>8, <1>9 DEF IInv

LEMMA ServeKeeps ==
    ASSUME IInv, NEW c \in Calls, Serve(c)
    PROVE  IInv'
<1>1. CASE /\ calls[c].pc = "listing"
           /\ calls' = [calls EXCEPT ![c].pc = "listed"]
           /\ UNCHANGED <<dirListCache, dirCache>>
  <2>1. [calls[c] EXCEPT !.pc = "listed"] \in GoodCalls /\ c \in InFlight
    BY <1>1, CallFacts, OtherStage DEF IInv, InFlight
  <2>2. calls' = [calls EXCEPT ![c] = [calls[c] EXCEPT !.pc = "listed"]]
    BY <1>1
  <2>3. UNCHANGED <<ftpVars, kindOfAdapter, dirCache>>
    BY <1>1 DEF Serve, ftpVars
  <2> QED
    BY <1>1, <2>1, <2>2, <2>3, OneCallChanges
<1>2. CASE calls[c].pc = "changing"
  BY <1>2, ServeChangeKeeps
<1> QED
  BY <1>1, <1>2 DEF Serve

\* The call returns: on FTP, nothing that is kept lacks its change any more.
LEMMA ReturnKeeps ==
    ASSUME IInv, NEW c \in Calls, NEW ok \in BOOLEAN, Return(c, ok)
    PROVE  IInv'
<1> DEFINE call == calls[c]
           told == IF ~ok THEN {} ELSE IF call.op \in Commands THEN {"menu"} ELSE {"provider"}
<1>1. /\ call.pc \in {"changing", "changed"} /\ c \in InFlight /\ UNCHANGED kindOfAdapter
      /\ ok => call.pc = "changed"
      /\ IF Ftp THEN EndChange(c, Parents(call), call.dir, told) ELSE UNCHANGED ftpVars
      /\ dirCache' = Confirmed(IF ok THEN Without(dirCache, Refreshed(call)) ELSE dirCache,
                               c, told)
      /\ calls' = [b \in Calls |-> IF b = c THEN Idle
                   ELSE [calls[b] EXCEPT !.lacks = Returned(@, c, told)]]
  BY DEF Return, InFlight
<1>2. told \in SUBSET Told /\ (told = {} <=> ~ok)
      /\ ("menu" \in told => ok /\ call.op \in Commands)
  BY DEF Told
<1> HIDE DEF told
<1>3. calls'[c] = Idle /\ calls'[c] \in GoodCalls /\ calls'[c].pc = "idle"
  BY <1>1, IdleIsGood
<1>4. ASSUME NEW b \in Calls \ {c}
      PROVE  calls'[b] \in GoodCalls /\ calls'[b].pc = calls[b].pc
  <2>1. calls[b] \in GoodCalls /\ calls[b].lacks \in SUBSET Marks
        /\ (Ftp => calls[b].lacks = {})
    BY CallFacts DEF IInv
  <2>2. /\ Returned(calls[b].lacks, c, told) \in SUBSET Marks
        /\ Ftp => Returned(calls[b].lacks, c, told) = {}
    BY <1>2, <2>1, ReturnedFacts
  <2>3. calls'[b] = [calls[b] EXCEPT !.lacks = Returned(calls[b].lacks, c, told)]
    BY <1>1
  <2> QED
    BY <2>1, <2>2, <2>3, OtherCallLacks
<1>5. calls' \in [Calls -> GoodCalls]
  <2>1. \A b \in Calls : calls'[b] \in GoodCalls
    BY <1>3, <1>4
  <2>2. calls' = [b \in Calls |-> calls'[b]]
    BY <1>1
  <2> QED
    BY <2>1, <2>2
<1>6. dirCache' \in [Dirs -> TreeLists \cup {None}]
  <2> DEFINE left == IF ok THEN Without(dirCache, Refreshed(call)) ELSE dirCache
  <2>1. left \in [Dirs -> TreeLists \cup {None}]
    BY WithoutLists DEF IInv, ListsInv
  <2>2. CASE "menu" \in told
    <3>1. \A d \in Dirs : left[d] = None
      BY <1>2, <2>2 DEF Without, Refreshed
    <3> HIDE DEF left
    <3> QED
      BY <1>1, <3>1 DEF Confirmed, left
  <2>3. CASE "menu" \notin told
    <3>1. Confirmed(left, c, told) \in [Dirs -> TreeLists \cup {None}]
      <4> HIDE DEF left
      <4> QED
        BY <1>2, <2>1, <2>3, ConfirmedTree
    <3> QED
      BY <1>1, <3>1
  <2> QED
    BY <2>2, <2>3
<1>7. CASE ~Ftp
  <2>1. UNCHANGED <<client, connected, task, dirListCache, kindOfAdapter>>
    BY <1>1, <1>7 DEF ftpVars
  <2>2. ListsInv'
    BY <1>5, <1>6, <2>1, GoodCallsKept DEF IInv, ListsInv
  <2>3. SessionInv' /\ TaskInv'
    BY <1>7, <2>1, GoodCallsKept DEF IInv, SessionInv, TaskInv
  <2>4. LacksInv'
    BY <1>7, <2>1 DEF LacksInv, IInv, SessionInv, Empty
  <2> QED
    BY <2>2, <2>3, <2>4 DEF IInv
<1>8. CASE Ftp
  <2>1. client = "open" /\ task = c /\ InFlight = {c}
    BY <1>1, <1>8, OneTask DEF IInv
  <2> DEFINE left == IF told = {} THEN dirListCache
                     ELSE Without(dirListCache, Forgotten(Parents(call), call.dir))
  <2>2. dirListCache' = Confirmed(left, c, told) /\ task' = None /\ UNCHANGED <<client, connected>>
    BY <1>1, <1>8 DEF EndChange
  <2>3. left \in [Dirs -> KeptLists \cup {None}]
    BY WithoutLists DEF IInv, ListsInv
  <2>4. \A d \in Dirs : left[d] # None => left[d] = dirListCache[d] /\ dirListCache[d] # None
    BY DEF Without
  <2>5. \A d \in Dirs : dirListCache[d] # None => Calls \cap dirListCache[d].lacks \subseteq {c}
    BY <2>1 DEF IInv, LacksInv, InFlight
  <2>6. told = {} \/ \A d \in Dirs : left[d] # None => c \notin left[d].lacks
    <3> SUFFICES ASSUME told # {}, NEW d \in Dirs, left[d] # None, c \in left[d].lacks
                 PROVE  FALSE
      OBVIOUS
    <3>1. d \notin Parents(call)
      BY DEF Without, Forgotten
    <3>2. d \in Parents(call)
      BY <2>1, <2>4 DEF IInv, LacksInv
    <3> QED
      BY <3>1, <3>2
  <2> HIDE DEF left
  <2>7. dirListCache' \in [Dirs -> KeptLists \cup {None}]
    BY <1>2, <2>2, <2>3, <2>6, ConfirmedKept
  <2>8. ListsInv'
    BY <1>1, <1>5, <1>6, <2>7, GoodCallsKept DEF ListsInv
  <2>9. SessionInv'
    BY <1>1, <1>8, <2>1, <2>2, GoodCallsKept DEF IInv, SessionInv
  <2>10. TaskInv'
    <3>1. InFlight' = {}
      BY <1>3, <1>4, <2>1 DEF InFlight
    <3> QED
      BY <3>1 DEF TaskInv
  <2>11. LacksInv'
    <3> SUFFICES ASSUME NEW d \in Dirs, dirListCache'[d] # None,
                        NEW b \in Calls \cap dirListCache'[d].lacks
                 PROVE  FALSE
      BY DEF LacksInv
    <3>1. left[d] # None /\ left[d] \in KeptLists /\ left[d].lacks \in SUBSET Marks
          /\ left[d] \in Listing
      BY <2>2, <2>3, LacksTyped DEF Confirmed, KeptLists
    <3>2. dirListCache'[d] = [left[d] EXCEPT !.lacks = Returned(left[d].lacks, c, told)]
      BY <2>2, <3>1 DEF Confirmed
    <3>3. dirListCache'[d].lacks = Returned(left[d].lacks, c, told)
      BY <3>1, <3>2 DEF Listing
    <3>4. b \in left[d].lacks /\ b # c
      BY <1>2, <3>1, <3>3, ReturnedFacts
    <3> QED
      BY <2>4, <2>5, <3>1, <3>4
  <2> QED
    BY <2>8, <2>9, <2>10, <2>11 DEF IInv
<1> QED
  BY <1>7, <1>8

LEMMA TickKeeps ==
    ASSUME IInv, Tick
    PROVE  IInv'
<1>1. /\ \A c \in InFlight : calls[c].trip < MaxTrip
      /\ dirListCache' = Aged(dirListCache)
      /\ dirCache' = Aged(dirCache)
      /\ calls' = [c \in Calls |->
            IF c \notin InFlight THEN calls[c]
            ELSE [calls[c] EXCEPT !.trip = @ + 1,
                                  !.seen = IF calls[c].pc = "listed" THEN @ + 1 ELSE 0]]
      /\ UNCHANGED <<client, connected, task, kindOfAdapter>>
  BY DEF Tick
<1>2. ASSUME NEW c \in Calls
      PROVE  /\ calls'[c] \in GoodCalls /\ calls'[c].pc = calls[c].pc
             /\ Parents(calls'[c]) = Parents(calls[c])
  <2>1. /\ calls[c] \in GoodCalls /\ calls[c] \in Call /\ calls[c].seen \in Nat
        /\ calls[c].seen <= calls[c].trip /\ calls[c].trip \in Nat
        /\ Ftp => calls[c].lacks = {}
    BY CallFacts DEF IInv
  <2>2. CASE c \notin InFlight
    <3>1. calls'[c] = calls[c]
      BY <1>1, <2>2
    <3> QED
      BY <2>1, <3>1
  <2>3. CASE c \in InFlight
    <3> DEFINE seen == IF calls[c].pc = "listed" THEN calls[c].seen + 1 ELSE 0
               k == [calls[c] EXCEPT !.trip = calls[c].trip + 1, !.seen = seen]
    <3>1. calls'[c] = k
      BY <1>1, <2>3
    <3>2. calls[c].trip + 1 \in 0..MaxTrip
      <4>1. calls[c].trip < MaxTrip /\ calls[c].trip \in Nat /\ MaxTrip \in Nat
        BY <1>1, <2>1, <2>3, Limits
      <4> HIDE DEF seen, k
      <4> QED
        BY <4>1
    <3>3. seen \in Nat /\ seen <= calls[c].trip + 1
      BY <2>1
    <3>4. seen \in Ages
      BY <3>2, <3>3, Limits DEF Ages
    <3> HIDE DEF seen
    <3>5. k \in Call /\ k.trip = calls[c].trip + 1 /\ k.seen = seen /\ k.pc = calls[c].pc
          /\ k.lacks = calls[c].lacks /\ k.op = calls[c].op /\ k.dir = calls[c].dir
          /\ k.to = calls[c].to
      BY <2>1, <3>2, <3>4 DEF Call
    <3> HIDE DEF k
    <3>6. k \in GoodCalls /\ Parents(k) = Parents(calls[c])
      BY <2>1, <3>3, <3>5 DEF GoodCalls, Parents, Renames
    <3> QED
      BY <3>1, <3>5, <3>6
  <2> QED
    BY <2>2, <2>3
<1>3. calls' \in [Calls -> GoodCalls]
  BY <1>1, <1>2
<1>4. ListsInv'
  BY <1>1, <1>3, GoodCallsKept, AgedLists DEF IInv, ListsInv
<1>5. SessionInv'
  BY <1>1, GoodCallsKept DEF IInv, SessionInv, Aged, Empty
<1>6. TaskInv'
  <2>1. InFlight' = InFlight
    BY <1>2 DEF InFlight
  <2> QED
    BY <1>1, <2>1, GoodCallsKept DEF IInv, TaskInv
<1>7. LacksInv'
  <2> SUFFICES ASSUME client = "open", NEW d \in Dirs, dirListCache'[d] # None,
                      NEW b \in Calls \cap dirListCache'[d].lacks
               PROVE  calls'[b].pc = "changed" /\ d \in Parents(calls'[b])
    BY <1>1 DEF LacksInv
  <2>1. dirListCache[d] # None /\ dirListCache[d] \in Listing
        /\ dirListCache'[d] = [dirListCache[d] EXCEPT !.age = @ + 1, !.seen = @ + 1]
    BY <1>1 DEF Aged, IInv, ListsInv, KeptLists
  <2>2. dirListCache'[d].lacks = dirListCache[d].lacks
    BY <2>1 DEF Listing
  <2> QED
    BY <1>2, <2>1, <2>2 DEF IInv, LacksInv
<1> QED
  BY <1>4, <1>5, <1>6, <1>7 DEF IInv
-----------------------------------------------------------------------------
(* Invariance                                                              *)

LEMMA InitKeeps == Init => IInv
<1> SUFFICES ASSUME Init
             PROVE  IInv
  OBVIOUS
<1>1. /\ client = "none" /\ connected = FALSE /\ task = None /\ dirListCache = Empty
      /\ kindOfAdapter \in Kinds /\ dirCache = Empty /\ calls = [c \in Calls |-> Idle]
  BY DEF Init, FtpInit
<1>2. ListsInv
  BY <1>1, IdleIsGood, WithoutLists DEF ListsInv, Empty
<1>3. InFlight = {}
  BY <1>1, IdleIsGood DEF InFlight
<1> QED
  BY <1>1, <1>2, <1>3 DEF IInv, SessionInv, TaskInv, LacksInv

LEMMA StepKeeps ==
    ASSUME IInv, NEW c \in Calls, Step(c)
    PROVE  IInv'
<1>1. ASSUME NEW d \in Dirs, NEW to \in Dirs, RenameFile(c, d, to) \/ RenameEntry(c, d, to)
      PROVE  IInv'
  BY <1>1, BeginKeeps DEF RenameFile, RenameEntry
<1>2. ASSUME NEW d \in Dirs,
             \/ Expand(c, d) \/ ReadDirectory(c, d) \/ Download(c, d)
             \/ Create(c, d) \/ DeleteFile(c, d)
             \/ CreateDirectory(c, d) \/ DeleteEntry(c, d)
      PROVE  IInv'
  BY <1>2, BeginKeeps, ExpandKeeps, ListKeeps
  DEF ReadDirectory, Download, Create, DeleteFile, CreateDirectory, DeleteEntry
<1> QED
  BY <1>1, <1>2, CancelKeeps, SubmitKeeps, ServeKeeps, ArriveKeeps, ReturnKeeps DEF Step

LEMMA NextKeeps ==
    ASSUME IInv, [Next]_vars
    PROVE  IInv'
<1>1. CASE UNCHANGED vars
  <2>1. UNCHANGED <<client, connected, task, dirListCache, kindOfAdapter, calls, dirCache>>
    BY <1>1 DEF vars, ftpVars
  <2> QED
    BY <2>1, GoodCallsKept DEF IInv, ListsInv, SessionInv, TaskInv, InFlight, LacksInv
<1>2. CASE Next
  BY <1>2, OpenKeeps, LeaveKeeps, LoseKeeps, TickKeeps, StepKeeps, RefreshKeeps DEF Next
<1> QED
  BY <1>1, <1>2

LEMMA Invariance == Spec => []IInv
  BY InitKeeps, NextKeeps, PTL DEF Spec

\* Every variable of the tree, the adapter's listings and the calls keeps its shape; in
\* particular no listing is kept longer than its lifetime.
THEOREM TreeIsTyped == Spec => []TypeOK
<1>1. IInv => TypeOK
  BY DEF IInv, ListsInv, SessionInv, TypeOK, FtpTypeOK, KeptLists, TreeLists, GoodCalls
<1> QED
  BY <1>1, Invariance, PTL

\* The two caches on top of each other do not keep each other alive: what the tree shows
\* is at most one lifetime of each, or one call, behind the server.
THEOREM TreeIsRecent == Spec => []ListingIsRecent
<1>1. IInv => ListingIsRecent
  BY DEF IInv, ListsInv, TreeLists, ListingIsRecent
<1> QED
  BY <1>1, Invariance, PTL

\* On FTP, the tree has what the user has changed with the commands of the menu in the
\* directory it shows, under the path that entries name it by, in whatever order
\* listings, commands, refreshes and lost sessions come.  Nothing is claimed of the
\* other paths whose listings a change makes out of date.
THEOREM TreeShowsCommands == Spec => []TreeHasMenuChanges
<1>1. IInv => TreeHasMenuChanges
  BY DEF IInv, ListsInv, TreeLists, TreeHasMenuChanges
<1> QED
  BY <1>1, Invariance, PTL

\* What the FTP adapter keeps under the parent of a change has the change once somebody
\* has been told of it.
THEOREM AdapterKnowsOwnChanges == Spec => []KeptListHasOwnChanges
<1>1. IInv => KeptListHasOwnChanges
  BY DEF IInv, ListsInv, KeptLists, Told, KeptListHasOwnChanges
<1> QED
  BY <1>1, Invariance, PTL
=============================================================================
