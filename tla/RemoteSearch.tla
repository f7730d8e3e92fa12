---------------------------- MODULE RemoteSearch ----------------------------
(***************************************************************************)
(* The search of the menu (commands/commandRegistry.ts and                 *)
(* search/SearchEngine.ts) on an SSH connection (adapters/SSHAdapter.ts):  *)
(* rg, or else grep, runs on the server, its output is collected under a   *)
(* timeout that every chunk extends, and each line is taken apart at its   *)
(* colons.                                                                 *)
(*                                                                         *)
(* A line is the sequence of its fields between colons; of a field it      *)
(* matters whether parseInt() reads a number in it, and whether it is      *)
(* longer than the four characters allowed for a column.  Lines that the   *)
(* limit of the output cuts are left out.  One search runs at a time.      *)
(*                                                                         *)
(* The output has no end of its own: chunks may come for ever, and those   *)
(* over the limit are dropped but extend the timeout like any other.       *)
(***************************************************************************)
EXTENDS Integers, Sequences

CONSTANTS
    Matches,        \* what may be found: [path, line, content], sequences of fields
    MaxOutput       \* MAX_OUTPUT_SIZE, in chunks of one match

FieldKinds == {"text", "short", "long"}

ASSUME SearchAssumption ==
    /\ MaxOutput \in Nat \ {0}
    /\ \A m \in Matches :
        /\ {m.path, m.content} \subseteq Seq(FieldKinds) \ {<<>>}
        /\ m.line \in {"short", "long"}

VARIABLES
    search,         \* the command and its promise
    process,        \* what runs on the server
    timer,          \* the timeout: off, running, or due as no chunk came in its time
    found           \* the matches in the output that is kept, in order

searchVars == <<search, process, timer, found>>

\* The command, the process from the call of exec() to the end of its stream, and what
\* it has printed.
SearchTypeOK ==
    /\ search \in {"idle", "pattern", "root", "exec", "running", "resolved", "rejected"}
    /\ process \in {"none", "asked", "rg", "grep", "ended", "failed", "closed"}
    /\ timer \in {"off", "running", "due"}
    /\ found \in Seq(Matches) /\ Len(found) <= MaxOutput

SearchInit ==
    /\ search = "idle" /\ process = "none" /\ timer = "off" /\ found = <<>>
-----------------------------------------------------------------------------
(* The output                                                              *)

\* rg and grep print path:line:content.
Printed(m) == m.path \o <<m.line>> \o m.content

None3 == [path |-> <<>>, line |-> "text", content |-> <<>>]

\* Mutation of ParseLine: any number is taken for a column.
ParseLineAnyColumn(fields) ==
    IF Len(fields) < 3 \/ fields[2] = "text" THEN None3
    ELSE [path |-> <<fields[1]>>, line |-> fields[2],
          content |-> SubSeq(fields, IF Len(fields) > 3 /\ fields[3] # "text" THEN 4 ELSE 3,
                             Len(fields))]

\* parseSearchOutput() and parseLine(): the path ends at the first colon; a short
\* number that a colon follows is taken for a column.
ParseLine(fields) ==
    IF Len(fields) < 3 \/ fields[2] = "text" THEN None3
    ELSE [path |-> <<fields[1]>>, line |-> fields[2],
          content |-> SubSeq(fields, IF Len(fields) > 3 /\ fields[3] = "short" THEN 4 ELSE 3,
                             Len(fields))]
-----------------------------------------------------------------------------
(* The command                                                             *)

\* The connection is chosen and its adapter taken.
ChooseConnection ==
    /\ search \in {"idle", "resolved", "rejected"} /\ process \in {"none", "closed"}
    /\ search' = "pattern" /\ process' = "none" /\ found' = <<>>
    /\ UNCHANGED timer

\* The user enters the pattern and the directory, or leaves.
EnterPattern ==
    /\ search \in {"pattern", "root"}
    /\ search' \in {"idle", IF search = "pattern" THEN "root" ELSE "exec"}
    /\ timer' = IF search' = "exec" THEN "running" ELSE timer
    /\ process' = IF search' = "exec" THEN "asked" ELSE process
    /\ UNCHANGED found

\* The adapter is not connected any more, or refuses the pattern or the directory.
SearchRefused ==
    /\ search = "root"
    /\ search' = "rejected"
    /\ UNCHANGED <<process, timer, found>>
-----------------------------------------------------------------------------
(* The adapter and the server                                              *)

\* exec() answers, maybe after the timeout; "which rg" decides between the two.
ExecAnswers(ok) ==
    /\ process = "asked"
    /\ process' \in IF ok THEN {"rg", "grep"} ELSE {"closed"}
    /\ search' = IF search = "rejected" THEN search ELSE IF ok THEN "running" ELSE "rejected"
    /\ timer' = IF ok THEN timer ELSE "off"
    /\ UNCHANGED found

\* A chunk is kept below the limit of the output.  In any case it starts the timeout
\* again, that of a search which has timed out too.
Data ==
    /\ process \in {"rg", "grep"}
    /\ IF Len(found) < MaxOutput THEN \E m \in Matches : found' = Append(found, m)
       ELSE UNCHANGED found
    /\ timer' = "running"
    /\ UNCHANGED <<search, process>>

\* rg || grep: grep runs when rg ends with an error, or has found nothing.
Fallback ==
    /\ process = "rg"
    /\ process' = "grep"
    /\ UNCHANGED <<search, timer, found>>

ProcessEnds ==
    /\ process \in {"rg", "grep"}
    /\ process' \in IF process = "rg" THEN {"ended"} ELSE {"ended", "failed"}
    /\ process = "rg" => found # <<>>
    /\ UNCHANGED <<search, timer, found>>

\* Mutation of StreamClosed: the timer is left alone.
StreamClosedOnly == UNCHANGED timer

\* The stream is over.
StreamClosed == timer' = "off"

\* The close event, also of a connection that is lost: an exit code other than 0 and
\* 1 rejects.
StreamCloses ==
    /\ process \in {"rg", "grep", "ended", "failed"}
    /\ process' = "closed"
    /\ StreamClosed
    /\ search' = IF search # "running" THEN search
                 ELSE IF process = "ended" THEN "resolved" ELSE "rejected"
    /\ UNCHANGED found

\* The time of the timeout passes without a chunk.
Quiet ==
    /\ timer = "running"
    /\ timer' = "due"
    /\ UNCHANGED <<search, process, found>>

\* The promise of the search rejects, unless it has settled.
SearchTimeout ==
    /\ timer = "due"
    /\ timer' = "off"
    /\ search' = IF search \in {"exec", "running"} THEN "rejected" ELSE search
    /\ UNCHANGED <<process, found>>

SearchNext ==
    \/ ChooseConnection \/ EnterPattern \/ SearchRefused
    \/ \E ok \in BOOLEAN : ExecAnswers(ok)
    \/ Data \/ Fallback \/ ProcessEnds \/ StreamCloses \/ Quiet \/ SearchTimeout

\* Time passes, and timers fire.  Nothing is assumed of the server: it may hang, or
\* send a chunk in time again and again.
SearchFairness == WF_searchVars(Quiet) /\ WF_searchVars(SearchTimeout)
-----------------------------------------------------------------------------
\* A line whose path has no colon is taken apart as it was printed, unless the text
\* starts with a short number and a colon.
LinesAreUnderstood ==
    \A i \in DOMAIN found :
        LET m == found[i] IN
        Len(m.path) = 1 /\ ~(m.content[1] = "short" /\ Len(m.content) > 1) =>
            ParseLine(Printed(m)) = [path |-> m.path, line |-> m.line, content |-> m.content]

\* The timer of a search ends with its stream at the latest, even if exec() answers or
\* chunks come after the timeout.  It may outlive its search: a chunk that comes after
\* the timeout has rejected it starts the timer again, while the stream is open.
NoTimerIsLeft == timer # "off" => process \notin {"none", "closed"}

\* A search settles on a server that hangs at any point, unless its output never ends:
\* the limit of the output stops neither the command nor its extending the timeout.
SearchSettles ==
    \/ []<><<Data>>_searchVars
    \/ search \in {"exec", "running"} ~> search \in {"resolved", "rejected"}
=============================================================================
