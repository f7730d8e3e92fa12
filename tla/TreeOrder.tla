------------------------------ MODULE TreeOrder ------------------------------
(***************************************************************************)
(* The order of the rows in providers/SidebarProvider.ts: the sort modes   *)
(* set on directories, the comparison and the limit on the rows.  A path   *)
(* is the sequence of its names.  A field of an entry is a number; "type"  *)
(* is the extension.                                                       *)
(***************************************************************************)
EXTENDS Integers, Sequences, FiniteSets

CONSTANTS
    Paths,          \* the directories shown, with all their parents
    Fields,         \* SortField
    Samples,        \* entries that may be listed
    MaxListed,      \* bound: entries of a listing
    MaxItems        \* remote-fs.maxTreeItems

ASSUME OrderAssumption ==
    /\ Paths \subseteq Seq(STRING)
    /\ Fields \subseteq {"name", "mtime", "size", "type"}
    /\ Samples \subseteq [isDir : BOOLEAN, name : Nat, mtime : Nat, size : Nat, type : Nat]
    /\ MaxListed \in Nat
    /\ MaxItems \in Nat

VARIABLES
    sortConfigs,    \* the sort mode of each directory it was set on
    listed          \* the entries of some directory, in the server's order

orderVars == <<sortConfigs, listed>>

SortConfigs == [field : Fields, asc : BOOLEAN]
Default == [field |-> "name", asc |-> TRUE]

Listings == UNION {[1..n -> Samples] : n \in 0..MaxListed}

\* The map holds sort modes of directories.
OrderTypeOK ==
    /\ DOMAIN sortConfigs \subseteq Paths
    /\ \A path \in DOMAIN sortConfigs : sortConfigs[path] \in SortConfigs
    /\ listed \in Listings

OrderInit == sortConfigs = <<>> /\ listed \in Listings

Prefix(path, n) == SubSeq(path, 1, n)

\* getSortConfig(): the mode of the nearest directory that has one.
SortConfig(path) ==
    LET set == {n \in 0..Len(path) : Prefix(path, n) \in DOMAIN sortConfigs}
        nearest == CHOOSE n \in set : \A m \in set : m <= n
    IN IF set = {} THEN Default ELSE sortConfigs[Prefix(path, nearest)]

\* The comparison of two entries: negative if a comes first.
Difference(a, b, field) ==
    IF field # "type" \/ a.type = b.type
    THEN LET f == IF field = "type" THEN "name" ELSE field IN a[f] - b[f]
    ELSE a.type - b.type

\* Mutation of Compared: the direction turns the directories too.
ComparedTurned(a, b, cfg) ==
    LET cmp == IF a.isDir # b.isDir THEN (IF a.isDir THEN -1 ELSE 1)
               ELSE Difference(a, b, cfg.field)
    IN IF cfg.asc THEN cmp ELSE -cmp

Compared(a, b, cfg) ==
    CASE a.isDir /\ ~b.isDir -> -1
      [] ~a.isDir /\ b.isDir -> 1
      [] OTHER -> LET cmp == Difference(a, b, cfg.field)
                  IN IF cfg.asc THEN cmp ELSE -cmp

\* Array.sort() is stable: the place of an entry is the number of those before it.
Place(entries, i, cfg) ==
    Cardinality({j \in DOMAIN entries :
        \/ Compared(entries[j], entries[i], cfg) < 0
        \/ j <= i /\ Compared(entries[j], entries[i], cfg) = 0})

\* buildDirectoryItems(): the indexes of the entries in their order, cut off at the
\* limit; 0 is no limit.
DirectoryItems(entries, cfg) ==
    LET shown == IF MaxItems > 0 /\ Len(entries) > MaxItems THEN MaxItems
                 ELSE Len(entries)
    IN [place \in 1..shown |-> {i \in DOMAIN entries : Place(entries, i, cfg) = place}]

\* setSortMode(): the direction is turned if this directory has this field already.
\* The listings it drops are raw: every answer sorts them again.
SetSortMode(path, field) ==
    LET has == path \in DOMAIN sortConfigs /\ sortConfigs[path].field = field
        cfg == [field |-> field, asc |-> IF has THEN ~sortConfigs[path].asc ELSE TRUE]
    IN sortConfigs' = [p \in DOMAIN sortConfigs \cup {path} |->
                            IF p = path THEN cfg ELSE sortConfigs[p]]

OrderNext ==
    /\ \E path \in Paths, field \in Fields : SetSortMode(path, field)
    /\ UNCHANGED listed
-----------------------------------------------------------------------------
\* Whatever the listing and the sort mode, the comparison is consistent: each place
\* is taken by one entry, so that no entry is shown twice or lost in the sort.  And
\* the limit cuts off files before directories, in every direction of the sort: a
\* file is only shown if all directories are, so that they can be opened.
DirectoriesAreCutLast ==
    \A path \in Paths :
        LET items == DirectoryItems(listed, SortConfig(path))
            shown == UNION {items[place] : place \in DOMAIN items}
        IN /\ \A place \in DOMAIN items : Cardinality(items[place]) = 1
           /\ (\E i \in shown : ~listed[i].isDir) =>
                \A i \in DOMAIN listed : listed[i].isDir => i \in shown
=============================================================================
