------------------------- MODULE LocalCacheManager -------------------------
(***************************************************************************)
(* core/LocalCacheManager.ts: the cached files of one connection on the    *)
(* local disk, each with a sidecar that holds the digest of its content,   *)
(* and the counter that stands for their size in bytes.                    *)
(*                                                                         *)
(* Its methods await the disk several times.  Each definition below is     *)
(* what a method does between two awaits, for the caller's action to use;  *)
(* RemoteFiles runs them one after the other.                              *)
(*                                                                         *)
(* A digest stands for the content it is the digest of.  A digest that is  *)
(* being written equals none, like a missing one.                          *)
(***************************************************************************)
EXTENDS Integers, Sequences, FiniteSets, SequencesExt

CONSTANTS
    Files,          \* remote files
    Inside,         \* those of them in the directory Dir
    Dir,            \* a remote directory
    Contents,       \* what a file can hold
    Torn,           \* what a file holds that is truncated and not yet written
    Absent,         \* no file
    FileSize,       \* bytes of a content
    DigestSize,     \* bytes of a sidecar, 64 in the code
    DirSize,        \* bytes stat() reports for a directory
    MaxSize         \* maxSize, 500 MB by default

ASSUME FilesAssumption == IsFiniteSet(Files) /\ Inside \subseteq Files /\ Dir \notin Files
ASSUME ContentsAssumption == Torn \notin Contents /\ Absent \notin Contents /\ Torn # Absent
ASSUME SizesAssumption == {FileSize, DigestSize, DirSize, MaxSize} \subseteq Nat

VARIABLES
    data,           \* the cached files
    sidecar,        \* the .localhash files
    made,           \* the cache directory of Dir exists
    age,            \* what is in the cache, by modification time
    counter         \* currentCacheSize

cacheVars == <<data, sidecar, made, age, counter>>

\* A cached file or a sidecar.
Entries == {"data", "sidecar"} \X Files

CacheTypeOK ==
    /\ data \in [Files -> Contents \cup {Torn, Absent}]
    /\ sidecar \in [Files -> Contents \cup {Torn, Absent}]
    /\ made \in BOOLEAN
    /\ age \in Seq(Entries)
    /\ ToSet(age) = {e \in Entries : \/ e[1] = "data" /\ data[e[2]] # Absent
                                     \/ e[1] = "sidecar" /\ sidecar[e[2]] # Absent}
    /\ counter \in Nat

\* The cache may have been filled by an earlier run of the editor.
CacheInit ==
    /\ \E old \in [Files -> Contents \cup {Absent}] :
        /\ data = old /\ sidecar = old
        /\ made = (\E f \in Inside : old[f] # Absent)
        /\ age = SetToSeq({e \in Entries : old[e[2]] # Absent})
    /\ counter = 0

Cached(target) == IF target = Dir THEN made ELSE data[target] # Absent

Bytes(content) == IF content \in Contents THEN FileSize ELSE 0

SizeOf(entry) == IF entry[1] = "sidecar" THEN DigestSize ELSE Bytes(data[entry[2]])

\* What is on the disk, in bytes.
CachedBytes == FoldSeq(LAMBDA entry, sum : SizeOf(entry) + sum, 0, age)

Minus(a, b) == IF a > b THEN a - b ELSE 0

\* What is in the cache is there once.
Without(entry) == RemoveFirst(age, entry)

Touched(entry) == Append(Without(entry), entry)
-----------------------------------------------------------------------------
(* writeCache(), which prunes first when the counter is over the limit.    *)

PruneIsDue == counter > MaxSize

\* Mutation of Listed: the newest files come first.
ListedNewestFirst ==
    [i \in 1..Len(age) |-> [entry |-> age[Len(age) + 1 - i],
                            size |-> SizeOf(age[Len(age) + 1 - i])]]

\* getAllCachedFiles(): the oldest files come first.
Listed == [i \in 1..Len(age) |-> [entry |-> age[i], size |-> SizeOf(age[i])]]

\* One file of the list is removed, unless somebody has removed it already.
Unlink(listed) ==
    LET e == listed.entry  f == e[2] IN
    /\ age' = Without(e)
    /\ IF e[1] = "data"
       THEN data' = [data EXCEPT ![f] = Absent] /\ UNCHANGED sidecar
       ELSE sidecar' = [sidecar EXCEPT ![f] = Absent] /\ UNCHANGED data
    /\ counter' = IF e \in ToSet(age) THEN Minus(counter, listed.size) ELSE counter
    /\ UNCHANGED made

\* fs.mkdir() and fs.writeFile() up to the truncation of the file.
Truncate(f) ==
    /\ data' = [data EXCEPT ![f] = Torn]
    /\ made' = (made \/ f \in Inside)
    /\ age' = Touched(<<"data", f>>)
    /\ UNCHANGED <<sidecar, counter>>

Fill(f, content) ==
    /\ data' = [data EXCEPT ![f] = content]
    /\ age' = Touched(<<"data", f>>)
    /\ UNCHANGED <<sidecar, made, counter>>

\* Mutation of WriteLocalHash: only a missing sidecar is written.
WriteLocalHashOnce(f, content) ==
    /\ sidecar' = [sidecar EXCEPT ![f] = IF @ = Absent THEN content ELSE @]
    /\ age' = Touched(<<"sidecar", f>>)
    /\ counter' = counter + Bytes(content)
    /\ UNCHANGED <<data, made>>

\* writeLocalHash() and the end of writeCache().
WriteLocalHash(f, content) ==
    /\ sidecar' = [sidecar EXCEPT ![f] = content]
    /\ age' = Touched(<<"sidecar", f>>)
    /\ counter' = counter + Bytes(content)
    /\ UNCHANGED <<data, made>>
-----------------------------------------------------------------------------
(* deleteCache()                                                           *)

\* Mutation of StatForDelete: the counter is not kept from going below zero.
StatForDeleteUnclamped(target) ==
    /\ counter' = IF ~Cached(target) THEN counter
                  ELSE counter - (IF target = Dir THEN DirSize
                                  ELSE SizeOf(<<"data", target>>))
    /\ UNCHANGED <<data, sidecar, made, age>>

\* The size is subtracted before the file is removed.
StatForDelete(target) ==
    /\ counter' = IF ~Cached(target) THEN counter
                  ELSE Minus(counter, IF target = Dir THEN DirSize
                                      ELSE SizeOf(<<"data", target>>))
    /\ UNCHANGED <<data, sidecar, made, age>>

\* fs.unlink() removes files and refuses directories.
UnlinkData(f) ==
    /\ data' = [data EXCEPT ![f] = Absent]
    /\ age' = Without(<<"data", f>>)
    /\ UNCHANGED <<sidecar, made, counter>>

UnlinkSidecar(f) ==
    /\ sidecar' = [sidecar EXCEPT ![f] = Absent]
    /\ age' = Without(<<"sidecar", f>>)
    /\ UNCHANGED <<data, made, counter>>

\* The editor is started again: only the counter is lost.
CacheRestart == counter' = 0 /\ UNCHANGED <<data, sidecar, made, age>>
=============================================================================
