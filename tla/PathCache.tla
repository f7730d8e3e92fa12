----------------------------- MODULE PathCache -----------------------------
(***************************************************************************)
(* The cache of getCachePath() in core/LocalCacheManager.ts: a Map whose   *)
(* insertion order is the order of use, half of which is evicted when it   *)
(* is full.  A key is a connection and a remote path that passed the       *)
(* checks; the path it is mapped to depends on the key only and is left    *)
(* out.                                                                    *)
(***************************************************************************)
EXTENDS Integers, Sequences, FiniteSets, SequencesExt

CONSTANTS
    Keys,           \* the keys looked up
    PathCacheMax    \* PATH_CACHE_MAX, 1000 in the code

ASSUME MaxAssumption == PathCacheMax \in Nat /\ PathCacheMax > 1

VARIABLES
    pathCache,      \* the keys of the Map, in insertion order
    used            \* history: all keys looked up, by their last use

pathVars == <<pathCache, used>>

PathInit == pathCache = <<>> /\ used = <<>>

\* A key is there once.
Dropped(keys, key) == RemoveFirst(keys, key)

Half == PathCacheMax \div 2

\* Mutation of Miss: one key more than half is evicted.
MissEvictsOneMore(key) ==
    /\ key \notin ToSet(pathCache)
    /\ pathCache' = Append(IF Len(pathCache) >= PathCacheMax
                           THEN SubSeq(pathCache, Half + 2, Len(pathCache))
                           ELSE pathCache, key)

\* A hit moves the key to the end.
Hit(key) ==
    /\ key \in ToSet(pathCache)
    /\ pathCache' = Append(Dropped(pathCache, key), key)

\* A miss adds the key, after the older half is evicted from a full cache.
Miss(key) ==
    /\ key \notin ToSet(pathCache)
    /\ pathCache' = Append(IF Len(pathCache) >= PathCacheMax
                           THEN SubSeq(pathCache, Half + 1, Len(pathCache))
                           ELSE pathCache, key)

GetCachePath(key) ==
    /\ Hit(key) \/ Miss(key)
    /\ used' = Append(Dropped(used, key), key)

PathNext == \E key \in Keys : GetCachePath(key)
-----------------------------------------------------------------------------
\* The Map has no key twice and never more keys than its limit.
CacheIsLimited ==
    /\ pathCache \in Seq(Keys) /\ used \in Seq(Keys)
    /\ IsInjective(pathCache)
    /\ Len(pathCache) <= PathCacheMax

\* "True LRU": what is cached are the keys used last, in the order of their use; and
\* as an eviction takes no more than the older half, the keys used last are hits.
LeastRecentlyUsedGo ==
    LET some == PathCacheMax - Half + 1 IN
    /\ IsSuffix(pathCache, used)
    /\ Len(pathCache) >= IF Len(used) < some THEN Len(used) ELSE some
=============================================================================
