---------------------------- MODULE PartsProofs ----------------------------
(***************************************************************************)
(* Proofs about the parts that keep to themselves: the cache of paths, the *)
(* order of the rows, the search, the recursive delete, the agent adapter  *)
(* and the SSH session.  Each has a specification of its own; in the last  *)
(* section the run of MCParts is shown to be one of each.                  *)
(***************************************************************************)
EXTENDS MCParts, FiniteSetTheorems, SequenceTheorems, TLAPS

PathSpec == PathInit /\ [][PathNext]_pathVars
OrderSpec == OrderInit /\ [][OrderNext]_orderVars
SearchSpec == SearchInit /\ [][SearchNext]_searchVars
DeleteSpec == DeleteInit /\ [][DeleteNext]_deleteVars
AgentSpec == AgentInit /\ [][AgentNext]_agentVars
SshSpec == SshInit /\ [][SshNext]_sshVars

-----------------------------------------------------------------------------
(* PathCache                                                               *)

\* What is in a sequence is there once.
Once(s) == \A i, j \in 1..Len(s) : s[i] = s[j] => i = j

LEMMA SelectOnce ==
    ASSUME NEW E, NEW s \in Seq(E), Once(s), NEW k \in 1..Len(s)
    PROVE  RemoveFirst(s, s[k]) = RemoveAt(s, k)
<1> DEFINE I == {i \in 1..Len(s) : s[i] = s[k]}
<1>1. I = {k}
  BY DEF Once
<1>2. Min(I) = k
  BY <1>1 DEF Min
<1> QED
  BY <1>1, <1>2 DEF RemoveFirst, SelectInSeq

LEMMA RemoveAtFacts ==
    ASSUME NEW E, NEW s \in Seq(E), NEW k \in 1..Len(s)
    PROVE  /\ RemoveAt(s, k) \in Seq(E)
           /\ Len(RemoveAt(s, k)) = Len(s) - 1
           /\ \A i \in 1..(k - 1) : RemoveAt(s, k)[i] = s[i]
           /\ \A i \in k..(Len(s) - 1) : RemoveAt(s, k)[i] = s[i + 1]
<1> DEFINE front == SubSeq(s, 1, k - 1)
           back == SubSeq(s, k + 1, Len(s))
<1>0. Len(s) \in Nat
  OBVIOUS
<1>1. /\ front \in Seq(E) /\ Len(front) = k - 1
      /\ \A i \in 1..(k - 1) : front[i] = s[i]
  BY <1>0, SubSeqProperties
<1>2. /\ back \in Seq(E) /\ Len(back) = Len(s) - k
      /\ \A i \in 1..(Len(s) - k) : back[i] = s[k + i]
  <2>1. back = [i \in 1..(Len(s) - (k + 1) + 1) |-> s[k + 1 + i - 1]]
    BY <1>0
  <2> QED
    BY <1>0, SubSeqProperties
<1>3. RemoveAt(s, k) = front \o back
  BY DEF RemoveAt
<1> HIDE DEF front, back
<1>4. /\ front \o back \in Seq(E)
      /\ Len(front \o back) = Len(front) + Len(back)
      /\ \A i \in 1..(Len(front) + Len(back)) :
            (front \o back)[i] = IF i <= Len(front) THEN front[i] ELSE back[i - Len(front)]
  BY <1>1, <1>2, ConcatProperties, Zenon
<1>5. ASSUME NEW i \in 1..(k - 1)
      PROVE  (front \o back)[i] = s[i]
  BY <1>0, <1>1, <1>2, <1>4
<1>6. ASSUME NEW i \in k..(Len(s) - 1)
      PROVE  (front \o back)[i] = s[i + 1]
  BY <1>0, <1>1, <1>2, <1>4
<1>7. Len(front \o back) = Len(s) - 1
  BY <1>0, <1>1, <1>2, <1>4
<1> QED
  BY <1>3, <1>4, <1>5, <1>6, <1>7

LEMMA AppendFacts ==
    ASSUME NEW E, NEW s \in Seq(E), NEW e \in E
    PROVE  /\ Append(s, e) \in Seq(E) /\ Len(Append(s, e)) = Len(s) + 1
           /\ \A i \in 1..Len(s) : Append(s, e)[i] = s[i]
           /\ Append(s, e)[Len(s) + 1] = e
    OBVIOUS

Moved(s, k) == Append(Dropped(s, s[k]), s[k])

\* A key that is in the k-th place goes to the end, and those behind it move up.
LEMMA MovedFacts ==
    ASSUME NEW s \in Seq(Keys), Once(s), NEW k \in 1..Len(s)
    PROVE  /\ Moved(s, k) \in Seq(Keys) /\ Len(Moved(s, k)) = Len(s) /\ Once(Moved(s, k))
           /\ Moved(s, k)[Len(s)] = s[k]
           /\ \A i \in 1..(Len(s) - 1) :
                 /\ i < k => Moved(s, k)[i] = s[i]
                 /\ i >= k => Moved(s, k)[i] = s[i + 1]
<1> DEFINE d == RemoveAt(s, k)
           r == Moved(s, k)
<1>0. Len(s) \in Nat /\ Len(s) > 0 /\ s[k] \in Keys
    OBVIOUS
<1>1. Dropped(s, s[k]) = d
    BY SelectOnce DEF Dropped
<1>2. /\ d \in Seq(Keys) /\ Len(d) = Len(s) - 1
      /\ \A i \in 1..(k - 1) : d[i] = s[i]
      /\ \A i \in k..(Len(s) - 1) : d[i] = s[i + 1]
    BY RemoveAtFacts
<1> HIDE DEF d
<1>a. r = Append(d, s[k])
    BY <1>1 DEF Moved
<1> HIDE DEF r
<1>3. /\ r \in Seq(Keys) /\ Len(r) = Len(d) + 1
      /\ \A i \in 1..Len(d) : r[i] = d[i]
      /\ r[Len(d) + 1] = s[k]
    BY <1>0, <1>a, <1>2, AppendFacts
<1>4. Len(r) = Len(s) /\ r[Len(s)] = s[k]
    BY <1>0, <1>2, <1>3
<1>5. \A i \in 1..(Len(s) - 1) :
         /\ i < k => r[i] = s[i]
         /\ i >= k => r[i] = s[i + 1]
    BY <1>0, <1>2, <1>3
<1>6. Once(r)
  <2> SUFFICES ASSUME NEW i \in 1..Len(s), NEW j \in 1..Len(s), i < j, r[i] = r[j]
               PROVE  FALSE
      BY <1>0, <1>4 DEF Once
  <2> DEFINE at(n) == IF n = Len(s) THEN k ELSE IF n < k THEN n ELSE n + 1
  <2>1. at(i) \in 1..Len(s) /\ at(j) \in 1..Len(s) /\ at(i) # at(j)
      BY <1>0
  <2>2. r[i] = s[at(i)] /\ r[j] = s[at(j)]
      BY <1>0, <1>4, <1>5
  <2> QED
      BY <2>1, <2>2 DEF Once
<1> QED
    BY <1>3, <1>4, <1>5, <1>6 DEF r

\* A key that is not there is added.
LEMMA AddedFacts ==
    ASSUME NEW s \in Seq(Keys), Once(s), NEW key \in Keys, \A i \in 1..Len(s) : s[i] # key
    PROVE  /\ Append(s, key) \in Seq(Keys) /\ Len(Append(s, key)) = Len(s) + 1
           /\ Once(Append(s, key))
           /\ Append(s, key)[Len(s) + 1] = key
           /\ \A i \in 1..Len(s) : Append(s, key)[i] = s[i]
<1> DEFINE r == Append(s, key)
<1>0. Len(s) \in Nat
    OBVIOUS
<1>1. /\ r \in Seq(Keys) /\ Len(r) = Len(s) + 1
      /\ r[Len(s) + 1] = key
      /\ \A i \in 1..Len(s) : r[i] = s[i]
    BY AppendFacts
<1> HIDE DEF r
<1>2. Once(r)
    BY <1>0, <1>1 DEF Once
<1> QED
    BY <1>1, <1>2 DEF r

LEMMA NotThere ==
    ASSUME NEW s \in Seq(Keys), NEW key, \A i \in 1..Len(s) : s[i] # key
    PROVE  Dropped(s, key) = s
    BY DEF Dropped, RemoveFirst

\* The keys of the cache are the last of those that were used, in the same order.
IsEnd(s, t) ==
    /\ Len(s) <= Len(t)
    /\ \A i \in 1..Len(s) : s[i] = t[Len(t) - Len(s) + i]

LruInv ==
    /\ pathCache \in Seq(Keys) /\ Once(pathCache) /\ Len(pathCache) <= PathCacheMax
    /\ used \in Seq(Keys) /\ Once(used)
    /\ IsEnd(pathCache, used)
    /\ \/ Len(pathCache) = Len(used)
       \/ Len(pathCache) >= PathCacheMax - Half + 1

LEMMA HalfFacts ==
    /\ PathCacheMax \in Nat /\ Half \in Nat /\ Half >= 1 /\ Half <= PathCacheMax
    BY MaxAssumption DEF Half

LEMMA HitKept ==
    ASSUME LruInv, NEW key \in Keys, Hit(key),
           used' = Append(Dropped(used, key), key)
    PROVE  LruInv'
<1> DEFINE m == Len(pathCache)
           n == Len(used)
<1>0. /\ pathCache \in Seq(Keys) /\ used \in Seq(Keys) /\ Once(pathCache) /\ Once(used)
      /\ m \in Nat /\ n \in Nat /\ m <= n
      /\ \A i \in 1..m : pathCache[i] = used[n - m + i]
    BY DEF LruInv, IsEnd
<1>1. PICK p \in 1..m : pathCache[p] = key
    BY <1>0 DEF Hit, ToSet
<1>2. n - m + p \in 1..n /\ used[n - m + p] = key
    BY <1>0, <1>1
<1>b. PICK q \in 1..n : q = n - m + p
    BY <1>2
<1>a. pathCache' = Moved(pathCache, p) /\ used' = Moved(used, q) /\ used[q] = key
    BY <1>1, <1>2, <1>b DEF Hit, Moved
<1>3. /\ pathCache' \in Seq(Keys) /\ Len(pathCache') = m /\ Once(pathCache')
      /\ pathCache'[m] = key
      /\ \A i \in 1..(m - 1) : /\ i < p => pathCache'[i] = pathCache[i]
                               /\ i >= p => pathCache'[i] = pathCache[i + 1]
    BY <1>0, <1>1, <1>a, MovedFacts, Zenon
<1>4. /\ used' \in Seq(Keys) /\ Len(used') = n /\ Once(used')
      /\ used'[n] = key
      /\ \A i \in 1..(n - 1) : /\ i < q => used'[i] = used[i]
                               /\ i >= q => used'[i] = used[i + 1]
  <2>1. /\ Moved(used, q) \in Seq(Keys) /\ Len(Moved(used, q)) = n
        /\ Once(Moved(used, q)) /\ Moved(used, q)[n] = used[q]
        /\ \A i \in 1..(n - 1) : /\ i < q => Moved(used, q)[i] = used[i]
                                 /\ i >= q => Moved(used, q)[i] = used[i + 1]
      BY <1>0, MovedFacts, Zenon
  <2> QED
      BY <1>a, <2>1, Zenon
<1> HIDE DEF m, n
<1>5. \A i \in 1..m : pathCache'[i] = used'[n - m + i]
  <2> SUFFICES ASSUME NEW i \in 1..m PROVE pathCache'[i] = used'[n - m + i]
      OBVIOUS
  <2>1. CASE i = m
    <3>1. n - m + i = n
        BY <1>0, <2>1
    <3> QED
        BY <1>3, <1>4, <2>1, <3>1, Zenon
  <2>2. CASE i # m
    <3>1. i \in 1..(m - 1) /\ n - m + i \in 1..(n - 1)
        BY <1>0, <2>2
    <3>2. PICK k \in 1..(n - 1) : k = n - m + i
        BY <3>1
    <3>3. /\ i < p => pathCache'[i] = pathCache[i]
          /\ i >= p => pathCache'[i] = pathCache[i + 1]
        BY <1>3, <3>1, Zenon
    <3>4. /\ k < q => used'[k] = used[k]
          /\ k >= q => used'[k] = used[k + 1]
        BY <1>4, Zenon
    <3>5. pathCache[i] = used[k]
        BY <1>0, <3>2
    <3>6. i + 1 \in 1..m /\ n - m + (i + 1) = k + 1
        BY <1>0, <3>1, <3>2
    <3>7. pathCache[i + 1] = used[k + 1]
      <4>1. pathCache[i + 1] = used[n - m + (i + 1)]
          BY <1>0, <3>6, Zenon
      <4> QED
          BY <3>6, <4>1
    <3>8. \/ i < p /\ k < q
          \/ i >= p /\ k >= q
        BY <1>0, <1>b, <3>1, <3>2
    <3>9. pathCache'[i] = used'[k]
        BY <3>3, <3>4, <3>5, <3>7, <3>8, Zenon
    <3> QED
        BY <3>2, <3>9
  <2> QED
      BY <2>1, <2>2
<1>6. IsEnd(pathCache', used')
    BY <1>0, <1>3, <1>4, <1>5 DEF IsEnd
<1> QED
    BY <1>3, <1>4, <1>6 DEF LruInv, m, n

LEMMA MissKept ==
    ASSUME LruInv, NEW key \in Keys, Miss(key),
           used' = Append(Dropped(used, key), key)
    PROVE  LruInv'
<1> DEFINE full == Len(pathCache) >= PathCacheMax
           base == IF full THEN SubSeq(pathCache, Half + 1, Len(pathCache)) ELSE pathCache
           skip == IF full THEN Half ELSE 0
           m == Len(pathCache)
           n == Len(used)
           b == m - skip
<1>0. /\ pathCache \in Seq(Keys) /\ used \in Seq(Keys) /\ Once(pathCache) /\ Once(used)
      /\ m \in Nat /\ n \in Nat /\ m <= n /\ m <= PathCacheMax
      /\ \A i \in 1..m : pathCache[i] = used[n - m + i]
      /\ m = n \/ m >= PathCacheMax - Half + 1
      /\ \A i \in 1..m : pathCache[i] # key
    BY DEF LruInv, IsEnd, Miss, ToSet
<1>1. skip \in Nat /\ b \in Nat /\ b <= m /\ b + 1 <= PathCacheMax
    BY <1>0, HalfFacts
<1>2. /\ base \in Seq(Keys) /\ Len(base) = b
      /\ \A i \in 1..b : base[i] = pathCache[skip + i]
  <2>1. CASE full
    <3>1. /\ SubSeq(pathCache, Half + 1, m) \in Seq(Keys)
          /\ Len(SubSeq(pathCache, Half + 1, m)) = m - Half
          /\ \A i \in 1..(m - Half) : SubSeq(pathCache, Half + 1, m)[i] = pathCache[Half + i]
        BY <1>0, <2>1, HalfFacts
    <3> QED
        BY <2>1, <3>1
  <2>2. CASE ~full
      BY <1>0, <2>2
  <2> QED
      BY <2>1, <2>2
<1>3. pathCache' = Append(base, key)
    BY DEF Miss
<1>4. b = n \/ b + 1 >= PathCacheMax - Half + 1
    BY <1>0, HalfFacts
<1> HIDE DEF base, skip, b
<1>5. \A i \in 1..b : skip + i \in 1..m
    BY <1>0, <1>1 DEF b
<1>6. \A i \in 1..b : base[i] = used[n - b + i] /\ base[i] # key
  <2> SUFFICES ASSUME NEW i \in 1..b PROVE base[i] = used[n - b + i] /\ base[i] # key
      OBVIOUS
  <2>1. base[i] = pathCache[skip + i]
      BY <1>2
  <2>2. n - m + (skip + i) = n - b + i
      BY <1>0, <1>1 DEF b
  <2> QED
      BY <1>0, <1>5, <2>1, <2>2
<1>7. Once(base)
  <2> SUFFICES ASSUME NEW i \in 1..b, NEW j \in 1..b, base[i] = base[j] PROVE i = j
      BY <1>2 DEF Once
  <2>1. pathCache[skip + i] = pathCache[skip + j]
      BY <1>2
  <2>2. skip + i = skip + j
      BY <1>0, <1>5, <2>1 DEF Once
  <2> QED
      BY <1>1, <2>2
<1>8. /\ pathCache' \in Seq(Keys) /\ Len(pathCache') = b + 1 /\ Once(pathCache')
      /\ pathCache'[b + 1] = key
      /\ \A i \in 1..b : pathCache'[i] = base[i]
  <2>1. \A i \in 1..Len(base) : base[i] # key
      BY <1>2, <1>6
  <2>2. /\ Append(base, key) \in Seq(Keys) /\ Len(Append(base, key)) = Len(base) + 1
        /\ Once(Append(base, key))
        /\ Append(base, key)[Len(base) + 1] = key
        /\ \A i \in 1..Len(base) : Append(base, key)[i] = base[i]
      BY <1>2, <1>7, <2>1, AddedFacts, Zenon
  <2> QED
      BY <1>2, <1>3, <2>2, Zenon
<1> HIDE DEF m, n
<1>9. CASE \A q \in 1..n : used[q] # key
  <2>1. used' = Append(used, key)
      BY <1>0, <1>9, NotThere DEF n
  <2>2. /\ used' \in Seq(Keys) /\ Len(used') = n + 1 /\ Once(used')
        /\ used'[n + 1] = key
        /\ \A i \in 1..n : used'[i] = used[i]
    <3>1. \A i \in 1..Len(used) : used[i] # key
        BY <1>9 DEF n
    <3>2. /\ Append(used, key) \in Seq(Keys) /\ Len(Append(used, key)) = Len(used) + 1
          /\ Once(Append(used, key))
          /\ Append(used, key)[Len(used) + 1] = key
          /\ \A i \in 1..Len(used) : Append(used, key)[i] = used[i]
        BY <1>0, <3>1, AddedFacts, Zenon
    <3> QED
        BY <2>1, <3>2, Zenon DEF n
  <2>3. ASSUME NEW i \in 1..(b + 1)
        PROVE  pathCache'[i] = used'[(n + 1) - (b + 1) + i]
    <3>1. CASE i = b + 1
      <4>1. (n + 1) - (b + 1) + i = n + 1
          BY <1>0, <1>1, <3>1
      <4> QED
          BY <1>8, <2>2, <3>1, <4>1, Zenon
    <3>2. CASE i # b + 1
      <4>1. i \in 1..b /\ n - b + i \in 1..n /\ (n + 1) - (b + 1) + i = n - b + i
          BY <1>0, <1>1, <3>2
      <4> QED
          BY <1>6, <1>8, <2>2, <4>1
    <3> QED
        BY <3>1, <3>2
  <2>4. IsEnd(pathCache', used')
    <3>1. b + 1 <= n + 1
        BY <1>0, <1>1
    <3> QED
        BY <1>8, <2>2, <2>3, <3>1, Zenon DEF IsEnd
  <2>5. b + 1 = n + 1 \/ b + 1 >= PathCacheMax - Half + 1
      BY <1>4
  <2> QED
      BY <1>1, <1>8, <2>2, <2>4, <2>5 DEF LruInv
<1>10. ASSUME NEW q \in 1..n, used[q] = key PROVE LruInv'
  <2>1. /\ used' \in Seq(Keys) /\ Len(used') = n /\ Once(used')
        /\ used'[n] = key
        /\ \A i \in 1..(n - 1) : i >= q => used'[i] = used[i + 1]
    <3>1. used' = Moved(used, q)
        BY <1>10 DEF Moved
    <3>2. q \in 1..Len(used)
        BY DEF n
    <3>3. /\ Moved(used, q) \in Seq(Keys) /\ Len(Moved(used, q)) = n
          /\ Once(Moved(used, q)) /\ Moved(used, q)[n] = used[q]
          /\ \A i \in 1..(n - 1) : i >= q => Moved(used, q)[i] = used[i + 1]
        BY <1>0, <3>2, MovedFacts, Zenon DEF n
    <3> QED
        BY <1>10, <3>1, <3>3, Zenon
  <2>2. q <= n - m
    <3> SUFFICES ASSUME q > n - m PROVE FALSE
        BY <1>0
    <3>1. q - (n - m) \in 1..m /\ n - m + (q - (n - m)) = q
        BY <1>0
    <3>2. pathCache[q - (n - m)] = used[q]
        BY <1>0, <3>1
    <3> QED
        BY <1>0, <1>10, <3>1, <3>2
  <2>3. b + 1 <= n
      BY <1>0, <1>1, <2>2
  <2>4. ASSUME NEW i \in 1..(b + 1)
        PROVE  pathCache'[i] = used'[n - (b + 1) + i]
    <3>1. CASE i = b + 1
      <4>1. n - (b + 1) + i = n
          BY <1>0, <1>1, <3>1
      <4> QED
          BY <1>8, <2>1, <3>1, <4>1, Zenon
    <3>2. CASE i # b + 1
      <4>1. i \in 1..b /\ n - b + i \in 1..n
          BY <1>0, <1>1, <3>2
      <4>2. /\ n - (b + 1) + i \in 1..(n - 1) /\ n - (b + 1) + i >= q
            /\ n - (b + 1) + i + 1 = n - b + i
          BY <1>0, <1>1, <2>2, <2>3, <4>1
      <4>3. used'[n - (b + 1) + i] = used[n - b + i]
          BY <2>1, <4>2
      <4>4. pathCache'[i] = used[n - b + i]
          BY <1>6, <1>8, <4>1
      <4> QED
          BY <4>3, <4>4
    <3> QED
        BY <3>1, <3>2
  <2>5. IsEnd(pathCache', used')
    <3>1. Len(pathCache') = b + 1 /\ Len(used') = n
        BY <1>8, <2>1
    <3> QED
        BY <2>3, <2>4, <3>1, Zenon DEF IsEnd
  <2>6. b + 1 = n \/ b + 1 >= PathCacheMax - Half + 1
      BY <1>0, <1>1, <1>4, <2>3
  <2> QED
      BY <1>1, <1>8, <2>1, <2>5, <2>6 DEF LruInv
<1> QED
    BY <1>9, <1>10

LEMMA LruStep == LruInv /\ [PathNext]_pathVars => LruInv'
    BY HitKept, MissKept DEF PathNext, GetCachePath, pathVars, LruInv, IsEnd

LEMMA LruInit == PathInit => LruInv
<1>1. <<>> \in Seq(Keys) /\ Len(<<>>) = 0
    OBVIOUS
<1> QED
    BY <1>1, HalfFacts DEF PathInit, LruInv, Once, IsEnd

\* The end of a sequence, read backwards.
LEMMA EndIsSuffix ==
    ASSUME NEW s \in Seq(Keys), NEW t \in Seq(Keys), IsEnd(s, t)
    PROVE  IsSuffix(s, t)
<1> DEFINE m == Len(s)
           n == Len(t)
           rs == Reverse(s)
           rt == Reverse(t)
<1>0. m \in Nat /\ n \in Nat /\ m <= n /\ \A i \in 1..m : s[i] = t[n - m + i]
    BY DEF IsEnd
<1>1. /\ rs \in Seq(Keys) /\ Len(rs) = m /\ \A i \in 1..m : rs[i] = s[m - i + 1]
      /\ rt \in Seq(Keys) /\ Len(rt) = n /\ \A i \in 1..n : rt[i] = t[n - i + 1]
    BY <1>0 DEF Reverse
<1> HIDE DEF rs, rt, m, n
<1>2. /\ SubSeq(rs, 1, m) \in Seq(Keys) /\ Len(SubSeq(rs, 1, m)) = m
      /\ \A i \in 1..m : SubSeq(rs, 1, m)[i] = rs[i]
    BY <1>0, <1>1
<1>3. /\ SubSeq(rt, 1, m) \in Seq(Keys) /\ Len(SubSeq(rt, 1, m)) = m
      /\ \A i \in 1..m : SubSeq(rt, 1, m)[i] = rt[i]
    BY <1>0, <1>1
<1>4. ASSUME NEW i \in 1..m PROVE rs[i] = rt[i]
  <2>1. m - i + 1 \in 1..m /\ n - m + (m - i + 1) = n - i + 1 /\ i \in 1..n
      BY <1>0
  <2>2. rs[i] = s[m - i + 1] /\ rt[i] = t[n - i + 1]
      BY <1>1, <2>1, Zenon
  <2>3. s[m - i + 1] = t[n - m + (m - i + 1)]
      BY <1>0, <2>1, Zenon
  <2> QED
      BY <2>1, <2>2, <2>3, Zenon
<1>5. SubSeq(rs, 1, m) = SubSeq(rt, 1, m)
    BY <1>0, <1>2, <1>3, <1>4
<1> QED
    BY <1>0, <1>1, <1>5 DEF IsSuffix, IsPrefix, rs, rt

\* The cache of paths never holds a key twice nor more keys than its limit.
THEOREM PathCacheIsLimited == PathSpec => []CacheIsLimited
<1>1. LruInv => CacheIsLimited
  <2> SUFFICES ASSUME LruInv PROVE CacheIsLimited
      OBVIOUS
  <2>1. DOMAIN pathCache = 1..Len(pathCache)
      BY DEF LruInv
  <2> QED
      BY <2>1 DEF LruInv, CacheIsLimited, IsInjective, Once
<1> QED
    BY <1>1, LruInit, LruStep, PTL DEF PathSpec

\* "True LRU", for any keys and any limit above one: the keys cached are those used last,
\* in the order of their use, and no eviction takes more than the older half.
THEOREM RecentlyUsedStay == PathSpec => []LeastRecentlyUsedGo
<1>1. LruInv => LeastRecentlyUsedGo
  <2> SUFFICES ASSUME LruInv PROVE LeastRecentlyUsedGo
      OBVIOUS
  <2>1. IsSuffix(pathCache, used)
      BY EndIsSuffix DEF LruInv
  <2>2. Len(pathCache) \in Nat /\ Len(used) \in Nat
      BY DEF LruInv
  <2>3. Len(pathCache) >= IF Len(used) < PathCacheMax - Half + 1 THEN Len(used)
                          ELSE PathCacheMax - Half + 1
      BY <2>2, HalfFacts DEF LruInv
  <2> QED
      BY <2>1, <2>3 DEF LeastRecentlyUsedGo
<1> QED
    BY <1>1, LruInit, LruStep, PTL DEF PathSpec

-----------------------------------------------------------------------------
(* TreeOrder                                                               *)

LEMMA MaxOfNumbers ==
    ASSUME NEW n \in Nat, NEW S \in SUBSET (0..n), S # {}
    PROVE  \E x \in S : \A y \in S : y <= x
<1> DEFINE R == OpToRel(<, Nat)
           T == {n - x : x \in S}
<1>1. IsWellFoundedOn(R, Nat)
    BY NatLessThanWellFounded
<1>2. T \subseteq Nat /\ T # {}
  <2>1. \A x \in S : x \in Int /\ n - x \in Nat
      OBVIOUS
  <2> QED
      BY <2>1
<1>3. \A t, u \in Nat : u < t => <<u, t>> \in R
    BY DEF OpToRel
<1> HIDE DEF R, T
<1>4. PICK t \in T : \A u \in T : ~ (<<u, t>> \in R)
    BY <1>1, <1>2, WFMin
<1>5. \A u \in T : t <= u
  <2> SUFFICES ASSUME NEW u \in T PROVE t <= u
      OBVIOUS
  <2>1. t \in Nat /\ u \in Nat /\ ~ (<<u, t>> \in R)
      BY <1>2, <1>4
  <2>2. ~ (u < t)
      BY <1>3, <2>1, Zenon
  <2> QED
      BY <2>1, <2>2
<1>6. PICK x \in S : t = n - x
    BY DEF T
<1>7. \A y \in S : n - y \in T
    BY DEF T
<1> QED
    BY <1>5, <1>6, <1>7

\* The sort modes set are sort modes, and so is the one that holds for a directory.
LEMMA ModeIsAMode ==
    ASSUME OrderTypeOK, NEW path \in Paths
    PROVE  SortConfig(path) \in SortConfigs \cup {Default}
<1> DEFINE set == {n \in 0..Len(path) : Prefix(path, n) \in DOMAIN sortConfigs}
           nearest == CHOOSE n \in set : \A m \in set : m <= n
<1>1. CASE set = {}
    BY <1>1 DEF SortConfig
<1>2. CASE set # {}
  <2>1. Len(path) \in Nat
      BY OrderAssumption
  <2>2. \E n \in set : \A m \in set : m <= n
      BY <1>2, <2>1, MaxOfNumbers
  <2>3. nearest \in set
      BY <2>2
  <2>4. sortConfigs[Prefix(path, nearest)] \in SortConfigs
      BY <2>3 DEF OrderTypeOK
  <2>5. SortConfig(path) = sortConfigs[Prefix(path, nearest)]
      BY <1>2 DEF SortConfig
  <2> QED
      BY <2>4, <2>5
<1> QED
    BY <1>1, <1>2

\* The sort modes are kept for directories only, and are sort modes.
THEOREM OrderIsTyped == OrderSpec => []OrderTypeOK
<1>1. OrderInit => OrderTypeOK
  <2> SUFFICES ASSUME OrderInit PROVE OrderTypeOK
      OBVIOUS
  <2>1. DOMAIN sortConfigs = {}
      BY DEF OrderInit
  <2> QED
      BY <2>1 DEF OrderInit, OrderTypeOK
<1>2. OrderTypeOK /\ [OrderNext]_orderVars => OrderTypeOK'
  <2> SUFFICES ASSUME OrderTypeOK, [OrderNext]_orderVars PROVE OrderTypeOK'
      OBVIOUS
  <2>1. CASE UNCHANGED orderVars
      BY <2>1 DEF OrderTypeOK, orderVars
  <2>2. ASSUME NEW path \in Paths, NEW field \in Fields, SetSortMode(path, field),
               UNCHANGED listed
        PROVE  OrderTypeOK'
    <3> DEFINE has == path \in DOMAIN sortConfigs /\ sortConfigs[path].field = field
               asc == IF has THEN ~sortConfigs[path].asc ELSE TRUE
               cfg == [field |-> field, asc |-> asc]
    <3>1. asc \in BOOLEAN
      <4>1. has => sortConfigs[path].asc \in BOOLEAN
          BY DEF OrderTypeOK, SortConfigs
      <4> QED
          BY <4>1
    <3> HIDE DEF asc
    <3>2. cfg \in SortConfigs
        BY <3>1 DEF SortConfigs
    <3>3. sortConfigs' = [p \in DOMAIN sortConfigs \cup {path} |->
                              IF p = path THEN cfg ELSE sortConfigs[p]]
        BY <2>2 DEF SetSortMode, asc
    <3> HIDE DEF cfg
    <3> QED
        BY <2>2, <3>2, <3>3 DEF OrderTypeOK
  <2> QED
      BY <2>1, <2>2 DEF OrderNext
<1> QED
    BY <1>1, <1>2, PTL DEF OrderSpec

-----------------------------------------------------------------------------
\* The comparison orders any entries: it is turned when they change places, and what
\* does not come after something that does not come after a third does not come after it.
LEMMA DifferenceOrders ==
    ASSUME NEW field \in Fields \cup {"name"}
    PROVE  /\ \A a, b \in Samples : Difference(a, b, field) \in Int
           /\ \A a, b \in Samples : Difference(b, a, field) = -Difference(a, b, field)
           /\ \A a, b, c \in Samples :
                 Difference(a, b, field) <= 0 /\ Difference(b, c, field) <= 0
                   => Difference(a, c, field) <= 0
<1>1. \A a \in Samples : a.name \in Nat /\ a.mtime \in Nat /\ a.size \in Nat /\ a.type \in Nat
    BY OrderAssumption
<1>2. field \in {"name", "mtime", "size", "type"}
    BY OrderAssumption
<1>3. CASE field = "type"
    BY <1>1, <1>3 DEF Difference
<1>4. CASE field = "name"
    BY <1>1, <1>4 DEF Difference
<1>5. CASE field = "mtime"
    BY <1>1, <1>5 DEF Difference
<1>6. CASE field = "size"
    BY <1>1, <1>6 DEF Difference
<1> QED
    BY <1>2, <1>3, <1>4, <1>5, <1>6

LEMMA ComparedOrders ==
    ASSUME NEW cfg \in SortConfigs \cup {Default}
    PROVE  /\ \A a, b \in Samples : Compared(a, b, cfg) \in Int
           /\ \A a, b \in Samples : Compared(b, a, cfg) = -Compared(a, b, cfg)
           /\ \A a, b, c \in Samples :
                 Compared(a, b, cfg) <= 0 /\ Compared(b, c, cfg) <= 0
                   => Compared(a, c, cfg) <= 0
           /\ \A a, b \in Samples : a.isDir /\ ~b.isDir => Compared(a, b, cfg) < 0
<1>1. cfg.field \in Fields \cup {"name"} /\ cfg.asc \in BOOLEAN
  <2>1. CASE cfg \in SortConfigs
      BY <2>1 DEF SortConfigs
  <2>2. CASE cfg = Default
      BY <2>2 DEF Default
  <2> QED
      BY <2>1, <2>2
<1> DEFINE D(a, b) == Difference(a, b, cfg.field)
<1>2. /\ \A a, b \in Samples : D(a, b) \in Int
      /\ \A a, b \in Samples : D(b, a) = -D(a, b)
      /\ \A a, b, c \in Samples : D(a, b) <= 0 /\ D(b, c) <= 0 => D(a, c) <= 0
    BY <1>1, DifferenceOrders
<1>3. \A a \in Samples : a.isDir \in BOOLEAN
    BY OrderAssumption
<1>4. \A a, b \in Samples :
          Compared(a, b, cfg) = IF a.isDir /\ ~b.isDir THEN -1
                                ELSE IF ~a.isDir /\ b.isDir THEN 1
                                ELSE IF cfg.asc THEN D(a, b) ELSE -D(a, b)
    BY <1>3 DEF Compared
<1> HIDE DEF D
<1>5. \A a, b \in Samples : Compared(a, b, cfg) \in Int
    BY <1>1, <1>2, <1>3, <1>4
<1>6. \A a, b \in Samples : Compared(b, a, cfg) = -Compared(a, b, cfg)
    BY <1>1, <1>2, <1>3, <1>4
<1>7. ASSUME NEW a \in Samples, NEW b \in Samples, NEW c \in Samples,
             Compared(a, b, cfg) <= 0, Compared(b, c, cfg) <= 0
      PROVE  Compared(a, c, cfg) <= 0
    BY <1>1, <1>2, <1>3, <1>4, <1>7
<1>8. \A a, b \in Samples : a.isDir /\ ~b.isDir => Compared(a, b, cfg) < 0
    BY <1>3, <1>4
<1> QED
    BY <1>5, <1>6, <1>7, <1>8

-----------------------------------------------------------------------------
\* upTo[i] are those of the n things that are not after i, in a total order.
IsOrder(n, upTo) ==
    /\ upTo \in [1..n -> SUBSET (1..n)]
    /\ \A i \in 1..n : i \in upTo[i]
    /\ \A i, j \in 1..n : i \in upTo[j] \/ j \in upTo[i]
    /\ \A i, j \in 1..n : i \in upTo[j] /\ j \in upTo[i] => i = j
    /\ \A i, j \in 1..n : i \in upTo[j] => upTo[i] \subseteq upTo[j]

\* How many are not after them gives each of them a place, and each place to one of them.
IsPlaced(n, upTo) ==
    /\ \A i \in 1..n : Cardinality(upTo[i]) \in 1..n
    /\ \A i, j \in 1..n : i \in upTo[j] => Cardinality(upTo[i]) <= Cardinality(upTo[j])
    /\ \A place \in 1..n : \E i \in 1..n :
          {j \in 1..n : Cardinality(upTo[j]) = place} = {i}

\* In a total order of n things, the numbers of those up to each thing are 1 to n, each
\* of them once.
LEMMA PlacesAreTakenOnce ==
    ASSUME NEW n \in Nat, NEW upTo, IsOrder(n, upTo)
    PROVE  IsPlaced(n, upTo)
<1> DEFINE number == [i \in 1..n |-> Cardinality(upTo[i])]
<1>1. IsFiniteSet(1..n) /\ Cardinality(1..n) = n
    BY FS_Interval
<1>2. ASSUME NEW i \in 1..n
      PROVE  /\ IsFiniteSet(upTo[i]) /\ Cardinality(upTo[i]) \in Nat
             /\ Cardinality(upTo[i]) <= n /\ Cardinality(upTo[i]) # 0
  <2>1. upTo[i] \in SUBSET (1..n) /\ upTo[i] # {}
      BY DEF IsOrder
  <2>2. IsFiniteSet(upTo[i]) /\ Cardinality(upTo[i]) <= n
      BY <1>1, <2>1, FS_Subset
  <2>3. Cardinality(upTo[i]) \in Nat
      BY <2>2, FS_CardinalityType
  <2>4. Cardinality(upTo[i]) # 0
      BY <2>1, <2>2, FS_EmptySet
  <2> QED
      BY <2>2, <2>3, <2>4
<1>3. ASSUME NEW i \in 1..n, NEW j \in 1..n, i \in upTo[j]
      PROVE  /\ Cardinality(upTo[i]) <= Cardinality(upTo[j])
             /\ Cardinality(upTo[i]) = Cardinality(upTo[j]) => i = j
  <2>1. upTo[i] \in SUBSET upTo[j]
      BY <1>3 DEF IsOrder
  <2>2. /\ Cardinality(upTo[i]) <= Cardinality(upTo[j])
        /\ Cardinality(upTo[j]) = Cardinality(upTo[i]) => upTo[j] = upTo[i]
      BY <1>2, <2>1, FS_Subset
  <2>3. upTo[j] = upTo[i] => i = j
      BY <1>3 DEF IsOrder
  <2> QED
      BY <2>2, <2>3
<1>4. number \in [1..n -> 1..n]
    BY <1>2
<1>5. \A i, j \in 1..n : number[i] = number[j] => i = j
    BY <1>3 DEF IsOrder
<1>6. number \in Injection(1..n, 1..n)
    BY <1>4, <1>5 DEF Injection, IsInjective
<1>7. number \in Surjection(1..n, 1..n)
    BY <1>1, <1>6, FS_Injection
<1>8. ASSUME NEW place \in 1..n
      PROVE  \E i \in 1..n : {j \in 1..n : Cardinality(upTo[j]) = place} = {i}
  <2>1. PICK i \in 1..n : number[i] = place
      BY <1>7 DEF Surjection
  <2>2. \A j \in 1..n : Cardinality(upTo[j]) = place <=> j = i
      BY <1>5, <2>1
  <2>3. {j \in 1..n : Cardinality(upTo[j]) = place} = {i}
      BY <2>2
  <2> QED
      BY <2>3
<1>9. \A i \in 1..n : Cardinality(upTo[i]) \in 1..n
    BY <1>2
<1> QED
    BY <1>3, <1>8, <1>9 DEF IsPlaced

-----------------------------------------------------------------------------
\* For any listing, sort modes and limit: the sort gives each place to one entry, and
\* the limit cuts off no directory while a file is shown.
THEOREM DirectoriesStayReachable == OrderSpec => []DirectoriesAreCutLast
<1>1. OrderTypeOK => DirectoriesAreCutLast
  <2> SUFFICES ASSUME OrderTypeOK, NEW path \in Paths
               PROVE  LET items == DirectoryItems(listed, SortConfig(path))
                          shown == UNION {items[place] : place \in DOMAIN items}
                      IN /\ \A place \in DOMAIN items : Cardinality(items[place]) = 1
                         /\ (\E i \in shown : ~listed[i].isDir) =>
                              \A i \in DOMAIN listed : listed[i].isDir => i \in shown
      BY DEF DirectoriesAreCutLast
  <2> DEFINE cfg == SortConfig(path)
             n == Len(listed)
             C(j, i) == Compared(listed[j], listed[i], cfg)
             upTo == [i \in 1..n |-> {j \in 1..n : C(j, i) < 0 \/ (j <= i /\ C(j, i) = 0)}]
             limit == IF MaxItems > 0 /\ n > MaxItems THEN MaxItems ELSE n
             items == DirectoryItems(listed, cfg)
             shown == UNION {items[place] : place \in DOMAIN items}
  <2>1. PICK k \in 0..MaxListed : listed \in [1..k -> Samples]
      BY DEF OrderTypeOK, Listings
  <2>2. listed \in Seq(Samples) /\ n \in Nat /\ DOMAIN listed = 1..n
      BY <2>1, OrderAssumption
  <2>3. \A i \in 1..n : listed[i] \in Samples
      BY <2>2
  <2>4. cfg \in SortConfigs \cup {Default}
      BY ModeIsAMode
  <2> HIDE DEF cfg, n
  <2>5. /\ \A j, i \in 1..n : C(j, i) \in Int
        /\ \A j, i \in 1..n : C(i, j) = -C(j, i)
        /\ \A j, i, h \in 1..n : C(j, i) <= 0 /\ C(i, h) <= 0 => C(j, h) <= 0
        /\ \A j, i \in 1..n : listed[j].isDir /\ ~listed[i].isDir => C(j, i) < 0
      BY <2>3, <2>4, ComparedOrders
  <2>6. \A i \in 1..n : Place(listed, i, cfg) = Cardinality(upTo[i])
      BY <2>2 DEF Place
  <2>7. limit \in Nat /\ limit <= n
      BY <2>2, OrderAssumption
  <2>8. /\ DOMAIN items = 1..limit
        /\ \A place \in 1..limit :
              items[place] = {i \in 1..n : Place(listed, i, cfg) = place}
      BY <2>2 DEF DirectoryItems, n
  <2> HIDE DEF C
  <2>9. \A j, i \in 1..n : j \in upTo[i] <=> C(j, i) < 0 \/ (j <= i /\ C(j, i) = 0)
      OBVIOUS
  <2>10. upTo \in [1..n -> SUBSET (1..n)]
      OBVIOUS
  <2> HIDE DEF upTo, items, limit
  <2>11. \A i \in 1..n : i \in upTo[i]
      BY <2>5, <2>9
  <2>12. \A i, j \in 1..n : i \in upTo[j] \/ j \in upTo[i]
      BY <2>2, <2>5, <2>9
  <2>13. ASSUME NEW i \in 1..n, NEW j \in 1..n, i \in upTo[j], j \in upTo[i]
         PROVE  i = j
    <3>1. C(i, j) \in Int /\ C(j, i) \in Int /\ C(i, j) = -C(j, i)
        BY <2>5
    <3>2. /\ C(i, j) < 0 \/ (i <= j /\ C(i, j) = 0)
          /\ C(j, i) < 0 \/ (j <= i /\ C(j, i) = 0)
        BY <2>9, <2>13
    <3> QED
        BY <2>2, <3>1, <3>2
  <2>14. ASSUME NEW i \in 1..n, NEW j \in 1..n, i \in upTo[j]
         PROVE  upTo[i] \subseteq upTo[j]
    <3> SUFFICES ASSUME NEW h \in 1..n, h \in upTo[i] PROVE h \in upTo[j]
        BY <2>10
    <3>0. /\ C(h, i) < 0 \/ (h <= i /\ C(h, i) = 0)
          /\ C(i, j) < 0 \/ (i <= j /\ C(i, j) = 0)
          /\ C(h, i) \in Int /\ C(i, j) \in Int /\ C(h, j) \in Int
        BY <2>5, <2>9, <2>14
    <3>1. C(h, i) <= 0 /\ C(i, j) <= 0 /\ C(h, j) <= 0
        BY <2>5, <3>0
    <3>2. C(h, j) = 0 => C(h, i) = 0 /\ C(i, j) = 0
      <4>1. C(j, h) \in Int /\ C(j, i) \in Int /\ C(i, h) \in Int /\ C(h, j) \in Int
            /\ C(i, j) \in Int /\ C(h, i) \in Int
          BY <2>5
      <4>2. C(j, h) = -C(h, j) /\ C(j, i) = -C(i, j) /\ C(i, h) = -C(h, i)
          BY <2>5
      <4>3. /\ C(j, h) <= 0 /\ C(h, i) <= 0 => C(j, i) <= 0
            /\ C(i, j) <= 0 /\ C(j, h) <= 0 => C(i, h) <= 0
          BY <2>5
      <4> QED
          BY <3>1, <4>1, <4>2, <4>3
    <3> QED
      <4>1. h <= j \/ C(h, j) # 0
          BY <2>2, <3>0, <3>2
      <4>2. C(h, j) < 0 \/ (h <= j /\ C(h, j) = 0)
          BY <3>0, <3>1, <4>1
      <4> QED
          BY <2>9, <4>2
  <2>15. /\ \A i \in 1..n : Cardinality(upTo[i]) \in 1..n
         /\ \A i, j \in 1..n : i \in upTo[j] => Cardinality(upTo[i]) <= Cardinality(upTo[j])
         /\ \A place \in 1..n : \E i \in 1..n :
               {j \in 1..n : Cardinality(upTo[j]) = place} = {i}
    <3>1. \A i, j \in 1..n : i \in upTo[j] => upTo[i] \subseteq upTo[j]
        BY <2>14
    <3>2. \A i, j \in 1..n : i \in upTo[j] /\ j \in upTo[i] => i = j
        BY <2>13
    <3>3. IsOrder(n, upTo)
        BY <2>10, <2>11, <2>12, <3>1, <3>2 DEF IsOrder
    <3>4. IsPlaced(n, upTo)
        BY <2>2, <3>3, PlacesAreTakenOnce, Zenon
    <3> QED
        BY <3>4 DEF IsPlaced
  <2>16. \A place \in 1..limit :
            items[place] = {j \in 1..n : Cardinality(upTo[j]) = place}
      BY <2>6, <2>8
  <2>17. ASSUME NEW place \in DOMAIN items
         PROVE  Cardinality(items[place]) = 1
    <3>1. place \in 1..limit /\ place \in 1..n
        BY <2>2, <2>7, <2>8
    <3>2. PICK i \in 1..n : items[place] = {i}
        BY <2>15, <2>16, <3>1
    <3> QED
        BY <3>2, FS_Singleton
  <2>18. ASSUME NEW i \in shown, ~listed[i].isDir, NEW d \in DOMAIN listed, listed[d].isDir
         PROVE  d \in shown
    <3>1. PICK place \in 1..limit : i \in items[place]
        BY <2>8
    <3>2. i \in 1..n /\ Cardinality(upTo[i]) <= limit
        BY <2>2, <2>7, <2>16, <3>1
    <3>3. d \in 1..n
        BY <2>2
    <3>4. d \in upTo[i]
        BY <2>5, <2>9, <2>18, <3>2, <3>3
    <3>5. Cardinality(upTo[d]) \in 1..limit
      <4>1. Cardinality(upTo[d]) \in 1..n /\ Cardinality(upTo[i]) \in 1..n
          BY <2>15, <3>2, <3>3
      <4>2. Cardinality(upTo[d]) <= Cardinality(upTo[i])
          BY <2>15, <3>2, <3>3, <3>4
      <4> QED
          BY <2>7, <3>2, <4>1, <4>2
    <3>6. d \in items[Cardinality(upTo[d])]
        BY <2>16, <3>3, <3>5
    <3> QED
        BY <2>8, <3>5, <3>6
  <2> QED
      BY <2>17, <2>18 DEF items, cfg
<1> QED
    BY <1>1, OrderIsTyped, PTL

-----------------------------------------------------------------------------
(* RemoteSearch                                                            *)

\* The timer runs from the call of exec() to the end of the stream at most.
SearchInv ==
    /\ search \in {"idle", "pattern", "root", "exec", "running", "resolved", "rejected"}
    /\ process \in {"none", "asked", "rg", "grep", "ended", "failed", "closed"}
    /\ timer \in {"off", "running", "due"}
    /\ found \in Seq(Matches) /\ Len(found) <= MaxOutput
    /\ timer # "off" => process \in {"asked", "rg", "grep", "ended", "failed"}
    /\ search \in {"pattern", "root"} => process = "none"

LEMMA SearchInitInv == SearchInit => SearchInv
<1>1. <<>> \in Seq(Matches) /\ Len(<<>>) = 0 /\ 0 <= MaxOutput
    BY SearchAssumption
<1> QED
    BY <1>1 DEF SearchInit, SearchInv

LEMMA SearchStep == SearchInv /\ [SearchNext]_searchVars => SearchInv'
<1> SUFFICES ASSUME SearchInv, [SearchNext]_searchVars PROVE SearchInv'
    OBVIOUS
<1>0. MaxOutput \in Nat /\ Len(found) \in Nat
    BY SearchAssumption DEF SearchInv
<1>1. CASE ChooseConnection
  <2>1. <<>> \in Seq(Matches) /\ Len(<<>>) = 0
      OBVIOUS
  <2> QED
      BY <1>0, <1>1, <2>1 DEF ChooseConnection, SearchInv
<1>2. CASE EnterPattern
  <2>1. \/ search' = "idle"
        \/ search = "pattern" /\ search' = "root"
        \/ search = "root" /\ search' = "exec"
      BY <1>2 DEF EnterPattern
  <2>2. CASE search' = "exec"
      BY <1>0, <1>2, <2>1, <2>2 DEF EnterPattern, SearchInv
  <2> QED
      BY <1>0, <1>2, <2>1, <2>2 DEF EnterPattern, SearchInv
<1>3. CASE SearchRefused
    BY <1>0, <1>3 DEF SearchRefused, SearchInv
<1>4. ASSUME NEW ok \in BOOLEAN, ExecAnswers(ok) PROVE SearchInv'
    BY <1>0, <1>4 DEF ExecAnswers, SearchInv
<1>5. CASE Data
  <2>1. CASE Len(found) < MaxOutput
    <3>1. PICK m \in Matches : found' = Append(found, m)
        BY <1>5, <2>1 DEF Data
    <3>2. found' \in Seq(Matches) /\ Len(found') = Len(found) + 1
        BY <3>1 DEF SearchInv
    <3>3. Len(found') <= MaxOutput
        BY <1>0, <2>1, <3>2
    <3> QED
        BY <1>5, <3>2, <3>3 DEF Data, SearchInv
  <2>2. CASE ~(Len(found) < MaxOutput)
      BY <1>5, <2>2 DEF Data, SearchInv
  <2> QED
      BY <2>1, <2>2
<1>6. CASE Fallback
    BY <1>0, <1>6 DEF Fallback, SearchInv
<1>7. CASE ProcessEnds
    BY <1>0, <1>7 DEF ProcessEnds, SearchInv
<1>8. CASE StreamCloses
    BY <1>0, <1>8 DEF StreamCloses, StreamClosed, SearchInv
<1>9. CASE SearchTimeout
    BY <1>0, <1>9 DEF SearchTimeout, SearchInv
<1>10. CASE Quiet
    BY <1>0, <1>10 DEF Quiet, SearchInv
<1>11. CASE UNCHANGED searchVars
    BY <1>11 DEF searchVars, SearchInv
<1> QED
    BY <1>1, <1>2, <1>3, <1>4, <1>5, <1>6, <1>7, <1>8, <1>9, <1>10, <1>11 DEF SearchNext

\* The search has its types, and no more is kept of its output than the limit allows,
\* however long the server sends.
THEOREM SearchIsTyped == SearchSpec => []SearchTypeOK
<1>1. SearchInv => SearchTypeOK
    BY SearchAssumption DEF SearchInv, SearchTypeOK
<1> QED
    BY <1>1, SearchInitInv, SearchStep, PTL DEF SearchSpec

\* Once the stream of a search is over, or before exec() is called, its timer is off,
\* for any output and however exec(), the chunks, the timeout and the end of the process
\* follow each other.  Nothing is said of a search that has timed out while its stream is
\* open: a late chunk starts its timer again.
THEOREM TimersEnd == SearchSpec => []NoTimerIsLeft
<1>1. SearchInv => NoTimerIsLeft
    BY DEF SearchInv, NoTimerIsLeft
<1> QED
    BY <1>1, SearchInitInv, SearchStep, PTL DEF SearchSpec

\* The fields of a line are those of its parts, in their order.
LEMMA JoinedLen ==
    ASSUME NEW S, NEW s \in Seq(S), NEW t \in Seq(S)
    PROVE  s \o t \in Seq(S) /\ Len(s \o t) = Len(s) + Len(t)
    OBVIOUS

LEMMA JoinedFirst ==
    ASSUME NEW S, NEW s \in Seq(S), NEW t \in Seq(S), NEW i \in 1..Len(s)
    PROVE  (s \o t)[i] = s[i]
    OBVIOUS

LEMMA JoinedSecond ==
    ASSUME NEW S, NEW s \in Seq(S), NEW t \in Seq(S), NEW i \in 1..Len(t)
    PROVE  (s \o t)[Len(s) + i] = t[i]
    OBVIOUS

\* parseLine() takes a line apart as it was printed if its path has no colon and its
\* text does not start with what looks like a column.
LEMMA PartsAreParsed ==
    ASSUME NEW path \in Seq(FieldKinds), NEW line \in {"short", "long"},
           NEW content \in Seq(FieldKinds), content # <<>>,
           ~(content[1] = "short" /\ Len(content) > 1)
    PROVE  Len(path) = 1 =>
                ParseLine(path \o <<line>> \o content) =
                    [path |-> path, line |-> line, content |-> content]
<1> DEFINE one == <<line>>
           head == path \o one
           split == head \o content
           text == SubSeq(split, 3, Len(split))
<1>0. Len(content) \in Nat /\ Len(content) > 0 /\ line \in FieldKinds /\ line # "text"
    BY DEF FieldKinds
<1>1. one \in Seq(FieldKinds) /\ Len(one) = 1 /\ one[1] = line
    BY <1>0
<1>2. split = head \o content
    OBVIOUS
<1> HIDE DEF one
<1>3. head \in Seq(FieldKinds) /\ Len(head) = Len(path) + Len(one)
    BY <1>1, JoinedLen
<1>4. \A i \in 1..Len(path) : head[i] = path[i]
    BY <1>1, JoinedFirst, Zenon
<1>5. \A i \in 1..Len(one) : head[Len(path) + i] = one[i]
    BY <1>1, JoinedSecond, Zenon
<1> HIDE DEF head, split
<1>6. split \in Seq(FieldKinds) /\ Len(split) = Len(head) + Len(content)
    BY <1>2, <1>3, JoinedLen
<1>7. \A i \in 1..Len(head) : split[i] = head[i]
  <2>1. \A i \in 1..Len(head) : (head \o content)[i] = head[i]
      BY <1>3, JoinedFirst, Zenon
  <2> QED
      BY <1>2, <2>1
<1>8. \A i \in 1..Len(content) : split[Len(head) + i] = content[i]
  <2>1. \A i \in 1..Len(content) : (head \o content)[Len(head) + i] = content[i]
      BY <1>3, JoinedSecond, Zenon
  <2> QED
      BY <1>2, <2>1
<1> HAVE Len(path) = 1
<1>9. Len(head) = 2 /\ 1 \in 1..Len(path) /\ 1 \in 1..Len(one) /\ Len(path) + 1 = 2
    BY <1>1, <1>3
<1>10. head[1] = path[1] /\ head[2] = line
    BY <1>1, <1>4, <1>5, <1>9, Zenon
<1>11. 1 \in 1..Len(head) /\ 2 \in 1..Len(head)
    BY <1>9
<1>12. Len(content) \in Nat /\ Len(content) > 0 /\ line # "text"
    BY <1>0
<1>13. /\ split \in Seq(FieldKinds) /\ Len(split) = 2 + Len(content)
       /\ split[1] = path[1] /\ split[2] = line
       /\ \A i \in 1..Len(content) : split[2 + i] = content[i]
    BY <1>6, <1>7, <1>8, <1>9, <1>10, <1>11, Zenon
<1>14. split[3] = content[1]
  <2>1. 1 \in 1..Len(content) /\ 2 + 1 = 3
      BY <1>12
  <2> QED
      BY <1>13, <2>1
<1>15. text = content
  <2>1. text \in Seq(FieldKinds) /\ Len(text) = Len(content)
      BY <1>12, <1>13
  <2>2. \A i \in 1..Len(content) : text[i] = split[2 + i]
      BY <1>12, <1>13
  <2> QED
      BY <1>13, <2>1, <2>2
<1>16. <<split[1]>> = path
    BY <1>13
<1>17. ~(Len(split) > 3 /\ split[3] = "short")
    BY <1>12, <1>13, <1>14
<1>18. ~(Len(split) < 3 \/ split[2] = "text")
    BY <1>12, <1>13
<1>19. ParseLine(split) = [path |-> <<split[1]>>, line |-> split[2], content |-> text]
    BY <1>17, <1>18 DEF ParseLine
<1> QED
    BY <1>13, <1>15, <1>16, <1>19 DEF split, head, one

LEMMA ParsedAsPrinted ==
    ASSUME NEW m \in Matches, Len(m.path) = 1,
           ~(m.content[1] = "short" /\ Len(m.content) > 1)
    PROVE  ParseLine(Printed(m)) =
                [path |-> m.path, line |-> m.line, content |-> m.content]
<1>1. /\ m.path \in Seq(FieldKinds) /\ m.content \in Seq(FieldKinds)
      /\ m.content # <<>> /\ m.line \in {"short", "long"}
    BY SearchAssumption
<1> QED
    BY <1>1, PartsAreParsed, Zenon DEF Printed

\* Every match that is shown has the path, line and text the search printed, for any
\* matches whose paths have no colon and whose texts start with no column.
THEOREM LinesAreTakenApart == SearchSpec => []LinesAreUnderstood
<1>1. SearchInv => LinesAreUnderstood
  <2> SUFFICES ASSUME SearchInv, NEW i \in DOMAIN found, Len(found[i].path) = 1,
                      ~(found[i].content[1] = "short" /\ Len(found[i].content) > 1)
               PROVE  ParseLine(Printed(found[i])) =
                        [path |-> found[i].path, line |-> found[i].line,
                         content |-> found[i].content]
      BY DEF LinesAreUnderstood
  <2>1. found[i] \in Matches
      BY DEF SearchInv
  <2> QED
      BY <2>1, ParsedAsPrinted
<1> QED
    BY <1>1, SearchInitInv, SearchStep, PTL DEF SearchSpec

-----------------------------------------------------------------------------
(* SSHDelete                                                               *)

\* What is read, waited for or removed lies in the directory the call is about.
InTree(e) == e = TargetDir \/ TargetDir \in Ancestors(e)

ScopeInv ==
    /\ present \subseteq Entries /\ unlinking \subseteq Entries
    /\ frame \in [Entries -> {"none", "readdir", "children", "rmdir", "done", "failed"}]
    /\ deletion \in [target : Target \cup {None}, recursive : BOOLEAN,
                     pc : {"idle", "stat", "running", "resolved", "rejected"}]
    /\ disturbed \in BOOLEAN
    /\ deletion.pc # "idle" => deletion.target \in Target
    /\ deletion.pc \in {"idle", "stat"} =>
        /\ \A e \in Entries : frame[e] = "none"
        /\ unlinking = {}
        /\ Entries \subseteq Additions \cup present
    /\ \A e \in Entries : frame[e] # "none" => InTree(e)
    /\ \A e \in unlinking : Doomed(e)
    /\ NothingElseIsRemoved

\* A directory is being removed.
Active(d) == frame[d] \in {"readdir", "children", "rmdir"}

Undisturbed ==
    /\ deletion.recursive /\ deletion.target \notin Links /\ ~disturbed
    /\ \A e \in Specials : ~InTree(e)

\* The removal of e is under way: the directory it is in waits for it, unless e is what
\* the call is about.
Awaited(e) ==
    e # TargetDir => Parent[e] \in Folders /\ frame[Parent[e]] = "children" /\ e \in present

\* A directory that waits for its children waits for as many as there are, each of which
\* is being removed; a directory is removed when it is empty.
DirInv(d) ==
    /\ frame[d] # "failed"
    /\ Active(d) => d \in Folders /\ Awaited(d)
    /\ frame[d] = "children" =>
        /\ Children(d) # {}
        /\ waiting[d] = Cardinality(Children(d))
        /\ \A e \in Children(d) : e \in unlinking \/ Active(e)
    /\ frame[d] = "rmdir" => Children(d) = {}

ReasonInv ==
    Undisturbed =>
        /\ deletion.pc # "rejected"
        /\ \A d \in Entries : DirInv(d)
        /\ \A e \in unlinking : e \notin Folders /\ Awaited(e)

-----------------------------------------------------------------------------
(* What is in the tree                                                     *)

LEMMA TreeFacts ==
    /\ Folders \subseteq Entries /\ Target \subseteq Entries /\ Additions \subseteq Entries
    /\ Links \subseteq Entries /\ Folders \cap Links = {}
    /\ Specials \subseteq Entries /\ Specials \cap (Folders \cup Links) = {}
    /\ Parent \in [Entries -> Folders \cup {None}] /\ None \notin Folders
    /\ LinkTo \in [Links -> Folders] /\ None \notin Entries /\ IsFiniteSet(Entries)
    BY DeleteAssumption

\* What is in a directory of the tree lies in the tree.
LEMMA ChildIsBelow ==
    ASSUME NEW e \in Entries, NEW dir \in Folders, Parent[e] = dir,
           NEW top, dir = top \/ top \in Ancestors(dir)
    PROVE  top \in Ancestors(e)
<1>1. top \in Folders
    BY DEF Ancestors
<1>2. ASSUME NEW dirs \in SUBSET Folders,
             \A f \in dirs \cup {e} : Parent[f] \in dirs \cup {None}
      PROVE  top \in dirs
  <2>1. dir \in dirs
      BY <1>2, TreeFacts
  <2>2. \A f \in dirs \cup {dir} : Parent[f] \in dirs \cup {None}
      BY <1>2, <2>1
  <2> QED
      BY <2>1, <2>2 DEF Ancestors
<1> QED
    BY <1>1, <1>2 DEF Ancestors

\* What lies in a directory is in one.
LEMMA BelowHasParent ==
    ASSUME NEW e \in Entries, NEW top \in Ancestors(e)
    PROVE  Parent[e] \in Folders
<1> SUFFICES ASSUME Parent[e] = None PROVE FALSE
    BY TreeFacts
<1>1. {} \in SUBSET Folders /\ \A f \in {} \cup {e} : Parent[f] \in {} \cup {None}
    OBVIOUS
<1>2. top \in {}
    BY <1>1 DEF Ancestors
<1> QED
    BY <1>2

\* The directory the call is about is in no directory of its tree.
LEMMA TargetIsTop ==
    ASSUME TargetDir \in Entries, Parent[TargetDir] \in Folders
    PROVE  ~InTree(Parent[TargetDir])
    BY ChildIsBelow, TreeAssumption DEF InTree

LEMMA TargetDirIsEntry ==
    ASSUME ScopeInv, deletion.pc # "idle"
    PROVE  TargetDir \in Entries
    BY TreeFacts DEF ScopeInv, TargetDir, Resolved

-----------------------------------------------------------------------------
(* Nothing else is removed                                                 *)

\* A step that removes nothing, or what is in the tree, and goes on in the tree.
LEMMA ScopeKept ==
    ASSUME ScopeInv, deletion.pc \notin {"idle", "stat"},
           deletion'.target = deletion.target,
           deletion' \in [target : Target \cup {None}, recursive : BOOLEAN,
                          pc : {"running", "resolved", "rejected"}],
           disturbed' \in BOOLEAN,
           frame' \in [Entries -> {"none", "readdir", "children", "rmdir", "done", "failed"}],
           \A e \in Entries : frame'[e] # "none" => InTree(e),
           present' \subseteq Entries, unlinking' \subseteq Entries,
           \A e \in unlinking' \cup (present \ present') : Doomed(e)
    PROVE  ScopeInv'
<1>1. TargetDir' = TargetDir
    BY DEF TargetDir
<1>2. \A e \in Entries : InTree(e)' = InTree(e) /\ Doomed(e)' = Doomed(e)
    BY <1>1 DEF InTree, Doomed
<1>3. NothingElseIsRemoved'
    BY <1>2 DEF ScopeInv, NothingElseIsRemoved
<1> QED
    BY <1>1, <1>2, <1>3 DEF ScopeInv

LEMMA SettleFacts ==
    ASSUME ScopeInv, deletion.pc \notin {"idle", "stat"},
           NEW outcome \in {"resolved", "rejected"},
           SettleDelete(outcome) \/ UNCHANGED deletion
    PROVE  /\ deletion'.target = deletion.target
           /\ deletion'.recursive = deletion.recursive
           /\ deletion' \in [target : Target \cup {None}, recursive : BOOLEAN,
                             pc : {"running", "resolved", "rejected"}]
           /\ deletion'.pc \in {deletion.pc, outcome}
    BY DEF ScopeInv, SettleDelete

\* A removal that ends, or fails, starts no other but in the tree.
LEMMA EndFacts ==
    ASSUME NEW e \in Entries,
           NEW frames \in [Entries -> {"none", "readdir", "children", "rmdir", "done", "failed"}],
           ChildDone(e, frames) \/ ChildFails(e, frames)
    PROVE  /\ frame' \in [Entries -> {"none", "readdir", "children", "rmdir", "done", "failed"}]
           /\ \A d \in Entries : frame'[d] # "none" => frames[d] # "none"
<1>1. CASE ChildDone(e, frames)
    BY <1>1 DEF ChildDone
<1>2. CASE ChildFails(e, frames)
    BY <1>2 DEF ChildFails
<1> QED
    BY <1>1, <1>2

LEMMA EndSettles ==
    ASSUME ScopeInv, deletion.pc \notin {"idle", "stat"}, NEW e, NEW frames,
           ChildDone(e, frames) \/ ChildFails(e, frames)
    PROVE  /\ deletion'.target = deletion.target
           /\ deletion'.recursive = deletion.recursive
           /\ deletion' \in [target : Target \cup {None}, recursive : BOOLEAN,
                             pc : {"running", "resolved", "rejected"}]
           /\ ChildDone(e, frames) => deletion'.pc \in {deletion.pc, "resolved"}
<1>1. CASE ChildDone(e, frames)
    BY <1>1, SettleFacts DEF ChildDone
<1>2. CASE ChildFails(e, frames) /\ ~ChildDone(e, frames)
    BY <1>2, SettleFacts DEF ChildFails
<1> QED
    BY <1>1, <1>2

\* A branch that is under way belongs to a call that is.
LEMMA BranchFacts ==
    ASSUME ScopeInv, \/ \E e \in unlinking : TRUE
                     \/ \E e \in Entries : frame[e] # "none"
    PROVE  deletion.pc \notin {"idle", "stat"}
    BY DEF ScopeInv

\* A directory cannot be read, or removed.
LEMMA ScopeRefused ==
    ASSUME ScopeInv, NEW dir \in Entries, frame[dir] # "none",
           ChildFails(dir, [frame EXCEPT ![dir] = "failed"]),
           UNCHANGED <<present, unlinking>>, disturbed' \in BOOLEAN
    PROVE  ScopeInv'
<1> DEFINE frames == [frame EXCEPT ![dir] = "failed"]
<1>0. /\ frame \in [Entries -> {"none", "readdir", "children", "rmdir", "done", "failed"}]
      /\ \A d \in Entries : frame[d] # "none" => InTree(d)
    BY DEF ScopeInv
<1>1. deletion.pc \notin {"idle", "stat"}
    BY BranchFacts
<1>2. /\ frames \in [Entries -> {"none", "readdir", "children", "rmdir", "done", "failed"}]
      /\ \A d \in Entries : frames[d] # "none" => InTree(d)
    BY <1>0
<1>3. ChildFails(dir, frames)
    OBVIOUS
<1> HIDE DEF frames
<1>4. /\ frame' \in [Entries -> {"none", "readdir", "children", "rmdir", "done", "failed"}]
      /\ \A d \in Entries : frame'[d] # "none" => InTree(d)
    BY <1>2, <1>3, EndFacts
<1>5. /\ deletion'.target = deletion.target
      /\ deletion' \in [target : Target \cup {None}, recursive : BOOLEAN,
                        pc : {"running", "resolved", "rejected"}]
    BY <1>1, <1>3, EndSettles
<1>6. /\ present' \subseteq Entries /\ unlinking' \subseteq Entries
      /\ \A e \in unlinking' \cup (present \ present') : Doomed(e)
    BY DEF ScopeInv
<1> QED
    BY <1>1, <1>4, <1>5, <1>6, ScopeKept

LEMMA ScopeInit == DeleteInit => ScopeInv
<1> SUFFICES ASSUME DeleteInit PROVE ScopeInv
    OBVIOUS
<1>1. /\ deletion \in [target : Target \cup {None}, recursive : BOOLEAN,
                       pc : {"idle", "stat", "running", "resolved", "rejected"}]
      /\ deletion.pc = "idle"
    BY DEF DeleteInit
<1>2. Entries \subseteq Additions \cup present /\ present \subseteq Entries
    BY DEF DeleteInit
<1>3. NothingElseIsRemoved
    BY <1>2 DEF NothingElseIsRemoved
<1> QED
    BY <1>1, <1>2, <1>3 DEF DeleteInit, ScopeInv

LEMMA ScopeStep == ScopeInv /\ [DeleteNext]_deleteVars => ScopeInv'
<1> SUFFICES ASSUME ScopeInv, [DeleteNext]_deleteVars PROVE ScopeInv'
    OBVIOUS
<1>0. /\ present \subseteq Entries /\ unlinking \subseteq Entries
      /\ frame \in [Entries -> {"none", "readdir", "children", "rmdir", "done", "failed"}]
      /\ \A e \in Entries : frame[e] # "none" => InTree(e)
      /\ disturbed \in BOOLEAN
    BY DEF ScopeInv
<1>1. ASSUME NEW e \in Target, NEW recursive \in BOOLEAN, Delete(e, recursive)
      PROVE  ScopeInv'
  <2>1. /\ deletion' = [target |-> e, recursive |-> recursive, pc |-> "stat"]
        /\ deletion.pc = "idle"
        /\ UNCHANGED <<present, frame, unlinking, disturbed>>
      BY <1>1 DEF Delete
  <2>2. /\ deletion' \in [target : Target \cup {None}, recursive : BOOLEAN,
                          pc : {"idle", "stat", "running", "resolved", "rejected"}]
        /\ deletion'.target = e /\ deletion'.pc = "stat"
      BY <2>1
  <2>3. Entries \subseteq Additions \cup present'
      BY <2>1 DEF ScopeInv
  <2>4. NothingElseIsRemoved'
      BY <2>3 DEF NothingElseIsRemoved
  <2> QED
      BY <2>1, <2>2, <2>3, <2>4 DEF ScopeInv
<1>2. CASE StatAnswer
  <2>1. /\ deletion'.target = deletion.target /\ deletion'.pc = "running"
        /\ deletion' \in [target : Target \cup {None}, recursive : BOOLEAN,
                          pc : {"idle", "stat", "running", "resolved", "rejected"}]
        /\ deletion.pc = "stat" /\ deletion.target \in Target
      BY <1>2 DEF StatAnswer, ScopeInv
  <2>2. TargetDir' = TargetDir
      BY <2>1 DEF TargetDir
  <2>3. /\ UNCHANGED <<present, disturbed>>
        /\ unlinking = {} /\ \A e \in Entries : frame[e] = "none"
      BY <1>2, <2>1 DEF StatAnswer, ScopeInv
  <2>4. /\ frame' \in [Entries -> {"none", "readdir", "children", "rmdir", "done", "failed"}]
        /\ \A e \in Entries : frame'[e] # "none" => e = TargetDir
      BY <1>0, <1>2, <2>3 DEF StatAnswer
  <2>5. \A e \in unlinking' : e = deletion.target /\ TargetDir \notin Folders
      BY <1>2, <2>3 DEF StatAnswer, IsFolder
  <2>6. \A e \in unlinking' : Doomed(e)'
      BY <2>1, <2>2, <2>5, TreeFacts DEF Doomed, TargetDir, Resolved
  <2>7. NothingElseIsRemoved'
      BY <2>1, <2>2, <2>3 DEF ScopeInv, NothingElseIsRemoved, Doomed
  <2>8. unlinking' \subseteq Entries
      BY <2>1, <2>5, TreeFacts
  <2> QED
      BY <1>0, <2>1, <2>2, <2>3, <2>4, <2>6, <2>7, <2>8 DEF ScopeInv, InTree
<1>3. ASSUME NEW dir \in Folders, ReadAnswer(dir) PROVE ScopeInv'
  <2>1. frame[dir] = "readdir" /\ dir \in Entries /\ InTree(dir)
      BY <1>0, <1>3, TreeFacts DEF ReadAnswer
  <2>2. deletion.pc \notin {"idle", "stat"}
      BY <2>1, BranchFacts
  <2>3. \A e \in Children(dir) : e \in Entries /\ TargetDir \in Ancestors(e)
      BY <1>0, <2>1, ChildIsBelow DEF Children, InTree
  <2>4. \A e \in Folders \cup Specials : Resolved(e) = e
      BY TreeFacts DEF Resolved
  <2>5. /\ frame' \in [Entries -> {"none", "readdir", "children", "rmdir", "done", "failed"}]
        /\ \A e \in Entries : frame'[e] # "none" =>
                e = dir \/ e \in Children(dir) \/ frame[e] # "none"
      BY <1>0, <1>3, <2>4 DEF ReadAnswer, IsFolder, Empty
  <2>6. \A e \in Entries : frame'[e] # "none" => InTree(e)
      BY <1>0, <2>1, <2>3, <2>5 DEF InTree
  <2>7. /\ unlinking' \subseteq unlinking \cup Children(dir)
        /\ UNCHANGED <<present, deletion, disturbed>>
      BY <1>3 DEF ReadAnswer
  <2>8. \A e \in unlinking' \cup (present \ present') : Doomed(e)
      BY <2>3, <2>7 DEF ScopeInv, Doomed
  <2>9. deletion' \in [target : Target \cup {None}, recursive : BOOLEAN,
                       pc : {"running", "resolved", "rejected"}]
      BY <2>2, <2>7, SettleFacts
  <2> QED
      BY <1>0, <2>2, <2>3, <2>5, <2>6, <2>7, <2>8, <2>9, ScopeKept
<1>4. ASSUME NEW e \in Entries, UnlinkAnswer(e) PROVE ScopeInv'
  <2>1. e \in unlinking /\ unlinking' = unlinking \ {e}
      BY <1>4 DEF UnlinkAnswer
  <2>2. deletion.pc \notin {"idle", "stat"}
      BY <2>1, BranchFacts
  <2>3. /\ present \ present' \subseteq {e} /\ present' \subseteq Entries
        /\ disturbed' \in BOOLEAN
        /\ ChildDone(e, frame) \/ ChildFails(e, frame)
      BY <1>0, <1>4 DEF UnlinkAnswer
  <2>4. /\ frame' \in [Entries -> {"none", "readdir", "children", "rmdir", "done", "failed"}]
        /\ \A d \in Entries : frame'[d] # "none" => InTree(d)
      BY <1>0, <2>3, EndFacts
  <2>5. \A d \in unlinking' \cup (present \ present') : Doomed(d)
      BY <2>1, <2>3 DEF ScopeInv
  <2>6. unlinking' \subseteq Entries
      BY <1>0, <2>1
  <2>7. /\ deletion'.target = deletion.target
        /\ deletion' \in [target : Target \cup {None}, recursive : BOOLEAN,
                          pc : {"running", "resolved", "rejected"}]
      BY <2>2, <2>3, EndSettles
  <2> QED
      BY <1>0, <2>1, <2>2, <2>3, <2>4, <2>5, <2>6, <2>7, ScopeKept
<1>5. ASSUME NEW dir \in Folders, RmdirAnswer(dir) PROVE ScopeInv'
  <2>1. frame[dir] = "rmdir" /\ dir \in Entries /\ InTree(dir)
      BY <1>0, <1>5, TreeFacts DEF RmdirAnswer
  <2>2. deletion.pc \notin {"idle", "stat"}
      BY <2>1, BranchFacts
  <2>3. PICK after \in {"done", "failed"} :
            LET frames == [frame EXCEPT ![dir] = after] IN
            ChildDone(dir, frames) \/ ChildFails(dir, frames)
      BY <1>5 DEF RmdirAnswer
  <2>4. /\ present \ present' \subseteq {dir} /\ present' \subseteq Entries
        /\ disturbed' \in BOOLEAN /\ unlinking' = unlinking
      BY <1>0, <1>5 DEF RmdirAnswer
  <2> DEFINE frames == [frame EXCEPT ![dir] = after]
  <2>5. /\ frames \in [Entries -> {"none", "readdir", "children", "rmdir", "done", "failed"}]
        /\ \A d \in Entries : frames[d] # "none" => InTree(d)
      BY <1>0, <2>1
  <2>6. ChildDone(dir, frames) \/ ChildFails(dir, frames)
      BY <2>3
  <2> HIDE DEF frames
  <2>7. /\ frame' \in [Entries -> {"none", "readdir", "children", "rmdir", "done", "failed"}]
        /\ \A d \in Entries : frame'[d] # "none" => InTree(d)
      BY <2>1, <2>5, <2>6, EndFacts
  <2>8. /\ deletion'.target = deletion.target
        /\ deletion' \in [target : Target \cup {None}, recursive : BOOLEAN,
                          pc : {"running", "resolved", "rejected"}]
      BY <2>2, <2>6, EndSettles
  <2>9. present # present' => deletion.target \notin Links \/ dir # TargetDir
      BY <1>5 DEF RmdirAnswer
  <2>10. present # present' => Doomed(dir)
      BY <2>1, <2>9 DEF InTree, Doomed, TargetDir, Resolved
  <2>11. \A e \in unlinking' \cup (present \ present') : Doomed(e)
      BY <2>4, <2>10 DEF ScopeInv
  <2> QED
      BY <1>0, <2>2, <2>4, <2>7, <2>8, <2>11, ScopeKept
<1>6. CASE ServerRefuses
  <2>0. disturbed' = TRUE /\ UNCHANGED <<present, unlinking>>
      BY <1>6 DEF ServerRefuses
  <2>1. CASE deletion.pc = "stat" /\ deletion' = [deletion EXCEPT !.pc = "rejected"]
             /\ UNCHANGED frame
    <3>1. /\ deletion'.target = deletion.target /\ deletion'.pc = "rejected"
          /\ deletion' \in [target : Target \cup {None}, recursive : BOOLEAN,
                            pc : {"idle", "stat", "running", "resolved", "rejected"}]
        BY <2>1 DEF ScopeInv
    <3>2. TargetDir' = TargetDir
        BY <3>1 DEF TargetDir
    <3>3. NothingElseIsRemoved'
        BY <2>0, <3>1, <3>2 DEF ScopeInv, NothingElseIsRemoved, Doomed
    <3>4. deletion.target \in Target /\ \A e \in Entries : frame[e] = "none"
        BY <2>1 DEF ScopeInv
    <3> QED
        BY <1>0, <2>0, <2>1, <3>1, <3>2, <3>3, <3>4 DEF ScopeInv, Doomed
  <2>2. ASSUME NEW dir \in Folders, frame[dir] = "readdir",
               ChildFails(dir, [frame EXCEPT ![dir] = "failed"])
        PROVE  ScopeInv'
      BY <2>0, <2>2, TreeFacts, ScopeRefused
  <2> QED
      BY <1>6, <2>1, <2>2 DEF ServerRefuses
<1>7. ASSUME NEW e \in Additions, Add(e) PROVE ScopeInv'
  <2>1. /\ present' = present \cup {e} /\ disturbed' = TRUE
        /\ UNCHANGED <<deletion, frame, unlinking>>
      BY <1>7 DEF Add
  <2>2. TargetDir' = TargetDir
      BY <2>1 DEF TargetDir
  <2>3. NothingElseIsRemoved'
      BY <2>1, <2>2 DEF ScopeInv, NothingElseIsRemoved, Doomed
  <2> QED
      BY <2>1, <2>2, <2>3, TreeFacts DEF ScopeInv, InTree, Doomed
<1>8. CASE UNCHANGED deleteVars
  <2>1. TargetDir' = TargetDir
      BY <1>8 DEF deleteVars, TargetDir
  <2>2. NothingElseIsRemoved'
      BY <1>8, <2>1 DEF deleteVars, ScopeInv, NothingElseIsRemoved, Doomed
  <2> QED
      BY <1>8, <2>1, <2>2 DEF deleteVars, ScopeInv, InTree, Doomed
<1>9. ASSUME NEW e \in Specials, NotADirectory(e) PROVE ScopeInv'
    BY <1>0, <1>9, TreeFacts, ScopeRefused DEF NotADirectory
<1> QED
    BY <1>1, <1>2, <1>3, <1>4, <1>5, <1>6, <1>7, <1>8, <1>9 DEF DeleteNext, Answers

\* Whatever tree, links and additions there are, and however the answers and failures of
\* the branches interleave: a delete removes its target and what lies in it, and nothing
\* else; called on a link to a directory, what lies in that directory, and neither the
\* directory nor the link.  It follows no link that it meets below.
THEOREM OnlyTheTreeIsRemoved == DeleteSpec => []NothingElseIsRemoved
<1>1. ScopeInv => NothingElseIsRemoved
    BY DEF ScopeInv
<1> QED
    BY <1>1, ScopeInit, ScopeStep, PTL DEF DeleteSpec

-----------------------------------------------------------------------------
(* Why a delete fails                                                      *)

LEMMA ChildrenFinite ==
    ASSUME ScopeInv, NEW dir
    PROVE  IsFiniteSet(Children(dir)) /\ Cardinality(Children(dir)) \in Nat
<1>1. Children(dir) \subseteq Entries
    BY DEF Children, ScopeInv
<1>2. IsFiniteSet(Children(dir))
    BY <1>1, FS_Subset, TreeFacts
<1> QED
    BY <1>2, FS_CardinalityType

\* The parent of what the call is about waits for nothing.
LEMMA TopIsNotAwaited ==
    ASSUME ScopeInv, deletion.pc # "idle", NEW d \in Entries, frame[d] # "none"
    PROVE  d # Parent[TargetDir]
<1>1. TargetDir \in Entries /\ InTree(d)
    BY TargetDirIsEntry DEF ScopeInv
<1>2. CASE Parent[TargetDir] \in Folders
    BY <1>1, <1>2, TargetIsTop
<1>3. CASE Parent[TargetDir] = None
    BY <1>3, TreeFacts
<1> QED
    BY <1>1, <1>2, <1>3, TreeFacts

\* The directory waits for one child less, and is removed after the last.
LEMMA ChildGone ==
    ASSUME ScopeInv, ReasonInv, Undisturbed, deletion.pc \notin {"idle", "stat"},
           UNCHANGED disturbed, NEW e \in Entries, Awaited(e),
           Active(e) \/ e \in unlinking,
           NEW frames \in [Entries -> {"none", "readdir", "children", "rmdir", "done", "failed"}],
           \A d \in Entries \ {e} : frames[d] = frame[d],
           frames[e] \notin {"readdir", "children", "rmdir", "failed"},
           frame[e] \notin {"readdir", "children"},
           waiting \in [Entries -> Int],
           present' = present \ {e}, unlinking' = unlinking \ {e},
           ChildDone(e, frames)
    PROVE  ReasonInv'
<1> DEFINE up == Parent[e]
<1>1. /\ deletion'.target = deletion.target /\ deletion'.recursive = deletion.recursive
      /\ deletion'.pc \in {deletion.pc, "resolved"}
    BY EndSettles
<1>2. TargetDir' = TargetDir
    BY <1>1 DEF TargetDir
<1>3. /\ deletion.pc # "rejected"
      /\ \A d \in Entries : DirInv(d)
      /\ \A f \in unlinking : f \notin Folders /\ Awaited(f)
    BY DEF ReasonInv
<1>4. present \subseteq Entries /\ unlinking \subseteq Entries
    BY DEF ScopeInv
<1>5. \A d : Children(d)' = Children(d) \ {e}
    BY DEF Children
<1>6. \A d : d # up => Children(d)' = Children(d)
    BY <1>5 DEF Children
<1>7. CASE e = TargetDir
  <2>1. frame' = frames /\ waiting' = waiting
      BY <1>7 DEF ChildDone
  <2>2. \A d \in Entries : frame[d] # "none" => d # up
      BY <1>7, TopIsNotAwaited
  <2>3. \A d \in Entries \ {e} : Active(d) =>
            d \in Folders /\ Parent[d] \in Folders /\ frame[Parent[d]] = "children"
                /\ d \in present
      BY <1>3, <1>7 DEF DirInv, Awaited
  <2>4. \A f \in unlinking \ {e} :
            Parent[f] \in Folders /\ frame[Parent[f]] = "children" /\ f \in present
      BY <1>3, <1>7 DEF Awaited
  <2>5. ASSUME NEW d \in Entries PROVE DirInv(d)'
    <3>1. CASE d = e
        BY <2>1, <3>1 DEF DirInv, Active
    <3>2. CASE d # e
      <4>1. frame'[d] = frame[d] /\ waiting'[d] = waiting[d] /\ DirInv(d)
          BY <1>3, <2>1, <3>2
      <4>2. frame[d] # "none" => Children(d)' = Children(d)
          BY <1>6, <2>2
      <4>3. Active(d) => d \in Folders /\ Awaited(d)'
        <5> SUFFICES ASSUME Active(d) PROVE d \in Folders /\ Awaited(d)'
            OBVIOUS
        <5>1. /\ d \in Folders /\ Parent[d] \in Folders /\ frame[Parent[d]] = "children"
              /\ d \in present
            BY <2>3, <3>2
        <5>2. Parent[d] \in Entries /\ Parent[d] # e
            BY <5>1, TreeFacts
        <5> QED
            BY <2>1, <3>2, <5>1, <5>2 DEF Awaited
      <4>4. frame[d] = "children" => \A f \in Children(d) : f \in unlinking' \/ Active(f)'
        <5> SUFFICES ASSUME frame[d] = "children", NEW f \in Children(d)
                     PROVE  f \in unlinking' \/ Active(f)'
            OBVIOUS
        <5>1. f \in unlinking \/ Active(f)
            BY <4>1 DEF DirInv
        <5>2. f # e /\ f \in Entries
            BY <1>4, <2>2 DEF Children
        <5> QED
            BY <2>1, <5>1, <5>2 DEF Active
      <4> QED
          BY <4>1, <4>2, <4>3, <4>4 DEF DirInv, Active
    <3> QED
        BY <3>1, <3>2
  <2>6. \A f \in unlinking' : f \notin Folders /\ Awaited(f)'
    <3> SUFFICES ASSUME NEW f \in unlinking' PROVE f \notin Folders /\ Awaited(f)'
        OBVIOUS
    <3>1. f \in unlinking \ {e}
        OBVIOUS
    <3>2. Parent[f] # e /\ Parent[f] \in Entries
        BY <2>4, <3>1, TreeFacts
    <3> QED
        BY <1>3, <2>1, <2>4, <3>1, <3>2 DEF Awaited
  <2> QED
      BY <1>1, <1>3, <2>5, <2>6 DEF ReasonInv
<1>8. CASE e # TargetDir
  <2>1. up \in Folders /\ frame[up] = "children" /\ e \in present /\ up \in Entries
      BY <1>8, TreeFacts DEF Awaited
  <2>2. up # e
      BY <2>1
  <2>3. /\ waiting' = [waiting EXCEPT ![up] = @ - 1]
        /\ frame' = IF frames[up] = "children" /\ waiting[up] = 1
                    THEN [frames EXCEPT ![up] = "rmdir"] ELSE frames
      BY <1>8 DEF ChildDone
  <2>4. DirInv(up) /\ frames[up] = "children" /\ e \in Children(up)
      BY <1>3, <2>1, <2>2 DEF Children
  <2>5. waiting[up] = Cardinality(Children(up))
      BY <2>1, <2>4 DEF DirInv
  <2>6. IsFiniteSet(Children(up)) /\ Cardinality(Children(up)) \in Nat
      BY ChildrenFinite
  <2>7. /\ IsFiniteSet(Children(up) \ {e})
        /\ Cardinality(Children(up) \ {e}) = Cardinality(Children(up)) - 1
      BY <2>4, <2>6, FS_RemoveElement
  <2>8. waiting'[up] = Cardinality(Children(up)')
      BY <1>5, <2>1, <2>3, <2>5, <2>7
  <2>9. waiting[up] = 1 <=> Children(up)' = {}
      BY <1>5, <2>5, <2>6, <2>7, FS_EmptySet
  <2>10. \A d \in Entries \ {e, up} : frame'[d] = frame[d] /\ waiting'[d] = waiting[d]
      BY <2>3
  <2>11. /\ frame'[e] = frames[e]
         /\ frame'[up] = IF waiting[up] = 1 THEN "rmdir" ELSE "children"
      BY <2>1, <2>2, <2>3, <2>4
  <2>12. ASSUME NEW f \in Entries, f # e, f # TargetDir, Active(f) \/ f \in unlinking
         PROVE  Parent[f] \in Folders /\ frame'[Parent[f]] = "children" /\ f \in present'
    <3>1. Parent[f] \in Folders /\ frame[Parent[f]] = "children" /\ f \in present
        BY <1>3, <2>12 DEF DirInv, Awaited
    <3>2. Parent[f] # e /\ Parent[f] \in Entries
        BY <3>1, TreeFacts
    <3>3. CASE Parent[f] = up
      <4>1. f \in Children(up)'
          BY <1>5, <2>12, <3>1, <3>3 DEF Children
      <4> QED
          BY <2>9, <2>11, <2>12, <3>1, <3>3, <4>1
    <3>4. CASE Parent[f] # up
        BY <2>10, <2>12, <3>1, <3>2, <3>4
    <3> QED
        BY <3>3, <3>4
  <2>13. \A f \in Entries : f # e => (Active(f)' <=> Active(f))
      BY <2>1, <2>10, <2>11 DEF Active
  <2>14. ~Active(e)'
      BY <2>11 DEF Active
  <2>15. ASSUME NEW d \in Entries PROVE DirInv(d)'
    <3>1. CASE d = e
        BY <2>11, <2>14, <3>1 DEF DirInv, Active
    <3>2. ASSUME d # e, Active(d) PROVE d \in Folders /\ Awaited(d)'
        BY <1>2, <1>3, <2>12, <3>2 DEF DirInv, Awaited
    <3>3. ASSUME d # e, frame[d] = "children", NEW f \in Children(d)'
          PROVE  f \in unlinking' \/ Active(f)'
      <4>1. f \in Children(d) /\ f # e /\ f \in Entries
          BY <1>4, <1>5, <3>3 DEF Children
      <4>2. f \in unlinking \/ Active(f)
          BY <1>3, <3>3, <4>1 DEF DirInv
      <4> QED
          BY <2>13, <4>1, <4>2
    <3>4. CASE d = up
        BY <2>1, <2>2, <2>8, <2>9, <2>11, <2>13, <3>2, <3>3, <3>4 DEF DirInv, Active
    <3>5. CASE d # e /\ d # up
      <4>1. frame'[d] = frame[d] /\ waiting'[d] = waiting[d] /\ Children(d)' = Children(d)
          BY <1>6, <2>10, <3>5
      <4>2. DirInv(d)
          BY <1>3
      <4> QED
          BY <2>13, <3>2, <3>3, <3>5, <4>1, <4>2 DEF DirInv
    <3> QED
        BY <3>1, <3>4, <3>5
  <2>16. \A f \in unlinking' : f \notin Folders /\ Awaited(f)'
    <3> SUFFICES ASSUME NEW f \in unlinking' PROVE f \notin Folders /\ Awaited(f)'
        OBVIOUS
    <3>1. f \in unlinking /\ f # e /\ f \in Entries
        BY <1>4
    <3> QED
        BY <1>2, <1>3, <2>12, <3>1 DEF Awaited
  <2> QED
      BY <1>1, <1>3, <2>15, <2>16 DEF ReasonInv
<1> QED
    BY <1>7, <1>8

\* Before the first answer no branch is under way.
LEMMA QuietReason ==
    ASSUME deletion.pc # "rejected", unlinking = {},
           \A d \in Entries : frame[d] = "none"
    PROVE  ReasonInv
    BY DEF ReasonInv, DirInv, Active

\* What is disturbed stays so.
LEMMA DisturbedKept ==
    ASSUME disturbed' = TRUE
    PROVE  ReasonInv'
    BY DEF ReasonInv, Undisturbed

\* The children of a directory are new to the call.
LEMMA ReadKept ==
    ASSUME ScopeInv, ReasonInv, waiting \in [Entries -> Int],
           NEW dir \in Folders, ReadAnswer(dir)
    PROVE  ReasonInv'
<1> SUFFICES ASSUME Undisturbed' PROVE ReasonInv'
    BY DEF ReasonInv
<1> DEFINE below == {e \in Children(dir) : IsFolder(e)}
<1>1. UNCHANGED <<present, deletion, disturbed>> /\ frame[dir] = "readdir" /\ dir \in Entries
    BY TreeFacts DEF ReadAnswer
<1>2. Undisturbed /\ TargetDir' = TargetDir
    BY <1>1 DEF Undisturbed, TargetDir, InTree
<1>3. /\ deletion.pc # "rejected"
      /\ \A d \in Entries : DirInv(d)
      /\ \A f \in unlinking : f \notin Folders /\ Awaited(f)
    BY <1>2 DEF ReasonInv
<1>4. /\ present \subseteq Entries /\ unlinking \subseteq Entries
      /\ frame \in [Entries -> {"none", "readdir", "children", "rmdir", "done", "failed"}]
      /\ InTree(dir)
    BY <1>1 DEF ScopeInv
<1>5. deletion.pc # "idle" /\ TargetDir \in Entries
    BY <1>1, BranchFacts, TargetDirIsEntry
<1>6. \A d : Children(d)' = Children(d)
    BY <1>1 DEF Children
<1>7. ASSUME NEW e \in Children(dir)
      PROVE  e \in Entries /\ e \in present /\ Parent[e] = dir /\ e # dir /\ e # TargetDir
  <2>1. e \in Entries /\ e \in present /\ Parent[e] = dir
      BY <1>4 DEF Children
  <2>2. dir \notin Ancestors(dir)
      BY <1>1, TreeAssumption
  <2>3. e # dir
      BY <2>1, <2>2, ChildIsBelow
  <2>4. e # TargetDir
      BY <1>1, <1>5, <2>1, TopIsNotAwaited
  <2> QED
      BY <2>1, <2>3, <2>4
<1>8. \A e \in Children(dir) : ~Active(e)
    BY <1>1, <1>3, <1>7 DEF DirInv, Awaited
<1>9. {Resolved(e) : e \in below} = below
  <2>1. \A e \in below : Resolved(e) = e
      BY TreeFacts DEF Resolved, IsFolder
  <2> QED
      BY <2>1
<1>10. below \subseteq Folders /\ below \subseteq Children(dir) /\ dir \notin below
  <2>1. \A e \in Children(dir) : InTree(e)
      BY <1>4, <1>7, ChildIsBelow DEF InTree
  <2>2. \A e \in Children(dir) : e \notin Specials
      BY <1>2, <2>1 DEF Undisturbed
  <2> QED
      BY <1>7, <2>2 DEF IsFolder
<1>11. /\ frame'[dir] = IF Children(dir) = {} THEN "rmdir" ELSE "children"
       /\ \A e \in below : e \in Entries /\ frame'[e] = "readdir"
       /\ \A d \in Entries : d # dir /\ d \notin below => frame'[d] = frame[d]
  <2>1. frame' = [d \in Entries |->
            IF d = dir THEN IF Children(dir) = {} THEN Empty(dir) ELSE "children"
            ELSE IF d \in {Resolved(e) : e \in below} THEN "readdir" ELSE frame[d]]
      BY DEF ReadAnswer
  <2> HIDE DEF below
  <2>2. frame' = [d \in Entries |->
            IF d = dir THEN IF Children(dir) = {} THEN "rmdir" ELSE "children"
            ELSE IF d \in below THEN "readdir" ELSE frame[d]]
      BY <1>9, <2>1 DEF Empty
  <2>3. \A e \in below : e \in Entries
      BY <1>7, <1>10
  <2> QED
      BY <1>1, <1>10, <2>2, <2>3
<1>12. /\ unlinking' = unlinking \cup (Children(dir) \ below)
       /\ waiting' = [waiting EXCEPT ![dir] = Cardinality(Children(dir))]
    BY DEF ReadAnswer
<1> HIDE DEF below
<1>13. \A d \in Entries : frame[d] = "children" => frame'[d] = "children"
  <2> SUFFICES ASSUME NEW d \in Entries, frame[d] = "children" PROVE frame'[d] = "children"
      OBVIOUS
  <2>1. d # dir /\ Active(d)
      BY <1>1 DEF Active
  <2>2. d \notin below
      BY <1>8, <1>10, <2>1
  <2> QED
      BY <1>11, <2>1, <2>2
<1>14. ASSUME NEW f \in Entries, Awaited(f) PROVE Awaited(f)'
    BY <1>1, <1>2, <1>13, <1>14, TreeFacts DEF Awaited
<1>15. ASSUME NEW f \in Children(dir) PROVE Awaited(f)'
  <2>1. Children(dir) # {} /\ frame'[dir] = "children"
      BY <1>11
  <2>2. Parent[f] = dir /\ f \in present
      BY <1>7
  <2> QED
      BY <1>1, <2>1, <2>2 DEF Awaited
<1>16. \A d \in Entries : Active(d) => Active(d)'
    BY <1>11 DEF Active
<1>17. ASSUME NEW d \in Entries PROVE DirInv(d)'
  <2>1. DirInv(d)
      BY <1>3
  <2>2. CASE d = dir
    <3>1. d \in Folders /\ Awaited(d)'
        BY <1>1, <1>14, <2>1, <2>2 DEF DirInv, Active
    <3>2. \A f \in Children(dir) : f \in unlinking' \/ Active(f)'
        BY <1>11, <1>12 DEF Active
    <3>3. waiting'[dir] = Cardinality(Children(dir))
        BY <1>1, <1>12
    <3> QED
        BY <1>6, <1>11, <2>2, <3>1, <3>2, <3>3 DEF DirInv
  <2>3. CASE d \in below
    <3>1. frame'[d] = "readdir" /\ d \in Folders /\ Awaited(d)'
        BY <1>10, <1>11, <1>15, <2>3
    <3> QED
        BY <3>1 DEF DirInv
  <2>4. CASE d # dir /\ d \notin below
    <3>1. frame'[d] = frame[d] /\ waiting'[d] = waiting[d]
        BY <1>11, <1>12, <2>4
    <3>2. Active(d) => d \in Folders /\ Awaited(d)'
        BY <1>14, <2>1 DEF DirInv
    <3>3. frame[d] = "children" => \A f \in Children(d) : f \in unlinking' \/ Active(f)'
      <4> SUFFICES ASSUME frame[d] = "children", NEW f \in Children(d)
                   PROVE  f \in unlinking' \/ Active(f)'
          OBVIOUS
      <4>1. f \in Entries /\ (f \in unlinking \/ Active(f))
          BY <1>4, <2>1 DEF DirInv, Children
      <4> QED
          BY <1>12, <1>16, <4>1
    <3> QED
        BY <1>6, <2>1, <3>1, <3>2, <3>3 DEF DirInv, Active
  <2> QED
      BY <2>2, <2>3, <2>4
<1>18. ASSUME NEW f \in unlinking' PROVE f \notin Folders /\ Awaited(f)'
  <2>1. CASE f \in unlinking
      BY <1>3, <1>4, <1>14, <2>1
  <2>2. CASE f \in Children(dir) \ below
      BY <1>15, <2>2 DEF below, IsFolder
  <2> QED
      BY <1>12, <2>1, <2>2
<1> QED
    BY <1>1, <1>3, <1>17, <1>18 DEF ReasonInv

LEMMA ReasonStep ==
    ASSUME ScopeInv, ReasonInv, waiting \in [Entries -> Int], [DeleteNext]_deleteVars
    PROVE  ReasonInv'
<1>1. ASSUME NEW e \in Target, NEW recursive \in BOOLEAN, Delete(e, recursive)
      PROVE  ReasonInv'
  <2>1. deletion'.pc = "stat" /\ unlinking' = {} /\ \A d \in Entries : frame'[d] = "none"
      BY <1>1 DEF Delete, ScopeInv
  <2> QED
      BY <2>1 DEF ReasonInv, DirInv, Active
<1>2. CASE StatAnswer
  <2> SUFFICES ASSUME Undisturbed' PROVE ReasonInv'
      BY DEF ReasonInv
  <2>1. /\ deletion' = [deletion EXCEPT !.pc = "running"]
        /\ deletion \in [target : Target \cup {None}, recursive : BOOLEAN,
                         pc : {"idle", "stat", "running", "resolved", "rejected"}]
        /\ unlinking = {} /\ \A e \in Entries : frame[e] = "none"
        /\ frame \in [Entries -> {"none", "readdir", "children", "rmdir", "done", "failed"}]
        /\ deletion.target \in Target
      BY <1>2 DEF StatAnswer, ScopeInv
  <2>2. /\ deletion'.pc = "running" /\ deletion'.target = deletion.target
        /\ deletion'.recursive = deletion.recursive
      BY <2>1
  <2>3. deletion.recursive /\ deletion.target \notin Links
      BY <2>2 DEF Undisturbed
  <2>4. TargetDir' = TargetDir /\ TargetDir = deletion.target /\ TargetDir \in Entries
      BY <2>1, <2>2, <2>3, TreeFacts DEF TargetDir, Resolved
  <2>0. TargetDir \notin Specials
      BY <2>4 DEF Undisturbed, InTree
  <2>5. CASE TargetDir \in Folders
    <3>1. /\ frame' = [frame EXCEPT ![TargetDir] = "readdir"] /\ unlinking' = {}
        BY <1>2, <2>1, <2>3, <2>5 DEF StatAnswer, IsFolder
    <3>2. \A d \in Entries : frame'[d] = IF d = TargetDir THEN "readdir" ELSE "none"
        BY <2>1, <3>1
    <3> QED
        BY <2>2, <2>4, <2>5, <3>1, <3>2 DEF ReasonInv, DirInv, Active, Awaited
  <2>6. CASE TargetDir \notin Folders
    <3>1. unlinking' = {TargetDir} /\ frame' = frame
        BY <1>2, <2>0, <2>4, <2>6 DEF StatAnswer, IsFolder
    <3> QED
        BY <2>1, <2>2, <2>4, <2>6, <3>1 DEF ReasonInv, DirInv, Active, Awaited
  <2> QED
      BY <2>5, <2>6
<1>3. ASSUME NEW dir \in Folders, ReadAnswer(dir) PROVE ReasonInv'
    BY <1>3, ReadKept
<1>4. ASSUME NEW e \in Entries, UnlinkAnswer(e) PROVE ReasonInv'
  <2> SUFFICES ASSUME Undisturbed' PROVE ReasonInv'
      BY DEF ReasonInv
  <2>1. /\ e \in unlinking /\ unlinking' = unlinking \ {e} /\ present' = present \ {e}
        /\ ChildDone(e, frame) /\ disturbed' = disturbed
      BY <1>4 DEF UnlinkAnswer, Undisturbed
  <2>2. deletion.pc \notin {"idle", "stat"}
      BY <2>1, BranchFacts
  <2>3. Undisturbed
      BY <2>1, <2>2, EndSettles DEF Undisturbed, InTree, TargetDir
  <2>4. e \notin Folders /\ Awaited(e) /\ DirInv(e)
      BY <2>1, <2>3 DEF ReasonInv
  <2>5. ~Active(e) /\ frame[e] # "failed"
      BY <2>4 DEF DirInv
  <2>6. frame \in [Entries -> {"none", "readdir", "children", "rmdir", "done", "failed"}]
      BY DEF ScopeInv
  <2> QED
      BY <2>1, <2>2, <2>3, <2>4, <2>5, <2>6, ChildGone DEF Active
<1>5. ASSUME NEW dir \in Folders, RmdirAnswer(dir) PROVE ReasonInv'
  <2> SUFFICES ASSUME Undisturbed' PROVE ReasonInv'
      BY DEF ReasonInv
  <2>1. frame[dir] = "rmdir" /\ dir \in Entries /\ unlinking' = unlinking
      BY <1>5, TreeFacts DEF RmdirAnswer
  <2>2. deletion.pc \notin {"idle", "stat"}
      BY <2>1, BranchFacts
  <2>3. PICK after \in {"done", "failed"} :
            LET frames == [frame EXCEPT ![dir] = after] IN
            ChildDone(dir, frames) \/ ChildFails(dir, frames)
      BY <1>5 DEF RmdirAnswer
  <2>4. ~disturbed /\ deletion.target \notin Links /\ Undisturbed
    <3>1. ~disturbed
        BY <1>5 DEF RmdirAnswer, Undisturbed
    <3>2. deletion'.recursive = deletion.recursive /\ deletion'.target = deletion.target
        BY <2>2, <2>3, EndSettles
    <3> QED
        BY <3>1, <3>2 DEF Undisturbed, InTree, TargetDir
  <2>5. Undisturbed
      BY <2>4
  <2>6. DirInv(dir) /\ \A f \in unlinking : f \notin Folders
      BY <2>1, <2>5 DEF ReasonInv
  <2>7. Children(dir) = {} /\ Active(dir) /\ Awaited(dir)
      BY <2>1, <2>6 DEF DirInv, Active
  <2> DEFINE frames == [frame EXCEPT ![dir] = "done"]
  <2>8. present' = present \ {dir} /\ ChildDone(dir, frames) /\ disturbed' = disturbed
      BY <1>5, <2>4, <2>7 DEF RmdirAnswer, Undisturbed
  <2>9. frame \in [Entries -> {"none", "readdir", "children", "rmdir", "done", "failed"}]
      BY DEF ScopeInv
  <2>10. /\ frames \in [Entries -> {"none", "readdir", "children", "rmdir", "done", "failed"}]
         /\ frames[dir] = "done" /\ \A d \in Entries \ {dir} : frames[d] = frame[d]
      BY <2>1, <2>9
  <2>11. unlinking' = unlinking \ {dir}
      BY <2>1, <2>6
  <2> HIDE DEF frames
  <2> QED
      BY <2>1, <2>2, <2>5, <2>7, <2>8, <2>10, <2>11, ChildGone
<1>6. CASE ServerRefuses \/ \E e \in Additions : Add(e)
    BY <1>6, DisturbedKept DEF ServerRefuses, Add
<1>7. CASE UNCHANGED deleteVars
    BY <1>7 DEF deleteVars, ReasonInv, Undisturbed, InTree, DirInv, Active, Awaited, Children,
                TargetDir
<1>8. ASSUME NEW e \in Specials, NotADirectory(e) PROVE ReasonInv'
  <2>1. e \in Entries /\ frame[e] # "none"
      BY <1>8, TreeFacts DEF NotADirectory
  <2>2. InTree(e) /\ deletion.pc \notin {"idle", "stat"}
      BY <2>1, BranchFacts DEF ScopeInv
  <2>3. deletion'.target = deletion.target
      BY <1>8, <2>2, EndSettles DEF NotADirectory
  <2>4. InTree(e)'
      BY <2>2, <2>3 DEF InTree, TargetDir
  <2> QED
      BY <2>4 DEF ReasonInv, Undisturbed
<1> QED
    BY <1>1, <1>2, <1>3, <1>4, <1>5, <1>6, <1>7, <1>8 DEF DeleteNext, Answers

-----------------------------------------------------------------------------
(* How many children are waited for                                        *)

Stages == {"none", "readdir", "children", "rmdir", "done", "failed"}

\* The entries of a directory whose removal is under way.
Pending(d) ==
    {e \in Entries : Parent[e] = d /\ e # TargetDir /\ (e \in unlinking \/ Active(e))}

\* Nothing in the directory has been touched.
Fresh(d) == \A e \in Entries : Parent[e] = d /\ e # TargetDir => frame[e] = "none" /\ e \notin unlinking

\* A directory waits for at least as many removals as are under way in it, so that the
\* count never gets below zero, and what is in it is touched after it was read.
WaitInv ==
    /\ waiting \in [Entries -> Int]
    /\ \A d \in Entries :
        /\ Cardinality(Pending(d)) <= waiting[d]
        /\ waiting[d] <= Cardinality(Entries)
        /\ frame[d] \in {"none", "readdir"} => Fresh(d)
        /\ frame[d] # "none" => IsFolder(d)
    /\ \A e \in unlinking : ~IsFolder(e)

LEMMA PendingFinite ==
    \A d : IsFiniteSet(Pending(d)) /\ Cardinality(Pending(d)) \in Nat
<1> SUFFICES ASSUME NEW d
             PROVE  IsFiniteSet(Pending(d)) /\ Cardinality(Pending(d)) \in Nat
    OBVIOUS
<1>1. Pending(d) \in SUBSET Entries
    BY DEF Pending
<1>2. IsFiniteSet(Pending(d))
    BY <1>1, FS_Subset, TreeFacts
<1> QED
    BY <1>2, FS_CardinalityType

LEMMA PendingFiniteNext ==
    \A d : IsFiniteSet(Pending(d)') /\ Cardinality(Pending(d)') \in Nat
<1> SUFFICES ASSUME NEW d
             PROVE  IsFiniteSet(Pending(d)') /\ Cardinality(Pending(d)') \in Nat
    OBVIOUS
<1>1. Pending(d)' \in SUBSET Entries
    BY DEF Pending
<1>2. IsFiniteSet(Pending(d)')
    BY <1>1, FS_Subset, TreeFacts
<1> QED
    BY <1>2, FS_CardinalityType

\* The removal of e ends, and no other is started.
LEMMA EndWaits ==
    ASSUME ScopeInv, WaitInv, deletion.pc \notin {"idle", "stat"},
           NEW e \in Entries, e \in unlinking \/ Active(e),
           NEW frames \in [Entries -> Stages],
           \A d \in Entries \ {e} : frames[d] = frame[d],
           frames[e] \in {"none", "done", "failed"},
           frames[e] = "none" => frame[e] = "none",
           frames[e] # "none" => IsFolder(e),
           unlinking' = unlinking \ {e},
           ChildDone(e, frames) \/ ChildFails(e, frames)
    PROVE  WaitInv'
<1>0. /\ waiting \in [Entries -> Int] /\ frame \in [Entries -> Stages]
      /\ unlinking \subseteq Entries /\ \A d \in unlinking : ~IsFolder(d)
      /\ \A d \in Entries : frame[d] # "none" => IsFolder(d)
    BY DEF ScopeInv, WaitInv, Stages
<1>1. TargetDir' = TargetDir
    BY EndSettles DEF TargetDir
<1>2. \A d \in Entries : \/ frame'[d] = frames[d]
                         \/ frames[d] = "children" /\ frame'[d] \in {"rmdir", "failed"}
  <2>1. CASE ChildDone(e, frames)
      BY <2>1 DEF ChildDone
  <2>2. CASE ChildFails(e, frames)
      BY <2>2 DEF ChildFails
  <2> QED
      BY <2>1, <2>2
<1>3. ASSUME NEW f \in Entries, f \in unlinking' \/ Active(f)'
      PROVE  f # e /\ (f \in unlinking \/ Active(f))
    BY <1>2, <1>3 DEF Active
<1>4. \A d : Pending(d)' \subseteq Pending(d) \ {e}
    BY <1>1, <1>3 DEF Pending
<1>5. ASSUME NEW d \in Entries
      PROVE  /\ waiting'[d] \in Int
             /\ \/ waiting'[d] = waiting[d]
                \/ waiting'[d] = waiting[d] - 1 /\ e \in Pending(d)
  <2>1. CASE waiting' = waiting
      BY <1>0, <2>1
  <2>2. CASE e # TargetDir /\ waiting' = [waiting EXCEPT ![Parent[e]] = @ - 1]
    <3>1. CASE d = Parent[e]
      <4>1. waiting'[d] = waiting[d] - 1
          BY <1>0, <2>2, <3>1
      <4> QED
          BY <1>0, <2>2, <3>1, <4>1 DEF Pending
    <3>2. CASE d # Parent[e]
        BY <1>0, <2>2, <3>2
    <3> QED
        BY <3>1, <3>2
  <2> QED
      BY <2>1, <2>2 DEF ChildDone, ChildFails
<1>6. waiting' \in [Entries -> Int]
  <2>1. waiting' = waiting \/ waiting' = [waiting EXCEPT ![Parent[e]] = @ - 1]
      BY DEF ChildDone, ChildFails
  <2>2. waiting' = [d \in Entries |-> waiting'[d]]
      BY <1>0, <2>1
  <2> QED
      BY <1>5, <2>2
<1>7. ASSUME NEW d \in Entries
      PROVE  Cardinality(Pending(d)') <= waiting'[d] /\ waiting'[d] <= Cardinality(Entries)
  <2>1. /\ Cardinality(Pending(d)) <= waiting[d] /\ waiting[d] <= Cardinality(Entries)
        /\ waiting[d] \in Int
      BY DEF WaitInv
  <2>2. /\ IsFiniteSet(Pending(d)) /\ Cardinality(Pending(d)) \in Nat
        /\ IsFiniteSet(Pending(d) \ {e})
        /\ Cardinality(Pending(d) \ {e}) = IF e \in Pending(d) THEN Cardinality(Pending(d)) - 1
                                           ELSE Cardinality(Pending(d))
      BY PendingFinite, FS_RemoveElement
  <2>3. Cardinality(Pending(d)') <= Cardinality(Pending(d) \ {e})
      BY <1>4, <2>2, FS_Subset
  <2>4. Cardinality(Pending(d)') \in Nat /\ Cardinality(Entries) \in Nat
      BY PendingFiniteNext, TreeFacts, FS_CardinalityType
  <2> QED
      BY <1>5, <2>1, <2>2, <2>3, <2>4
<1>8. ASSUME NEW d \in Entries, frame'[d] \in {"none", "readdir"}
      PROVE  Fresh(d)'
  <2>1. frame[d] \in {"none", "readdir"}
      BY <1>2, <1>8
  <2>2. Fresh(d)
      BY <2>1 DEF WaitInv
  <2> SUFFICES ASSUME NEW f \in Entries, Parent[f] = d, f # TargetDir
               PROVE  frame'[f] = "none" /\ f \notin unlinking'
      BY <1>1 DEF Fresh
  <2>3. frame[f] = "none" /\ f \notin unlinking
      BY <2>2 DEF Fresh
  <2>4. f # e
      BY <2>3 DEF Active
  <2> QED
      BY <1>2, <2>3, <2>4
<1>9. ASSUME NEW d \in Entries, frame'[d] # "none" PROVE IsFolder(d)
    BY <1>0, <1>2, <1>9
<1> QED
    BY <1>0, <1>6, <1>7, <1>8, <1>9 DEF WaitInv

\* Before the call, and on its first answer, there is nothing to wait for.
LEMMA QuietWaits ==
    ASSUME WaitInv, UNCHANGED waiting, frame' \in [Entries -> Stages],
           \A d \in Entries : frame'[d] # "none" => d = TargetDir' /\ IsFolder(d),
           \A e \in unlinking' : e = TargetDir' /\ ~IsFolder(e)
    PROVE  WaitInv'
<1>1. \A d : Pending(d)' = {}
    BY DEF Pending, Active
<1>2. \A d \in Entries : Fresh(d)'
    BY DEF Fresh
<1>3. ASSUME NEW d \in Entries
      PROVE  Cardinality(Pending(d)') <= waiting[d]
  <2>1. Cardinality(Pending(d)') = 0
      BY <1>1, FS_EmptySet
  <2>2. Cardinality(Pending(d)) \in Nat /\ Cardinality(Pending(d)) <= waiting[d]
        /\ waiting[d] \in Int
      BY PendingFinite DEF WaitInv
  <2> QED
      BY <2>1, <2>2
<1> QED
    BY <1>2, <1>3 DEF WaitInv

LEMMA ReadWaits ==
    ASSUME ScopeInv, WaitInv, NEW dir \in Folders, ReadAnswer(dir)
    PROVE  WaitInv'
<1> DEFINE below == {e \in Children(dir) : IsFolder(e)}
<1>0. /\ waiting \in [Entries -> Int] /\ frame \in [Entries -> Stages]
      /\ present \subseteq Entries /\ unlinking \subseteq Entries /\ \A d \in unlinking : ~IsFolder(d)
      /\ \A d \in Entries : frame[d] # "none" => IsFolder(d)
    BY DEF ScopeInv, WaitInv, Stages
<1>1. UNCHANGED <<present, deletion, disturbed>> /\ frame[dir] = "readdir" /\ dir \in Entries
    BY TreeFacts DEF ReadAnswer
<1>2. TargetDir' = TargetDir
    BY <1>1 DEF TargetDir
<1>3. deletion.pc # "idle"
    BY <1>1, BranchFacts
<1>4. Fresh(dir)
    BY <1>1 DEF WaitInv
<1>5. ASSUME NEW e \in Children(dir)
      PROVE  /\ e \in Entries /\ Parent[e] = dir /\ e # dir /\ e # TargetDir
             /\ frame[e] = "none"
  <2>1. e \in Entries /\ Parent[e] = dir
      BY <1>0 DEF Children
  <2>2. dir \notin Ancestors(dir)
      BY <1>1, TreeAssumption
  <2>3. e # dir
      BY <2>1, <2>2, ChildIsBelow
  <2>4. e # TargetDir
      BY <1>1, <1>3, <2>1, TopIsNotAwaited
  <2> QED
      BY <1>4, <2>1, <2>3, <2>4 DEF Fresh
<1>6. {Resolved(e) : e \in below} = below
  <2>1. \A e \in below : Resolved(e) = e
      BY TreeFacts DEF Resolved, IsFolder
  <2> QED
      BY <2>1
<1>7. below \subseteq Children(dir) /\ dir \notin below /\ \A e \in below : IsFolder(e)
    BY <1>5
<1>8. /\ frame'[dir] \in {"rmdir", "children"}
      /\ \A e \in below : e \in Entries /\ frame'[e] = "readdir"
      /\ \A d \in Entries : d # dir /\ d \notin below => frame'[d] = frame[d]
  <2>1. frame' = [d \in Entries |->
            IF d = dir THEN IF Children(dir) = {} THEN Empty(dir) ELSE "children"
            ELSE IF d \in {Resolved(e) : e \in below} THEN "readdir" ELSE frame[d]]
      BY DEF ReadAnswer
  <2> HIDE DEF below
  <2>2. frame' = [d \in Entries |->
            IF d = dir THEN IF Children(dir) = {} THEN "rmdir" ELSE "children"
            ELSE IF d \in below THEN "readdir" ELSE frame[d]]
      BY <1>6, <2>1 DEF Empty
  <2>3. \A e \in below : e \in Entries
      BY <1>5, <1>7
  <2> QED
      BY <1>1, <1>7, <2>2, <2>3
<1>9. /\ unlinking' = unlinking \cup (Children(dir) \ below)
      /\ waiting' = [waiting EXCEPT ![dir] = Cardinality(Children(dir))]
    BY DEF ReadAnswer
<1>10. \A e \in Children(dir) \ below : ~IsFolder(e)
    OBVIOUS
<1> HIDE DEF below
<1>11. ASSUME NEW f \in Entries, f \notin Children(dir)
       PROVE  /\ f \in unlinking' <=> f \in unlinking
              /\ Active(f)' => Active(f)
              /\ f # dir => frame'[f] = frame[f]
    BY <1>1, <1>7, <1>8, <1>9, <1>11 DEF Active
<1>12. Pending(dir)' \subseteq Children(dir)
  <2> SUFFICES ASSUME NEW f \in Entries, Parent[f] = dir, f # TargetDir,
                      f \in unlinking' \/ Active(f)', f \notin Children(dir)
               PROVE  FALSE
      BY <1>2 DEF Pending
  <2>1. f \in unlinking \/ Active(f)
      BY <1>11
  <2> QED
      BY <1>4, <2>1 DEF Fresh, Active
<1>13. \A d : d # dir => Pending(d)' \subseteq Pending(d)
    BY <1>2, <1>5, <1>11 DEF Pending
<1>14. Cardinality(Children(dir)) \in Nat /\ IsFiniteSet(Children(dir))
    BY ChildrenFinite
<1>15. Cardinality(Children(dir)) <= Cardinality(Entries) /\ Cardinality(Entries) \in Nat
  <2>1. Children(dir) \in SUBSET Entries
      BY <1>5
  <2> QED
      BY <2>1, TreeFacts, FS_Subset, FS_CardinalityType
<1>16. waiting' \in [Entries -> Int]
  <2>1. PICK c \in Nat : c = Cardinality(Children(dir))
      BY <1>14
  <2>2. waiting' = [waiting EXCEPT ![dir] = c]
      BY <1>9, <2>1
  <2>3. waiting' = [d \in Entries |-> waiting'[d]]
      BY <1>0, <2>2
  <2>4. ASSUME NEW d \in Entries PROVE waiting'[d] \in Int
    <3>1. waiting'[d] = IF d = dir THEN c ELSE waiting[d]
        BY <1>0, <2>2
    <3> QED
        BY <1>0, <3>1
  <2> QED
      BY <2>3, <2>4
<1>17. ASSUME NEW d \in Entries
       PROVE  Cardinality(Pending(d)') <= waiting'[d] /\ waiting'[d] <= Cardinality(Entries)
  <2>1. CASE d = dir
    <3>1. waiting'[d] = Cardinality(Children(dir))
        BY <1>0, <1>9, <2>1
    <3>2. Cardinality(Pending(dir)') <= Cardinality(Children(dir))
        BY <1>12, <1>14, FS_Subset
    <3> QED
        BY <1>15, <2>1, <3>1, <3>2
  <2>2. CASE d # dir
    <3>1. waiting'[d] = waiting[d] /\ waiting[d] \in Int
        BY <1>0, <1>9, <2>2
    <3>2. Cardinality(Pending(d)') <= Cardinality(Pending(d))
        BY <1>13, <2>2, PendingFinite, FS_Subset
    <3>3. Cardinality(Pending(d)) <= waiting[d] /\ waiting[d] <= Cardinality(Entries)
        BY DEF WaitInv
    <3>4. Cardinality(Pending(d)') \in Nat /\ Cardinality(Pending(d)) \in Nat
        BY PendingFinite, PendingFiniteNext
    <3> QED
        BY <1>15, <3>1, <3>2, <3>3, <3>4
  <2> QED
      BY <2>1, <2>2
<1>18. ASSUME NEW d \in Entries, frame'[d] \in {"none", "readdir"}
       PROVE  Fresh(d)'
  <2>1. d # dir
      BY <1>8, <1>18
  <2>2. frame[d] \in {"none", "readdir"}
      BY <1>5, <1>7, <1>8, <1>18, <2>1
  <2>3. Fresh(d)
      BY <2>2 DEF WaitInv
  <2> SUFFICES ASSUME NEW f \in Entries, Parent[f] = d, f # TargetDir
               PROVE  frame'[f] = "none" /\ f \notin unlinking'
      BY <1>2 DEF Fresh
  <2>4. frame[f] = "none" /\ f \notin unlinking
      BY <2>3 DEF Fresh
  <2>5. f \notin Children(dir) /\ f # dir
      BY <1>1, <1>5, <2>1, <2>4
  <2> QED
      BY <1>11, <2>4, <2>5
<1>19. ASSUME NEW d \in Entries, frame'[d] # "none" PROVE IsFolder(d)
    BY <1>0, <1>1, <1>7, <1>8, <1>19
<1>20. \A e \in unlinking' : ~IsFolder(e)
    BY <1>0, <1>9, <1>10
<1> QED
    BY <1>16, <1>17, <1>18, <1>19, <1>20 DEF WaitInv

LEMMA WaitStep ==
    ASSUME ScopeInv, WaitInv, [DeleteNext]_deleteVars
    PROVE  WaitInv'
<1>0. /\ waiting \in [Entries -> Int] /\ frame \in [Entries -> Stages]
      /\ unlinking \subseteq Entries /\ \A d \in unlinking : ~IsFolder(d)
      /\ \A d \in Entries : frame[d] # "none" => IsFolder(d)
      /\ deletion.pc \in {"idle", "stat"} =>
            unlinking = {} /\ \A d \in Entries : frame[d] = "none"
    BY DEF ScopeInv, WaitInv, Stages
<1>1. ASSUME NEW e \in Target, NEW recursive \in BOOLEAN, Delete(e, recursive)
      PROVE  WaitInv'
    BY <1>0, <1>1, QuietWaits DEF Delete
<1>2. CASE StatAnswer
  <2>1. /\ deletion.pc = "stat" /\ UNCHANGED waiting
        /\ deletion'.target = deletion.target
      BY <1>2 DEF StatAnswer, ScopeInv
  <2>2. unlinking = {} /\ \A d \in Entries : frame[d] = "none"
      BY <1>0, <2>1
  <2>3. TargetDir' = TargetDir
      BY <2>1 DEF TargetDir
  <2>4. TargetDir \in Entries /\ deletion.target \in Target
      BY <2>1, TargetDirIsEntry DEF ScopeInv
  <2>5. CASE IsFolder(TargetDir)
    <3>1. /\ frame' = [frame EXCEPT ![TargetDir] =
                          IF deletion.recursive THEN "readdir" ELSE "rmdir"]
          /\ UNCHANGED unlinking
        BY <1>2, <2>5 DEF StatAnswer
    <3>2. frame' \in [Entries -> Stages]
        BY <1>0, <3>1 DEF Stages
    <3> QED
        BY <1>0, <2>1, <2>2, <2>3, <2>4, <2>5, <3>1, <3>2, QuietWaits
  <2>6. CASE ~IsFolder(TargetDir)
    <3>1. unlinking' = {deletion.target} /\ UNCHANGED frame
        BY <1>2, <2>6 DEF StatAnswer
    <3>2. deletion.target = TargetDir
        BY <2>4, <2>6, TreeFacts DEF TargetDir, Resolved, IsFolder
    <3> QED
        BY <1>0, <2>1, <2>2, <2>3, <2>6, <3>1, <3>2, QuietWaits
  <2> QED
      BY <2>5, <2>6
<1>3. ASSUME NEW dir \in Folders, ReadAnswer(dir) PROVE WaitInv'
    BY <1>3, ReadWaits
<1>4. ASSUME NEW e \in Entries, UnlinkAnswer(e) PROVE WaitInv'
  <2>1. /\ e \in unlinking /\ unlinking' = unlinking \ {e}
        /\ ChildDone(e, frame) \/ ChildFails(e, frame)
      BY <1>4 DEF UnlinkAnswer
  <2>2. frame[e] = "none"
      BY <1>0, <2>1
  <2>3. deletion.pc \notin {"idle", "stat"}
      BY <2>1, BranchFacts
  <2> QED
      BY <1>0, <2>1, <2>2, <2>3, EndWaits
<1>5. ASSUME NEW dir \in Entries, IsFolder(dir), Active(dir), UNCHANGED unlinking,
             NEW stage \in {"done", "failed"},
             \/ ChildDone(dir, [frame EXCEPT ![dir] = stage])
             \/ ChildFails(dir, [frame EXCEPT ![dir] = stage])
      PROVE  WaitInv'
  <2> DEFINE frames == [frame EXCEPT ![dir] = stage]
  <2>1. frame[dir] # "none" /\ dir \notin unlinking
      BY <1>0, <1>5 DEF Active
  <2>2. deletion.pc \notin {"idle", "stat"}
      BY <2>1, BranchFacts
  <2>3. /\ frames \in [Entries -> Stages] /\ frames[dir] = stage
        /\ \A d \in Entries \ {dir} : frames[d] = frame[d]
      BY <1>0, <1>5 DEF Stages
  <2>4. ChildDone(dir, frames) \/ ChildFails(dir, frames)
      BY <1>5
  <2>5. unlinking' = unlinking \ {dir}
      BY <1>5, <2>1
  <2> HIDE DEF frames
  <2> QED
      BY <1>5, <2>1, <2>2, <2>3, <2>4, <2>5, EndWaits
<1>6. ASSUME NEW dir \in Folders, RmdirAnswer(dir) PROVE WaitInv'
  <2>1. Active(dir) /\ UNCHANGED unlinking
      BY <1>6 DEF RmdirAnswer, Active
  <2>2. \/ ChildDone(dir, [frame EXCEPT ![dir] = "done"])
        \/ ChildFails(dir, [frame EXCEPT ![dir] = "failed"])
      BY <1>6 DEF RmdirAnswer
  <2>3. dir \in Entries /\ IsFolder(dir)
      BY TreeFacts DEF IsFolder
  <2> QED
      BY <1>5, <2>1, <2>2, <2>3
<1>7. CASE ServerRefuses
  <2>1. CASE UNCHANGED <<frame, waiting>> /\ deletion.pc = "stat"
      BY <1>0, <1>7, <2>1, QuietWaits DEF ServerRefuses
  <2>2. ASSUME NEW dir \in Folders, frame[dir] = "readdir",
               ChildFails(dir, [frame EXCEPT ![dir] = "failed"])
        PROVE  WaitInv'
    <3>1. Active(dir) /\ UNCHANGED unlinking
        BY <1>7, <2>2 DEF ServerRefuses, Active
    <3>2. dir \in Entries /\ IsFolder(dir)
        BY TreeFacts DEF IsFolder
    <3> QED
        BY <1>5, <2>2, <3>1, <3>2
  <2> QED
      BY <1>7, <2>1, <2>2 DEF ServerRefuses
<1>8. CASE UNCHANGED <<deletion, frame, waiting, unlinking>>
    BY <1>8 DEF WaitInv, Fresh, Pending, Active, TargetDir
<1>9. ASSUME NEW e \in Specials, NotADirectory(e) PROVE WaitInv'
  <2>1. Active(e) /\ UNCHANGED unlinking /\ e \in Entries /\ IsFolder(e)
      BY <1>9, TreeFacts DEF NotADirectory, Active, IsFolder
  <2>2. ChildFails(e, [frame EXCEPT ![e] = "failed"])
      BY <1>9 DEF NotADirectory
  <2> QED
      BY <1>5, <2>1, <2>2
<1> QED
    BY <1>1, <1>2, <1>3, <1>4, <1>6, <1>7, <1>8, <1>9
    DEF DeleteNext, Answers, Add, deleteVars

LEMMA WaitInit == DeleteInit => WaitInv
<1> SUFFICES ASSUME DeleteInit PROVE WaitInv
    OBVIOUS
<1>1. /\ unlinking = {} /\ \A d \in Entries : frame[d] = "none" /\ waiting[d] = 0
      /\ waiting \in [Entries -> Int]
    BY DEF DeleteInit
<1>2. \A d : Pending(d) = {}
    BY <1>1 DEF Pending, Active
<1>3. Cardinality({}) = 0 /\ Cardinality(Entries) \in Nat
    BY FS_EmptySet, FS_CardinalityType, TreeFacts
<1> QED
    BY <1>1, <1>2, <1>3 DEF WaitInv, Fresh

\* What delete() keeps of its branches has the types it should have in any tree, also
\* when the server refuses or somebody adds entries: the counts of the children that a
\* directory waits for stay between nothing and all entries.
THEOREM DeleteIsTyped == DeleteSpec => []DeleteTypeOK
<1>1. ScopeInv /\ WaitInv /\ [DeleteNext]_deleteVars => ScopeInv' /\ WaitInv'
    BY ScopeStep, WaitStep
<1>2. ScopeInv /\ WaitInv => DeleteTypeOK
  <2> SUFFICES ASSUME ScopeInv, WaitInv PROVE DeleteTypeOK
      OBVIOUS
  <2>1. ASSUME NEW d \in Entries PROVE waiting[d] \in 0..Cardinality(Entries)
    <3>1. /\ Cardinality(Pending(d)) \in Nat /\ Cardinality(Pending(d)) <= waiting[d]
          /\ waiting[d] \in Int /\ waiting[d] <= Cardinality(Entries)
        BY PendingFinite DEF WaitInv
    <3>2. Cardinality(Entries) \in Nat
        BY FS_CardinalityType, TreeFacts
    <3> QED
        BY <3>1, <3>2
  <2>2. waiting \in [Entries -> 0..Cardinality(Entries)]
      BY <2>1 DEF WaitInv
  <2> QED
      BY <2>2 DEF ScopeInv, DeleteTypeOK
<1> QED
    BY <1>1, <1>2, ScopeInit, WaitInit, PTL DEF DeleteSpec

-----------------------------------------------------------------------------
DeleteInv == ScopeInv /\ ReasonInv /\ WaitInv

\* The branches of a recursive delete do not get in each other's way, in any tree and any
\* order of the answers: no directory is removed before its last child, and the call
\* fails only if the server refuses something, somebody adds an entry meanwhile, or there
\* is a socket or a block device in the tree.
THEOREM DeletesFailForAReason == DeleteSpec => []FailsForAReason
<1>1. DeleteInit => DeleteInv
  <2> SUFFICES ASSUME DeleteInit PROVE DeleteInv
      OBVIOUS
  <2>1. /\ deletion.pc # "rejected" /\ unlinking = {}
        /\ \A d \in Entries : frame[d] = "none"
      BY DEF DeleteInit
  <2> QED
      BY <2>1, ScopeInit, WaitInit, QuietReason DEF DeleteInv
<1>2. DeleteInv /\ [DeleteNext]_deleteVars => DeleteInv'
  <2>1. WaitInv => waiting \in [Entries -> Int]
      BY DEF WaitInv
  <2> QED
      BY <2>1, ScopeStep, ReasonStep, WaitStep DEF DeleteInv
<1>3. DeleteInv => FailsForAReason
    BY DEF DeleteInv, ReasonInv, Undisturbed, FailsForAReason, InTree
<1> QED
    BY <1>1, <1>2, <1>3, PTL DEF DeleteSpec

-----------------------------------------------------------------------------
(* AgentAdapter                                                            *)

\* Two octets are compared with four bounds instead of the bits of the prefixes.
LEMMA RefusedArePrivate ==
    ASSUME NEW a \in 0..255, NEW b \in 0..255
    PROVE  RefusedAddress(a, b) = Private(a, b)
<1>1. RefusedAddress(a, b) <=> Private(a, b)
  <2>1. /\ (256 * 10 + 0) \div 256 = 10 /\ (256 * 172 + 16) \div 16 = 2753
        /\ (256 * 192 + 168) \div 1 = 49320 /\ (256 * 169 + 254) \div 1 = 43518
      OBVIOUS
  <2>2. (256 * a + b) \div 256 = 10 <=> a = 10
      OBVIOUS
  <2>3. (256 * a + b) \div 16 = 2753 <=> a = 172 /\ b >= 16 /\ b <= 31
      OBVIOUS
  <2>4. (256 * a + b) \div 1 = 49320 <=> a = 192 /\ b = 168
      OBVIOUS
  <2>5. (256 * a + b) \div 1 = 43518 <=> a = 169 /\ b = 254
      OBVIOUS
  <2> QED
      BY <2>1, <2>2, <2>3, <2>4, <2>5 DEF RefusedAddress, Private
<1>2. RefusedAddress(a, b) \in BOOLEAN /\ Private(a, b) \in BOOLEAN
    BY DEF RefusedAddress, Private
<1> QED
    BY <1>1, <1>2

\* The requests on the sockets of a pool and the bodies of redirects are no more than it
\* has sockets, and only a response that is read occupies memory, not over the limit.
SocketsInv ==
    \A late \in BOOLEAN :
        /\ IsFiniteSet(Sockets(late))
        /\ draining[late] \in Nat
        /\ Cardinality(Sockets(late)) + draining[late] <= MaxSockets

ResponsesInv ==
    \A r \in Requests :
        /\ requests[r].size <= MaxResponse
        /\ requests[r].size > 0 => requests[r].pc = "chunks"

AgentInv == AgentTypeOK /\ ResponsesInv /\ SocketsInv

LEMMA FreeFacts ==
    /\ Free \in Request /\ Free.pc = "idle" /\ Free.size = 0
    /\ Free.late = FALSE /\ Free.sent = 0 /\ Free.health = FALSE
    BY AgentAssumption DEF Free, Request

LEMMA AgentInitInv == AgentInit => AgentInv
<1> SUFFICES ASSUME AgentInit PROVE AgentInv
    OBVIOUS
<1>1. \A late : Sockets(late) = {}
    BY FreeFacts DEF AgentInit, Sockets, OnSocket
<1>2. IsFiniteSet({}) /\ Cardinality({}) = 0
    BY FS_EmptySet
<1>3. 0 <= MaxSockets /\ 0 <= MaxResponse /\ ~(0 > 0) /\ 0 \in 0..MaxSockets
    BY AgentAssumption
<1>4. SocketsInv
    BY <1>1, <1>2, <1>3 DEF AgentInit, SocketsInv
<1>5. ResponsesInv
    BY <1>3, FreeFacts DEF AgentInit, ResponsesInv
<1>6. AgentTypeOK
    BY <1>3, FreeFacts DEF AgentInit, AgentTypeOK
<1> QED
    BY <1>4, <1>5, <1>6 DEF AgentInv

\* Sockets that are given back, or left to the body of a redirect, leave enough.
LEMMA FewerSockets ==
    ASSUME AgentInv, NEW late \in BOOLEAN, NEW r,
           draining'[late] \in Nat,
           \/ /\ Sockets(late)' \subseteq Sockets(late)
              /\ draining'[late] <= draining[late]
           \/ /\ Sockets(late)' \subseteq Sockets(late) \ {r} /\ r \in Sockets(late)
              /\ draining'[late] = draining[late] + 1
    PROVE  /\ IsFiniteSet(Sockets(late)')
           /\ Cardinality(Sockets(late)') + draining'[late] <= MaxSockets
<1>1. /\ IsFiniteSet(Sockets(late)) /\ Cardinality(Sockets(late)) \in Nat
      /\ draining[late] \in Nat
      /\ Cardinality(Sockets(late)) + draining[late] <= MaxSockets
    BY FS_CardinalityType DEF AgentInv, SocketsInv
<1>2. CASE /\ Sockets(late)' \subseteq Sockets(late)
           /\ draining'[late] <= draining[late]
  <2>1. /\ IsFiniteSet(Sockets(late)')
        /\ Cardinality(Sockets(late)') <= Cardinality(Sockets(late))
      BY <1>1, <1>2, FS_Subset
  <2>2. Cardinality(Sockets(late)') \in Nat
      BY <2>1, FS_CardinalityType
  <2> QED
      BY <1>1, <1>2, <2>1, <2>2, AgentAssumption
<1>3. CASE /\ Sockets(late)' \subseteq Sockets(late) \ {r} /\ r \in Sockets(late)
           /\ draining'[late] = draining[late] + 1
  <2>1. /\ IsFiniteSet(Sockets(late) \ {r})
        /\ Cardinality(Sockets(late) \ {r}) = Cardinality(Sockets(late)) - 1
      BY <1>1, <1>3, FS_RemoveElement
  <2>2. /\ IsFiniteSet(Sockets(late)')
        /\ Cardinality(Sockets(late)') <= Cardinality(Sockets(late) \ {r})
      BY <1>3, <2>1, FS_Subset
  <2>3. Cardinality(Sockets(late)') \in Nat
      BY <2>2, FS_CardinalityType
  <2> QED
      BY <1>1, <1>3, <2>1, <2>2, <2>3, AgentAssumption
<1> QED
    BY <1>2, <1>3

LEMMA DrainingIsTyped ==
    ASSUME draining' = [late \in BOOLEAN |-> draining'[late]], SocketsInv'
    PROVE  draining' \in [BOOLEAN -> 0..MaxSockets]
<1>1. ASSUME NEW late \in BOOLEAN
      PROVE  draining'[late] \in 0..MaxSockets
  <2>1. /\ IsFiniteSet(Sockets(late)') /\ draining'[late] \in Nat
        /\ Cardinality(Sockets(late)') + draining'[late] <= MaxSockets
      BY DEF SocketsInv
  <2>2. Cardinality(Sockets(late)') \in Nat
      BY <2>1, FS_CardinalityType
  <2> QED
      BY <2>1, <2>2, AgentAssumption
<1> QED
    BY <1>1

\* One request becomes another.
LEMMA RequestKept ==
    ASSUME AgentInv, NEW r \in Requests, NEW request \in Request, Become(r, request),
           session' \in {"none", "health", "connected", "failed", "closed"},
           pool' \in BOOLEAN,
           request.size <= MaxResponse,
           request.size > 0 => request.pc = "chunks",
           draining' \in [BOOLEAN -> 0..MaxSockets], SocketsInv'
    PROVE  AgentInv'
<1>1. /\ requests' \in [Requests -> Request] /\ requests'[r] = request
      /\ \A q \in Requests \ {r} : requests'[q] = requests[q]
    BY DEF AgentInv, AgentTypeOK, Become
<1>2. AgentTypeOK'
    BY <1>1 DEF AgentTypeOK
<1>3. ResponsesInv'
    BY <1>1 DEF AgentInv, ResponsesInv
<1> QED
    BY <1>2, <1>3 DEF AgentInv

\* It is on a socket only if it was on one of the same pool.
LEMMA BecomeKept ==
    ASSUME AgentInv, NEW r \in Requests, NEW request \in Request, Become(r, request),
           session' \in {"none", "health", "connected", "failed", "closed"},
           pool' \in BOOLEAN, draining' = draining,
           request.size <= MaxResponse,
           request.size > 0 => request.pc = "chunks",
           request.pc \in {"sent", "chunks", "unread"} =>
                r \in OnSocket /\ request.late = requests[r].late
    PROVE  AgentInv'
<1>1. /\ requests' \in [Requests -> Request] /\ requests'[r] = request
      /\ \A q \in Requests \ {r} : requests'[q] = requests[q]
    BY DEF AgentInv, AgentTypeOK, Become
<1>2. \A late \in BOOLEAN : Sockets(late)' \subseteq Sockets(late)
    BY <1>1 DEF Sockets, OnSocket
<1>3. \A late \in BOOLEAN : draining'[late] \in Nat /\ draining'[late] <= draining[late]
    BY DEF AgentInv, SocketsInv
<1>4. SocketsInv'
    BY <1>2, <1>3, FewerSockets DEF SocketsInv
<1>5. draining' \in [BOOLEAN -> 0..MaxSockets]
    BY DEF AgentInv, AgentTypeOK
<1> QED
    BY <1>4, <1>5, RequestKept

LEMMA SubmitKept ==
    ASSUME AgentInv, NEW r \in Requests, NEW health \in BOOLEAN, Submit(r, health),
           draining' = draining,
           session' \in {"none", "health", "connected", "failed", "closed"}
    PROVE  AgentInv'
<1> DEFINE request == [Free EXCEPT !.pc = "queued", !.sent = 1, !.health = health,
                                   !.late = Late]
<1>0. 1 \in 0..(MaxRedirects + 1) /\ Late \in BOOLEAN
    BY AgentAssumption DEF Late
<1>1. request \in Request /\ request.pc = "queued" /\ request.size = 0
    BY <1>0, FreeFacts DEF Request
<1>2. Become(r, request) /\ pool' = TRUE
    BY DEF Submit
<1> HIDE DEF request
<1> QED
    BY <1>1, <1>2, AgentAssumption, BecomeKept

LEMMA SettleKept ==
    ASSUME AgentInv, NEW r \in Requests, NEW ok \in BOOLEAN, UNCHANGED <<pool, draining>>,
           \/ Settle(r, ok, "idle")
           \/ Settle(r, ok, "unread") /\ requests[r].pc = "sent"
    PROVE  AgentInv'
<1>1. /\ session' \in {"none", "health", "connected", "failed", "closed"}
      /\ pool' \in BOOLEAN
    BY DEF Settle, AgentInv, AgentTypeOK
<1>2. CASE Settle(r, ok, "idle")
  <2>1. Become(r, Free)
      BY <1>2 DEF Settle
  <2> QED
      BY <1>1, <2>1, FreeFacts, AgentAssumption, BecomeKept
<1>3. CASE Settle(r, ok, "unread") /\ requests[r].pc = "sent"
  <2> DEFINE request == [requests[r] EXCEPT !.pc = "unread"]
  <2>1. requests[r] \in Request /\ ~(requests[r].size > 0)
      BY <1>3 DEF AgentInv, AgentTypeOK, ResponsesInv
  <2>2. /\ request \in Request /\ request.pc = "unread"
        /\ request.size = requests[r].size /\ request.late = requests[r].late
      BY <2>1 DEF Request
  <2>3. Become(r, request)
      BY <1>3 DEF Settle
  <2>4. r \in OnSocket
      BY <1>3 DEF OnSocket
  <2>5. request.size <= MaxResponse
      BY <2>2 DEF AgentInv, ResponsesInv
  <2> HIDE DEF request
  <2> QED
      BY <1>1, <2>1, <2>2, <2>3, <2>4, <2>5, BecomeKept
<1> QED
    BY <1>2, <1>3

LEMMA GetSocketKept ==
    ASSUME AgentInv, NEW r \in Requests, GetSocket(r)
    PROVE  AgentInv'
<1>1. requests \in [Requests -> Request] /\ requests[r] \in Request
    BY DEF AgentInv, AgentTypeOK
<1>2. /\ requests' \in [Requests -> Request]
      /\ \A q \in Requests \ {r} : requests'[q] = requests[q]
      /\ requests'[r].pc = "sent" /\ requests'[r].size = requests[r].size
      /\ requests'[r].late = requests[r].late
    BY <1>1 DEF GetSocket, Become, Request
<1>3. ~(requests[r].size > 0) /\ UNCHANGED <<session, pool, draining>>
    BY DEF AgentInv, ResponsesInv, GetSocket
<1>4. AgentTypeOK'
    BY <1>2, <1>3 DEF AgentInv, AgentTypeOK
<1>5. ResponsesInv'
    BY <1>2, <1>3 DEF AgentInv, ResponsesInv
<1>6. ASSUME NEW late \in BOOLEAN
      PROVE  /\ IsFiniteSet(Sockets(late)') /\ draining'[late] \in Nat
             /\ Cardinality(Sockets(late)') + draining'[late] <= MaxSockets
  <2>0. draining' = draining /\ draining[late] \in Nat
      BY <1>3 DEF AgentInv, SocketsInv
  <2>1. CASE late # requests[r].late
    <3>1. Sockets(late)' \subseteq Sockets(late)
        BY <1>2, <2>1 DEF Sockets, OnSocket
    <3> QED
        BY <2>0, <3>1, FewerSockets
  <2>2. CASE late = requests[r].late
    <3>1. Sockets(late)' \subseteq Sockets(late) \cup {r}
        BY <1>2 DEF Sockets, OnSocket
    <3>2. IsFiniteSet(Sockets(late)) /\ Cardinality(Sockets(late)) + draining[late] < MaxSockets
        BY <2>2 DEF AgentInv, SocketsInv, GetSocket
    <3>3. r \notin Sockets(late)
        BY DEF GetSocket, Sockets, OnSocket
    <3>4. /\ IsFiniteSet(Sockets(late) \cup {r})
          /\ Cardinality(Sockets(late) \cup {r}) = Cardinality(Sockets(late)) + 1
        BY <3>2, <3>3, FS_AddElement
    <3>5. /\ IsFiniteSet(Sockets(late)')
          /\ Cardinality(Sockets(late)') <= Cardinality(Sockets(late) \cup {r})
        BY <3>1, <3>4, FS_Subset
    <3>6. Cardinality(Sockets(late)') \in Nat /\ Cardinality(Sockets(late)) \in Nat
        BY <3>2, <3>5, FS_CardinalityType
    <3> QED
        BY <2>0, <3>2, <3>4, <3>5, <3>6, AgentAssumption
  <2> QED
      BY <2>1, <2>2
<1>7. SocketsInv'
    BY <1>6 DEF SocketsInv
<1> QED
    BY <1>4, <1>5, <1>7 DEF AgentInv

LEMMA ResponseKept ==
    ASSUME AgentInv, NEW r \in Requests, Redirect(r) \/ Response(r) \/ Chunk(r)
    PROVE  AgentInv'
<1>1. requests[r] \in Request /\ requests[r].size \in Nat /\ requests[r].sent \in Nat
    BY AgentAssumption DEF AgentInv, AgentTypeOK, Request
<1>2. /\ session \in {"none", "health", "connected", "failed", "closed"}
      /\ pool \in BOOLEAN /\ requests[r].size <= MaxResponse
    BY DEF AgentInv, AgentTypeOK, ResponsesInv
<1>3. CASE Redirect(r)
  <2>1. requests[r].pc = "sent" /\ ~(requests[r].size > 0)
      BY <1>3 DEF Redirect, AgentInv, ResponsesInv
  <2>2. CASE requests[r].sent > MaxRedirects
    <3>1. Settle(r, FALSE, "unread") /\ UNCHANGED <<pool, draining>>
        BY <1>3, <2>2 DEF Redirect
    <3> QED
        BY <2>1, <3>1, SettleKept
  <2>3. CASE ~(requests[r].sent > MaxRedirects)
    <3> DEFINE request == [requests[r] EXCEPT !.pc = "queued", !.sent = @ + 1, !.late = Late]
    <3>1. requests[r].sent + 1 \in 0..(MaxRedirects + 1)
        BY <1>1, <2>3, AgentAssumption
    <3>2. request \in Request /\ request.pc = "queued" /\ request.size = requests[r].size
        BY <1>1, <3>1 DEF Request, Late
    <3>3. /\ Become(r, request) /\ pool' = TRUE /\ session' = session
          /\ draining' = [draining EXCEPT ![requests[r].late] = @ + 1]
        BY <1>3, <2>3 DEF Redirect
    <3> HIDE DEF request
    <3>4. /\ requests'[r] = request
          /\ \A q \in Requests \ {r} : requests'[q] = requests[q]
        BY <3>3 DEF AgentInv, AgentTypeOK, Become
    <3>5. draining \in [BOOLEAN -> Nat] /\ requests[r].late \in BOOLEAN
        BY <1>1 DEF AgentInv, AgentTypeOK, Request
    <3>6. ASSUME NEW late \in BOOLEAN
          PROVE  /\ IsFiniteSet(Sockets(late)') /\ draining'[late] \in Nat
                 /\ Cardinality(Sockets(late)') + draining'[late] <= MaxSockets
      <4>1. CASE late = requests[r].late
        <5>1. Sockets(late)' \subseteq Sockets(late) \ {r} /\ r \in Sockets(late)
            BY <2>1, <3>2, <3>4, <4>1 DEF Sockets, OnSocket
        <5>2. draining'[late] = draining[late] + 1 /\ draining'[late] \in Nat
            BY <3>3, <3>5, <4>1
        <5> QED
            BY <5>1, <5>2, FewerSockets
      <4>2. CASE late # requests[r].late
        <5>1. Sockets(late)' \subseteq Sockets(late)
            BY <3>2, <3>4 DEF Sockets, OnSocket
        <5>2. draining'[late] = draining[late] /\ draining'[late] \in Nat
            BY <3>3, <3>5, <4>2
        <5> QED
            BY <5>1, <5>2, FewerSockets
      <4> QED
          BY <4>1, <4>2
    <3>7. SocketsInv'
        BY <3>6 DEF SocketsInv
    <3>8. draining' \in [BOOLEAN -> 0..MaxSockets]
        BY <3>3, <3>5, <3>7, DrainingIsTyped
    <3> QED
        BY <1>2, <2>1, <3>2, <3>3, <3>7, <3>8, RequestKept
  <2> QED
      BY <2>2, <2>3
<1>4. CASE Response(r)
  <2>1. CASE Settle(r, FALSE, "idle")
      BY <1>4, <2>1, SettleKept DEF Response
  <2>2. CASE Become(r, [requests[r] EXCEPT !.pc = "chunks"]) /\ UNCHANGED session
    <3> DEFINE request == [requests[r] EXCEPT !.pc = "chunks"]
    <3>1. /\ request \in Request /\ request.pc = "chunks"
          /\ request.size = requests[r].size /\ request.late = requests[r].late
        BY <1>1 DEF Request
    <3>2. r \in OnSocket /\ pool' = pool /\ draining' = draining
        BY <1>4 DEF Response, OnSocket
    <3>3. Become(r, request) /\ session' = session
        BY <2>2
    <3> HIDE DEF request
    <3> QED
        BY <1>2, <3>1, <3>2, <3>3, BecomeKept
  <2> QED
      BY <1>4, <2>1, <2>2 DEF Response
<1>5. CASE Chunk(r)
  <2>1. CASE requests[r].size < MaxResponse
    <3> DEFINE request == [requests[r] EXCEPT !.size = @ + 1]
    <3>1. requests[r].size + 1 \in 0..(MaxResponse + 1) /\ requests[r].size + 1 <= MaxResponse
        BY <1>1, <2>1, AgentAssumption
    <3>2. /\ request \in Request /\ request.pc = requests[r].pc
          /\ request.size = requests[r].size + 1 /\ request.late = requests[r].late
        BY <1>1, <3>1 DEF Request
    <3>3. r \in OnSocket /\ requests[r].pc = "chunks" /\ UNCHANGED <<pool, draining>>
        BY <1>5 DEF Chunk, OnSocket
    <3>4. Become(r, request) /\ session' = session
        BY <1>5, <2>1 DEF Chunk
    <3> HIDE DEF request
    <3> QED
        BY <1>2, <3>1, <3>2, <3>3, <3>4, BecomeKept
  <2>2. CASE ~(requests[r].size < MaxResponse)
      BY <1>5, <2>2, SettleKept DEF Chunk
  <2> QED
      BY <2>1, <2>2
<1> QED
    BY <1>3, <1>4, <1>5

LEMMA DisconnectKept ==
    ASSUME AgentInv, Disconnect
    PROVE  AgentInv'
<1>1. requests \in [Requests -> Request]
    BY DEF AgentInv, AgentTypeOK
<1>2. \A r \in Requests : requests'[r] = IF r \in OnSocket THEN Free ELSE requests[r]
    BY DEF Disconnect
<1>3. requests' \in [Requests -> Request]
    BY <1>1, FreeFacts DEF Disconnect
<1>4. /\ draining' = [draining EXCEPT ![FALSE] = 0]
      /\ draining \in [BOOLEAN -> 0..MaxSockets]
      /\ draining \in [BOOLEAN -> Nat]
  <2>1. draining' = [draining EXCEPT ![FALSE] = 0] /\ draining \in [BOOLEAN -> 0..MaxSockets]
      BY DEF Disconnect, AgentInv, AgentTypeOK
  <2> QED
      BY <2>1
<1>5. draining' \in [BOOLEAN -> 0..MaxSockets]
  <2>1. 0 \in 0..MaxSockets
      BY AgentAssumption
  <2> QED
      BY <1>4, <2>1, Zenon
<1>6. AgentTypeOK' /\ ResponsesInv'
  <2>1. AgentTypeOK'
      BY <1>3, <1>5 DEF Disconnect, AgentTypeOK
  <2>2. ResponsesInv'
      BY <1>2, FreeFacts, AgentAssumption DEF AgentInv, ResponsesInv
  <2> QED
      BY <2>1, <2>2
<1>7. \A late \in BOOLEAN : Sockets(late)' \subseteq Sockets(late)
    BY <1>2, FreeFacts DEF Sockets, OnSocket
<1>8. ASSUME NEW late \in BOOLEAN
      PROVE  draining'[late] \in Nat /\ draining'[late] <= draining[late]
  <2>1. draining'[late] = 0 \/ draining'[late] = draining[late]
      BY <1>4, Zenon
  <2>2. draining[late] \in Nat
      BY <1>4, Zenon
  <2> QED
      BY <2>1, <2>2
<1>9. SocketsInv'
    BY <1>7, <1>8, FewerSockets DEF SocketsInv
<1> QED
    BY <1>6, <1>9 DEF AgentInv

\* The body of a redirect leaves its socket.
LEMMA DrainedKept ==
    ASSUME AgentInv, NEW late \in BOOLEAN, Drained(late)
    PROVE  AgentInv'
<1>1. /\ draining[late] > 0 /\ draining' = [draining EXCEPT ![late] = @ - 1]
      /\ UNCHANGED <<pool, requests>>
      /\ session' \in {"none", "health", "connected", "failed", "closed"}
    BY DEF Drained, AgentInv, AgentTypeOK
<1>2. draining \in [BOOLEAN -> Nat]
    BY DEF AgentInv, AgentTypeOK
<1>3. \A b \in BOOLEAN : draining'[b] \in Nat /\ draining'[b] <= draining[b]
    BY <1>1, <1>2
<1>4. \A b \in BOOLEAN : Sockets(b)' \subseteq Sockets(b)
    BY <1>1 DEF Sockets, OnSocket
<1>5. SocketsInv'
    BY <1>3, <1>4, FewerSockets DEF SocketsInv
<1>6. draining' \in [BOOLEAN -> 0..MaxSockets]
    BY <1>1, <1>2, <1>5, DrainingIsTyped
<1>7. AgentTypeOK' /\ ResponsesInv'
    BY <1>1, <1>6 DEF AgentInv, AgentTypeOK, ResponsesInv
<1> QED
    BY <1>5, <1>7 DEF AgentInv

LEMMA AgentInvStep == AgentInv /\ [AgentNext]_agentVars => AgentInv'
<1> SUFFICES ASSUME AgentInv, [AgentNext]_agentVars PROVE AgentInv'
    OBVIOUS
<1>1. CASE Disconnect
    BY <1>1, DisconnectKept
<1>2. ASSUME NEW r \in Requests, AgentStep(r) PROVE AgentInv'
  <2>1. CASE Connect(r)
    <3>1. CASE Submit(r, TRUE) /\ session' = "health"
        BY <2>1, <3>1, SubmitKept DEF Connect
    <3>2. CASE session' = "failed" /\ UNCHANGED <<pool, requests>>
        BY <2>1, <3>2 DEF Connect, AgentInv, AgentTypeOK, ResponsesInv, SocketsInv,
                         Sockets, OnSocket
    <3> QED
        BY <2>1, <3>1, <3>2 DEF Connect
  <2>2. CASE Call(r)
      BY <2>2, SubmitKept DEF Call, AgentInv, AgentTypeOK
  <2>3. CASE GetSocket(r)
      BY <2>3, GetSocketKept
  <2>4. CASE Redirect(r) \/ Response(r) \/ Chunk(r)
      BY <2>4, ResponseKept
  <2>5. CASE End(r) \/ Fail(r) \/ Timeout(r)
      BY <2>5, SettleKept DEF End, Fail, Timeout
  <2> QED
      BY <1>2, <2>1, <2>2, <2>3, <2>4, <2>5 DEF AgentStep
<1>3. ASSUME NEW late \in BOOLEAN, Drained(late) PROVE AgentInv'
    BY <1>3, DrainedKept
<1>4. CASE UNCHANGED agentVars
    BY <1>4 DEF agentVars, AgentInv, AgentTypeOK, ResponsesInv, SocketsInv, Sockets, OnSocket
<1> QED
    BY <1>1, <1>2, <1>3, <1>4 DEF AgentNext

\* What the responses of a pool occupy together is on its sockets.
LEMMA MemoryIsBounded ==
    ASSUME AgentInv, NEW late \in BOOLEAN
    PROVE  Cardinality(Kept(late)) <= MaxSockets * MaxResponse
<1> DEFINE places == Sockets(late) \X (1..MaxResponse)
<1>1. Kept(late) \subseteq places
  <2> SUFFICES ASSUME NEW r \in Requests, NEW k \in 1..(MaxResponse + 1),
                      requests[r].late = late, k <= requests[r].size
               PROVE  <<r, k>> \in places
      BY DEF Kept
  <2>1. requests[r].size \in Nat /\ requests[r].size <= MaxResponse
      BY AgentAssumption DEF AgentInv, AgentTypeOK, ResponsesInv, Request
  <2>2. k \in 1..MaxResponse /\ requests[r].size > 0
      BY <2>1, AgentAssumption
  <2>3. r \in Sockets(late)
      BY <2>2 DEF AgentInv, ResponsesInv, Sockets, OnSocket
  <2> QED
      BY <2>2, <2>3
<1>2. IsFiniteSet(Sockets(late)) /\ Cardinality(Sockets(late)) <= MaxSockets
  <2>1. /\ IsFiniteSet(Sockets(late)) /\ draining[late] \in Nat
        /\ Cardinality(Sockets(late)) + draining[late] <= MaxSockets
      BY DEF AgentInv, SocketsInv
  <2> QED
      BY <2>1, FS_CardinalityType, AgentAssumption
<1>3. IsFiniteSet(1..MaxResponse) /\ Cardinality(1..MaxResponse) = MaxResponse
    BY FS_Interval, AgentAssumption
<1>4. /\ IsFiniteSet(places)
      /\ Cardinality(places) = Cardinality(Sockets(late)) * Cardinality(1..MaxResponse)
    BY <1>2, <1>3, FS_Product
<1>5. IsFiniteSet(Kept(late)) /\ Cardinality(Kept(late)) <= Cardinality(places)
    BY <1>1, <1>4, FS_Subset
<1>6. Cardinality(Kept(late)) \in Nat /\ Cardinality(Sockets(late)) \in Nat
    BY <1>2, <1>5, FS_CardinalityType
<1>7. \A n \in Nat : n <= MaxSockets => n * MaxResponse <= MaxSockets * MaxResponse
    BY AgentAssumption
<1> QED
    BY <1>2, <1>3, <1>4, <1>5, <1>6, <1>7, AgentAssumption

\* validateHost() refuses the addresses of the private networks and no others, and
\* what the responses of a pool occupy in memory is bounded by its sockets: for any
\* number of calls, redirects and limit, over redirects, failures and a disconnect()
\* with calls that go on after it.
THEOREM RequestsStayConfined == AgentSpec => []RequestsAreConfined
<1>1. AgentInv => RequestsAreConfined
  <2> SUFFICES ASSUME AgentInv PROVE RequestsAreConfined
      OBVIOUS
  <2>1. \A a, b \in Octets : RefusedAddress(a, b) = Private(a, b)
      BY RefusedArePrivate, AgentAssumption
  <2> QED
      BY <2>1, MemoryIsBounded DEF RequestsAreConfined
<1> QED
    BY <1>1, AgentInitInv, AgentInvStep, PTL DEF AgentSpec

\* The session, its pool and the calls have their types.
THEOREM AgentIsTyped == AgentSpec => []AgentTypeOK
<1>1. AgentInv => AgentTypeOK
    BY DEF AgentInv
<1> QED
    BY <1>1, AgentInitInv, AgentInvStep, PTL DEF AgentSpec

-----------------------------------------------------------------------------
(* SSHAdapter                                                              *)

\* Before the first disconnect() has resolved the session has its client; after it
\* nothing is left of it.
EndedInv ==
    /\ client \in BOOLEAN
    /\ ends \in [Ends -> {"idle", "waiting", "resolved"}]
    /\ \A e \in Ends : ends[e] # "idle" => attempt = "resolved"
    /\ listener \in Ends => ends[listener] # "idle"
    /\ attempt # "none" /\ (\A e \in Ends : ends[e] # "resolved") => client
    /\ (\E e \in Ends : ends[e] = "resolved") =>
            ~client /\ ~connected /\ ~sftp /\ socket = "closed"

LEMMA EndedInit == SshInit => EndedInv
    BY SshAssumption DEF SshInit, EndedInv

LEMMA EndedStep == EndedInv /\ [SshNext]_sshVars => EndedInv'
<1> SUFFICES ASSUME EndedInv, [SshNext]_sshVars PROVE EndedInv'
    OBVIOUS
<1> USE DEF EndedInv, fields
<1>1. ASSUME NEW withSftp \in BOOLEAN, NEW auth \in {"password", "key", "none"},
             SshConnect(withSftp, auth)
      PROVE  EndedInv'
  <2>1. client' = TRUE /\ ends' = ends /\ listener' = listener /\ attempt = "none"
      BY <1>1 DEF SshConnect
  <2>2. \A e \in Ends : ends[e] = "idle"
      BY <2>1
  <2> QED
      BY <2>1, <2>2
<1>2. ASSUME NEW ok \in BOOLEAN, KeyRead(ok) \/ SftpReply(ok) PROVE EndedInv'
    BY <1>2 DEF KeyRead, SftpReply
<1>3. CASE Ready \/ SshError
    BY <1>3 DEF Ready, SshError
<1>4. CASE SocketClose
    BY <1>4 DEF SocketClose, ClearFields, Over
<1>5. ASSUME NEW e \in Ends, SshDisconnect(e) PROVE EndedInv'
    BY <1>5 DEF SshDisconnect, Over
<1>6. ASSUME NEW e \in Ends, DisconnectTimeout(e) PROVE EndedInv'
    BY <1>6 DEF DisconnectTimeout, EndTimer, ClearFields, Over
<1>7. ASSUME NEW c \in Calls, Operate(c) PROVE EndedInv'
  <2>1. UNCHANGED <<attempt, fields, socket, ends, listener>>
      BY <1>7 DEF Operate, Stat, ReadFile, WriteFile, Rename, CreateDirectory, ReadDirectory,
                  CreateShell, SftpCall, Ask, Serve, Callback
  <2> QED
      BY <2>1
<1>8. CASE UNCHANGED sshVars
    BY <1>8 DEF sshVars
<1> QED
    BY <1>1, <1>2, <1>3, <1>4, <1>5, <1>6, <1>7, <1>8 DEF SshNext

\* When a call of disconnect() has resolved, by the close event or by its timer, the
\* client is dropped and its socket closed, for any number of calls of disconnect() at a
\* time, each of which takes the event from the one before.
THEOREM SessionsEnd == SshSpec => []NothingIsLeftOpen
<1>1. EndedInv => NothingIsLeftOpen
    BY DEF EndedInv, NothingIsLeftOpen, IsConnected
<1> QED
    BY <1>1, EndedInit, EndedStep, PTL DEF SshSpec

\* The session, its operations and what the server holds have their types; an
\* undisturbed call has the server to itself, and the file it has written is whole once
\* the server has said so.
SessionOK ==
    /\ attempt \in {"none", "key", "handshake", "sftp", "resolved", "rejected"}
    /\ socket \in {"none", "open", "ended", "closed"}
    /\ {client, connected, sftp, terminalOnly} \subseteq BOOLEAN
    /\ ends \in [Ends -> {"idle", "waiting", "resolved"}]
    /\ listener \in Ends \cup {"connect"}

AloneOK ==
    \A c \in Calls : calls[c].undisturbed =>
        /\ Running \subseteq {c}
        /\ calls[c].op = "writeFile" /\ calls[c].pc \in {"ok", "resolved"} =>
                server[calls[c].name] = [kind |-> "file", blocks |-> Blocks]

CallsOK == server \in [Names -> Node] /\ calls \in [Calls -> Operation] /\ AloneOK

LEMMA NoCallFacts ==
    /\ NoCall \in Operation /\ NoCall.name \in Names /\ NoCall.op = "stat"
    /\ NoCall.pc = "resolved" /\ NoCall.undisturbed = FALSE
<1>1. NoTypes \in [Names -> Types \cup {"none"}]
    BY DEF NoTypes
<1>2. (CHOOSE n \in Names : TRUE) \in Names
    BY SshAssumption
<1> QED
    BY <1>1, <1>2 DEF NoCall, Operation, Ops, Readers

LEMMA CallsInit == SshInit => CallsOK
<1> SUFFICES ASSUME SshInit PROVE CallsOK
    OBVIOUS
<1>1. Blocks \in 0..Blocks /\ 0 \in 0..Blocks
    BY SshAssumption
<1>2. server \in [Names -> Node]
    BY <1>1 DEF SshInit, Node, Absent
<1> QED
    BY <1>2, NoCallFacts DEF SshInit, CallsOK, AloneOK

\* The step of one call changes its own record, and the others run on or are forgotten.
LEMMA FailedKept ==
    ASSUME CallsOK, UNCHANGED server, FailCalls \/ UNCHANGED calls
    PROVE  CallsOK'
<1>1. CASE UNCHANGED calls
    BY <1>1 DEF CallsOK, AloneOK, Running
<1>2. CASE FailCalls
  <2>1. \A c \in Calls : /\ calls'[c] \in Operation
                         /\ calls'[c].undisturbed = calls[c].undisturbed
                         /\ calls'[c].op = calls[c].op
                         /\ calls'[c].name = calls[c].name
                         /\ calls'[c].pc = IF c \in Running THEN "error" ELSE calls[c].pc
    <3> SUFFICES ASSUME NEW c \in Calls
                 PROVE  /\ calls'[c] \in Operation
                        /\ calls'[c].undisturbed = calls[c].undisturbed
                        /\ calls'[c].op = calls[c].op
                        /\ calls'[c].name = calls[c].name
                        /\ calls'[c].pc = IF c \in Running THEN "error" ELSE calls[c].pc
        OBVIOUS
    <3>1. calls[c] \in Operation
        BY DEF CallsOK
    <3>2. calls'[c] = IF c \in Running THEN [calls[c] EXCEPT !.pc = "error"] ELSE calls[c]
        BY <1>2 DEF FailCalls
    <3> QED
        BY <3>1, <3>2 DEF Operation
  <2>2. Running' = Running
      BY <2>1 DEF Running
  <2>3. DOMAIN calls' = Calls /\ calls' = [c \in Calls |-> calls'[c]]
      BY <1>2 DEF FailCalls
  <2>4. AloneOK'
      BY <2>1, <2>2 DEF CallsOK, AloneOK, Running
  <2> QED
      BY <2>1, <2>3, <2>4 DEF CallsOK
<1> QED
    BY <1>1, <1>2

LEMMA AskKept ==
    ASSUME CallsOK, NEW c \in Calls, NEW op \in Ops, NEW name \in Names, Ask(c, op, name)
    PROVE  CallsOK'
<1>1. \A d \in Calls \ {c} :
        /\ calls'[d] \in Operation
        /\ ~calls'[d].undisturbed
        /\ calls'[d].pc \notin {"resolved", "rejected"} => d \in Running
  <2> SUFFICES ASSUME NEW d \in Calls \ {c}
               PROVE  /\ calls'[d] \in Operation
                      /\ ~calls'[d].undisturbed
                      /\ calls'[d].pc \notin {"resolved", "rejected"} => d \in Running
      OBVIOUS
  <2>1. calls'[d] = IF d \in Running THEN [calls[d] EXCEPT !.undisturbed = FALSE] ELSE NoCall
      BY DEF Ask
  <2>2. calls[d] \in Operation
      BY DEF CallsOK
  <2>3. CASE d \in Running
      BY <2>1, <2>2, <2>3 DEF Operation
  <2>4. CASE d \notin Running
      BY <2>1, <2>4, NoCallFacts
  <2> QED
      BY <2>3, <2>4
<1>2. /\ calls'[c] \in Operation
      /\ calls'[c].undisturbed = (Running = {})
      /\ calls'[c].pc = "asked"
  <2>1. calls'[c] = [NoCall EXCEPT !.op = op, !.name = name, !.pc = "asked",
                                   !.undisturbed = Running = {}]
      BY DEF Ask
  <2> QED
      BY <2>1, NoCallFacts DEF Operation
<1>3. calls' \in [Calls -> Operation]
  <2>1. calls' = [d \in Calls |-> calls'[d]]
      BY DEF Ask
  <2> QED
      BY <1>1, <1>2, <2>1
<1>4. Running = {} => Running' \subseteq {c}
    BY <1>1 DEF Running
<1>5. AloneOK'
    BY <1>1, <1>2, <1>4 DEF AloneOK
<1> QED
    BY <1>3, <1>5 DEF CallsOK, Ask

LEMMA MapStatType == \A mode : MapStat(mode) \in Types
    BY DEF MapStat, Types

\* A call that runs changes its stage, the types it has read, and what is on the server.
LEMMA CallKept ==
    ASSUME CallsOK, NEW c \in Calls, c \in Running,
           calls' \in [Calls -> Operation], server' \in [Names -> Node],
           \A d \in Calls \ {c} : calls'[d] = calls[d],
           calls'[c].undisturbed = calls[c].undisturbed,
           calls'[c].op = calls[c].op, calls'[c].name = calls[c].name,
           calls'[c].op = "writeFile" /\ calls'[c].pc \in {"ok", "resolved"}
                /\ calls'[c].undisturbed =>
                    server'[calls[c].name] = [kind |-> "file", blocks |-> Blocks]
    PROVE  CallsOK'
<1>1. Running' \subseteq Running
    BY DEF Running
<1>2. \A d \in Calls : calls[d].undisturbed => d = c
    BY DEF CallsOK, AloneOK
<1>3. AloneOK'
    BY <1>1, <1>2 DEF CallsOK, AloneOK
<1> QED
    BY <1>3 DEF CallsOK

LEMMA ReplyFacts ==
    ASSUME CallsOK, NEW c \in Calls, NEW ok \in BOOLEAN, Reply(c, ok)
    PROVE  /\ calls' \in [Calls -> Operation]
           /\ \A d \in Calls \ {c} : calls'[d] = calls[d]
           /\ calls'[c].undisturbed = calls[c].undisturbed
           /\ calls'[c].op = calls[c].op /\ calls'[c].name = calls[c].name
           /\ calls'[c].pc = IF ok THEN "ok" ELSE "error"
    BY DEF CallsOK, Reply, Operation

LEMMA ServeKept ==
    ASSUME CallsOK, NEW c \in Calls, Serve(c)
    PROVE  CallsOK'
<1> DEFINE op == calls[c].op
           name == calls[c].name
<1>1. /\ calls[c] \in Operation /\ name \in Names /\ server \in [Names -> Node]
      /\ calls \in [Calls -> Operation]
    BY DEF CallsOK, Operation
<1>2. c \in Running
    BY DEF Serve, Running
<1>3. CASE ServeRead(c, op, name)
  <2>1. /\ calls' \in [Calls -> Operation]
        /\ \A d \in Calls \ {c} : calls'[d] = calls[d]
        /\ calls'[c].undisturbed = calls[c].undisturbed
        /\ calls'[c].op = op /\ calls'[c].name = name
    <3>1. CASE op = "readDirectory"
      <4>1. [n \in Names |-> TypeOf(n)] \in [Names -> Types \cup {"none"}]
          BY MapStatType DEF TypeOf
      <4>2. calls' = [calls EXCEPT ![c].pc = "ok", ![c].types = [n \in Names |-> TypeOf(n)]]
          BY <1>3, <3>1 DEF ServeRead
      <4> HIDE DEF op, name
      <4>3. PICK types \in [Names -> Types \cup {"none"}] :
                calls' = [calls EXCEPT ![c].pc = "ok", ![c].types = types]
          BY <4>1, <4>2
      <4> QED
          BY <1>1, <4>3 DEF Operation, op, name
    <3>2. CASE op # "readDirectory"
      <4>1. Reply(c, server[name].kind # "none")
          BY <1>3, <3>2 DEF ServeRead
      <4> QED
          BY <4>1, ReplyFacts
    <3> QED
        BY <3>1, <3>2
  <2>2. op # "writeFile" /\ server' = server
      BY <1>3 DEF ServeRead, Readers
  <2> QED
      BY <1>1, <1>2, <2>1, <2>2, CallKept
<1>4. CASE ServeName(c, op, name)
  <2>1. op # "writeFile" /\ server' \in [Names -> Node]
      BY <1>1, <1>4, SshAssumption DEF ServeName, Node, Absent
  <2>2. PICK ok \in BOOLEAN : Reply(c, ok)
      BY <1>4 DEF ServeName
  <2> QED
      BY <1>1, <1>2, <2>1, <2>2, ReplyFacts, CallKept
<1>5. CASE ServeWrite(c, op, name)
  <2>1. CASE calls[c].pc = "asked"
    <3>1. server' \in [Names -> Node]
        BY <1>1, <1>5, <2>1, SshAssumption DEF ServeWrite, Node
    <3>2. calls' = [calls EXCEPT ![c].pc = "open"]
        BY <1>5, <2>1 DEF ServeWrite
    <3>3. /\ calls' \in [Calls -> Operation]
          /\ \A d \in Calls \ {c} : calls'[d] = calls[d]
          /\ calls'[c].undisturbed = calls[c].undisturbed
          /\ calls'[c].op = op /\ calls'[c].name = name /\ calls'[c].pc = "open"
        BY <1>1, <3>2 DEF Operation
    <3> QED
        BY <1>2, <3>1, <3>3, CallKept
  <2>2. CASE calls[c].pc = "open"
    <3>1. server[name].kind = "file" /\ server[name] \in Node
        BY <1>1, <1>5, <2>2 DEF ServeWrite
    <3>2. server' = [server EXCEPT ![name].blocks = IF @ < Blocks THEN @ + 1 ELSE @]
        BY <1>5, <2>2 DEF ServeWrite
    <3>3. server' \in [Names -> Node] /\ server'[name].kind = "file"
        BY <1>1, <3>1, <3>2, SshAssumption DEF Node
    <3>4. CASE server'[name].blocks = Blocks
      <4>1. Reply(c, TRUE)
          BY <1>5, <2>2, <3>4 DEF ServeWrite
      <4>2. server'[name] = [kind |-> "file", blocks |-> Blocks]
        <5>1. server'[name] \in Node
            BY <1>1, <3>3
        <5> QED
            BY <3>3, <3>4, <5>1 DEF Node
      <4> QED
          BY <1>1, <1>2, <3>3, <4>1, <4>2, ReplyFacts, CallKept
    <3>5. CASE server'[name].blocks # Blocks
      <4>1. calls' = calls
          BY <1>5, <2>2, <3>5 DEF ServeWrite
      <4> QED
          BY <1>1, <1>2, <2>2, <3>3, <4>1, CallKept
    <3> QED
        BY <3>4, <3>5
  <2> QED
      BY <1>5, <2>1, <2>2 DEF ServeWrite
<1>6. CASE op = "createShell" /\ Reply(c, TRUE) /\ UNCHANGED server
    BY <1>1, <1>2, <1>6, ReplyFacts, CallKept
<1>7. CASE Reply(c, FALSE) /\ UNCHANGED server
    BY <1>1, <1>2, <1>7, ReplyFacts, CallKept
<1> QED
    BY <1>3, <1>4, <1>5, <1>6, <1>7 DEF Serve

LEMMA CallbackKept ==
    ASSUME CallsOK, NEW c \in Calls, Callback(c)
    PROVE  CallsOK'
<1>1. calls' = [calls EXCEPT ![c].pc = Outcome(@)] /\ server' = server
    BY DEF Callback
<1>2. calls[c].pc \in {"ok", "error"} /\ calls \in [Calls -> Operation]
      /\ server \in [Names -> Node]
    BY DEF Callback, CallsOK
<1>3. /\ calls' \in [Calls -> Operation]
      /\ \A d \in Calls \ {c} : calls'[d] = calls[d]
      /\ calls'[c].undisturbed = calls[c].undisturbed
      /\ calls'[c].op = calls[c].op /\ calls'[c].name = calls[c].name
      /\ calls'[c].pc = IF calls[c].pc = "ok" THEN "resolved" ELSE "rejected"
    BY <1>1, <1>2 DEF Outcome, Operation
<1>4. c \in Running
    BY <1>2 DEF Running
<1>5. calls'[c].op = "writeFile" /\ calls'[c].pc \in {"ok", "resolved"}
            /\ calls'[c].undisturbed =>
        server[calls[c].name] = [kind |-> "file", blocks |-> Blocks]
    BY <1>2, <1>3 DEF CallsOK, AloneOK
<1> QED
    BY <1>1, <1>2, <1>3, <1>4, <1>5, CallKept

LEMMA CallsStep == CallsOK /\ [SshNext]_sshVars => CallsOK'
<1> SUFFICES ASSUME CallsOK, [SshNext]_sshVars PROVE CallsOK'
    OBVIOUS
<1>1. CASE \E c \in Calls : Operate(c)
  <2>1. PICK c \in Calls : Operate(c)
      BY <1>1
  <2>2. CASE Serve(c) \/ Callback(c)
      BY <2>2, ServeKept, CallbackKept
  <2>3. CASE ~(Serve(c) \/ Callback(c))
    <3>1. \E op \in Ops, name \in Names : Ask(c, op, name)
        BY <2>1, <2>3, NoCallFacts
        DEF Operate, Stat, ReadFile, WriteFile, Rename, CreateDirectory, ReadDirectory,
            CreateShell, SftpCall, Ops, Readers
    <3> QED
        BY <3>1, AskKept
  <2> QED
      BY <2>2, <2>3
<1>2. CASE ~(\E c \in Calls : Operate(c))
  <2>1. UNCHANGED server /\ (FailCalls \/ UNCHANGED calls)
      BY <1>2 DEF SshNext, SshConnect, KeyRead, SftpReply, Ready, SshError, SocketClose,
                  SshDisconnect, DisconnectTimeout, sshVars
  <2> QED
      BY <2>1, FailedKept
<1> QED
    BY <1>1, <1>2

\* A writeFile() that resolves while no other operation runs has left the whole file
\* on the server, wherever a refusal, a disconnect() or a lost connection cuts in.
THEOREM WritesAreWhole == SshSpec => []WrittenIsWhole
<1>1. CallsOK => WrittenIsWhole
    BY DEF CallsOK, AloneOK, WrittenIsWhole
<1> QED
    BY <1>1, CallsInit, CallsStep, PTL DEF SshSpec

LEMMA SessionStep == SessionOK /\ [SshNext]_sshVars => SessionOK'
<1> SUFFICES ASSUME SessionOK, [SshNext]_sshVars PROVE SessionOK'
    OBVIOUS
<1> USE DEF SessionOK, fields
<1>1. ASSUME NEW withSftp \in BOOLEAN, NEW auth \in {"password", "key", "none"},
             SshConnect(withSftp, auth)
      PROVE  SessionOK'
    BY <1>1 DEF SshConnect
<1>2. ASSUME NEW ok \in BOOLEAN, KeyRead(ok) \/ SftpReply(ok) PROVE SessionOK'
    BY <1>2 DEF KeyRead, SftpReply
<1>3. CASE Ready \/ SshError
    BY <1>3 DEF Ready, SshError
<1>4. CASE SocketClose
    BY <1>4 DEF SocketClose, ClearFields, Over
<1>5. ASSUME NEW e \in Ends, SshDisconnect(e) PROVE SessionOK'
    BY <1>5 DEF SshDisconnect, Over
<1>6. ASSUME NEW e \in Ends, DisconnectTimeout(e) PROVE SessionOK'
    BY <1>6 DEF DisconnectTimeout, EndTimer, ClearFields, Over
<1>7. ASSUME NEW c \in Calls, Operate(c) PROVE SessionOK'
  <2>1. UNCHANGED <<attempt, fields, socket, ends, listener>>
      BY <1>7 DEF Operate, Stat, ReadFile, WriteFile, Rename, CreateDirectory, ReadDirectory,
                  CreateShell, SftpCall, Ask, Serve, Callback
  <2> QED
      BY <2>1
<1>8. CASE UNCHANGED sshVars
    BY <1>8 DEF sshVars
<1> QED
    BY <1>1, <1>2, <1>3, <1>4, <1>5, <1>6, <1>7, <1>8 DEF SshNext

\* The session, its operations and what the server holds have their types.
THEOREM SessionIsTyped == SshSpec => []SshTypeOK
<1>1. SshInit => SessionOK
    BY DEF SshInit, SessionOK
<1>2. SessionOK /\ CallsOK => SshTypeOK
    BY DEF SessionOK, CallsOK, SshTypeOK
<1> QED
    BY <1>1, <1>2, SessionStep, CallsInit, CallsStep, PTL DEF SshSpec

-----------------------------------------------------------------------------
(* The parts in one run                                                    *)

LEMMA PartsStart ==
    Init => /\ part \in Parts /\ PathInit /\ OrderInit /\ SearchInit /\ DeleteInit
            /\ AgentInit /\ SshInit
<1>1. <<>> \in Listings
  <2>1. 0 \in 0..MaxListed
      BY OrderAssumption
  <2>2. <<>> \in [1..0 -> Samples]
      OBVIOUS
  <2> QED
      BY <2>1, <2>2 DEF Listings
<1> QED
    BY <1>1, ChosenAssumption DEF Init, OrderInit

LEMMA PartsStep ==
    [Next]_vars => /\ UNCHANGED part
                   /\ [PathNext]_pathVars /\ [OrderNext]_orderVars /\ [SearchNext]_searchVars
                   /\ [DeleteNext]_deleteVars /\ [AgentNext]_agentVars /\ [SshNext]_sshVars
    BY DEF Next, vars

\* A run of the parts is one of each of them.
LEMMA PartsRun ==
    Spec => /\ PathSpec /\ OrderSpec /\ SearchSpec /\ DeleteSpec /\ AgentSpec /\ SshSpec
            /\ [](part \in Parts)
<1>1. part \in Parts /\ UNCHANGED part => (part \in Parts)'
    OBVIOUS
<1> QED
    BY <1>1, PartsStart, PartsStep, PTL
    DEF Spec, PathSpec, OrderSpec, SearchSpec, DeleteSpec, AgentSpec, SshSpec

\* The state of each part has the types its code gives it.
THEOREM PartsAreTyped == Spec => []TypeOK
<1>1. /\ part \in Parts /\ CacheIsLimited /\ OrderTypeOK /\ SearchTypeOK /\ DeleteTypeOK
      /\ AgentTypeOK /\ SshTypeOK
      => TypeOK
    BY DEF Parts, TypeOK
<1> QED
    BY <1>1, PartsRun, PathCacheIsLimited, OrderIsTyped, SearchIsTyped, DeleteIsTyped,
       AgentIsTyped, SessionIsTyped, PTL
=============================================================================
