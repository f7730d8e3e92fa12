------------------------- MODULE RemoteFilesProofs -------------------------
(***************************************************************************)
(* Proofs about RemoteFiles, for any files, contents, calls and sizes.     *)
(*                                                                         *)
(* Three invariants, one on top of the other.  TypeInv is the shape of the *)
(* state, however many calls run and whatever they concern.  FilesInv says *)
(* what each call owes the files it concerns at each of its stages; it     *)
(* needs calls that run at a time to concern different files.  PlanInv is  *)
(* about the list of a prune and needs one call at a time.                 *)
(*                                                                         *)
(* A lemma <Action>Facts says what a step does to its call and that it     *)
(* keeps TypeInv, <Action>KeepsFiles that it keeps FilesInv.               *)
(***************************************************************************)
EXTENDS RemoteFiles, FiniteSetTheorems, SequenceTheorems, TLAPS

\* What is in a sequence is there once.
Once(s) == \A i, j \in 1..Len(s) : s[i] = s[j] => i = j

LEMMA SelectOnce ==
    ASSUME NEW E, NEW s \in Seq(E), Once(s), NEW k \in 1..Len(s)
    PROVE  RemoveFirst(s, s[k]) = RemoveAt(s, k)
<1> DEFINE I == {i \in 1..Len(s) : s[i] = s[k]}
<1>1. I = {k}
  BY DEF Once
<1>2. Min(I) = k
  BY <1>1 DEF Min
<1> QED
  BY <1>1, <1>2 DEF RemoveFirst, SelectInSeq

LEMMA RemoveAtFacts ==
    ASSUME NEW E, NEW s \in Seq(E), NEW k \in 1..Len(s)
    PROVE  /\ RemoveAt(s, k) \in Seq(E)
           /\ Len(RemoveAt(s, k)) = Len(s) - 1
           /\ \A i \in 1..(k - 1) : RemoveAt(s, k)[i] = s[i]
           /\ \A i \in k..(Len(s) - 1) : RemoveAt(s, k)[i] = s[i + 1]
<1> DEFINE front == SubSeq(s, 1, k - 1)
           back == SubSeq(s, k + 1, Len(s))
<1>0. Len(s) \in Nat
  OBVIOUS
<1>1. /\ front \in Seq(E) /\ Len(front) = k - 1
      /\ \A i \in 1..(k - 1) : front[i] = s[i]
  BY <1>0, SubSeqProperties
<1>2. /\ back \in Seq(E) /\ Len(back) = Len(s) - k
      /\ \A i \in 1..(Len(s) - k) : back[i] = s[k + i]
  <2>1. back = [i \in 1..(Len(s) - (k + 1) + 1) |-> s[k + 1 + i - 1]]
    BY <1>0
  <2> QED
    BY <1>0, SubSeqProperties
<1>3. RemoveAt(s, k) = front \o back
  BY DEF RemoveAt
<1> HIDE DEF front, back
<1>4. /\ front \o back \in Seq(E)
      /\ Len(front \o back) = Len(front) + Len(back)
      /\ \A i \in 1..(Len(front) + Len(back)) :
            (front \o back)[i] = IF i <= Len(front) THEN front[i] ELSE back[i - Len(front)]
  BY <1>1, <1>2, ConcatProperties, Zenon
<1>5. ASSUME NEW i \in 1..(k - 1)
      PROVE  (front \o back)[i] = s[i]
  BY <1>0, <1>1, <1>2, <1>4
<1>6. ASSUME NEW i \in k..(Len(s) - 1)
      PROVE  (front \o back)[i] = s[i + 1]
  BY <1>0, <1>1, <1>2, <1>4
<1>7. Len(front \o back) = Len(s) - 1
  BY <1>0, <1>1, <1>2, <1>4
<1> QED
  BY <1>3, <1>4, <1>5, <1>6, <1>7

\* An entry that is there once is there no more, and the others keep their order.
LEMMA RemoveFirstFacts ==
    ASSUME NEW E, NEW s \in Seq(E), Once(s), NEW e
    PROVE  /\ RemoveFirst(s, e) \in Seq(E)
           /\ Once(RemoveFirst(s, e))
           /\ ToSet(RemoveFirst(s, e)) = ToSet(s) \ {e}
<1>1. CASE ~ \E i \in 1..Len(s) : s[i] = e
  BY <1>1 DEF RemoveFirst, ToSet
<1>2. CASE \E i \in 1..Len(s) : s[i] = e
  <2>1. PICK k \in 1..Len(s) : s[k] = e
    BY <1>2
  <2>2. RemoveFirst(s, e) = RemoveAt(s, k)
    BY <2>1, SelectOnce
  <2> DEFINE r == RemoveAt(s, k)
  <2>3. /\ r \in Seq(E) /\ Len(r) = Len(s) - 1
        /\ \A i \in 1..(k - 1) : r[i] = s[i]
        /\ \A i \in k..(Len(s) - 1) : r[i] = s[i + 1]
    BY RemoveAtFacts
  <2> HIDE DEF r
  <2>4. Once(r)
    BY <2>3 DEF Once
  <2>5. ToSet(r) \subseteq ToSet(s) \ {e}
    <3> SUFFICES ASSUME NEW i \in 1..Len(r)
                 PROVE  r[i] \in ToSet(s) \ {e}
      BY <2>3 DEF ToSet
    <3>1. PICK j \in 1..Len(s) : r[i] = s[j] /\ j # k
      <4>0. Len(s) \in Nat /\ i \in 1..(Len(s) - 1)
        BY <2>3
      <4>1. CASE i < k
        <5>1. i \in 1..(k - 1) /\ i \in 1..Len(s) /\ i # k
          BY <4>0, <4>1
        <5>2. r[i] = s[i]
          BY <2>3, <5>1
        <5> QED
          BY <5>1, <5>2
      <4>2. CASE i >= k
        <5>1. i \in k..(Len(s) - 1) /\ i + 1 \in 1..Len(s) /\ i + 1 # k
          BY <4>0, <4>2
        <5>2. r[i] = s[i + 1]
          BY <2>3, <5>1
        <5> QED
          BY <5>1, <5>2
      <4> QED
        BY <4>0, <4>1, <4>2
    <3> QED
      BY <2>1, <3>1 DEF ToSet, Once
  <2>6. ToSet(s) \ {e} \subseteq ToSet(r)
    <3> SUFFICES ASSUME NEW j \in 1..Len(s), s[j] # e
                 PROVE  s[j] \in ToSet(r)
      BY DEF ToSet
    <3>1. CASE j < k
      BY <2>3, <3>1 DEF ToSet
    <3>2. CASE j > k
      <4>1. j - 1 \in k..(Len(s) - 1) /\ j - 1 \in 1..Len(r)
        BY <2>3, <3>2
      <4>2. r[j - 1] = s[j]
        BY <2>3, <4>1
      <4>3. DOMAIN r = 1..Len(r)
        BY <2>3
      <4> QED
        BY <4>1, <4>2, <4>3 DEF ToSet
    <3> QED
      BY <2>1, <3>1, <3>2
  <2> QED
    BY <2>2, <2>3, <2>4, <2>5, <2>6 DEF r
<1> QED
  BY <1>1, <1>2

\* The first entry leaves the rest.
LEMMA RemoveHead ==
    ASSUME NEW E, NEW s \in Seq(E), Once(s), s # <<>>
    PROVE  RemoveFirst(s, Head(s)) = Tail(s)
<1>1. 1 \in 1..Len(s) /\ s[1] = Head(s)
  OBVIOUS
<1>2. RemoveFirst(s, Head(s)) = RemoveAt(s, 1)
  BY <1>1, SelectOnce
<1> DEFINE r == RemoveAt(s, 1)
<1>3. /\ r \in Seq(E) /\ Len(r) = Len(s) - 1
      /\ \A i \in 1..(Len(s) - 1) : r[i] = s[i + 1]
  BY <1>1, RemoveAtFacts
<1> HIDE DEF r
<1>4. Tail(s) \in Seq(E) /\ Len(Tail(s)) = Len(s) - 1
      /\ \A i \in 1..(Len(s) - 1) : Tail(s)[i] = s[i + 1]
  BY HeadTailProperties
<1>5. r = Tail(s)
  BY <1>3, <1>4, SeqEqual
<1> QED
  BY <1>2, <1>5 DEF r

LEMMA AppendOnce ==
    ASSUME NEW E, NEW s \in Seq(E), Once(s), NEW e \in E, e \notin ToSet(s)
    PROVE  /\ Append(s, e) \in Seq(E)
           /\ Once(Append(s, e))
           /\ ToSet(Append(s, e)) = ToSet(s) \cup {e}
<1> DEFINE r == Append(s, e)
<1>1. /\ r \in Seq(E) /\ Len(r) = Len(s) + 1 /\ r[Len(s) + 1] = e
      /\ \A i \in 1..Len(s) : r[i] = s[i]
      /\ Len(s) \in Nat /\ DOMAIN r = 1..Len(r) /\ DOMAIN s = 1..Len(s)
  BY AppendProperties
<1> HIDE DEF r
<1>2. Once(r)
  <2> SUFFICES ASSUME NEW i \in 1..Len(r), NEW j \in 1..Len(r), r[i] = r[j]
               PROVE  i = j
    BY DEF Once
  <2>1. \A k \in 1..Len(s) : s[k] # e
    BY <1>1 DEF ToSet
  <2> QED
    BY <1>1, <2>1 DEF Once
<1>3. ToSet(r) = ToSet(s) \cup {e}
  <2>1. \A i \in 1..Len(r) : i \in 1..Len(s) \/ i = Len(s) + 1
    BY <1>1
  <2>2. 1..Len(s) \subseteq 1..Len(r) /\ Len(s) + 1 \in 1..Len(r)
    BY <1>1
  <2> QED
    BY <1>1, <2>1, <2>2 DEF ToSet
<1> QED
  BY <1>1, <1>2, <1>3 DEF r

\* The entries of a finite set, one after the other.
LEMMA SetToSeqFacts ==
    ASSUME NEW S, IsFiniteSet(S)
    PROVE  /\ SetToSeq(S) \in Seq(S)
           /\ Once(SetToSeq(S))
           /\ ToSet(SetToSeq(S)) = S
<1> DEFINE n == Cardinality(S)
           q == SetToSeq(S)
<1>1. n \in Nat /\ ExistsBijection(1..n, S)
  BY FS_CardinalityType
<1>2. PICK b \in Bijection(1..n, S) : TRUE
  BY <1>1 DEF ExistsBijection
<1>3. b \in [1..n -> S] /\ IsInjective(b)
  BY <1>2 DEF Bijection, Injection, IsInjective
<1>4. q \in [1..n -> S] /\ IsInjective(q)
  BY <1>3 DEF SetToSeq
<1>5. q \in Injection(1..n, S)
  BY <1>4 DEF Injection, IsInjective
<1> HIDE DEF q
<1>6. IsFiniteSet(1..n) /\ Cardinality(1..n) = n
  BY <1>1, FS_Interval
<1>7. q \in Surjection(1..n, S)
  BY <1>5, <1>6, FS_Injection
<1>8. q \in Seq(S) /\ Len(q) = n /\ DOMAIN q = 1..n
  BY <1>1, <1>4
<1>9. Once(q)
  BY <1>4, <1>8 DEF Once, IsInjective
<1>10. ToSet(q) = S
  BY <1>7, <1>8 DEF ToSet, Surjection
<1> QED
  BY <1>8, <1>9, <1>10 DEF q
-----------------------------------------------------------------------------
(* The invariants                                                          *)

\* The stages of writeCache() and of deleteCache().
Writing == {"begin", "list", "prune", "truncate", "fill", "digest"}
Deleting == {"stat", "unlink", "unlinkSidecar"}

\* The operations whose text is the user's.
Saves == {"save", "presavePull", "presavePush"}

\* Which operation is at which stage.
OpAt(k) ==
    /\ k.pc = "idle" => k = Idle
    /\ k.pc = "lookup" => k.op = "read"
    /\ k.pc = "download" => k.op \in {"read", "pull"}
    /\ k.pc \in Writing => k.op \in {"read", "pull", "refresh", "rename"} \cup Saves
    /\ k.pc = "exists" => k.op \in {"pull", "push"}
    /\ k.pc = "compare" => k.op = "pull"
    /\ k.pc \in {"fetch", "upload"} => k.op = "push"
    /\ k.pc = "remove" => k.op = "delete"
    /\ k.pc \in Deleting => k.op \in {"delete", "rename"}
    /\ k.pc \in {"move", "probe", "copy"} => k.op = "rename"

\* What the files of an operation are, and what it carries.
CallShape(k) ==
    /\ OpAt(k)
    /\ k.op \notin {"none", "delete", "rename"} => k.file \in Files /\ k.to = k.file
    /\ k.op = "delete" => k.to = k.file
    /\ k.op = "rename" => \/ k.file \in Files /\ k.to \in Files /\ k.file # k.to
                          \/ k.file = Dir /\ k.to = Dir
    /\ k.op = "rename" /\ k.pc \in Writing \cup Deleting => k.file # Dir
    /\ k.pc = "unlinkSidecar" => k.file \in Files
    /\ k.op \in Saves => k.content \in Contents
    /\ k.pc \in Writing \cup {"compare"} => k.content # Absent
    /\ k.pc = "exists" /\ k.op = "pull" => k.content # Absent

\* The types, with each entry of the cache once in the order of modification times.
TypeInv == TypeOK /\ Once(age) /\ \A c \in Calls : CallShape(calls[c])

\* No two calls concern the same file.
Disjoint == \A c, d \in Running :
    c # d => Concerns(calls[c]) \cap Concerns(calls[d]) = {}

\* What the user has given up, as far as a call has come.
GivenUp(k) ==
    /\ k.op = "read" /\ k.pc # "lookup" => saved[k.file] = Absent
    /\ k.op \in {"pull", "refresh"} /\ k.pc \in Writing => saved[k.file] = Absent
    /\ k.pc \in {"fill", "digest"} => saved[Writes(k)] = Absent
    /\ k.pc = "digest" => data[Writes(k)] \in {k.content, Absent}
    /\ k.op = "rename" /\ k.pc \in Writing => saved[k.file] \in {k.content, Absent}
    /\ k.op = "rename" /\ k.pc \in Deleting => saved[k.file] = Absent
    /\ k.op = "delete" => \A f \in Under(k.file) : saved[f] = Absent

CallsInv == \A c \in Calls : GivenUp(calls[c])

\* The sidecar is that of the content, unless the file is being written.
Matches(f) == data[f] = Absent \/ sidecar[f] \in {Absent, data[f]}
BeingWritten(f) == \E c \in Calls :
    calls[c].pc \in {"fill", "digest"} /\ f = Writes(calls[c])

MatchInv == ~cutShort => \A f \in Files : Matches(f) \/ BeingWritten(f)

FilesInv == Disjoint /\ CallsInv /\ SavedIsKept /\ MatchInv

Alone == \A c, d \in Running : c = d

\* The list of the running prune is what is in the cache.
PlanInv == \A c \in Calls : At(c, "prune") =>
    age = [i \in 1..Len(calls[c].plan) |-> calls[c].plan[i].entry]
-----------------------------------------------------------------------------
(* The operators of the cache                                              *)

CacheInv == CacheTypeOK /\ Once(age)

Text == Contents \cup {Torn, Absent}

\* What is in the cache, in a state and in the next.
Present(d, s) == {e \in Entries : \/ e[1] = "data" /\ d[e[2]] # Absent
                                  \/ e[1] = "sidecar" /\ s[e[2]] # Absent}

LEMMA TouchedFacts ==
    ASSUME CacheInv, NEW e \in Entries
    PROVE  /\ Touched(e) \in Seq(Entries) /\ Once(Touched(e))
           /\ ToSet(Touched(e)) = ToSet(age) \cup {e}
<1>1. /\ Without(e) \in Seq(Entries) /\ Once(Without(e))
      /\ ToSet(Without(e)) = ToSet(age) \ {e}
  BY RemoveFirstFacts DEF CacheInv, CacheTypeOK, Without
<1>2. /\ Append(Without(e), e) \in Seq(Entries) /\ Once(Append(Without(e), e))
      /\ ToSet(Append(Without(e), e)) = ToSet(Without(e)) \cup {e}
  BY <1>1, AppendOnce
<1> QED
  BY <1>1, <1>2 DEF Touched

LEMMA WithoutFacts ==
    ASSUME CacheInv, NEW e
    PROVE  /\ Without(e) \in Seq(Entries) /\ Once(Without(e))
           /\ ToSet(Without(e)) = ToSet(age) \ {e}
  BY RemoveFirstFacts DEF CacheInv, CacheTypeOK, Without

LEMMA SizesAreNat ==
    /\ FileSize \in Nat /\ DigestSize \in Nat /\ DirSize \in Nat /\ MaxSize \in Nat
    /\ \A content : Bytes(content) \in Nat
    /\ \A e : SizeOf(e) \in Nat
    /\ \A a, b \in Nat : Minus(a, b) \in Nat
  BY SizesAssumption DEF Bytes, SizeOf, Minus

\* A file or a sidecar gets a content.
LEMMA PutKeepsCache ==
    ASSUME CacheInv, NEW f \in Files, NEW content \in Text \ {Absent},
           NEW part \in {"data", "sidecar"},
           age' = Touched(<<part, f>>),
           data' = IF part = "data" THEN [data EXCEPT ![f] = content] ELSE data,
           sidecar' = IF part = "sidecar" THEN [sidecar EXCEPT ![f] = content] ELSE sidecar,
           made' \in BOOLEAN, counter' \in Nat
    PROVE  CacheInv'
<1> DEFINE e == <<part, f>>
<1>1. e \in Entries /\ e[1] = part /\ e[2] = f
  BY DEF Entries
<1>2. age' \in Seq(Entries) /\ Once(age') /\ ToSet(age') = ToSet(age) \cup {e}
  BY <1>1, TouchedFacts
<1>3. data' \in [Files -> Text] /\ sidecar' \in [Files -> Text]
  BY DEF CacheInv, CacheTypeOK, Text
<1>4. Present(data', sidecar') = Present(data, sidecar) \cup {e}
  <2> SUFFICES ASSUME NEW x \in Entries
               PROVE  x \in Present(data', sidecar') <=> x \in Present(data, sidecar) \/ x = e
    BY <1>1 DEF Present
  <2>1. x[1] \in {"data", "sidecar"} /\ x[2] \in Files /\ (x = e <=> x[1] = part /\ x[2] = f)
    BY <1>1 DEF Entries
  <2> QED
    BY <1>1, <2>1 DEF Present, CacheInv, CacheTypeOK
<1>5. ToSet(age) = Present(data, sidecar)
  BY DEF CacheInv, CacheTypeOK, Present
<1> QED
  BY <1>2, <1>3, <1>4, <1>5 DEF CacheInv, CacheTypeOK, Present, Text

\* A file or a sidecar is removed.
LEMMA DropKeepsCache ==
    ASSUME CacheInv, NEW e \in Entries, age' = Without(e),
           data' = IF e[1] = "data" THEN [data EXCEPT ![e[2]] = Absent] ELSE data,
           sidecar' = IF e[1] = "sidecar" THEN [sidecar EXCEPT ![e[2]] = Absent] ELSE sidecar,
           made' \in BOOLEAN, counter' \in Nat
    PROVE  CacheInv'
<1>1. age' \in Seq(Entries) /\ Once(age') /\ ToSet(age') = ToSet(age) \ {e}
  BY WithoutFacts
<1>2. data' \in [Files -> Text] /\ sidecar' \in [Files -> Text]
  BY DEF CacheInv, CacheTypeOK, Text
<1>3. Present(data', sidecar') = Present(data, sidecar) \ {e}
  <2> SUFFICES ASSUME NEW x \in Entries
               PROVE  x \in Present(data', sidecar') <=> x \in Present(data, sidecar) /\ x # e
    BY DEF Present
  <2>1. /\ x[1] \in {"data", "sidecar"} /\ x[2] \in Files
        /\ e[1] \in {"data", "sidecar"} /\ e[2] \in Files
        /\ (x = e <=> x[1] = e[1] /\ x[2] = e[2])
    BY DEF Entries
  <2> QED
    BY <2>1 DEF Present, CacheInv, CacheTypeOK
<1>4. ToSet(age) = Present(data, sidecar)
  BY DEF CacheInv, CacheTypeOK, Present
<1> QED
  BY <1>1, <1>2, <1>3, <1>4 DEF CacheInv, CacheTypeOK, Present, Text

LEMMA CounterKeepsCache ==
    ASSUME CacheInv, UNCHANGED <<data, sidecar, made, age>>, counter' \in Nat
    PROVE  CacheInv'
  BY DEF CacheInv, CacheTypeOK

LEMMA TruncateKeepsCache ==
    ASSUME CacheInv, NEW f \in Files, Truncate(f)
    PROVE  CacheInv'
<1>1. made' \in BOOLEAN /\ counter' \in Nat
  BY DEF Truncate, CacheInv, CacheTypeOK
<1> QED
  BY <1>1, PutKeepsCache, ContentsAssumption DEF Truncate, Text

LEMMA FillKeepsCache ==
    ASSUME CacheInv, NEW f \in Files, NEW content \in Text \ {Absent}, Fill(f, content)
    PROVE  CacheInv'
<1>1. made' \in BOOLEAN /\ counter' \in Nat
  BY DEF Fill, CacheInv, CacheTypeOK
<1> QED
  BY <1>1, PutKeepsCache DEF Fill

LEMMA WriteLocalHashKeepsCache ==
    ASSUME CacheInv, NEW f \in Files, NEW content \in Text \ {Absent},
           WriteLocalHash(f, content)
    PROVE  CacheInv'
<1>1. made' \in BOOLEAN /\ counter' \in Nat
  <2>1. counter \in Nat /\ Bytes(content) \in Nat
    BY SizesAreNat DEF CacheInv, CacheTypeOK
  <2> QED
    BY <2>1 DEF WriteLocalHash, CacheInv, CacheTypeOK
<1> QED
  BY <1>1, PutKeepsCache DEF WriteLocalHash

LEMMA UnlinkKeepsCache ==
    ASSUME CacheInv, NEW l \in [entry : Entries, size : Nat], Unlink(l)
    PROVE  CacheInv'
<1>1. made' \in BOOLEAN /\ counter' \in Nat
  <2>1. l.size \in Nat /\ counter \in Nat /\ Minus(counter, l.size) \in Nat
    BY SizesAreNat DEF CacheInv, CacheTypeOK
  <2> QED
    BY <2>1 DEF Unlink, CacheInv, CacheTypeOK
<1>2. l.entry \in Entries /\ l.entry[1] \in {"data", "sidecar"}
  BY DEF Entries
<1> QED
  BY <1>1, <1>2, DropKeepsCache DEF Unlink

LEMMA UnlinkDataKeepsCache ==
    ASSUME CacheInv, NEW f \in Files, UnlinkData(f) \/ UnlinkSidecar(f)
    PROVE  CacheInv'
<1>1. made' \in BOOLEAN /\ counter' \in Nat
  BY DEF UnlinkData, UnlinkSidecar, CacheInv, CacheTypeOK
<1>2. /\ <<"data", f>> \in Entries /\ <<"data", f>>[1] = "data" /\ <<"data", f>>[2] = f
      /\ <<"sidecar", f>> \in Entries /\ <<"sidecar", f>>[1] = "sidecar"
      /\ <<"sidecar", f>>[2] = f
  BY DEF Entries
<1> QED
  BY <1>1, <1>2, DropKeepsCache DEF UnlinkData, UnlinkSidecar

LEMMA StatForDeleteKeepsCache ==
    ASSUME CacheInv, NEW target, StatForDelete(target)
    PROVE  CacheInv'
<1>1. counter' \in Nat
  BY SizesAreNat DEF StatForDelete, CacheInv, CacheTypeOK
<1> QED
  BY <1>1, CounterKeepsCache DEF StatForDelete

LEMMA ListedFacts ==
    ASSUME CacheInv
    PROVE  /\ Listed \in Seq([entry : Entries, size : Nat])
           /\ age = [i \in 1..Len(Listed) |-> Listed[i].entry]
<1>1. age \in Seq(Entries) /\ Len(age) \in Nat /\ age = [i \in 1..Len(age) |-> age[i]]
  BY DEF CacheInv, CacheTypeOK
<1>2. \A i \in 1..Len(age) : [entry |-> age[i], size |-> SizeOf(age[i])]
                               \in [entry : Entries, size : Nat]
  BY <1>1, SizesAreNat
<1>3. Listed \in [1..Len(age) -> [entry : Entries, size : Nat]]
  BY <1>2 DEF Listed
<1>4. Listed \in Seq([entry : Entries, size : Nat]) /\ Len(Listed) = Len(age)
  <2> DEFINE R == [entry : Entries, size : Nat]
  <2> HIDE DEF R
  <2>1. \A q \in [1..Len(age) -> R] : q \in Seq(R) /\ Len(q) = Len(age)
    BY <1>1
  <2>2. Listed \in [1..Len(age) -> R]
    BY <1>3 DEF R
  <2>3. Listed \in Seq(R) /\ Len(Listed) = Len(age)
    BY <2>1, <2>2
  <2> QED
    BY <2>3 DEF R
<1>5. \A i \in 1..Len(age) : Listed[i].entry = age[i]
  BY DEF Listed
<1> QED
  BY <1>1, <1>4, <1>5

LEMMA CacheInitFacts == CacheInit => CacheInv
<1> SUFFICES ASSUME CacheInit
             PROVE  CacheInv
  OBVIOUS
<1>1. PICK old \in [Files -> Contents \cup {Absent}] :
        /\ data = old /\ sidecar = old
        /\ made = (\E f \in Inside : old[f] # Absent)
        /\ age = SetToSeq({e \in Entries : old[e[2]] # Absent})
  BY DEF CacheInit
<1> DEFINE S == {e \in Entries : old[e[2]] # Absent}
<1>2. IsFiniteSet({"data", "sidecar"}) /\ IsFiniteSet(Files)
  <2>1. IsFiniteSet({})
    BY FS_EmptySet
  <2>2. IsFiniteSet({} \cup {"data"})
    BY <2>1, FS_AddElement
  <2>3. IsFiniteSet(({} \cup {"data"}) \cup {"sidecar"})
    BY <2>2, FS_AddElement
  <2>4. {"data", "sidecar"} = ({} \cup {"data"}) \cup {"sidecar"}
    OBVIOUS
  <2> QED
    BY <2>3, <2>4, FilesAssumption
<1>3. IsFiniteSet(Entries)
  BY <1>2, FS_Product DEF Entries
<1>4. IsFiniteSet(S) /\ S \subseteq Entries
  BY <1>3, FS_Subset
<1>5. age \in Seq(S) /\ Once(age) /\ ToSet(age) = S
  BY <1>1, <1>4, SetToSeqFacts
<1>6. age \in Seq(Entries)
  BY <1>4, <1>5, SeqMonotonic
<1>7. S = Present(data, sidecar)
  BY <1>1 DEF Present, Entries
<1>8. counter \in Nat /\ made \in BOOLEAN
  BY <1>1 DEF CacheInit
<1> QED
  BY <1>1, <1>5, <1>6, <1>7, <1>8 DEF CacheInv, CacheTypeOK, Present
-----------------------------------------------------------------------------
(* What a step does to the calls                                           *)

\* Call c goes to a stage, perhaps with another operation and another content.
Became(c, op, pc, content) ==
    /\ calls' \in [Calls -> Call]
    /\ \A d \in Calls \ {c} : calls'[d] = calls[d]
    /\ calls'[c].op = op /\ calls'[c].pc = pc /\ calls'[c].content = content
    /\ calls'[c].file = calls[c].file /\ calls'[c].to = calls[c].to

Ended(c) ==
    /\ calls' \in [Calls -> Call]
    /\ \A d \in Calls \ {c} : calls'[d] = calls[d]
    /\ calls'[c] = Idle

Begun(c, op, file, to, content, stage) ==
    /\ calls[c] = Idle
    /\ calls' \in [Calls -> Call]
    /\ \A d \in Calls \ {c} : calls'[d] = calls[d]
    /\ calls'[c].op = op /\ calls'[c].pc = stage /\ calls'[c].content = content
    /\ calls'[c].file = file /\ calls'[c].to = to

LEMMA IdleFacts ==
    /\ Idle \in Call /\ Idle.pc = "idle" /\ Idle.op = "none"
    /\ CallShape(Idle) /\ GivenUp(Idle)
<1>1. Idle \in Call
  <2> DEFINE R == [entry : Entries, size : Nat]
  <2>1. <<>> \in Seq(R)
    OBVIOUS
  <2> HIDE DEF R
  <2>2. Idle.plan = <<>> /\ <<>> \in Seq(R)
    BY <2>1 DEF Idle
  <2> QED
    BY <2>2 DEF Idle, Call, CallOps, Targets, Stages, R
<1>2. Idle.pc = "idle" /\ Idle.op = "none"
  BY DEF Idle
<1>3. CallShape(Idle)
  BY <1>2 DEF CallShape, OpAt, Writing, Deleting, Saves
<1>4. GivenUp(Idle)
  BY <1>2 DEF GivenUp, Writing, Deleting
<1> QED
  BY <1>1, <1>2, <1>3, <1>4

LEMMA CallIsTyped ==
    ASSUME TypeInv, NEW c \in Calls
    PROVE  calls[c] \in Call /\ calls \in [Calls -> Call] /\ CallShape(calls[c])
  BY DEF TypeInv, TypeOK

LEMMA GoFacts ==
    ASSUME TypeInv, NEW c \in Calls, NEW stage \in Stages, Go(c, stage)
    PROVE  Became(c, calls[c].op, stage, calls[c].content)
  BY CallIsTyped DEF Go, Became, Call

LEMMA CarryFacts ==
    ASSUME TypeInv, NEW c \in Calls, NEW stage \in Stages, NEW content \in Text,
           Carry(c, stage, content)
    PROVE  Became(c, calls[c].op, stage, content)
  BY CallIsTyped DEF Carry, Became, Call, Text

LEMMA ReturnFacts ==
    ASSUME TypeInv, NEW c \in Calls, Return(c)
    PROVE  Ended(c)
  BY CallIsTyped, IdleFacts DEF Return, Ended

LEMMA ResumeFacts ==
    ASSUME TypeInv, NEW c \in Calls, Resume(c)
    PROVE  IF calls[c].op = "presavePull"
           THEN Became(c, "pull", "download", calls[c].content)
           ELSE Became(c, "push", "exists", calls[c].content)
<1> DEFINE k == [calls[c] EXCEPT
                   !.op = IF calls[c].op = "presavePull" THEN "pull" ELSE "push",
                   !.pc = IF calls[c].op = "presavePull" THEN "download" ELSE "exists"]
<1>1. calls' = [calls EXCEPT ![c] = k]
  BY CallIsTyped DEF Resume
<1>2. /\ k \in Call /\ k.content = calls[c].content
      /\ k.file = calls[c].file /\ k.to = calls[c].to
      /\ k.op = IF calls[c].op = "presavePull" THEN "pull" ELSE "push"
      /\ k.pc = IF calls[c].op = "presavePull" THEN "download" ELSE "exists"
  BY CallIsTyped DEF Call, Stages, CallOps
<1> HIDE DEF k
<1> QED
  BY <1>1, <1>2, CallIsTyped DEF Became

LEMMA StartedFacts ==
    ASSUME TypeInv, NEW c \in Calls, NEW op \in CallOps, NEW file \in Targets,
           NEW to \in Targets, NEW content \in Text, NEW stage \in Stages,
           Started(c, op, file, to, content, stage)
    PROVE  Begun(c, op, file, to, content, stage)
<1> DEFINE k == [Idle EXCEPT !.op = op, !.file = file, !.to = to, !.content = content,
                             !.pc = stage]
<1>1. k \in Call
  BY IdleFacts DEF Call, Text
<1>2. k.op = op /\ k.file = file /\ k.to = to /\ k.content = content /\ k.pc = stage
  BY DEF Idle
<1>3. calls' = [calls EXCEPT ![c] = k] /\ calls[c] = Idle
  BY DEF Started
<1> HIDE DEF k
<1> QED
  BY <1>1, <1>2, <1>3, CallIsTyped DEF Begun

\* The part of the types that is not about calls.
Around == CacheInv /\ remote \in [Files -> Text] /\ dirty \in [Files -> BOOLEAN]
          /\ saved \in [Files -> Contents \cup {Absent}] /\ cutShort \in BOOLEAN

LEMMA TypeInvParts ==
    TypeInv <=> Around /\ calls \in [Calls -> Call] /\ \A c \in Calls : CallShape(calls[c])
  BY DEF TypeInv, TypeOK, Around, CacheInv, Text

LEMMA BecameKeepsType ==
    ASSUME TypeInv, NEW c \in Calls, NEW op, NEW pc, NEW content,
           Became(c, op, pc, content), CallShape(calls'[c]), Around'
    PROVE  TypeInv'
<1>1. \A d \in Calls : CallShape(calls'[d])
  BY CallIsTyped DEF Became
<1> QED
  BY <1>1 DEF Became, TypeInv, TypeOK, Around, CacheInv, Text

LEMMA EndedKeepsType ==
    ASSUME TypeInv, NEW c \in Calls, Ended(c), Around'
    PROVE  TypeInv'
<1>1. \A d \in Calls : CallShape(calls'[d])
  BY CallIsTyped, IdleFacts DEF Ended
<1> QED
  BY <1>1 DEF Ended, TypeInv, TypeOK, Around, CacheInv, Text

LEMMA BegunKeepsType ==
    ASSUME TypeInv, NEW c \in Calls, NEW op, NEW file, NEW to, NEW content, NEW stage,
           Begun(c, op, file, to, content, stage), CallShape(calls'[c]), Around'
    PROVE  TypeInv'
<1>1. \A d \in Calls : CallShape(calls'[d])
  BY CallIsTyped DEF Begun
<1> QED
  BY <1>1 DEF Begun, TypeInv, TypeOK, Around, CacheInv, Text
-----------------------------------------------------------------------------
(* The types: the start of an operation                                    *)

LEMMA AroundNow == TypeInv => Around
  BY TypeInvParts

LEMMA AroundKept ==
    ASSUME TypeInv, UNCHANGED cacheVars, UNCHANGED cutShort,
           remote' \in [Files -> Text], dirty' \in [Files -> BOOLEAN],
           saved' \in [Files -> Contents \cup {Absent}]
    PROVE  Around'
  BY AroundNow DEF Around, CacheInv, CacheTypeOK, cacheVars

LEMMA KeptFacts ==
    ASSUME TypeInv, UNCHANGED cacheVars, Kept, UNCHANGED cutShort
    PROVE  Around'
  BY AroundNow, AroundKept DEF Around, Kept

LEMMA ReadFacts ==
    ASSUME TypeInv, NEW c \in Calls, NEW f \in Files, Read(c, f), UNCHANGED cutShort
    PROVE  TypeInv' /\ Begun(c, "read", f, f, Absent, "lookup")
<1>1. Begun(c, "read", f, f, Absent, "lookup")
  BY StartedFacts DEF Read, CallOps, Targets, Stages, Text
<1>2. CallShape(calls'[c])
  BY <1>1 DEF Begun, CallShape, OpAt, Writing, Deleting, Saves
<1>3. Around'
  BY KeptFacts DEF Read, Started
<1> QED
  BY <1>1, <1>2, <1>3, BegunKeepsType

LEMMA SaveFacts ==
    ASSUME TypeInv, NEW c \in Calls, NEW f \in Files, NEW text \in Contents,
           Save(c, f, text), UNCHANGED cutShort
    PROVE  TypeInv' /\ Begun(c, "save", f, f, text, "begin")
<1>1. Begun(c, "save", f, f, text, "begin")
  BY StartedFacts DEF Save, CallOps, Targets, Stages, Text
<1>2. CallShape(calls'[c])
  BY <1>1, ContentsAssumption DEF Begun, CallShape, OpAt, Writing, Deleting, Saves
<1>3. dirty' \in [Files -> BOOLEAN] /\ UNCHANGED <<remote, saved>> /\ UNCHANGED cacheVars
  BY AroundNow DEF Save, Started, Around
<1>4. Around'
  BY <1>3, AroundNow, AroundKept DEF Around
<1> QED
  BY <1>1, <1>2, <1>4, BegunKeepsType

LEMMA SyncFacts ==
    ASSUME TypeInv, NEW c \in Calls, NEW f \in Files, UNCHANGED cutShort,
           SyncCurrentFile(c, f) \/ UploadCurrentFile(c, f)
    PROVE  /\ TypeInv'
           /\ \/ Begun(c, "pull", f, f, Absent, "download")
              \/ Begun(c, "push", f, f, Absent, "exists")
              \/ \E text \in Contents :
                    \/ Begun(c, "presavePull", f, f, text, "begin")
                    \/ Begun(c, "presavePush", f, f, text, "begin")
<1>1. PICK op \in {"pull", "push"} : Sync(c, f, op, IF op = "pull" THEN "download" ELSE "exists")
  BY DEF SyncCurrentFile, UploadCurrentFile
<1>2. Around'
  <2>1. dirty' \in [Files -> BOOLEAN] /\ UNCHANGED <<remote, saved>> /\ UNCHANGED cacheVars
    BY <1>1, AroundNow DEF Sync, Started, Around
  <2> QED
    BY <2>1, AroundNow, AroundKept DEF Around
<1>3. CASE Started(c, op, f, f, Absent, IF op = "pull" THEN "download" ELSE "exists")
  <2>1. Begun(c, op, f, f, Absent, IF op = "pull" THEN "download" ELSE "exists")
    BY <1>3, StartedFacts DEF CallOps, Targets, Stages, Text
  <2>2. CASE op = "pull"
    <3>1. Begun(c, "pull", f, f, Absent, "download")
      BY <2>1, <2>2
    <3>2. CallShape(calls'[c])
      BY <3>1 DEF Begun, CallShape, OpAt, Writing, Deleting, Saves
    <3> QED
      BY <1>2, <3>1, <3>2, BegunKeepsType
  <2>3. CASE op = "push"
    <3>1. Begun(c, "push", f, f, Absent, "exists")
      BY <2>1, <2>3
    <3>2. CallShape(calls'[c])
      BY <3>1 DEF Begun, CallShape, OpAt, Writing, Deleting, Saves
    <3> QED
      BY <1>2, <3>1, <3>2, BegunKeepsType
  <2> QED
    BY <1>1, <2>2, <2>3
<1>4. ASSUME NEW text \in Contents,
             Started(c, IF op = "pull" THEN "presavePull" ELSE "presavePush",
                     f, f, text, "begin")
      PROVE  /\ TypeInv'
             /\ \/ Begun(c, "presavePull", f, f, text, "begin")
                \/ Begun(c, "presavePush", f, f, text, "begin")
  <2>1. Begun(c, IF op = "pull" THEN "presavePull" ELSE "presavePush", f, f, text, "begin")
    BY <1>4, StartedFacts DEF CallOps, Targets, Stages, Text
  <2>2. CallShape(calls'[c])
    BY <2>1, ContentsAssumption DEF Begun, CallShape, OpAt, Writing, Deleting, Saves
  <2>3. TypeInv'
    BY <1>2, <2>1, <2>2, BegunKeepsType
  <2> QED
    BY <1>1, <2>1, <2>3
<1> QED
  BY <1>1, <1>3, <1>4 DEF Sync

LEMMA DeleteFacts ==
    ASSUME TypeInv, NEW c \in Calls, NEW target \in Targets, Delete(c, target),
           UNCHANGED cutShort
    PROVE  TypeInv' /\ Begun(c, "delete", target, target, Absent, "remove")
<1>1. Begun(c, "delete", target, target, Absent, "remove")
  BY StartedFacts DEF Delete, CallOps, Stages, Text
<1>2. CallShape(calls'[c])
  BY <1>1 DEF Begun, CallShape, OpAt, Writing, Deleting, Saves
<1>3. saved' \in [Files -> Contents \cup {Absent}] /\ UNCHANGED <<remote, dirty>>
      /\ UNCHANGED cacheVars
  BY AroundNow DEF Delete, Started, Around
<1>4. Around'
  BY <1>3, AroundNow, AroundKept DEF Around
<1> QED
  BY <1>1, <1>2, <1>4, BegunKeepsType

LEMMA RenameFacts ==
    ASSUME TypeInv, NEW c \in Calls, NEW f \in Targets, NEW to \in Targets, Rename(c, f, to),
           (f \in Files /\ to \in Files) \/ (f = Dir /\ to = Dir), UNCHANGED cutShort
    PROVE  TypeInv' /\ Begun(c, "rename", f, to, Absent, "move")
<1>1. Begun(c, "rename", f, to, Absent, "move")
  BY StartedFacts DEF Rename, CallOps, Stages, Text
<1>2. f # to \/ f = Dir
  BY DEF Rename
<1>3. CallShape(calls'[c])
  BY <1>1, <1>2, FilesAssumption DEF Begun, CallShape, OpAt, Writing, Deleting, Saves
<1>4. saved' \in [Files -> Contents \cup {Absent}] /\ UNCHANGED <<remote, dirty>>
      /\ UNCHANGED cacheVars
  BY AroundNow DEF Rename, Started, Around
<1>5. Around'
  BY <1>4, AroundNow, AroundKept DEF Around
<1> QED
  BY <1>1, <1>3, <1>5, BegunKeepsType
-----------------------------------------------------------------------------
(* The types: the steps of a call                                          *)

LEMMA LookupFacts ==
    ASSUME TypeInv, NEW c \in Calls, Lookup(c), UNCHANGED cutShort
    PROVE  /\ TypeInv'
           /\ \/ Ended(c)
              \/ /\ Became(c, "read", "download", calls[c].content)
                 /\ calls[c].file \in Files /\ data[calls[c].file] = Absent
<1>1. calls[c].op = "read" /\ calls[c].pc = "lookup" /\ calls[c].file \in Files
      /\ calls[c].to = calls[c].file
  BY CallIsTyped DEF Lookup, At, CallShape, OpAt
<1>2. Around'
  BY KeptFacts DEF Lookup
<1>3. CASE Return(c)
  BY <1>2, <1>3, ReturnFacts, EndedKeepsType
<1>4. CASE Go(c, "download") /\ ~Cached(calls[c].file)
  <2>1. Became(c, "read", "download", calls[c].content)
    BY <1>1, <1>4, GoFacts DEF Stages
  <2>2. CallShape(calls'[c])
    BY <1>1, <2>1 DEF Became, CallShape, OpAt, Writing, Deleting, Saves
  <2>3. data[calls[c].file] = Absent
    BY <1>1, <1>4, FilesAssumption DEF Cached
  <2> QED
    BY <1>1, <1>2, <2>1, <2>2, <2>3, BecameKeepsType
<1> QED
  BY <1>3, <1>4 DEF Lookup

LEMMA DownloadFacts ==
    ASSUME TypeInv, NEW c \in Calls, Download(c), UNCHANGED cutShort
    PROVE  /\ TypeInv' /\ calls[c].op \in {"read", "pull"} /\ calls[c].pc = "download"
           /\ \/ Ended(c)
              \/ /\ remote[calls[c].file] # Absent
                 /\ Became(c, calls[c].op, IF calls[c].op = "read" THEN "begin" ELSE "exists",
                           remote[calls[c].file])
<1>1. calls[c].op \in {"read", "pull"} /\ calls[c].pc = "download" /\ calls[c].file \in Files
      /\ calls[c].to = calls[c].file
  BY CallIsTyped DEF Download, At, CallShape, OpAt
<1>2. Around'
  BY KeptFacts DEF Download, Kept
<1>3. CASE Return(c)
  BY <1>1, <1>2, <1>3, ReturnFacts, EndedKeepsType
<1>4. CASE /\ remote[calls[c].file] # Absent
           /\ Carry(c, IF calls[c].op = "read" THEN "begin" ELSE "exists",
                    remote[calls[c].file])
  <2>1. remote[calls[c].file] \in Text
    BY <1>1, AroundNow DEF Around
  <2>2. Became(c, calls[c].op, IF calls[c].op = "read" THEN "begin" ELSE "exists",
               remote[calls[c].file])
    BY <1>4, <2>1, CarryFacts DEF Stages
  <2>3. CallShape(calls'[c])
    BY <1>1, <1>4, <2>2 DEF Became, CallShape, OpAt, Writing, Deleting, Saves
  <2> QED
    BY <1>1, <1>2, <1>4, <2>2, <2>3, BecameKeepsType
<1> QED
  BY <1>3, <1>4 DEF Download

LEMMA BeginFacts ==
    ASSUME TypeInv, NEW c \in Calls, Begin(c), UNCHANGED cutShort
    PROVE  /\ TypeInv' /\ calls[c].pc = "begin"
           /\ \E pc \in {"list", "truncate"} : Became(c, calls[c].op, pc, calls[c].content)
<1>1. calls[c].pc = "begin" /\ CallShape(calls[c])
  BY CallIsTyped DEF Begin, At
<1>2. Around'
  BY KeptFacts DEF Begin
<1>3. PICK pc \in {"list", "truncate"} : Became(c, calls[c].op, pc, calls[c].content)
  <2>1. CASE Go(c, "truncate")
    BY <2>1, GoFacts DEF Stages
  <2>2. CASE calls' = [calls EXCEPT ![c].pc = "list", ![c].toFree = counter - MaxSize]
    <3> DEFINE k == [calls[c] EXCEPT !.pc = "list", !.toFree = counter - MaxSize]
    <3>1. counter - MaxSize \in Int
      BY AroundNow, SizesAreNat DEF Around, CacheInv, CacheTypeOK
    <3>2. k \in Call /\ k.pc = "list" /\ k.op = calls[c].op /\ k.file = calls[c].file
          /\ k.to = calls[c].to /\ k.content = calls[c].content
      BY <3>1, CallIsTyped DEF Call, Stages
    <3>3. calls' = [calls EXCEPT ![c] = k]
      BY <2>2, CallIsTyped
    <3> HIDE DEF k
    <3> QED
      BY <3>2, <3>3, CallIsTyped DEF Became
  <2> QED
    BY <2>1, <2>2 DEF Begin
<1>4. CallShape(calls'[c])
  BY <1>1, <1>3 DEF Became, CallShape, OpAt, Writing, Deleting, Saves
<1> QED
  BY <1>1, <1>2, <1>3, <1>4, BecameKeepsType

LEMMA ListFacts ==
    ASSUME TypeInv, NEW c \in Calls, List(c), UNCHANGED cutShort
    PROVE  /\ TypeInv' /\ calls[c].pc = "list"
           /\ Became(c, calls[c].op, "prune", calls[c].content)
           /\ calls'[c].plan = Listed
<1>1. calls[c].pc = "list" /\ CallShape(calls[c])
  BY CallIsTyped DEF List, At
<1>2. Around'
  BY KeptFacts DEF List
<1>3. Listed \in Seq([entry : Entries, size : Nat])
  BY ListedFacts, AroundNow DEF Around
<1> DEFINE k == [calls[c] EXCEPT !.pc = "prune", !.plan = Listed]
<1>4. k \in Call /\ k.pc = "prune" /\ k.op = calls[c].op /\ k.file = calls[c].file
      /\ k.to = calls[c].to /\ k.content = calls[c].content /\ k.plan = Listed
  BY <1>3, CallIsTyped DEF Call, Stages
<1>5. calls' = [calls EXCEPT ![c] = k]
  BY CallIsTyped DEF List
<1> HIDE DEF k
<1>6. Became(c, calls[c].op, "prune", calls[c].content) /\ calls'[c].plan = Listed
  BY <1>4, <1>5, CallIsTyped DEF Became
<1>7. CallShape(calls'[c])
  BY <1>1, <1>6 DEF Became, CallShape, OpAt, Writing, Deleting, Saves
<1> QED
  BY <1>1, <1>2, <1>6, <1>7, BecameKeepsType

\* A step of the plan removes the head of the list.
LEMMA PruneFacts ==
    ASSUME TypeInv, NEW c \in Calls, Prune(c), UNCHANGED cutShort
    PROVE  /\ TypeInv' /\ calls[c].pc = "prune"
           /\ \/ /\ Became(c, calls[c].op, "truncate", calls[c].content)
                 /\ UNCHANGED cacheVars
              \/ /\ Became(c, calls[c].op, "prune", calls[c].content)
                 /\ calls[c].plan # <<>> /\ calls'[c].plan = Tail(calls[c].plan)
                 /\ Head(calls[c].plan) \in [entry : Entries, size : Nat]
                 /\ Unlink(Head(calls[c].plan))
<1> DEFINE R == [entry : Entries, size : Nat]
<1>1. /\ calls[c].pc = "prune" /\ CallShape(calls[c]) /\ calls[c] \in Call
      /\ calls[c].plan \in Seq(R) /\ calls[c].toFree \in Int
  BY CallIsTyped DEF Prune, At, Call
<1>2. remote' \in [Files -> Text] /\ dirty' \in [Files -> BOOLEAN]
      /\ saved' \in [Files -> Contents \cup {Absent}] /\ cutShort' \in BOOLEAN
  BY AroundNow DEF Prune, Around
<1>3. CASE calls[c].toFree <= 0 \/ calls[c].plan = <<>>
  <2>1. UNCHANGED cacheVars
        /\ calls' = [calls EXCEPT ![c].pc = "truncate", ![c].plan = <<>>, ![c].toFree = 0]
    BY <1>3 DEF Prune
  <2>2. Around'
    BY <1>2, <2>1, AroundKept DEF Prune
  <2> HIDE DEF R
  <2>3. <<>> \in Seq(R)
    OBVIOUS
  <2>4. PICK none \in Seq(R) : none = <<>>
    BY <2>3
  <2>5. none \in Seq(R) /\ 0 \in Int /\ "truncate" \in Stages
    BY <2>4 DEF Stages
  <2> DEFINE k == [calls[c] EXCEPT !.pc = "truncate", !.plan = none, !.toFree = 0]
  <2>6. k \in [op : CallOps, file : Targets, to : Targets, content : Text, pc : Stages,
               plan : Seq(R), toFree : Int]
        /\ k.pc = "truncate" /\ k.op = calls[c].op /\ k.file = calls[c].file
        /\ k.to = calls[c].to /\ k.content = calls[c].content
    BY <1>1, <2>5 DEF Call, Text, R
  <2>7. calls' = [calls EXCEPT ![c] = k]
    BY <2>1, <2>4, CallIsTyped
  <2>8. k \in Call
    BY <2>6 DEF Call, Text, R
  <2>9. calls' \in [Calls -> Call] /\ calls'[c] = k
        /\ \A d \in Calls \ {c} : calls'[d] = calls[d]
    <3> HIDE DEF k
    <3> QED
      BY <2>7, <2>8, CallIsTyped
  <2>10. Became(c, calls[c].op, "truncate", calls[c].content)
    <3> HIDE DEF k
    <3> QED
      BY <2>6, <2>9 DEF Became
  <2>11. CallShape(calls'[c])
    BY <1>1, <2>10 DEF Became, CallShape, OpAt, Writing, Deleting, Saves
  <2> QED
    BY <1>1, <2>1, <2>2, <2>10, <2>11, BecameKeepsType
<1>4. CASE ~(calls[c].toFree <= 0 \/ calls[c].plan = <<>>)
  <2> DEFINE h == Head(calls[c].plan)
             left == IF h.entry \in ToSet(age) THEN calls[c].toFree - h.size
                     ELSE calls[c].toFree
  <2>1. /\ calls[c].plan # <<>> /\ Unlink(h)
        /\ calls' = [calls EXCEPT ![c].plan = Tail(@),
                        ![c].toFree = IF h.entry \in ToSet(age) THEN @ - h.size ELSE @]
    BY <1>4 DEF Prune
  <2> HIDE DEF R
  <2>2. h \in R /\ Tail(calls[c].plan) \in Seq(R)
    BY <1>1, <2>1, HeadTailProperties
  <2>3. CacheInv'
    BY <2>1, <2>2, UnlinkKeepsCache, AroundNow DEF R, Around
  <2>4. Around'
    BY <1>2, <2>3 DEF Around
  <2>5. left \in Int
    BY <1>1, <2>2 DEF R
  <2> DEFINE k == [calls[c] EXCEPT !.plan = Tail(calls[c].plan), !.toFree = left]
  <2>6. calls' = [calls EXCEPT ![c] = k]
    BY <2>1, CallIsTyped
  <2> HIDE DEF h, left
  <2>7. /\ k \in [op : CallOps, file : Targets, to : Targets, content : Text, pc : Stages,
                  plan : Seq(R), toFree : Int]
        /\ k.pc = "prune" /\ k.op = calls[c].op /\ k.file = calls[c].file
        /\ k.to = calls[c].to /\ k.content = calls[c].content
        /\ k.plan = Tail(calls[c].plan)
    BY <1>1, <2>2, <2>5 DEF Call, Text, R
  <2>8. k \in Call
    BY <2>7 DEF Call, Text, R
  <2> HIDE DEF k
  <2>9. calls' \in [Calls -> Call] /\ calls'[c] = k
        /\ \A d \in Calls \ {c} : calls'[d] = calls[d]
    BY <2>6, <2>8, CallIsTyped
  <2>10. Became(c, calls[c].op, "prune", calls[c].content)
    BY <2>7, <2>9 DEF Became
  <2>11. CallShape(calls'[c])
    BY <1>1, <2>10 DEF Became, CallShape, OpAt, Writing, Deleting, Saves
  <2> QED
    BY <1>1, <2>1, <2>2, <2>4, <2>7, <2>9, <2>10, <2>11, BecameKeepsType DEF h, R
<1> QED
  BY <1>3, <1>4

\* What is known of a call that writes to the cache.
LEMMA WritingFacts ==
    ASSUME TypeInv, NEW c \in Calls, calls[c].pc \in Writing
    PROVE  /\ Writes(calls[c]) \in Files /\ calls[c].file \in Files
           /\ calls[c].content \in Text \ {Absent}
           /\ calls[c].op \in {"read", "pull", "refresh", "rename"} \cup Saves
           /\ Writes(calls[c]) \in Concerns(calls[c])
           /\ calls[c].file \in Concerns(calls[c])
           /\ IF calls[c].op = "rename" THEN Writes(calls[c]) # calls[c].file
              ELSE Writes(calls[c]) = calls[c].file
           /\ calls[c].op \in Saves => calls[c].content \in Contents
<1>1. calls[c] \in Call /\ CallShape(calls[c])
  BY CallIsTyped
<1> QED
  BY <1>1, FilesAssumption DEF CallShape, OpAt, Writes, Concerns, Under, Saves, Call, Text,
     Targets

LEMMA OpenFacts ==
    ASSUME TypeInv, NEW c \in Calls, Open(c), UNCHANGED cutShort
    PROVE  /\ TypeInv' /\ calls[c].pc = "truncate"
           /\ Became(c, calls[c].op, "fill", calls[c].content)
<1>1. calls[c].pc = "truncate" /\ CallShape(calls[c])
  BY CallIsTyped DEF Open, At
<1>2. Writes(calls[c]) \in Files
  BY <1>1, WritingFacts DEF Writing
<1>3. CacheInv'
  BY <1>2, TruncateKeepsCache, AroundNow DEF Open, Around
<1>4. Around'
  BY <1>3, AroundNow DEF Open, Around
<1>5. Became(c, calls[c].op, "fill", calls[c].content)
  BY GoFacts DEF Open, Stages
<1>6. CallShape(calls'[c])
  BY <1>1, <1>5 DEF Became, CallShape, OpAt, Writing, Deleting, Saves
<1> QED
  BY <1>1, <1>4, <1>5, <1>6, BecameKeepsType

LEMMA WriteFacts ==
    ASSUME TypeInv, NEW c \in Calls, Write(c), UNCHANGED cutShort
    PROVE  /\ TypeInv' /\ calls[c].pc = "fill"
           /\ Became(c, calls[c].op, "digest", calls[c].content)
<1>1. calls[c].pc = "fill" /\ CallShape(calls[c])
  BY CallIsTyped DEF Write, At
<1>2. Writes(calls[c]) \in Files /\ calls[c].content \in Text \ {Absent}
  BY <1>1, WritingFacts DEF Writing
<1>3. CacheInv'
  BY <1>2, FillKeepsCache, AroundNow DEF Write, Around
<1>4. Around'
  BY <1>3, AroundNow DEF Write, Kept, Around
<1>5. Became(c, calls[c].op, "digest", calls[c].content)
  BY GoFacts DEF Write, Stages
<1>6. CallShape(calls'[c])
  BY <1>1, <1>5 DEF Became, CallShape, OpAt, Writing, Deleting, Saves
<1> QED
  BY <1>1, <1>4, <1>5, <1>6, BecameKeepsType

LEMMA ResumeShape ==
    ASSUME TypeInv, NEW c \in Calls, Resume(c), calls[c].op \in {"presavePull", "presavePush"},
           Around'
    PROVE  TypeInv'
<1>1. CallShape(calls[c])
  BY CallIsTyped
<1>2. CASE calls[c].op = "presavePull"
  <2>1. Became(c, "pull", "download", calls[c].content)
    BY <1>2, ResumeFacts
  <2>2. CallShape(calls'[c])
    BY <1>1, <1>2, <2>1 DEF Became, CallShape, OpAt, Writing, Deleting, Saves
  <2> QED
    BY <2>1, <2>2, BecameKeepsType
<1>3. CASE calls[c].op = "presavePush"
  <2>1. Became(c, "push", "exists", calls[c].content)
    BY <1>3, ResumeFacts
  <2>2. CallShape(calls'[c])
    BY <1>1, <1>3, <2>1 DEF Became, CallShape, OpAt, Writing, Deleting, Saves
  <2> QED
    BY <2>1, <2>2, BecameKeepsType
<1> QED
  BY <1>2, <1>3

LEMMA WriteFailsFacts ==
    ASSUME TypeInv, NEW c \in Calls, WriteFails(c)
    PROVE  /\ TypeInv' /\ calls[c].pc = "fill"
           /\ \/ Ended(c)
              \/ Became(c, "pull", "download", calls[c].content)
              \/ Became(c, "push", "exists", calls[c].content)
<1>1. calls[c].pc = "fill"
  BY DEF WriteFails, At
<1>2. calls[c].file \in Files
  BY <1>1, WritingFacts DEF Writing
<1>3. dirty' \in [Files -> BOOLEAN]
  BY <1>2, AroundNow DEF WriteFails, Around
<1>4. UNCHANGED <<remote, saved>> /\ UNCHANGED cacheVars /\ cutShort' = TRUE
  BY DEF WriteFails
<1>5. Around'
  BY <1>3, <1>4, AroundNow DEF Around, CacheInv, CacheTypeOK, cacheVars
<1>6. CASE Return(c)
  BY <1>1, <1>5, <1>6, ReturnFacts, EndedKeepsType
<1>7. CASE calls[c].op \in {"presavePull", "presavePush"} /\ Resume(c)
  BY <1>1, <1>5, <1>7, ResumeShape, ResumeFacts
<1> QED
  BY <1>6, <1>7 DEF WriteFails

LEMMA WrittenFacts ==
    ASSUME TypeInv, NEW c \in Calls, Written(c), UNCHANGED cutShort
    PROVE  /\ TypeInv' /\ calls[c].pc = "digest"
           /\ \/ Ended(c) /\ calls[c].op \in {"read", "save", "refresh", "pull"}
              \/ calls[c].op = "rename" /\ Became(c, "rename", "stat", calls[c].content)
              \/ calls[c].op = "presavePull" /\ Became(c, "pull", "download", calls[c].content)
              \/ calls[c].op = "presavePush" /\ Became(c, "push", "exists", calls[c].content)
              \/ calls[c].op = "pull" /\ Became(c, "refresh", "begin", calls[c].content)
<1>1. calls[c].pc = "digest" /\ CallShape(calls[c])
  BY CallIsTyped DEF Written, At
<1>2. /\ Writes(calls[c]) \in Files /\ calls[c].content \in Text \ {Absent}
      /\ calls[c].file \in Files
      /\ calls[c].op \in Saves => calls[c].content \in Contents
  BY <1>1, WritingFacts DEF Writing
<1>3. CacheInv'
  BY <1>2, WriteLocalHashKeepsCache, AroundNow DEF Written, Around
<1>4. saved' \in [Files -> Contents \cup {Absent}]
  <2>1. saved \in [Files -> Contents \cup {Absent}]
    BY AroundNow DEF Around
  <2> DEFINE w == Writes(calls[c])
             kept(text) == IF Cached(w) THEN text ELSE Absent
  <2>2. CASE calls[c].op \in Saves
    <3>1. saved' = [saved EXCEPT ![w] = kept(calls[c].content)]
      BY <2>2 DEF Written, Saves
    <3> QED
      BY <1>2, <2>1, <2>2, <3>1
  <2>3. CASE calls[c].op = "rename"
    <3>1. saved' = [saved EXCEPT ![w] = kept(saved[calls[c].file]),
                                 ![calls[c].file] = Absent]
      BY <2>3 DEF Written, Saves
    <3> QED
      BY <1>2, <2>1, <3>1
  <2>4. CASE calls[c].op \notin Saves \cup {"rename"}
    <3>1. saved' = saved
      BY <2>4 DEF Written, Saves
    <3> QED
      BY <2>1, <3>1
  <2> QED
    BY <2>2, <2>3, <2>4
<1>5. dirty' \in [Files -> BOOLEAN]
  BY <1>2, AroundNow DEF Written, Around
<1>6. Around'
  BY <1>3, <1>4, <1>5, AroundNow DEF Written, Around
<1>7. CASE calls[c].op \in {"read", "save", "refresh", "pull"} /\ Return(c)
  BY <1>1, <1>6, <1>7, ReturnFacts, EndedKeepsType
<1>8. CASE calls[c].op = "rename" /\ Go(c, "stat")
  <2>1. Became(c, "rename", "stat", calls[c].content)
    BY <1>8, GoFacts DEF Stages
  <2>2. CallShape(calls'[c])
    BY <1>1, <1>8, <2>1 DEF Became, CallShape, OpAt, Writing, Deleting, Saves
  <2> QED
    BY <1>1, <1>6, <1>8, <2>1, <2>2, BecameKeepsType
<1>9. CASE calls[c].op \in {"presavePull", "presavePush"} /\ Resume(c)
  BY <1>1, <1>6, <1>9, ResumeShape, ResumeFacts
<1>10. CASE /\ calls[c].op = "pull"
            /\ calls' = [calls EXCEPT ![c].op = "refresh", ![c].pc = "begin"]
  <2> DEFINE k == [calls[c] EXCEPT !.op = "refresh", !.pc = "begin"]
  <2>1. k \in Call /\ k.op = "refresh" /\ k.pc = "begin" /\ k.file = calls[c].file
        /\ k.to = calls[c].to /\ k.content = calls[c].content
    BY CallIsTyped DEF Call, Stages, CallOps
  <2>2. calls' = [calls EXCEPT ![c] = k]
    BY <1>10, CallIsTyped
  <2> HIDE DEF k
  <2>3. Became(c, "refresh", "begin", calls[c].content)
    BY <2>1, <2>2, CallIsTyped DEF Became
  <2>4. CallShape(calls'[c])
    BY <1>1, <1>10, <2>3 DEF Became, CallShape, OpAt, Writing, Deleting, Saves
  <2> QED
    BY <1>1, <1>6, <1>10, <2>3, <2>4, BecameKeepsType
<1> QED
  BY <1>7, <1>8, <1>9, <1>10 DEF Written

LEMMA ExistsFacts ==
    ASSUME TypeInv, NEW c \in Calls, Exists(c), UNCHANGED cutShort
    PROVE  /\ TypeInv' /\ calls[c].pc = "exists"
           /\ \/ Ended(c)
              \/ calls[c].op = "pull" /\ Became(c, "pull", "compare", calls[c].content)
              \/ /\ calls[c].op = "pull" /\ Became(c, "pull", "begin", calls[c].content)
                 /\ data[calls[c].file] = Absent
              \/ calls[c].op = "push" /\ Became(c, "push", "fetch", calls[c].content)
<1>1. /\ calls[c].pc = "exists" /\ CallShape(calls[c]) /\ calls[c].op \in {"pull", "push"}
      /\ calls[c].file \in Files
  BY CallIsTyped DEF Exists, At, CallShape, OpAt
<1>2. Around'
  BY KeptFacts DEF Exists
<1>3. Cached(calls[c].file) <=> data[calls[c].file] # Absent
  BY <1>1, FilesAssumption DEF Cached
<1>4. CASE calls[c].op = "pull"
  <2>1. PICK stage \in {"compare", "begin"} :
          Go(c, stage) /\ (stage = "begin" => data[calls[c].file] = Absent)
    BY <1>3, <1>4 DEF Exists
  <2>2. Became(c, "pull", stage, calls[c].content)
    BY <1>4, <2>1, GoFacts DEF Stages
  <2>3. CallShape(calls'[c])
    BY <1>1, <1>4, <2>2 DEF Became, CallShape, OpAt, Writing, Deleting, Saves
  <2> QED
    BY <1>1, <1>2, <1>4, <2>1, <2>2, <2>3, BecameKeepsType
<1>5. CASE calls[c].op = "push" /\ Go(c, "fetch")
  <2>1. Became(c, "push", "fetch", calls[c].content)
    BY <1>5, GoFacts DEF Stages
  <2>2. CallShape(calls'[c])
    BY <1>1, <1>5, <2>1 DEF Became, CallShape, OpAt, Writing, Deleting, Saves
  <2> QED
    BY <1>1, <1>2, <1>5, <2>1, <2>2, BecameKeepsType
<1>6. CASE Return(c)
  BY <1>1, <1>2, <1>6, ReturnFacts, EndedKeepsType
<1> QED
  BY <1>1, <1>4, <1>5, <1>6 DEF Exists

LEMMA CompareFacts ==
    ASSUME TypeInv, NEW c \in Calls, Compare(c), UNCHANGED cutShort
    PROVE  /\ TypeInv' /\ calls[c].pc = "compare" /\ calls[c].op = "pull"
           /\ \/ Ended(c) /\ UNCHANGED saved
              \/ /\ Became(c, "pull", "begin", calls[c].content)
                 /\ saved' = [saved EXCEPT ![calls[c].file] = Absent]
<1>1. /\ calls[c].pc = "compare" /\ CallShape(calls[c]) /\ calls[c].op = "pull"
      /\ calls[c].file \in Files
  BY CallIsTyped DEF Compare, At, CallShape, OpAt
<1>2. CASE Return(c) /\ UNCHANGED saved
  <2>1. Around'
    BY <1>2, KeptFacts DEF Compare, Kept
  <2> QED
    BY <1>1, <1>2, <2>1, ReturnFacts, EndedKeepsType
<1>3. CASE Go(c, "begin") /\ saved' = [saved EXCEPT ![calls[c].file] = Absent]
  <2>1. saved' \in [Files -> Contents \cup {Absent}] /\ UNCHANGED <<remote, dirty>>
        /\ UNCHANGED cacheVars
    BY <1>3, AroundNow DEF Compare, Around
  <2>2. Around'
    BY <2>1, AroundNow, AroundKept DEF Around
  <2>3. Became(c, "pull", "begin", calls[c].content)
    BY <1>1, <1>3, GoFacts DEF Stages
  <2>4. CallShape(calls'[c])
    BY <1>1, <2>3 DEF Became, CallShape, OpAt, Writing, Deleting, Saves
  <2> QED
    BY <1>1, <1>3, <2>2, <2>3, <2>4, BecameKeepsType
<1> QED
  BY <1>2, <1>3 DEF Compare

LEMMA FetchFacts ==
    ASSUME TypeInv, NEW c \in Calls, Fetch(c), UNCHANGED cutShort
    PROVE  /\ TypeInv' /\ calls[c].pc = "fetch"
           /\ Ended(c) \/ \E content \in Text : Became(c, "push", "upload", content)
<1>1. /\ calls[c].pc = "fetch" /\ CallShape(calls[c]) /\ calls[c].op = "push"
      /\ calls[c].file \in Files
  BY CallIsTyped DEF Fetch, At, CallShape, OpAt
<1>2. Around'
  BY KeptFacts DEF Fetch
<1>3. data[calls[c].file] \in Text
  BY <1>1, AroundNow DEF Around, CacheInv, CacheTypeOK, Text
<1>4. CASE Carry(c, "upload", data[calls[c].file])
  <2>1. Became(c, "push", "upload", data[calls[c].file])
    BY <1>1, <1>3, <1>4, CarryFacts DEF Stages
  <2>2. CallShape(calls'[c])
    BY <1>1, <2>1 DEF Became, CallShape, OpAt, Writing, Deleting, Saves
  <2> QED
    BY <1>1, <1>2, <1>3, <2>1, <2>2, BecameKeepsType
<1>5. CASE Return(c)
  BY <1>1, <1>2, <1>5, ReturnFacts, EndedKeepsType
<1> QED
  BY <1>4, <1>5 DEF Fetch

LEMMA UploadFacts ==
    ASSUME TypeInv, NEW c \in Calls, Upload(c), UNCHANGED cutShort
    PROVE  /\ TypeInv' /\ calls[c].pc = "upload" /\ Ended(c)
           /\ \A f \in Files : saved'[f] \in {saved[f], Absent}
<1>1. calls[c].pc = "upload" /\ calls[c] \in Call /\ calls[c].file \in Files
  BY CallIsTyped DEF Upload, At, CallShape, OpAt
<1>2. remote' \in [Files -> Text] /\ saved' \in [Files -> Contents \cup {Absent}]
      /\ \A f \in Files : saved'[f] \in {saved[f], Absent}
  BY <1>1, AroundNow DEF Upload, Around, Call, Text
<1>3. UNCHANGED dirty /\ UNCHANGED cacheVars
  BY DEF Upload
<1>4. Around'
  BY <1>2, <1>3, AroundNow, AroundKept DEF Around
<1> QED
  BY <1>1, <1>2, <1>4, ReturnFacts, EndedKeepsType DEF Upload

LEMMA DeleteRemoteFacts ==
    ASSUME TypeInv, NEW c \in Calls, DeleteRemote(c), UNCHANGED cutShort
    PROVE  /\ TypeInv' /\ calls[c].pc = "remove" /\ calls[c].op = "delete"
           /\ Ended(c) \/ Became(c, "delete", "stat", calls[c].content)
<1>1. calls[c].pc = "remove" /\ CallShape(calls[c]) /\ calls[c].op = "delete"
  BY CallIsTyped DEF DeleteRemote, At, CallShape, OpAt
<1>2. remote' \in [Files -> Text] /\ UNCHANGED <<dirty, saved>> /\ UNCHANGED cacheVars
  BY AroundNow DEF DeleteRemote, Around, Text
<1>3. Around'
  BY <1>2, AroundNow, AroundKept DEF Around
<1>4. CASE Return(c)
  BY <1>1, <1>3, <1>4, ReturnFacts, EndedKeepsType
<1>5. CASE Go(c, "stat")
  <2>1. Became(c, "delete", "stat", calls[c].content)
    BY <1>1, <1>5, GoFacts DEF Stages
  <2>2. CallShape(calls'[c])
    BY <1>1, <2>1 DEF Became, CallShape, OpAt, Writing, Deleting, Saves
  <2> QED
    BY <1>1, <1>3, <2>1, <2>2, BecameKeepsType
<1> QED
  BY <1>4, <1>5 DEF DeleteRemote

LEMMA StatFacts ==
    ASSUME TypeInv, NEW c \in Calls, Stat(c), UNCHANGED cutShort
    PROVE  /\ TypeInv' /\ calls[c].pc = "stat"
           /\ Became(c, calls[c].op, "unlink", calls[c].content)
<1>1. calls[c].pc = "stat" /\ CallShape(calls[c])
  BY CallIsTyped DEF Stat, At
<1>2. CacheInv'
  BY StatForDeleteKeepsCache, AroundNow DEF Stat, Around
<1>3. Around'
  BY <1>2, AroundNow DEF Stat, Kept, Around
<1>4. Became(c, calls[c].op, "unlink", calls[c].content)
  BY GoFacts DEF Stat, Stages
<1>5. CallShape(calls'[c])
  BY <1>1, <1>4 DEF Became, CallShape, OpAt, Writing, Deleting, Saves
<1> QED
  BY <1>1, <1>3, <1>4, <1>5, BecameKeepsType

LEMMA UnlinkCachedFacts ==
    ASSUME TypeInv, NEW c \in Calls, UnlinkCached(c), UNCHANGED cutShort
    PROVE  /\ TypeInv' /\ calls[c].pc = "unlink" /\ calls[c].op \in {"delete", "rename"}
           /\ \/ Ended(c) /\ UNCHANGED cacheVars
              \/ /\ calls[c].file \in Files /\ UnlinkData(calls[c].file)
                 /\ Became(c, calls[c].op, "unlinkSidecar", calls[c].content)
<1>1. /\ calls[c].pc = "unlink" /\ CallShape(calls[c]) /\ calls[c] \in Call
      /\ calls[c].op \in {"delete", "rename"}
  BY CallIsTyped DEF UnlinkCached, At, CallShape, OpAt, Deleting
<1>2. CASE calls[c].file # Dir /\ UnlinkData(calls[c].file) /\ Go(c, "unlinkSidecar")
  <2>1. calls[c].file \in Files
    BY <1>1, <1>2 DEF Call, Targets
  <2>2. CacheInv'
    BY <1>2, <2>1, UnlinkDataKeepsCache, AroundNow DEF Around
  <2>3. Around'
    BY <2>2, AroundNow DEF UnlinkCached, Kept, Around
  <2>4. Became(c, calls[c].op, "unlinkSidecar", calls[c].content)
    BY <1>2, GoFacts DEF Stages
  <2>5. CallShape(calls'[c])
    BY <1>1, <1>2, <2>1, <2>4 DEF Became, CallShape, OpAt, Writing, Deleting, Saves
  <2> QED
    BY <1>1, <1>2, <2>1, <2>3, <2>4, <2>5, BecameKeepsType
<1>3. CASE UNCHANGED cacheVars /\ Return(c)
  <2>1. Around'
    BY <1>3, KeptFacts DEF UnlinkCached
  <2> QED
    BY <1>1, <1>3, <2>1, ReturnFacts, EndedKeepsType
<1> QED
  BY <1>2, <1>3 DEF UnlinkCached

LEMMA UnlinkDigestFacts ==
    ASSUME TypeInv, NEW c \in Calls, UnlinkDigest(c), UNCHANGED cutShort
    PROVE  /\ TypeInv' /\ calls[c].pc = "unlinkSidecar" /\ Ended(c)
           /\ calls[c].file \in Files
<1>1. calls[c].pc = "unlinkSidecar" /\ calls[c].file \in Files
  BY CallIsTyped DEF UnlinkDigest, At, CallShape
<1>2. CacheInv'
  BY <1>1, UnlinkDataKeepsCache, AroundNow DEF UnlinkDigest, Around
<1>3. Around'
  BY <1>2, AroundNow DEF UnlinkDigest, Kept, Around
<1> QED
  BY <1>1, <1>3, ReturnFacts, EndedKeepsType DEF UnlinkDigest

LEMMA MoveFacts ==
    ASSUME TypeInv, NEW c \in Calls, Move(c), UNCHANGED cutShort
    PROVE  /\ TypeInv' /\ calls[c].pc = "move" /\ calls[c].op = "rename"
           /\ Ended(c) \/ Became(c, "rename", "probe", calls[c].content)
<1>1. /\ calls[c].pc = "move" /\ CallShape(calls[c]) /\ calls[c].op = "rename"
      /\ calls[c].file # Dir => calls[c].file \in Files /\ calls[c].to \in Files
  BY CallIsTyped DEF Move, At, CallShape, OpAt
<1>2. remote' \in [Files -> Text]
  BY <1>1, AroundNow DEF Move, Around, Text
<1>3. UNCHANGED <<dirty, saved>> /\ UNCHANGED cacheVars
  BY DEF Move
<1>4. Around'
  BY <1>2, <1>3, AroundNow, AroundKept DEF Around
<1>5. CASE Return(c)
  BY <1>1, <1>4, <1>5, ReturnFacts, EndedKeepsType
<1>6. CASE Go(c, "probe")
  <2>1. Became(c, "rename", "probe", calls[c].content)
    BY <1>1, <1>6, GoFacts DEF Stages
  <2>2. CallShape(calls'[c])
    BY <1>1, <2>1 DEF Became, CallShape, OpAt, Writing, Deleting, Saves
  <2> QED
    BY <1>1, <1>4, <2>1, <2>2, BecameKeepsType
<1> QED
  BY <1>5, <1>6 DEF Move

LEMMA ProbeFacts ==
    ASSUME TypeInv, NEW c \in Calls, Probe(c), UNCHANGED cutShort
    PROVE  /\ TypeInv' /\ calls[c].pc = "probe" /\ calls[c].op = "rename"
           /\ Ended(c) \/ Became(c, "rename", "copy", calls[c].content)
<1>1. calls[c].pc = "probe" /\ CallShape(calls[c]) /\ calls[c].op = "rename"
  BY CallIsTyped DEF Probe, At, CallShape, OpAt
<1>2. Around'
  BY KeptFacts DEF Probe
<1>3. CASE Return(c)
  BY <1>1, <1>2, <1>3, ReturnFacts, EndedKeepsType
<1>4. CASE Go(c, "copy")
  <2>1. Became(c, "rename", "copy", calls[c].content)
    BY <1>1, <1>4, GoFacts DEF Stages
  <2>2. CallShape(calls'[c])
    BY <1>1, <2>1 DEF Became, CallShape, OpAt, Writing, Deleting, Saves
  <2> QED
    BY <1>1, <1>2, <2>1, <2>2, BecameKeepsType
<1> QED
  BY <1>3, <1>4 DEF Probe

LEMMA CopyFacts ==
    ASSUME TypeInv, NEW c \in Calls, Copy(c), UNCHANGED cutShort
    PROVE  /\ TypeInv' /\ calls[c].pc = "copy" /\ calls[c].op = "rename"
           /\ \/ Ended(c)
              \/ /\ calls[c].file \in Files /\ data[calls[c].file] # Absent
                 /\ Became(c, "rename", "begin", data[calls[c].file])
<1>1. /\ calls[c].pc = "copy" /\ CallShape(calls[c]) /\ calls[c].op = "rename"
      /\ calls[c] \in Call
  BY CallIsTyped DEF Copy, At, CallShape, OpAt
<1>2. Around'
  BY KeptFacts DEF Copy
<1>3. CASE Return(c)
  BY <1>1, <1>2, <1>3, ReturnFacts, EndedKeepsType
<1>4. CASE /\ calls[c].file # Dir /\ Cached(calls[c].file)
           /\ Carry(c, "begin", data[calls[c].file])
  <2>1. /\ calls[c].file \in Files /\ data[calls[c].file] # Absent
        /\ data[calls[c].file] \in Text
    BY <1>1, <1>4, AroundNow DEF Call, Targets, Cached, Around, CacheInv, CacheTypeOK, Text
  <2>2. Became(c, "rename", "begin", data[calls[c].file])
    BY <1>1, <1>4, <2>1, CarryFacts DEF Stages
  <2>3. CallShape(calls'[c])
    BY <1>1, <1>4, <2>1, <2>2 DEF Became, CallShape, OpAt, Writing, Deleting, Saves
  <2> QED
    BY <1>1, <1>2, <2>1, <2>2, <2>3, BecameKeepsType
<1> QED
  BY <1>3, <1>4 DEF Copy

\* Every step of the users, the calls and the others, whatever overlaps.
LEMMA OthersFacts ==
    ASSUME TypeInv, NEW f \in Files, UNCHANGED cutShort,
           Type(f) \/ \E content \in Contents : OtherWrites(f, content)
    PROVE  /\ TypeInv'
           /\ UNCHANGED <<data, sidecar, calls, saved, age>>
<1>1. remote' \in [Files -> Text] /\ dirty' \in [Files -> BOOLEAN]
      /\ UNCHANGED <<data, sidecar, made, age, counter, calls, saved>>
  BY AroundNow DEF Type, OtherWrites, Around, Text
<1> QED
  BY <1>1 DEF TypeInv, TypeOK, CacheTypeOK, Text

LEMMA RestartFacts ==
    ASSUME TypeInv, Restart
    PROVE  TypeInv' /\ UNCHANGED <<data, sidecar, age, saved>> /\ calls' = [c \in Calls |-> Idle]
<1>1. /\ UNCHANGED <<data, sidecar, made, age, remote, saved>> /\ counter' = 0
      /\ calls' = [c \in Calls |-> Idle] /\ dirty' = [f \in Files |-> FALSE]
      /\ cutShort' \in BOOLEAN
  BY AroundNow DEF Restart, CacheRestart, Around
<1> QED
  BY <1>1, IdleFacts DEF TypeInv, TypeOK, CacheTypeOK

LEMMA StartKeepsType ==
    ASSUME TypeInv, NEW c \in Calls, Start(c), UNCHANGED cutShort
    PROVE  TypeInv'
<1>1. ASSUME NEW f \in Files, Read(c, f) \/ SyncCurrentFile(c, f) \/ UploadCurrentFile(c, f)
      PROVE  TypeInv'
  BY <1>1, ReadFacts, SyncFacts
<1>2. ASSUME NEW f \in Files, NEW text \in Contents, Save(c, f, text)
      PROVE  TypeInv'
  BY <1>2, SaveFacts
<1>3. ASSUME NEW f \in Files, NEW to \in Files, Rename(c, f, to)
      PROVE  TypeInv'
  <2>1. /\ f \in Targets /\ to \in Targets
        /\ f \in Files /\ to \in Files
    BY DEF Targets
  <2>2. Rename(c, f, to)
    BY <1>3
  <2> QED
    BY <2>1, <2>2, RenameFacts
<1>4. ASSUME NEW target \in Targets, Delete(c, target)
      PROVE  TypeInv'
  BY <1>4, DeleteFacts
<1>5. CASE Rename(c, Dir, Dir)
  <2>1. Dir \in Targets
    BY DEF Targets
  <2> QED
    BY <1>5, <2>1, RenameFacts
<1> QED
  BY <1>1, <1>2, <1>3, <1>4, <1>5 DEF Start

LEMMA StepKeepsType ==
    ASSUME TypeInv, NEW c \in Calls, Step(c), UNCHANGED cutShort
    PROVE  TypeInv'
  BY LookupFacts, DownloadFacts, BeginFacts, ListFacts, PruneFacts, OpenFacts, WriteFacts,
     WrittenFacts, ExistsFacts, CompareFacts, FetchFacts, UploadFacts, DeleteRemoteFacts,
     StatFacts, UnlinkCachedFacts, UnlinkDigestFacts, MoveFacts, ProbeFacts, CopyFacts
  DEF Step

LEMMA InitType == Init => TypeInv
<1> SUFFICES ASSUME Init
             PROVE  TypeInv
  OBVIOUS
<1>1. CacheInv
  BY CacheInitFacts DEF Init
<1>2. /\ remote \in [Files -> Text] /\ dirty = [f \in Files |-> FALSE]
      /\ calls = [c \in Calls |-> Idle] /\ saved = [f \in Files |-> Absent]
      /\ cutShort = FALSE
  BY DEF Init, Text
<1>3. calls \in [Calls -> Call] /\ \A c \in Calls : CallShape(calls[c])
  BY <1>2, IdleFacts
<1>4. Around
  BY <1>1, <1>2 DEF Around
<1> QED
  BY <1>3, <1>4, TypeInvParts

LEMMA NextKeepsType ==
    ASSUME TypeInv, [Next]_vars
    PROVE  TypeInv'
<1>1. CASE UNCHANGED vars
  BY <1>1 DEF vars, TypeInv, TypeOK, CacheTypeOK
<1>2. CASE Next
  BY <1>2, StartKeepsType, StepKeepsType, OthersFacts, WriteFailsFacts, RestartFacts DEF Next
<1> QED
  BY <1>1, <1>2

\* Every variable of the cache and of the calls keeps its shape, however many calls
\* run and whatever they concern; in particular the files listed by modification time
\* are those that are there, and the counter of currentCacheSize is never negative.
THEOREM CacheIsTyped == Spec => []TypeOK
<1>1. TypeInv /\ [Next]_vars => TypeInv'
  BY NextKeepsType
<1>2. TypeInv => TypeOK
  BY DEF TypeInv
<1> QED
  BY <1>1, <1>2, InitType, PTL DEF Spec
-----------------------------------------------------------------------------
(* What the user has saved, and the digests                                *)

\* Up to a return, only the stage of a call counts.
Others(c) == \A d \in Calls \ {c} : calls'[d] = calls[d]

LEMMA ConcernsFiles ==
    ASSUME TypeInv, NEW c \in Calls
    PROVE  Concerns(calls[c]) \subseteq Files
  BY CallIsTyped, FilesAssumption DEF Concerns, Under, Call, Targets

\* A call does not notice that other files lose what was saved, or are pruned.
LEMMA GivenUpFrame ==
    ASSUME TypeInv, NEW d \in Calls, GivenUp(calls[d]), calls'[d] = calls[d],
           \A f \in Concerns(calls[d]) :
              saved'[f] \in {saved[f], Absent} /\ data'[f] \in {data[f], Absent}
    PROVE  GivenUp(calls[d])'
<1>1. CallShape(calls[d]) /\ calls[d] \in Call
  BY CallIsTyped
<1>2. calls[d].file \in Files => calls[d].file \in Concerns(calls[d])
  BY FilesAssumption DEF Concerns, Under
<1>3. Under(calls[d].file) \subseteq Concerns(calls[d])
  BY DEF Concerns
<1>4. calls[d].pc \in Writing => Writes(calls[d]) \in Concerns(calls[d])
                                 /\ calls[d].file \in Files
  BY WritingFacts
<1>5. calls[d].op = "read" => calls[d].file \in Files
  BY <1>1 DEF CallShape
<1>6. calls[d].op = "rename" /\ calls[d].pc \in Deleting => calls[d].file \in Files
  BY <1>1 DEF CallShape, Call, Targets
<1>7. calls[d].op = "read" /\ calls[d].pc # "lookup" => saved'[calls[d].file] = Absent
  BY <1>2, <1>5 DEF GivenUp
<1>8. calls[d].op \in {"pull", "refresh"} /\ calls[d].pc \in Writing =>
        saved'[calls[d].file] = Absent
  BY <1>2, <1>4 DEF GivenUp
<1>9. calls[d].pc \in {"fill", "digest"} => saved'[Writes(calls[d])] = Absent
  BY <1>4 DEF GivenUp, Writing
<1>10. calls[d].pc = "digest" => data'[Writes(calls[d])] \in {calls[d].content, Absent}
  BY <1>4 DEF GivenUp, Writing
<1>11. calls[d].op = "rename" /\ calls[d].pc \in Writing =>
         saved'[calls[d].file] \in {calls[d].content, Absent}
  BY <1>2, <1>4 DEF GivenUp
<1>12. calls[d].op = "rename" /\ calls[d].pc \in Deleting => saved'[calls[d].file] = Absent
  BY <1>2, <1>6 DEF GivenUp
<1>13. calls[d].op = "delete" => \A f \in Under(calls[d].file) : saved'[f] = Absent
  BY <1>3 DEF GivenUp
<1> QED
  BY <1>7, <1>8, <1>9, <1>10, <1>11, <1>12, <1>13 DEF GivenUp

\* What a step has to see to: its own call, and the files F it has to itself.
LEMMA FilesStep ==
    ASSUME TypeInv, FilesInv, NEW c \in Calls, NEW F \in SUBSET Files, Others(c), Disjoint',
           \A d \in Running \ {c} : Concerns(calls[d]) \cap F = {},
           \A f \in Files \ F :
              data'[f] \in {data[f], Absent} /\ saved'[f] \in {saved[f], Absent},
           GivenUp(calls[c])', SavedIsKept', MatchInv'
    PROVE  FilesInv'
<1> SUFFICES ASSUME NEW d \in Calls
             PROVE  GivenUp(calls[d])'
  BY DEF FilesInv, CallsInv
<1>1. CASE d = c
  BY <1>1
<1>2. CASE d # c
  <2>1. calls'[d] = calls[d] /\ GivenUp(calls[d])
    BY <1>2 DEF Others, FilesInv, CallsInv
  <2>2. CASE calls[d].pc = "idle"
    <3>1. calls'[d].pc = "idle" /\ calls'[d].op = "none"
      BY <2>1, <2>2, CallIsTyped, IdleFacts DEF CallShape, OpAt
    <3> QED
      BY <3>1 DEF GivenUp, Writing, Deleting
  <2>3. CASE calls[d].pc # "idle"
    <3>1. Concerns(calls[d]) \subseteq Files \ F
      BY <1>2, <2>3, ConcernsFiles DEF Running
    <3> QED
      BY <2>1, <3>1, GivenUpFrame
  <2> QED
    BY <2>2, <2>3
<1> QED
  BY <1>1, <1>2

\* The digests, but for the files G, of which the step takes care.
LEMMA MatchFrame ==
    ASSUME TypeInv, MatchInv, UNCHANGED cutShort, NEW c \in Calls, Others(c),
           NEW G \in SUBSET Files,
           calls[c].pc \in {"fill", "digest"} => Writes(calls[c]) \in G,
           \A f \in G : Matches(f)' \/ BeingWritten(f)',
           \A f \in Files \ G :
              data'[f] \in {data[f], Absent} /\ sidecar'[f] \in {sidecar[f], Absent}
    PROVE  MatchInv'
<1> SUFFICES ASSUME ~cutShort', NEW f \in Files \ G
             PROVE  Matches(f)' \/ BeingWritten(f)'
  BY DEF MatchInv
<1>1. Matches(f) \/ BeingWritten(f)
  BY DEF MatchInv
<1>2. CASE Matches(f)
  BY <1>2 DEF Matches
<1>3. CASE BeingWritten(f)
  <2>1. PICK d \in Calls : calls[d].pc \in {"fill", "digest"} /\ f = Writes(calls[d])
    BY <1>3 DEF BeingWritten
  <2>2. d # c
    BY <2>1
  <2>3. calls'[d] = calls[d]
    BY <2>2 DEF Others
  <2> QED
    BY <2>1, <2>3 DEF BeingWritten
<1> QED
  BY <1>1, <1>2, <1>3

LEMMA DisjointStep ==
    ASSUME TypeInv, Disjoint, NEW c \in Calls, NEW op, NEW pc, NEW content,
           \/ Ended(c)
           \/ Became(c, op, pc, content) /\ calls[c].pc # "idle"
    PROVE  Disjoint'
<1> SUFFICES ASSUME NEW a \in Running', NEW b \in Running', a # b
             PROVE  Concerns(calls'[a]) \cap Concerns(calls'[b]) = {}
  BY DEF Disjoint
<1>1. ASSUME NEW d \in Running'
      PROVE  d \in Running /\ Concerns(calls'[d]) = Concerns(calls[d])
  <2>1. d \in Calls /\ calls'[d].pc # "idle"
    BY DEF Running
  <2>2. CASE d # c
    BY <2>1, <2>2 DEF Running, Ended, Became
  <2>3. CASE d = c
    <3>1. Became(c, op, pc, content) /\ calls[c].pc # "idle"
      BY <2>1, <2>3, IdleFacts DEF Ended
    <3> QED
      BY <2>1, <2>3, <3>1 DEF Running, Became, Concerns
  <2> QED
    BY <2>2, <2>3
<1> QED
  BY <1>1 DEF Disjoint

LEMMA EndedFacts ==
    ASSUME NEW c \in Calls, Ended(c)
    PROVE  Others(c) /\ GivenUp(calls[c])'
<1>1. calls'[c].pc = "idle" /\ calls'[c].op = "none"
  BY IdleFacts DEF Ended
<1> QED
  BY <1>1 DEF Others, Ended, GivenUp, Writing, Deleting

\* A step that leaves the files in the cache alone.
LEMMA QuietStep ==
    ASSUME TypeInv, FilesInv, NEW c \in Calls, Others(c), Disjoint',
           calls[c].pc \notin {"fill", "digest"},
           UNCHANGED <<data, sidecar, cutShort>>,
           \A f \in Files : saved'[f] \in {saved[f], Absent},
           GivenUp(calls[c])'
    PROVE  FilesInv'
<1>1. SavedIsKept'
  BY DEF FilesInv, SavedIsKept
<1>2. MatchInv'
  <2>1. {} \in SUBSET Files
    OBVIOUS
  <2>2. MatchInv
    BY DEF FilesInv
  <2> QED
    BY <2>1, <2>2, MatchFrame
<1>3. {} \in SUBSET Files
  OBVIOUS
<1> QED
  BY <1>1, <1>2, <1>3, FilesStep

LEMMA QuietEnd ==
    ASSUME TypeInv, FilesInv, NEW c \in Calls, Ended(c),
           calls[c].pc \notin {"fill", "digest"},
           UNCHANGED <<data, sidecar, cutShort>>,
           \A f \in Files : saved'[f] \in {saved[f], Absent}
    PROVE  FilesInv'
<1>1. Disjoint'
  BY DisjointStep DEF FilesInv
<1> QED
  BY <1>1, EndedFacts, QuietStep

LEMMA QuietGo ==
    ASSUME TypeInv, FilesInv, NEW c \in Calls, NEW op, NEW pc, NEW content,
           Became(c, op, pc, content),
           calls[c].pc \notin {"idle", "fill", "digest"},
           UNCHANGED <<data, sidecar, cutShort>>,
           \A f \in Files : saved'[f] \in {saved[f], Absent},
           GivenUp(calls[c])'
    PROVE  FilesInv'
<1>1. Disjoint'
  BY DisjointStep DEF FilesInv
<1>2. Others(c)
  BY DEF Became, Others
<1> QED
  BY <1>1, <1>2, QuietStep

\* A call begins with files no other call concerns.
LEMMA QuietBegin ==
    ASSUME TypeInv, FilesInv, ~Overlap, NEW c \in Calls, NEW op, NEW file, NEW to,
           NEW content, NEW stage,
           Started(c, op, file, to, content, stage),
           Begun(c, op, file, to, content, stage),
           UNCHANGED cutShort,
           \A f \in Files : saved'[f] \in {saved[f], Absent},
           GivenUp(calls[c])'
    PROVE  FilesInv'
<1>1. UNCHANGED <<data, sidecar>> /\ calls[c].pc = "idle" /\ Others(c)
  BY IdleFacts DEF Started, cacheVars, Others
<1>2. Concerns(calls'[c]) = Under(file) \cup Under(to)
  BY DEF Begun, Concerns
<1>3. \A d \in Running : Concerns(calls[d]) \cap (Under(file) \cup Under(to)) = {}
  BY DEF Started, Concerns, Idle
<1>4. Disjoint'
  <2> SUFFICES ASSUME NEW a \in Running', NEW b \in Running', a # b
               PROVE  Concerns(calls'[a]) \cap Concerns(calls'[b]) = {}
    BY DEF Disjoint
  <2>1. \A d \in Running' : d = c \/ (d \in Running /\ calls'[d] = calls[d])
    BY <1>1 DEF Running, Others
  <2> QED
    BY <1>2, <1>3, <2>1 DEF FilesInv, Disjoint
<1> QED
  BY <1>1, <1>4, QuietStep

LEMMA StartKeepsFiles ==
    ASSUME TypeInv, FilesInv, ~Overlap, NEW c \in Calls, Start(c), UNCHANGED cutShort
    PROVE  FilesInv'
<1>0. saved \in [Files -> Contents \cup {Absent}]
  BY AroundNow DEF Around
<1>1. ASSUME NEW f \in Files, Read(c, f)
      PROVE  FilesInv'
  <2>1. Begun(c, "read", f, f, Absent, "lookup")
    BY <1>1, ReadFacts
  <2>2. Started(c, "read", f, f, Absent, "lookup") /\ UNCHANGED saved
    BY <1>1 DEF Read, Kept
  <2>3. GivenUp(calls[c])'
    BY <2>1 DEF Begun, GivenUp, Writing, Deleting
  <2> QED
    BY <2>1, <2>2, <2>3, QuietBegin
<1>2. ASSUME NEW f \in Files, SyncCurrentFile(c, f) \/ UploadCurrentFile(c, f)
      PROVE  FilesInv'
  <2>1. PICK op \in {"pull", "push"} :
          Sync(c, f, op, IF op = "pull" THEN "download" ELSE "exists")
    BY <1>2 DEF SyncCurrentFile, UploadCurrentFile
  <2>2. UNCHANGED saved
    BY <2>1 DEF Sync
  <2>3. CASE Started(c, op, f, f, Absent, IF op = "pull" THEN "download" ELSE "exists")
    <3> DEFINE stage == IF op = "pull" THEN "download" ELSE "exists"
    <3>1. Begun(c, op, f, f, Absent, stage)
      BY <2>3, StartedFacts DEF CallOps, Targets, Stages, Text
    <3>2. GivenUp(calls[c])'
      BY <2>1, <3>1 DEF Begun, GivenUp, Writing, Deleting
    <3> QED
      BY <2>2, <2>3, <3>1, <3>2, QuietBegin
  <2>4. ASSUME NEW text \in Contents,
               Started(c, IF op = "pull" THEN "presavePull" ELSE "presavePush",
                       f, f, text, "begin")
        PROVE  FilesInv'
    <3> DEFINE save == IF op = "pull" THEN "presavePull" ELSE "presavePush"
    <3>1. Begun(c, save, f, f, text, "begin")
      BY <2>4, StartedFacts DEF CallOps, Targets, Stages, Text
    <3>2. GivenUp(calls[c])'
      BY <2>1, <3>1 DEF Begun, GivenUp, Writing, Deleting
    <3> QED
      BY <2>2, <2>4, <3>1, <3>2, QuietBegin
  <2> QED
    BY <2>1, <2>3, <2>4 DEF Sync
<1>3. ASSUME NEW f \in Files, NEW text \in Contents, Save(c, f, text)
      PROVE  FilesInv'
  <2>1. Begun(c, "save", f, f, text, "begin")
    BY <1>3, SaveFacts
  <2>2. Started(c, "save", f, f, text, "begin") /\ UNCHANGED saved
    BY <1>3 DEF Save
  <2>3. GivenUp(calls[c])'
    BY <2>1 DEF Begun, GivenUp, Writing, Deleting
  <2> QED
    BY <2>1, <2>2, <2>3, QuietBegin
<1>4. ASSUME NEW f \in Targets, NEW to \in Targets, Rename(c, f, to),
             (f \in Files /\ to \in Files) \/ (f = Dir /\ to = Dir)
      PROVE  FilesInv'
  <2>1. Begun(c, "rename", f, to, Absent, "move")
    BY <1>4, RenameFacts
  <2>2. Started(c, "rename", f, to, Absent, "move")
    BY <1>4 DEF Rename
  <2>3. \A g \in Files : saved'[g] \in {saved[g], Absent}
    BY <1>4 DEF Rename
  <2>4. GivenUp(calls[c])'
    BY <2>1 DEF Begun, GivenUp, Writing, Deleting
  <2> QED
    BY <2>1, <2>2, <2>3, <2>4, QuietBegin
<1>5. ASSUME NEW target \in Targets, Delete(c, target)
      PROVE  FilesInv'
  <2>1. Begun(c, "delete", target, target, Absent, "remove")
    BY <1>5, DeleteFacts
  <2>2. Started(c, "delete", target, target, Absent, "remove")
    BY <1>5 DEF Delete
  <2>3. saved' = [f \in Files |-> IF f \in Under(target) THEN Absent ELSE saved[f]]
    BY <1>5 DEF Delete
  <2>4. Under(target) \subseteq Files
    BY FilesAssumption DEF Under, Targets
  <2>5. GivenUp(calls[c])'
    BY <2>1, <2>3, <2>4 DEF Begun, GivenUp, Writing, Deleting, Under
  <2>6. \A f \in Files : saved'[f] \in {saved[f], Absent}
    BY <2>3
  <2> QED
    BY <2>1, <2>2, <2>5, <2>6, QuietBegin
<1>6. Files \subseteq Targets /\ Dir \in Targets
  BY DEF Targets
<1>7. ASSUME NEW f \in Files, NEW to \in Files, Rename(c, f, to)
      PROVE  FilesInv'
  BY <1>4, <1>6, <1>7
<1>8. CASE Rename(c, Dir, Dir)
  BY <1>4, <1>6, <1>8
<1> QED
  BY <1>1, <1>2, <1>3, <1>5, <1>7, <1>8 DEF Start

LEMMA LookupKeepsFiles ==
    ASSUME TypeInv, FilesInv, NEW c \in Calls, Lookup(c), UNCHANGED cutShort
    PROVE  FilesInv'
<1>1. UNCHANGED <<data, sidecar, saved>> /\ calls[c].pc = "lookup"
  BY DEF Lookup, Kept, cacheVars, At
<1>2. CASE Ended(c)
  BY <1>1, <1>2, QuietEnd
<1>3. CASE /\ Became(c, "read", "download", calls[c].content)
           /\ calls[c].file \in Files /\ data[calls[c].file] = Absent
  <2>1. saved[calls[c].file] = Absent
    BY <1>3 DEF FilesInv, SavedIsKept
  <2>2. GivenUp(calls[c])'
    BY <1>1, <1>3, <2>1 DEF Became, GivenUp, Writing, Deleting
  <2> QED
    BY <1>1, <1>3, <2>2, QuietGo
<1> QED
  BY <1>2, <1>3, LookupFacts

LEMMA DownloadKeepsFiles ==
    ASSUME TypeInv, FilesInv, NEW c \in Calls, Download(c), UNCHANGED cutShort
    PROVE  FilesInv'
<1>1. /\ UNCHANGED <<data, sidecar, saved>> /\ calls[c].pc = "download"
      /\ calls[c].op \in {"read", "pull"}
  BY DownloadFacts DEF Download, cacheVars
<1>2. CASE Ended(c)
  BY <1>1, <1>2, QuietEnd
<1>3. ASSUME Became(c, calls[c].op, IF calls[c].op = "read" THEN "begin" ELSE "exists",
                    remote[calls[c].file])
      PROVE  FilesInv'
  <2>1. GivenUp(calls[c])
    BY DEF FilesInv, CallsInv
  <2>2. GivenUp(calls[c])'
    BY <1>1, <1>3, <2>1 DEF Became, GivenUp, Writing, Deleting
  <2> QED
    BY <1>1, <1>3, <2>2, QuietGo
<1> QED
  BY <1>2, <1>3, DownloadFacts

\* The steps of writeCache() before it opens the file.
LEMMA PreparingIsQuiet ==
    ASSUME TypeInv, FilesInv, NEW c \in Calls, NEW pc \in {"list", "prune", "truncate"},
           Became(c, calls[c].op, pc, calls[c].content),
           calls[c].pc \in {"begin", "list", "prune"},
           UNCHANGED <<data, sidecar, saved, cutShort>>
    PROVE  FilesInv'
<1>1. GivenUp(calls[c])
  BY DEF FilesInv, CallsInv
<1>2. GivenUp(calls[c])'
  BY <1>1 DEF Became, GivenUp, Writing, Deleting, Under
<1> QED
  BY <1>2, QuietGo

LEMMA BeginKeepsFiles ==
    ASSUME TypeInv, FilesInv, NEW c \in Calls, Begin(c) \/ List(c), UNCHANGED cutShort
    PROVE  FilesInv'
<1>1. UNCHANGED <<data, sidecar, saved>>
  BY DEF Begin, List, Kept, cacheVars
<1> QED
  BY <1>1, BeginFacts, ListFacts, PreparingIsQuiet

LEMMA PruneKeepsFiles ==
    ASSUME TypeInv, FilesInv, NEW c \in Calls, Prune(c), UNCHANGED cutShort
    PROVE  FilesInv'
<1>1. calls[c].pc = "prune"
      /\ saved' = [f \in Files |-> IF data'[f] # data[f] THEN Absent ELSE saved[f]]
  BY DEF Prune, At
<1>2. CASE Became(c, calls[c].op, "truncate", calls[c].content) /\ UNCHANGED cacheVars
  <2>1. UNCHANGED <<data, sidecar, saved>>
    BY <1>1, <1>2, AroundNow DEF cacheVars, Around
  <2> QED
    BY <1>1, <1>2, <2>1, PreparingIsQuiet
<1>3. CASE /\ Became(c, calls[c].op, "prune", calls[c].content)
           /\ Head(calls[c].plan) \in [entry : Entries, size : Nat]
           /\ Unlink(Head(calls[c].plan))
  <2>1. \A f \in Files : data'[f] \in {data[f], Absent} /\ sidecar'[f] \in {sidecar[f], Absent}
    BY <1>3, AroundNow DEF Unlink, Entries, Around, CacheInv, CacheTypeOK
  <2>2. \A f \in Files : saved'[f] \in {saved[f], Absent}
    BY <1>1
  <2>3. SavedIsKept'
    BY <1>1 DEF FilesInv, SavedIsKept
  <2>4. Others(c) /\ Disjoint'
    BY <1>1, <1>3, DisjointStep DEF Became, Others, FilesInv
  <2>5. {} \in SUBSET Files
    OBVIOUS
  <2>6. MatchInv'
    BY <1>1, <2>1, <2>4, <2>5, MatchFrame DEF FilesInv
  <2>7. GivenUp(calls[c])'
    <3>1. GivenUp(calls[c])
      BY DEF FilesInv, CallsInv
    <3>2. calls[c].file \in Files /\ calls[c].op # "delete"
      BY <1>1, WritingFacts DEF Writing, Saves
    <3>3. saved'[calls[c].file] \in {saved[calls[c].file], Absent}
      BY <2>2, <3>2
    <3> QED
      BY <1>1, <1>3, <3>1, <3>2, <3>3 DEF Became, GivenUp, Writing, Deleting
  <2> QED
    BY <2>1, <2>2, <2>3, <2>4, <2>5, <2>6, <2>7, FilesStep
<1> QED
  BY <1>2, <1>3, PruneFacts

LEMMA OwnFiles ==
    ASSUME TypeInv, Disjoint, NEW c \in Running
    PROVE  \A d \in Running \ {c} : Concerns(calls[d]) \cap Concerns(calls[c]) = {}
  BY DEF Disjoint

LEMMA OpenKeepsFiles ==
    ASSUME TypeInv, FilesInv, NEW c \in Calls, Open(c), UNCHANGED cutShort
    PROVE  FilesInv'
<1> DEFINE w == Writes(calls[c])
           F == {w}
<1>1. calls[c].pc = "truncate" /\ Became(c, calls[c].op, "fill", calls[c].content)
  BY OpenFacts
<1>2. /\ w \in Files /\ calls[c].file \in Files /\ w \in Concerns(calls[c])
      /\ calls[c].op \in {"read", "pull", "refresh", "rename"} \cup Saves
      /\ IF calls[c].op = "rename" THEN w # calls[c].file ELSE w = calls[c].file
  BY <1>1, WritingFacts DEF Writing
<1>3. Writes(calls'[c]) = w /\ calls'[c].pc = "fill" /\ calls'[c].op = calls[c].op
      /\ calls'[c].file = calls[c].file /\ calls'[c].content = calls[c].content
  BY <1>1 DEF Became, Writes
<1>4. data' = [data EXCEPT ![w] = Torn] /\ UNCHANGED sidecar
  BY DEF Open, Truncate
<1>5. GivenUp(calls[c])
  BY DEF FilesInv, CallsInv
<1>6. saved' = [saved EXCEPT ![w] = Absent]
  <2>1. CASE calls[c].op \in {"save", "presavePull", "presavePush", "rename"}
    BY <2>1 DEF Open
  <2>2. CASE calls[c].op \in {"read", "pull", "refresh"}
    <3>1. saved[w] = Absent
      BY <1>1, <1>2, <1>5, <2>2 DEF GivenUp, Writing
    <3>2. saved' = saved
      BY <2>2 DEF Open
    <3> QED
      BY <1>2, <3>1, <3>2, AroundNow DEF Around
  <2> QED
    BY <1>2, <2>1, <2>2 DEF Saves
<1>7. data \in [Files -> Text] /\ saved \in [Files -> Contents \cup {Absent}]
  BY AroundNow DEF Around, CacheInv, CacheTypeOK, Text
<1> HIDE DEF w
<1>8. Others(c) /\ Disjoint'
  BY <1>1, DisjointStep DEF Became, Others, FilesInv
<1>9. F \in SUBSET Files /\ \A d \in Running \ {c} : Concerns(calls[d]) \cap F = {}
  BY <1>1, <1>2, OwnFiles DEF Running, FilesInv
<1>10. SavedIsKept'
  BY <1>2, <1>4, <1>6, <1>7 DEF FilesInv, SavedIsKept
<1>11. MatchInv'
  <2>1. \A f \in F : BeingWritten(f)'
    BY <1>3 DEF BeingWritten
  <2>2. MatchInv /\ Writes(calls[c]) \in F
    BY DEF FilesInv, w
  <2> QED
    BY <1>2, <1>4, <1>7, <1>8, <1>9, <2>1, <2>2, MatchFrame
<1>12. GivenUp(calls[c])'
  <2>1. saved'[w] = Absent /\ saved'[calls[c].file] \in {saved[calls[c].file], Absent}
    BY <1>2, <1>6, <1>7
  <2>2. calls[c].op # "delete"
    BY <1>2 DEF Saves
  <2> QED
    BY <1>1, <1>2, <1>3, <1>5, <2>1, <2>2 DEF GivenUp, Writing, Deleting
<1>13. \A f \in Files \ F :
          data'[f] \in {data[f], Absent} /\ saved'[f] \in {saved[f], Absent}
  BY <1>4, <1>6, <1>7
<1> HIDE DEF F
<1> QED
  BY <1>8, <1>9, <1>10, <1>11, <1>12, <1>13, FilesStep

LEMMA WriteKeepsFiles ==
    ASSUME TypeInv, FilesInv, NEW c \in Calls, Write(c), UNCHANGED cutShort
    PROVE  FilesInv'
<1> DEFINE w == Writes(calls[c])
           F == {w}
<1>1. calls[c].pc = "fill" /\ Became(c, calls[c].op, "digest", calls[c].content)
  BY WriteFacts
<1>2. /\ w \in Files /\ calls[c].file \in Files /\ w \in Concerns(calls[c])
      /\ calls[c].op \in {"read", "pull", "refresh", "rename"} \cup Saves
  BY <1>1, WritingFacts DEF Writing
<1>3. Writes(calls'[c]) = w /\ calls'[c].pc = "digest" /\ calls'[c].op = calls[c].op
      /\ calls'[c].file = calls[c].file /\ calls'[c].content = calls[c].content
  BY <1>1 DEF Became, Writes
<1>4. data' = [data EXCEPT ![w] = calls[c].content] /\ UNCHANGED <<sidecar, saved>>
  BY DEF Write, Fill, Kept
<1>5. GivenUp(calls[c]) /\ saved[w] = Absent
  BY <1>1 DEF FilesInv, CallsInv, GivenUp
<1>6. data \in [Files -> Text] /\ saved \in [Files -> Contents \cup {Absent}]
  BY AroundNow DEF Around, CacheInv, CacheTypeOK, Text
<1> HIDE DEF w
<1>7. Others(c) /\ Disjoint'
  BY <1>1, DisjointStep DEF Became, Others, FilesInv
<1>8. F \in SUBSET Files /\ \A d \in Running \ {c} : Concerns(calls[d]) \cap F = {}
  BY <1>1, <1>2, OwnFiles DEF Running, FilesInv
<1>9. SavedIsKept'
  BY <1>2, <1>4, <1>5, <1>6 DEF FilesInv, SavedIsKept
<1>10. MatchInv'
  <2>1. \A f \in F : BeingWritten(f)'
    BY <1>3 DEF BeingWritten
  <2>2. MatchInv /\ Writes(calls[c]) \in F
    BY DEF FilesInv, w
  <2> QED
    BY <1>2, <1>4, <1>6, <1>7, <1>8, <2>1, <2>2, MatchFrame
<1>11. GivenUp(calls[c])'
  <2>1. data'[w] = calls[c].content
    BY <1>2, <1>4, <1>6
  <2>2. calls[c].op # "delete"
    BY <1>2 DEF Saves
  <2> QED
    BY <1>1, <1>2, <1>3, <1>4, <1>5, <2>1, <2>2 DEF GivenUp, Writing, Deleting
<1>12. \A f \in Files \ F :
          data'[f] \in {data[f], Absent} /\ saved'[f] \in {saved[f], Absent}
  BY <1>4, <1>6
<1> HIDE DEF F
<1> QED
  BY <1>7, <1>8, <1>9, <1>10, <1>11, <1>12, FilesStep

\* The write is over: the sidecar is that of the content, and what the user has saved,
\* or moved here, is what the cache holds, unless it has been pruned by then.
LEMMA WrittenKeepsFiles ==
    ASSUME TypeInv, FilesInv, NEW c \in Calls, Written(c), UNCHANGED cutShort
    PROVE  FilesInv'
<1> DEFINE w == Writes(calls[c])
           source == calls[c].file
           F == {w, source}
<1>1. calls[c].pc = "digest"
  BY WrittenFacts
<1>2. /\ w \in Files /\ source \in Files
      /\ w \in Concerns(calls[c]) /\ source \in Concerns(calls[c])
      /\ calls[c].op \in {"read", "pull", "refresh", "rename"} \cup Saves
      /\ IF calls[c].op = "rename" THEN w # source ELSE w = source
      /\ calls[c].op \in Saves => calls[c].content \in Contents
  BY <1>1, WritingFacts DEF Writing
<1>3. UNCHANGED data /\ sidecar' = [sidecar EXCEPT ![w] = calls[c].content]
  BY DEF Written, WriteLocalHash
<1>4. GivenUp(calls[c]) /\ saved[w] = Absent /\ data[w] \in {calls[c].content, Absent}
  BY <1>1 DEF FilesInv, CallsInv, GivenUp
<1>5. /\ data \in [Files -> Text] /\ sidecar \in [Files -> Text]
      /\ saved \in [Files -> Contents \cup {Absent}]
  BY AroundNow DEF Around, CacheInv, CacheTypeOK, Text
<1>6. Cached(w) <=> data[w] # Absent
  BY <1>2, FilesAssumption DEF Cached
<1>7. /\ saved'[w] # Absent => saved'[w] = data[w]
      /\ saved'[source] \in {saved[source], Absent} \/ w = source
      /\ calls[c].op \in {"rename", "pull"} => saved'[source] = Absent
      /\ \A f \in Files \ F : saved'[f] = saved[f]
  <2> DEFINE kept(text) == IF Cached(w) THEN text ELSE Absent
  <2>1. CASE calls[c].op \in Saves
    <3>1. saved' = [saved EXCEPT ![w] = kept(calls[c].content)]
      BY <2>1 DEF Written, Saves
    <3>2. calls[c].op \notin {"rename", "pull"}
      BY <2>1 DEF Saves
    <3> QED
      BY <1>2, <1>4, <1>5, <1>6, <3>1, <3>2
  <2>2. CASE calls[c].op = "rename"
    <3>1. saved' = [saved EXCEPT ![w] = kept(saved[source]), ![source] = Absent]
      BY <2>2 DEF Written, Saves
    <3>2. saved[source] \in {calls[c].content, Absent} /\ w # source
      BY <1>1, <1>2, <1>4, <2>2 DEF GivenUp, Writing
    <3> QED
      BY <1>2, <1>4, <1>5, <1>6, <3>1, <3>2
  <2>3. CASE calls[c].op \in {"read", "pull", "refresh"}
    <3>1. saved' = saved
      BY <2>3 DEF Written
    <3>2. w = source
      BY <1>2, <2>3
    <3> QED
      BY <1>4, <2>3, <3>1, <3>2
  <2> QED
    BY <1>2, <2>1, <2>2, <2>3
<1>8. Others(c) /\ Disjoint'
  <2>1. Ended(c) \/ \E op, pc : Became(c, op, pc, calls[c].content)
    BY WrittenFacts
  <2> QED
    BY <1>1, <2>1, DisjointStep DEF Ended, Became, Others, FilesInv
<1>9. F \in SUBSET Files /\ \A d \in Running \ {c} : Concerns(calls[d]) \cap F = {}
  BY <1>1, <1>2, OwnFiles DEF Running, FilesInv
<1>10. SavedIsKept'
  <2> SUFFICES ASSUME NEW f \in Files, saved'[f] # Absent
               PROVE  data'[f] = saved'[f]
    BY DEF SavedIsKept
  <2>1. CASE f = w
    BY <1>3, <1>7, <2>1
  <2>2. CASE f # w
    <3>1. saved'[f] = saved[f]
      BY <1>7, <2>2
    <3> QED
      BY <1>3, <3>1 DEF FilesInv, SavedIsKept
  <2> QED
    BY <2>1, <2>2
<1>11. MatchInv'
  <2>1. {w} \in SUBSET Files /\ Writes(calls[c]) \in {w}
    BY <1>2
  <2>2. \A f \in {w} : Matches(f)'
    BY <1>2, <1>3, <1>4, <1>5 DEF Matches
  <2>3. MatchInv
    BY DEF FilesInv
  <2>4. \A f \in Files \ {w} : data'[f] \in {data[f], Absent}
                               /\ sidecar'[f] \in {sidecar[f], Absent}
    BY <1>3, <1>5
  <2> HIDE DEF w
  <2> QED
    BY <1>8, <2>1, <2>2, <2>3, <2>4, MatchFrame
<1>12. GivenUp(calls[c])'
  <2>1. CASE Ended(c)
    BY <2>1, EndedFacts
  <2>2. CASE calls[c].op = "rename" /\ Became(c, "rename", "stat", calls[c].content)
    BY <1>7, <2>2 DEF Became, GivenUp, Writing, Deleting
  <2>3. CASE \/ Became(c, "pull", "download", calls[c].content)
             \/ Became(c, "push", "exists", calls[c].content)
    BY <2>3 DEF Became, GivenUp, Writing, Deleting
  <2>4. CASE calls[c].op = "pull" /\ Became(c, "refresh", "begin", calls[c].content)
    BY <1>7, <2>4 DEF Became, GivenUp, Writing, Deleting
  <2> QED
    BY <2>1, <2>2, <2>3, <2>4, WrittenFacts
<1>13. \A f \in Files \ F :
          data'[f] \in {data[f], Absent} /\ saved'[f] \in {saved[f], Absent}
  BY <1>3, <1>7
<1> HIDE DEF F
<1> QED
  BY <1>8, <1>9, <1>10, <1>11, <1>12, <1>13, FilesStep

LEMMA WriteFailsKeepsFiles ==
    ASSUME TypeInv, FilesInv, NEW c \in Calls, WriteFails(c)
    PROVE  FilesInv'
<1>1. /\ cutShort' = TRUE /\ UNCHANGED <<data, saved>> /\ calls[c].pc = "fill"
  BY DEF WriteFails, cacheVars, At
<1>2. \/ Ended(c)
      \/ Became(c, "pull", "download", calls[c].content)
      \/ Became(c, "push", "exists", calls[c].content)
  BY WriteFailsFacts
<1>3. Others(c) /\ Disjoint'
  BY <1>1, <1>2, DisjointStep DEF Ended, Became, Others, FilesInv
<1>4. GivenUp(calls[c])'
  BY <1>2, EndedFacts DEF Became, GivenUp, Writing, Deleting
<1>5. SavedIsKept' /\ MatchInv'
  BY <1>1 DEF FilesInv, SavedIsKept, MatchInv
<1>6. {} \in SUBSET Files
  OBVIOUS
<1> QED
  BY <1>1, <1>3, <1>4, <1>5, <1>6, FilesStep

LEMMA SyncStepKeepsFiles ==
    ASSUME TypeInv, FilesInv, NEW c \in Calls, UNCHANGED cutShort,
           Exists(c) \/ Compare(c) \/ Fetch(c) \/ Upload(c)
    PROVE  FilesInv'
<1>0. saved \in [Files -> Contents \cup {Absent}]
  BY AroundNow DEF Around
<1>1. CASE Exists(c)
  <2>1. UNCHANGED <<data, sidecar, saved>> /\ calls[c].pc = "exists"
    BY <1>1 DEF Exists, Kept, cacheVars, At
  <2>2. CASE Ended(c)
    BY <2>1, <2>2, QuietEnd
  <2>3. CASE calls[c].op = "pull" /\ Became(c, "pull", "compare", calls[c].content)
    <3>1. GivenUp(calls[c])'
      BY <2>3 DEF Became, GivenUp, Writing, Deleting
    <3> QED
      BY <2>1, <2>3, <3>1, QuietGo
  <2>4. CASE /\ calls[c].op = "pull" /\ Became(c, "pull", "begin", calls[c].content)
             /\ data[calls[c].file] = Absent
    <3>1. calls[c].file \in Files
      BY <2>4, CallIsTyped DEF CallShape
    <3>2. saved[calls[c].file] = Absent
      BY <2>4, <3>1 DEF FilesInv, SavedIsKept
    <3>3. GivenUp(calls[c])'
      BY <2>1, <2>4, <3>2 DEF Became, GivenUp, Writing, Deleting
    <3> QED
      BY <2>1, <2>4, <3>3, QuietGo
  <2>5. CASE calls[c].op = "push" /\ Became(c, "push", "fetch", calls[c].content)
    <3>1. GivenUp(calls[c])'
      BY <2>5 DEF Became, GivenUp, Writing, Deleting
    <3> QED
      BY <2>1, <2>5, <3>1, QuietGo
  <2> QED
    BY <1>1, <2>2, <2>3, <2>4, <2>5, ExistsFacts
<1>2. CASE Compare(c)
  <2>1. UNCHANGED <<data, sidecar>> /\ calls[c].pc = "compare" /\ calls[c].op = "pull"
    BY <1>2, CompareFacts DEF Compare, cacheVars
  <2>2. CASE Ended(c) /\ UNCHANGED saved
    BY <2>1, <2>2, QuietEnd
  <2>3. CASE /\ Became(c, "pull", "begin", calls[c].content)
             /\ saved' = [saved EXCEPT ![calls[c].file] = Absent]
    <3>1. calls[c].file \in Files
      BY <2>1, CallIsTyped DEF CallShape
    <3>2. saved'[calls[c].file] = Absent /\ \A f \in Files : saved'[f] \in {saved[f], Absent}
      BY <1>0, <2>3, <3>1
    <3>3. GivenUp(calls[c])'
      BY <2>3, <3>2 DEF Became, GivenUp, Writing, Deleting
    <3> QED
      BY <2>1, <2>3, <3>2, <3>3, QuietGo
  <2> QED
    BY <1>2, <2>2, <2>3, CompareFacts
<1>3. CASE Fetch(c)
  <2>1. UNCHANGED <<data, sidecar, saved>> /\ calls[c].pc = "fetch"
    BY <1>3 DEF Fetch, Kept, cacheVars, At
  <2>2. CASE Ended(c)
    BY <2>1, <2>2, QuietEnd
  <2>3. ASSUME NEW content \in Text, Became(c, "push", "upload", content)
        PROVE  FilesInv'
    <3>1. GivenUp(calls[c])'
      BY <2>3 DEF Became, GivenUp, Writing, Deleting
    <3> QED
      BY <2>1, <2>3, <3>1, QuietGo
  <2> QED
    BY <1>3, <2>2, <2>3, FetchFacts
<1>4. CASE Upload(c)
  <2>1. UNCHANGED <<data, sidecar>>
    BY <1>4 DEF Upload, cacheVars
  <2> QED
    BY <1>4, <2>1, UploadFacts, QuietEnd
<1> QED
  BY <1>1, <1>2, <1>3, <1>4

\* deleteCache() removes what the user has given up.
LEMMA DeleteStepKeepsFiles ==
    ASSUME TypeInv, FilesInv, NEW c \in Calls, UNCHANGED cutShort,
           DeleteRemote(c) \/ Stat(c) \/ UnlinkCached(c) \/ UnlinkDigest(c)
    PROVE  FilesInv'
<1>0. GivenUp(calls[c])
  BY DEF FilesInv, CallsInv
<1>1. CASE DeleteRemote(c)
  <2>1. UNCHANGED <<data, sidecar, saved>> /\ calls[c].pc = "remove" /\ calls[c].op = "delete"
    BY <1>1, DeleteRemoteFacts DEF DeleteRemote, cacheVars
  <2>2. CASE Ended(c)
    BY <2>1, <2>2, QuietEnd
  <2>3. CASE Became(c, "delete", "stat", calls[c].content)
    <3>1. GivenUp(calls[c])'
      BY <1>0, <2>1, <2>3 DEF Became, GivenUp, Writing, Deleting, Under
    <3> QED
      BY <2>1, <2>3, <3>1, QuietGo
  <2> QED
    BY <1>1, <2>2, <2>3, DeleteRemoteFacts
<1>2. CASE Stat(c)
  <2>1. UNCHANGED <<data, sidecar, saved>> /\ calls[c].pc = "stat"
        /\ Became(c, calls[c].op, "unlink", calls[c].content)
    BY <1>2, StatFacts DEF Stat, StatForDelete, Kept
  <2>2. calls[c].op \in {"delete", "rename"}
    BY <2>1, CallIsTyped DEF CallShape, OpAt, Deleting
  <2>3. GivenUp(calls[c])'
    BY <1>0, <2>1, <2>2 DEF Became, GivenUp, Writing, Deleting, Under
  <2> QED
    BY <2>1, <2>3, QuietGo
<1>3. CASE UnlinkCached(c)
  <2>1. calls[c].pc = "unlink" /\ calls[c].op \in {"delete", "rename"} /\ UNCHANGED saved
    BY <1>3, UnlinkCachedFacts DEF UnlinkCached, Kept
  <2>2. CASE Ended(c) /\ UNCHANGED cacheVars
    <3>1. UNCHANGED <<data, sidecar>>
      BY <2>2 DEF cacheVars
    <3> QED
      BY <2>1, <2>2, <3>1, QuietEnd
  <2>3. CASE /\ calls[c].file \in Files /\ UnlinkData(calls[c].file)
             /\ Became(c, calls[c].op, "unlinkSidecar", calls[c].content)
    <3>1. saved[calls[c].file] = Absent
      BY <1>0, <2>1, <2>3, FilesAssumption DEF GivenUp, Deleting, Under
    <3>2. data' = [data EXCEPT ![calls[c].file] = Absent] /\ UNCHANGED sidecar
          /\ data \in [Files -> Text]
      BY <2>3, AroundNow DEF UnlinkData, Around, CacheInv, CacheTypeOK, Text
    <3>3. SavedIsKept'
      BY <2>1, <2>3, <3>1, <3>2 DEF FilesInv, SavedIsKept
    <3>4. Others(c) /\ Disjoint'
      BY <2>1, <2>3, DisjointStep DEF Became, Others, FilesInv
    <3>5. {} \in SUBSET Files
      OBVIOUS
    <3>6. MatchInv'
      BY <2>1, <3>2, <3>4, <3>5, MatchFrame DEF FilesInv
    <3>7. GivenUp(calls[c])'
      BY <1>0, <2>1, <2>3 DEF Became, GivenUp, Writing, Deleting, Under
    <3> QED
      BY <2>1, <3>2, <3>3, <3>4, <3>5, <3>6, <3>7, FilesStep
  <2> QED
    BY <1>3, <2>2, <2>3, UnlinkCachedFacts
<1>4. CASE UnlinkDigest(c)
  <2>1. calls[c].pc = "unlinkSidecar" /\ Ended(c) /\ calls[c].file \in Files
    BY <1>4, UnlinkDigestFacts
  <2>2. UNCHANGED <<data, saved>> /\ sidecar' = [sidecar EXCEPT ![calls[c].file] = Absent]
        /\ sidecar \in [Files -> Text]
    BY <1>4, AroundNow DEF UnlinkDigest, UnlinkSidecar, Kept, Around, CacheInv, CacheTypeOK,
       Text
  <2>3. SavedIsKept'
    BY <2>2 DEF FilesInv, SavedIsKept
  <2>4. Disjoint'
    BY <2>1, DisjointStep DEF FilesInv
  <2>5. {} \in SUBSET Files
    OBVIOUS
  <2>6. MatchInv'
    BY <2>1, <2>2, <2>5, EndedFacts, MatchFrame DEF FilesInv
  <2> QED
    BY <2>1, <2>2, <2>3, <2>4, <2>5, <2>6, EndedFacts, FilesStep
<1> QED
  BY <1>1, <1>2, <1>3, <1>4

LEMMA RenameStepKeepsFiles ==
    ASSUME TypeInv, FilesInv, NEW c \in Calls, UNCHANGED cutShort,
           Move(c) \/ Probe(c) \/ Copy(c)
    PROVE  FilesInv'
<1>1. UNCHANGED <<data, sidecar, saved>> /\ calls[c].pc \in {"move", "probe", "copy"}
  BY DEF Move, Probe, Copy, Kept, cacheVars, At
<1>2. CASE Ended(c)
  BY <1>1, <1>2, QuietEnd
<1>3. ASSUME NEW pc \in {"probe", "copy"}, Became(c, "rename", pc, calls[c].content)
      PROVE  FilesInv'
  <2>1. GivenUp(calls[c])'
    BY <1>3 DEF Became, GivenUp, Writing, Deleting
  <2> QED
    BY <1>1, <1>3, <2>1, QuietGo
<1>4. CASE /\ calls[c].file \in Files /\ data[calls[c].file] # Absent
           /\ Became(c, "rename", "begin", data[calls[c].file])
  <2>1. saved[calls[c].file] \in {data[calls[c].file], Absent}
    BY <1>4 DEF FilesInv, SavedIsKept
  <2>2. GivenUp(calls[c])'
    BY <1>1, <1>4, <2>1 DEF Became, GivenUp, Writing, Deleting
  <2> QED
    BY <1>1, <1>4, <2>2, QuietGo
<1> QED
  BY <1>2, <1>3, <1>4, MoveFacts, ProbeFacts, CopyFacts

LEMMA StepKeepsFiles ==
    ASSUME TypeInv, FilesInv, NEW c \in Calls, Step(c), UNCHANGED cutShort
    PROVE  FilesInv'
  BY LookupKeepsFiles, DownloadKeepsFiles, BeginKeepsFiles, PruneKeepsFiles, OpenKeepsFiles,
     WriteKeepsFiles, WrittenKeepsFiles, SyncStepKeepsFiles, DeleteStepKeepsFiles,
     RenameStepKeepsFiles
  DEF Step

\* What the text of an editor and the server say is no matter.
LEMMA SameFiles ==
    ASSUME FilesInv, UNCHANGED <<data, sidecar, calls, saved, cutShort>>
    PROVE  FilesInv'
<1>1. Disjoint' /\ CallsInv'
  BY DEF FilesInv, Disjoint, Running, Concerns, CallsInv, GivenUp, Writes
<1>2. SavedIsKept'
  BY DEF FilesInv, SavedIsKept
<1>3. MatchInv'
  BY DEF FilesInv, MatchInv, Matches, BeingWritten, Writes
<1> QED
  BY <1>1, <1>2, <1>3 DEF FilesInv

LEMMA RestartKeepsFiles ==
    ASSUME TypeInv, FilesInv, Restart
    PROVE  FilesInv'
<1>1. UNCHANGED <<data, sidecar, saved>> /\ calls' = [c \in Calls |-> Idle]
  BY RestartFacts
<1>2. Running' = {}
  BY <1>1, IdleFacts DEF Running
<1>3. CallsInv'
  BY <1>1, IdleFacts DEF CallsInv, GivenUp, Writing, Deleting
<1>4. SavedIsKept'
  BY <1>1 DEF FilesInv, SavedIsKept
<1>5. ASSUME ~cutShort'
      PROVE  \A f \in Files : Matches(f)'
  <2>1. ~cutShort /\ \A c \in Calls : calls[c].pc \notin {"fill", "digest"}
    BY <1>5 DEF Restart
  <2> QED
    BY <1>1, <2>1 DEF FilesInv, MatchInv, Matches, BeingWritten
<1> QED
  BY <1>2, <1>3, <1>4, <1>5 DEF FilesInv, Disjoint, MatchInv

LEMMA InitFiles == Init => FilesInv
<1> SUFFICES ASSUME Init
             PROVE  FilesInv
  OBVIOUS
<1>1. calls = [c \in Calls |-> Idle] /\ saved = [f \in Files |-> Absent] /\ data = sidecar
  BY DEF Init, CacheInit
<1>2. Disjoint /\ CallsInv
  BY <1>1, IdleFacts DEF Disjoint, Running, CallsInv
<1>3. SavedIsKept /\ MatchInv
  BY <1>1 DEF SavedIsKept, MatchInv, Matches
<1> QED
  BY <1>2, <1>3 DEF FilesInv

LEMMA NextKeepsFiles ==
    ASSUME ~Overlap, TypeInv, FilesInv, [Next]_vars
    PROVE  FilesInv'
<1>1. CASE UNCHANGED vars
  BY <1>1, SameFiles DEF vars
<1>2. CASE Next
  BY <1>2, StartKeepsFiles, StepKeepsFiles, OthersFacts, SameFiles, WriteFailsKeepsFiles,
     RestartKeepsFiles
  DEF Next
<1> QED
  BY <1>1, <1>2

LEMMA FilesInvariance ==
    ASSUME ~Overlap
    PROVE  Spec => [](TypeInv /\ FilesInv)
<1>1. Init => TypeInv /\ FilesInv
  BY InitType, InitFiles
<1>2. TypeInv /\ FilesInv /\ [Next]_vars => (TypeInv /\ FilesInv)'
  BY NextKeepsType, NextKeepsFiles
<1> QED
  BY <1>1, <1>2, PTL DEF Spec

\* Whatever number of calls save, read, move, prune, pull, push and delete files, as
\* long as no two concern the same file at a time: what the user has saved stays in
\* the cache, through crashes and full disks, until it is uploaded, given up or pruned.
THEOREM SavedStaysKept ==
    ASSUME ~Overlap
    PROVE  Spec => []SavedIsKept
<1>1. TypeInv /\ FilesInv => SavedIsKept
  BY DEF FilesInv
<1> QED
  BY <1>1, FilesInvariance, PTL

\* A cached file that no call concerns has the sidecar of its content, or none, unless
\* a crash or a full disk has cut a write of the cache short.
THEOREM DigestsMatch ==
    ASSUME ~Overlap
    PROVE  Spec => []SidecarMatches
<1>1. TypeInv /\ FilesInv => SidecarMatches
  <2> SUFFICES ASSUME TypeInv, FilesInv, ~cutShort, NEW f \in Files,
                      \A c \in Running : f \notin Concerns(calls[c])
               PROVE  Matches(f)
    BY DEF SidecarMatches, Matches
  <2>1. ~BeingWritten(f)
    <3> SUFFICES ASSUME NEW c \in Calls, calls[c].pc \in {"fill", "digest"},
                        f = Writes(calls[c])
                 PROVE  FALSE
      BY DEF BeingWritten
    <3>1. c \in Running /\ Writes(calls[c]) \in Concerns(calls[c])
      BY WritingFacts DEF Writing, Running
    <3> QED
      BY <3>1
  <2> QED
    BY <2>1 DEF FilesInv, MatchInv
<1> QED
  BY <1>1, FilesInvariance, PTL

\* The answer that a file is already up to date is true: the cached file is what was
\* downloaded, unless it has been pruned, or a write of the cache was cut short.
THEOREM UpToDateMeansSame ==
    ASSUME ~Overlap
    PROVE  Spec => []UpToDateIsTrue
<1>1. TypeInv /\ FilesInv => UpToDateIsTrue
  <2> SUFFICES ASSUME TypeInv, FilesInv, ~cutShort, NEW c \in Calls,
                      At(c, "compare"), SaysUpToDate(c)
               PROVE  data[calls[c].file] \in {calls[c].content, Absent}
    BY DEF UpToDateIsTrue
  <2> DEFINE f == calls[c].file
  <2>1. /\ calls[c].pc = "compare" /\ calls[c].op = "pull" /\ f \in Files
        /\ calls[c].content # Absent
    BY CallIsTyped DEF At, CallShape, OpAt
  <2>2. f \in Concerns(calls[c]) /\ c \in Running
    BY <2>1, FilesAssumption DEF Concerns, Under, Running
  <2>3. ~BeingWritten(f)
    <3> SUFFICES ASSUME NEW d \in Calls, calls[d].pc \in {"fill", "digest"},
                        f = Writes(calls[d])
                 PROVE  FALSE
      BY DEF BeingWritten
    <3>1. d \in Running /\ d # c /\ f \in Concerns(calls[d])
      BY <2>1, WritingFacts DEF Writing, Running
    <3> QED
      BY <2>2, <3>1 DEF FilesInv, Disjoint
  <2>4. Matches(f)
    BY <2>1, <2>3 DEF FilesInv, MatchInv
  <2> QED
    BY <2>1, <2>4 DEF Matches, SaysUpToDate
<1> QED
  BY <1>1, FilesInvariance, PTL
-----------------------------------------------------------------------------
(* The list of a prune                                                     *)

\* A call goes to the prune of its list only from the listing.
LEMMA PruneIsReached ==
    ASSUME TypeInv, NEW c \in Calls, Step(c), UNCHANGED cutShort, ~List(c), ~Prune(c)
    PROVE  Others(c) /\ calls'[c].pc # "prune" /\ calls[c].pc # "idle"
<1> DEFINE Leaves == \/ Ended(c)
                     \/ \E op, content : \E pc \in Stages \ {"prune"} : Became(c, op, pc, content)
<1>1. ASSUME Leaves
      PROVE  Others(c) /\ calls'[c].pc # "prune"
  BY <1>1, IdleFacts DEF Ended, Became, Others
<1>2. CASE Lookup(c) \/ Download(c) \/ Begin(c)
  <2>1. Leaves
    BY <1>2, LookupFacts, DownloadFacts, BeginFacts DEF Stages
  <2> QED
    BY <1>1, <1>2, <2>1 DEF Lookup, Download, Begin, At
<1>3. CASE Open(c) \/ Write(c) \/ Written(c)
  <2>1. Leaves
    BY <1>3, OpenFacts, WriteFacts, WrittenFacts DEF Stages
  <2> QED
    BY <1>1, <1>3, <2>1 DEF Open, Write, Written, At
<1>4. CASE Exists(c) \/ Compare(c) \/ Fetch(c) \/ Upload(c)
  <2>1. Leaves
    BY <1>4, ExistsFacts, CompareFacts, FetchFacts, UploadFacts DEF Stages
  <2> QED
    BY <1>1, <1>4, <2>1 DEF Exists, Compare, Fetch, Upload, At
<1>5. CASE DeleteRemote(c) \/ Stat(c) \/ UnlinkCached(c) \/ UnlinkDigest(c)
  <2>1. Leaves
    BY <1>5, DeleteRemoteFacts, StatFacts, UnlinkCachedFacts, UnlinkDigestFacts DEF Stages
  <2> QED
    BY <1>1, <1>5, <2>1 DEF DeleteRemote, Stat, UnlinkCached, UnlinkDigest, At
<1>6. CASE Move(c) \/ Probe(c) \/ Copy(c)
  <2>1. Leaves
    BY <1>6, MoveFacts, ProbeFacts, CopyFacts DEF Stages
  <2> QED
    BY <1>1, <1>6, <2>1 DEF Move, Probe, Copy, At
<1> QED
  BY <1>2, <1>3, <1>4, <1>5, <1>6 DEF Step

\* The first entry of the cache is the first of the list, and both lose it.
LEMMA PruneKeepsPlan ==
    ASSUME TypeInv, PlanInv, NEW c \in Calls, Prune(c), UNCHANGED cutShort,
           calls'[c].pc = "prune"
    PROVE  /\ Others(c)
           /\ age' = [i \in 1..Len(calls'[c].plan) |-> calls'[c].plan[i].entry]
<1> DEFINE plan == calls[c].plan
           R == [entry : Entries, size : Nat]
<1>1. /\ calls[c].pc = "prune" /\ plan # <<>> /\ calls'[c].plan = Tail(plan)
      /\ Unlink(Head(plan)) /\ Others(c)
  BY PruneFacts DEF Became, Others
<1>2. plan \in Seq(R)
  BY CallIsTyped DEF Call
<1>3. age = [i \in 1..Len(plan) |-> plan[i].entry] /\ age \in Seq(Entries) /\ Once(age)
  BY <1>1, AroundNow DEF PlanInv, At, Around, CacheInv, CacheTypeOK
<1> HIDE DEF plan, R
<1>4. /\ Len(plan) \in Nat /\ Len(plan) >= 1 /\ Head(plan) = plan[1]
      /\ Tail(plan) \in Seq(R) /\ Len(Tail(plan)) = Len(plan) - 1
      /\ \A i \in 1..(Len(plan) - 1) : Tail(plan)[i] = plan[i + 1]
  BY <1>1, <1>2, HeadTailProperties
<1>5. Len(age) = Len(plan) /\ age # <<>> /\ Head(age) = plan[1].entry
  BY <1>3, <1>4
<1>6. age' = Tail(age)
  BY <1>1, <1>3, <1>4, <1>5, RemoveHead DEF Unlink, Without
<1>7. /\ Tail(age) \in Seq(Entries) /\ Len(Tail(age)) = Len(age) - 1
      /\ \A i \in 1..(Len(age) - 1) : Tail(age)[i] = age[i + 1]
  BY <1>3, <1>5, HeadTailProperties
<1>8. Tail(age) = [i \in 1..(Len(age) - 1) |-> Tail(age)[i]]
  <2>1. \A s \in Seq(Entries) : s = [i \in 1..Len(s) |-> s[i]]
    OBVIOUS
  <2>2. Tail(age) = [i \in 1..Len(Tail(age)) |-> Tail(age)[i]]
    BY <1>7, <2>1, Zenon
  <2> QED
    BY <1>7, <2>2
<1>9. \A i \in 1..(Len(plan) - 1) : Tail(age)[i] = Tail(plan)[i].entry
  BY <1>3, <1>4, <1>5, <1>7
<1> QED
  BY <1>1, <1>4, <1>5, <1>6, <1>8, <1>9

LEMMA StepKeepsPlan ==
    ASSUME TypeInv, PlanInv, Alone, Alone', NEW c \in Calls, Step(c), UNCHANGED cutShort
    PROVE  PlanInv'
<1> SUFFICES ASSUME NEW d \in Calls, calls'[d].pc = "prune"
             PROVE  age' = [i \in 1..Len(calls'[d].plan) |-> calls'[d].plan[i].entry]
  BY DEF PlanInv, At
<1>1. Others(c) /\ calls[c].pc # "idle"
  <2>1. CASE List(c)
    BY <2>1, ListFacts DEF Became, Others
  <2>2. CASE Prune(c)
    BY <2>2, PruneFacts DEF Became, Others
  <2> QED
    BY <2>1, <2>2, PruneIsReached
<1>2. d = c
  BY <1>1 DEF Others, Alone, Running
<1>3. CASE List(c)
  <2>1. calls'[c].plan = Listed /\ age' = age
    BY <1>3, ListFacts DEF List, cacheVars
  <2> QED
    BY <1>2, <2>1, ListedFacts, AroundNow DEF Around
<1>4. CASE Prune(c)
  BY <1>2, <1>4, PruneKeepsPlan
<1> QED
  BY <1>2, <1>3, <1>4, PruneIsReached

\* A call that starts leaves the cache and the other calls alone.
LEMMA StartKeepsPlan ==
    ASSUME TypeInv, PlanInv, NEW c \in Calls, Start(c), UNCHANGED cutShort
    PROVE  PlanInv'
<1>1. PICK op, file, to, content : \E stage \in Stages \ {"prune"} :
        Started(c, op, file, to, content, stage)
  BY DEF Start, Read, Save, SyncCurrentFile, UploadCurrentFile, Sync, Delete, Rename, Stages
<1>2. PICK stage \in Stages \ {"prune"} : Started(c, op, file, to, content, stage)
  BY <1>1
<1> DEFINE k == [Idle EXCEPT !.op = op, !.file = file, !.to = to, !.content = content,
                             !.pc = stage]
<1>3. calls' = [calls EXCEPT ![c] = k] /\ age' = age
  BY <1>2 DEF Started, cacheVars
<1>4. k.pc # "prune"
  BY <1>2 DEF Idle
<1> HIDE DEF k
<1> QED
  BY <1>3, <1>4, CallIsTyped DEF PlanInv, At

LEMMA InitPlan == Init => PlanInv
  BY IdleFacts DEF Init, PlanInv, At

LEMMA NextKeepsPlan ==
    ASSUME TypeInv, PlanInv, Alone, Alone', [Next]_vars
    PROVE  PlanInv'
<1>1. CASE UNCHANGED vars
  BY <1>1 DEF vars, PlanInv, At
<1>2. ASSUME NEW f \in Files, UNCHANGED cutShort,
             Type(f) \/ \E content \in Contents : OtherWrites(f, content)
      PROVE  PlanInv'
  BY <1>2, OthersFacts DEF PlanInv, At
<1>3. ASSUME NEW c \in Calls, WriteFails(c)
      PROVE  PlanInv'
  <2>1. UNCHANGED age /\ Others(c) /\ calls'[c].pc # "prune"
    BY <1>3, WriteFailsFacts, IdleFacts DEF WriteFails, cacheVars, Ended, Became, Others
  <2> QED
    BY <2>1 DEF PlanInv, At, Others
<1>4. CASE Restart
  BY <1>4, RestartFacts, IdleFacts DEF PlanInv, At
<1> QED
  BY <1>1, <1>2, <1>3, <1>4, StartKeepsPlan, StepKeepsPlan DEF Next

\* As long as no two calls run at a time, what a prune has not removed yet is the rest of
\* its list, in its order: nothing newer has been removed before something older.
THEOREM OldestArePruned == Spec /\ []Alone => []PrunesOldestFirst
<1>1. Init => TypeInv /\ PlanInv
  BY InitType, InitPlan
<1>2. TypeInv /\ PlanInv /\ Alone /\ Alone' /\ [Next]_vars => (TypeInv /\ PlanInv)'
  BY NextKeepsType, NextKeepsPlan
<1>3. TypeInv /\ PlanInv => PrunesOldestFirst
  BY DEF PlanInv, PrunesOldestFirst
<1> QED
  BY <1>1, <1>2, <1>3, PTL DEF Spec
=============================================================================
