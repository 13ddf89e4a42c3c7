---------------------------- MODULE PngCacheProofs ----------------------------
(* Proofs about PngCache, for any jobs, numbers of chunks, ceiling, TTL,     *)
(* clock, ends of the process and calls that raise: what the recency list    *)
(* names and misses, the ceiling after a put, and what of a job is read.     *)
EXTENDS PngCache, FiniteSetTheorems, WellFoundedInduction, TLAPS

-----------------------------------------------------------------------------
(* The recency list.                                                       *)

\* No job is in the list twice.
Once(s) == \A m, n \in DOMAIN s : s[m] = s[n] => m = n

LEMMA AppendList ==
    ASSUME NEW s \in Seq(Jobs), NEW j \in Jobs
    PROVE  /\ Append(s, j) \in Seq(Jobs) /\ ToSet(Append(s, j)) = ToSet(s) \cup {j}
           /\ Once(s) /\ j \notin ToSet(s) => Once(Append(s, j))
  <1>1. PICK n : n = Len(s) + 1
    OBVIOUS
  <1>2. PICK t : t = Append(s, j)
    OBVIOUS
  <1>3. /\ t \in Seq(Jobs) /\ DOMAIN t = DOMAIN s \cup {n} /\ t[n] = j /\ n \notin DOMAIN s
        /\ \A i \in DOMAIN s : t[i] = s[i]
    BY <1>1, <1>2
  <1>4. ToSet(t) = ToSet(s) \cup {j}
    BY <1>3 DEF ToSet
  <1>5. ASSUME Once(s), j \notin ToSet(s) PROVE Once(t)
    BY <1>3, <1>5 DEF Once, ToSet
  <1>6. QED
    BY <1>2, <1>3, <1>4, <1>5

LEMMA TailList ==
    ASSUME NEW s \in Seq(Jobs), s # <<>>
    PROVE  /\ Head(s) \in ToSet(s) /\ Tail(s) \in Seq(Jobs)
           /\ Once(s) => Once(Tail(s)) /\ ToSet(Tail(s)) = ToSet(s) \ {Head(s)}
  <1>1. PICK t : t = Tail(s)
    OBVIOUS
  <1>2. /\ Len(s) \in Nat /\ Len(s) > 0 /\ DOMAIN s = 1 .. Len(s) /\ Head(s) = s[1]
        /\ t \in Seq(Jobs) /\ Len(t) = Len(s) - 1 /\ DOMAIN t = 1 .. Len(t)
        /\ \A i \in DOMAIN t : t[i] = s[i + 1]
    BY <1>1
  <1>3. \A i \in DOMAIN t : i + 1 \in DOMAIN s /\ i + 1 # 1
    BY <1>2
  <1>4. \A i \in DOMAIN s : i = 1 \/ (i - 1 \in DOMAIN t /\ t[i - 1] = s[i])
    BY <1>2
  <1>5. Head(s) \in ToSet(s)
    BY <1>2 DEF ToSet
  <1>6. ASSUME Once(s) PROVE Once(t)
    <2>1. ASSUME NEW m \in DOMAIN t, NEW n \in DOMAIN t, t[m] = t[n] PROVE m = n
      <3>1. s[m + 1] = s[n + 1] /\ m + 1 \in DOMAIN s /\ n + 1 \in DOMAIN s
        BY <1>2, <1>3, <2>1
      <3>2. m + 1 = n + 1 /\ m \in Nat /\ n \in Nat
        BY <1>2, <1>6, <3>1 DEF Once
      <3>3. QED
        BY <3>2
    <2>2. QED
      BY <2>1 DEF Once
  <1>7. ASSUME Once(s) PROVE ToSet(t) = ToSet(s) \ {Head(s)}
    <2>1. 1 \in DOMAIN s
      BY <1>2
    <2>2. ASSUME NEW j \in ToSet(t) PROVE j \in ToSet(s) \ {Head(s)}
      <3>1. PICK i \in DOMAIN t : t[i] = j
        BY DEF ToSet
      <3>2. s[i + 1] = j /\ i + 1 \in DOMAIN s /\ i + 1 # 1
        BY <1>2, <1>3, <3>1
      <3>3. s[i + 1] # s[1]
        BY <1>7, <2>1, <3>2 DEF Once
      <3>4. QED
        BY <1>2, <3>2, <3>3 DEF ToSet
    <2>3. ASSUME NEW j \in ToSet(s) \ {Head(s)} PROVE j \in ToSet(t)
      <3>1. PICK i \in DOMAIN s : s[i] = j
        BY DEF ToSet
      <3>2. i # 1
        BY <1>2, <3>1
      <3>3. i - 1 \in DOMAIN t /\ t[i - 1] = j
        BY <1>4, <3>1, <3>2
      <3>4. QED
        BY <3>3 DEF ToSet
    <2>4. QED
      BY <2>2, <2>3
  <1>8. QED
    BY <1>1, <1>2, <1>5, <1>6, <1>7

LEMMA Joined ==
    ASSUME NEW x \in Seq(Jobs), NEW y \in Seq(Jobs)
    PROVE  /\ x \o y \in Seq(Jobs) /\ Len(x \o y) = Len(x) + Len(y)
           /\ \A i \in 1 .. Len(x) + Len(y) :
                 (x \o y)[i] = IF i <= Len(x) THEN x[i] ELSE y[i - Len(x)]
  OBVIOUS

\* Taking the only entry of a job out of the list.
LEMMA WithoutList ==
    ASSUME NEW s \in Seq(Jobs), Once(s), NEW j
    PROVE  /\ Without(s, j) \in Seq(Jobs) /\ Once(Without(s, j))
           /\ ToSet(Without(s, j)) = ToSet(s) \ {j}
  <1>1. CASE j \notin ToSet(s)
    <2>1. Without(s, j) = s
      BY <1>1 DEF Without, RemoveFirst, ToSet
    <2>2. QED
      BY <1>1, <2>1
  <1>2. CASE j \in ToSet(s)
    <2>1. /\ Len(s) \in Nat /\ DOMAIN s = 1 .. Len(s)
      OBVIOUS
    <2>2. PICK k \in DOMAIN s : s[k] = j
      BY <1>2 DEF ToSet
    <2>3. {i \in 1 .. Len(s) : s[i] = j} = {k}
      BY <2>1, <2>2 DEF Once
    <2>4. SelectInSeq(s, LAMBDA v : v = j) = k
      BY <2>1, <2>3 DEF SelectInSeq, Min
    <2>5. PICK t : t = SubSeq(s, 1, k - 1) \o SubSeq(s, k + 1, Len(s))
      OBVIOUS
    <2>6. Without(s, j) = t
      BY <2>1, <2>2, <2>4, <2>5 DEF Without, RemoveFirst, RemoveAt
    <2>7. /\ t \in Seq(Jobs) /\ Len(t) = Len(s) - 1 /\ DOMAIN t = 1 .. Len(t)
          /\ \A i \in DOMAIN t : t[i] = IF i < k THEN s[i] ELSE s[i + 1]
      <3>1. PICK x : x = SubSeq(s, 1, k - 1)
        OBVIOUS
      <3>2. PICK y : y = SubSeq(s, k + 1, Len(s))
        OBVIOUS
      <3>3. /\ x \in Seq(Jobs) /\ Len(x) = k - 1
            /\ \A i \in 1 .. k - 1 : x[i] = s[i]
        BY <2>1, <2>2, <3>1
      <3>4. /\ y \in Seq(Jobs) /\ Len(y) = Len(s) - k
            /\ \A i \in 1 .. Len(s) - k : y[i] = s[i + k]
        BY <2>1, <2>2, <3>2
      <3>5. t = x \o y
        BY <2>5, <3>1, <3>2
      <3>6. k \in Nat /\ k >= 1 /\ k <= Len(s)
        BY <2>1, <2>2
      <3>7. /\ t \in Seq(Jobs) /\ Len(t) = Len(x) + Len(y)
            /\ \A i \in 1 .. Len(t) : t[i] = IF i <= Len(x) THEN x[i] ELSE y[i - Len(x)]
        <4>1. x \in Seq(Jobs) /\ y \in Seq(Jobs)
          BY <3>3, <3>4
        <4>2. t \in Seq(Jobs) /\ Len(t) = Len(x) + Len(y)
          BY <3>5, <4>1, Joined
        <4>3. \A i \in 1 .. Len(x) + Len(y) : t[i] = IF i <= Len(x) THEN x[i] ELSE y[i - Len(x)]
          BY <3>5, <4>1, Joined, Zenon
        <4>4. QED
          BY <4>2, <4>3
      <3>8. Len(t) = Len(s) - 1 /\ DOMAIN t = 1 .. Len(t)
        BY <2>1, <3>3, <3>4, <3>6, <3>7
      <3>9. ASSUME NEW i \in DOMAIN t PROVE t[i] = IF i < k THEN s[i] ELSE s[i + 1]
        <4>1. i \in Nat /\ 1 <= i /\ i <= Len(s) - 1
          BY <2>1, <3>8
        <4>2. CASE i < k
          BY <2>1, <3>3, <3>6, <3>7, <3>8, <4>1, <4>2
        <4>3. CASE ~(i < k)
          <5>1. t[i] = y[i - (k - 1)]
            BY <2>1, <3>3, <3>6, <3>7, <3>8, <4>1, <4>3
          <5>2. i - (k - 1) \in 1 .. Len(s) - k /\ i - (k - 1) + k = i + 1
            BY <2>1, <3>6, <4>1, <4>3
          <5>3. QED
            BY <3>4, <4>3, <5>1, <5>2
        <4>4. QED
          BY <4>2, <4>3
      <3>10. QED
        BY <3>7, <3>8, <3>9
    <2>8. PICK at : at = [i \in DOMAIN t |-> IF i < k THEN i ELSE i + 1]
      OBVIOUS
    <2>9. \A i \in DOMAIN t : at[i] \in DOMAIN s /\ at[i] # k /\ t[i] = s[at[i]]
      BY <2>1, <2>7, <2>8
    <2>10. \A m, n \in DOMAIN t : at[m] = at[n] => m = n
      BY <2>7, <2>8
    <2>11. \A n \in DOMAIN s : n = k \/ \E i \in DOMAIN t : at[i] = n
      <3>1. ASSUME NEW n \in DOMAIN s, n < k PROVE n \in DOMAIN t /\ at[n] = n
        BY <2>1, <2>7, <2>8, <3>1
      <3>2. ASSUME NEW n \in DOMAIN s, n > k PROVE n - 1 \in DOMAIN t /\ at[n - 1] = n
        BY <2>1, <2>7, <2>8, <3>2
      <3>3. \A n \in DOMAIN s : n = k \/ n < k \/ n > k
        BY <2>1
      <3>4. QED
        BY <3>1, <3>2, <3>3
    <2>12. Once(t)
      BY <2>9, <2>10 DEF Once
    <2>13. ToSet(t) = ToSet(s) \ {j}
      BY <2>2, <2>9, <2>11 DEF Once, ToSet
    <2>14. QED
      BY <2>6, <2>7, <2>12, <2>13
  <1>3. QED
    BY <1>1, <1>2

-----------------------------------------------------------------------------
(* The inductive invariants.                                               *)

\* Jobs with files that the list need not name.
Missing ==
    orphans \cup (IF pc = "evicting" THEN {victim} ELSE {})
            \cup (IF pc = "writing" THEN {cur} ELSE {})

\* Only an eviction or an expiry unlinks, and it ends with its last file.
Unlinking ==
    /\ victim # None => pc \in {"evicting", "expiring"} /\ files[victim] # {}
    /\ pc = "expiring" => victim # None

NewIsEmpty == \A j \in Jobs : mtime[j] = None => files[j] = {}

Listed ==
    /\ Once(lru) /\ ToSet(lru) \subseteq OnDisk
    /\ pc # "down" => OnDisk \ ToSet(lru) \subseteq Missing
    /\ pc = "evicting" => victim \notin ToSet(lru)
    /\ pc = "writing" => cur \notin ToSet(lru)

\* Files are lost to errors after they were counted, and never added.
Counted == \A j \in ToSet(lru) : files[j] \subseteq counted[j]

ListInv == TypeOK /\ Unlinking /\ NewIsEmpty /\ Listed /\ Counted

\* The files of a job are its last ones, and all of them unless they are being
\* unlinked or their unlinking was interrupted.
IsTail(j) == \E k \in Chunks(j) : files[j] = k .. NChunks[j] - 1
Part(j) == files[j] = {} \/ (IsTail(j) /\ (files[j] = Chunks(j) \/ j = victim \/ j \in cutShort))

ReadersInv ==
    /\ \A j \in accepted : mtime[j] # None /\ Part(j)
    /\ pc = "writing" => cur \notin accepted
    /\ pc \in {"evicting", "accepting"} => mtime[cur] # None /\ Part(cur)
    /\ PartsAreTails

-----------------------------------------------------------------------------
(* Chunks and bytes.                                                       *)

LEMMA ChunkCount ==
    ASSUME NEW j \in Jobs
    PROVE  /\ IsFiniteSet(Chunks(j)) /\ Cardinality(Chunks(j)) = NChunks[j]
           /\ NChunks[j] \in Nat /\ NChunks[j] # 0 /\ Chunks(j) # {}
  <1>1. NChunks[j] \in Nat /\ NChunks[j] # 0
    BY CacheAssumption
  <1>2. PICK n \in Int : n = NChunks[j] - 1
    BY <1>1
  <1>3. IsFiniteSet(0 .. n) /\ Cardinality(0 .. n) = NChunks[j]
    <2>1. IsFiniteSet(0 .. n) /\ Cardinality(0 .. n) = IF 0 > n THEN 0 ELSE n - 0 + 1
      BY FS_Interval
    <2>2. (IF 0 > n THEN 0 ELSE n - 0 + 1) = NChunks[j]
      BY <1>1, <1>2
    <2>3. QED
      BY <2>1, <2>2
  <1>4. 0 \in Chunks(j)
    BY <1>1 DEF Chunks
  <1>5. QED
    BY <1>1, <1>2, <1>3, <1>4 DEF Chunks

LEMMA NextIsChunk ==
    ASSUME TypeOK, NEW j \in Jobs, ~Written(j)
    PROVE  NextIndex(j) \in Chunks(j)
  <1>1. files[j] \in SUBSET Chunks(j) /\ files[j] # Chunks(j)
    BY DEF TypeOK, Written
  <1>2. IsFiniteSet(Chunks(j)) /\ Cardinality(Chunks(j)) = NChunks[j] /\ NChunks[j] \in Nat
    BY ChunkCount
  <1>3. /\ IsFiniteSet(files[j]) /\ Cardinality(files[j]) <= Cardinality(Chunks(j))
        /\ Cardinality(Chunks(j)) = Cardinality(files[j]) => Chunks(j) = files[j]
    BY <1>1, <1>2, FS_Subset
  <1>4. Cardinality(files[j]) \in Nat
    BY <1>3, FS_CardinalityType
  <1>5. PICK k : k = Cardinality(files[j])
    OBVIOUS
  <1>6. k \in Nat /\ k <= NChunks[j] /\ k # NChunks[j]
    BY <1>1, <1>2, <1>3, <1>4, <1>5
  <1>7. QED
    BY <1>2, <1>5, <1>6 DEF NextIndex, Chunks

LEMMA BytesOfNone == ASSUME NEW f PROVE Bytes(f, {}) = 0
  <1>1. UNION {{j} \X f[j] : j \in {}} = {}
    OBVIOUS
  <1>2. QED
    BY <1>1, FS_EmptySet DEF Bytes

\* Fewer jobs with fewer chunks are not more bytes.
LEMMA BytesGrow ==
    ASSUME NEW f, NEW g, NEW S, NEW T \in SUBSET Jobs,
           \A j \in T : g[j] \subseteq Chunks(j),
           \A j \in S : f[j] = {} \/ (j \in T /\ f[j] \subseteq g[j])
    PROVE  Bytes(f, S) \in Nat /\ Bytes(g, T) \in Nat /\ Bytes(f, S) <= Bytes(g, T)
  <1> DEFINE U == {{j} \X g[j] : j \in T}
             V == {{j} \X f[j] : j \in S}
  <1>1. IsFiniteSet(U)
    <2>1. PICK h : h = [j \in T |-> {j} \X g[j]]
      OBVIOUS
    <2>2. h \in Surjection(T, U)
      BY <2>1 DEF Surjection
    <2>3. IsFiniteSet(T)
      BY CacheAssumption, FS_Subset
    <2>4. QED
      BY <2>2, <2>3, FS_Surjection
  <1>2. ASSUME NEW j \in T PROVE IsFiniteSet({j} \X g[j])
    <2>1. IsFiniteSet(g[j])
      BY ChunkCount, FS_Subset
    <2>2. QED
      BY <2>1, FS_Singleton, FS_Product
  <1>3. IsFiniteSet(UNION U)
    BY <1>1, <1>2, FS_UNION
  <1>4. UNION V \subseteq UNION U
    <2>1. ASSUME NEW j \in S, NEW x \in {j} \X f[j]
          PROVE  x \in UNION U
      <3>1. j \in T /\ x \in {j} \X g[j]
        BY <2>1
      <3>2. QED
        BY <3>1
    <2>2. QED
      BY <2>1
  <1>5. /\ IsFiniteSet(UNION V) /\ Cardinality(UNION V) <= Cardinality(UNION U)
        /\ Cardinality(UNION V) \in Nat /\ Cardinality(UNION U) \in Nat
    BY <1>3, <1>4, FS_Subset, FS_CardinalityType
  <1>6. QED
    BY <1>5 DEF Bytes

\* Something is in the list when there is too much of it.
LEMMA OverCapLists ==
    ASSUME TypeOK, EvictNext
    PROVE  lru # <<>>
  <1>1. ToSet(<<>>) = {}
    BY DEF ToSet
  <1>2. MaxBytes \in Nat /\ Bytes(counted, {}) = 0
    BY CacheAssumption, BytesOfNone
  <1>3. Bytes(counted, ToSet(lru)) > MaxBytes
    BY DEF EvictNext, OverCap
  <1>4. ~(0 > MaxBytes)
    BY <1>2
  <1>5. QED
    BY <1>1, <1>2, <1>3, <1>4

-----------------------------------------------------------------------------
(* The start.                                                              *)

LEMMA ScanLists ==
    ASSUME TypeOK, Start
    PROVE  lru' \in Seq(Jobs) /\ Once(lru') /\ ToSet(lru') = OnDisk
  <1>1. OnDisk \subseteq Jobs /\ IsFiniteSet(OnDisk)
    BY CacheAssumption, FS_Subset DEF OnDisk
  <1>2. PICK n \in Nat : n = Cardinality(OnDisk)
    BY <1>1, FS_CardinalityType
  <1>3. PICK s : s = lru'
    OBVIOUS
  <1>4. s \in [1 .. n -> OnDisk] /\ \A i, k \in 1 .. n : i # k => s[i] # s[k]
    BY <1>2, <1>3 DEF Start, SetToSeqs
  <1>5. s \in Seq(Jobs) /\ DOMAIN s = 1 .. n
    BY <1>1, <1>4
  <1>6. IsFiniteSet(1 .. n) /\ Cardinality(1 .. n) = n
    <2>1. IsFiniteSet(1 .. n) /\ Cardinality(1 .. n) = IF 1 > n THEN 0 ELSE n - 1 + 1
      BY FS_Interval
    <2>2. (IF 1 > n THEN 0 ELSE n - 1 + 1) = n
      OBVIOUS
    <2>3. QED
      BY <2>1, <2>2
  <1>7. s \in Injection(1 .. n, OnDisk)
    BY <1>4 DEF Injection, IsInjective
  <1>8. s \in Surjection(1 .. n, OnDisk)
    BY <1>1, <1>2, <1>6, <1>7, FS_Injection
  <1>9. ToSet(s) = OnDisk
    BY <1>4, <1>5, <1>8 DEF Surjection, ToSet
  <1>10. Once(s)
    BY <1>4, <1>5 DEF Once
  <1>11. QED
    BY <1>3, <1>5, <1>9, <1>10

LEMMA ListLength ==
    ASSUME NEW s \in Seq(Jobs), Once(s), IsFiniteSet(ToSet(s))
    PROVE  Len(s) = Cardinality(ToSet(s))
  <1>1. Len(s) \in Nat /\ DOMAIN s = 1 .. Len(s)
    OBVIOUS
  <1>2. IsFiniteSet(1 .. Len(s)) /\ Cardinality(1 .. Len(s)) = Len(s)
    <2>1. /\ IsFiniteSet(1 .. Len(s))
          /\ Cardinality(1 .. Len(s)) = IF 1 > Len(s) THEN 0 ELSE Len(s) - 1 + 1
      BY <1>1, FS_Interval
    <2>2. (IF 1 > Len(s) THEN 0 ELSE Len(s) - 1 + 1) = Len(s)
      BY <1>1
    <2>3. QED
      BY <2>1, <2>2
  <1>3. s \in Injection(1 .. Len(s), ToSet(s))
    BY <1>1 DEF Injection, IsInjective, Once, ToSet
  <1>4. s \in Surjection(1 .. Len(s), ToSet(s))
    BY <1>1, <1>3 DEF Surjection, Injection, ToSet
  <1>5. QED
    BY <1>2, <1>3, <1>4, FS_Injection

-----------------------------------------------------------------------------
(* Types.                                                                  *)

LEMMA FileAddedType ==
    ASSUME TypeOK, pc = "writing", ~Written(cur), FileAdded
    PROVE  /\ cur \in Jobs /\ files' \in [Jobs -> SUBSET Nat]
           /\ \A j \in Jobs : files'[j] \subseteq Chunks(j)
           /\ mtime' \in [Jobs -> 0 .. MaxTime \cup {None}]
           /\ \A j \in Jobs : j # cur => files'[j] = files[j] /\ mtime'[j] = mtime[j]
           /\ files'[cur] # {} /\ mtime'[cur] = now /\ now # None
  <1>1. cur \in Jobs /\ now \in Nat /\ now # None
    BY CacheAssumption DEF TypeOK
  <1>2. NextIndex(cur) \in Chunks(cur) /\ Chunks(cur) \subseteq Nat
    BY <1>1, NextIsChunk DEF Chunks
  <1>3. files' = [files EXCEPT ![cur] = files[cur] \cup {NextIndex(cur)}]
    BY DEF FileAdded
  <1>4. files' \in [Jobs -> SUBSET Nat] /\ \A j \in Jobs : files'[j] \subseteq Chunks(j)
    BY <1>1, <1>2, <1>3 DEF TypeOK
  <1>5. mtime' \in [Jobs -> 0 .. MaxTime \cup {None}]
    BY <1>1 DEF FileAdded, TypeOK
  <1>6. QED
    BY <1>1, <1>3, <1>4, <1>5 DEF FileAdded, TypeOK

LEMMA UnlinkedType ==
    ASSUME TypeOK, Unlinking, Unlink
    PROVE  /\ victim \in Jobs /\ pc \in {"evicting", "expiring"}
           /\ files' \in [Jobs -> SUBSET Nat]
           /\ \A j \in Jobs : files'[j] \subseteq files[j]
           /\ \A j \in Jobs : j # victim => files'[j] = files[j]
           /\ files'[victim] = files[victim] \ {Min(files[victim])}
  <1>1. victim \in Jobs /\ pc \in {"evicting", "expiring"}
    BY DEF Unlink, TypeOK, Unlinking
  <1>2. files' = [files EXCEPT ![victim] = files[victim] \ {Min(files[victim])}]
    BY DEF Unlink
  <1>3. QED
    BY <1>1, <1>2 DEF TypeOK

LEMMA TypeStep ==
    ASSUME ListInv, [Next]_vars
    PROVE  TypeOK'
  <1>1. /\ TypeOK /\ Unlinking /\ Listed /\ None \notin Jobs
        /\ MaxTime \in Nat /\ MaxEnds \in Nat /\ MaxFaults \in Nat
    BY CacheAssumption DEF ListInv
  <1> USE DEF disk, work, seen
  <1>2. CASE \E j \in Jobs : BeginPut(j)
    BY <1>1, <1>2 DEF BeginPut, TypeOK
  <1>3. CASE \E j \in Jobs : Read(j)
    <2>1. PICK j \in Jobs : Read(j)
      BY <1>3
    <2>2. Without(lru, j) \in Seq(Jobs)
      BY <1>1, WithoutList DEF TypeOK, Listed
    <2>3. Append(Without(lru, j), j) \in Seq(Jobs)
      BY <2>2
    <2>4. CASE ReadMissing(j) \/ ReadStale(j)
      BY <1>1, <2>2, <2>4 DEF ReadMissing, ReadStale, TypeOK
    <2>5. CASE ReadFresh(j)
      <3>1. [job |-> j, chunks |-> files[j]] \in [job : Jobs, chunks : SUBSET Nat]
        BY <1>1 DEF TypeOK
      <3>2. QED
        BY <1>1, <2>3, <2>5, <3>1 DEF ReadFresh, TypeOK
    <2>6. QED
      BY <2>1, <2>4, <2>5 DEF Read
  <1>4. CASE WriteChunk
    BY <1>1, <1>4, FileAddedType DEF WriteChunk, TypeOK
  <1>5. CASE PutFails
    <2>1. /\ files' \in [Jobs -> SUBSET Nat] /\ \A j \in Jobs : files'[j] \subseteq Chunks(j)
          /\ mtime' \in [Jobs -> 0 .. MaxTime \cup {None}] /\ cur \in Jobs
      BY <1>1, <1>5, FileAddedType DEF PutFails, TypeOK
    <2>2. faults' \in 0 .. MaxFaults
      BY <1>1, <1>5 DEF PutFails, Fault, TypeOK
    <2>3. QED
      BY <1>1, <1>5, <2>1, <2>2 DEF PutFails, TypeOK
  <1>6. CASE PutWritten
    <2>1. cur \in Jobs
      BY <1>1, <1>6 DEF PutWritten, TypeOK
    <2>2. Append(lru, cur) \in Seq(Jobs)
      BY <1>1, <2>1 DEF TypeOK
    <2>3. Chunks(cur) \subseteq Nat
      BY DEF Chunks
    <2>4. /\ counted' \in [Jobs -> SUBSET Nat] /\ \A j \in Jobs : counted'[j] \subseteq Chunks(j)
      BY <1>1, <1>6, <2>1, <2>3 DEF PutWritten, TypeOK
    <2>5. QED
      BY <1>1, <1>6, <2>2, <2>4 DEF PutWritten, TypeOK
  <1>7. CASE EvictNext
    <2>1. lru # <<>>
      BY <1>7, <1>1, OverCapLists
    <2>2. Head(lru) \in Jobs /\ Tail(lru) \in Seq(Jobs)
      BY <1>1, <2>1 DEF TypeOK
    <2>3. QED
      BY <1>1, <1>7, <2>2 DEF EvictNext, TypeOK
  <1>8. CASE Unlink
    <2>1. /\ files' \in [Jobs -> SUBSET Nat] /\ \A j \in Jobs : files'[j] \subseteq Chunks(j)
      BY <1>1, <1>8, UnlinkedType DEF TypeOK
    <2>2. lru' \in Seq(Jobs)
      BY <1>1, <1>8, WithoutList DEF Unlink, TypeOK, Listed
    <2>3. /\ UNCHANGED <<mtime, counted, cur, seen, now, ends, faults>>
          /\ victim' \in {victim, None}
          /\ pc' = pc \/ (pc = "expiring" /\ pc' = "up")
      BY <1>8 DEF Unlink
    <2>4. /\ pc' \in {"down", "up", "writing", "evicting", "accepting", "expiring"}
          /\ pc' \in {"writing", "evicting", "accepting"} <=> cur' # None
      BY <1>1, <2>3 DEF TypeOK
    <2>5. QED
      BY <1>1, <2>1, <2>2, <2>3, <2>4 DEF TypeOK
  <1>9. CASE UnlinkFails
    <2>1. faults' \in 0 .. MaxFaults /\ victim \in Jobs
      BY <1>1, <1>9 DEF UnlinkFails, Fault, TypeOK
    <2>2. QED
      BY <1>1, <1>9, <2>1 DEF UnlinkFails, TypeOK
  <1>10. CASE PutReturns \/ Accept
    BY <1>1, <1>10 DEF PutReturns, Accept, TypeOK
  <1>11. CASE Crash
    <2>1. ends' \in 0 .. MaxEnds
      BY <1>1, <1>11 DEF Crash, TypeOK
    <2>2. cutShort' \subseteq Jobs /\ <<>> \in Seq(Jobs)
      BY <1>1, <1>11 DEF Crash, TypeOK
    <2>3. QED
      BY <1>1, <1>11, <2>1, <2>2 DEF Crash, TypeOK
  <1>12. CASE Start
    <2>1. lru' \in Seq(Jobs)
      BY <1>1, <1>12, ScanLists
    <2>2. QED
      BY <1>1, <1>12, <2>1 DEF Start, TypeOK
  <1>13. CASE Tick
    <2>1. now' \in 0 .. MaxTime
      BY <1>1, <1>13 DEF Tick, TypeOK
    <2>2. QED
      BY <1>1, <1>13, <2>1 DEF Tick, TypeOK
  <1>14. CASE UNCHANGED vars
    BY <1>1, <1>14 DEF vars, TypeOK
  <1>15. QED
    BY <1>2, <1>3, <1>4, <1>5, <1>6, <1>7, <1>8, <1>9, <1>10, <1>11, <1>12, <1>13, <1>14 DEF Next, Put

-----------------------------------------------------------------------------
(* The list and the disk.                                                  *)

LEMMA ListStep ==
    ASSUME ListInv, [Next]_vars
    PROVE  Unlinking' /\ NewIsEmpty' /\ Listed' /\ Counted'
  <1> DEFINE Goal == Unlinking' /\ NewIsEmpty' /\ Listed' /\ Counted'
  <1>1. /\ TypeOK /\ Unlinking /\ NewIsEmpty /\ Listed /\ Counted /\ None \notin Jobs
        /\ lru \in Seq(Jobs) /\ OnDisk \subseteq Jobs /\ ToSet(lru) \subseteq Jobs
    BY CacheAssumption DEF ListInv, TypeOK, OnDisk, Listed
  <1> USE DEF disk, work, seen
  <1>2. ASSUME NEW j \in Jobs, BeginPut(j) PROVE Goal
    <2>1. /\ pc = "up" /\ pc' = "writing" /\ cur' = j
          /\ UNCHANGED <<files, mtime, lru, counted, victim, orphans>>
      BY <1>2 DEF BeginPut
    <2>2. victim = None /\ j \notin OnDisk /\ OnDisk' = OnDisk
      BY <1>1, <1>2, <2>1 DEF BeginPut, Unlinking, NewIsEmpty, OnDisk
    <2>3. Listed'
      BY <1>1, <2>1, <2>2 DEF Listed, Missing
    <2>4. QED
      BY <1>1, <2>1, <2>2, <2>3 DEF Unlinking, NewIsEmpty, Counted
  <1>3. ASSUME NEW j \in Jobs, Read(j) PROVE Goal
    <2>1. /\ pc = "up" /\ UNCHANGED <<files, mtime, counted, cur, orphans>> /\ j \in Jobs
          /\ pc' = pc \/ pc' = "expiring"
      BY <1>3 DEF Read, ReadMissing, ReadStale, ReadFresh
    <2>2. victim = None /\ OnDisk' = OnDisk /\ NewIsEmpty'
      BY <1>1, <2>1 DEF Unlinking, NewIsEmpty, OnDisk
    <2>3. Once(lru) /\ ToSet(lru) \subseteq OnDisk /\ OnDisk \ ToSet(lru) \subseteq orphans
      BY <1>1, <2>1 DEF Listed, Missing
    <2>4. /\ Without(lru, j) \in Seq(Jobs) /\ Once(Without(lru, j))
          /\ ToSet(Without(lru, j)) = ToSet(lru) \ {j}
      BY <1>1, <2>3, WithoutList
    <2>5. Once(lru') /\ ToSet(lru') = ToSet(lru)
      <3>1. CASE ReadMissing(j)
        <4>1. lru' = Without(lru, j) /\ j \notin OnDisk
          BY <3>1 DEF ReadMissing
        <4>2. QED
          BY <2>3, <2>4, <4>1
      <3>2. CASE ReadStale(j)
        BY <2>3, <3>2 DEF ReadStale
      <3>3. CASE ReadFresh(j)
        <4>1. lru' = Append(Without(lru, j), j) /\ j \in ToSet(lru)
          BY <3>3 DEF ReadFresh
        <4>2. j \notin ToSet(Without(lru, j)) /\ ToSet(lru) = (ToSet(lru) \ {j}) \cup {j}
          BY <2>4, <4>1
        <4>3. /\ ToSet(Append(Without(lru, j), j)) = ToSet(Without(lru, j)) \cup {j}
              /\ Once(Append(Without(lru, j), j))
          BY <2>4, <4>2, AppendList
        <4>4. QED
          BY <2>4, <4>1, <4>2, <4>3
      <3>4. QED
        BY <1>3, <3>1, <3>2, <3>3 DEF Read
    <2>6. Listed'
      BY <2>1, <2>2, <2>3, <2>5 DEF Listed, Missing
    <2>7. Counted'
      BY <1>1, <2>1, <2>5 DEF Counted
    <2>8. Unlinking'
      <3>1. CASE ReadMissing(j) \/ ReadFresh(j)
        BY <2>1, <2>2, <3>1 DEF ReadMissing, ReadFresh, Unlinking
      <3>2. CASE ReadStale(j)
        BY <1>1, <2>1, <3>2 DEF ReadStale, OnDisk, Unlinking
      <3>3. QED
        BY <1>3, <3>1, <3>2 DEF Read
    <2>9. QED
      BY <2>2, <2>6, <2>7, <2>8
  <1>4. CASE WriteChunk \/ PutFails
    <2>1. /\ pc = "writing" /\ ~Written(cur) /\ cur \in Jobs
          /\ UNCHANGED <<lru, counted, victim>>
          /\ FileAdded \/ UNCHANGED <<files, mtime>>
          /\ \/ pc' = pc /\ cur' = cur /\ orphans' = orphans
             \/ pc' = "up" /\ orphans' = orphans \cup {cur}
      BY <1>1, <1>4 DEF WriteChunk, PutFails, TypeOK
    <2>2. /\ \A i \in Jobs : i # cur => files'[i] = files[i] /\ mtime'[i] = mtime[i]
          /\ mtime'[cur] = None => files'[cur] = {}
          /\ files[cur] # {} => files'[cur] # {}
      BY <1>1, <2>1, FileAddedType DEF NewIsEmpty
    <2>3. victim = None
      BY <1>1, <2>1 DEF Unlinking
    <2>4. OnDisk' \subseteq OnDisk \cup {cur} /\ OnDisk \subseteq OnDisk'
      BY <2>1, <2>2 DEF OnDisk
    <2>5. cur \notin ToSet(lru) /\ OnDisk \ ToSet(lru) \subseteq orphans \cup {cur}
      BY <1>1, <2>1 DEF Listed, Missing
    <2>6. Listed'
      BY <1>1, <2>1, <2>4, <2>5 DEF Listed, Missing
    <2>7. NewIsEmpty'
      BY <1>1, <2>2 DEF NewIsEmpty
    <2>8. Counted'
      BY <1>1, <2>1, <2>2, <2>5 DEF Counted
    <2>9. Unlinking'
      BY <2>1, <2>3 DEF Unlinking
    <2>10. QED
      BY <2>6, <2>7, <2>8, <2>9
  <1>5. CASE PutWritten
    <2>1. /\ pc = "writing" /\ pc' = "evicting" /\ cur \in Jobs /\ Written(cur)
          /\ lru' = Append(lru, cur) /\ counted' = [counted EXCEPT ![cur] = Chunks(cur)]
          /\ UNCHANGED <<files, mtime, cur, victim, orphans>>
      BY <1>1, <1>5 DEF PutWritten, TypeOK
    <2>2. victim = None /\ OnDisk' = OnDisk /\ NewIsEmpty'
      BY <1>1, <2>1 DEF Unlinking, NewIsEmpty, OnDisk
    <2>3. cur \in OnDisk
      BY <2>1, ChunkCount DEF Written, OnDisk
    <2>4. /\ Once(lru) /\ ToSet(lru) \subseteq OnDisk /\ cur \notin ToSet(lru)
          /\ OnDisk \ ToSet(lru) \subseteq orphans \cup {cur}
      BY <1>1, <2>1 DEF Listed, Missing
    <2>5. ToSet(lru') = ToSet(lru) \cup {cur} /\ Once(lru')
      BY <1>1, <2>1, <2>4, AppendList
    <2>6. Listed'
      BY <1>1, <2>1, <2>2, <2>3, <2>4, <2>5 DEF Listed, Missing
    <2>7. Counted'
      <3>1. counted'[cur] = files[cur]
        BY <1>1, <2>1 DEF Written, TypeOK
      <3>2. \A i \in Jobs : i # cur => counted'[i] = counted[i]
        BY <1>1, <2>1 DEF TypeOK
      <3>3. QED
        BY <1>1, <2>1, <2>5, <3>1, <3>2 DEF Counted
    <2>8. QED
      BY <2>1, <2>2, <2>6, <2>7 DEF Unlinking
  <1>6. CASE EvictNext
    <2>1. /\ pc = "evicting" /\ victim = None /\ victim' = Head(lru) /\ lru' = Tail(lru)
          /\ UNCHANGED <<files, mtime, counted, pc, cur, orphans>>
      BY <1>6 DEF EvictNext
    <2>2. lru # <<>>
      BY <1>1, <1>6, OverCapLists
    <2>3. /\ Once(lru) /\ ToSet(lru) \subseteq OnDisk /\ OnDisk' = OnDisk /\ NewIsEmpty'
          /\ OnDisk \ ToSet(lru) \subseteq orphans
      BY <1>1, <2>1 DEF Listed, Missing, OnDisk, NewIsEmpty
    <2>4. /\ Head(lru) \in ToSet(lru) /\ Once(Tail(lru))
          /\ ToSet(Tail(lru)) = ToSet(lru) \ {Head(lru)}
      BY <1>1, <2>2, <2>3, TailList
    <2>5. Listed'
      BY <2>1, <2>3, <2>4 DEF Listed, Missing
    <2>6. Unlinking'
      BY <2>1, <2>3, <2>4 DEF Unlinking, OnDisk
    <2>7. Counted'
      BY <1>1, <2>1, <2>4 DEF Counted
    <2>8. QED
      BY <2>3, <2>5, <2>6, <2>7
  <1>7. CASE Unlink
    <2>1. /\ victim \in Jobs /\ pc \in {"evicting", "expiring"} /\ files[victim] # {}
          /\ UNCHANGED <<mtime, counted, cur, orphans>>
          /\ \A i \in Jobs : i # victim => files'[i] = files[i]
          /\ \A i \in Jobs : files'[i] \subseteq files[i]
      BY <1>1, <1>7, UnlinkedType DEF Unlink, Unlinking
    <2>2. OnDisk' \ {victim} = OnDisk \ {victim} /\ NewIsEmpty' /\ victim \in OnDisk
      BY <1>1, <2>1 DEF OnDisk, NewIsEmpty
    <2>3. /\ Once(lru) /\ ToSet(lru) \subseteq OnDisk
          /\ pc = "evicting" => victim \notin ToSet(lru)
          /\ OnDisk \ ToSet(lru) \subseteq orphans \cup (IF pc = "evicting" THEN {victim} ELSE {})
      BY <1>1, <2>1 DEF Listed, Missing
    <2>4. CASE files'[victim] # {}
      <3>1. victim' = victim /\ pc' = pc /\ lru' = lru
        BY <1>7, <2>4 DEF Unlink
      <3>2. OnDisk' = OnDisk
        BY <2>1, <2>2, <2>4 DEF OnDisk
      <3>3. Listed'
        BY <1>1, <2>1, <3>1, <3>2 DEF Listed, Missing
      <3>4. Counted'
        BY <1>1, <2>1, <3>1 DEF Counted
      <3>5. QED
        BY <1>1, <2>1, <2>2, <2>4, <3>1, <3>3, <3>4 DEF Unlinking
    <2>5. CASE files'[victim] = {}
      <3>1. victim' = None /\ None \notin OnDisk' /\ OnDisk' = OnDisk \ {victim}
        BY <1>1, <1>7, <2>1, <2>2, <2>5 DEF Unlink, OnDisk
      <3>2. CASE pc = "expiring"
        <4>1. pc' = "up" /\ lru' = Without(lru, victim)
          BY <1>7, <2>5, <3>2 DEF Unlink
        <4>2. Once(lru') /\ ToSet(lru') = ToSet(lru) \ {victim}
          BY <1>1, <2>3, <4>1, WithoutList
        <4>3. Listed'
          BY <2>1, <2>3, <3>1, <3>2, <4>1, <4>2 DEF Listed, Missing
        <4>4. Counted'
          BY <1>1, <2>1, <4>2 DEF Counted
        <4>5. QED
          BY <2>2, <3>1, <4>1, <4>3, <4>4 DEF Unlinking
      <3>3. CASE pc = "evicting"
        <4>1. pc' = pc /\ lru' = lru
          BY <1>7, <2>5, <3>3 DEF Unlink
        <4>2. Listed'
          BY <1>1, <2>1, <2>3, <3>1, <3>3, <4>1 DEF Listed, Missing
        <4>3. Counted'
          BY <1>1, <2>1, <4>1 DEF Counted
        <4>4. QED
          BY <2>2, <3>1, <3>3, <4>1, <4>2, <4>3 DEF Unlinking
      <3>4. QED
        BY <2>1, <3>2, <3>3
    <2>6. QED
      BY <2>4, <2>5
  <1>8. CASE UnlinkFails
    <2>1. /\ victim # None /\ victim' = None /\ pc' = "up"
          /\ orphans' = IF pc = "evicting" THEN orphans \cup {victim} ELSE orphans
          /\ UNCHANGED <<files, mtime, lru, counted>>
      BY <1>8 DEF UnlinkFails
    <2>2. pc \in {"evicting", "expiring"}
      BY <1>1, <2>1 DEF Unlinking
    <2>3. Listed'
      BY <1>1, <2>1, <2>2 DEF Listed, Missing, OnDisk
    <2>4. QED
      BY <1>1, <2>1, <2>3 DEF Unlinking, NewIsEmpty, Counted
  <1>9. CASE PutReturns \/ Accept
    <2>1. /\ pc \in {"evicting", "accepting"} /\ pc' \in {"accepting", "up"}
          /\ UNCHANGED <<files, mtime, lru, counted, victim, orphans>>
      BY <1>9 DEF PutReturns, Accept
    <2>2. victim = None
      BY <1>1, <1>9 DEF PutReturns, Accept, Unlinking
    <2>3. OnDisk \subseteq Jobs /\ OnDisk' = OnDisk
      BY <1>1, <2>1 DEF OnDisk
    <2>4. Listed'
      BY <1>1, <2>1, <2>2, <2>3 DEF Listed, Missing
    <2>5. QED
      BY <1>1, <2>1, <2>2, <2>4 DEF Unlinking, NewIsEmpty, Counted
  <1>10. CASE Crash
    <2>1. pc' = "down" /\ lru' = <<>> /\ victim' = None /\ UNCHANGED <<files, mtime, counted>>
      BY <1>10 DEF Crash
    <2>2. ToSet(<<>>) = {}
      BY DEF ToSet
    <2>3. QED
      BY <1>1, <2>1, <2>2 DEF Unlinking, NewIsEmpty, Listed, Once, Counted
  <1>11. CASE Start
    <2>1. /\ pc = "down" /\ pc' = "up" /\ counted' = files
          /\ UNCHANGED <<files, mtime, cur, victim>>
      BY <1>11 DEF Start
    <2>2. Once(lru') /\ ToSet(lru') = OnDisk
      BY <1>1, <1>11, ScanLists
    <2>3. OnDisk' = OnDisk
      BY <2>1 DEF OnDisk
    <2>4. Listed' /\ Counted'
      BY <2>1, <2>2, <2>3 DEF Listed, Missing, Counted
    <2>5. QED
      BY <1>1, <2>1, <2>4 DEF Unlinking, NewIsEmpty
  <1>12. CASE Tick \/ UNCHANGED vars
    <2>1. UNCHANGED <<files, mtime, lru, counted, pc, cur, victim, orphans>>
      BY <1>12 DEF Tick, vars
    <2>2. QED
      BY <1>1, <2>1 DEF Unlinking, NewIsEmpty, Listed, Missing, OnDisk, Counted
  <1>13. QED
    BY <1>2, <1>3, <1>4, <1>5, <1>6, <1>7, <1>8, <1>9, <1>10, <1>11, <1>12 DEF Next, Put

\* For any jobs, ceiling, TTL, clock, ends of the process and calls that raise,
\* the list has each job once, with no fewer chunks than it has on disk, and a
\* job with files that the list lacks is the one at work or one whose put or
\* eviction raised.
THEOREM ListInvariant == Spec => []ListInv
  <1>1. Init => ListInv
    <2> SUFFICES ASSUME Init PROVE ListInv
      OBVIOUS
    <2>1. TypeOK
      BY CacheAssumption DEF Init, TypeOK
    <2>2. ToSet(<<>>) = {}
      BY DEF ToSet
    <2>3. Unlinking /\ NewIsEmpty /\ Listed /\ Counted
      BY <2>2 DEF Init, Unlinking, NewIsEmpty, Listed, Once, Counted
    <2>4. QED
      BY <2>1, <2>3 DEF ListInv
  <1>2. ListInv /\ [Next]_vars => ListInv'
    BY TypeStep, ListStep DEF ListInv
  <1>3. QED
    BY <1>1, <1>2, PTL DEF Spec

\* Between two calls the recency list has each job once, names only jobs that
\* have files, and misses none but those whose put or eviction raised.
THEOREM ListIsDisk == Spec => []LruIsDisk
  <1>1. ListInv => LruIsDisk
    <2> SUFFICES ASSUME ListInv, pc = "up"
                 PROVE  /\ Len(lru) = Cardinality(ToSet(lru))
                        /\ ToSet(lru) \subseteq OnDisk /\ OnDisk \ ToSet(lru) \subseteq orphans
      BY DEF LruIsDisk
    <2>1. lru \in Seq(Jobs) /\ Once(lru) /\ ToSet(lru) \subseteq OnDisk
      BY DEF ListInv, Listed, TypeOK
    <2>2. OnDisk \ ToSet(lru) \subseteq orphans
      BY DEF ListInv, Listed, Missing
    <2>3. IsFiniteSet(ToSet(lru))
      BY <2>1, CacheAssumption, FS_Subset DEF OnDisk
    <2>4. QED
      BY <2>1, <2>2, <2>3, ListLength
  <1>2. QED
    BY <1>1, ListInvariant, PTL

-----------------------------------------------------------------------------
(* The ceiling.                                                            *)

LEMMA CapStep ==
    ASSUME ListInv, CapAfterPut, [Next]_vars
    PROVE  CapAfterPut'
  <1> SUFFICES ASSUME pc' = "accepting" PROVE Bytes(files, Jobs \ orphans)' <= MaxBytes
    BY DEF CapAfterPut
  <1>1. /\ TypeOK /\ Unlinking /\ Listed /\ Counted /\ None \notin Jobs /\ OnDisk \subseteq Jobs
        /\ MaxBytes \in Nat
    BY CacheAssumption DEF ListInv, OnDisk
  <1>2. PutReturns \/ (pc = "accepting" /\ files' = files /\ orphans' = orphans)
    <2>1. CASE Unlink
      <3>1. victim # None /\ (pc' = pc \/ pc' = "up")
        BY <2>1 DEF Unlink
      <3>2. QED
        BY <1>1, <3>1 DEF Unlinking
    <2>2. CASE \E j \in Jobs : BeginPut(j) \/ Read(j)
      BY <2>2 DEF BeginPut, Read, ReadMissing, ReadStale, ReadFresh
    <2>3. CASE WriteChunk \/ PutFails \/ PutWritten \/ EvictNext \/ UnlinkFails
      BY <2>3 DEF WriteChunk, PutFails, PutWritten, EvictNext, UnlinkFails, work
    <2>4. CASE Accept \/ Crash \/ Start
      BY <2>4 DEF Accept, Crash, Start
    <2>5. CASE Tick \/ UNCHANGED vars
      BY <2>5 DEF Tick, vars, disk, work, seen
    <2>6. QED
      BY <2>1, <2>2, <2>3, <2>4, <2>5 DEF Next, Put
  <1>3. CASE PutReturns
    <2>1. /\ pc = "evicting" /\ victim = None /\ files' = files /\ orphans' = orphans
          /\ ~(Bytes(counted, ToSet(lru)) > MaxBytes)
      BY <1>3 DEF PutReturns, OverCap, disk, seen
    <2>2. ToSet(lru) \subseteq OnDisk /\ OnDisk \ ToSet(lru) \subseteq orphans
      BY <1>1, <2>1 DEF Listed, Missing
    <2>3. PICK S : S = Jobs \ orphans
      OBVIOUS
    <2>4. ToSet(lru) \in SUBSET Jobs /\ \A j \in ToSet(lru) : counted[j] \subseteq Chunks(j)
      BY <1>1, <2>2 DEF TypeOK
    <2>5. \A j \in S : files[j] = {} \/ (j \in ToSet(lru) /\ files[j] \subseteq counted[j])
      BY <1>1, <2>2, <2>3 DEF OnDisk, Counted
    <2>6. /\ Bytes(files, S) \in Nat /\ Bytes(counted, ToSet(lru)) \in Nat
          /\ Bytes(files, S) <= Bytes(counted, ToSet(lru))
      BY <2>4, <2>5, BytesGrow
    <2>7. Bytes(files, S) <= MaxBytes
      BY <1>1, <2>1, <2>6
    <2>8. QED
      BY <2>1, <2>3, <2>7 DEF Bytes
  <1>4. CASE pc = "accepting" /\ files' = files /\ orphans' = orphans
    BY <1>4 DEF CapAfterPut, Bytes
  <1>5. QED
    BY <1>2, <1>3, <1>4

\* Whatever is put, read, expired or left by an end of the process, a put that
\* returns leaves no more on disk than the ceiling allows, but for what a put or
\* an eviction that raised has orphaned.
THEOREM CeilingHolds == Spec => []CapAfterPut
  <1>1. Init => CapAfterPut
    BY DEF Init, CapAfterPut
  <1>2. ListInv /\ CapAfterPut /\ [Next]_vars => CapAfterPut'
    BY CapStep
  <1>3. QED
    BY <1>1, <1>2, ListInvariant, PTL DEF Spec

-----------------------------------------------------------------------------
(* What readers get.                                                       *)

\* All chunks are the last ones.
LEMMA WholeIsTail ==
    ASSUME NEW j \in Jobs, files[j] = Chunks(j)
    PROVE  IsTail(j)
  <1>1. 0 \in Chunks(j)
    BY CacheAssumption DEF Chunks
  <1>2. QED
    BY <1>1 DEF IsTail, Chunks

\* An interval loses its first element and is an interval still.
LEMMA FirstGoes ==
    ASSUME NEW k \in Int, NEW n \in Int, k <= n
    PROVE  (k .. n) \ {Min(k .. n)} = (k + 1) .. n
  <1>1. k \in k .. n /\ \A y \in k .. n : k <= y
    OBVIOUS
  <1>2. \A x \in k .. n : (\A y \in k .. n : x <= y) => x = k
    BY <1>1
  <1>3. Min(k .. n) \in k .. n /\ \A y \in k .. n : Min(k .. n) <= y
    BY <1>1 DEF Min
  <1>4. Min(k .. n) = k
    BY <1>2, <1>3
  <1>5. QED
    BY <1>4

\* The first file goes first, and the last ones stay.
LEMMA TailShrinks ==
    ASSUME TypeOK, Unlinking, Unlink, NEW v \in Jobs, v = victim, IsTail(v)
    PROVE  files'[v] = {} \/ IsTail(v)'
  <1>1. files'[v] = files[v] \ {Min(files[v])}
    BY UnlinkedType
  <1>2. PICK k \in Chunks(v) : files[v] = k .. NChunks[v] - 1
    BY DEF IsTail
  <1>3. NChunks[v] \in Nat /\ k \in Int /\ 0 <= k /\ k <= NChunks[v] - 1
    BY <1>2, ChunkCount DEF Chunks
  <1>4. PICK n \in Int : n = NChunks[v] - 1
    BY <1>3
  <1>5. (k .. n) \ {Min(k .. n)} = (k + 1) .. n
    BY <1>3, <1>4, FirstGoes
  <1>6. files[v] = k .. n
    BY <1>2, <1>4
  <1>7. files'[v] = (k + 1) .. NChunks[v] - 1
    BY <1>1, <1>4, <1>5, <1>6
  <1>8. CASE k + 1 <= NChunks[v] - 1
    <2>1. k + 1 \in Chunks(v)
      BY <1>3, <1>8 DEF Chunks
    <2>2. \E i \in Chunks(v) : files'[v] = i .. NChunks[v] - 1
      BY <1>7, <2>1
    <2>3. QED
      BY <2>2 DEF IsTail, Chunks
  <1>9. CASE ~(k + 1 <= NChunks[v] - 1)
    BY <1>3, <1>7, <1>9
  <1>10. QED
    BY <1>8, <1>9

LEMMA ReadersStep ==
    ASSUME ListInv, ReadersInv, [Next]_vars
    PROVE  ReadersInv'
  <1>1. /\ TypeOK /\ Unlinking /\ NewIsEmpty /\ None \notin Jobs /\ accepted \subseteq Jobs
        /\ PartsAreTails
    BY CacheAssumption DEF ListInv, TypeOK, ReadersInv
  <1> USE DEF disk, work, seen
  <1>2. CASE \E j \in Jobs : BeginPut(j)
    <2>1. PICK j \in Jobs : BeginPut(j)
      BY <1>2
    <2>2. j \notin accepted
      BY <2>1 DEF BeginPut, ReadersInv
    <2>3. /\ pc' = "writing" /\ cur' = j
          /\ UNCHANGED <<files, mtime, victim, accepted, served, cutShort>>
      BY <2>1 DEF BeginPut
    <2>4. QED
      BY <2>2, <2>3 DEF ReadersInv, Part, IsTail, PartsAreTails
  <1>3. CASE \E j \in Jobs : Read(j)
    <2>1. PICK j \in Jobs : Read(j)
      BY <1>3
    <2>2. /\ pc = "up" /\ pc' \in {"up", "expiring"} /\ j \in accepted
          /\ UNCHANGED <<files, mtime, accepted, cutShort>>
      BY <2>1 DEF Read, ReadMissing, ReadStale, ReadFresh
    <2>3. victim = None
      BY <1>1, <2>2 DEF Unlinking
    <2>4. \A i \in accepted : mtime'[i] # None /\ Part(i)'
      BY <1>1, <2>2, <2>3 DEF ReadersInv, Part, IsTail
    <2>5. PartsAreTails'
      <3>1. CASE served' = served
        BY <2>2, <3>1 DEF ReadersInv, PartsAreTails
      <3>2. CASE ReadFresh(j)
        <4>1. IsTail(j) /\ (files[j] = Chunks(j) \/ j \in cutShort)
          BY <1>1, <2>2, <2>3, <3>2 DEF ReadersInv, Part, ReadFresh, OnDisk
        <4>2. PICK r : r = [job |-> j, chunks |-> files[j]]
          OBVIOUS
        <4>3. /\ \E k \in Chunks(r.job) : r.chunks = k .. NChunks[r.job] - 1
              /\ r.chunks = Chunks(r.job) \/ r.job \in cutShort
          BY <4>1, <4>2 DEF IsTail
        <4>4. served' = served \cup {r}
          BY <3>2, <4>2 DEF ReadFresh
        <4>5. QED
          BY <1>1, <2>2, <4>3, <4>4 DEF PartsAreTails
      <3>3. QED
        BY <2>1, <3>1, <3>2 DEF Read, ReadMissing, ReadStale
    <2>6. QED
      BY <2>2, <2>4, <2>5 DEF ReadersInv
  <1>4. CASE WriteChunk \/ PutFails
    <2>1. /\ pc = "writing" /\ ~Written(cur) /\ cur \in Jobs /\ cur \notin accepted
          /\ FileAdded \/ UNCHANGED <<files, mtime>>
          /\ UNCHANGED <<victim, accepted, served, cutShort>>
          /\ (pc' = pc /\ cur' = cur) \/ pc' = "up"
      BY <1>1, <1>4 DEF WriteChunk, PutFails, ReadersInv, TypeOK
    <2>2. \A i \in Jobs : i # cur => files'[i] = files[i] /\ mtime'[i] = mtime[i]
      BY <1>1, <2>1, FileAddedType
    <2>3. \A i \in accepted : mtime'[i] # None /\ Part(i)'
      BY <1>1, <2>1, <2>2 DEF ReadersInv, Part, IsTail
    <2>4. QED
      BY <1>1, <2>1, <2>3 DEF ReadersInv, PartsAreTails
  <1>5. CASE PutWritten
    <2>1. /\ pc' = "evicting" /\ cur \in Jobs /\ files[cur] = Chunks(cur)
          /\ UNCHANGED <<files, mtime, cur, victim, accepted, served, cutShort>>
      BY <1>1, <1>5 DEF PutWritten, Written, TypeOK
    <2>2. mtime[cur] # None /\ IsTail(cur)
      BY <1>1, <2>1, ChunkCount, WholeIsTail DEF NewIsEmpty
    <2>3. Part(cur)
      BY <2>1, <2>2 DEF Part
    <2>4. QED
      BY <2>1, <2>2, <2>3 DEF ReadersInv, Part, IsTail, PartsAreTails
  <1>6. CASE EvictNext
    <2>1. /\ pc = "evicting" /\ victim = None
          /\ UNCHANGED <<files, mtime, pc, cur, accepted, served, cutShort>>
      BY <1>6 DEF EvictNext
    <2>2. cur # None /\ cur \in Jobs
      BY <1>1, <2>1 DEF TypeOK
    <2>3. \A i \in Jobs : Part(i) => Part(i)'
      BY <1>1, <2>1 DEF Part, IsTail
    <2>4. QED
      BY <1>1, <2>1, <2>2, <2>3 DEF ReadersInv, PartsAreTails
  <1>7. CASE Unlink
    <2>1. /\ victim \in Jobs /\ pc \in {"evicting", "expiring"}
          /\ UNCHANGED <<mtime, cur, accepted, served, cutShort>>
          /\ \A i \in Jobs : i # victim => files'[i] = files[i]
          /\ files'[victim] = {} \/ victim' = victim
          /\ pc' = pc \/ (pc = "expiring" /\ pc' = "up")
      BY <1>1, <1>7, UnlinkedType DEF Unlink
    <2>2. ASSUME NEW i \in Jobs, Part(i) PROVE Part(i)'
      <3>1. CASE i # victim
        BY <2>1, <2>2, <3>1 DEF Part, IsTail
      <3>2. CASE i = victim
        <4>1. IsTail(i) /\ i \in Jobs
          BY <1>1, <1>7, <2>2, <3>2 DEF Part, Unlink, Unlinking
        <4>2. files'[i] = {} \/ IsTail(i)'
          BY <1>1, <1>7, <3>2, <4>1, TailShrinks
        <4>3. CASE files'[i] = {}
          BY <4>3 DEF Part
        <4>4. CASE files'[i] # {}
          BY <2>1, <3>2, <4>2, <4>4 DEF Part, IsTail
        <4>5. QED
          BY <4>3, <4>4
      <3>3. QED
        BY <3>1, <3>2
    <2>3. pc \in {"evicting", "accepting"} => cur \in Jobs
      BY <1>1 DEF TypeOK
    <2>4. QED
      BY <1>1, <2>1, <2>2, <2>3 DEF ReadersInv, PartsAreTails
  <1>8. CASE UnlinkFails
    <2>1. /\ pc' = "up" /\ victim' = None /\ cutShort' = cutShort \cup {victim}
          /\ UNCHANGED <<files, mtime, accepted, served>>
      BY <1>8 DEF UnlinkFails
    <2>2. \A j \in Jobs : Part(j) => Part(j)'
      BY <1>1, <2>1 DEF Part, IsTail
    <2>3. PartsAreTails'
      BY <1>1, <2>1 DEF PartsAreTails
    <2>4. QED
      BY <1>1, <2>1, <2>2, <2>3 DEF ReadersInv
  <1>9. CASE PutReturns
    <2>1. /\ pc = "evicting" /\ pc' = "accepting"
          /\ UNCHANGED <<files, mtime, cur, victim, accepted, served, cutShort>>
      BY <1>9 DEF PutReturns
    <2>2. QED
      BY <2>1 DEF ReadersInv, Part, IsTail, PartsAreTails
  <1>10. CASE Accept
    <2>1. /\ pc = "accepting" /\ pc' = "up" /\ accepted' = accepted \cup {cur}
          /\ UNCHANGED <<files, mtime, victim, served, cutShort>>
      BY <1>10 DEF Accept
    <2>2. \A j : Part(j)' <=> Part(j)
      BY <2>1 DEF Part, IsTail
    <2>3. QED
      BY <2>1, <2>2 DEF ReadersInv, PartsAreTails
  <1>11. CASE Crash
    <2>1. /\ pc' = "down" /\ victim' = None /\ cutShort' = cutShort \cup ({victim} \ {None})
          /\ UNCHANGED <<files, mtime, accepted, served>>
      BY <1>11 DEF Crash
    <2>2. \A j \in Jobs : Part(j) => Part(j)'
      BY <1>1, <2>1 DEF Part, IsTail
    <2>3. PartsAreTails'
      BY <1>1, <2>1 DEF PartsAreTails
    <2>4. QED
      BY <1>1, <2>1, <2>2, <2>3 DEF ReadersInv
  <1>12. CASE Start
    <2>1. pc' = "up" /\ UNCHANGED <<files, mtime, cur, victim, accepted, served, cutShort>>
      BY <1>12 DEF Start
    <2>2. QED
      BY <2>1 DEF ReadersInv, Part, IsTail, PartsAreTails
  <1>13. CASE Tick \/ UNCHANGED vars
    <2>1. UNCHANGED <<files, mtime, pc, cur, victim, accepted, served, cutShort>>
      BY <1>13 DEF Tick, vars
    <2>2. QED
      BY <2>1 DEF ReadersInv, Part, IsTail, PartsAreTails
  <1>14. QED
    BY <1>2, <1>3, <1>4, <1>5, <1>6, <1>7, <1>8, <1>9, <1>10, <1>11, <1>12, <1>13 DEF Next, Put

\* Readers get the last chunks of a job, and all of them unless the unlinking of
\* that job's files was interrupted.
THEOREM ReadersGetTails == Spec => []PartsAreTails
  <1>1. Init => ReadersInv
    BY DEF Init, ReadersInv, PartsAreTails
  <1>2. ListInv /\ ReadersInv /\ [Next]_vars => ReadersInv'
    BY ReadersStep
  <1>3. ReadersInv => PartsAreTails
    BY DEF ReadersInv
  <1>4. QED
    BY <1>1, <1>2, <1>3, ListInvariant, PTL DEF Spec
=============================================================================
