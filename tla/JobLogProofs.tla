----------------------------- MODULE JobLogProofs -----------------------------
(* Proofs about JobLog, for any jobs, clocks, limits and numbers of appends,*)
(* interrupted writes and ends of the process: what was written is replayed,*)
(* a start makes room, and the file implements JobJournal.                  *)
EXTENDS JobLog, FiniteSetTheorems, WellFoundedInduction, TLAPS

\* A file is a sequence of records and of fragments.
Files == Seq(Record \cup {Torn})

-----------------------------------------------------------------------------
(* The least and the greatest of a set of places.                          *)

LEMMA LeastIs ==
    ASSUME NEW S, S \subseteq Nat, S # {}
    PROVE  Min(S) \in S /\ \A y \in S : Min(S) <= y
  <1>1. PICK x \in S : \A y \in S : ~(<<y, x>> \in OpToRel(<, Nat))
    BY NatLessThanWellFounded, WFMin
  <1>2. ASSUME NEW y \in S PROVE x <= y
    <2>1. ~(y < x)
      BY <1>1 DEF OpToRel
    <2>2. QED
      BY <2>1
  <1>3. QED
    BY <1>2 DEF Min

LEMMA GreatestIs ==
    ASSUME NEW n \in Nat, NEW S, S \subseteq 1 .. n, S # {}
    PROVE  Max(S) \in S /\ \A y \in S : y <= Max(S)
  <1> DEFINE R == {n - y : y \in S}
  <1>1. R \subseteq Nat /\ R # {}
    <2>1. \A y \in S : y \in Nat /\ n - y \in Nat
      OBVIOUS
    <2>2. R \subseteq Nat
      BY <2>1
    <2>3. PICK y \in S : TRUE
      OBVIOUS
    <2>4. n - y \in R
      BY <2>3
    <2>5. QED
      BY <2>2, <2>4
  <1>2. Min(R) \in R /\ \A z \in R : Min(R) <= z
    BY <1>1, LeastIs
  <1>3. PICK x \in S : Min(R) = n - x
    BY <1>2
  <1>4. ASSUME NEW y \in S PROVE x >= y
    <2>1. n - x <= n - y
      BY <1>2, <1>3
    <2>2. x \in Nat /\ y \in Nat
      OBVIOUS
    <2>3. QED
      BY <2>1, <2>2
  <1>5. \E m \in S : \A y \in S : m >= y
    BY <1>4
  <1>6. Max(S) \in S /\ \A y \in S : Max(S) >= y
    BY <1>5 DEF Max
  <1>7. QED
    BY <1>6

-----------------------------------------------------------------------------
(* What the replay of a file shows when a line is added.                   *)

LEMMA LineType ==
    ASSUME NEW f \in Files
    PROVE  /\ Len(f) \in Nat /\ DOMAIN f = 1 .. Len(f)
           /\ \A i \in DOMAIN f :
                /\ f[i] \in Record \cup {Torn} /\ f[i].job \in Jobs \cup {None}
                /\ f[i] = Torn <=> f[i].job = None
                /\ f[i] # Torn <=> f[i].event \in Events
  <1>1. Len(f) \in Nat /\ DOMAIN f = 1 .. Len(f) /\ \A i \in DOMAIN f : f[i] \in Record \cup {Torn}
    BY DEF Files
  <1>2. \A l \in Record : l.job \in Jobs /\ l.job # None /\ l.event \in Events /\ l # Torn
    BY LogAssumption DEF Record, Torn
  <1>3. Torn.job = None /\ Torn.event = "torn" /\ Torn.event \notin Events
    BY DEF Torn, Events, Terminal
  <1>4. QED
    BY <1>1, <1>2, <1>3

\* The places at which a job was accepted.
Acceptances(f, j) == {i \in DOMAIN f : f[i].job = j /\ f[i].event = "accepted"}

\* A file with a line added to it.
Added(g, f, l) == g = Append(f, l)

LEMMA AddLine ==
    ASSUME NEW f \in Files, NEW l \in Record \cup {Torn}, NEW g, Added(g, f, l)
    PROVE  /\ g \in Files
           /\ \A E : JobsOf(g, E) = JobsOf(f, E) \cup (IF l.event \in E THEN {l.job} ELSE {})
           /\ \A j : l.job # j \/ l.event = "accepted" => Latest(g, j) = Latest(f, j)
           /\ \A j : l.job = j /\ l.event # "accepted" => Latest(g, j) = l.event
           /\ \A j : l.job # j \/ l.event # "accepted" => AcceptedAt(g, j) = AcceptedAt(f, j)
  <1> DEFINE n == Len(f) + 1
  <1>1. g \in Files
    BY DEF Files, Added
  <1>2. /\ Len(f) \in Nat /\ DOMAIN f = 1 .. Len(f)
        /\ DOMAIN g = DOMAIN f \cup {n} /\ g[n] = l /\ n \notin DOMAIN f
        /\ \A i \in DOMAIN f : g[i] = f[i]
    BY DEF Files, Added
  <1>3. \A E : JobsOf(g, E) = JobsOf(f, E) \cup (IF l.event \in E THEN {l.job} ELSE {})
    BY <1>2 DEF JobsOf
  <1>4. ASSUME NEW j
        PROVE  /\ l.job # j \/ l.event = "accepted" => EventsAt(g, j) = EventsAt(f, j)
               /\ l.job = j /\ l.event # "accepted" => EventsAt(g, j) = EventsAt(f, j) \cup {n}
               /\ l.job # j \/ l.event # "accepted" => Acceptances(g, j) = Acceptances(f, j)
    BY <1>2 DEF EventsAt, Acceptances
  <1>5. ASSUME NEW j, l.job # j \/ l.event = "accepted"
        PROVE  Latest(g, j) = Latest(f, j)
    <2>1. CASE EventsAt(f, j) = {}
      BY <1>4, <1>5, <2>1 DEF Latest
    <2>2. CASE EventsAt(f, j) # {}
      <3>1. EventsAt(f, j) \subseteq 1 .. Len(f)
        BY <1>2 DEF EventsAt
      <3>2. Max(EventsAt(f, j)) \in DOMAIN f
        BY <1>2, <2>2, <3>1, GreatestIs
      <3>3. QED
        BY <1>2, <1>4, <1>5, <3>2 DEF Latest
    <2>3. QED
      BY <2>1, <2>2
  <1>6. ASSUME NEW j, l.job = j, l.event # "accepted"
        PROVE  Latest(g, j) = l.event
    <2>1. EventsAt(g, j) = EventsAt(f, j) \cup {n} /\ EventsAt(f, j) \subseteq 1 .. Len(f)
      BY <1>2, <1>4, <1>6 DEF EventsAt
    <2>2. EventsAt(g, j) \subseteq 1 .. n /\ n \in Nat /\ n \in EventsAt(g, j)
      BY <1>2, <2>1
    <2>3. Max(EventsAt(g, j)) \in 1 .. n /\ n <= Max(EventsAt(g, j))
      BY <2>2, GreatestIs
    <2>4. Max(EventsAt(g, j)) = n
      BY <2>2, <2>3
    <2>5. QED
      BY <1>2, <2>2, <2>4 DEF Latest
  <1>7. ASSUME NEW j, l.job # j \/ l.event # "accepted"
        PROVE  AcceptedAt(g, j) = AcceptedAt(f, j)
    <2>1. Acceptances(g, j) = Acceptances(f, j)
      BY <1>4, <1>7
    <2>2. QED
      BY <2>1 DEF AcceptedAt, Acceptances
  <1>8. QED
    BY <1>1, <1>3, <1>5, <1>6, <1>7

\* A pending job was accepted at the least of its places.
LEMMA AcceptedAtIs ==
    ASSUME NEW f \in Files, NEW j \in JobsOf(f, {"accepted"})
    PROVE  /\ AcceptedAt(f, j) \in Acceptances(f, j) /\ AcceptedAt(f, j) \in DOMAIN f
           /\ \A i \in Acceptances(f, j) : AcceptedAt(f, j) <= i
  <1>1. Acceptances(f, j) # {} /\ Acceptances(f, j) \subseteq Nat
    BY LineType DEF Acceptances, JobsOf
  <1>2. AcceptedAt(f, j) = Min(Acceptances(f, j))
    BY DEF AcceptedAt, Acceptances
  <1>3. QED
    BY <1>1, <1>2, LeastIs DEF Acceptances

-----------------------------------------------------------------------------
(* What the replay of a file shows when the records of ended jobs are left  *)
(* out of it and the others are copied in order.                            *)

\* g says where in f each line of t comes from.
IsCopy(t, f, K, g) ==
    /\ g \in [DOMAIN t -> K]
    /\ \A i \in DOMAIN t : t[i] = f[g[i]]
    /\ \A i, k \in DOMAIN t : i < k => g[i] < g[k]
    /\ \A n \in K : \E i \in DOMAIN t : g[i] = n

LEMMA CopyReplay ==
    ASSUME NEW f \in Files, NEW t \in Seq(Record), NEW D \in SUBSET (Jobs \ Pending(f)),
           NEW g, IsCopy(t, f, {i \in Replay(f) : f[i].job \notin D}, g)
    PROVE  /\ \A E \in SUBSET Events : JobsOf(t, E) = JobsOf(f, E) \ D
           /\ Pending(t) = Pending(f) /\ Ahead(t) = Ahead(f) /\ Stage(t) = Stage(f)
  <1> DEFINE K == {i \in Replay(f) : f[i].job \notin D}
  <1>1. /\ Len(f) \in Nat /\ DOMAIN f = 1 .. Len(f) /\ Len(t) \in Nat /\ DOMAIN t = 1 .. Len(t)
        /\ t \in Files
    BY LineType DEF Files
  <1>2. \A i \in DOMAIN f : f[i].event \in Events => i \in Replay(f)
    BY LineType DEF Replay
  <1>3. /\ \A i \in DOMAIN t : g[i] \in K /\ g[i] \in DOMAIN f /\ t[i] = f[g[i]]
        /\ \A n \in K : \E i \in DOMAIN t : g[i] = n
    BY DEF IsCopy, Replay
  <1>4. ASSUME NEW E \in SUBSET Events PROVE JobsOf(t, E) = JobsOf(f, E) \ D
    <2>1. ASSUME NEW j \in JobsOf(t, E) PROVE j \in JobsOf(f, E) \ D
      <3>1. PICK i \in DOMAIN t : t[i].event \in E /\ t[i].job = j
        BY DEF JobsOf
      <3>2. g[i] \in K /\ g[i] \in DOMAIN f /\ f[g[i]].event \in E /\ f[g[i]].job = j
        BY <1>3, <3>1
      <3>3. QED
        BY <3>2 DEF JobsOf
    <2>2. ASSUME NEW j \in JobsOf(f, E) \ D PROVE j \in JobsOf(t, E)
      <3>1. PICK n \in DOMAIN f : f[n].event \in E /\ f[n].job = j
        BY DEF JobsOf
      <3>2. n \in K
        BY <1>2, <3>1
      <3>3. PICK i \in DOMAIN t : g[i] = n
        BY <1>3, <3>2
      <3>4. QED
        BY <1>3, <3>1, <3>3 DEF JobsOf
    <2>3. QED
      BY <2>1, <2>2
  <1>5. /\ JobsOf(t, {"accepted"}) = JobsOf(f, {"accepted"}) \ D
        /\ Terminated(t) = Terminated(f) \ D
    BY <1>4 DEF Terminated, Events
  <1>6. Pending(t) = Pending(f)
    BY <1>5 DEF Pending
  <1>7. ASSUME NEW j \in Pending(f) PROVE Latest(t, j) = Latest(f, j)
    <2>1. j \notin D
      OBVIOUS
    <2>2. \A i \in DOMAIN t : i \in EventsAt(t, j) <=> g[i] \in EventsAt(f, j)
      BY <1>3 DEF EventsAt
    <2>3. \A n \in EventsAt(f, j) : n \in K
      <3>1. \A n \in DOMAIN f : f[n].job = j => f[n] # Torn
        BY LineType, LogAssumption DEF Pending, JobsOf, Torn
      <3>2. QED
        BY <2>1, <3>1 DEF EventsAt, Replay
    <2>4. CASE EventsAt(f, j) = {}
      BY <2>2, <2>4 DEF Latest, EventsAt
    <2>5. CASE EventsAt(f, j) # {}
      <3>1. PICK k \in DOMAIN t : g[k] \in EventsAt(f, j)
        BY <1>3, <2>3, <2>5
      <3>2. k \in EventsAt(t, j) /\ EventsAt(t, j) \subseteq DOMAIN t
        BY <2>2, <3>1 DEF EventsAt
      <3> DEFINE m == Max(EventsAt(t, j))
                 n == Max(EventsAt(f, j))
      <3>3. m \in EventsAt(t, j) /\ \A i \in EventsAt(t, j) : i <= m
        BY <1>1, <3>2, GreatestIs
      <3>4. EventsAt(f, j) \subseteq DOMAIN f
        BY DEF EventsAt
      <3>5. n \in EventsAt(f, j) /\ \A i \in EventsAt(f, j) : i <= n
        BY <1>1, <2>5, <3>4, GreatestIs
      <3>6. PICK x \in DOMAIN t : g[x] = n
        BY <1>3, <2>3, <3>5
      <3>7. x <= m /\ g[m] <= n /\ m \in DOMAIN t /\ n \in DOMAIN f
        BY <2>2, <3>2, <3>3, <3>4, <3>5, <3>6
      <3> HIDE DEF m, n
      <3>8. x = m
        <4>1. x < m => g[x] < g[m]
          BY <3>7 DEF IsCopy
        <4>2. g[m] \in Nat /\ n \in Nat /\ x \in Nat /\ m \in Nat
          BY <1>1, <1>3, <3>7
        <4>3. QED
          BY <3>6, <3>7, <4>1, <4>2
      <3>9. t[m] = f[n]
        BY <1>3, <3>6, <3>8
      <3>10. QED
        BY <2>5, <3>2, <3>9 DEF Latest, m, n
    <2>6. QED
      BY <2>4, <2>5
  <1>8. Stage(t) = Stage(f)
    BY <1>6, <1>7 DEF Stage
  <1>9. ASSUME NEW j \in Pending(f)
        PROVE  AcceptedAt(t, j) \in DOMAIN t /\ g[AcceptedAt(t, j)] = AcceptedAt(f, j)
    <2> DEFINE m == AcceptedAt(t, j)
               n == AcceptedAt(f, j)
    <2>1. /\ m \in Acceptances(t, j) /\ m \in DOMAIN t
          /\ \A i \in Acceptances(t, j) : m <= i
      BY <1>1, <1>6, AcceptedAtIs DEF Pending
    <2>2. /\ n \in Acceptances(f, j) /\ n \in DOMAIN f
          /\ \A i \in Acceptances(f, j) : n <= i
      BY AcceptedAtIs DEF Pending
    <2> HIDE DEF m, n
    <2>3. n \in K
      BY <1>2, <2>2 DEF Acceptances, Events
    <2>4. PICK x \in DOMAIN t : g[x] = n
      BY <1>3, <2>3
    <2>5. x \in Acceptances(t, j) /\ g[m] \in Acceptances(f, j)
      BY <1>3, <2>1, <2>2, <2>4 DEF Acceptances
    <2>6. m <= x /\ n <= g[m]
      BY <2>1, <2>2, <2>5
    <2>7. m < x => g[m] < g[x]
      BY <2>1 DEF IsCopy
    <2>8. m \in Nat /\ x \in Nat /\ n \in Nat /\ g[m] \in Nat
      BY <1>1, <1>3, <2>1, <2>2
    <2>9. x = m
      BY <2>4, <2>6, <2>7, <2>8
    <2>10. QED
      BY <2>1, <2>4, <2>9 DEF m, n
  <1>10. ASSUME NEW p \in Pending(f), NEW q \in Pending(f)
         PROVE  AcceptedAt(t, p) < AcceptedAt(t, q) <=> AcceptedAt(f, p) < AcceptedAt(f, q)
    <2> DEFINE a == AcceptedAt(t, p)
               b == AcceptedAt(t, q)
    <2>1. a \in DOMAIN t /\ b \in DOMAIN t /\ g[a] = AcceptedAt(f, p) /\ g[b] = AcceptedAt(f, q)
      BY <1>9
    <2> HIDE DEF a, b
    <2>2. (a < b => g[a] < g[b]) /\ (b < a => g[b] < g[a])
      BY <2>1 DEF IsCopy
    <2>3. a \in Nat /\ b \in Nat /\ g[a] \in Nat /\ g[b] \in Nat
      BY <1>1, <1>3, <2>1
    <2>4. a < b <=> g[a] < g[b]
      BY <2>2, <2>3
    <2>5. QED
      BY <2>1, <2>4 DEF a, b
  <1>11. Ahead(t) = Ahead(f)
    BY <1>6, <1>10 DEF Ahead
  <1>12. QED
    BY <1>4, <1>6, <1>8, <1>11

-----------------------------------------------------------------------------
(* Types, and which ids are used.                                          *)

\* An id that is anywhere in the log was used before.
Known ==
    /\ JobsOf(file, Events) \subseteq seen
    /\ raised \in seen \cup {None}
    /\ \A a \in acked : a[1] \in seen

\* While prune writes, tmp has the first of the kept records.
Copied ==
    pc = "pruning" =>
        \E g \in [DOMAIN tmp -> Kept] :
            \A i \in DOMAIN tmp : tmp[i] = file[g[i]] /\ KeptBefore(g[i]) = i - 1

LogInv == TypeOK /\ Known /\ Copied

LEMMA CountPlaces ==
    ASSUME NEW n \in Nat
    PROVE  IsFiniteSet(1 .. n) /\ Cardinality(1 .. n) = n
  <1>1. IsFiniteSet(1 .. n) /\ Cardinality(1 .. n) = IF 1 > n THEN 0 ELSE n - 1 + 1
    BY FS_Interval
  <1>2. (IF 1 > n THEN 0 ELSE n - 1 + 1) = n
    OBVIOUS
  <1>3. QED
    BY <1>1, <1>2

LEMMA FileType ==
    ASSUME TypeOK
    PROVE  /\ file \in Files /\ tmp \in Files /\ tmp \in Seq(Record)
           /\ IsFiniteSet(Replay(file)) /\ Cardinality(Replay(file)) \in Nat
           /\ Cardinality(Replay(file)) <= Len(file) /\ Len(file) \in Nat
           /\ Replay(file) \subseteq 1 .. Len(file)
           /\ JobsOf(file, Events) \subseteq Jobs /\ Pending(file) \subseteq Jobs
  <1>1. file \in Files /\ tmp \in Files /\ tmp \in Seq(Record)
    BY DEF TypeOK, Files
  <1>2. Len(file) \in Nat /\ Replay(file) \subseteq 1 .. Len(file)
    BY <1>1, LineType DEF Replay
  <1>3. IsFiniteSet(1 .. Len(file)) /\ Cardinality(1 .. Len(file)) = Len(file)
    BY <1>2, CountPlaces
  <1>4. IsFiniteSet(Replay(file)) /\ Cardinality(Replay(file)) <= Len(file)
    BY <1>2, <1>3, FS_Subset
  <1>5. Cardinality(Replay(file)) \in Nat
    BY <1>4, FS_CardinalityType
  <1>6. JobsOf(file, Events) \subseteq Jobs
    <2>1. \A i \in DOMAIN file : file[i].event \in Events => file[i].job \in Jobs
      BY <1>1, LineType
    <2>2. QED
      BY <2>1 DEF JobsOf
  <1>7. Pending(file) \subseteq JobsOf(file, Events)
    BY DEF Pending, JobsOf, Events
  <1>8. QED
    BY <1>1, <1>2, <1>4, <1>5, <1>6, <1>7

\* What an append does to the file, whether it returns or raises.
LEMMA AppendDoes ==
    ASSUME TypeOK, NEW j \in Jobs, NEW e \in Events,
           AppendReturns(j, e) \/ AppendRaises(j, e)
    PROVE  /\ MayAppend(j, e) /\ seen' = seen \cup {j} /\ pc = "up" /\ pc' = pc
           /\ tmp' = tmp
           /\ \/ file' = file
              \/ file' = Append(file, Torn)
              \/ \E l \in Record : l.job = j /\ l.event = e /\ file' = Append(file, l)
  <1>1. /\ MayAppend(j, e) /\ seen' = seen \cup {j} /\ pc = "up" /\ pc' = pc /\ tmp' = tmp
    BY DEF AppendReturns, AppendRaises, Attempted
  <1>2. CASE \E ts \in Stamps : file' = LineAdded([job |-> j, event |-> e, ts |-> ts])
    BY <1>1, <1>2 DEF LineAdded, Record
  <1>3. QED
    BY <1>1, <1>2 DEF AppendReturns, AppendRaises, LineAdded

\* The kept records are all but those of some ended jobs, and they fit unless
\* every ended job is dropped.
LEMMA KeptIs ==
    ASSUME TypeOK
    PROVE  \E D \in SUBSET Ended : Kept = KeptWithout(D) /\ (Fits(Kept) \/ D = Ended)
  <1>1. CASE Cardinality(Replay(file)) <= MaxRecords /\ Len(file) <= MaxBytes
    <2>1. Kept = Replay(file) /\ KeptWithout({}) = Replay(file)
      BY <1>1 DEF Kept, KeptWithout
    <2>2. Fits(Kept)
      BY <1>1, <2>1, FileType, LogAssumption DEF Fits
    <2>3. QED
      BY <2>1, <2>2
  <1>2. CASE ~(Cardinality(Replay(file)) <= MaxRecords /\ Len(file) <= MaxBytes)
    <2> DEFINE P == {D \in Oldest : Fits(KeptWithout(D)) \/ D = Ended}
    <2>1. Ended \in P
      BY DEF Oldest
    <2>2. IsFiniteSet(Ended)
      <3>1. Ended \subseteq Jobs
        BY FileType DEF Ended
      <3>2. QED
        BY <3>1, FS_Subset, LogAssumption
    <2>3. P \subseteq FiniteSubsetsOf(Ended)
      BY <2>2, FS_FiniteSubsetsOfFinite DEF Oldest
    <2>4. PICK D \in P : \A E \in P : ~(<<E, D>> \in StrictSubsetOrdering(Ended))
      <3>1. IsWellFoundedOn(StrictSubsetOrdering(Ended), FiniteSubsetsOf(Ended))
        BY FS_StrictSubsetOrderingWellFounded
      <3>2. QED
        BY <2>1, <2>3, <3>1, WFMin
    <2>5. ASSUME NEW E \in Oldest, E \subseteq D, E # D PROVE ~Fits(KeptWithout(E))
      <3>1. <<E, D>> \in StrictSubsetOrdering(Ended)
        BY <2>5 DEF StrictSubsetOrdering, Oldest
      <3>2. E \notin P
        BY <2>4, <3>1
      <3>3. QED
        BY <3>2
    <2>6. \E X \in Oldest : /\ Fits(KeptWithout(X)) \/ X = Ended
                            /\ \A E \in Oldest : E \subseteq X /\ E # X => ~Fits(KeptWithout(E))
      BY <2>4, <2>5
    <2>7. Dropped \in Oldest /\ (Fits(KeptWithout(Dropped)) \/ Dropped = Ended)
      BY <2>6 DEF Dropped
    <2>8. Dropped \in SUBSET Ended /\ Kept = KeptWithout(Dropped)
      BY <1>2, <2>7 DEF Oldest, Kept
    <2>9. QED
      BY <2>7, <2>8
  <1>3. QED
    BY <1>1, <1>2

LEMMA KeptType ==
    ASSUME TypeOK
    PROVE  /\ Kept \subseteq Replay(file) /\ IsFiniteSet(Kept) /\ Cardinality(Kept) \in Nat
           /\ \A n : KeptBefore(n) \in Nat
           /\ \A m \in Int, n \in Int : m <= n => KeptBefore(m) <= KeptBefore(n)
  <1>1. Kept \subseteq Replay(file)
    BY KeptIs DEF KeptWithout
  <1>2. IsFiniteSet(Kept) /\ Kept \subseteq Nat
    BY <1>1, FileType, FS_Subset
  <1>3. Cardinality(Kept) \in Nat
    BY <1>2, FS_CardinalityType
  <1>4. ASSUME NEW n PROVE IsFiniteSet({x \in Kept : x < n}) /\ KeptBefore(n) \in Nat
    <2>1. IsFiniteSet({x \in Kept : x < n})
      BY <1>2, FS_Subset
    <2>2. QED
      BY <2>1, FS_CardinalityType DEF KeptBefore
  <1>5. ASSUME NEW m \in Int, NEW n \in Int, m <= n PROVE KeptBefore(m) <= KeptBefore(n)
    <2>1. {x \in Kept : x < m} \subseteq {x \in Kept : x < n}
      <3>1. \A x \in Nat : x < m => x < n
        BY <1>5
      <3>2. QED
        BY <1>2, <3>1
    <2>2. IsFiniteSet({x \in Kept : x < n})
      BY <1>4
    <2>3. QED
      BY <2>1, <2>2, FS_Subset DEF KeptBefore
  <1>6. QED
    BY <1>1, <1>2, <1>3, <1>4, <1>5

\* When as many records are written as are kept, tmp is their copy.
LEMMA CopyIsWhole ==
    ASSUME LogInv, pc = "pruning", Len(tmp) = Cardinality(Kept)
    PROVE  \E g : IsCopy(tmp, file, Kept, g)
  <1>1. PICK g \in [DOMAIN tmp -> Kept] :
           \A i \in DOMAIN tmp : tmp[i] = file[g[i]] /\ KeptBefore(g[i]) = i - 1
    BY DEF LogInv, Copied
  <1>2. /\ Len(tmp) \in Nat /\ DOMAIN tmp = 1 .. Len(tmp) /\ Kept \subseteq Int
        /\ IsFiniteSet(Kept)
    BY KeptType, FileType, LineType DEF LogInv
  <1>3. ASSUME NEW i \in DOMAIN tmp, NEW k \in DOMAIN tmp, i < k PROVE g[i] < g[k]
    <2>1. g[i] \in Int /\ g[k] \in Int
      BY <1>2
    <2>2. g[k] <= g[i] => KeptBefore(g[k]) <= KeptBefore(g[i])
      BY <2>1, KeptType DEF LogInv
    <2>3. KeptBefore(g[k]) = k - 1 /\ KeptBefore(g[i]) = i - 1
      BY <1>1
    <2>4. i \in Int /\ k \in Int
      BY <1>2
    <2>5. ~(k - 1 <= i - 1)
      BY <1>3, <2>4
    <2>6. ~(g[k] <= g[i])
      BY <2>2, <2>3, <2>5
    <2>7. QED
      BY <2>1, <2>6
  <1>4. g \in Injection(DOMAIN tmp, Kept)
    <2>1. ASSUME NEW i \in DOMAIN tmp, NEW k \in DOMAIN tmp, g[i] = g[k] PROVE i = k
      <3>0. g[i] \in Int /\ g[k] \in Int
        BY <1>2
      <3>1. i \in Int /\ k \in Int
        BY <1>2
      <3>2. ~(i < k) /\ ~(k < i)
        BY <1>3, <2>1, <3>0
      <3>3. QED
        BY <3>1, <3>2
    <2>2. QED
      BY <2>1 DEF Injection, IsInjective
  <1>5. Cardinality(DOMAIN tmp) = Cardinality(Kept)
    BY <1>2, CountPlaces
  <1>6. g \in Surjection(DOMAIN tmp, Kept)
    BY <1>2, <1>4, <1>5, FS_Injection
  <1>7. \A n \in Kept : \E i \in DOMAIN tmp : g[i] = n
    BY <1>6 DEF Surjection
  <1>8. QED
    BY <1>1, <1>3, <1>7 DEF IsCopy

\* What a reader of the new log sees.
LEMMA PrunedReplay ==
    ASSUME LogInv, ReplaceLog
    PROVE  \E D \in SUBSET Ended :
              /\ Fits(Kept) \/ D = Ended
              /\ JobsOf(file', Events) = JobsOf(file, Events) \ D
              /\ \A E \in SUBSET Events : JobsOf(file', E) = JobsOf(file, E) \ D
              /\ Pending(file') = Pending(file) /\ Ahead(file') = Ahead(file)
              /\ Stage(file') = Stage(file)
  <1>1. file' = tmp /\ pc = "pruning" /\ Len(tmp) = Cardinality(Kept)
    BY DEF ReplaceLog
  <1>2. PICK g : IsCopy(tmp, file, Kept, g)
    BY <1>1, CopyIsWhole
  <1>3. PICK D \in SUBSET Ended : Kept = KeptWithout(D) /\ (Fits(Kept) \/ D = Ended)
    BY KeptIs DEF LogInv
  <1>4. D \in SUBSET (Jobs \ Pending(file))
    BY FileType DEF LogInv, Ended
  <1>5. IsCopy(tmp, file, {i \in Replay(file) : file[i].job \notin D}, g)
    BY <1>2, <1>3 DEF KeptWithout
  <1>6. /\ \A E \in SUBSET Events : JobsOf(tmp, E) = JobsOf(file, E) \ D
        /\ Pending(tmp) = Pending(file) /\ Ahead(tmp) = Ahead(file) /\ Stage(tmp) = Stage(file)
    BY <1>4, <1>5, CopyReplay, FileType DEF LogInv
  <1>7. QED
    BY <1>1, <1>3, <1>6

LEMMA LogTypeStep ==
    ASSUME LogInv, [Next]_vars
    PROVE  TypeOK'
  <1> USE DEF TypeOK
  <1>1. TypeOK /\ Torn \in Record \cup {Torn}
    BY DEF LogInv
  <1>2. ASSUME NEW j \in Jobs, NEW e \in Events, AppendReturns(j, e) \/ AppendRaises(j, e)
        PROVE  TypeOK'
    <2>1. /\ seen' = seen \cup {j} /\ pc' = pc /\ tmp' = tmp
          /\ \/ file' = file
             \/ file' = Append(file, Torn)
             \/ \E l \in Record : l.job = j /\ l.event = e /\ file' = Append(file, l)
      BY <1>1, <1>2, AppendDoes
    <2>2. \A l \in Record \cup {Torn} : Append(file, l) \in Seq(Record \cup {Torn})
      BY <1>1
    <2>3. file' \in Seq(Record \cup {Torn}) /\ tmp' \in Seq(Record)
      BY <1>1, <2>1, <2>2
    <2>4. file' = <<>> => ended'
      <3>1. \A l \in Record \cup {Torn} : Append(file, l) # <<>>
        <4>1. \A l \in Record \cup {Torn} : Len(Append(file, l)) = Len(file) + 1
          BY <1>1
        <4>2. Len(file) + 1 # 0
          BY <1>1
        <4>3. QED
          BY <4>1, <4>2
      <3>2. \/ ended' = TRUE
            \/ file' = file /\ ended' = ended
            \/ file' # <<>>
        <4>1. CASE AppendReturns(j, e)
          BY <4>1 DEF AppendReturns
        <4>2. CASE AppendRaises(j, e)
          <5>1. \/ ended' = TRUE
                \/ file' = file /\ ended' = ended
                \/ \E l \in Record \cup {Torn} : file' = Append(file, l)
            BY <4>2 DEF AppendRaises, LineAdded, Record
          <5>2. QED
            BY <3>1, <5>1
        <4>3. QED
          BY <1>2, <4>1, <4>2
      <3>3. CASE ended' = TRUE
        BY <3>3
      <3>4. CASE file' = file /\ ended' = ended
        BY <1>1, <3>4
      <3>5. QED
        BY <3>2, <3>3, <3>4
    <2>5. appends' \in 0 .. MaxAppends /\ faults' \in 0 .. MaxFaults /\ ends' = ends
      <3>1. /\ appends < MaxAppends /\ appends' = appends + 1 /\ ends' = ends
            /\ faults' = faults \/ (faults < MaxFaults /\ faults' = faults + 1)
        BY <1>2, Zenon DEF AppendReturns, AppendRaises, Attempted
      <3>2. appends' \in 0 .. MaxAppends
        BY <1>1, <3>1, LogAssumption
      <3>3. faults' \in 0 .. MaxFaults
        BY <1>1, <3>1, LogAssumption
      <3>4. QED
        BY <3>1, <3>2, <3>3
    <2>6. /\ ended' \in BOOLEAN /\ raised' \in Jobs \cup {None}
          /\ acked' \subseteq Jobs \X Events
      <3>1. ended' \in BOOLEAN
        <4>1. CASE AppendReturns(j, e)
          BY <4>1 DEF AppendReturns
        <4>2. CASE AppendRaises(j, e)
          <5>1. ended' \in {ended, TRUE} \/ ended' = FALSE \/ ended' \in BOOLEAN
            BY <4>2 DEF AppendRaises
          <5>2. ended \in BOOLEAN
            BY <1>1
          <5>3. QED
            BY <5>1, <5>2
        <4>3. QED
          BY <1>2, <4>1, <4>2
      <3>2. raised' \in {j, None} /\ acked' \subseteq acked \cup {<<j, e>>}
        BY <1>2 DEF AppendReturns, AppendRaises
      <3>3. QED
        BY <1>1, <3>1, <3>2
    <2>7. QED
      BY <1>1, <2>1, <2>3, <2>4, <2>5, <2>6
  <1>3. CASE NothingToPrune \/ BeginPrune
    <2>1. /\ UNCHANGED <<file, ended, raised, seen, acked, appends, faults, ends>>
          /\ pc' \in {"up", "pruning"} /\ tmp' \in {tmp, <<>>}
      BY <1>3 DEF NothingToPrune, BeginPrune, disk
    <2>2. tmp \in Seq(Record) /\ <<>> \in Seq(Record)
      BY <1>1
    <2>3. tmp' \in Seq(Record)
      BY <2>1, <2>2
    <2>4. QED
      BY <1>1, <2>1, <2>3
  <1>4. CASE WriteKept
    <2>1. PICK n \in Kept : tmp' = Append(tmp, file[n])
      BY <1>4 DEF WriteKept
    <2>2. n \in Replay(file)
      BY <1>1, <2>1, KeptType
    <2>3. file[n] \in Record
      BY <1>1, <2>2, FileType, LineType DEF Replay
    <2>4. tmp' \in Seq(Record)
      BY <1>1, <2>1, <2>3
    <2>5. QED
      BY <1>1, <1>4, <2>4 DEF WriteKept
  <1>5. CASE ReplaceLog
    <2>1. file' \in Seq(Record \cup {Torn})
      BY <1>1, <1>5, FileType DEF ReplaceLog, Files
    <2>2. QED
      BY <1>1, <1>5, <2>1 DEF ReplaceLog, EndedAfterPrune
  <1>6. CASE Crash
    BY <1>1, <1>6, LogAssumption DEF Crash, disk
  <1>7. CASE UNCHANGED vars
    BY <1>1, <1>7 DEF vars, disk
  <1>8. QED
    BY <1>2, <1>3, <1>4, <1>5, <1>6, <1>7 DEF Next

LEMMA KnownStep ==
    ASSUME LogInv, [Next]_vars
    PROVE  Known'
  <1>1. TypeOK /\ Known /\ file \in Files
    BY FileType DEF LogInv
  <1>2. ASSUME NEW j \in Jobs, NEW e \in Events, AppendReturns(j, e) \/ AppendRaises(j, e)
        PROVE  Known'
    <2>1. /\ seen' = seen \cup {j}
          /\ \/ file' = file
             \/ file' = Append(file, Torn)
             \/ \E l \in Record : l.job = j /\ l.event = e /\ file' = Append(file, l)
      BY <1>1, <1>2, AppendDoes
    <2>2. JobsOf(file', Events) \subseteq JobsOf(file, Events) \cup {j}
      <3>1. Torn.event \notin Events
        BY DEF Torn, Events, Terminal
      <3>2. QED
        BY <1>1, <2>1, <3>1, AddLine DEF Added
    <2>3. raised' \in {j, None} /\ acked' \subseteq acked \cup {<<j, e>>}
      BY <1>2 DEF AppendReturns, AppendRaises
    <2>4. QED
      BY <1>1, <2>1, <2>2, <2>3 DEF Known
  <1>3. CASE NothingToPrune \/ BeginPrune \/ WriteKept \/ Crash \/ UNCHANGED vars
    BY <1>1, <1>3 DEF NothingToPrune, BeginPrune, WriteKept, Crash, vars, disk, Known
  <1>4. CASE ReplaceLog
    <2>1. JobsOf(file', Events) \subseteq JobsOf(file, Events)
      BY <1>4, PrunedReplay
    <2>2. QED
      BY <1>1, <1>4, <2>1 DEF ReplaceLog, Known
  <1>5. QED
    BY <1>2, <1>3, <1>4 DEF Next

LEMMA CopiedStep ==
    ASSUME LogInv, [Next]_vars
    PROVE  Copied'
  <1>1. TypeOK /\ Copied /\ Len(tmp) \in Nat /\ DOMAIN tmp = 1 .. Len(tmp)
    BY FileType, LineType DEF LogInv
  <1>2. ASSUME NEW j \in Jobs, NEW e \in Events, AppendReturns(j, e) \/ AppendRaises(j, e)
        PROVE  Copied'
    <2>1. pc' = "up"
      BY <1>1, <1>2, AppendDoes
    <2>2. QED
      BY <2>1 DEF Copied
  <1>3. CASE NothingToPrune \/ ReplaceLog \/ Crash
    BY <1>3 DEF NothingToPrune, ReplaceLog, Crash, Copied
  <1>4. CASE UNCHANGED vars
    <2>1. UNCHANGED <<file, tmp, pc>>
      BY <1>4 DEF vars, disk
    <2>2. Kept' = Kept /\ \A n : KeptBefore(n)' = KeptBefore(n)
      BY <2>1 DEF Kept, KeptWithout, Dropped, Oldest, Older, LinesOf, Ended, KeptBefore
    <2>3. QED
      BY <1>1, <2>1, <2>2 DEF Copied
  <1>5. CASE BeginPrune
    <2>1. DOMAIN tmp' = {}
      BY <1>5 DEF BeginPrune
    <2> DEFINE g == [i \in {} |-> 0]
    <2>2. g \in [DOMAIN tmp' -> Kept'] /\ \A i \in DOMAIN tmp' : FALSE
      BY <2>1
    <2>3. \E h \in [DOMAIN tmp' -> Kept'] : \A i \in DOMAIN tmp' : FALSE
      BY <2>2
    <2>4. QED
      BY <2>1, <2>3 DEF Copied
  <1>6. CASE WriteKept
    <2>1. pc = "pruning" /\ file' = file
      BY <1>6 DEF WriteKept
    <2>2. PICK n \in Kept : KeptBefore(n) = Len(tmp) /\ tmp' = Append(tmp, file[n])
      BY <1>6 DEF WriteKept
    <2>3. PICK g \in [DOMAIN tmp -> Kept] :
             \A i \in DOMAIN tmp : tmp[i] = file[g[i]] /\ KeptBefore(g[i]) = i - 1
      BY <1>1, <2>1 DEF Copied
    <2>4. Kept' = Kept /\ \A x : KeptBefore(x)' = KeptBefore(x)
      BY <2>1 DEF Kept, KeptWithout, Dropped, Oldest, Older, LinesOf, Ended, KeptBefore
    <2>5. PICK k : k = Len(tmp) + 1
      OBVIOUS
    <2>6. /\ DOMAIN tmp' = DOMAIN tmp \cup {k} /\ k \notin DOMAIN tmp /\ tmp'[k] = file[n]
          /\ \A i \in DOMAIN tmp : tmp'[i] = tmp[i]
      BY <1>1, <2>2, <2>5 DEF TypeOK
    <2>0. PICK h : h = [i \in DOMAIN tmp \cup {k} |-> IF i = k THEN n ELSE g[i]]
      OBVIOUS
    <2>7. h \in [DOMAIN tmp' -> Kept']
      BY <2>0, <2>2, <2>3, <2>4, <2>6
    <2>8. KeptBefore(n) = k - 1
      BY <1>1, <2>2, <2>5
    <2>9. \A i \in DOMAIN tmp' : tmp'[i] = file'[h[i]] /\ KeptBefore(h[i]) = i - 1
      BY <2>0, <2>1, <2>3, <2>6, <2>8
    <2>10. \A i \in DOMAIN tmp' : tmp'[i] = file'[h[i]] /\ (KeptBefore(h[i]))' = i - 1
      BY <2>4, <2>9
    <2>11. QED
      BY <2>7, <2>10 DEF Copied
  <1>7. QED
    BY <1>2, <1>3, <1>4, <1>5, <1>6 DEF Next

\* Wherever the process ended and whatever an append left behind, the log is a
\* sequence of lines of used ids, and a prune at work has copied the first of
\* the records it keeps.
THEOREM LogInvariant == Spec => []LogInv
  <1>1. Init => LogInv
    <2> SUFFICES ASSUME Init PROVE LogInv
      OBVIOUS
    <2>1. TypeOK
      BY LogAssumption DEF Init, TypeOK
    <2>2. Known /\ Copied
      BY DEF Init, Known, Copied, JobsOf
    <2>3. QED
      BY <2>1, <2>2 DEF LogInv
  <1>2. LogInv /\ [Next]_vars => LogInv'
    BY LogTypeStep, KnownStep, CopiedStep DEF LogInv
  <1>3. QED
    BY <1>1, <1>2, PTL DEF Spec

-----------------------------------------------------------------------------
(* What an append that returned left, and what a start leaves.             *)

LEMMA AppendedStaysStep ==
    ASSUME LogInv, AppendedStays, [Next]_vars
    PROVE  AppendedStays'
  <1>1. TypeOK /\ Known /\ file \in Files /\ acked \subseteq Jobs \X Events
    BY FileType DEF LogInv, TypeOK
  <1>2. ASSUME NEW j \in Jobs, NEW e \in Events, AppendReturns(j, e) \/ AppendRaises(j, e)
        PROVE  AppendedStays'
    <2>1. /\ MayAppend(j, e)
          /\ \/ file' = file
             \/ file' = Append(file, Torn)
             \/ \E l \in Record : l.job = j /\ l.event = e /\ file' = Append(file, l)
      BY <1>1, <1>2, AppendDoes
    <2>2. Torn.event \notin Events
      BY DEF Torn, Events, Terminal
    <2>3. /\ \A E : JobsOf(file, E) \subseteq JobsOf(file', E)
          /\ JobsOf(file', Events) \subseteq JobsOf(file, Events) \cup {j}
      BY <1>1, <2>1, <2>2, AddLine DEF Added
    <2>4. j \in seen => j \in JobsOf(file, Events)
      <3>1. JobsOf(file, {"accepted"}) \subseteq JobsOf(file, Events)
        BY DEF JobsOf, Events
      <3>2. QED
        BY <2>1, <3>1 DEF MayAppend, Pending
    <2>5. ASSUME NEW a \in acked
          PROVE  a[1] \in JobsOf(file', {a[2]}) \/ a[1] \notin JobsOf(file', Events)
      <3>1. a[1] \in seen
        BY <1>1 DEF Known
      <3>2. CASE a[1] \in JobsOf(file, {a[2]})
        BY <2>3, <3>2
      <3>3. CASE a[1] \notin JobsOf(file, Events)
        BY <2>3, <2>4, <3>1, <3>3
      <3>4. QED
        BY <3>2, <3>3 DEF AppendedStays
    <2>6. CASE acked' = acked
      BY <2>5, <2>6 DEF AppendedStays
    <2>7. CASE AppendReturns(j, e)
      <3>1. PICK l \in Record : l.job = j /\ l.event = e /\ file' = Append(file, l)
        BY <2>7 DEF AppendReturns, LineAdded, Record
      <3>2. j \in JobsOf(file', {e})
        <4>1. JobsOf(file', {e}) = JobsOf(file, {e}) \cup (IF l.event \in {e} THEN {l.job} ELSE {})
          BY <1>1, <3>1, AddLine DEF Added
        <4>2. QED
          BY <3>1, <4>1
      <3>3. acked' = acked \cup {<<j, e>>}
        BY <2>7 DEF AppendReturns
      <3>4. \A a \in acked' : a \in acked \/ (a[1] = j /\ a[2] = e)
        BY <3>3
      <3>5. QED
        BY <2>5, <3>2, <3>4 DEF AppendedStays
    <2>8. QED
      BY <1>2, <2>6, <2>7 DEF AppendRaises
  <1>3. CASE NothingToPrune \/ BeginPrune \/ WriteKept \/ Crash \/ UNCHANGED vars
    <2>1. file' = file /\ acked' = acked
      BY <1>3 DEF NothingToPrune, BeginPrune, WriteKept, Crash, vars, disk
    <2>2. QED
      BY <2>1 DEF AppendedStays
  <1>4. CASE ReplaceLog
    <2>1. PICK D \in SUBSET Ended :
             \A E \in SUBSET Events : JobsOf(file', E) = JobsOf(file, E) \ D
      BY <1>4, PrunedReplay
    <2>2. acked' = acked
      BY <1>4 DEF ReplaceLog
    <2>3. ASSUME NEW a \in acked
          PROVE  a[1] \in JobsOf(file', {a[2]}) \/ a[1] \notin JobsOf(file', Events)
      <3>1. {a[2]} \in SUBSET Events /\ Events \in SUBSET Events
        BY <1>1
      <3>2. /\ JobsOf(file', {a[2]}) = JobsOf(file, {a[2]}) \ D
            /\ JobsOf(file', Events) = JobsOf(file, Events) \ D
        BY <2>1, <3>1
      <3>3. QED
        BY <3>2 DEF AppendedStays
    <2>4. QED
      BY <2>2, <2>3 DEF AppendedStays
  <1>5. QED
    BY <1>2, <1>3, <1>4 DEF Next

\* An append that returned is replayed by every later reader, whatever torn
\* lines come before or after it, until prune drops its job altogether.
THEOREM WrittenIsReplayed == Spec => []AppendedStays
  <1>1. Init => AppendedStays
    BY DEF Init, AppendedStays
  <1>2. LogInv /\ AppendedStays /\ [Next]_vars => AppendedStays'
    BY AppendedStaysStep
  <1>3. QED
    BY <1>1, <1>2, LogInvariant, PTL DEF Spec

\* When every ended job is dropped, only pending jobs are left.
LEMMA OnlyPendingLeft ==
    ASSUME TypeOK, NEW D, D = Ended, NEW f, JobsOf(f, Events) = JobsOf(file, Events) \ D,
           Pending(f) = Pending(file)
    PROVE  JobsOf(f, Events) = Pending(f)
  <1>1. Pending(file) \subseteq JobsOf(file, Events)
    BY DEF Pending, JobsOf, Events
  <1>2. QED
    BY <1>1 DEF Ended

LEMMA StartStep ==
    ASSUME LogInv, [Next]_vars
    PROVE  pc # "up" /\ pc' = "up" =>
              \/ /\ Cardinality(Replay(file')) <= MaxRecords
                 /\ Cardinality(Replay(file')) <= MaxBytes
              \/ JobsOf(file', Events) = Pending(file')
  <1> SUFFICES ASSUME pc # "up", pc' = "up"
               PROVE  \/ /\ Cardinality(Replay(file')) <= MaxRecords
                         /\ Cardinality(Replay(file')) <= MaxBytes
                      \/ JobsOf(file', Events) = Pending(file')
    OBVIOUS
  <1>1. TypeOK /\ file \in Files
    BY FileType DEF LogInv
  <1>2. NothingToPrune \/ ReplaceLog
    BY DEF Next, AppendReturns, AppendRaises, Attempted, BeginPrune, WriteKept, Crash, vars
  <1>3. CASE NothingToPrune
    <2>1. file' = file /\ Kept = Replay(file)
      BY <1>3 DEF NothingToPrune, disk
    <2>2. PICK D \in SUBSET Ended : Kept = KeptWithout(D) /\ (Fits(Kept) \/ D = Ended)
      BY <1>1, KeptIs
    <2>3. CASE Fits(Kept)
      BY <2>1, <2>3 DEF Fits
    <2>4. CASE D = Ended
      <3>1. JobsOf(file, Events) = JobsOf(file, Events) \ D
        <4>1. ASSUME NEW j \in JobsOf(file, Events) PROVE j \notin D
          <5>1. PICK i \in DOMAIN file : file[i].event \in Events /\ file[i].job = j
            BY DEF JobsOf
          <5>2. i \in Replay(file)
            BY <1>1, <5>1, LineType DEF Replay
          <5>3. QED
            BY <2>1, <2>2, <5>1, <5>2 DEF KeptWithout
        <4>2. QED
          BY <4>1
      <3>2. JobsOf(file, Events) = Pending(file)
        BY <1>1, <2>4, <3>1, OnlyPendingLeft
      <3>3. QED
        BY <2>1, <3>2
    <2>5. QED
      BY <2>2, <2>3, <2>4
  <1>4. CASE ReplaceLog
    <2>1. PICK D \in SUBSET Ended :
             /\ Fits(Kept) \/ D = Ended
             /\ JobsOf(file', Events) = JobsOf(file, Events) \ D
             /\ Pending(file') = Pending(file)
      BY <1>4, PrunedReplay
    <2>2. CASE Fits(Kept)
      <3>1. file' = tmp /\ Len(tmp) = Cardinality(Kept) /\ tmp \in Files /\ tmp \in Seq(Record)
        BY <1>1, <1>4, FileType DEF ReplaceLog
      <3>2. Len(tmp) \in Nat /\ Replay(tmp) \subseteq 1 .. Len(tmp)
        BY <3>1, LineType DEF Replay
      <3>3. Cardinality(Replay(tmp)) <= Len(tmp)
        BY <3>2, CountPlaces, FS_Subset
      <3>4. Cardinality(Replay(tmp)) \in Nat
        BY <3>2, CountPlaces, FS_Subset, FS_CardinalityType
      <3>5. QED
        BY <2>2, <3>1, <3>2, <3>3, <3>4, LogAssumption DEF Fits
    <2>3. CASE D = Ended
      BY <1>1, <2>1, <2>3, OnlyPendingLeft
    <2>4. QED
      BY <2>1, <2>2, <2>3
  <1>5. QED
    BY <1>2, <1>3, <1>4

\* However many starts were cut short, one that completes leaves a log within
\* both limits, or one of pending jobs only.
THEOREM StartMakesRoom == Spec => StartsWithinLimits
  <1>1. LogInv /\ [Next]_vars =>
          [pc # "up" /\ pc' = "up" =>
              \/ /\ Cardinality(Replay(file')) <= MaxRecords
                 /\ Cardinality(Replay(file')) <= MaxBytes
              \/ JobsOf(file', Events) = Pending(file')]_vars
    BY StartStep
  <1>2. QED
    BY <1>1, LogInvariant, PTL DEF Spec, StartsWithinLimits

-----------------------------------------------------------------------------
(* The file implements JobJournal.                                         *)

JournalStep == [Journal!Next]_(Journal!vars)

\* What the journal shows is the same.
LEMMA QuietJournal ==
    ASSUME seen' = seen, Pending(file') = Pending(file), Ahead(file') = Ahead(file),
           Stage(file') = Stage(file)
    PROVE  JournalStep
  BY DEF JournalStep, Journal!vars

\* A torn line, or none, keeps what the journal shows.
LEMMA TornShowsNothing ==
    ASSUME file \in Files, file' = file \/ Added(file', file, Torn)
    PROVE  /\ Pending(file') = Pending(file) /\ Ahead(file') = Ahead(file)
           /\ Stage(file') = Stage(file)
  <1>1. CASE file' = file
    BY <1>1
  <1>2. CASE Added(file', file, Torn)
    <2>1. Torn.event \notin Events /\ Torn.event # "accepted" /\ Torn.job = None
      BY DEF Torn, Events, Terminal
    <2>2. /\ \A E : JobsOf(file', E) = JobsOf(file, E) \cup (IF Torn.event \in E THEN {Torn.job} ELSE {})
          /\ \A j : Torn.job # j \/ Torn.event = "accepted" => Latest(file', j) = Latest(file, j)
          /\ \A j : Torn.job # j \/ Torn.event # "accepted" =>
                       AcceptedAt(file', j) = AcceptedAt(file, j)
      BY <1>2, AddLine
    <2>3. \A E \in SUBSET Events : JobsOf(file', E) = JobsOf(file, E)
      BY <2>1, <2>2
    <2>4. Pending(file') = Pending(file)
      BY <2>3 DEF Pending, Terminated, Events
    <2>5. \A j \in Jobs : Latest(file', j) = Latest(file, j)
      BY <2>1, <2>2, LogAssumption
    <2>6. \A j : AcceptedAt(file', j) = AcceptedAt(file, j)
      BY <2>1, <2>2
    <2>7. QED
      BY <2>4, <2>5, <2>6 DEF Ahead, Stage
  <1>3. QED
    BY <1>1, <1>2

\* The accepted record of a new id is Accept.
LEMMA AcceptJournal ==
    ASSUME LogInv, NEW l \in Record, l.event = "accepted", l.job \notin seen,
           Added(file', file, l), seen' = seen \cup {l.job}
    PROVE  JournalStep
  <1>1. PICK j \in Jobs : j = l.job
    BY DEF Record
  <1>2. file \in Files /\ j \notin JobsOf(file, Events) /\ j \notin seen
    BY <1>1, FileType DEF LogInv, Known
  <1>3. PICK n : n = Len(file) + 1
    OBVIOUS
  <1>4. /\ Len(file) \in Nat /\ DOMAIN file = 1 .. Len(file)
        /\ DOMAIN file' = DOMAIN file \cup {n} /\ file'[n] = l
        /\ \A i \in DOMAIN file : file'[i] = file[i] /\ i < n
    BY <1>2, <1>3 DEF Files, Added
  <1>5. /\ file' \in Files
        /\ \A E : JobsOf(file', E) = JobsOf(file, E) \cup (IF l.event \in E THEN {l.job} ELSE {})
        /\ \A k : l.job # k \/ l.event = "accepted" => Latest(file', k) = Latest(file, k)
        /\ \A k : l.job # k \/ l.event # "accepted" => AcceptedAt(file', k) = AcceptedAt(file, k)
    BY <1>2, AddLine
  <1>6. Pending(file') = Pending(file) \cup {j}
    <2>1. JobsOf(file', {"accepted"}) = JobsOf(file, {"accepted"}) \cup {j}
      BY <1>1, <1>5
    <2>2. Terminated(file') = Terminated(file)
      BY <1>5 DEF Terminated, Terminal
    <2>3. j \notin Terminated(file)
      BY <1>2 DEF Terminated, JobsOf, Events
    <2>4. QED
      BY <2>1, <2>2, <2>3 DEF Pending
  <1>7. j \notin Pending(file)
    BY <1>2 DEF Pending, JobsOf, Events
  <1>8. AcceptedAt(file', j) = n
    <2>1. j \in JobsOf(file', {"accepted"})
      BY <1>6 DEF Pending
    <2>2. AcceptedAt(file', j) \in Acceptances(file', j)
      BY <1>5, <2>1, AcceptedAtIs
    <2>3. \A i \in DOMAIN file : i \notin Acceptances(file', j)
      BY <1>2, <1>4 DEF Acceptances, JobsOf, Events
    <2>4. QED
      BY <1>4, <2>2, <2>3 DEF Acceptances
  <1>9. \A k \in Pending(file) :
           AcceptedAt(file', k) = AcceptedAt(file, k) /\ AcceptedAt(file, k) \in DOMAIN file
    BY <1>1, <1>2, <1>5, <1>7, AcceptedAtIs DEF Pending
  <1>10. Ahead(file') = Ahead(file) \cup (Pending(file) \X {j})
    <2>1. ASSUME NEW x \in Pending(file'), NEW y \in Pending(file')
          PROVE  AcceptedAt(file', x) < AcceptedAt(file', y) <=>
                    \/ x \in Pending(file) /\ y \in Pending(file)
                       /\ AcceptedAt(file, x) < AcceptedAt(file, y)
                    \/ x \in Pending(file) /\ y = j
      <3>1. CASE x \in Pending(file) /\ y \in Pending(file)
        BY <1>7, <1>9, <3>1
      <3>2. CASE x \in Pending(file) /\ y = j
        BY <1>4, <1>8, <1>9, <3>2
      <3>3. CASE x = j /\ y = j
        BY <1>3, <1>4, <1>7, <1>8, <3>3
      <3>4. CASE x = j /\ y \in Pending(file)
        <4>1. AcceptedAt(file', y) < n /\ AcceptedAt(file', y) \in Nat
          BY <1>4, <1>9, <3>4
        <4>2. ~(n < AcceptedAt(file', y))
          BY <1>3, <1>4, <4>1
        <4>3. QED
          BY <1>7, <1>8, <3>4, <4>2
      <3>5. QED
        BY <1>6, <3>1, <3>2, <3>3, <3>4
    <2>2. QED
      BY <1>6, <1>7, <2>1 DEF Ahead
  <1>11. Stage(file') = Stage(file)
    <2>1. Latest(file, j) = "none"
      <3>1. \A i \in DOMAIN file : file[i].job = j => file[i].event \in Events
        BY <1>1, <1>2, LineType, LogAssumption
      <3>2. EventsAt(file, j) = {}
        BY <1>2, <3>1 DEF EventsAt, JobsOf
      <3>3. QED
        BY <3>2 DEF Latest
    <2>2. \A k \in Jobs : Latest(file', k) = Latest(file, k)
      BY <1>5
    <2>3. QED
      BY <1>6, <1>7, <2>1, <2>2 DEF Stage
  <1>12. Journal!Accept(j)
    BY <1>1, <1>2, <1>6, <1>10, <1>11 DEF Journal!Accept
  <1>13. QED
    BY <1>12 DEF JournalStep, Journal!Next

\* A later record of a job is a Note or a Close of a pending one, or nothing.
LEMMA RecordJournal ==
    ASSUME LogInv, NEW l \in Record, Added(file', file, l), seen' = seen,
           \/ l.job \in Pending(file) /\ l.event # "accepted"
           \/ l.job \in JobsOf(file, {"accepted"}) /\ l.event = "retry"
    PROVE  JournalStep
  <1>1. PICK j \in Jobs : j = l.job
    BY DEF Record
  <1>2. file \in Files /\ l.event \in Events /\ l.event # "accepted"
    BY FileType DEF LogInv, Record
  <1>3. /\ \A E : JobsOf(file', E) = JobsOf(file, E) \cup (IF l.event \in E THEN {l.job} ELSE {})
        /\ \A k : l.job # k \/ l.event = "accepted" => Latest(file', k) = Latest(file, k)
        /\ \A k : l.job = k /\ l.event # "accepted" => Latest(file', k) = l.event
        /\ \A k : l.job # k \/ l.event # "accepted" => AcceptedAt(file', k) = AcceptedAt(file, k)
    BY <1>2, AddLine
  <1>4. JobsOf(file', {"accepted"}) = JobsOf(file, {"accepted"})
    BY <1>2, <1>3
  <1>5. /\ \A k : AcceptedAt(file', k) = AcceptedAt(file, k)
        /\ \A k : k # j => Latest(file', k) = Latest(file, k)
        /\ Latest(file', j) = l.event
    BY <1>1, <1>2, <1>3
  <1>6. CASE l.event \in Terminal
    <2>1. Terminated(file') = Terminated(file) \cup {j}
      BY <1>1, <1>3, <1>6 DEF Terminated
    <2>2. j \in Pending(file) /\ Pending(file') = Pending(file) \ {j}
      BY <1>1, <1>4, <1>6, <2>1 DEF Pending, Terminal
    <2>3. Ahead(file') = {p \in Ahead(file) : j \notin {p[1], p[2]}}
      BY <1>5, <2>2 DEF Ahead
    <2>4. Stage(file') = [Stage(file) EXCEPT ![j] = "none"]
      BY <1>5, <2>2 DEF Stage
    <2>5. Journal!Close(j)
      BY <2>2, <2>3, <2>4 DEF Journal!Close
    <2>6. QED
      BY <2>5 DEF JournalStep, Journal!Next
  <1>7. CASE l.event \notin Terminal
    <2>1. Terminated(file') = Terminated(file)
      BY <1>3, <1>7 DEF Terminated
    <2>2. Pending(file') = Pending(file)
      BY <1>4, <2>1 DEF Pending
    <2>3. Ahead(file') = Ahead(file)
      BY <1>5, <2>2 DEF Ahead
    <2>4. CASE j \in Pending(file)
      <3>1. Stage(file') = [Stage(file) EXCEPT ![j] = l.event]
        BY <1>5, <2>2, <2>4 DEF Stage
      <3>2. l.event \in {"printing", "retry"}
        BY <1>2, <1>7 DEF Events
      <3>3. Journal!Note(j, "printing") \/ Journal!Note(j, "retry")
        BY <2>2, <2>3, <2>4, <3>1, <3>2 DEF Journal!Note
      <3>4. QED
        BY <3>3 DEF JournalStep, Journal!Next
    <2>5. CASE j \notin Pending(file)
      <3>1. Stage(file') = Stage(file)
        BY <1>5, <2>2, <2>5 DEF Stage
      <3>2. QED
        BY <2>2, <2>3, <3>1, QuietJournal
    <2>6. QED
      BY <2>4, <2>5
  <1>8. QED
    BY <1>6, <1>7

LEMMA AppendJournal ==
    ASSUME LogInv, NEW j \in Jobs, NEW e \in Events,
           AppendReturns(j, e) \/ AppendRaises(j, e)
    PROVE  JournalStep
  <1>1. TypeOK /\ Known /\ file \in Files
    BY FileType DEF LogInv
  <1>2. /\ MayAppend(j, e) /\ seen' = seen \cup {j}
        /\ \/ file' = file
           \/ file' = Append(file, Torn)
           \/ \E l \in Record : l.job = j /\ l.event = e /\ file' = Append(file, l)
    BY <1>1, AppendDoes
  <1>3. CASE file' = file \/ file' = Append(file, Torn)
    <2>1. /\ Pending(file') = Pending(file) /\ Ahead(file') = Ahead(file)
          /\ Stage(file') = Stage(file)
      BY <1>1, <1>3, TornShowsNothing DEF Added
    <2>2. CASE j \in seen
      <3>1. seen' = seen
        BY <1>2, <2>2
      <3>2. QED
        BY <2>1, <3>1, QuietJournal
    <2>3. CASE j \notin seen
      <3>1. Journal!Lose(j)
        BY <1>2, <2>1, <2>3 DEF Journal!Lose
      <3>2. QED
        BY <3>1 DEF JournalStep, Journal!Next
    <2>4. QED
      BY <2>2, <2>3
  <1>4. CASE \E l \in Record : l.job = j /\ l.event = e /\ file' = Append(file, l)
    <2>1. PICK l \in Record : l.job = j /\ l.event = e /\ file' = Append(file, l)
      BY <1>4
    <2>2. CASE e = "accepted" /\ j \notin seen
      BY <1>2, <2>1, <2>2, AcceptJournal DEF Added
    <2>3. CASE ~(e = "accepted" /\ j \notin seen)
      <3>1. \/ j \in Pending(file) /\ e \in AfterStage(Latest(file, j))
            \/ j \in JobsOf(file, {"accepted"}) /\ e = "retry"
        BY <1>2, <2>3 DEF MayAppend
      <3>2. \/ j \in Pending(file) /\ e # "accepted"
            \/ j \in JobsOf(file, {"accepted"}) /\ e = "retry"
        BY <3>1 DEF AfterStage
      <3>3. j \in seen
        BY <1>1, <3>1 DEF Known, Pending, JobsOf, Events
      <3>4. seen' = seen
        BY <1>2, <3>3
      <3>5. QED
        BY <2>1, <3>2, <3>4, RecordJournal DEF Added
    <2>4. QED
      BY <2>2, <2>3
  <1>5. QED
    BY <1>2, <1>3, <1>4

LEMMA StepJournal ==
    ASSUME LogInv, [Next]_vars
    PROVE  JournalStep
  <1>1. CASE \E j \in Jobs, e \in Events : AppendReturns(j, e) \/ AppendRaises(j, e)
    BY <1>1, AppendJournal
  <1>2. CASE NothingToPrune \/ BeginPrune \/ WriteKept \/ Crash \/ UNCHANGED vars
    <2>1. file' = file /\ seen' = seen
      BY <1>2 DEF NothingToPrune, BeginPrune, WriteKept, Crash, vars, disk
    <2>2. QED
      BY <2>1, QuietJournal
  <1>3. CASE ReplaceLog
    <2>1. seen' = seen
      BY <1>3 DEF ReplaceLog
    <2>2. QED
      BY <1>3, <2>1, PrunedReplay, QuietJournal
  <1>4. QED
    BY <1>1, <1>2, <1>3 DEF Next

\* The file of lines implements JobJournal: an accepted record adds a pending
\* job behind the others or is lost with its id, a later record says how far
\* the attempt got or ends the job, and torn lines, ends of the process and
\* prunes change nothing that a replay shows.
THEOREM LogKeepsJournal == Spec => KeepsJournal
  <1>1. Init => Journal!Init
    <2> SUFFICES ASSUME Init PROVE Journal!Init
      OBVIOUS
    <2>1. \A E : JobsOf(file, E) = {}
      BY DEF Init, JobsOf
    <2>2. Pending(file) = {}
      BY <2>1 DEF Pending
    <2>3. QED
      BY <2>2 DEF Init, Journal!Init, Ahead, Stage
  <1>2. LogInv /\ [Next]_vars => [Journal!Next]_(Journal!vars)
    BY StepJournal DEF JournalStep
  <1>3. QED
    BY <1>1, <1>2, LogInvariant, PTL DEF Spec, KeepsJournal, Journal!Spec
===============================================================================
