-------------------------- MODULE HttpIngestProofs --------------------------
(* Proofs about HttpIngest, for any requests, keys, limits and bounds.      *)
EXTENDS HttpIngest, FiniteSetTheorems, TLAPS

-----------------------------------------------------------------------------
(* Sequences without repetition.                                           *)

Distinct(s) == \A m, n \in DOMAIN s : s[m] = s[n] => m = n

LEMMA RangeOfAppend ==
    ASSUME NEW S, NEW s \in Seq(S), NEW x \in S
    PROVE  /\ Append(s, x) \in Seq(S)
           /\ Range(Append(s, x)) = Range(s) \cup {x}
           /\ Distinct(s) /\ x \notin Range(s) => Distinct(Append(s, x))
  <1>1. /\ Append(s, x) \in Seq(S) /\ DOMAIN Append(s, x) = DOMAIN s \cup {Len(s) + 1}
        /\ \A n \in DOMAIN s : Append(s, x)[n] = s[n]
        /\ Append(s, x)[Len(s) + 1] = x
    OBVIOUS
  <1>2. QED
    BY <1>1 DEF Range, Distinct

LEMMA RangeOfTail ==
    ASSUME NEW S, NEW s \in Seq(S), s # <<>>, Distinct(s)
    PROVE  /\ Tail(s) \in Seq(S) /\ Distinct(Tail(s))
           /\ Range(Tail(s)) = Range(s) \ {Head(s)}
  <1>1. /\ Tail(s) \in Seq(S) /\ DOMAIN s = 1 .. Len(s) /\ Len(s) \in Nat \ {0}
        /\ DOMAIN Tail(s) = 1 .. (Len(s) - 1) /\ Head(s) = s[1]
        /\ \A n \in 1 .. (Len(s) - 1) : Tail(s)[n] = s[n + 1]
    OBVIOUS
  <1>2. Distinct(Tail(s))
    BY <1>1 DEF Distinct
  <1>3. Range(Tail(s)) \subseteq Range(s) \ {Head(s)}
    BY <1>1 DEF Range, Distinct
  <1>4. ASSUME NEW y \in Range(s), y # Head(s)
        PROVE  y \in Range(Tail(s))
    <2>1. PICK n \in 1 .. Len(s) : s[n] = y
      BY <1>1, <1>4 DEF Range
    <2>2. n - 1 \in 1 .. (Len(s) - 1) /\ Tail(s)[n - 1] = y
      BY <1>1, <1>4, <2>1
    <2>3. QED
      BY <1>1, <2>2 DEF Range
  <1>5. QED
    BY <1>1, <1>2, <1>3, <1>4

LEMMA RangeOfRest ==
    ASSUME NEW S, NEW s \in Seq(S), Distinct(s), NEW n \in 0 .. Len(s)
    PROVE  LET rest == SubSeq(s, n + 1, Len(s)) IN
           /\ rest \in Seq(Range(rest)) /\ Distinct(rest)
           /\ Range(rest) = Range(s) \ Range(SubSeq(s, 1, n))
  <1> DEFINE rest == SubSeq(s, n + 1, Len(s))
             front == SubSeq(s, 1, n)
  <1>1. /\ Len(s) \in Nat /\ n \in Nat /\ n <= Len(s) /\ DOMAIN s = 1 .. Len(s)
        /\ DOMAIN rest = 1 .. (Len(s) - n) /\ DOMAIN front = 1 .. n
        /\ \A i \in 1 .. (Len(s) - n) : rest[i] = s[n + i]
        /\ \A i \in 1 .. n : front[i] = s[i]
        /\ rest \in Seq(S)
    OBVIOUS
  <1> HIDE DEF rest, front
  <1>2. Distinct(rest)
    <2>1. SUFFICES ASSUME NEW i \in 1 .. (Len(s) - n), NEW k \in 1 .. (Len(s) - n),
                          rest[i] = rest[k]
                   PROVE  i = k
      BY <1>1 DEF Distinct
    <2>2. n + i \in 1 .. Len(s) /\ n + k \in 1 .. Len(s) /\ s[n + i] = s[n + k]
      BY <1>1, <2>1
    <2>3. n + i = n + k
      BY <1>1, <2>2 DEF Distinct
    <2>4. QED
      BY <1>1, <2>3
  <1>3. rest \in Seq(Range(rest))
    <2>1. rest \in [1 .. Len(rest) -> Range(rest)] /\ Len(rest) \in Nat
      BY <1>1 DEF Range
    <2>2. QED
      BY <2>1
  <1>4. Range(rest) \subseteq Range(s) \ Range(front)
    BY <1>1 DEF Range, Distinct
  <1>5. ASSUME NEW y \in Range(s), y \notin Range(front)
        PROVE  y \in Range(rest)
    <2>1. PICK i \in 1 .. Len(s) : s[i] = y
      BY <1>1, <1>5 DEF Range
    <2>2. ~(i <= n)
      BY <1>1, <1>5, <2>1 DEF Range
    <2>3. i - n \in 1 .. (Len(s) - n) /\ rest[i - n] = y
      BY <1>1, <2>1, <2>2
    <2>4. QED
      BY <1>1, <2>3 DEF Range
  <1>6. QED
    BY <1>1, <1>2, <1>3, <1>4, <1>5 DEF rest, front

LEMMA SeqOfMore ==
    ASSUME NEW S, NEW T, S \subseteq T, NEW s \in Seq(S)
    PROVE  s \in Seq(T)
  OBVIOUS

-----------------------------------------------------------------------------
(* Types, with what makes them inductive.                                  *)

FilesOK ==
    /\ accepted \subseteq Reqs /\ ended \in Seq(accepted) /\ Distinct(ended)
    /\ idemFile \in [Keys -> Entry \cup {None}]
    /\ png \subseteq Reqs /\ body \subseteq Reqs
ProcOK ==
    /\ up \in BOOLEAN /\ idem \in [Keys -> Entry \cup {None}] /\ tokens \subseteq Reqs
    /\ line \in Seq(Reqs) /\ Distinct(line) /\ at \in [Reqs -> Stages]
    /\ {r \in Reqs : at[r] = "rendering"} = Range(line)
    /\ {r \in Reqs : at[r] \in {"cache", "log", "record", "answer"}} = {busy} \ {None}
    /\ \A r \in Reqs : at[r] = "record" => Key[r] # None
WorldOK ==
    /\ answer \in [Reqs -> Answer \cup {None}]
    /\ era \in [Keys -> 0 .. MaxEras] /\ settled \subseteq Reqs
    /\ ends \in 0 .. MaxEnds /\ faults \in 0 .. MaxFaults

Shape == FilesOK /\ ProcOK /\ WorldOK

LEMMA ShapeIsTyped == Shape => TypeOK
  BY DEF Shape, FilesOK, ProcOK, WorldOK, TypeOK

LEMMA InitShape == Init => Shape
  <1> SUFFICES ASSUME Init PROVE Shape
    OBVIOUS
  <1> USE DEF Init
  <1>1. FilesOK
    BY DEF FilesOK, Distinct
  <1>2. ProcOK
    BY ReqsAssumption DEF ProcOK, Distinct, Range, Stages
  <1>3. WorldOK
    BY BoundAssumption DEF WorldOK
  <1>4. QED
    BY <1>1, <1>2, <1>3 DEF Shape

LEMMA RespondTyped ==
    ASSUME Shape, NEW r \in Reqs, NEW code \in {202, 400, 409, 410, 500, 503},
           NEW job \in Reqs \cup {None}, Respond(r, code, job)
    PROVE  /\ answer' \in [Reqs -> Answer \cup {None}]
           /\ at' = [at EXCEPT ![r] = "done"] /\ at' \in [Reqs -> Stages]
  <1>1. EraOf(r) \in Nat
    BY ReqsAssumption, BoundAssumption DEF EraOf, Shape, WorldOK
  <1>2. [code |-> code, job |-> job, era |-> EraOf(r)] \in Answer
    BY <1>1 DEF Answer
  <1>3. QED
    BY <1>2 DEF Respond, Shape, WorldOK, ProcOK, Stages

LEMMA EntryTyped == \A r \in Reqs : EntryOf(r) \in Entry
  BY ReqsAssumption DEF EntryOf, Entry

\* The handler that holds the loop, and the stage it is in.
LEMMA BusyStages ==
    ASSUME Shape, NEW r \in Reqs
    PROVE  /\ at[r] \in {"cache", "log", "record", "answer"} <=> busy = r
           /\ busy = None => at[r] \notin {"cache", "log", "record", "answer"}
           /\ at[r] = "rendering" <=> r \in Range(line)
  BY ReqsAssumption DEF Shape, ProcOK

\* A request that has just arrived, and is answered at once.
LEMMA AnswerShape ==
    ASSUME Shape, NEW r \in Reqs, NEW code \in {202, 400, 409, 410, 500, 503},
           NEW job \in Reqs \cup {None}, Respond(r, code, job), at[r] = "new",
           UNCHANGED <<files, up, idem, busy, line, tokens, era, settled, ends, faults>>
    PROVE  Shape'
  <1>1. /\ at' = [at EXCEPT ![r] = "done"] /\ at' \in [Reqs -> Stages]
        /\ answer' \in [Reqs -> Answer \cup {None}]
    BY RespondTyped
  <1>2. FilesOK'
    BY DEF Shape, FilesOK, files
  <1>3. ProcOK'
    BY <1>1 DEF Shape, ProcOK
  <1>4. WorldOK'
    BY <1>1 DEF Shape, WorldOK
  <1>5. QED
    BY <1>2, <1>3, <1>4 DEF Shape

\* The head of the line leaves the render semaphore.
LEMMA ReleaseShape ==
    ASSUME Shape, NEW r \in Reqs, Rendered(r), line' = Released
    PROVE  /\ line' \in Seq(Reqs) /\ Distinct(line') /\ Range(line') = Range(line) \ {r}
           /\ at[r] = "rendering" /\ busy = None
  <1>1. line # <<>> /\ Head(line) = r /\ busy = None /\ line \in Seq(Reqs) /\ Distinct(line)
    BY DEF Rendered, Shape, ProcOK
  <1>2. r \in Range(line)
    BY <1>1 DEF Range
  <1>3. QED
    BY <1>1, <1>2, RangeOfTail, BusyStages DEF Released

LEMMA BeginShape ==
    ASSUME Shape, NEW r \in Reqs, BeginRender(r)
    PROVE  Shape'
  <1>1. r \notin Range(line)
    BY BusyStages DEF BeginRender, Arrives
  <1>2. line' \in Seq(Reqs) /\ Distinct(line') /\ Range(line') = Range(line) \cup {r}
    BY <1>1, RangeOfAppend DEF BeginRender, Shape, ProcOK
  <1>3. ProcOK'
    BY <1>2 DEF BeginRender, Arrives, Shape, ProcOK, Stages
  <1>4. FilesOK' /\ WorldOK'
    BY DEF BeginRender, files, world, Shape, FilesOK, WorldOK
  <1>5. QED
    BY <1>3, <1>4 DEF Shape

LEMMA CommitShape ==
    ASSUME Shape, NEW r \in Reqs, CommitAtOnce(r)
    PROVE  Shape'
  <1>1. ProcOK'
    BY ReqsAssumption DEF CommitAtOnce, Commit, Arrives, Shape, ProcOK, Stages
  <1>2. FilesOK' /\ WorldOK'
    BY DEF CommitAtOnce, files, world, Shape, FilesOK, WorldOK
  <1>3. QED
    BY <1>1, <1>2 DEF Shape

LEMMA RenderFailsShape ==
    ASSUME Shape, NEW r \in Reqs, RenderFails(r)
    PROVE  Shape'
  <1>1. /\ line' \in Seq(Reqs) /\ Distinct(line') /\ Range(line') = Range(line) \ {r}
        /\ at[r] = "rendering" /\ busy = None
    BY ReleaseShape DEF RenderFails
  <1>2. /\ at' = [at EXCEPT ![r] = "done"] /\ at' \in [Reqs -> Stages]
        /\ answer' \in [Reqs -> Answer \cup {None}]
    BY RespondTyped DEF RenderFails
  <1>3. ProcOK'
    BY <1>1, <1>2 DEF RenderFails, Shape, ProcOK
  <1>4. FilesOK' /\ WorldOK'
    BY <1>2 DEF RenderFails, files, Shape, FilesOK, WorldOK
  <1>5. QED
    BY <1>3, <1>4 DEF Shape

LEMMA RenderEndsShape ==
    ASSUME Shape, NEW r \in Reqs, RenderEnds(r)
    PROVE  Shape'
  <1>1. /\ line' \in Seq(Reqs) /\ Distinct(line') /\ Range(line') = Range(line) \ {r}
        /\ at[r] = "rendering" /\ busy = None
    BY ReleaseShape DEF RenderEnds
  <1>2. FilesOK'
    BY DEF RenderEnds, files, Shape, FilesOK
  <1>3. CASE Respond(r, 503, None) /\ UNCHANGED busy
    <2>1. /\ at' = [at EXCEPT ![r] = "done"] /\ at' \in [Reqs -> Stages]
          /\ answer' \in [Reqs -> Answer \cup {None}]
      BY <1>3, RespondTyped
    <2>2. ProcOK'
      BY <1>1, <1>3, <2>1 DEF RenderEnds, Shape, ProcOK
    <2>3. WorldOK'
      BY <2>1 DEF RenderEnds, Shape, WorldOK
    <2>4. QED
      BY <1>2, <2>2, <2>3 DEF Shape
  <1>4. CASE Commit(r) /\ UNCHANGED answer
    <2>1. ProcOK'
      BY <1>1, <1>4, ReqsAssumption DEF RenderEnds, Commit, Shape, ProcOK, Stages
    <2>2. WorldOK'
      BY <1>4 DEF RenderEnds, Shape, WorldOK
    <2>3. QED
      BY <1>2, <2>1, <2>2 DEF Shape
  <1>5. QED
    BY <1>3, <1>4 DEF RenderEnds

LEMMA SaveShape ==
    ASSUME Shape, NEW r \in Reqs, SaveArtifacts(r)
    PROVE  Shape'
  <1>1. ProcOK'
    BY DEF SaveArtifacts, Shape, ProcOK, Stages
  <1>2. FilesOK' /\ WorldOK'
    BY DEF SaveArtifacts, Saved, world, Shape, FilesOK, WorldOK
  <1>3. QED
    BY <1>1, <1>2 DEF Shape

\* More accepted records leave the terminal ones as they are.
LEMMA AcceptedShape ==
    ASSUME FilesOK, NEW r \in Reqs, accepted' \in {accepted, accepted \cup {r}},
           UNCHANGED <<ended, idemFile, png, body>>
    PROVE  FilesOK'
  <1>1. accepted \subseteq accepted' /\ accepted' \subseteq Reqs
    BY DEF FilesOK
  <1>2. ended' \in Seq(accepted')
    BY <1>1, SeqOfMore DEF FilesOK
  <1>3. QED
    BY <1>1, <1>2 DEF FilesOK

LEMMA AppendShape ==
    ASSUME Shape, NEW r \in Reqs, AppendAccepted(r)
    PROVE  Shape'
  <1>1. ProcOK'
    BY DEF AppendAccepted, Shape, ProcOK, Stages
  <1>2. FilesOK'
    BY AcceptedShape DEF AppendAccepted, Shape
  <1>3. WorldOK'
    BY DEF AppendAccepted, world, Shape, WorldOK
  <1>4. QED
    BY <1>1, <1>2, <1>3 DEF Shape

\* A handler that ends with an answer, and lets the loop go.
LEMMA HandlerEnds ==
    ASSUME Shape, NEW r \in Reqs, busy = r, NEW code \in {202, 400, 409, 410, 500, 503},
           NEW job \in Reqs \cup {None}, Respond(r, code, job), busy' = None,
           idem' \in [Keys -> Entry \cup {None}], UNCHANGED <<up, line, tokens>>,
           UNCHANGED <<era, settled, ends>>, faults' \in 0 .. MaxFaults
    PROVE  ProcOK' /\ WorldOK'
  <1>1. /\ at' = [at EXCEPT ![r] = "done"] /\ at' \in [Reqs -> Stages]
        /\ answer' \in [Reqs -> Answer \cup {None}]
    BY RespondTyped
  <1>2. ProcOK'
    BY <1>1, ReqsAssumption DEF Shape, ProcOK
  <1>3. WorldOK'
    BY <1>1 DEF Shape, WorldOK
  <1>4. QED
    BY <1>2, <1>3

LEMMA AppendFailsShape ==
    ASSUME Shape, NEW r \in Reqs, AppendFails(r)
    PROVE  Shape'
  <1>1. faults' \in 0 .. MaxFaults
    BY BoundAssumption DEF AppendFails, Shape, WorldOK
  <1>2. /\ busy = r /\ busy' = None /\ Respond(r, 500, None)
        /\ idem' \in [Keys -> Entry \cup {None}] /\ UNCHANGED <<up, line, tokens>>
        /\ UNCHANGED <<era, settled, ends>>
    BY DEF AppendFails, Shape, ProcOK
  <1>3. ProcOK' /\ WorldOK'
    BY <1>1, <1>2, HandlerEnds
  <1>4. FilesOK'
    BY AcceptedShape DEF AppendFails, Shape
  <1>5. QED
    BY <1>3, <1>4 DEF Shape

LEMMA SaveFailsShape ==
    ASSUME Shape, NEW r \in Reqs, SaveFails(r)
    PROVE  Shape'
  <1>1. faults' \in 0 .. MaxFaults
    BY BoundAssumption DEF SaveFails, Shape, WorldOK
  <1>2. /\ busy = r /\ busy' = None /\ Respond(r, 500, None)
        /\ idem' \in [Keys -> Entry \cup {None}] /\ UNCHANGED <<up, line, tokens>>
        /\ UNCHANGED <<era, settled, ends>>
    BY DEF SaveFails, Shape, ProcOK
  <1>3. ProcOK' /\ WorldOK'
    BY <1>1, <1>2, HandlerEnds
  <1>4. FilesOK'
    BY DEF SaveFails, Saved, Shape, FilesOK
  <1>5. QED
    BY <1>3, <1>4 DEF Shape

LEMMA RecordShape ==
    ASSUME Shape, NEW r \in Reqs, RecordKey(r)
    PROVE  Shape'
  <1>1. /\ idem' \in [Keys -> Entry \cup {None}] /\ idemFile' \in [Keys -> Entry \cup {None}]
    BY EntryTyped DEF RecordKey, Shape, ProcOK, FilesOK
  <1>2. ProcOK'
    BY <1>1 DEF RecordKey, Shape, ProcOK, Stages
  <1>3. FilesOK' /\ WorldOK'
    BY <1>1 DEF RecordKey, world, Shape, FilesOK, WorldOK
  <1>4. QED
    BY <1>2, <1>3 DEF Shape

LEMMA RecordFailsShape ==
    ASSUME Shape, NEW r \in Reqs, RecordFails(r)
    PROVE  Shape'
  <1>1. faults' \in 0 .. MaxFaults
    BY BoundAssumption DEF RecordFails, Shape, WorldOK
  <1>2. /\ idem' \in [Keys -> Entry \cup {None}] /\ idemFile' \in [Keys -> Entry \cup {None}]
    BY EntryTyped DEF RecordFails, Shape, ProcOK, FilesOK
  <1>3. /\ busy = r /\ busy' = None /\ Respond(r, 500, None)
        /\ idem' \in [Keys -> Entry \cup {None}] /\ UNCHANGED <<up, line, tokens>>
        /\ UNCHANGED <<era, settled, ends>>
    BY <1>2 DEF RecordFails
  <1>4. ProcOK' /\ WorldOK'
    BY <1>1, <1>3, HandlerEnds
  <1>5. FilesOK'
    BY <1>2 DEF RecordFails, Shape, FilesOK
  <1>6. QED
    BY <1>4, <1>5 DEF Shape

LEMMA AcceptAnswerShape ==
    ASSUME Shape, NEW r \in Reqs, AnswerAccepted(r)
    PROVE  Shape'
  <1>1. /\ busy = r /\ busy' = None /\ Respond(r, 202, r)
        /\ idem' \in [Keys -> Entry \cup {None}] /\ UNCHANGED <<up, line, tokens>>
        /\ UNCHANGED <<era, settled, ends>>
        /\ faults' \in 0 .. MaxFaults
    BY DEF AnswerAccepted, Shape, ProcOK, WorldOK
  <1>2. ProcOK' /\ WorldOK'
    BY <1>1, HandlerEnds
  <1>3. FilesOK'
    BY DEF AnswerAccepted, files, Shape, FilesOK
  <1>4. QED
    BY <1>2, <1>3 DEF Shape

LEMMA DuplicateAnswer ==
    ASSUME Shape, NEW r \in Reqs, Hit(r)
    PROVE  Key[r] \in Keys /\ idem[Key[r]] \in Entry /\ idem[Key[r]].job \in Reqs
  <1>1. Key[r] \in Keys /\ idem[Key[r]] \in Entry
    BY ReqsAssumption DEF Hit, Shape, ProcOK
  <1>2. QED
    BY <1>1 DEF Entry

LEMMA HandlerShape ==
    ASSUME Shape, NEW r \in Reqs, Handler(r)
    PROVE  Shape'
  <1>1. CASE AnswerConflict(r) \/ RefuseFull(r) \/ AnswerGone(r)
    <2>1. /\ \E code \in {409, 410, 503} : Respond(r, code, None)
          /\ at[r] = "new"
          /\ UNCHANGED <<files, up, idem, busy, line, tokens, era, settled, ends, faults>>
      BY <1>1 DEF AnswerConflict, RefuseFull, AnswerGone, Arrives
    <2>2. QED
      BY <2>1, AnswerShape
  <1>2. CASE AnswerDuplicate(r)
    <2>1. /\ Hit(r) /\ Respond(r, 202, idem[Key[r]].job) /\ at[r] = "new"
          /\ UNCHANGED <<files, up, idem, busy, line, tokens, era, settled, ends, faults>>
      BY <1>2 DEF AnswerDuplicate, Duplicate, Arrives
    <2>2. QED
      BY <2>1, DuplicateAnswer, AnswerShape
  <1>3. CASE BeginRender(r) \/ CommitAtOnce(r) \/ RenderFails(r) \/ RenderEnds(r)
    BY <1>3, BeginShape, CommitShape, RenderFailsShape, RenderEndsShape
  <1>4. CASE SaveArtifacts(r) \/ SaveFails(r) \/ AppendAccepted(r) \/ AppendFails(r)
    BY <1>4, SaveShape, SaveFailsShape, AppendShape, AppendFailsShape
  <1>5. CASE RecordKey(r) \/ RecordFails(r) \/ AnswerAccepted(r)
    BY <1>5, RecordShape, RecordFailsShape, AcceptAnswerShape
  <1>6. QED
    BY <1>1, <1>2, <1>3, <1>4, <1>5 DEF Handler

LEMMA SettleShape ==
    ASSUME Shape, NEW j \in Reqs, Settle(j)
    PROVE  Shape'
  <1>1. j \in accepted /\ j \notin Range(ended)
    BY DEF Settle, Pending
  <1>2. ended' \in Seq(accepted) /\ Distinct(ended')
    BY <1>1, RangeOfAppend DEF Settle, Shape, FilesOK
  <1>3. FilesOK'
    BY <1>2 DEF Settle, Shape, FilesOK
  <1>4. ProcOK' /\ WorldOK'
    BY DEF Settle, proc, Shape, ProcOK, WorldOK
  <1>5. QED
    BY <1>3, <1>4 DEF Shape

LEMMA ExpireShape ==
    ASSUME Shape, NEW k \in Keys, Expire(k)
    PROVE  Shape'
  <1>1. \A e \in Entry \cup {None} : Stale(e) \in Entry \cup {None}
    BY DEF Stale, Entry
  <1>2. FilesOK' /\ ProcOK'
    BY <1>1 DEF Expire, Shape, FilesOK, ProcOK
  <1>3. WorldOK'
    BY BoundAssumption DEF Expire, Shape, WorldOK
  <1>4. QED
    BY <1>2, <1>3 DEF Shape

LEMMA EndShape ==
    ASSUME Shape, End
    PROVE  Shape'
  <1>1. at' \in [Reqs -> {"new", "done", "gone"}] /\ line' = <<>> /\ busy' = None
    BY DEF End, Shape, ProcOK
  <1>2. ProcOK'
    <2>1. line' \in Seq(Reqs) /\ Distinct(line') /\ Range(line') = {}
      BY <1>1 DEF Distinct, Range
    <2>2. /\ at' \in [Reqs -> Stages]
          /\ \A r \in Reqs : at'[r] \notin {"rendering", "cache", "log", "record", "answer"}
      BY <1>1 DEF Stages
    <2>3. up' \in BOOLEAN /\ tokens' \subseteq Reqs /\ idem' \in [Keys -> Entry \cup {None}]
      BY DEF End
    <2>4. QED
      BY <1>1, <2>1, <2>2, <2>3 DEF ProcOK
  <1>3. FilesOK'
    BY DEF End, files, Shape, FilesOK
  <1>4. WorldOK'
    BY BoundAssumption DEF End, Shape, WorldOK
  <1>5. QED
    BY <1>2, <1>3, <1>4 DEF Shape

\* Prune drops at most the terminal records there are.
LEMMA ExcessType ==
    ASSUME Shape
    PROVE  Excess \in 0 .. Len(ended)
  <1>1. accepted \subseteq Reqs /\ Len(ended) \in Nat
    BY DEF Shape, FilesOK
  <1>2. Cardinality(accepted) \in Nat
    BY <1>1, ReqsAssumption, FS_Subset, FS_CardinalityType
  <1> DEFINE d == Cardinality(accepted) - MaxJobs
             m == IF Len(ended) <= d THEN Len(ended) ELSE d
  <1>3. d \in Int
    BY <1>2, LimitAssumption
  <1> HIDE DEF d
  <1>4. Min({Len(ended), d}) = m
    BY <1>1, <1>3 DEF Min
  <1>5. m \in Int /\ m <= Len(ended)
    BY <1>1, <1>3
  <1> HIDE DEF m
  <1>6. Max({0, m}) = IF m >= 0 THEN m ELSE 0
    BY <1>5 DEF Max
  <1>7. Excess = Max({0, m})
    BY <1>4 DEF Excess, d
  <1>8. QED
    BY <1>1, <1>5, <1>6, <1>7

\* What prune leaves: the pending jobs, and terminal ones with their records.
LEMMA PruneKeeps ==
    ASSUME Shape
    PROVE  LET rest == SubSeq(ended, Excess + 1, Len(ended)) IN
           /\ rest \in Seq(Kept) /\ Distinct(rest) /\ Range(rest) \subseteq Range(ended)
           /\ Kept \subseteq accepted /\ Kept \ Range(rest) = Pending
  <1> DEFINE rest == SubSeq(ended, Excess + 1, Len(ended))
             front == SubSeq(ended, 1, Excess)
  <1>1. Excess \in 0 .. Len(ended) /\ ended \in Seq(accepted) /\ Distinct(ended)
    BY ExcessType DEF Shape, FilesOK
  <1>2. /\ rest \in Seq(Range(rest)) /\ Distinct(rest)
        /\ Range(rest) = Range(ended) \ Range(front)
    BY <1>1, RangeOfRest
  <1>3. Range(ended) \subseteq accepted /\ Range(front) \subseteq Range(ended)
    <2>1. Range(ended) \subseteq accepted
      BY <1>1 DEF Range
    <2>2. \A i \in DOMAIN front : i \in DOMAIN ended /\ front[i] = ended[i]
      BY <1>1
    <2>3. QED
      BY <2>1, <2>2 DEF Range
  <1> HIDE DEF rest, front
  <1>4. Range(rest) \subseteq Kept
    BY <1>2, <1>3 DEF Kept, front
  <1>5. rest \in Seq(Kept)
    BY <1>2, <1>4, SeqOfMore
  <1>6. QED
    BY <1>2, <1>3, <1>5 DEF Kept, Pending, rest, front

LEMMA StartShape ==
    ASSUME Shape, Start
    PROVE  Shape'
  <1>1. ended' \in Seq(Kept) /\ Distinct(ended') /\ Kept \subseteq accepted
    BY PruneKeeps DEF Start
  <1>2. FilesOK'
    BY <1>1 DEF Start, Shape, FilesOK
  <1>3. ProcOK'
    BY DEF Start, Reloaded, Replayed, Pending, Shape, ProcOK, FilesOK
  <1>4. WorldOK'
    BY DEF Start, world, Shape, WorldOK
  <1>5. QED
    BY <1>2, <1>3, <1>4 DEF Shape

LEMMA StepShape ==
    ASSUME Shape, [Next]_vars
    PROVE  Shape'
  <1>1. CASE \E r \in Reqs : Handler(r)
    BY <1>1, HandlerShape
  <1>2. CASE \E j \in Reqs : Settle(j)
    BY <1>2, SettleShape
  <1>3. CASE \E j \in Reqs : Evict(j)
    <2>1. FilesOK' /\ ProcOK' /\ WorldOK'
      BY <1>3 DEF Evict, proc, world, Shape, FilesOK, ProcOK, WorldOK
    <2>2. QED
      BY <2>1 DEF Shape
  <1>4. CASE \E k \in Keys : Expire(k)
    BY <1>4, ExpireShape
  <1>5. CASE End \/ Start
    BY <1>5, EndShape, StartShape
  <1>6. CASE UNCHANGED vars
    <2>1. FilesOK' /\ ProcOK' /\ WorldOK'
      BY <1>6 DEF vars, files, proc, world, Shape, FilesOK, ProcOK, WorldOK
    <2>2. QED
      BY <2>1 DEF Shape
  <1>7. QED
    BY <1>1, <1>2, <1>3, <1>4, <1>5, <1>6 DEF Next

\* At most one handler is between its durable writes, only the requests in
\* line are at the render thread, and no job has two terminal records.
THEOREM ShapeInvariant == Spec => []Shape
  BY InitShape, StepShape, PTL DEF Spec

\* The type invariant of the HTTP layer holds for all requests and limits.
THEOREM IngestTyped == Spec => []TypeOK
  BY ShapeInvariant, ShapeIsTyped, PTL

-----------------------------------------------------------------------------
(* Jobs that are pending, and what each step does to them.                 *)

\* The handlers that add no record to the log.
LEMMA QuietHandlers ==
    ASSUME NEW r \in Reqs, Handler(r)
    PROVE  \/ UNCHANGED <<accepted, ended, settled>>
           \/ AppendAccepted(r) \/ AppendFails(r)
  <1>1. CASE AnswerConflict(r) \/ AnswerDuplicate(r) \/ RefuseFull(r) \/ AnswerGone(r)
    BY <1>1 DEF AnswerConflict, AnswerDuplicate, RefuseFull, AnswerGone, files
  <1>2. CASE BeginRender(r) \/ CommitAtOnce(r) \/ RenderFails(r) \/ RenderEnds(r)
    BY <1>2 DEF BeginRender, CommitAtOnce, RenderFails, RenderEnds, files, world
  <1>3. CASE SaveArtifacts(r) \/ SaveFails(r) \/ RecordKey(r) \/ RecordFails(r)
             \/ AnswerAccepted(r)
    BY <1>3 DEF SaveArtifacts, SaveFails, RecordKey, RecordFails, AnswerAccepted,
                files, world
  <1>4. QED
    BY <1>1, <1>2, <1>3 DEF Handler

\* Only an append makes a job pending, and only the worker ends one: prune
\* drops no pending job.
LEMMA PendingSteps ==
    ASSUME Shape, [Next]_vars
    PROVE  \/ Pending' = Pending /\ settled' = settled
              /\ UNCHANGED accepted /\ UNCHANGED ended
           \/ \E r \in Reqs : /\ AppendAccepted(r) \/ AppendFails(r)
                              /\ Pending \subseteq Pending' /\ Pending' \subseteq Pending \cup {r}
                              /\ settled' = settled /\ ended' = ended
           \/ \E j \in Pending : /\ Settle(j) /\ Pending' = Pending \ {j}
                                 /\ settled' = settled \cup {j}
                                 /\ Range(ended)' = Range(ended) \cup {j}
           \/ Start /\ Pending' = Pending /\ settled' = settled
              /\ Range(ended)' \subseteq Range(ended) /\ accepted' \subseteq accepted
  <1>1. ASSUME NEW r \in Reqs, Handler(r)
        PROVE  \/ Pending' = Pending /\ settled' = settled
                  /\ UNCHANGED accepted /\ UNCHANGED ended
               \/ /\ AppendAccepted(r) \/ AppendFails(r)
                  /\ Pending \subseteq Pending' /\ Pending' \subseteq Pending \cup {r}
                  /\ settled' = settled /\ ended' = ended
    <2>1. CASE UNCHANGED <<accepted, ended, settled>>
      BY <2>1 DEF Pending
    <2>2. CASE AppendAccepted(r) \/ AppendFails(r)
      <3>1. accepted' \in {accepted, accepted \cup {r}} /\ ended' = ended /\ settled' = settled
        BY <2>2 DEF AppendAccepted, AppendFails, world
      <3>2. QED
        BY <2>2, <3>1 DEF Pending
    <2>3. QED
      BY <1>1, <2>1, <2>2, QuietHandlers
  <1>2. ASSUME NEW j \in Reqs, Settle(j)
        PROVE  /\ j \in Pending /\ Pending' = Pending \ {j} /\ settled' = settled \cup {j}
               /\ Range(ended)' = Range(ended) \cup {j}
    <2>1. j \in accepted /\ j \notin Range(ended) /\ j \in Pending
      BY <1>2 DEF Settle, Pending
    <2>2. Range(ended)' = Range(ended) \cup {j}
      BY <1>2, <2>1, RangeOfAppend DEF Settle, Shape, FilesOK
    <2>3. QED
      BY <1>2, <2>1, <2>2 DEF Settle, Pending
  <1>3. CASE Start
    BY <1>3, PruneKeeps DEF Start, Pending, world
  <1>4. CASE \/ \E j \in Reqs : Evict(j)
             \/ \E k \in Keys : Expire(k)
             \/ End \/ UNCHANGED vars
    <2>1. UNCHANGED <<accepted, ended, settled>>
      BY <1>4 DEF Evict, Expire, End, vars, files, world
    <2>2. QED
      BY <2>1 DEF Pending
  <1>5. QED
    BY <1>1, <1>2, <1>3, <1>4 DEF Next

-----------------------------------------------------------------------------
(* No pending job without its chunks.                                      *)

ChunksInv ==
    /\ \A r \in Reqs : at[r] \in {"log", "record", "answer"} => r \in png
    /\ PendingHasChunks

\* The steps that touch the cache or bring a request to its append.
LEMMA ChunksStep ==
    ASSUME Shape, ChunksInv, [Next]_vars
    PROVE  ChunksInv'
  <1>1. \A r \in Reqs : at'[r] \in {"log", "record", "answer"} => r \in png'
    <2>1. ASSUME NEW s \in Reqs, Handler(s)
          PROVE  \A r \in Reqs : at'[r] \in {"log", "record", "answer"} => r \in png'
      <3>1. at \in [Reqs -> Stages]
        BY DEF Shape, ProcOK
      <3>2. CASE AnswerConflict(s) \/ AnswerDuplicate(s) \/ RefuseFull(s) \/ AnswerGone(s)
        BY <3>1, <3>2 DEF ChunksInv, AnswerConflict, AnswerDuplicate, RefuseFull, AnswerGone,
                          Respond, files
      <3>3. CASE BeginRender(s) \/ CommitAtOnce(s) \/ RenderFails(s) \/ RenderEnds(s)
        BY <3>1, <3>3 DEF ChunksInv, BeginRender, CommitAtOnce, RenderFails, RenderEnds,
                          Commit, Respond, files
      <3>4. CASE SaveArtifacts(s) \/ SaveFails(s)
        BY <3>1, <3>4 DEF ChunksInv, SaveArtifacts, SaveFails, Saved, Respond
      <3>5. CASE AppendAccepted(s) \/ AppendFails(s) \/ RecordKey(s) \/ RecordFails(s)
                 \/ AnswerAccepted(s)
        BY <3>1, <3>5 DEF ChunksInv, AppendAccepted, AppendFails, RecordKey, RecordFails,
                          AnswerAccepted, Respond, files
      <3>6. QED
        BY <2>1, <3>2, <3>3, <3>4, <3>5 DEF Handler
    <2>2. ASSUME NEW j \in Reqs, Evict(j)
          PROVE  \A r \in Reqs : at'[r] \in {"log", "record", "answer"} => r \in png'
      BY <2>2, BusyStages DEF Evict, proc
    <2>3. CASE End
      BY <2>3 DEF ChunksInv, End, files
    <2>4. CASE \/ \E j \in Reqs : Settle(j)
               \/ \E k \in Keys : Expire(k)
               \/ Start \/ UNCHANGED vars
      BY <2>4 DEF ChunksInv, Settle, Expire, Start, vars, files, proc
    <2>5. QED
      BY <2>1, <2>2, <2>3, <2>4 DEF Next
  <1>2. PendingHasChunks'
    <2>1. png \ Evictable \subseteq png'
      <3>1. ASSUME NEW s \in Reqs, Handler(s)
            PROVE  png \subseteq png'
        BY <3>1 DEF Handler, AnswerConflict, AnswerDuplicate, RefuseFull, AnswerGone,
             BeginRender, CommitAtOnce, RenderFails, RenderEnds, SaveArtifacts, SaveFails,
             AppendAccepted, AppendFails, RecordKey, RecordFails, AnswerAccepted, files
      <3>2. QED
        BY <3>1 DEF Next, Settle, Evict, Expire, End, Start, vars, files
    <2>2. Pending' \subseteq Pending \cup {r \in Reqs : at[r] = "log" /\ r \in png'}
      <3>1. ASSUME NEW r \in Reqs, AppendAccepted(r) \/ AppendFails(r)
            PROVE  at[r] = "log" /\ r \in png'
        BY <3>1 DEF ChunksInv, AppendAccepted, AppendFails
      <3>2. QED
        BY <3>1, PendingSteps
    <2>3. QED
      BY <2>1, <2>2 DEF ChunksInv, PendingHasChunks
  <1>3. QED
    BY <1>1, <1>2 DEF ChunksInv

\* Whatever crashes and failed writes happen, a job that the log owes has its
\* chunks, unless the cache itself evicted them.
THEOREM PendingJobsHaveChunks == Spec => []PendingHasChunks
  <1>1. Init => ChunksInv
    BY DEF Init, ChunksInv, PendingHasChunks, Pending
  <1>2. Shape /\ Shape' /\ ChunksInv /\ [Next]_vars => ChunksInv'
    BY ChunksStep
  <1>3. ChunksInv => PendingHasChunks
    BY DEF ChunksInv
  <1>4. QED
    BY <1>1, <1>2, <1>3, ShapeInvariant, PTL DEF Spec

-----------------------------------------------------------------------------
(* The job of a 202 is in the log.                                         *)

Known == settled \cup Pending

KeptInv ==
    /\ Range(ended) \subseteq settled
    /\ \A r \in Reqs : at[r] \in {"record", "answer"} => r \in Known
    /\ \A k \in Keys : /\ idem[k] # None => idem[k].job \in Known
                       /\ idemFile[k] # None => idemFile[k].job \in Known
    /\ AnsweredIsKept

\* A job once logged stays pending or has ended.
LEMMA KnownGrows ==
    ASSUME Shape, Range(ended) \subseteq settled, [Next]_vars
    PROVE  Known \subseteq Known' /\ (Range(ended) \subseteq settled)'
  BY PendingSteps DEF Known

LEMMA KeptHandler ==
    ASSUME Shape, KeptInv, NEW r \in Reqs, Handler(r), Known \subseteq Known',
           (Range(ended) \subseteq settled)'
    PROVE  KeptInv'
  <1>1. \A s \in Reqs : at[s] \in {"record", "answer"} => s \in Known'
    BY DEF KeptInv
  <1>2. \A k \in Keys : /\ idem[k] # None => idem[k].job \in Known'
                        /\ idemFile[k] # None => idemFile[k].job \in Known'
    BY DEF KeptInv
  <1>3. \A s \in Reqs : Got202(s) => answer[s].job \in Known'
    BY DEF KeptInv, AnsweredIsKept, Known
  <1>4. /\ at \in [Reqs -> Stages] /\ answer \in [Reqs -> Answer \cup {None}]
        /\ idem \in [Keys -> Entry \cup {None}] /\ idemFile \in [Keys -> Entry \cup {None}]
    BY DEF Shape, ProcOK, WorldOK, FilesOK
  <1>5. KeptInv' <=>
           /\ \A s \in Reqs : at'[s] \in {"record", "answer"} => s \in Known'
           /\ \A k \in Keys : /\ idem'[k] # None => idem'[k].job \in Known'
                              /\ idemFile'[k] # None => idemFile'[k].job \in Known'
           /\ \A s \in Reqs : Got202(s)' => answer'[s].job \in Known'
    BY DEF KeptInv, AnsweredIsKept, Known
  <1> DEFINE Answered(code, job) ==
               /\ at' = [at EXCEPT ![r] = "done"]
               /\ \E n : answer' = [answer EXCEPT ![r] = [code |-> code, job |-> job, era |-> n]]
  <1>6. ASSUME NEW code, NEW job, Answered(code, job), code = 202 => job \in Known'
        PROVE  /\ \A s \in Reqs : at'[s] \in {"record", "answer"} => s \in Known'
               /\ \A s \in Reqs : Got202(s)' => answer'[s].job \in Known'
    BY <1>1, <1>3, <1>4, <1>6 DEF Got202
  <1>7. ASSUME NEW code, NEW job, Respond(r, code, job)
        PROVE  Answered(code, job)
    BY <1>7 DEF Respond
  <1> HIDE DEF Answered
  <1>8. CASE AnswerConflict(r) \/ RefuseFull(r) \/ AnswerGone(r) \/ RenderFails(r)
    <2>1. (\E code \in {400, 409, 410, 503} : Respond(r, code, None)) /\ UNCHANGED <<idem, idemFile>>
      BY <1>8 DEF AnswerConflict, RefuseFull, AnswerGone, RenderFails, files
    <2>2. QED
      BY <1>2, <1>5, <1>6, <1>7, <2>1
  <1>9. CASE AnswerDuplicate(r)
    <2>1. idem[Key[r]].job \in Known'
      BY <1>2, <1>9, DuplicateAnswer DEF AnswerDuplicate, Duplicate, Hit
    <2>2. Respond(r, 202, idem[Key[r]].job) /\ UNCHANGED <<idem, idemFile>>
      BY <1>9 DEF AnswerDuplicate, files
    <2>3. QED
      BY <1>2, <1>5, <1>6, <1>7, <2>1, <2>2
  <1>10. CASE BeginRender(r) \/ CommitAtOnce(r) \/ SaveArtifacts(r)
    <2>1. /\ \E x \in {"rendering", "cache", "log"} : at' = [at EXCEPT ![r] = x]
          /\ UNCHANGED <<idem, idemFile, answer>>
      BY <1>10 DEF BeginRender, CommitAtOnce, Commit, SaveArtifacts, files, world
    <2>2. QED
      BY <1>1, <1>2, <1>3, <1>4, <1>5, <2>1 DEF Got202
  <1>11. CASE RenderEnds(r)
    <2>1. CASE Respond(r, 503, None)
      BY <1>2, <1>5, <1>6, <1>7, <1>11, <2>1 DEF RenderEnds, files
    <2>2. CASE Commit(r) /\ UNCHANGED answer
      BY <1>1, <1>2, <1>3, <1>4, <1>5, <1>11, <2>2 DEF RenderEnds, Commit, Got202, files
    <2>3. QED
      BY <1>11, <2>1, <2>2 DEF RenderEnds
  <1>12. CASE AppendAccepted(r)
    <2>1. r \in Known'
      BY <1>12 DEF AppendAccepted, KeptInv, Known, Pending, world
    <2>2. /\ \E x \in {"record", "answer"} : at' = [at EXCEPT ![r] = x]
          /\ UNCHANGED <<idem, idemFile, answer>>
      BY <1>12 DEF AppendAccepted, world
    <2>3. QED
      BY <1>1, <1>2, <1>3, <1>4, <1>5, <2>1, <2>2 DEF Got202
  <1>13. CASE AppendFails(r) \/ SaveFails(r)
    BY <1>2, <1>5, <1>6, <1>7, <1>13 DEF AppendFails, SaveFails
  <1>14. CASE RecordKey(r) \/ RecordFails(r)
    <2>1. r \in Known' /\ EntryOf(r).job = r
      BY <1>1, <1>14 DEF RecordKey, RecordFails, EntryOf
    <2>2. /\ idem' = [idem EXCEPT ![Key[r]] = EntryOf(r)]
          /\ idemFile' \in {idemFile, [idemFile EXCEPT ![Key[r]] = EntryOf(r)]}
      BY <1>14 DEF RecordKey, RecordFails
    <2>3. \A k \in Keys : /\ idem'[k] # None => idem'[k].job \in Known'
                          /\ idemFile'[k] # None => idemFile'[k].job \in Known'
      BY <1>2, <1>4, <2>1, <2>2
    <2>4. CASE RecordKey(r)
      BY <1>1, <1>3, <1>4, <1>5, <2>1, <2>3, <2>4 DEF RecordKey, Got202, world
    <2>5. CASE RecordFails(r)
      BY <1>5, <1>6, <1>7, <2>3, <2>5 DEF RecordFails
    <2>6. QED
      BY <1>14, <2>4, <2>5
  <1>15. CASE AnswerAccepted(r)
    <2>1. r \in Known'
      BY <1>1, <1>15 DEF AnswerAccepted
    <2>2. QED
      BY <1>2, <1>5, <1>6, <1>7, <1>15, <2>1 DEF AnswerAccepted, files
  <1>16. QED
    BY <1>8, <1>9, <1>10, <1>11, <1>12, <1>13, <1>14, <1>15 DEF Handler

LEMMA KeptStep ==
    ASSUME Shape, KeptInv, [Next]_vars
    PROVE  KeptInv'
  <1>1. Known \subseteq Known' /\ (Range(ended) \subseteq settled)'
    BY KnownGrows DEF KeptInv
  <1>2. CASE \E r \in Reqs : Handler(r)
    BY <1>1, <1>2, KeptHandler
  <1>3. CASE ~\E r \in Reqs : Handler(r)
    <2>1. /\ answer' = answer
          /\ \A r \in Reqs : at'[r] = at[r] \/ at'[r] = "gone"
      BY <1>3 DEF Next, Settle, Evict, Expire, End, Start, vars, proc, world, Shape, ProcOK
    <2>2. \A e \in Entry \cup {None} : Stale(e) # None => e # None /\ Stale(e).job = e.job
      BY DEF Stale, Entry
    <2>3. \A k \in Keys :
             /\ idem'[k] # None => \E e \in {idem[k], idemFile[k]} :
                                      e # None /\ idem'[k].job = e.job
             /\ idemFile'[k] # None => idemFile[k] # None /\ idemFile'[k].job = idemFile[k].job
      <3>1. CASE \E k \in Keys : Expire(k)
        BY <2>2, <3>1 DEF Expire, Shape, ProcOK, FilesOK
      <3>2. CASE ~\E k \in Keys : Expire(k)
        <4>1. idemFile' = idemFile /\ idem' \in {idem, idemFile, [k \in Keys |-> None]}
          BY <1>3, <3>2 DEF Next, Settle, Evict, End, Start, Reloaded, vars, proc, files
        <4>2. QED
          BY <4>1
      <3>3. QED
        BY <3>1, <3>2
    <2>4. AnsweredIsKept'
      BY <1>1, <2>1 DEF KeptInv, AnsweredIsKept, Got202, Known
    <2>5. \A k \in Keys : /\ idem'[k] # None => idem'[k].job \in Known'
                          /\ idemFile'[k] # None => idemFile'[k].job \in Known'
      BY <1>1, <2>3 DEF KeptInv
    <2>6. \A r \in Reqs : at'[r] \in {"record", "answer"} => r \in Known'
      BY <1>1, <2>1 DEF KeptInv
    <2>7. QED
      BY <1>1, <2>4, <2>5, <2>6 DEF KeptInv
  <1>4. QED
    BY <1>2, <1>3

\* Durable before 202, for any number of crashes and failed writes and any
\* pruning limit: the job of each 202 is owed by the log until it has ended.
THEOREM AnsweredJobsAreKept == Spec => []AnsweredIsKept
  <1>1. Init => KeptInv
    BY DEF Init, KeptInv, AnsweredIsKept, Got202, Range
  <1>2. Shape /\ Shape' /\ KeptInv /\ [Next]_vars => KeptInv'
    BY KeptStep
  <1>3. KeptInv => AnsweredIsKept
    BY DEF KeptInv
  <1>4. QED
    BY <1>1, <1>2, <1>3, ShapeInvariant, PTL DEF Spec

-----------------------------------------------------------------------------
(* The queue cap.                                                          *)

Capped(r) == Kind[r] \in {"print", "raw"}

CapInv ==
    \A r \in Reqs : /\ at[r] = "rendering" => Kind[r] # "raw"
                    /\ at[r] \in {"cache", "log"} /\ Capped(r) => ~Full

\* No other handler runs between a commit and its append.
LEMMA CapHandler ==
    ASSUME Shape, CapInv, NEW s \in Reqs, Handler(s)
    PROVE  CapInv'
  <1>1. at \in [Reqs -> Stages]
    BY DEF Shape, ProcOK
  <1>2. ASSUME UNCHANGED <<accepted, ended>>
        PROVE  Full' = Full
    BY <1>2 DEF Full, Pending
  <1>3. CASE AnswerConflict(s) \/ AnswerDuplicate(s) \/ RefuseFull(s) \/ AnswerGone(s)
             \/ RenderFails(s) \/ SaveFails(s) \/ RecordFails(s) \/ AnswerAccepted(s)
    <2>1. at' = [at EXCEPT ![s] = "done"] /\ UNCHANGED <<accepted, ended>>
      BY <1>3 DEF AnswerConflict, AnswerDuplicate, RefuseFull, AnswerGone, RenderFails,
                  SaveFails, RecordFails, AnswerAccepted, Respond, files
    <2>2. QED
      BY <1>1, <1>2, <2>1 DEF CapInv
  <1>4. CASE BeginRender(s)
    <2>1. Kind[s] # "raw" /\ at' = [at EXCEPT ![s] = "rendering"] /\ UNCHANGED <<accepted, ended>>
      BY <1>4 DEF BeginRender, FromBody, files
    <2>2. QED
      BY <1>1, <1>2, <2>1 DEF CapInv
  <1>5. CASE CommitAtOnce(s)
    BY <1>1, <1>2, <1>5 DEF CapInv, CommitAtOnce, Commit, files
  <1>6. CASE RenderEnds(s)
    <2>1. at[s] = "rendering" /\ UNCHANGED <<accepted, ended>>
      BY <1>6, ReleaseShape DEF RenderEnds, files
    <2>2. CASE Respond(s, 503, None)
      BY <1>1, <1>2, <2>1, <2>2 DEF CapInv, Respond
    <2>3. CASE Commit(s) /\ ~(Rechecked(s) /\ Full)
      BY <1>1, <1>2, <2>1, <2>3 DEF CapInv, Commit, Rechecked, Capped
    <2>4. QED
      BY <1>6, <2>2, <2>3 DEF RenderEnds
  <1>7. CASE SaveArtifacts(s)
    BY <1>1, <1>2, <1>7 DEF CapInv, SaveArtifacts
  <1>8. CASE AppendAccepted(s) \/ AppendFails(s) \/ RecordKey(s)
    <2>1. \A r \in Reqs : at'[r] \notin {"cache", "log"}
      BY <1>1, <1>8, BusyStages DEF AppendAccepted, AppendFails, RecordKey, Respond
    <2>2. \A r \in Reqs : at'[r] = "rendering" => at[r] = "rendering"
      BY <1>1, <1>8 DEF AppendAccepted, AppendFails, RecordKey, Respond
    <2>3. QED
      BY <2>1, <2>2 DEF CapInv
  <1>9. QED
    BY <1>3, <1>4, <1>5, <1>6, <1>7, <1>8 DEF Handler

LEMMA CapStep ==
    ASSUME Shape, CapInv, [Next]_vars
    PROVE  CapInv'
  <1>1. CASE \E s \in Reqs : Handler(s)
    BY <1>1, CapHandler
  <1>2. CASE \E j \in Reqs : Settle(j)
    BY <1>2, BusyStages DEF CapInv, Settle, proc
  <1>3. CASE End
    <2>1. \A r \in Reqs : at'[r] \notin {"rendering", "cache", "log"}
      BY <1>3 DEF End
    <2>2. QED
      BY <2>1 DEF CapInv
  <1>4. CASE \/ \E j \in Reqs : Evict(j)
             \/ \E k \in Keys : Expire(k)
             \/ Start \/ UNCHANGED vars
    <2>1. at' = at /\ Pending' = Pending
      BY <1>4, PruneKeeps DEF Evict, Expire, Start, Pending, vars, files, proc
    <2>2. Full' = Full
      BY <2>1 DEF Full
    <2>3. QED
      BY <2>1, <2>2 DEF CapInv
  <1>5. QED
    BY <1>1, <1>2, <1>3, <1>4 DEF Next

\* A reprint that was rendered stays one: its source's chunks do not come back,
\* and a reprint from the cache stores no document.
ReprintInv ==
    /\ \A r \in body : at[r] \notin {"new", "rendering", "cache"}
    /\ \A r \in Reqs : Kind[r] = "reprint" =>
          /\ at[r] = "rendering" => Source[r] \in body /\ Source[r] \notin png
          /\ at[r] = "cache" /\ Source[r] \in png => ~Full
          /\ at[r] = "log" /\ r \notin body => ~Full

LEMMA ReprintHandler ==
    ASSUME Shape, ReprintInv, NEW s \in Reqs, Handler(s)
    PROVE  ReprintInv'
  <1>1. at \in [Reqs -> Stages] /\ body \subseteq Reqs
    BY DEF Shape, ProcOK, FilesOK
  <1>2. ASSUME UNCHANGED <<accepted, ended>>
        PROVE  Full' = Full
    BY <1>2 DEF Full, Pending
  <1>3. CASE AnswerConflict(s) \/ AnswerDuplicate(s) \/ RefuseFull(s) \/ AnswerGone(s)
             \/ RenderFails(s) \/ RecordFails(s) \/ AnswerAccepted(s)
    <2>1. at' = [at EXCEPT ![s] = "done"] /\ UNCHANGED <<accepted, ended, png, body>>
      BY <1>3 DEF AnswerConflict, AnswerDuplicate, RefuseFull, AnswerGone, RenderFails,
                  RecordFails, AnswerAccepted, Respond, files
    <2>2. QED
      BY <1>1, <1>2, <2>1 DEF ReprintInv
  <1>4. CASE BeginRender(s)
    <2>1. /\ at[s] = "new" /\ at' = [at EXCEPT ![s] = "rendering"]
          /\ UNCHANGED <<accepted, ended, png, body>>
          /\ Kind[s] = "reprint" => Source[s] \in body /\ Source[s] \notin png
      BY <1>4 DEF BeginRender, Arrives, FromBody, FromCache, files
    <2>2. QED
      BY <1>1, <1>2, <2>1 DEF ReprintInv
  <1>5. CASE CommitAtOnce(s)
    <2>1. /\ at[s] = "new" /\ at' = [at EXCEPT ![s] = "cache"] /\ ~Full
          /\ UNCHANGED <<accepted, ended, png, body>>
      BY <1>5 DEF CommitAtOnce, Commit, Arrives, files
    <2>2. s \notin body
      BY <2>1 DEF ReprintInv
    <2>3. QED
      BY <1>1, <1>2, <2>1, <2>2 DEF ReprintInv
  <1>6. CASE RenderEnds(s)
    <2>1. at[s] = "rendering" /\ UNCHANGED <<accepted, ended, png, body>>
      BY <1>6, ReleaseShape DEF RenderEnds, files
    <2>2. s \notin body /\ (Kind[s] = "reprint" => Source[s] \notin png)
      BY <2>1 DEF ReprintInv
    <2>3. at' \in {[at EXCEPT ![s] = "done"], [at EXCEPT ![s] = "cache"]}
      BY <1>6 DEF RenderEnds, Respond, Commit
    <2>4. QED
      BY <1>1, <1>2, <2>1, <2>2, <2>3 DEF ReprintInv
  <1>7. CASE SaveArtifacts(s) \/ SaveFails(s)
    <2>1. /\ at[s] = "cache" /\ s \notin body
          /\ \A r \in Reqs : r # s => at[r] \notin {"cache", "log"}
      BY <1>7, BusyStages DEF SaveArtifacts, SaveFails, ReprintInv
    <2>2. /\ png' \subseteq png \cup {s} /\ UNCHANGED <<accepted, ended>>
          /\ at' \in {[at EXCEPT ![s] = "log"], [at EXCEPT ![s] = "done"]}
          /\ body' \in {body, body \cup {s}}
      BY <1>7 DEF SaveArtifacts, SaveFails, Saved, Respond
    <2>3. Kind[s] = "reprint" /\ at'[s] = "log" /\ s \notin body' => ~Full
      <3>1. CASE SaveArtifacts(s)
        <4>1. Kind[s] = "reprint" /\ s \notin body' => Source[s] \in png
          BY <3>1 DEF SaveArtifacts, FromBody, FromCache
        <4>2. QED
          BY <2>1, <4>1 DEF ReprintInv
      <3>2. CASE SaveFails(s)
        BY <1>1, <3>2 DEF SaveFails, Respond
      <3>3. QED
        BY <1>7, <3>1, <3>2
    <2>4. ASSUME NEW r \in Reqs, Kind[r] = "reprint", at'[r] = "rendering"
          PROVE  Source[r] \in body' /\ Source[r] \notin png'
      <3>1. at[r] = "rendering"
        BY <1>1, <2>2, <2>4
      <3>2. Source[r] \in body /\ Source[r] \notin png
        BY <2>4, <3>1 DEF ReprintInv
      <3>3. QED
        BY <2>1, <2>2, <3>2
    <2>5. \A r \in body' : at'[r] \notin {"new", "rendering", "cache"}
      BY <1>1, <2>2 DEF ReprintInv
    <2>6. \A r \in Reqs : at'[r] # "cache" /\ (r # s => at'[r] # "log")
      BY <1>1, <2>1, <2>2
    <2>7. QED
      BY <1>2, <2>2, <2>3, <2>4, <2>5, <2>6 DEF ReprintInv
  <1>8. CASE AppendAccepted(s) \/ AppendFails(s) \/ RecordKey(s)
    <2>1. \A r \in Reqs : at'[r] \notin {"cache", "log"}
      BY <1>1, <1>8, BusyStages DEF AppendAccepted, AppendFails, RecordKey, Respond
    <2>2. /\ \E x \in {"record", "answer", "done"} : at' = [at EXCEPT ![s] = x]
          /\ UNCHANGED <<png, body>>
      BY <1>8 DEF AppendAccepted, AppendFails, RecordKey, Respond
    <2>3. QED
      BY <1>1, <2>1, <2>2 DEF ReprintInv
  <1>9. QED
    BY <1>3, <1>4, <1>5, <1>6, <1>7, <1>8 DEF Handler

LEMMA ReprintStep ==
    ASSUME Shape, ReprintInv, [Next]_vars
    PROVE  ReprintInv'
  <1>1. CASE \E s \in Reqs : Handler(s)
    BY <1>1, ReprintHandler
  <1>2. CASE \E j \in Reqs : Settle(j)
    BY <1>2, BusyStages DEF ReprintInv, Settle, proc
  <1>3. CASE End
    BY <1>3 DEF End, ReprintInv, files, Shape, FilesOK
  <1>4. CASE \/ \E j \in Reqs : Evict(j)
             \/ \E k \in Keys : Expire(k)
             \/ Start \/ UNCHANGED vars
    <2>1. at' = at /\ body' = body /\ png' \subseteq png /\ Pending' = Pending
      BY <1>4, PruneKeeps DEF Evict, Expire, Start, Pending, vars, files, proc
    <2>2. Full' = Full
      BY <2>1 DEF Full
    <2>3. QED
      BY <2>1, <2>2 DEF ReprintInv
  <1>5. QED
    BY <1>1, <1>2, <1>3, <1>4 DEF Next

\* Concurrent requests never take /print, /print/raw and reprints from the cache
\* past the queue cap, for any number of requests at the render thread, any cap
\* and any failed writes.
THEOREM CapIsTested == Spec => AdmittedUnderCap
  <1> DEFINE Tested(r) == Kind[r] \in {"print", "raw"} \/ (Kind[r] = "reprint" /\ r \notin body)
             Admitted == \A r \in Reqs :
                /\ r \in accepted' \ accepted
                /\ Kind[r] \in {"print", "raw"} \/ (Kind[r] = "reprint" /\ r \notin body)
                => ~Full
  <1>1. Init => CapInv /\ ReprintInv
    BY DEF Init, CapInv, ReprintInv
  <1>2. Shape /\ CapInv /\ ReprintInv /\ [Next]_vars => CapInv' /\ ReprintInv'
    BY CapStep, ReprintStep
  <1>3. ASSUME Shape, CapInv, ReprintInv, [Next]_vars PROVE Admitted
    <2>1. ASSUME NEW r \in Reqs, AppendAccepted(r) \/ AppendFails(r)
          PROVE  accepted' \subseteq accepted \cup {r} /\ (Tested(r) => ~Full)
      <3>1. at[r] = "log" /\ accepted' \subseteq accepted \cup {r}
        BY <2>1 DEF AppendAccepted, AppendFails
      <3>2. Capped(r) => ~Full
        BY <1>3, <3>1, Zenon DEF CapInv
      <3>3. Kind[r] = "reprint" /\ r \notin body => ~Full
        BY <1>3, <3>1, Zenon DEF ReprintInv
      <3>4. QED
        BY <3>1, <3>2, <3>3 DEF Capped
    <2>2. \/ accepted' \subseteq accepted
          \/ \E r \in Reqs : AppendAccepted(r) \/ AppendFails(r)
      <3>1. \A j : Settle(j) => accepted' = accepted
        BY DEF Settle
      <3>2. QED
        BY <1>3, <3>1, PendingSteps
    <2>3. \A r \in Reqs : r \in accepted' \ accepted /\ Tested(r) => ~Full
      <3> HIDE DEF Tested
      <3>1. QED
        BY <2>1, <2>2
    <2>4. QED
      BY <2>3
  <1>4. Shape /\ CapInv /\ ReprintInv /\ [Next]_vars => [Admitted]_vars
    BY <1>3
  <1>5. QED
    BY <1>1, <1>2, <1>4, ShapeInvariant, PTL DEF Spec, AdmittedUnderCap

-----------------------------------------------------------------------------
(* Wake-ups.                                                               *)

WokenInv ==
    up /\ faults = 0 => \A j \in Pending : j \in tokens \/ at[j] = "record"

\* A handler leaves the process up, and takes no wake-up away.
LEMMA HandlerFrame ==
    ASSUME NEW r \in Reqs, Handler(r)
    PROVE  up' = up /\ tokens \subseteq tokens'
  <1>1. CASE AnswerConflict(r) \/ AnswerDuplicate(r) \/ RefuseFull(r) \/ AnswerGone(r)
    BY <1>1 DEF AnswerConflict, AnswerDuplicate, RefuseFull, AnswerGone
  <1>2. CASE BeginRender(r) \/ CommitAtOnce(r) \/ RenderFails(r) \/ RenderEnds(r)
    BY <1>2 DEF BeginRender, CommitAtOnce, RenderFails, RenderEnds, world
  <1>3. CASE SaveArtifacts(r) \/ AppendAccepted(r) \/ RecordKey(r) \/ AnswerAccepted(r)
    BY <1>3 DEF SaveArtifacts, AppendAccepted, RecordKey, AnswerAccepted, world
  <1>4. CASE SaveFails(r) \/ AppendFails(r) \/ RecordFails(r)
    BY <1>4 DEF SaveFails, AppendFails, RecordFails
  <1>5. QED
    BY <1>1, <1>2, <1>3, <1>4 DEF Handler

\* While no write has failed, none fails.
LEMMA NoFault ==
    ASSUME NEW r \in Reqs, Handler(r), faults \in Nat, faults' = 0
    PROVE  faults = 0 /\ ~SaveFails(r) /\ ~AppendFails(r) /\ ~RecordFails(r)
  <1>1. faults' # faults + 1
    OBVIOUS
  <1>2. ~SaveFails(r) /\ ~AppendFails(r) /\ ~RecordFails(r)
    BY <1>1 DEF SaveFails, AppendFails, RecordFails
  <1>3. CASE AnswerConflict(r) \/ AnswerDuplicate(r) \/ RefuseFull(r) \/ AnswerGone(r)
    BY <1>2, <1>3 DEF AnswerConflict, AnswerDuplicate, RefuseFull, AnswerGone
  <1>4. CASE BeginRender(r) \/ CommitAtOnce(r) \/ RenderFails(r) \/ RenderEnds(r)
    BY <1>2, <1>4 DEF BeginRender, CommitAtOnce, RenderFails, RenderEnds, world
  <1>5. CASE SaveArtifacts(r) \/ AppendAccepted(r) \/ RecordKey(r) \/ AnswerAccepted(r)
    BY <1>2, <1>5 DEF SaveArtifacts, AppendAccepted, RecordKey, AnswerAccepted, world
  <1>6. QED
    BY <1>2, <1>3, <1>4, <1>5 DEF Handler

\* Between the log and the key's record, only the request's own handler runs.
LEMMA RecordingAlone ==
    ASSUME Shape, NEW j \in Reqs, at[j] = "record", NEW r \in Reqs, Handler(r)
    PROVE  r = j /\ (RecordKey(r) \/ RecordFails(r))
  <1>1. busy = j /\ j # None
    BY BusyStages, ReqsAssumption
  <1>2. ~Arrives(r) /\ ~Rendered(r)
    BY <1>1 DEF Arrives, Rendered
  <1>3. CASE AnswerConflict(r) \/ AnswerDuplicate(r) \/ RefuseFull(r) \/ AnswerGone(r)
    BY <1>2, <1>3 DEF AnswerConflict, AnswerDuplicate, RefuseFull, AnswerGone
  <1>4. CASE BeginRender(r) \/ CommitAtOnce(r) \/ RenderFails(r) \/ RenderEnds(r)
    BY <1>2, <1>4 DEF BeginRender, CommitAtOnce, RenderFails, RenderEnds
  <1>5. CASE SaveArtifacts(r) \/ SaveFails(r) \/ AppendAccepted(r) \/ AppendFails(r)
             \/ AnswerAccepted(r)
    BY <1>1, <1>5 DEF SaveArtifacts, SaveFails, AppendAccepted, AppendFails, AnswerAccepted
  <1>6. CASE RecordKey(r) \/ RecordFails(r)
    BY <1>1, <1>6 DEF RecordKey, RecordFails
  <1>7. QED
    BY <1>3, <1>4, <1>5, <1>6 DEF Handler

LEMMA WokenStep ==
    ASSUME Shape, WokenInv, [Next]_vars
    PROVE  WokenInv'
  <1> SUFFICES ASSUME up', faults' = 0, NEW j \in Pending'
               PROVE  j \in tokens' \/ at'[j] = "record"
    BY DEF WokenInv
  <1>1. j \in Reqs /\ at \in [Reqs -> Stages] /\ faults \in Nat
    BY StepShape DEF Shape, FilesOK, ProcOK, WorldOK, Pending
  <1>2. CASE Start
    BY <1>2, PruneKeeps DEF Start, Pending, Replayed
  <1>3. CASE ~Start
    <2>1. CASE ~\E r \in Reqs : Handler(r)
      <3>1. up /\ faults = 0 /\ tokens' = tokens /\ at' = at /\ Pending' \subseteq Pending
        BY <1>3, <2>1, PendingSteps
        DEF Next, Settle, Evict, Expire, End, vars, proc, world, Handler
      <3>2. QED
        BY <3>1 DEF WokenInv
    <2>2. CASE \E r \in Reqs : Handler(r)
      <3>1. PICK r \in Reqs : Handler(r)
        BY <2>2
      <3>2. up /\ faults = 0 /\ tokens \subseteq tokens' /\ ~AppendFails(r) /\ ~RecordFails(r)
        <4>1. faults = 0 /\ ~AppendFails(r) /\ ~RecordFails(r)
          BY <1>1, <3>1, NoFault, Zenon
        <4>2. up /\ tokens \subseteq tokens'
          BY <3>1, HandlerFrame, Zenon
        <4>3. QED
          BY <4>1, <4>2, Zenon
      <3>3. CASE j \in tokens
        BY <3>2, <3>3
      <3>4. CASE at[j] = "record"
        BY <1>1, <3>1, <3>2, <3>4, RecordingAlone DEF RecordKey
      <3>5. CASE j \notin Pending
        <4>1. AppendAccepted(j)
          <5>1. UNCHANGED <<accepted, ended>> \/ AppendAccepted(r)
            BY <3>1, <3>2, QuietHandlers
          <5>2. j \in accepted' /\ j \notin Range(ended') /\ ~(j \in accepted /\ j \notin Range(ended))
            BY <3>5 DEF Pending
          <5>3. ~UNCHANGED <<accepted, ended>>
            BY <5>2
          <5>4. ended' = ended /\ accepted' = accepted \cup {r}
            BY <5>1, <5>3 DEF AppendAccepted
          <5>5. QED
            BY <5>1, <5>2, <5>3, <5>4
        <4>2. QED
          BY <1>1, <4>1 DEF AppendAccepted, EnqueuedFirst
      <3>6. QED
        BY <3>2, <3>3, <3>4, <3>5 DEF WokenInv
    <2>3. QED
      BY <2>1, <2>2
  <1>4. QED
    BY <1>2, <1>3

\* No wake-up is lost between the log and the worker: with no failed write,
\* each pending job is in the worker's queue whenever the loop is free.
THEOREM PendingJobsAreWoken == Spec => []PendingIsWoken
  <1>1. Init => WokenInv
    BY DEF Init, WokenInv, Pending
  <1>2. Shape /\ Shape' /\ WokenInv /\ [Next]_vars => WokenInv'
    BY WokenStep
  <1>3. Shape /\ WokenInv => PendingIsWoken
    BY BusyStages DEF WokenInv, PendingIsWoken, Pending, Shape, FilesOK
  <1>4. QED
    BY <1>1, <1>2, <1>3, ShapeInvariant, PTL DEF Spec

-----------------------------------------------------------------------------
(* Idempotency of /print/raw.  The entry on disk is what counts: it is the  *)
(* one in memory while the process runs, and what a new process reads.      *)

RawKeyed(r) == Kind[r] = "raw" /\ Key[r] # None
Fresh(k)    == idemFile[k] # None /\ idemFile[k].fresh
RawPayloads == {Payload[r] : r \in {s \in Reqs : Kind[s] = "raw"}}

\* The entry of r's key names job j, with r's payload.
Names(r, j) ==
    /\ Fresh(Key[r])
    /\ idemFile[Key[r]].job = j /\ idemFile[Key[r]].payload = Payload[r]

\* No other raw request can be accepted under r's key: the entry is r's, or it
\* is that of a document and every raw request conflicts with it.
Covers(r) ==
    /\ Fresh(Key[r])
    /\ idemFile[Key[r]].payload \in RawPayloads => Names(r, answer[r].job)

Current(r) == answer[r].era = era[Key[r]]

RawStages ==
    \A r \in Reqs : RawKeyed(r) =>
        /\ at[r] \in {"cache", "log", "record"} => ~Fresh(Key[r])
        /\ at[r] = "answer" => Names(r, r)
RawCovered ==
    \A r \in Reqs : RawKeyed(r) /\ Got202(r) =>
        answer[r].era <= era[Key[r]] /\ (Current(r) => Covers(r))
RawPairs ==
    \A r, s \in Reqs : RawKeyed(r) /\ RawKeyed(s) => Agree(r, s)

HeldByUp == busy # None => up
MemoryIsFile == up => idem = idemFile

RawInv ==
    /\ HeldByUp
    /\ faults = 0 => MemoryIsFile /\ RawStages /\ RawCovered /\ RawPairs

LEMMA PairsAgree == RawPairs => \A r, s \in Reqs : Kind[r] = "raw" /\ Kind[s] = "raw" => Agree(r, s)
  BY DEF RawPairs, RawKeyed, Agree

\* What a raw request in memory hits is on disk; no hit, no fresh entry.
LEMMA RawHit ==
    ASSUME Shape, MemoryIsFile, NEW r \in Reqs, RawKeyed(r), Arrives(r)
    PROVE  /\ Hit(r) <=> Fresh(Key[r])
           /\ Duplicate(r) => Names(r, idem[Key[r]].job)
           /\ ~Conflict(r) /\ ~Duplicate(r) => ~Fresh(Key[r])
  <1>1. idem = idemFile /\ Key[r] \in Keys
    BY ReqsAssumption DEF Arrives, MemoryIsFile, RawKeyed
  <1>2. Hit(r) <=> Fresh(Key[r])
    BY <1>1 DEF Hit, Fresh, RawKeyed
  <1>3. QED
    BY <1>1, <1>2 DEF Conflict, Duplicate, Names, RawKeyed

\* While no entry and no era changes, a raw request gets 202 only for the job
\* that a fresh entry names.
LEMMA RawAnswers ==
    ASSUME RawCovered, RawPairs, idemFile' = idemFile, era' = era,
           \A r \in Reqs : RawKeyed(r) => era[Key[r]] \in Nat,
           \A r \in Reqs : RawKeyed(r) /\ Got202(r)' =>
              \/ answer'[r] = answer[r]
              \/ answer'[r].era = era[Key[r]] /\ Names(r, answer'[r].job)
    PROVE  RawCovered' /\ RawPairs'
  <1>1. \A r : Fresh(Key[r])' <=> Fresh(Key[r])
    BY DEF Fresh
  <1>2. \A r, j : Names(r, j)' <=> Names(r, j)
    BY <1>1 DEF Names
  <1>3. ASSUME NEW r \in Reqs, RawKeyed(r), Got202(r)'
        PROVE  /\ answer'[r].era <= era[Key[r]]
               /\ answer'[r].era = era[Key[r]] =>
                     /\ Fresh(Key[r])
                     /\ idemFile[Key[r]].payload \in RawPayloads => Names(r, answer'[r].job)
    <2>1. CASE answer'[r] = answer[r]
      <3>1. Got202(r)
        BY <1>3, <2>1, Zenon DEF Got202
      <3>2. QED
        BY <1>3, <2>1, <3>1, Zenon DEF RawCovered, Current, Covers
    <2>2. CASE answer'[r].era = era[Key[r]] /\ Names(r, answer'[r].job)
      <3>1. answer'[r].era <= era[Key[r]]
        BY <1>3, <2>2
      <3>2. QED
        BY <2>2, <3>1, Zenon DEF Names
    <2>3. QED
      BY <1>3, <2>1, <2>2, Zenon
  <1>4. RawCovered'
    BY <1>1, <1>2, <1>3, Zenon DEF RawCovered, Current, Covers, RawKeyed, RawPayloads
  <1>5. ASSUME NEW r \in Reqs, NEW s \in Reqs, RawKeyed(r), RawKeyed(s),
               Key[r] = Key[s], Got202(r)', Got202(s)', answer'[r].era = answer'[s].era
        PROVE  answer'[r].job = answer'[s].job /\ Payload[r] = Payload[s]
    <2>1. CASE answer'[r] = answer[r] /\ answer'[s] = answer[s]
      <3>1. Got202(r) /\ Got202(s) /\ answer[r].era = answer[s].era /\ Key[r] # None
        BY <1>5, <2>1, Zenon DEF Got202, RawKeyed
      <3>2. Agree(r, s)
        BY <1>5, Zenon DEF RawPairs
      <3>3. QED
        BY <1>5, <2>1, <3>1, <3>2, Zenon DEF Agree
    <2>2. CASE \E t \in {r, s} : answer'[t].era = era[Key[t]] /\ Names(t, answer'[t].job)
      <3>1. answer'[r].era = era[Key[r]] /\ answer'[s].era = era[Key[s]]
        BY <1>5, <2>2
      <3>2. idemFile[Key[r]].payload \in RawPayloads
        BY <1>5, <2>2 DEF Names, RawPayloads, RawKeyed
      <3>3. Names(r, answer'[r].job) /\ Names(s, answer'[s].job)
        BY <1>3, <1>5, <3>1, <3>2
      <3>4. QED
        BY <1>5, <3>3 DEF Names
    <2>3. QED
      BY <1>5, <2>1, <2>2
  <1>6. RawPairs'
    BY <1>5 DEF RawPairs, Agree
  <1>7. QED
    BY <1>4, <1>6

\* Steps that leave the entries alone.
LEMMA RawQuiet ==
    ASSUME RawStages, RawCovered, RawPairs, idemFile' = idemFile, era' = era, answer' = answer,
           \A r \in Reqs : RawKeyed(r) =>
              /\ at'[r] = "answer" => at[r] = "answer"
              /\ at'[r] \in {"cache", "log", "record"} =>
                    at[r] \in {"cache", "log", "record"} \/ ~Fresh(Key[r])
    PROVE  RawStages' /\ RawCovered' /\ RawPairs'
  <1>1. \A r : Fresh(Key[r])' <=> Fresh(Key[r])
    BY DEF Fresh
  <1>2. \A r, j : Names(r, j)' <=> Names(r, j)
    BY <1>1 DEF Names
  <1>3. \A r : (Covers(r)' <=> Covers(r)) /\ (Current(r)' <=> Current(r))
    BY <1>1, <1>2 DEF Covers, Current
  <1>4. RawStages'
    BY <1>1, <1>2, Zenon DEF RawStages, RawKeyed
  <1>5. RawCovered'
    BY <1>3 DEF RawCovered, Got202, RawKeyed
  <1>6. RawPairs'
    BY Zenon DEF RawPairs, Agree, Got202, RawKeyed
  <1>7. QED
    BY <1>4, <1>5, <1>6

\* A handler's answer, on entries that do not change.
LEMMA RawResponds ==
    ASSUME Shape, RawStages, RawCovered, RawPairs, UNCHANGED <<idemFile, era>>,
           NEW s \in Reqs, NEW code, NEW job, Respond(s, code, job),
           RawKeyed(s) /\ code = 202 => Names(s, job)
    PROVE  RawStages' /\ RawCovered' /\ RawPairs'
  <1>1. at \in [Reqs -> Stages] /\ answer \in [Reqs -> Answer \cup {None}]
    BY DEF Shape, ProcOK, WorldOK
  <1>2. \A r \in Reqs : RawKeyed(r) => era[Key[r]] \in Nat
    BY ReqsAssumption, BoundAssumption DEF Shape, WorldOK, RawKeyed
  <1>3. /\ at' = [at EXCEPT ![s] = "done"]
        /\ answer' = [answer EXCEPT ![s] = [code |-> code, job |-> job, era |-> EraOf(s)]]
    BY DEF Respond
  <1>4. ASSUME NEW r \in Reqs, RawKeyed(r), Got202(r)'
        PROVE  \/ answer'[r] = answer[r]
               \/ answer'[r].era = era[Key[r]] /\ Names(r, answer'[r].job)
    <2>1. CASE r = s
      <3>1. answer'[r] = [code |-> code, job |-> job, era |-> EraOf(s)]
        BY <1>1, <1>3, <2>1
      <3>2. answer'[r].code = code /\ answer'[r].job = job /\ answer'[r].era = EraOf(s)
        BY <3>1
      <3>3. code = 202
        BY <1>4, <3>2, Zenon DEF Got202
      <3>4. EraOf(s) = era[Key[r]]
        BY <1>4, <2>1 DEF EraOf, RawKeyed
      <3>5. QED
        BY <1>4, <2>1, <3>2, <3>3, <3>4, Zenon
    <2>2. CASE r # s
      BY <1>1, <1>3, <2>2
    <2>3. QED
      BY <2>1, <2>2
  <1>5. RawCovered' /\ RawPairs'
    BY <1>2, <1>4, RawAnswers
  <1>6. \A r : Fresh(Key[r])' <=> Fresh(Key[r])
    BY DEF Fresh
  <1>7. \A r : Names(r, r)' <=> Names(r, r)
    BY <1>6 DEF Names
  <1>8. \A r \in Reqs : at'[r] = at[r] \/ at'[r] = "done"
    BY <1>1, <1>3
  <1>9. RawStages'
    BY <1>6, <1>7, <1>8 DEF RawStages, RawKeyed
  <1>10. QED
    BY <1>5, <1>9

\* Only a document overwrites a fresh entry, and that of a raw request never
\* has a raw request's payload: all that come later conflict.
LEMMA RawRecords ==
    ASSUME Shape, RawStages, RawCovered, RawPairs, NEW s \in Reqs, RecordKey(s)
    PROVE  RawStages' /\ RawCovered' /\ RawPairs'
  <1>1. /\ at \in [Reqs -> Stages] /\ idemFile \in [Keys -> Entry \cup {None}]
        /\ Key[s] \in Keys /\ busy = s /\ at[s] = "record" /\ Kind[s] \in {"print", "raw"}
    BY ReqsAssumption DEF RecordKey, Shape, ProcOK, FilesOK
  <1>2. /\ idemFile' = [idemFile EXCEPT ![Key[s]] = EntryOf(s)] /\ era' = era /\ answer' = answer
        /\ at' = [at EXCEPT ![s] = "answer"]
    BY DEF RecordKey, world
  <1>3. /\ EntryOf(s) # None /\ EntryOf(s).fresh
        /\ EntryOf(s).job = s /\ EntryOf(s).payload = Payload[s]
    BY EntryTyped, NoneAssumption DEF EntryOf
  <1>4. \A k : k # Key[s] => idemFile'[k] = idemFile[k]
    BY <1>1, <1>2
  <1>5. \A r : Key[r] # Key[s] => /\ Fresh(Key[r])' <=> Fresh(Key[r])
                                  /\ \A j : Names(r, j)' <=> Names(r, j)
    BY <1>4 DEF Fresh, Names
  <1>6. idemFile'[Key[s]] = EntryOf(s)
    BY <1>1, <1>2
  <1>7. Names(s, s)' /\ Fresh(Key[s])'
    BY <1>3, <1>6 DEF Names, Fresh
  <1>8. RawStages'
    <2>1. ASSUME NEW r \in Reqs, RawKeyed(r), at'[r] \in {"cache", "log", "record", "answer"}
          PROVE  r = s /\ at'[r] = "answer"
      BY <1>1, <1>2, <2>1, BusyStages
    <2>2. QED
      BY <1>7, <2>1 DEF RawStages, RawKeyed
  <1>9. ASSUME NEW r \in Reqs, RawKeyed(r), Got202(r), Current(r)
        PROVE  Covers(r)'
    <2>1. Covers(r)
      BY <1>9, Zenon DEF RawCovered
    <2>2. CASE Key[r] = Key[s]
      <3>1. Kind[s] # "raw"
        <4>1. Key[s] # None /\ Fresh(Key[s])
          BY <1>1, <2>1, <2>2, ReqsAssumption DEF Covers
        <4>2. QED
          BY <1>1, <4>1 DEF RawStages, RawKeyed
      <3>2. Payload[s] \notin RawPayloads
        BY <1>1, <3>1, PayloadAssumption DEF RawPayloads
      <3>3. QED
        BY <1>3, <1>6, <1>7, <2>2, <3>2 DEF Covers, RawPayloads
    <2>3. CASE Key[r] # Key[s]
      BY <1>2, <1>4, <1>5, <2>1, <2>3 DEF Covers, RawPayloads
    <2>4. QED
      BY <2>2, <2>3
  <1>10. RawCovered'
    <2>1. \A r : (Got202(r)' <=> Got202(r)) /\ (Current(r)' <=> Current(r))
      BY <1>2 DEF Got202, Current
    <2>2. QED
      BY <1>2, <1>9, <2>1 DEF RawCovered, RawKeyed
  <1>11. RawPairs'
    BY <1>2, Zenon DEF RawPairs, Agree, Got202, RawKeyed
  <1>12. QED
    BY <1>8, <1>10, <1>11

\* When an entry goes stale, the answers given under it are of an earlier era.
LEMMA RawExpires ==
    ASSUME Shape, RawStages, RawCovered, RawPairs, NEW k \in Keys, Expire(k)
    PROVE  RawStages' /\ RawCovered' /\ RawPairs'
  <1>1. era \in [Keys -> 0 .. MaxEras] /\ idemFile \in [Keys -> Entry \cup {None}]
    BY DEF Shape, WorldOK, FilesOK
  <1>2. /\ busy = None /\ at' = at /\ answer' = answer
        /\ era' = [era EXCEPT ![k] = @ + 1]
        /\ idemFile' = [idemFile EXCEPT ![k] = Stale(@)]
    BY DEF Expire
  <1>3. RawStages'
    BY <1>2, BusyStages DEF RawStages, RawKeyed
  <1>4. \A r : /\ Got202(r)' <=> Got202(r)
               /\ Key[r] # k => /\ Fresh(Key[r])' <=> Fresh(Key[r])
                                /\ \A j : Names(r, j)' <=> Names(r, j)
    BY <1>1, <1>2 DEF Got202, Fresh, Names
  <1>5. ASSUME NEW r \in Reqs, RawKeyed(r), Got202(r)
        PROVE  answer[r].era <= era'[Key[r]] /\ (Current(r)' => Covers(r)')
    <2>1. answer[r].era <= era[Key[r]] /\ (Current(r) => Covers(r))
      BY <1>5, Zenon DEF RawCovered
    <2>2. CASE Key[r] = k
      <3>1. era'[k] = era[k] + 1 /\ era[k] \in Nat
        BY <1>1, <1>2, BoundAssumption
      <3>2. answer[r] \in Answer /\ answer[r].era \in Nat
        <4>1. answer[r] \in Answer
          <5>1. answer[r] # None
            BY <1>5, Zenon DEF Got202
          <5>2. QED
            BY <1>5, <5>1 DEF Shape, WorldOK
        <4>2. QED
          BY <4>1 DEF Answer
      <3>3. answer[r].era <= era'[k] /\ answer[r].era # era'[k]
        BY <2>1, <2>2, <3>1, <3>2
      <3>4. QED
        BY <1>2, <2>2, <3>3 DEF Current
    <2>3. CASE Key[r] # k
      <3>1. era'[Key[r]] = era[Key[r]] /\ idemFile'[Key[r]] = idemFile[Key[r]]
        BY <1>1, <1>2, <2>3
      <3>2. QED
        BY <1>2, <1>4, <2>1, <2>3, <3>1 DEF Current, Covers, RawPayloads
    <2>4. QED
      BY <2>2, <2>3
  <1>6. RawCovered'
    BY <1>2, <1>4, <1>5, Zenon DEF RawCovered, RawKeyed
  <1>7. RawPairs'
    BY <1>2, Zenon DEF RawPairs, Agree, Got202, RawKeyed
  <1>8. QED
    BY <1>3, <1>6, <1>7

LEMMA RawHandler ==
    ASSUME Shape, CapInv, MemoryIsFile, RawStages, RawCovered, RawPairs,
           NEW s \in Reqs, Handler(s), ~SaveFails(s), ~AppendFails(s), ~RecordFails(s)
    PROVE  RawStages' /\ RawCovered' /\ RawPairs'
  <1>1. at \in [Reqs -> Stages]
    BY DEF Shape, ProcOK
  <1>2. CASE AnswerConflict(s) \/ RefuseFull(s) \/ AnswerGone(s) \/ RenderFails(s)
    <2>1. UNCHANGED <<idemFile, era>> /\ \E code \in {400, 409, 410, 503} : Respond(s, code, None)
      BY <1>2 DEF AnswerConflict, RefuseFull, AnswerGone, RenderFails, files
    <2>2. QED
      BY <2>1, RawResponds
  <1>3. CASE AnswerDuplicate(s)
    <2>1. UNCHANGED <<idemFile, era>> /\ Respond(s, 202, idem[Key[s]].job)
      BY <1>3 DEF AnswerDuplicate, files
    <2>2. RawKeyed(s) => Names(s, idem[Key[s]].job)
      BY <1>3, RawHit DEF AnswerDuplicate
    <2>3. QED
      BY <2>1, <2>2, RawResponds
  <1>4. CASE AnswerAccepted(s)
    <2>1. UNCHANGED <<idemFile, era>> /\ Respond(s, 202, s) /\ at[s] = "answer"
      BY <1>4 DEF AnswerAccepted, files
    <2>2. RawKeyed(s) => Names(s, s)
      BY <2>1, Zenon DEF RawStages
    <2>3. QED
      BY <2>1, <2>2, RawResponds
  <1>5. CASE BeginRender(s)
    <2>1. idemFile' = idemFile /\ era' = era /\ answer' = answer
          /\ at' = [at EXCEPT ![s] = "rendering"]
      BY <1>5 DEF BeginRender, files, world
    <2>2. QED
      BY <1>1, <2>1, RawQuiet
  <1>6. CASE CommitAtOnce(s)
    <2>1. idemFile' = idemFile /\ era' = era /\ answer' = answer
          /\ at' = [at EXCEPT ![s] = "cache"]
      BY <1>6 DEF CommitAtOnce, Commit, files, world
    <2>2. RawKeyed(s) => ~Fresh(Key[s])
      BY <1>6, RawHit DEF CommitAtOnce
    <2>3. QED
      BY <1>1, <2>1, <2>2, RawQuiet
  <1>7. CASE RenderEnds(s)
    <2>1. idemFile' = idemFile /\ era' = era /\ ~RawKeyed(s)
      BY <1>7, ReleaseShape DEF RenderEnds, files, CapInv, RawKeyed
    <2>2. CASE Respond(s, 503, None)
      BY <2>1, <2>2, RawResponds
    <2>3. CASE Commit(s) /\ UNCHANGED answer
      BY <1>1, <2>1, <2>3, RawQuiet DEF Commit
    <2>4. QED
      BY <1>7, <2>2, <2>3 DEF RenderEnds
  <1>8. CASE SaveArtifacts(s)
    <2>1. idemFile' = idemFile /\ era' = era /\ answer' = answer /\ at[s] = "cache"
          /\ at' = [at EXCEPT ![s] = "log"]
      BY <1>8 DEF SaveArtifacts, world
    <2>2. QED
      BY <1>1, <2>1, RawQuiet
  <1>9. CASE AppendAccepted(s)
    <2>1. idemFile' = idemFile /\ era' = era /\ answer' = answer /\ at[s] = "log"
          /\ at' = [at EXCEPT ![s] = IF Key[s] = None THEN "answer" ELSE "record"]
      BY <1>9 DEF AppendAccepted, world
    <2>2. QED
      BY <1>1, <2>1, RawQuiet DEF RawKeyed
  <1>10. CASE RecordKey(s)
    BY <1>10, RawRecords
  <1>11. QED
    BY <1>2, <1>3, <1>4, <1>5, <1>6, <1>7, <1>8, <1>9, <1>10 DEF Handler

LEMMA MemoryHandler ==
    ASSUME Shape, MemoryIsFile, NEW s \in Reqs, Handler(s), ~RecordFails(s)
    PROVE  MemoryIsFile'
  <1>1. up' = up
    BY HandlerFrame, Zenon
  <1>2. UNCHANGED <<idem, idemFile>> \/ RecordKey(s)
    <2>1. CASE AnswerConflict(s) \/ AnswerDuplicate(s) \/ RefuseFull(s) \/ AnswerGone(s)
      BY <2>1 DEF AnswerConflict, AnswerDuplicate, RefuseFull, AnswerGone, files
    <2>2. CASE BeginRender(s) \/ CommitAtOnce(s) \/ RenderFails(s) \/ RenderEnds(s)
      BY <2>2 DEF BeginRender, CommitAtOnce, RenderFails, RenderEnds, files
    <2>3. CASE SaveArtifacts(s) \/ SaveFails(s) \/ AppendAccepted(s) \/ AppendFails(s)
               \/ AnswerAccepted(s)
      BY <2>3 DEF SaveArtifacts, SaveFails, AppendAccepted, AppendFails, AnswerAccepted, files
    <2>4. QED
      BY <2>1, <2>2, <2>3, Zenon DEF Handler
  <1>3. idem = idemFile => idem' = idemFile'
    BY <1>2 DEF RecordKey
  <1>4. QED
    BY <1>1, <1>3, Zenon DEF MemoryIsFile

LEMMA HeldStep ==
    ASSUME Shape, HeldByUp, [Next]_vars
    PROVE  HeldByUp'
  <1>1. ASSUME NEW s \in Reqs, Handler(s)
        PROVE  up' = up /\ (busy' # None => busy # None \/ up)
    <2>1. up' = up
      BY <1>1, HandlerFrame, Zenon
    <2>2. busy' # None => busy # None \/ up
      BY <1>1, Zenon DEF Handler, AnswerConflict, AnswerDuplicate, RefuseFull, AnswerGone,
         BeginRender, CommitAtOnce, RenderFails, RenderEnds, Arrives, Rendered, SaveArtifacts,
         SaveFails, AppendAccepted, AppendFails, RecordKey, RecordFails, AnswerAccepted
    <2>3. QED
      BY <2>1, <2>2
  <1>2. CASE \E j \in Reqs : Settle(j) \/ Evict(j)
    BY <1>2 DEF Settle, Evict, proc, HeldByUp
  <1>3. CASE (\E k \in Keys : Expire(k)) \/ End \/ Start \/ UNCHANGED vars
    BY <1>3 DEF Expire, End, Start, vars, proc, HeldByUp
  <1>4. QED
    BY <1>1, <1>2, <1>3 DEF HeldByUp, Next

\* Steps of the worker, the clock and the process.
LEMMA RawOthers ==
    ASSUME Shape, HeldByUp, MemoryIsFile, RawStages, RawCovered, RawPairs,
           [Next]_vars, ~\E s \in Reqs : Handler(s)
    PROVE  MemoryIsFile' /\ RawStages' /\ RawCovered' /\ RawPairs'
  <1>1. CASE \E k \in Keys : Expire(k)
    <2>1. PICK k \in Keys : Expire(k)
      BY <1>1
    <2>2. MemoryIsFile'
      BY <2>1 DEF Expire, MemoryIsFile
    <2>3. QED
      BY <2>1, <2>2, RawExpires
  <1>2. CASE End
    <2>1. MemoryIsFile'
      BY <1>2 DEF End, MemoryIsFile
    <2>2. idemFile' = idemFile /\ era' = era /\ answer' = answer
          /\ \A r \in Reqs : at'[r] \notin {"cache", "log", "record", "answer"}
      BY <1>2 DEF End, files
    <2>3. QED
      BY <2>1, <2>2, RawQuiet
  <1>3. CASE \/ \E j \in Reqs : Settle(j) \/ Evict(j)
             \/ Start \/ UNCHANGED vars
    <2>1. MemoryIsFile'
      BY <1>3 DEF Settle, Evict, Start, Reloaded, vars, files, proc, MemoryIsFile
    <2>2. idemFile' = idemFile /\ era' = era /\ answer' = answer /\ at' = at
      BY <1>3 DEF Settle, Evict, Start, vars, files, proc, world
    <2>3. QED
      BY <2>1, <2>2, RawQuiet
  <1>4. QED
    BY <1>1, <1>2, <1>3 DEF Next

LEMMA RawStep ==
    ASSUME Shape, Shape', CapInv, RawInv, [Next]_vars
    PROVE  RawInv'
  <1>1. HeldByUp'
    BY HeldStep DEF RawInv
  <1>2. CASE faults' # 0
    BY <1>1, <1>2 DEF RawInv
  <1>3. ASSUME faults' = 0, NEW s \in Reqs, Handler(s)
        PROVE  MemoryIsFile' /\ RawStages' /\ RawCovered' /\ RawPairs'
    <2>1. faults \in Nat
      BY BoundAssumption DEF Shape, WorldOK
    <2>2. faults = 0 /\ ~SaveFails(s) /\ ~AppendFails(s) /\ ~RecordFails(s)
      BY <1>3, <2>1, NoFault, Zenon
    <2>3. QED
      BY <1>3, <2>2, RawHandler, MemoryHandler DEF RawInv
  <1>4. CASE faults' = 0 /\ ~\E s \in Reqs : Handler(s)
    <2>1. faults = 0
      BY <1>4 DEF Next, Settle, Evict, Expire, End, Start, vars, world
    <2>2. HeldByUp /\ MemoryIsFile /\ RawStages /\ RawCovered /\ RawPairs
      BY <2>1, Zenon DEF RawInv
    <2>3. MemoryIsFile' /\ RawStages' /\ RawCovered' /\ RawPairs'
      BY <1>4, <2>2, RawOthers, Zenon
    <2>4. QED
      BY <1>1, <2>3, Zenon DEF RawInv
  <1>5. QED
    BY <1>1, <1>2, <1>3, <1>4 DEF RawInv

\* Idempotency of /print/raw for any requests, keys and restarts: while a key
\* is fresh and no write has failed, one payload and one job per key.
THEOREM RawIsIdempotent == Spec => []RawAnswersAgree
  <1>1. Init => CapInv /\ RawInv
    BY DEF Init, CapInv, RawInv, HeldByUp, MemoryIsFile, RawStages, RawCovered, RawPairs, Agree,
           Got202
  <1>2. Shape /\ CapInv /\ [Next]_vars => CapInv'
    BY CapStep
  <1>3. Shape /\ Shape' /\ CapInv /\ RawInv /\ [Next]_vars => RawInv'
    BY RawStep
  <1>4. RawInv => RawAnswersAgree
    BY PairsAgree DEF RawInv, RawAnswersAgree
  <1>5. QED
    BY <1>1, <1>2, <1>3, <1>4, ShapeInvariant, PTL DEF Spec

=============================================================================
