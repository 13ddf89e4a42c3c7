------------------------- MODULE PrintWorkerProofs -------------------------
(* Proofs about PrintWorker, for any jobs, options, clocks and bounds.      *)
EXTENDS PrintWorker, FiniteSetTheorems, TLAPS

USE DEF sends, NothingToSend, Fault

\* What the cache and an attempt hold, as numbers.
LEMMA Counts ==
    ASSUME TypeOK
    PROVE  /\ \A j \in Jobs : NChunks[j] \in Nat \ {0}
           /\ cached \in [Jobs -> Nat] /\ \A j \in Jobs : cached[j] <= NChunks[j]
           /\ pc = "sending" =>
                inFlight \in Jobs /\ given \in 1 .. NChunks[inFlight] /\ chunk \in 1 .. given
  BY NChunksAssumption DEF TypeOK

\* The set of accepted jobs is a finite set of jobs.
LEMMA AcceptedJobs ==
    ASSUME TypeOK
    PROVE  Accepted \in SUBSET Jobs /\ IsFiniteSet(Accepted)
  <1>1. Accepted \in SUBSET Jobs
    BY DEF TypeOK, Accepted, Range
  <1>2. QED
    BY <1>1, JobsAssumption, FS_Subset

\* Dropping elapsed retry times keeps the map's type.
LEMMA SweptType ==
    ASSUME NEW C, NEW R \in [Jobs -> Time]
    PROVE  Swept(C, R) \in [Jobs -> Time]
  BY DEF Swept, Time

\* A wake-up delay is an integer.
LEMMA DelayType ==
    ASSUME TypeOK, NEW C \in SUBSET Jobs, NEW R \in [Jobs -> Time],
           NEW j \in C, Eligible(C, R) = {}
    PROVE  Delay(j, R) \in Int
  <1>1. Min({RetryInterval, HoldPoll}) \in Int
    BY IntervalAssumption, SMTT(20) DEF Min
  <1>2. CASE Waiting(j, R)
    BY <1>2, NoneAssumption DEF Delay, Waiting, Wall, TypeOK, Time
  <1>3. CASE ~Waiting(j, R)
    <2>1. Held(j)
      BY <1>3 DEF Eligible
    <2>2. QED
      BY <1>1, <1>3, <2>1, NoneAssumption, NotBeforeAssumption
      DEF Delay, Held, Wall, TypeOK, Time
  <1>4. QED
    BY <1>2, <1>3

LEMMA HoldDueType ==
    ASSUME TypeOK, NEW C \in SUBSET Jobs, NEW R \in [Jobs -> Time],
           Eligible(C, R) = {}
    PROVE  HoldDue(C, R) \in SUBSET Time
  <1>1. \A j \in C : Delay(j, R) \in Int
    BY DelayType
  <1>2. now \in Int
    BY BoundAssumption DEF TypeOK
  <1>3. QED
    BY <1>1, <1>2 DEF HoldDue, Soonest, Time

\* What is left to show of TypeOK' once the log and the clock are typed.
WorkerTypeOK ==
    /\ pc \in {"down", "idle", "sending", "exited", "dead"}
    /\ given \in Nat /\ chunk \in Nat /\ out \in BOOLEAN /\ inFlight \in Jobs \cup {None}
    /\ pc = "sending" =>
         inFlight \in Jobs /\ given \in 1 .. NChunks[inFlight] /\ chunk \in 1 .. given
    /\ unsettled \subseteq Jobs
    /\ retryAfter \in [Jobs -> Time] /\ firstSeen \in [Jobs -> Time]
    /\ q \in Nat /\ hold \in Time /\ naps \in [Ticks -> Nat]
    /\ stopping \in BOOLEAN /\ orphans \subseteq Jobs
LogTypeOK ==
    /\ arrival \in Seq(Jobs) /\ acceptedAt \in [Jobs -> Time]
    /\ latest \in [Jobs -> Events \cup {"none"}] /\ terminated \subseteq Jobs
WorldTypeOK ==
    /\ cached \in [Jobs -> Nat] /\ \A j \in Jobs : cached[j] <= NChunks[j]
    /\ cutShort \subseteq Jobs /\ paper \in [Jobs -> Seq(Nat)]
    /\ bornAt \in [Jobs -> Time]
    /\ now \in 0 .. MaxTime /\ skew \in Int /\ synced \in BOOLEAN
    /\ synced => skew = 0
    /\ ends \in 0 .. MaxEnds /\ faults \in 0 .. MaxFaults

LEMMA TypeParts == TypeOK <=> LogTypeOK /\ WorkerTypeOK /\ WorldTypeOK
  BY DEF TypeOK, LogTypeOK, WorkerTypeOK, WorldTypeOK

LEMMA AppendType ==
    ASSUME TypeOK, NEW j \in Jobs, NEW e \in Events, Append1(j, e)
    PROVE  LogTypeOK'
  BY DEF TypeOK, LogTypeOK, Append1, Terminal, Events

\* After a completed job the worker is idle or exited, and typed.
LEMMA CompletedType ==
    ASSUME TypeOK, NEW T, NEW U \in SUBSET Jobs, NEW R \in [Jobs -> Time],
           NEW tokens \in Nat, Completed(T, U, R, tokens),
           firstSeen' \in [Jobs -> Time], inFlight' \in Jobs \cup {None}
    PROVE  WorkerTypeOK' /\ pc' \in {"idle", "exited"}
  <1> DEFINE C == Candidates(T, U)
  <1>1. C \in SUBSET Jobs
    BY AcceptedJobs DEF Candidates
  <1>2. Eligible(C, R) = {} => HoldDue(C, R) \in SUBSET Time
    BY <1>1, HoldDueType
  <1>3. hold' \in Time /\ q' \in Nat
    BY <1>2 DEF Completed, Time
  <1>4. retryAfter' \in [Jobs -> Time]
    BY SweptType DEF Completed
  <1>5. pc' \in {"idle", "exited"}
    BY DEF Completed, Loop
  <1>6. /\ given' = 0 /\ chunk' = 0 /\ out' = FALSE /\ unsettled' = U
        /\ stopping' = stopping /\ naps' = naps /\ orphans' = orphans
    BY DEF Completed
  <1>7. QED
    BY <1>3, <1>4, <1>5, <1>6 DEF WorkerTypeOK, TypeOK

LEMMA UnexpectedType ==
    ASSUME TypeOK, NEW j \in Jobs, NEW e \in Events, NEW R \in [Jobs -> Time],
           NEW tokens \in Nat, Unexpected(j, e, R, tokens),
           firstSeen' \in [Jobs -> Time]
    PROVE  /\ LogTypeOK' /\ WorkerTypeOK' /\ pc' \in {"idle", "exited", "dead"}
           /\ faults' \in 0 .. MaxFaults
  <1>1. PICK first \in {"kept", "lost"}, second \in {"written", "kept", "lost"} :
         /\ latest' = [latest EXCEPT ![j] =
               IF second # "lost" THEN "retry" ELSE IF first = "kept" THEN e ELSE @]
         /\ terminated' = IF first = "kept" /\ e \in Terminal
                            THEN terminated \cup {j} ELSE terminated
         /\ pc' = IF second = "written" THEN Loop ELSE "dead"
    BY DEF Unexpected
  <1>2. LogTypeOK'
    <2>1. latest' \in [Jobs -> Events \cup {"none"}]
      BY <1>1 DEF TypeOK, Events
    <2>2. terminated' \subseteq Jobs
      BY <1>1 DEF TypeOK
    <2>3. QED
      BY <2>1, <2>2 DEF LogTypeOK, TypeOK, Unexpected
  <1>3. faults' \in 0 .. MaxFaults
    BY BoundAssumption DEF TypeOK, Unexpected
  <1>4. pc' \in {"idle", "exited", "dead"}
    BY <1>1 DEF Loop
  <1>5. QED
    BY <1>2, <1>3, <1>4 DEF WorkerTypeOK, TypeOK, Unexpected, Time

LEMMA ForgetType ==
    ASSUME NEW f \in [Jobs -> Time], NEW j \in Jobs
    PROVE  Forget(f, j) \in [Jobs -> Time]
  BY DEF Forget, Time

LEMMA DropType ==
    ASSUME TypeOK, NEW j \in Jobs, NEW e \in Terminal, Drop(j, e), q \in Nat \ {0}
    PROVE  TypeOK'
  <1> DEFINE S == Swept(Pool, retryAfter)
  <1>1. S \in [Jobs -> Time] /\ q - 1 \in Nat /\ e \in Events
    BY SweptType DEF TypeOK, Events
  <1>2. CASE /\ Append1(j, e)
             /\ Completed(terminated', unsettled, Forget(S, j), q - 1)
             /\ inFlight' = None /\ UNCHANGED faults
    <2>1. Forget(S, j) \in [Jobs -> Time]
      BY <1>1, ForgetType
    <2>2. LogTypeOK'
      BY <1>1, <1>2, AppendType
    <2>3. WorkerTypeOK'
      BY <1>1, <1>2, <2>1, CompletedType DEF Drop, TypeOK
    <2>4. WorldTypeOK'
      BY <1>2 DEF WorldTypeOK, TypeOK, Drop, media, world, clock
    <2>5. QED
      BY <2>2, <2>3, <2>4 DEF TypeOK, LogTypeOK, WorkerTypeOK, WorldTypeOK
  <1>3. CASE Unexpected(j, e, S, q - 1)
    <2>1. LogTypeOK' /\ WorkerTypeOK' /\ faults' \in 0 .. MaxFaults
      BY <1>1, <1>3, UnexpectedType DEF Drop, TypeOK
    <2>2. QED
      BY <2>1 DEF TypeOK, LogTypeOK, WorkerTypeOK, Drop, media, world, clock
  <1>4. QED
    BY <1>2, <1>3 DEF Drop

LEMMA FinishType ==
    ASSUME TypeOK, pc = "sending", NEW e \in Terminal, Finish(inFlight, e)
    PROVE  TypeOK'
  <1>1. inFlight \in Jobs /\ e \in Events
    BY DEF TypeOK, Events
  <1>2. CASE /\ Append1(inFlight, e)
             /\ firstSeen' = Forget(firstSeen, inFlight)
             /\ Completed(terminated', unsettled, Forget(retryAfter, inFlight), q)
             /\ UNCHANGED <<inFlight, faults>>
    <2>1. /\ Forget(retryAfter, inFlight) \in [Jobs -> Time]
          /\ firstSeen' \in [Jobs -> Time]
      BY <1>1, <1>2, ForgetType DEF TypeOK
    <2>2. LogTypeOK'
      BY <1>1, <1>2, AppendType
    <2>3. WorkerTypeOK'
      BY <1>1, <1>2, <2>1, CompletedType DEF TypeOK
    <2>4. QED
      BY <1>2, <2>2, <2>3
      DEF TypeOK, LogTypeOK, WorkerTypeOK, Finish, media, world, clock
  <1>3. CASE AppendFails(inFlight, e) /\ Unsettle(inFlight)
    <2>1. LogTypeOK' /\ faults' \in 0 .. MaxFaults
      <3>1. CASE Append1(inFlight, e)
        BY <1>1, <1>3, <3>1, AppendType, BoundAssumption DEF AppendFails, TypeOK
      <3>2. CASE UNCHANGED log
        BY <1>3, <3>2, BoundAssumption DEF AppendFails, TypeOK, LogTypeOK, log
      <3>3. QED
        BY <1>3, <3>1, <3>2 DEF AppendFails
    <2>2. /\ unsettled \cup {inFlight} \in SUBSET Jobs
          /\ retryAfter \in [Jobs -> Time] /\ q \in Nat
          /\ firstSeen' \in [Jobs -> Time] /\ inFlight' \in Jobs \cup {None}
          /\ Completed(terminated', unsettled \cup {inFlight}, retryAfter, q)
      BY <1>1, <1>3 DEF Unsettle, TypeOK
    <2>3. WorkerTypeOK'
      BY <2>2, CompletedType
    <2>4. QED
      BY <2>1, <2>3 DEF TypeOK, LogTypeOK, WorkerTypeOK, Finish, media, world, clock
  <1>4. QED
    BY <1>2, <1>3 DEF Finish

LEMMA StartPrintingType ==
    ASSUME TypeOK, NEW j \in Jobs, StartPrinting(j)
    PROVE  TypeOK'
  <1> DEFINE S == Swept(Pool, retryAfter)
  <1>1. S \in [Jobs -> Time] /\ q - 1 \in Nat /\ "printing" \in Events
    BY SweptType DEF TypeOK, Events, StartPrinting, Selected, Woken
  <1>2. CASE Append1(j, "printing") /\ pc' = "sending"
    <2>1. LogTypeOK'
      BY <1>1, <1>2, AppendType
    <2>2. /\ given' = cached[j] /\ chunk' = 1 /\ out' = FALSE /\ inFlight' = j
          /\ retryAfter' = S /\ q' = q - 1 /\ hold' = None
          /\ UNCHANGED <<unsettled, naps, stopping, orphans, faults>>
      BY <1>2 DEF StartPrinting, Unexpected, Loop
    <2>3. cached[j] \in 1 .. NChunks[j] /\ 1 \in 1 .. cached[j]
      BY NChunksAssumption DEF StartPrinting, TypeOK
    <2>4. WorkerTypeOK'
      BY <1>1, <1>2, <2>2, <2>3 DEF WorkerTypeOK, TypeOK, StartPrinting, Time
    <2>5. QED
      BY <2>1, <2>2, <2>4
      DEF TypeOK, LogTypeOK, WorkerTypeOK, StartPrinting, media, world, clock
  <1>3. CASE Unexpected(j, "printing", S, q - 1)
    <2>1. LogTypeOK' /\ WorkerTypeOK' /\ faults' \in 0 .. MaxFaults
      BY <1>1, <1>3, UnexpectedType DEF StartPrinting, TypeOK
    <2>2. QED
      BY <2>1 DEF TypeOK, LogTypeOK, WorkerTypeOK, StartPrinting, media, world, clock
  <1>4. QED
    BY <1>2, <1>3 DEF StartPrinting

LEMMA UnlistedType ==
    ASSUME TypeOK, NEW j \in Jobs, Unlisted(j)
    PROVE  TypeOK'
  <1> DEFINE S == Swept(Pool, retryAfter)
  <1>1. S \in [Jobs -> Time] /\ q - 1 \in Nat /\ "retry" \in Events
    <2>1. retryAfter \in [Jobs -> Time] /\ q \in Nat /\ q > 0
      BY DEF TypeOK, Unlisted, Selected, Woken
    <2>2. S \in [Jobs -> Time]
      BY <2>1, SweptType
    <2>3. QED
      BY <2>1, <2>2 DEF Events
  <1>2. LogTypeOK'
    <2>1. CASE Append1(j, "retry")
      BY <1>1, <2>1, AppendType
    <2>2. CASE UNCHANGED log
      BY <2>2 DEF LogTypeOK, TypeOK, log
    <2>3. QED
      BY <2>1, <2>2 DEF Unlisted
  <1>3. pc' \in {"idle", "exited", "dead"}
    BY DEF Unlisted, Loop
  <1>4. WorkerTypeOK'
    BY <1>1, <1>3 DEF WorkerTypeOK, TypeOK, Unlisted, Time
  <1>5. UNCHANGED <<media, world, faults>>
    BY DEF Unlisted
  <1>6. QED
    BY <1>2, <1>4, <1>5 DEF TypeOK, LogTypeOK, WorkerTypeOK, media, world, clock

LEMMA RefusalType ==
    ASSUME TypeOK, GiveUp \/ RetryLater
    PROVE  TypeOK'
  <1> DEFINE j == inFlight
  <1>1. /\ j \in Jobs /\ retryAfter \in [Jobs -> Time] /\ q \in Nat
        /\ "retry" \in Events /\ "retry_timeout" \in Events
    BY DEF TypeOK, Events, Terminal, GiveUp, RetryLater, Refused
  <1>2. Wall \in Int /\ FirstSeen(j) \in Time
    BY <1>1, BoundAssumption DEF Wall, FirstSeen, TypeOK, Time
  <1>3. [firstSeen EXCEPT ![j] = FirstSeen(j)] \in [Jobs -> Time]
    BY <1>1, <1>2 DEF TypeOK
  <1>4. CASE \/ GiveUp /\ Unexpected(j, "retry_timeout", retryAfter, q)
             \/ RetryLater /\ Unexpected(j, "retry", retryAfter, q)
    <2>1. firstSeen' \in [Jobs -> Time]
      <3>1. CASE GiveUp /\ Unexpected(j, "retry_timeout", retryAfter, q)
        <4>1. \/ firstSeen' = Forget(firstSeen, j)
              \/ firstSeen' = [firstSeen EXCEPT ![j] = FirstSeen(j)]
          BY <3>1 DEF GiveUp
        <4>2. Forget(firstSeen, j) \in [Jobs -> Time]
          BY <1>1, ForgetType DEF TypeOK
        <4>3. QED
          BY <1>3, <4>1, <4>2
      <3>2. CASE RetryLater
        BY <1>3, <3>2 DEF RetryLater
      <3>3. QED
        BY <1>4, <3>1, <3>2
    <2>2. LogTypeOK' /\ WorkerTypeOK' /\ faults' \in 0 .. MaxFaults
      BY <1>1, <1>4, <2>1, UnexpectedType
    <2>3. UNCHANGED <<media, world>>
      BY <1>4 DEF GiveUp, RetryLater
    <2>4. QED
      BY <2>2, <2>3 DEF TypeOK, LogTypeOK, WorkerTypeOK, media, world, clock
  <1>5. CASE /\ GiveUp /\ Append1(j, "retry_timeout")
             /\ firstSeen' = Forget(firstSeen, j)
             /\ Completed(terminated', unsettled, Forget(retryAfter, j), q)
             /\ inFlight' = None /\ UNCHANGED faults
    <2>1. /\ Forget(retryAfter, j) \in [Jobs -> Time]
          /\ firstSeen' \in [Jobs -> Time]
      BY <1>1, <1>5, ForgetType DEF TypeOK
    <2>2. LogTypeOK'
      BY <1>1, <1>5, AppendType
    <2>3. WorkerTypeOK'
      BY <1>1, <1>5, <2>1, CompletedType DEF TypeOK
    <2>4. QED
      BY <1>5, <2>2, <2>3
      DEF TypeOK, LogTypeOK, WorkerTypeOK, GiveUp, media, world, clock
  <1>6. CASE /\ RetryLater /\ Append1(j, "retry")
             /\ retryAfter' = [retryAfter EXCEPT ![j] = Wall + RetryInterval]
             /\ naps' = [naps EXCEPT ![now + RetryInterval] = @ + 1]
             /\ pc' = Loop /\ NothingToSend /\ inFlight' = None
             /\ UNCHANGED <<unsettled, q, hold, stopping, orphans, faults>>
    <2>1. LogTypeOK'
      BY <1>1, <1>6, AppendType
    <2>2. now + RetryInterval \in Ticks
      BY IntervalAssumption, BoundAssumption DEF Ticks, TypeOK
    <2>3. naps' \in [Ticks -> Nat]
      BY <1>6, <2>2 DEF TypeOK
    <2>4. retryAfter' \in [Jobs -> Time] /\ firstSeen' \in [Jobs -> Time]
      BY <1>2, <1>3, <1>6, IntervalAssumption DEF TypeOK, Time, RetryLater
    <2>5. WorkerTypeOK'
      BY <1>6, <2>3, <2>4 DEF WorkerTypeOK, TypeOK, Loop
    <2>6. QED
      BY <1>6, <2>1, <2>5
      DEF TypeOK, LogTypeOK, WorkerTypeOK, RetryLater, media, world, clock
  <1>7. QED
    BY <1>4, <1>5, <1>6 DEF GiveUp, RetryLater

LEMMA AnchorType ==
    ASSUME NEW j \in Jobs, NEW ts \in Int
    PROVE  Anchor(j, ts) \in Int
  <1>1. ASSUME NEW m \in Int PROVE Max({ts, m}) \in Int
    BY SMTT(20) DEF Max
  <1>2. QED
    BY <1>1, NotBeforeAssumption DEF Anchor, Time

\* Accepted jobs have a timestamp.
Stamped == \A j \in Accepted : acceptedAt[j] \in Int

LEMMA AcceptType ==
    ASSUME TypeOK, NEW j \in Jobs, Accept(j)
    PROVE  TypeOK'
  <1>1. Wall \in Int /\ Wall \in Time /\ now \in Time
    BY BoundAssumption DEF Wall, TypeOK, Time
  <1>2. Anchor(j, Wall) \in Time
    BY <1>1, AnchorType DEF Time
  <1>3. /\ arrival' \in Seq(Jobs) /\ acceptedAt' \in [Jobs -> Time]
        /\ bornAt' \in [Jobs -> Time]
    BY <1>1 DEF Accept, TypeOK
  <1>6. cached' \in [Jobs -> Nat] /\ \A i \in Jobs : cached'[i] <= NChunks[i]
    BY Counts DEF Accept
  <1>4. /\ firstSeen' \in [Jobs -> Time] /\ q' \in Nat
        /\ faults' \in 0 .. MaxFaults
    <2>1. CASE /\ firstSeen' = [firstSeen EXCEPT ![j] = Anchor(j, Wall)]
               /\ q' = q + 1 /\ UNCHANGED faults
      <3>1. firstSeen' \in [Jobs -> Time]
        BY <1>2, <2>1 DEF TypeOK
      <3>2. QED
        BY <2>1, <3>1 DEF TypeOK
    <2>2. CASE /\ faults < MaxFaults /\ faults' = faults + 1
               /\ UNCHANGED <<firstSeen, q>>
      BY <2>2, BoundAssumption DEF TypeOK
    <2>3. QED
      BY <2>1, <2>2 DEF Accept
  <1>5. QED
    BY <1>3, <1>4, <1>6 DEF Accept, TypeOK, clock

LEMMA StartType ==
    ASSUME TypeOK, Stamped, Start
    PROVE  TypeOK'
  <1>1. firstSeen' \in [Jobs -> Time]
    BY AnchorType DEF Start, Stamped, Time
  <1>2. q' \in Nat
    BY AcceptedJobs, FS_Subset, FS_CardinalityType, FS_Difference DEF Start
  <1>3. QED
    BY <1>1, <1>2 DEF Start, TypeOK, log, media, world, clock

LEMMA CloseInDoubtType ==
    ASSUME TypeOK, NEW j \in Jobs, CloseInDoubt(j)
    PROVE  TypeOK'
  <1>1. LogTypeOK'
    BY AppendType DEF CloseInDoubt, Events, Terminal
  <1>2. QED
    BY <1>1
    DEF TypeOK, LogTypeOK, CloseInDoubt, media, worker, world, clock

LEMMA NothingEligibleType ==
    ASSUME TypeOK, NothingEligible
    PROVE  TypeOK'
  <1>1. Pool \in SUBSET Jobs
    BY AcceptedJobs DEF Pool, Candidates
  <1>2. hold' \in Time
    BY <1>1, HoldDueType DEF NothingEligible, TypeOK
  <1>3. retryAfter' \in [Jobs -> Time]
    BY SweptType DEF NothingEligible, TypeOK
  <1>4. q' \in Nat /\ pc' \in {"idle", "exited"}
    BY DEF NothingEligible, Woken, TypeOK, Loop
  <1>5. QED
    BY <1>2, <1>3, <1>4 DEF NothingEligible, TypeOK, log, media, world, clock

\* The transport's steps, the timers and the ends of the process.
LEMMA SendType ==
    ASSUME TypeOK, ReachPaper \/ NextChunk
    PROVE  TypeOK'
  <1>1. CASE ReachPaper
    <2>1. inFlight \in Jobs /\ NChunks[inFlight] - given + chunk \in Nat
      BY <1>1, Counts DEF ReachPaper
    <2>2. paper' \in [Jobs -> Seq(Nat)]
      BY <1>1, <2>1 DEF ReachPaper, TypeOK
    <2>3. QED
      BY <1>1, <2>2 DEF ReachPaper, TypeOK, log, world, clock
  <1>2. CASE NextChunk
    <2>1. inFlight \in Jobs /\ chunk + 1 \in 1 .. given
      BY <1>2, NChunksAssumption DEF NextChunk, IsLast, TypeOK
    <2>2. /\ out' = FALSE /\ chunk' \in Nat /\ inFlight' \in Jobs
          /\ given' = given /\ inFlight' = inFlight /\ chunk' \in 1 .. given
      BY <1>2, <2>1 DEF NextChunk, TypeOK
    <2>3. UNCHANGED <<pc, unsettled, retryAfter, firstSeen, q, hold, naps, stopping,
                     orphans>>
      BY <1>2 DEF NextChunk
    <2>4. WorkerTypeOK'
      BY <2>2, <2>3 DEF WorkerTypeOK, TypeOK
    <2>5. QED
      BY <1>2, <2>4 DEF NextChunk, WorkerTypeOK, TypeOK, log, media, world, clock
  <1>3. QED
    BY <1>1, <1>2

LEMMA TimerType ==
    ASSUME TypeOK, HoldWakes \/ RescheduleWakes \/ Tick \/ ClockSync \/ ProbeFails
    PROVE  TypeOK'
  <1>1. CASE HoldWakes
    BY <1>1 DEF HoldWakes, TypeOK, Time, log, media, world, clock
  <1>2. CASE RescheduleWakes
    <2>1. naps' \in [Ticks -> Nat] /\ q' \in Nat
      BY <1>2 DEF RescheduleWakes, TypeOK
    <2>2. QED
      BY <1>2, <2>1 DEF RescheduleWakes, TypeOK, log, media, world, clock
  <1>3. CASE Tick
    BY <1>3, BoundAssumption DEF Tick, TypeOK, log, media, worker
  <1>4. CASE ClockSync
    BY <1>4 DEF ClockSync, TypeOK, log, media, worker
  <1>5. CASE ProbeFails
    <2>1. faults' \in 0 .. MaxFaults
      BY <1>5, BoundAssumption DEF ProbeFails, TypeOK
    <2>2. QED
      BY <1>5, <2>1 DEF ProbeFails, TypeOK, log, media, worker
  <1>6. QED
    BY <1>1, <1>2, <1>3, <1>4, <1>5

LEMMA CutShortType ==
    ASSUME TypeOK, NEW j \in Jobs, CutShort(j)
    PROVE  /\ cached' \in [Jobs -> Nat] /\ \A i \in Jobs : cached'[i] <= NChunks[i]
           /\ cutShort' \subseteq Jobs
  <1>1. PICK k \in 1 .. cached[j] : cached' = [cached EXCEPT ![j] = k]
    BY DEF CutShort
  <1>2. k \in Nat /\ k <= NChunks[j]
    BY <1>1, Counts
  <1>3. cached' \in [Jobs -> Nat] /\ \A i \in Jobs : cached'[i] <= NChunks[i]
    BY <1>1, <1>2, Counts
  <1>4. QED
    BY <1>3 DEF TypeOK, CutShort

LEMMA CacheType ==
    ASSUME TypeOK, NEW j \in Jobs, Evict(j) \/ EvictFails(j)
    PROVE  TypeOK'
  <1>1. CASE Evict(j)
    <2>1. cached' \in [Jobs -> Nat] /\ \A i \in Jobs : cached'[i] <= NChunks[i]
      BY <1>1, Counts DEF Evict
    <2>2. QED
      BY <1>1, <2>1 DEF Evict, TypeOK, log, worker, world, clock
  <1>2. CASE EvictFails(j)
    <2>1. /\ cached' \in [Jobs -> Nat] /\ \A i \in Jobs : cached'[i] <= NChunks[i]
          /\ cutShort' \subseteq Jobs
      BY <1>2, CutShortType DEF EvictFails
    <2>2. faults' \in 0 .. MaxFaults /\ orphans' \subseteq Jobs
      BY <1>2, BoundAssumption DEF EvictFails, TypeOK
    <2>3. QED
      BY <1>2, <2>1, <2>2 DEF EvictFails, TypeOK, log, world, clock
  <1>3. QED
    BY <1>1, <1>2

LEMMA EndType ==
    ASSUME TypeOK, Stop \/ Exit \/ Crash
    PROVE  TypeOK'
  <1>1. CASE Stop
    BY <1>1, BoundAssumption DEF Stop, TypeOK, Time, log, media, clock
  <1>2. ASSUME ProcessGone PROVE WorkerTypeOK' /\ LogTypeOK'
    BY <1>2
    DEF ProcessGone, WorkerTypeOK, LogTypeOK, TypeOK, NoTimes, Time, log
  <1>3. CASE Exit
    BY <1>2, <1>3
    DEF Exit, ProcessGone, WorkerTypeOK, LogTypeOK, TypeOK
  <1>4. CASE Crash
    <2>1. WorkerTypeOK' /\ LogTypeOK'
      BY <1>2, <1>4 DEF Crash
    <2>2. skew' \in Int /\ synced' \in BOOLEAN /\ (synced' => skew' = 0)
      <3>1. CASE UNCHANGED <<skew, synced>>
        BY <3>1 DEF TypeOK
      <3>2. CASE synced' = FALSE /\ skew' \in Skews
        BY <3>2, SkewAssumption
      <3>3. QED
        BY <1>4, <3>1, <3>2 DEF Crash
    <2>3. ends' \in 0 .. MaxEnds
      BY <1>4, BoundAssumption DEF Crash, TypeOK
    <2>4. /\ cached' \in [Jobs -> Nat] /\ \A i \in Jobs : cached'[i] <= NChunks[i]
          /\ cutShort' \subseteq Jobs
      BY <1>4, CutShortType DEF Crash, TypeOK
    <2>5. UNCHANGED <<paper, now, faults, bornAt>>
      BY <1>4 DEF Crash, ProcessGone
    <2>6. WorldTypeOK'
      BY <2>2, <2>3, <2>4, <2>5 DEF WorldTypeOK, TypeOK
    <2>7. QED
      BY <2>1, <2>6 DEF TypeOK, LogTypeOK, WorkerTypeOK, WorldTypeOK
  <1>5. QED
    BY <1>1, <1>3, <1>4

-----------------------------------------------------------------------------
(* Type correctness.                                                       *)

\* Only Accept changes the accepted records.
LEMMA AcceptedFrame ==
    ASSUME Next, ~ \E j \in Jobs : Accept(j)
    PROVE  arrival' = arrival /\ acceptedAt' = acceptedAt
  <1>1. CASE Handle
    BY <1>1
    DEF Handle, NothingEligible, DropExpired, DropUncached, Unlisted, StartPrinting,
        Drop, Append1, Unexpected, log
  <1>2. CASE Send
    BY <1>2
    DEF Send, ReachPaper, NextChunk, LastChunkSent, SendFails, GiveUp,
        RetryLater, Finish, Append1, AppendFails, Unexpected, log
  <1>3. CASE HoldWakes \/ RescheduleWakes \/ Tick \/ ClockSync \/ ProbeFails
    BY <1>3 DEF HoldWakes, RescheduleWakes, Tick, ClockSync, ProbeFails, log
  <1>4. CASE Stop \/ Exit \/ Crash \/ Startup \/ \E j \in Jobs : Evict(j) \/ EvictFails(j)
    BY <1>4
    DEF Stop, Exit, Crash, ProcessGone, Startup, Start, CloseInDoubt, Append1,
        Evict, EvictFails, log
  <1>5. QED
    BY <1>1, <1>2, <1>3, <1>4 DEF Next

\* A job whose unlinking never was interrupted is in the cache whole or not at all.
CachedWhole == \A j \in Jobs : cached[j] \in {0, NChunks[j]} \/ j \in cutShort

TypeInv == TypeOK /\ Stamped /\ CachedWhole

LEMMA CutShortWhole ==
    ASSUME TypeOK, CachedWhole, NEW j \in Jobs, CutShort(j)
    PROVE  CachedWhole' /\ cutShort \subseteq cutShort'
  BY DEF CachedWhole, CutShort, TypeOK

LEMMA CacheStep ==
    ASSUME TypeOK, CachedWhole, [Next]_vars
    PROVE  CachedWhole' /\ cutShort \subseteq cutShort'
  <1>1. CASE UNCHANGED <<cached, cutShort>>
    BY <1>1 DEF CachedWhole
  <1>2. CASE Handle
    BY <1>1, <1>2 DEF Handle, NothingEligible, DropExpired, DropUncached, Drop,
                      Unlisted, StartPrinting, media
  <1>3. CASE Send
    BY <1>1, <1>3 DEF Send, ReachPaper, NextChunk, LastChunkSent, SendFails, Finish,
                      GiveUp, RetryLater, media
  <1>4. CASE HoldWakes \/ RescheduleWakes \/ Tick \/ ClockSync \/ ProbeFails \/ Stop
             \/ Exit \/ Startup
    BY <1>1, <1>4 DEF HoldWakes, RescheduleWakes, Tick, ClockSync, ProbeFails, Stop,
        Exit, Startup,
                      Start, CloseInDoubt, media
  <1>5. CASE \E j \in Jobs : Accept(j) \/ Evict(j)
    BY <1>5, Counts DEF Accept, Evict, CachedWhole
  <1>6. CASE Crash \/ \E j \in Jobs : EvictFails(j)
    BY <1>1, <1>6, CutShortWhole DEF Crash, EvictFails
  <1>7. CASE UNCHANGED vars
    BY <1>1, <1>7 DEF vars, media
  <1>8. QED
    BY <1>2, <1>3, <1>4, <1>5, <1>6, <1>7 DEF Next

LEMMA StampedStep ==
    ASSUME TypeInv, Next
    PROVE  Stamped'
  <1>1. CASE \E j \in Jobs : Accept(j)
    <2>1. PICK j \in Jobs : Accept(j)
      BY <1>1
    <2>2. arrival \in Seq(Jobs) /\ arrival' = Append(arrival, j)
          /\ acceptedAt' = [acceptedAt EXCEPT ![j] = Wall]
          /\ acceptedAt \in [Jobs -> Time]
      BY <2>1 DEF Accept, TypeInv, TypeOK
    <2>3. Accepted' = Accepted \cup {j}
      BY <2>2 DEF Accepted, Range
    <2>4. Wall \in Int
      BY BoundAssumption DEF TypeInv, TypeOK, Wall
    <2>5. QED
      BY <2>2, <2>3, <2>4, AcceptedJobs DEF Stamped, TypeInv
  <1>2. CASE ~ \E j \in Jobs : Accept(j)
    <2>1. arrival' = arrival /\ acceptedAt' = acceptedAt
      BY <1>2, AcceptedFrame
    <2>2. QED
      BY <2>1 DEF Stamped, TypeInv, Accepted
  <1>3. QED
    BY <1>1, <1>2

LEMMA InitType ==
    ASSUME Init
    PROVE  TypeInv
  <1>1. skew \in Int /\ synced \in BOOLEAN /\ (synced => skew = 0)
    <2>1. CASE synced = TRUE /\ skew = 0
      BY <2>1
    <2>2. CASE synced = FALSE /\ skew \in Skews
      BY <2>2, SkewAssumption
    <2>3. QED
      BY <2>1, <2>2 DEF Init
  <1>2. LogTypeOK /\ WorkerTypeOK
    <2>1. LogTypeOK
      BY DEF Init, LogTypeOK, NoTimes, Time, Events
    <2>2. naps \in [Ticks -> Nat] /\ retryAfter \in [Jobs -> Time]
          /\ firstSeen \in [Jobs -> Time] /\ hold \in Time
      BY DEF Init, NoTimes, Time
    <2>3. QED
      BY <2>1, <2>2 DEF Init, WorkerTypeOK
  <1>3. WorldTypeOK
    <2>1. cached \in [Jobs -> Nat] /\ \A j \in Jobs : cached[j] <= NChunks[j]
      BY NChunksAssumption DEF Init
    <2>2. QED
      BY <1>1, <2>1, BoundAssumption DEF Init, WorldTypeOK, NoTimes, Time
  <1>4. Stamped
    BY DEF Init, Stamped, Accepted, Range
  <1>5. CachedWhole
    BY DEF Init, CachedWhole
  <1>6. QED
    BY <1>2, <1>3, <1>4, <1>5, TypeParts DEF TypeInv

LEMMA TypeStep ==
    ASSUME TypeInv, [Next]_vars
    PROVE  TypeInv'
  <1>1. TypeOK /\ Stamped /\ CachedWhole'
    BY CacheStep DEF TypeInv
  <1>2. CASE UNCHANGED vars
    BY <1>1, <1>2
    DEF TypeInv, TypeOK, Stamped, Accepted, vars, log, media, worker, world, clock
  <1>3. SUFFICES ASSUME Next PROVE TypeOK'
    BY <1>1, <1>2, StampedStep DEF TypeInv
  <1>4. CASE Handle
    <2>1. CASE NothingEligible
      BY <1>1, <2>1, NothingEligibleType
    <2>2. ASSUME NEW j \in Jobs, DropExpired(j) PROVE TypeOK'
      <3>1. q \in Nat \ {0} /\ "expired" \in Terminal /\ Drop(j, "expired")
        BY <1>1, <2>2 DEF DropExpired, Selected, Woken, TypeOK, Terminal
      <3>2. QED
        BY <1>1, <3>1, DropType
    <2>3. ASSUME NEW j \in Jobs, DropUncached(j) PROVE TypeOK'
      <3>1. q \in Nat \ {0} /\ "unknown_partial" \in Terminal /\ Drop(j, "unknown_partial")
        BY <1>1, <2>3 DEF DropUncached, Selected, Woken, TypeOK, Terminal
      <3>2. QED
        BY <1>1, <3>1, DropType
    <2>4. ASSUME NEW j \in Jobs, StartPrinting(j) PROVE TypeOK'
      BY <1>1, <2>4, StartPrintingType
    <2>5. ASSUME NEW j \in Jobs, Unlisted(j) PROVE TypeOK'
      BY <1>1, <2>5, UnlistedType
    <2>6. QED
      BY <1>4, <2>1, <2>2, <2>3, <2>4, <2>5 DEF Handle
  <1>5. CASE Send
    <2>1. CASE LastChunkSent
      BY <1>1, <2>1, FinishType DEF LastChunkSent, Terminal
    <2>2. CASE SendFails
      BY <1>1, <2>2, FinishType DEF SendFails, Terminal
    <2>3. QED
      BY <1>1, <1>5, <2>1, <2>2, SendType, RefusalType DEF Send
  <1>6. CASE HoldWakes \/ RescheduleWakes \/ Tick \/ ClockSync \/ ProbeFails
    BY <1>1, <1>6, TimerType
  <1>7. CASE Stop \/ Exit \/ Crash \/ \E j \in Jobs : Evict(j) \/ EvictFails(j)
    BY <1>1, <1>7, EndType, CacheType
  <1>8. CASE Startup
    BY <1>1, <1>8, StartType, CloseInDoubtType DEF Startup
  <1>9. CASE \E j \in Jobs : Accept(j)
    BY <1>1, <1>9, AcceptType
  <1>10. QED
    BY <1>3, <1>4, <1>5, <1>6, <1>7, <1>8, <1>9 DEF Next

\* TypeOK, which every run checks, holds for all jobs, options and bounds.
THEOREM TypeCorrect == Spec => []TypeOK
  <1>1. Init => TypeInv
    BY InitType
  <1>2. TypeInv /\ [Next]_vars => TypeInv'
    BY TypeStep
  <1>3. TypeInv => TypeOK
    BY DEF TypeInv
  <1>4. QED
    BY <1>1, <1>2, <1>3, PTL DEF Spec

-----------------------------------------------------------------------------
(* Paper.  NeverPrintedTwice is not inductive alone: what forbids a second *)
(* attempt at a job with paper out is its "printing" record together with  *)
(* _in_flight, _unsettled and the startup that closes jobs in doubt.       *)

Strip(m, k) == [i \in 1 .. k |-> m + i]

\* A job with no accepted record has left no trace.
Untouched ==
    \A j \in Jobs \ Accepted :
        latest[j] = "none" /\ j \notin terminated \cup unsettled /\ paper[j] = <<>>
TerminalIsRecorded ==
    \A j \in Jobs : latest[j] \in Terminal => j \in terminated
\* A pending job with paper out is the one being sent, or is never selected.
PaperIsOwned ==
    \A j \in Jobs : paper[j] # <<>> /\ j \notin terminated =>
        /\ latest[j] = "printing"
        /\ j \in unsettled \/ pc = "down" \/ (pc = "sending" /\ inFlight = j)
SentSoFar == IF out THEN chunk ELSE chunk - 1
Missing == NChunks[inFlight] - given
SendingState ==
    pc = "sending" =>
        /\ inFlight \in Accepted \ (terminated \cup unsettled)
        /\ latest[inFlight] = "printing"
        /\ paper[inFlight] = Strip(Missing, SentSoFar)
        /\ Missing = 0 \/ inFlight \in cutShort

Whole(j) ==
    /\ paper[j] # <<>> /\ paper[j][Len(paper[j])] = NChunks[j]
    /\ Len(paper[j]) = NChunks[j] \/ j \in cutShort

PaperInv ==
    /\ NeverPrintedTwice /\ NoPaperStatuses /\ PrintedToTheEnd
    /\ Untouched /\ TerminalIsRecorded /\ PaperIsOwned /\ SendingState

\* A selected job has no paper out.
LEMMA SelectedIsFresh ==
    ASSUME TypeOK, PaperInv, NEW j \in Jobs, Selected(j)
    PROVE  /\ j \in Accepted \ (terminated \cup unsettled) /\ paper[j] = <<>>
           /\ pc = "idle"
  <1>1. j \in Accepted \ (terminated \cup unsettled) /\ pc = "idle"
    BY DEF Selected, Woken, First, Eligible, Pool, Candidates
  <1>2. QED
    BY <1>1 DEF PaperInv, PaperIsOwned

\* While the first chunk's bytes are held back, the job has no paper out.
LEMMA RefusedIsFresh ==
    ASSUME TypeOK, PaperInv, Refused
    PROVE  /\ inFlight \in Accepted \ (terminated \cup unsettled)
           /\ paper[inFlight] = <<>> /\ pc = "sending"
  <1>1. SentSoFar = 0
    BY DEF Refused, SentSoFar
  <1>2. Strip(Missing, 0) = <<>>
    BY DEF Strip
  <1>3. QED
    BY <1>1, <1>2 DEF Refused, PaperInv, SendingState

\* Steps that touch neither the log's verdicts nor the paper.
LEMMA QuietStep ==
    ASSUME PaperInv, cutShort \subseteq cutShort',
           UNCHANGED <<arrival, latest, terminated, paper, unsettled>>,
           \/ UNCHANGED <<pc, inFlight, given, chunk, out>>
           \/ pc = "idle" /\ pc' \in {"idle", "exited"}
    PROVE  PaperInv'
  <1>1. Accepted' = Accepted
    BY DEF Accepted
  <1>2. NeverPrintedTwice' /\ NoPaperStatuses' /\ PrintedToTheEnd'
    BY DEF PaperInv, NeverPrintedTwice, NoPaperStatuses, PrintedToTheEnd
  <1>3. Untouched' /\ TerminalIsRecorded'
    BY <1>1 DEF PaperInv, Untouched, TerminalIsRecorded
  <1>4. PaperIsOwned'
    BY DEF PaperInv, PaperIsOwned
  <1>5. SendingState'
    BY <1>1 DEF PaperInv, SendingState, SentSoFar, Missing, Strip
  <1>6. QED
    BY <1>2, <1>3, <1>4, <1>5 DEF PaperInv

\* One record about job j ends its handling: terminal, or with no paper out.
LEMMA RecordStep ==
    ASSUME TypeOK, PaperInv, cutShort \subseteq cutShort', NEW j \in Accepted,
           NEW e \in Events \cup {"none"},
           pc = "idle" \/ (pc = "sending" /\ inFlight = j),
           pc' \in {"idle", "exited", "dead"},
           UNCHANGED <<arrival, paper, unsettled>>,
           latest' = [latest EXCEPT ![j] = e],
           terminated' \in {terminated, terminated \cup {j}},
           e \in Terminal => j \in terminated',
           e = "printed" => Whole(j),
           e \in {"none", "retry", "expired", "retry_timeout"} => paper[j] = <<>>,
           j \notin terminated' => paper[j] = <<>>
    PROVE  PaperInv'
  <1>1. j \in Jobs /\ Accepted' = Accepted
    BY AcceptedJobs DEF Accepted
  <1>2. NeverPrintedTwice'
    BY DEF PaperInv, NeverPrintedTwice
  <1>3. NoPaperStatuses' /\ PrintedToTheEnd'
    BY <1>1 DEF PaperInv, NoPaperStatuses, PrintedToTheEnd, Whole, TypeOK
  <1>4. Untouched' /\ TerminalIsRecorded'
    BY <1>1 DEF PaperInv, Untouched, TerminalIsRecorded, TypeOK
  <1>5. PaperIsOwned'
    BY <1>1 DEF PaperInv, PaperIsOwned, TypeOK
  <1>6. SendingState'
    BY DEF SendingState
  <1>7. QED
    BY <1>2, <1>3, <1>4, <1>5, <1>6 DEF PaperInv

LEMMA UnexpectedStep ==
    ASSUME TypeOK, PaperInv, cutShort \subseteq cutShort', NEW j \in Accepted,
           NEW e \in Events \ {"printed"},
           NEW R, NEW tokens, Unexpected(j, e, R, tokens),
           pc = "idle" \/ (pc = "sending" /\ inFlight = j),
           paper[j] = <<>>, UNCHANGED paper
    PROVE  PaperInv'
  <1>1. PICK first \in {"kept", "lost"}, second \in {"written", "kept", "lost"} :
         /\ latest' = [latest EXCEPT ![j] =
               IF second # "lost" THEN "retry" ELSE IF first = "kept" THEN e ELSE @]
         /\ terminated' = IF first = "kept" /\ e \in Terminal
                            THEN terminated \cup {j} ELSE terminated
         /\ pc' = IF second = "written" THEN Loop ELSE "dead"
    BY DEF Unexpected
  <1> DEFINE ev == IF second # "lost" THEN "retry"
                   ELSE IF first = "kept" THEN e ELSE latest[j]
  <1>2. j \in Jobs
    BY AcceptedJobs
  <1>3. latest[j] \in Events \cup {"none"} /\ ev \in Events \cup {"none"}
    BY <1>2 DEF TypeOK, Events
  <1>4. ev \in Terminal => j \in terminated'
    BY <1>1, <1>2 DEF Terminal, PaperInv, TerminalIsRecorded
  <1>5. ev = "printed" => Whole(j)
    BY <1>2 DEF PaperInv, PrintedToTheEnd, Whole
  <1>6. latest' = [latest EXCEPT ![j] = ev]
    BY <1>1
  <1>7. /\ pc' \in {"idle", "exited", "dead"}
        /\ UNCHANGED <<arrival, unsettled>>
        /\ terminated' \in {terminated, terminated \cup {j}}
    BY <1>1 DEF Unexpected, Loop
  <1>8. QED
    BY <1>3, <1>4, <1>5, <1>6, <1>7, RecordStep

\* The job in flight is set aside: its last record stays "printing", or a
\* terminal record reached the file although its append raised.
LEMMA UnsettleStep ==
    ASSUME TypeOK, PaperInv, cutShort \subseteq cutShort', pc = "sending",
           NEW e \in Terminal,
           AppendFails(inFlight, e), Unsettle(inFlight), UNCHANGED paper,
           e = "printed" => Whole(inFlight),
           e \in {"expired", "retry_timeout"} => paper[inFlight] = <<>>
    PROVE  PaperInv'
  <1> DEFINE j == inFlight
  <1>1. /\ j \in Jobs /\ j \in Accepted /\ j \notin terminated
        /\ latest[j] = "printing"
    BY DEF TypeOK, PaperInv, SendingState
  <1>2. /\ pc' \in {"idle", "exited"} /\ unsettled' = unsettled \cup {j}
        /\ arrival' = arrival /\ Accepted' = Accepted
    BY DEF Unsettle, Completed, Loop, AppendFails, Append1, log, Accepted
  <1>3. \/ latest' = latest /\ terminated' = terminated
        \/ latest' = [latest EXCEPT ![j] = e] /\ terminated' = terminated \cup {j}
    BY DEF AppendFails, Append1, log
  <1>4. NeverPrintedTwice'
    BY DEF PaperInv, NeverPrintedTwice
  <1>5. NoPaperStatuses' /\ PrintedToTheEnd'
    BY <1>1, <1>3 DEF PaperInv, NoPaperStatuses, PrintedToTheEnd, Whole, TypeOK, Terminal
  <1>6. Untouched' /\ TerminalIsRecorded'
    BY <1>1, <1>2, <1>3 DEF PaperInv, Untouched, TerminalIsRecorded, TypeOK
  <1>7. PaperIsOwned'
    BY <1>1, <1>2, <1>3 DEF PaperInv, PaperIsOwned, TypeOK
  <1>8. SendingState'
    BY <1>2 DEF SendingState
  <1>9. QED
    BY <1>4, <1>5, <1>6, <1>7, <1>8 DEF PaperInv

LEMMA HandlePaper ==
    ASSUME TypeOK, CachedWhole, PaperInv, cutShort \subseteq cutShort', Handle
    PROVE  PaperInv'
  <1>1. CASE NothingEligible
    BY <1>1, QuietStep DEF NothingEligible, Woken, Loop, log, media
  <1>2. ASSUME NEW j \in Jobs, NEW e \in {"expired", "unknown_partial"},
               Selected(j), Drop(j, e)
        PROVE  PaperInv'
    <2>1. /\ j \in Accepted \ (terminated \cup unsettled)
          /\ paper[j] = <<>> /\ pc = "idle"
      BY <1>2, SelectedIsFresh
    <2>2. paper' = paper /\ e \in Events \ {"printed"} /\ e \in Terminal
      BY <1>2 DEF Drop, media, Events, Terminal
    <2>3. CASE Append1(j, e) /\ Completed(terminated', unsettled,
                 Forget(Swept(Pool, retryAfter), j), q - 1)
      <3>1. /\ latest' = [latest EXCEPT ![j] = e] /\ terminated' = terminated \cup {j}
            /\ UNCHANGED <<arrival, unsettled>> /\ pc' \in {"idle", "exited", "dead"}
        BY <2>2, <2>3 DEF Append1, Completed, Loop
      <3>2. QED
        BY <2>1, <2>2, <3>1, RecordStep
    <2>4. CASE Unexpected(j, e, Swept(Pool, retryAfter), q - 1)
      BY <2>1, <2>2, <2>4, UnexpectedStep
    <2>5. QED
      BY <1>2, <2>3, <2>4 DEF Drop
  <1>3. ASSUME NEW j \in Jobs, StartPrinting(j)
        PROVE  PaperInv'
    <2>1. /\ j \in Accepted \ (terminated \cup unsettled)
          /\ paper[j] = <<>> /\ pc = "idle"
      BY <1>3, SelectedIsFresh DEF StartPrinting
    <2>2. CASE Unexpected(j, "printing", Swept(Pool, retryAfter), q - 1)
      BY <1>3, <2>1, <2>2, UnexpectedStep DEF StartPrinting, media, Events
    <2>3. CASE /\ Append1(j, "printing") /\ pc' = "sending" /\ given' = cached[j]
               /\ chunk' = 1 /\ out' = FALSE /\ inFlight' = j /\ unsettled' = unsettled
      <3>1. /\ latest' = [latest EXCEPT ![j] = "printing"] /\ terminated' = terminated
            /\ arrival' = arrival /\ Accepted' = Accepted /\ paper' = paper
        BY <1>3, <2>3 DEF Append1, Terminal, StartPrinting, media, Accepted
      <3>2. NeverPrintedTwice' /\ NoPaperStatuses' /\ PrintedToTheEnd'
        BY <3>1 DEF PaperInv, NeverPrintedTwice, NoPaperStatuses, PrintedToTheEnd,
            Whole, TypeOK
      <3>3. Untouched' /\ TerminalIsRecorded'
        BY <2>1, <2>3, <3>1 DEF PaperInv, Untouched, TerminalIsRecorded, TypeOK, Terminal
      <3>4. PaperIsOwned'
        BY <2>1, <2>3, <3>1 DEF PaperInv, PaperIsOwned, TypeOK
      <3>5. SentSoFar' = 0 /\ Strip(Missing, 0)' = <<>>
        BY <2>3 DEF SentSoFar, Strip
      <3>6. (Missing = 0)' \/ j \in cutShort'
        BY <1>3, <2>3, NChunksAssumption DEF Missing, CachedWhole, StartPrinting, TypeOK
      <3>8. SendingState'
        BY <2>1, <2>3, <3>1, <3>5, <3>6 DEF SendingState, Strip, TypeOK
      <3>7. QED
        BY <3>2, <3>3, <3>4, <3>8 DEF PaperInv
    <2>4. QED
      BY <1>3, <2>2, <2>3 DEF StartPrinting
  <1>4. ASSUME NEW j \in Jobs, Unlisted(j)
        PROVE  PaperInv'
    <2>1. /\ j \in Accepted \ (terminated \cup unsettled)
          /\ paper[j] = <<>> /\ pc = "idle"
      BY <1>4, SelectedIsFresh DEF Unlisted
    <2>2. /\ pc' \in {"idle", "exited", "dead"} /\ UNCHANGED <<arrival, paper, unsettled>>
          /\ \E e \in {"retry", latest[j]} : latest' = [latest EXCEPT ![j] = e]
          /\ terminated' = terminated
      BY <1>4 DEF Unlisted, Append1, Loop, Terminal, media, log, TypeOK
    <2>3. PICK e \in {"retry", latest[j]} : latest' = [latest EXCEPT ![j] = e]
      BY <2>2
    <2>4. e \in Events \cup {"none"} /\ e \notin Terminal
      BY <2>1 DEF TypeOK, Events, PaperInv, TerminalIsRecorded, Terminal
    <2>5. QED
      BY <2>1, <2>2, <2>3, <2>4, RecordStep DEF Terminal
  <1>5. QED
    BY <1>1, <1>2, <1>3, <1>4 DEF Handle, DropExpired, DropUncached

LEMMA ReachPaperPaper ==
    ASSUME TypeOK, PaperInv, cutShort \subseteq cutShort', ReachPaper
    PROVE  PaperInv'
  <1> DEFINE j == inFlight
  <1>1. /\ j \in Jobs /\ j \in Accepted /\ j \notin terminated /\ j \notin unsettled
        /\ latest[j] = "printing" /\ paper[j] = Strip(Missing, chunk - 1)
        /\ given \in 1 .. NChunks[j] /\ chunk \in 1 .. given
        /\ Missing = 0 \/ j \in cutShort
    BY DEF TypeOK, PaperInv, SendingState, SentSoFar, ReachPaper
  <1>2. paper' = [paper EXCEPT ![j] = Append(Strip(Missing, chunk - 1), Missing + chunk)]
    BY <1>1 DEF ReachPaper, Missing
  <1>3. Missing \in Nat /\ chunk \in Nat \ {0} /\ Missing + chunk <= NChunks[j]
    BY <1>1, NChunksAssumption DEF Missing
  <1>12. ASSUME NEW m \in Nat, NEW k \in Nat \ {0}
         PROVE  Append(Strip(m, k - 1), m + k) = Strip(m, k)
    BY <1>12 DEF Strip
  <1>4. /\ paper' = [paper EXCEPT ![j] = Strip(Missing, chunk)]
        /\ paper'[j] = Strip(Missing, chunk)
    BY <1>1, <1>2, <1>3, <1>12 DEF TypeOK
  <1>5. /\ UNCHANGED <<arrival, latest, terminated, unsettled, pc, given, chunk, inFlight>>
        /\ out' = TRUE /\ pc = "sending" /\ Accepted' = Accepted /\ Missing' = Missing
    BY DEF ReachPaper, log, Accepted, Missing
  <1>6. NeverPrintedTwice'
    <2>1. Missing \in 0 .. NChunks[j] /\ chunk \in 0 .. NChunks[j]
      BY <1>1, <1>3, NChunksAssumption
    <2>2. ASSUME NEW i \in Jobs
          PROVE  \E m, k \in 0 .. NChunks[i] :
                    m + k <= NChunks[i] /\ paper'[i] = [n \in 1 .. k |-> m + n]
      <3>1. CASE i = j
        BY <1>3, <1>4, <2>1, <3>1 DEF Strip
      <3>2. CASE i # j
        BY <1>4, <3>2 DEF PaperInv, NeverPrintedTwice, TypeOK
      <3>3. QED
        BY <3>1, <3>2
    <2>3. QED
      BY <2>2 DEF NeverPrintedTwice
  <1>7. NoPaperStatuses' /\ PrintedToTheEnd'
    BY <1>1, <1>4, <1>5 DEF PaperInv, NoPaperStatuses, PrintedToTheEnd, Whole, TypeOK
  <1>8. Untouched' /\ TerminalIsRecorded'
    BY <1>1, <1>4, <1>5 DEF PaperInv, Untouched, TerminalIsRecorded, TypeOK
  <1>9. PaperIsOwned'
    BY <1>1, <1>4, <1>5 DEF PaperInv, PaperIsOwned, TypeOK
  <1>10. SendingState'
    BY <1>1, <1>4, <1>5 DEF SendingState, SentSoFar, Missing, Strip
  <1>11. QED
    BY <1>6, <1>7, <1>8, <1>9, <1>10 DEF PaperInv

LEMMA FinishPaper ==
    ASSUME TypeOK, PaperInv, cutShort \subseteq cutShort', pc = "sending",
           NEW e \in {"printed", "unknown_partial"},
           Finish(inFlight, e),
           e = "printed" => Whole(inFlight)
    PROVE  PaperInv'
  <1>1. inFlight \in Accepted /\ paper' = paper /\ e \in Terminal /\ e \in Events
    BY DEF PaperInv, SendingState, Finish, media, Terminal, Events
  <1>2. CASE /\ Append1(inFlight, e)
             /\ Completed(terminated', unsettled, Forget(retryAfter, inFlight), q)
    <2>1. /\ latest' = [latest EXCEPT ![inFlight] = e]
          /\ terminated' = terminated \cup {inFlight}
          /\ UNCHANGED <<arrival, unsettled>> /\ pc' \in {"idle", "exited", "dead"}
      BY <1>1, <1>2 DEF Append1, Completed, Loop
    <2>2. QED
      BY <1>1, <2>1, RecordStep
  <1>3. CASE AppendFails(inFlight, e) /\ Unsettle(inFlight)
    BY <1>1, <1>3, UnsettleStep
  <1>4. QED
    BY <1>2, <1>3 DEF Finish

LEMMA RefusalPaper ==
    ASSUME TypeOK, PaperInv, cutShort \subseteq cutShort',
           NEW e \in {"retry", "retry_timeout"}, Refused,
           UNCHANGED paper,
           \/ Unexpected(inFlight, e, retryAfter, q)
           \/ /\ Append1(inFlight, e) /\ unsettled' = unsettled
              /\ pc' \in {"idle", "exited"}
    PROVE  PaperInv'
  <1>1. /\ inFlight \in Accepted \ (terminated \cup unsettled)
        /\ paper[inFlight] = <<>> /\ pc = "sending"
    BY RefusedIsFresh
  <1>2. e \in Events \ {"printed"}
    BY DEF Events, Terminal
  <1>3. CASE Unexpected(inFlight, e, retryAfter, q)
    BY <1>1, <1>2, <1>3, UnexpectedStep
  <1>4. CASE /\ Append1(inFlight, e) /\ unsettled' = unsettled
             /\ pc' \in {"idle", "exited"}
    <2>1. /\ latest' = [latest EXCEPT ![inFlight] = e] /\ arrival' = arrival
          /\ terminated' \in {terminated, terminated \cup {inFlight}}
          /\ e \in Terminal => inFlight \in terminated'
      BY <1>4 DEF Append1
    <2>2. QED
      BY <1>1, <1>2, <1>4, <2>1, RecordStep
  <1>5. QED
    BY <1>3, <1>4

LEMMA SendPaper ==
    ASSUME TypeOK, PaperInv, cutShort \subseteq cutShort', Send
    PROVE  PaperInv'
  <1>1. CASE ReachPaper
    BY <1>1, ReachPaperPaper
  <1>2. CASE NextChunk
    <2>1. UNCHANGED <<arrival, latest, terminated, paper, unsettled, pc, inFlight>>
          /\ Accepted' = Accepted
      BY <1>2 DEF NextChunk, log, media, Accepted
    <2>2. SentSoFar' = SentSoFar /\ Missing' = Missing
      BY <1>2 DEF NextChunk, SentSoFar, Missing, TypeOK
    <2>3. NeverPrintedTwice' /\ NoPaperStatuses' /\ PrintedToTheEnd'
      BY <2>1 DEF PaperInv, NeverPrintedTwice, NoPaperStatuses, PrintedToTheEnd
    <2>4. Untouched' /\ TerminalIsRecorded' /\ PaperIsOwned'
      BY <2>1 DEF PaperInv, Untouched, TerminalIsRecorded, PaperIsOwned
    <2>5. SendingState'
      BY <2>1, <2>2 DEF PaperInv, SendingState, Strip
    <2>6. QED
      BY <2>3, <2>4, <2>5 DEF PaperInv
  <1>3. CASE LastChunkSent
    <2>1. /\ SentSoFar = given /\ given \in Nat \ {0} /\ Missing \in Nat
          /\ Missing + given = NChunks[inFlight]
      BY <1>3, NChunksAssumption DEF LastChunkSent, IsLast, SentSoFar, Missing, TypeOK
    <2>4. /\ paper[inFlight] = Strip(Missing, given)
          /\ Missing = 0 \/ inFlight \in cutShort
      BY <1>3, <2>1 DEF LastChunkSent, PaperInv, SendingState
    <2>5. /\ Len(Strip(Missing, given)) = given
          /\ Strip(Missing, given)[given] = Missing + given
      BY <2>1 DEF Strip
    <2>2. Whole(inFlight)
      BY <2>1, <2>4, <2>5 DEF Whole
    <2>3. QED
      BY <1>3, <2>2, FinishPaper DEF LastChunkSent
  <1>4. CASE SendFails
    BY <1>4, FinishPaper DEF SendFails
  <1>5. CASE GiveUp
    BY <1>5, RefusalPaper DEF GiveUp, Completed, Loop, media
  <1>6. CASE RetryLater
    BY <1>6, RefusalPaper DEF RetryLater, Loop, media
  <1>7. QED
    BY <1>1, <1>2, <1>3, <1>4, <1>5, <1>6 DEF Send

LEMMA AcceptPaper ==
    ASSUME TypeOK, PaperInv, cutShort \subseteq cutShort', NEW j \in Jobs, Accept(j)
    PROVE  PaperInv'
  <1>1. /\ Accepted' = Accepted \cup {j} /\ pc # "down"
        /\ UNCHANGED <<latest, terminated, paper, pc, sends, inFlight, unsettled>>
    <2>1. arrival \in Seq(Jobs) /\ arrival' = Append(arrival, j)
      BY DEF Accept, TypeOK
    <2>2. Accepted' = Accepted \cup {j}
      BY <2>1 DEF Accepted, Range
    <2>3. QED
      BY <2>2 DEF Accept
  <1>2. NeverPrintedTwice' /\ NoPaperStatuses' /\ PrintedToTheEnd'
    BY <1>1 DEF PaperInv, NeverPrintedTwice, NoPaperStatuses, PrintedToTheEnd, Whole
  <1>3. Untouched' /\ TerminalIsRecorded' /\ PaperIsOwned'
    BY <1>1 DEF PaperInv, Untouched, TerminalIsRecorded, PaperIsOwned
  <1>4. SendingState'
    BY <1>1 DEF PaperInv, SendingState, SentSoFar, Missing, Strip
  <1>5. QED
    BY <1>2, <1>3, <1>4 DEF PaperInv

\* When the process goes, every pending job with paper out is in doubt, and
\* the next one closes it before its worker starts.
LEMMA RestartPaper ==
    ASSUME TypeOK, PaperInv, cutShort \subseteq cutShort', Exit \/ Crash \/ Startup
    PROVE  PaperInv'
  <1>1. CASE Exit \/ Crash
    <2>1. /\ UNCHANGED <<arrival, latest, terminated, paper>> /\ pc' = "down"
          /\ unsettled' = {} /\ Accepted' = Accepted
      BY <1>1 DEF Exit, Crash, ProcessGone, log, media, Accepted
    <2>2. NeverPrintedTwice' /\ NoPaperStatuses' /\ PrintedToTheEnd'
      BY <2>1 DEF PaperInv, NeverPrintedTwice, NoPaperStatuses, PrintedToTheEnd
    <2>3. Untouched' /\ TerminalIsRecorded' /\ PaperIsOwned' /\ SendingState'
      BY <2>1 DEF PaperInv, Untouched, TerminalIsRecorded, PaperIsOwned, SendingState
    <2>4. QED
      BY <2>2, <2>3 DEF PaperInv
  <1>2. ASSUME NEW j \in Jobs, CloseInDoubt(j) PROVE PaperInv'
    <2>1. /\ latest' = [latest EXCEPT ![j] = "unknown_partial"]
          /\ terminated' = terminated \cup {j} /\ j \in Accepted
          /\ UNCHANGED <<arrival, paper, unsettled, pc>> /\ pc = "down"
          /\ Accepted' = Accepted
      BY <1>2
      DEF CloseInDoubt, InDoubt, Append1, Terminal, media, worker, Accepted
    <2>2. NeverPrintedTwice' /\ NoPaperStatuses' /\ PrintedToTheEnd'
      BY <2>1 DEF PaperInv, NeverPrintedTwice, NoPaperStatuses, PrintedToTheEnd, Whole,
          TypeOK
    <2>3. Untouched' /\ TerminalIsRecorded' /\ PaperIsOwned' /\ SendingState'
      BY <2>1
      DEF PaperInv, Untouched, TerminalIsRecorded, PaperIsOwned, SendingState, TypeOK
    <2>4. QED
      BY <2>2, <2>3 DEF PaperInv
  <1>3. CASE Start
    <2>1. /\ UNCHANGED <<arrival, latest, terminated, paper, unsettled>>
          /\ pc = "down" /\ pc' = "idle" /\ Accepted' = Accepted
      BY <1>3 DEF Start, log, media, Accepted
    <2>2. NeverPrintedTwice' /\ NoPaperStatuses' /\ PrintedToTheEnd'
      BY <2>1 DEF PaperInv, NeverPrintedTwice, NoPaperStatuses, PrintedToTheEnd
    <2>3. Untouched' /\ TerminalIsRecorded' /\ SendingState'
      BY <2>1 DEF PaperInv, Untouched, TerminalIsRecorded, SendingState
    <2>4. \A j \in Jobs : paper[j] = <<>> \/ j \in terminated
      <3>1. SUFFICES ASSUME NEW j \in Jobs, paper[j] # <<>>, j \notin terminated
                     PROVE  FALSE
        OBVIOUS
      <3>2. latest[j] = "printing" /\ j \in Accepted
        BY <3>1 DEF PaperInv, PaperIsOwned, Untouched
      <3>3. QED
        BY <1>3, <3>1, <3>2 DEF Start, InDoubt
    <2>5. PaperIsOwned'
      BY <2>1, <2>4 DEF PaperIsOwned
    <2>6. QED
      BY <2>2, <2>3, <2>5 DEF PaperInv
  <1>4. QED
    BY <1>1, <1>2, <1>3 DEF Startup

LEMMA InitPaper ==
    ASSUME Init
    PROVE  PaperInv
  <1>1. NeverPrintedTwice
    <2>1. ASSUME NEW j \in Jobs
          PROVE  \E m, k \in 0 .. NChunks[j] :
                    m + k <= NChunks[j] /\ paper[j] = [i \in 1 .. k |-> m + i]
      <3>1. 0 \in 0 .. NChunks[j] /\ 0 + 0 <= NChunks[j] /\ paper[j] = [i \in 1 .. 0 |-> 0 + i]
        BY NChunksAssumption DEF Init
      <3>2. QED
        BY <3>1
    <2>2. QED
      BY <2>1 DEF NeverPrintedTwice
  <1>2. QED
    BY <1>1
    DEF Init, PaperInv, NoPaperStatuses, PrintedToTheEnd, Untouched, Terminal,
        TerminalIsRecorded, PaperIsOwned, SendingState

LEMMA PaperStep ==
    ASSUME TypeOK, CachedWhole, PaperInv, [Next]_vars
    PROVE  PaperInv'
  <1>4. cutShort \subseteq cutShort'
    BY CacheStep
  <1>1. CASE UNCHANGED vars
    BY <1>1, <1>4, QuietStep DEF vars, log, media, worker
  <1>2. CASE HoldWakes \/ RescheduleWakes \/ Tick \/ ClockSync \/ ProbeFails \/ Stop
             \/ \E j \in Jobs : Evict(j) \/ EvictFails(j)
    <2>1. /\ UNCHANGED <<arrival, latest, terminated, paper, unsettled>>
          /\ UNCHANGED <<pc, inFlight, given, chunk, out>>
      BY <1>2
      DEF HoldWakes, RescheduleWakes, Tick, ClockSync, ProbeFails, Stop, Evict,
          EvictFails, log,
          media, worker
    <2>2. QED
      BY <1>4, <2>1, QuietStep
  <1>3. QED
    BY <1>1, <1>2, <1>4, HandlePaper, SendPaper, AcceptPaper, RestartPaper DEF Next

\* Whose paper is out, what its records say, and who is yet to record it: the
\* worker at work, the jobs set aside, or the next start.
THEOREM PaperInvariant == Spec => [](TypeInv /\ PaperInv)
  <1>1. Init => TypeInv /\ PaperInv
    BY InitType, InitPaper
  <1>2. TypeInv /\ PaperInv /\ [Next]_vars => (TypeInv /\ PaperInv)'
    BY TypeStep, PaperStep DEF TypeInv
  <1>3. QED
    BY <1>1, <1>2, PTL DEF Spec

\* For any number of jobs, chunks, crashes, restarts, failed appends and parts
\* left in the cache, what comes out for a job is a run of its chunks, each once
\* and in order.
THEOREM PrintedAtMostOnce == Spec => []NeverPrintedTwice
  <1>1. TypeInv /\ PaperInv => NeverPrintedTwice
    BY DEF PaperInv
  <1>2. QED
    BY <1>1, PaperInvariant, PTL

\* A job whose status says that no paper moved has moved none.
THEOREM StatusesAreTruthful == Spec => []NoPaperStatuses
  <1>1. TypeInv /\ PaperInv => NoPaperStatuses
    BY DEF PaperInv
  <1>2. QED
    BY <1>1, PaperInvariant, PTL

\* A job with the status "printed" is on paper to its last chunk, and from its
\* first one unless the unlinking of its files was interrupted.
THEOREM PrintedJobsWentToTheEnd == Spec => []PrintedToTheEnd
  <1>1. TypeInv /\ PaperInv => PrintedToTheEnd
    BY DEF PaperInv
  <1>2. QED
    BY <1>1, PaperInvariant, PTL

\* Paper moves in ReachPaper alone, and only for a job that is not terminated.
LEMMA OnlyReachPaper ==
    ASSUME TypeOK, PaperInv, [Next]_vars
    PROVE  \A j \in Jobs : j \in terminated => paper'[j] = paper[j]
  <1>1. CASE ReachPaper
    <2>1. inFlight \in Jobs \ terminated
      BY <1>1 DEF ReachPaper, PaperInv, SendingState, TypeOK
    <2>2. paper' = [paper EXCEPT ![inFlight] = Append(@, NChunks[inFlight] - given + chunk)]
      BY <1>1 DEF ReachPaper
    <2>3. paper \in [Jobs -> Seq(Nat)]
      BY DEF TypeOK
    <2>4. QED
      BY <2>1, <2>2, <2>3
  <1>2. CASE Handle
    BY <1>2 DEF Handle, NothingEligible, DropExpired, DropUncached, Drop,
                Unlisted, StartPrinting, media
  <1>3. CASE NextChunk \/ LastChunkSent \/ SendFails \/ GiveUp \/ RetryLater
    BY <1>3 DEF NextChunk, LastChunkSent, SendFails, Finish, GiveUp, RetryLater, media
  <1>4. CASE \/ HoldWakes \/ RescheduleWakes \/ Tick \/ ClockSync \/ ProbeFails \/ Stop
            \/ \E j \in Jobs : Accept(j) \/ Evict(j) \/ EvictFails(j)
    BY <1>4 DEF HoldWakes, RescheduleWakes, Tick, ClockSync, ProbeFails, Stop, Accept,
        Evict,
                EvictFails, media
  <1>5. CASE Exit \/ Crash \/ Startup
    BY <1>5 DEF Exit, Crash, Startup, ProcessGone, Start, CloseInDoubt, media
  <1>6. CASE UNCHANGED vars
    BY <1>6 DEF vars, media
  <1>7. QED
    BY <1>1, <1>2, <1>3, <1>4, <1>5, <1>6 DEF Next, Send

\* A job with a terminal record moves no more paper, in this process or a later.
THEOREM TerminatedJobsAreDone == Spec => TerminatedStaysOffPaper
  <1>1. TypeInv /\ PaperInv /\ [Next]_vars
        => [\A j \in Jobs : j \in terminated => paper'[j] = paper[j]]_vars
    BY OnlyReachPaper DEF TypeInv
  <1>2. QED
    BY <1>1, PaperInvariant, PTL DEF Spec, TerminatedStaysOffPaper

-----------------------------------------------------------------------------
(* The clock: while it is synchronised, the wall clock is `now`, and `now`  *)
(* never goes back.                                                         *)

LEMMA TimeStep ==
    ASSUME TypeOK, [Next]_vars
    PROVE  now \in Int /\ now' \in Int /\ now' >= now
  <1> USE DEF world, clock
  <1>1. now \in Int
    BY BoundAssumption DEF TypeOK
  <1>2. CASE Tick
    BY <1>1, <1>2 DEF Tick
  <1>3. CASE Handle \/ Send
    <2>1. now' = now
      BY <1>3 DEF Handle, NothingEligible, DropExpired, DropUncached, Drop,
                  Unlisted, StartPrinting, Send, ReachPaper, NextChunk, LastChunkSent,
                  SendFails, Finish, GiveUp, RetryLater
    <2>2. QED
      BY <1>1, <2>1
  <1>4. CASE \/ HoldWakes \/ RescheduleWakes \/ ClockSync \/ ProbeFails \/ Stop
             \/ Exit \/ Crash
            \/ Startup \/ \E j \in Jobs : Accept(j) \/ Evict(j) \/ EvictFails(j)
    <2>1. now' = now
      BY <1>4 DEF HoldWakes, RescheduleWakes, ClockSync, ProbeFails, Stop, Exit, Crash,
          Startup,
                  ProcessGone, Start, CloseInDoubt, Accept, Evict, EvictFails
    <2>2. QED
      BY <1>1, <2>1
  <1>5. CASE UNCHANGED vars
    BY <1>1, <1>5 DEF vars
  <1>6. QED
    BY <1>2, <1>3, <1>4, <1>5 DEF Next

\* The only step that leaves "expired" as a job's event starts from Expired.
LEMMA ExpiredRecord ==
    ASSUME TypeOK, [Next]_vars, NEW i \in Jobs, latest'[i] = "expired"
    PROVE  latest[i] = "expired" \/ Expired(i)
  <1> USE DEF log
  <1>1. ASSUME NEW j \in Jobs, NEW e \in Events, Append1(j, e) \/ AppendFails(j, e)
        PROVE  latest[i] = "expired" \/ (i = j /\ e = "expired")
    BY <1>1 DEF TypeOK, Append1, AppendFails
  <1>2. ASSUME NEW j \in Jobs, NEW e \in Events, NEW R, NEW n, Unexpected(j, e, R, n)
        PROVE  latest[i] = "expired" \/ (i = j /\ e = "expired")
    BY <1>2 DEF TypeOK, Unexpected
  <1>3. ASSUME NEW j \in Jobs, DropExpired(j) \/ DropUncached(j)
                               \/ Unlisted(j) \/ StartPrinting(j)
        PROVE  latest[i] = "expired" \/ Expired(i)
    <2>1. CASE DropExpired(j)
      BY <1>1, <1>2, <2>1 DEF DropExpired, Drop, Events, Terminal
    <2>2. CASE DropUncached(j)
      BY <1>1, <1>2, <2>2 DEF DropUncached, Drop, Events, Terminal
    <2>3. CASE StartPrinting(j)
      BY <1>1, <1>2, <2>3 DEF StartPrinting, Events, Terminal
    <2>4. CASE Unlisted(j)
      BY <1>1, <2>4 DEF Unlisted, Events, Terminal
    <2>5. QED
      BY <1>3, <2>1, <2>2, <2>3, <2>4
  <1>4. CASE Send
    <2>1. pc = "sending" => inFlight \in Jobs
      BY DEF TypeOK
    <2>2. CASE ReachPaper \/ NextChunk
      BY <2>2 DEF ReachPaper, NextChunk
    <2>3. CASE LastChunkSent \/ SendFails
      BY <1>1, <2>1, <2>3 DEF LastChunkSent, SendFails, Finish, Events, Terminal
    <2>4. CASE GiveUp \/ RetryLater
      BY <1>1, <1>2, <2>1, <2>4 DEF GiveUp, RetryLater, Refused, Events, Terminal
    <2>5. QED
      BY <1>4, <2>2, <2>3, <2>4 DEF Send
  <1>5. CASE \E j \in Jobs : CloseInDoubt(j)
    BY <1>1, <1>5 DEF CloseInDoubt, Events, Terminal
  <1>6. CASE \/ HoldWakes \/ RescheduleWakes \/ ClockSync \/ ProbeFails \/ Tick
             \/ Stop \/ Exit
            \/ Crash \/ Start \/ NothingEligible \/ \E j \in Jobs : Accept(j)
            \/ Evict(j) \/ EvictFails(j)
    BY <1>6 DEF HoldWakes, RescheduleWakes, ClockSync, ProbeFails, Tick, Stop, Exit, Crash,
                ProcessGone, Start, NothingEligible, Accept, Evict, EvictFails
  <1>7. CASE UNCHANGED vars
    BY <1>7 DEF vars
  <1>8. QED
    BY <1>3, <1>4, <1>5, <1>6, <1>7 DEF Next, Handle, Startup

\* Whatever a boot's clock shows, a job is dropped only past its deadline.
THEOREM NothingExpiresEarly == Spec => []ExpiredIsPast
  <1>1. Init => ExpiredIsPast
    BY DEF Init, ExpiredIsPast
  <1>2. TypeOK /\ ExpiredIsPast /\ [Next]_vars => ExpiredIsPast'
    <2>1. SUFFICES ASSUME TypeOK, ExpiredIsPast, [Next]_vars, NEW j \in Jobs,
                          latest'[j] = "expired"
                   PROVE  ExpiresAt[j] # None /\ now' > ExpiresAt[j]
      BY DEF ExpiredIsPast
    <2>2. now \in Int /\ now' \in Int /\ now' >= now
      BY <2>1, TimeStep
    <2>3. ExpiresAt[j] # None => ExpiresAt[j] \in Int
      BY ExpiresAtAssumption DEF Time
    <2>4. ExpiresAt[j] # None /\ now > ExpiresAt[j]
      <3>1. latest[j] = "expired" \/ Expired(j)
        BY <2>1, ExpiredRecord
      <3>2. synced => Wall = now
        BY <2>1, <2>2 DEF TypeOK, Wall
      <3>3. CASE Expired(j)
        <4>1. ExpiresAt[j] # None /\ Wall > ExpiresAt[j] /\ Wall = now
          BY <3>2, <3>3 DEF Expired
        <4>2. QED
          BY <4>1
      <3>4. QED
        BY <2>1, <3>1, <3>3 DEF ExpiredIsPast
    <2>5. QED
      BY <2>2, <2>3, <2>4
  <1>3. QED
    BY <1>1, <1>2, TypeCorrect, PTL DEF Spec

\* What keeps a scheduled job off paper: it is printed, or being sent, only
\* once its not_before has come.
SentWhenDue ==
    \A j \in Jobs :
        /\ NotBefore[j] # None
        /\ paper[j] # <<>> \/ (pc = "sending" /\ inFlight = j)
        => now >= NotBefore[j]

LEMMA SelectedIsDue ==
    ASSUME TypeOK, NEW j \in Jobs, Selected(j), NotBefore[j] # None
    PROVE  now >= NotBefore[j]
  <1>1. ~Held(j)
    BY DEF Selected, First, Eligible
  <1>2. synced /\ ~(NotBefore[j] > Wall)
    BY <1>1 DEF Held
  <1>3. now \in Int /\ NotBefore[j] \in Int
    BY NotBeforeAssumption, BoundAssumption DEF TypeOK, Time
  <1>4. Wall = now
    BY <1>2, <1>3 DEF TypeOK, Wall
  <1>5. QED
    BY <1>2, <1>3, <1>4

\* A job that has paper out, or is being sent, had it or was before the step,
\* unless the step is the start of its printing.
LEMMA SendingStep ==
    ASSUME TypeOK, [Next]_vars, NEW i \in Jobs,
           paper'[i] # <<>> \/ (pc' = "sending" /\ inFlight' = i)
    PROVE  paper[i] # <<>> \/ (pc = "sending" /\ inFlight = i) \/ Selected(i)
  <1> USE DEF media
  <1>1. ASSUME NEW T, NEW U, NEW R, NEW n, Completed(T, U, R, n)
        PROVE  pc' # "sending"
    BY <1>1 DEF Completed, Loop
  <1>2. ASSUME NEW j \in Jobs, NEW e, NEW R, NEW n, Unexpected(j, e, R, n)
        PROVE  pc' # "sending"
    BY <1>2 DEF Unexpected, Loop
  <1>3. CASE NothingEligible
    BY <1>3 DEF NothingEligible, Loop
  <1>4. ASSUME NEW j \in Jobs, DropExpired(j) \/ DropUncached(j)
                               \/ Unlisted(j) \/ StartPrinting(j)
        PROVE  paper[i] # <<>> \/ (pc = "sending" /\ inFlight = i) \/ Selected(i)
    <2>1. CASE DropExpired(j) \/ DropUncached(j)
      BY <1>1, <1>2, <2>1 DEF DropExpired, DropUncached, Drop
    <2>2. CASE StartPrinting(j)
      BY <1>2, <2>2 DEF StartPrinting
    <2>3. CASE Unlisted(j)
      BY <2>3 DEF Unlisted, Loop
    <2>4. QED
      BY <1>4, <2>1, <2>2, <2>3
  <1>5. CASE Send
    <2>1. CASE ReachPaper
      BY <2>1 DEF ReachPaper, TypeOK
    <2>2. CASE NextChunk
      BY <2>2 DEF NextChunk
    <2>3. CASE LastChunkSent \/ SendFails
      BY <1>1, <2>3 DEF LastChunkSent, SendFails, Finish, Unsettle
    <2>4. CASE GiveUp \/ RetryLater
      <3>1. paper' = paper /\ inFlight \in Jobs
        BY <2>4 DEF GiveUp, RetryLater, Refused, TypeOK
      <3>2. pc' # "sending"
        BY <1>1, <1>2, <2>4, <3>1 DEF GiveUp, RetryLater, Loop
      <3>3. QED
        BY <3>1, <3>2
    <2>5. QED
      BY <1>5, <2>1, <2>2, <2>3, <2>4 DEF Send
  <1>6. CASE \/ HoldWakes \/ RescheduleWakes \/ ClockSync \/ ProbeFails \/ Tick
             \/ Stop \/ Exit
            \/ Crash \/ Startup \/ \E j \in Jobs : Accept(j) \/ Evict(j) \/ EvictFails(j)
    BY <1>6 DEF HoldWakes, RescheduleWakes, ClockSync, ProbeFails, Tick, Stop, Exit, Crash,
                ProcessGone, Startup, Start, CloseInDoubt, Accept, Evict, EvictFails, worker
  <1>7. CASE UNCHANGED vars
    BY <1>7 DEF vars, worker
  <1>8. QED
    BY <1>3, <1>4, <1>5, <1>6, <1>7 DEF Next, Handle

LEMMA DueStep ==
    ASSUME TypeOK, SentWhenDue, [Next]_vars
    PROVE  SentWhenDue'
  <1>1. SUFFICES ASSUME NEW j \in Jobs, NotBefore[j] # None,
                        paper'[j] # <<>> \/ (pc' = "sending" /\ inFlight' = j)
                 PROVE  now' >= NotBefore[j]
    BY DEF SentWhenDue
  <1>2. now >= NotBefore[j]
    BY <1>1, SendingStep, SelectedIsDue DEF SentWhenDue
  <1>3. NotBefore[j] \in Int
    BY <1>1, NotBeforeAssumption DEF Time
  <1>4. now \in Int /\ now' \in Int /\ now' >= now
    BY <1>1, TimeStep
  <1>5. QED
    BY <1>2, <1>3, <1>4

\* A scheduled job moves no paper before its not_before, whatever a boot's
\* clock shows and however often the process restarts.
THEOREM ScheduledJobsWait == Spec => []HeldUntilNotBefore
  <1>1. Init => SentWhenDue
    BY DEF Init, SentWhenDue
  <1>2. TypeOK /\ SentWhenDue /\ [Next]_vars => SentWhenDue'
    BY DueStep
  <1>3. SentWhenDue => HeldUntilNotBefore
    BY DEF SentWhenDue, HeldUntilNotBefore
  <1>4. QED
    BY <1>1, <1>2, <1>3, TypeCorrect, PTL DEF Spec
-----------------------------------------------------------------------------
(* Order.  A job without records is neither waiting nor set aside, so while *)
(* it is pending and not held, the selection stops at it or before it.      *)

FreshIsFree ==
    \A i \in Jobs : latest[i] = "none" => retryAfter[i] = None /\ i \notin unsettled

OrderInv == NoOvertaking /\ FreshIsFree

\* The first record or paper of a job comes from its selection.
LEMMA AttemptStep ==
    ASSUME TypeOK, PaperInv, [Next]_vars, NEW i \in Jobs, latest[i] = "none", ~Selected(i)
    PROVE  latest'[i] = "none" /\ paper'[i] = <<>>
  <1> USE DEF log, media
  <1>1. paper[i] = <<>>
    BY DEF PaperInv, NoPaperStatuses
  <1>2. pc = "sending" => inFlight \in Jobs /\ inFlight # i
    BY DEF PaperInv, SendingState, TypeOK
  <1>3. ASSUME NEW j \in Jobs, j # i, NEW e, Append1(j, e) \/ AppendFails(j, e)
        PROVE  latest'[i] = "none"
    BY <1>3 DEF TypeOK, Append1, AppendFails
  <1>4. ASSUME NEW j \in Jobs, j # i, NEW e, NEW R, NEW n, Unexpected(j, e, R, n)
        PROVE  latest'[i] = "none"
    BY <1>4 DEF TypeOK, Unexpected
  <1>5. ASSUME NEW j \in Jobs, DropExpired(j) \/ DropUncached(j)
                               \/ Unlisted(j) \/ StartPrinting(j)
        PROVE  latest'[i] = "none" /\ paper' = paper
    BY <1>3, <1>4, <1>5 DEF DropExpired, DropUncached, Unlisted, StartPrinting, Drop
  <1>6. CASE Send
    <2>1. CASE ReachPaper
      BY <1>1, <1>2, <2>1 DEF ReachPaper, TypeOK
    <2>2. CASE NextChunk
      BY <1>1, <2>2 DEF NextChunk
    <2>3. CASE LastChunkSent \/ SendFails
      BY <1>1, <1>2, <1>3, <2>3 DEF LastChunkSent, SendFails, Finish
    <2>4. CASE GiveUp \/ RetryLater
      BY <1>1, <1>2, <1>3, <1>4, <2>4 DEF GiveUp, RetryLater, Refused
    <2>5. QED
      BY <1>6, <2>1, <2>2, <2>3, <2>4 DEF Send
  <1>7. ASSUME NEW j \in Jobs, CloseInDoubt(j)
        PROVE  latest'[i] = "none" /\ paper' = paper
    BY <1>3, <1>7 DEF CloseInDoubt, InDoubt
  <1>8. CASE \/ HoldWakes \/ RescheduleWakes \/ ClockSync \/ ProbeFails \/ Tick
             \/ Stop \/ Exit
            \/ Crash \/ Start \/ NothingEligible \/ \E j \in Jobs : Accept(j)
            \/ Evict(j) \/ EvictFails(j)
    BY <1>1, <1>8 DEF HoldWakes, RescheduleWakes, ClockSync, ProbeFails, Tick, Stop,
        Exit, Crash,
                      ProcessGone, Start, NothingEligible, Accept, Evict, EvictFails
  <1>9. CASE UNCHANGED vars
    BY <1>1, <1>9 DEF vars
  <1>10. QED
    BY <1>1, <1>5, <1>6, <1>7, <1>8, <1>9 DEF Next, Handle, Startup

\* Records and terminal records are never taken back.
LEMMA RecordsStay ==
    ASSUME TypeOK, [Next]_vars, NEW i \in Jobs
    PROVE  /\ latest'[i] = "none" => latest[i] = "none"
           /\ i \in terminated => i \in terminated'
  <1> USE DEF log
  <1>1. ASSUME NEW j \in Jobs, NEW e \in Events, Append1(j, e) \/ AppendFails(j, e)
        PROVE  /\ latest'[i] = "none" => latest[i] = "none"
               /\ i \in terminated => i \in terminated'
    BY <1>1 DEF TypeOK, Append1, AppendFails, Events, Terminal
  <1>2. ASSUME NEW j \in Jobs, NEW e \in Events, NEW R, NEW n, Unexpected(j, e, R, n)
        PROVE  /\ latest'[i] = "none" => latest[i] = "none"
               /\ i \in terminated => i \in terminated'
    BY <1>2 DEF TypeOK, Unexpected, Events, Terminal
  <1>3. {"expired", "unknown_partial", "printing", "printed", "retry",
         "retry_timeout"} \subseteq Events
    BY DEF Events, Terminal
  <1>4. CASE \E j \in Jobs : DropExpired(j) \/ DropUncached(j)
                             \/ Unlisted(j) \/ StartPrinting(j)
    BY <1>1, <1>2, <1>3, <1>4 DEF DropExpired, DropUncached, Unlisted, StartPrinting, Drop
  <1>5. CASE Send
    <2>1. pc = "sending" => inFlight \in Jobs
      BY DEF TypeOK
    <2>2. CASE ReachPaper \/ NextChunk
      BY <2>2 DEF ReachPaper, NextChunk
    <2>3. CASE LastChunkSent \/ SendFails
      BY <1>1, <1>3, <2>1, <2>3 DEF LastChunkSent, SendFails, Finish
    <2>4. CASE GiveUp \/ RetryLater
      BY <1>1, <1>2, <1>3, <2>1, <2>4 DEF GiveUp, RetryLater, Refused
    <2>5. QED
      BY <1>5, <2>2, <2>3, <2>4 DEF Send
  <1>6. CASE \E j \in Jobs : CloseInDoubt(j)
    BY <1>1, <1>3, <1>6 DEF CloseInDoubt
  <1>7. CASE \/ HoldWakes \/ RescheduleWakes \/ ClockSync \/ ProbeFails \/ Tick
             \/ Stop \/ Exit
            \/ Crash \/ Start \/ NothingEligible \/ \E j \in Jobs : Accept(j)
            \/ Evict(j) \/ EvictFails(j)
    BY <1>7 DEF HoldWakes, RescheduleWakes, ClockSync, ProbeFails, Tick, Stop, Exit, Crash,
                ProcessGone, Start, NothingEligible, Accept, Evict, EvictFails
  <1>8. CASE UNCHANGED vars
    BY <1>8 DEF vars
  <1>9. QED
    BY <1>4, <1>5, <1>6, <1>7, <1>8 DEF Next, Handle, Startup
LEMMA FreshStep ==
    ASSUME TypeOK, PaperInv, FreshIsFree, [Next]_vars
    PROVE  FreshIsFree'
  <1> USE DEF worker
  <1>1. SUFFICES ASSUME NEW i \in Jobs, latest'[i] = "none"
                 PROVE  retryAfter'[i] = None /\ i \notin unsettled'
    BY DEF FreshIsFree
  <1>2. retryAfter[i] = None /\ i \notin unsettled /\ retryAfter \in [Jobs -> Time]
    BY <1>1, RecordsStay DEF FreshIsFree, TypeOK
  <1>3. pc = "sending" => inFlight \in Jobs /\ inFlight # i
    BY <1>1, RecordsStay DEF PaperInv, SendingState, TypeOK
  <1>4. ASSUME NEW C, NEW R \in [Jobs -> Time], R[i] = None
        PROVE  Swept(C, R)[i] = None
    BY <1>4 DEF Swept
  <1>5. ASSUME NEW R \in [Jobs -> Time], NEW j, R[i] = None
        PROVE  Forget(R, j) \in [Jobs -> Time] /\ Forget(R, j)[i] = None
    BY <1>5 DEF Forget, Time
  <1>6. ASSUME NEW T, NEW U, i \notin U, NEW R \in [Jobs -> Time], R[i] = None, NEW n,
               Completed(T, U, R, n)
        PROVE  retryAfter'[i] = None /\ i \notin unsettled'
    BY <1>4, <1>6 DEF Completed
  <1>7. ASSUME NEW j, NEW e, NEW R, R[i] = None, NEW n, Unexpected(j, e, R, n)
        PROVE  retryAfter'[i] = None /\ i \notin unsettled'
    BY <1>2, <1>7 DEF Unexpected
  <1>8. DEFINE S == Swept(Pool, retryAfter)
  <1>9. S \in [Jobs -> Time] /\ S[i] = None
    BY <1>2, <1>4, SweptType
  <1> HIDE DEF S
  <1>10. CASE \E j \in Jobs : DropExpired(j) \/ DropUncached(j)
                              \/ Unlisted(j) \/ StartPrinting(j)
    <2>1. PICK j \in Jobs : DropExpired(j) \/ DropUncached(j)
                            \/ Unlisted(j) \/ StartPrinting(j)
      BY <1>10
    <2>2. CASE \E e \in Events : Drop(j, e)
      BY <1>2, <1>5, <1>6, <1>7, <1>9, <2>2 DEF Drop, S
    <2>3. CASE StartPrinting(j)
      BY <1>2, <1>7, <1>9, <2>3 DEF StartPrinting, S
    <2>4. CASE Unlisted(j)
      BY <1>2, <1>9, <2>4 DEF Unlisted, S
    <2>5. QED
      BY <2>1, <2>2, <2>3, <2>4 DEF DropExpired, DropUncached, Events, Terminal
  <1>11. CASE Send
    <2>1. CASE ReachPaper \/ NextChunk
      BY <1>2, <2>1 DEF ReachPaper, NextChunk
    <2>2. CASE LastChunkSent \/ SendFails
      <3>1. PICK e \in Events : Finish(inFlight, e)
        BY <2>2 DEF LastChunkSent, SendFails, Events, Terminal
      <3>2. i \notin unsettled \cup {inFlight}
        BY <1>2, <1>3, <2>2 DEF LastChunkSent, SendFails
      <3>3. QED
        BY <1>2, <1>5, <1>6, <3>1, <3>2 DEF Finish, Unsettle
    <2>3. CASE GiveUp
      BY <1>2, <1>5, <1>6, <1>7, <2>3 DEF GiveUp
    <2>4. CASE RetryLater
      <3>1. inFlight # i /\ inFlight \in Jobs
        BY <1>3, <2>4 DEF RetryLater, Refused
      <3>2. QED
        BY <1>2, <1>7, <2>4, <3>1 DEF RetryLater
    <2>5. QED
      BY <1>11, <2>1, <2>2, <2>3, <2>4 DEF Send
  <1>12. CASE NothingEligible
    BY <1>2, <1>9, <1>12 DEF NothingEligible, S
  <1>13. CASE Exit \/ Crash
    BY <1>13 DEF Exit, Crash, ProcessGone, NoTimes
  <1>14. CASE \/ HoldWakes \/ RescheduleWakes \/ ClockSync \/ ProbeFails \/ Tick
              \/ Stop \/ Startup
             \/ \E j \in Jobs : Accept(j) \/ Evict(j) \/ EvictFails(j)
    BY <1>2, <1>14 DEF HoldWakes, RescheduleWakes, ClockSync, ProbeFails, Tick, Stop,
        Startup, Start,
                       CloseInDoubt, Accept, Evict, EvictFails
  <1>15. CASE UNCHANGED vars
    BY <1>2, <1>15 DEF vars
  <1>16. QED
    BY <1>10, <1>11, <1>12, <1>13, <1>14, <1>15 DEF Next, Handle

\* Only an acceptance extends the order, and it puts the new job last.
LEMMA BeforeStep ==
    ASSUME TypeOK, [Next]_vars, NEW i \in Jobs, NEW j \in Jobs, Before(i, j)'
    PROVE  i \in Accepted /\ (Before(i, j) \/ j \notin Accepted)
  <1>1. CASE arrival' = arrival
    <2>1. Before(i, j)
      BY <1>1 DEF Before
    <2>2. QED
      BY <2>1 DEF Before, Accepted, Range
  <1>2. ASSUME NEW k \in Jobs, Accept(k)
        PROVE  i \in Accepted /\ (Before(i, j) \/ j \notin Accepted)
    <2>1. arrival \in Seq(Jobs) /\ arrival' = Append(arrival, k) /\ k \notin Accepted
      BY <1>2 DEF Accept, TypeOK
    <2>2. PICK a, b \in DOMAIN arrival' : a < b /\ arrival'[a] = i /\ arrival'[b] = j
      BY DEF Before
    <2>3. a \in DOMAIN arrival /\ arrival[a] = i
      BY <2>1, <2>2
    <2>4. (b \in DOMAIN arrival /\ arrival[b] = j) \/ j = k
      BY <2>1, <2>2
    <2>5. QED
      BY <2>1, <2>2, <2>3, <2>4 DEF Before, Accepted, Range
  <1>3. CASE ~\E k \in Jobs : Accept(k)
    <2> USE DEF log
    <2>1. CASE Handle
      BY <1>1, <2>1 DEF Handle, NothingEligible, DropExpired, DropUncached, Drop,
                        Unlisted, StartPrinting, Append1, Unexpected
    <2>2. CASE Send
      BY <1>1, <2>2 DEF Send, ReachPaper, NextChunk, LastChunkSent, SendFails, Finish,
                        GiveUp, RetryLater, Append1, AppendFails, Unexpected
    <2>3. CASE \/ HoldWakes \/ RescheduleWakes \/ ClockSync \/ ProbeFails \/ Tick
               \/ Stop \/ Exit
              \/ Crash \/ Startup \/ \E k \in Jobs : Evict(k) \/ EvictFails(k)
      BY <1>1, <2>3 DEF HoldWakes, RescheduleWakes, ClockSync, ProbeFails, Tick, Stop,
          Exit, Crash,
                        ProcessGone, Startup, Start, CloseInDoubt, Append1, Evict,
                        EvictFails
    <2>4. CASE UNCHANGED vars
      BY <1>1, <2>4 DEF vars
    <2>5. QED
      BY <1>3, <2>1, <2>2, <2>3, <2>4 DEF Next
  <1>4. QED
    BY <1>2, <1>3

\* A job that is selected overtakes no fresh job that is not held.
LEMMA SelectedIsFirst ==
    ASSUME OrderInv, NEW i \in Jobs, NEW j \in Jobs, Before(i, j), i \in Accepted,
           NotBefore[i] = None, latest[i] = "none", i \notin terminated
    PROVE  ~Selected(j)
  <1>1. i \in Eligible(Pool, retryAfter)
    BY DEF OrderInv, FreshIsFree, Eligible, Pool, Candidates, Waiting, Held
  <1>2. QED
    BY <1>1 DEF Selected, First

LEMMA OrderStep ==
    ASSUME TypeOK, PaperInv, OrderInv, [Next]_vars
    PROVE  OrderInv'
  <1>1. FreshIsFree'
    BY FreshStep DEF OrderInv
  <1>2. SUFFICES ASSUME NEW i \in Jobs, NEW j \in Jobs, Before(i, j)',
                        NotBefore[i] = None, latest'[i] = "none", i \notin terminated'
                 PROVE  latest'[j] = "none" /\ paper'[j] = <<>>
    BY <1>1 DEF OrderInv, NoOvertaking
  <1>3. i \in Accepted /\ latest[i] = "none" /\ i \notin terminated
    BY <1>2, BeforeStep, RecordsStay
  <1>4. latest[j] = "none" /\ ~Selected(j)
    <2>1. CASE j \notin Accepted
      BY <2>1 DEF PaperInv, Untouched, Selected, First, Eligible, Pool, Candidates
    <2>2. CASE Before(i, j)
      BY <1>2, <1>3, <2>2, SelectedIsFirst DEF OrderInv, NoOvertaking
    <2>3. QED
      BY <1>2, <2>1, <2>2, BeforeStep
  <1>5. QED
    BY <1>4, AttemptStep

\* First come, first attempted, whatever crashes, restarts and faults happen.
THEOREM JobsKeepTheirOrder == Spec => []NoOvertaking
  <1>1. Init => OrderInv
    BY DEF Init, OrderInv, NoOvertaking, FreshIsFree, NoTimes
  <1>2. TypeInv /\ PaperInv /\ OrderInv /\ [Next]_vars => OrderInv'
    BY OrderStep DEF TypeInv
  <1>3. OrderInv => NoOvertaking
    BY DEF OrderInv
  <1>4. QED
    BY <1>1, <1>2, <1>3, PaperInvariant, PTL DEF Spec

-----------------------------------------------------------------------------
(* Wake-ups.  While nothing has failed, a process sets nothing aside, and   *)
(* each way of going to sleep with work left leaves a token or a timer.     *)

Calm == faults = 0 /\ unsettled = {} /\ orphans = {} /\ NoLostWakeup
WakeInv == faults = 0 => Calm

\* A scan that finds pending jobs, none of them eligible, sets the hold timer.
LEMMA HoldIsSet ==
    ASSUME TypeOK, NEW C \in SUBSET Jobs, NEW R \in [Jobs -> Time],
           Eligible(C, R) = {}, C # {}, ~stopping, NEW h \in HoldDue(C, R)
    PROVE  h # None
  <1>1. PICK j \in C : h = now + Delay(j, R)
    BY DEF HoldDue, Soonest
  <1>2. Delay(j, R) \in Int
    BY DelayType
  <1>3. now \in Int
    BY BoundAssumption DEF TypeOK
  <1>4. QED
    BY <1>1, <1>2, <1>3, NoneAssumption

\* A completed job leaves a token, a timer or no work.
LEMMA CompletedWakes ==
    ASSUME TypeOK, NEW R \in [Jobs -> Time], NEW tokens \in Nat,
           unsettled = {}, Completed(terminated', unsettled, R, tokens),
           arrival' = arrival
    PROVE  unsettled' = {} /\ orphans' = orphans /\ NoLostWakeup'
  <1> DEFINE C == Candidates(terminated', unsettled)
  <1>1. C = Owed'
    BY DEF Candidates, Owed, Accepted, Range
  <1>2. C \in SUBSET Jobs
    BY AcceptedJobs DEF Candidates
  <1>3. unsettled' = {} /\ orphans' = orphans /\ stopping' = stopping
    BY DEF Completed
  <1>4. CASE Eligible(C, R) # {}
    BY <1>3, <1>4 DEF Completed, NoLostWakeup
  <1>5. CASE Eligible(C, R) = {} /\ C # {} /\ ~stopping
    <2>1. hold' \in HoldDue(C, R)
      BY <1>5 DEF Completed
    <2>2. hold' # None
      BY <1>2, <1>5, <2>1, HoldIsSet
    <2>3. QED
      BY <1>3, <2>2 DEF NoLostWakeup
  <1>6. CASE C = {} \/ stopping
    BY <1>1, <1>3, <1>6 DEF NoLostWakeup, Owed
  <1>7. QED
    BY <1>3, <1>4, <1>5, <1>6

\* The worker's own steps, when no append fails.
LEMMA HandleWakes ==
    ASSUME faults' = 0, TypeOK, Calm, Handle
    PROVE  Calm'
  <1>1. Pool = Owed /\ Pool \in SUBSET Jobs
    BY AcceptedJobs DEF Calm, Pool, Candidates, Owed
  <1>2. CASE NothingEligible
    <2>1. /\ Owed' = Owed /\ stopping' = stopping
          /\ unsettled' = {} /\ orphans' = {} /\ faults' = 0
      BY <1>2 DEF NothingEligible, log, Calm, Owed, Accepted, Range
    <2>2. CASE Owed = {} \/ stopping
      BY <2>1, <2>2 DEF Calm, NoLostWakeup, Owed
    <2>3. CASE Owed # {} /\ ~stopping
      <3>1. hold' # None
        BY <1>1, <1>2, <2>3, HoldIsSet DEF NothingEligible, TypeOK
      <3>2. QED
        BY <2>1, <3>1 DEF Calm, NoLostWakeup
    <2>4. QED
      BY <2>1, <2>2, <2>3
  <1>3. ASSUME NEW j \in Jobs, NEW e \in Terminal, Selected(j), Drop(j, e)
        PROVE  Calm'
    <2>1. q - 1 \in Nat
      BY <1>3 DEF Selected, Woken, TypeOK
    <2>2. Forget(Swept(Pool, retryAfter), j) \in [Jobs -> Time]
      BY ForgetType, SweptType DEF TypeOK
    <2>3. ~Unexpected(j, e, Swept(Pool, retryAfter), q - 1)
      BY DEF Unexpected, Calm
    <2>4. /\ Append1(j, e) /\ faults' = faults
          /\ Completed(terminated', unsettled,
                       Forget(Swept(Pool, retryAfter), j), q - 1)
      BY <1>3, <2>3 DEF Drop
    <2>5. unsettled' = {} /\ orphans' = orphans /\ NoLostWakeup'
      BY <2>1, <2>2, <2>4, CompletedWakes DEF Calm, Append1
    <2>6. QED
      BY <2>4, <2>5 DEF Calm
  <1>4. ASSUME NEW j \in Jobs, StartPrinting(j)
        PROVE  Calm'
    <2>1. ~Unexpected(j, "printing", Swept(Pool, retryAfter), q - 1)
      BY DEF Unexpected, Calm
    <2>2. pc' = "sending" /\ unsettled' = unsettled /\ faults' = faults /\ orphans' = orphans
      BY <1>4, <2>1 DEF StartPrinting
    <2>3. QED
      BY <2>2 DEF Calm, NoLostWakeup
  <1>5. ASSUME NEW j \in Jobs, DropExpired(j)
        PROVE  Calm'
    BY <1>3, <1>5 DEF DropExpired, Terminal
  <1>6. ASSUME NEW j \in Jobs, DropUncached(j)
        PROVE  Calm'
    BY <1>3, <1>6 DEF DropUncached, Terminal
  <1>7. ~\E j \in Jobs : Unlisted(j)
    BY DEF Unlisted, Calm
  <1>8. QED
    BY <1>2, <1>4, <1>5, <1>6, <1>7 DEF Handle

LEMMA SendWakes ==
    ASSUME faults' = 0, TypeOK, Calm, Send
    PROVE  Calm'
  <1>1. CASE ReachPaper \/ NextChunk
    BY <1>1 DEF ReachPaper, NextChunk, Calm, NoLostWakeup, world
  <1>2. ASSUME NEW j \in Jobs, NEW e \in Terminal, Finish(j, e)
        PROVE  Calm'
    <2>1. ~AppendFails(j, e)
      BY DEF AppendFails, Calm
    <2>2. /\ Append1(j, e) /\ faults' = faults
          /\ Completed(terminated', unsettled, Forget(retryAfter, j), q)
      BY <1>2, <2>1 DEF Finish
    <2>3. Forget(retryAfter, j) \in [Jobs -> Time] /\ q \in Nat
      BY ForgetType DEF TypeOK
    <2>4. unsettled' = {} /\ orphans' = orphans /\ NoLostWakeup'
      BY <2>2, <2>3, CompletedWakes DEF Calm, Append1
    <2>5. QED
      BY <2>2, <2>4 DEF Calm
  <1>3. CASE LastChunkSent
    BY <1>2, <1>3 DEF LastChunkSent, Terminal, TypeOK
  <1>4. CASE SendFails
    BY <1>2, <1>4 DEF SendFails, Terminal, TypeOK
  <1>5. CASE GiveUp
    <2>1. inFlight \in Jobs
      BY <1>5 DEF GiveUp, Refused, TypeOK
    <2>2. ~Unexpected(inFlight, "retry_timeout", retryAfter, q)
      BY DEF Unexpected, Calm
    <2>3. /\ Append1(inFlight, "retry_timeout") /\ faults' = faults
          /\ Completed(terminated', unsettled, Forget(retryAfter, inFlight), q)
      BY <1>5, <2>2 DEF GiveUp
    <2>4. Forget(retryAfter, inFlight) \in [Jobs -> Time] /\ q \in Nat
      BY <2>1, ForgetType DEF TypeOK
    <2>5. unsettled' = {} /\ orphans' = orphans /\ NoLostWakeup'
      BY <2>3, <2>4, CompletedWakes DEF Calm, Append1
    <2>6. QED
      BY <2>3, <2>5 DEF Calm
  <1>6. CASE RetryLater
    <2>1. ~Unexpected(inFlight, "retry", retryAfter, q)
      BY DEF Unexpected, Calm
    <2>2. /\ naps' = [naps EXCEPT ![now + RetryInterval] = @ + 1]
          /\ unsettled' = unsettled /\ orphans' = orphans /\ faults' = faults
      BY <1>6, <2>1 DEF RetryLater
    <2>3. now + RetryInterval \in Ticks /\ naps \in [Ticks -> Nat]
      BY BoundAssumption, IntervalAssumption DEF TypeOK, Ticks
    <2>4. naps'[now + RetryInterval] > 0
      BY <2>2, <2>3
    <2>5. QED
      BY <2>2, <2>3, <2>4 DEF Calm, NoLostWakeup
  <1>7. QED
    BY <1>1, <1>3, <1>4, <1>5, <1>6 DEF Send

\* Startup gives a token to each job that is owed.
LEMMA StartWakes ==
    ASSUME TypeOK, Calm, Start
    PROVE  Calm'
  <1>1. faults' = 0 /\ unsettled' = {} /\ orphans' = {} /\ Owed' = Owed
    BY DEF Start, Calm, world, log, Owed, Accepted, Range
  <1>2. IsFiniteSet(Owed)
    BY AcceptedJobs, FS_Subset, FS_Difference DEF Owed
  <1>3. Owed # {} => Cardinality(Owed) > 0
    BY <1>2, FS_EmptySet, FS_CardinalityType
  <1>4. q' = Cardinality(Owed)
    BY DEF Start, Owed
  <1>5. Owed # {} => q' > 0
    BY <1>3, <1>4
  <1>6. QED
    BY <1>1, <1>5 DEF Calm, NoLostWakeup, Owed

\* What has failed stays counted.
LEMMA FaultsStay ==
    ASSUME TypeOK, [Next]_vars, faults' = 0
    PROVE  faults = 0
  <1>1. faults \in Nat
    BY BoundAssumption DEF TypeOK
  <1>2. SUFFICES ASSUME faults' # faults PROVE faults' = faults + 1
    BY <1>1
  <1> USE DEF world
  <1>3. CASE Handle
    BY <1>2, <1>3 DEF Handle, NothingEligible, DropExpired, DropUncached, Drop, Unlisted,
                      StartPrinting, Unexpected
  <1>4. CASE Send
    BY <1>2, <1>4 DEF Send, ReachPaper, NextChunk, LastChunkSent, SendFails, Finish,
                      AppendFails, GiveUp, RetryLater, Unexpected
  <1>5. CASE \/ HoldWakes \/ RescheduleWakes \/ ClockSync \/ ProbeFails \/ Tick
             \/ Stop \/ Exit
            \/ Crash \/ Startup
    BY <1>2, <1>5 DEF HoldWakes, RescheduleWakes, ClockSync, ProbeFails, Tick, Stop,
        Exit, Crash,
                      ProcessGone, Startup, Start, CloseInDoubt
  <1>6. CASE \E j \in Jobs : Accept(j) \/ Evict(j) \/ EvictFails(j)
    BY <1>2, <1>6 DEF Accept, Evict, EvictFails
  <1>7. QED
    BY <1>2, <1>3, <1>4, <1>5, <1>6 DEF Next, vars

LEMMA CalmStep ==
    ASSUME faults' = 0, TypeOK, Calm, [Next]_vars
    PROVE  Calm'
  <1>1. CASE UNCHANGED vars
    BY <1>1 DEF Calm, NoLostWakeup, vars, log, worker, Accepted, Range
  <1>2. CASE Handle
    BY <1>2, HandleWakes DEF Calm
  <1>3. CASE Send
    BY <1>3, SendWakes DEF Calm
  <1>4. CASE Start
    BY <1>4, StartWakes DEF Calm
  <1>5. CASE HoldWakes \/ RescheduleWakes
    <2>1. stopping' = stopping /\ (stopping \/ q' = q + 1)
      BY <1>5 DEF HoldWakes, RescheduleWakes
    <2>2. stopping \/ q' > 0
      BY <2>1 DEF TypeOK
    <2>3. faults' = faults /\ unsettled' = unsettled /\ orphans' = orphans
      BY <1>5 DEF HoldWakes, RescheduleWakes
    <2>4. QED
      BY <2>1, <2>2, <2>3 DEF Calm, NoLostWakeup
  <1>6. ASSUME NEW j \in Jobs, Accept(j) PROVE Calm'
    <2>1. q' = q + 1 /\ faults' = faults /\ unsettled' = unsettled /\ orphans' = orphans
      BY <1>6 DEF Accept, Calm
    <2>2. q' > 0
      BY <2>1 DEF TypeOK
    <2>3. QED
      BY <2>1, <2>2 DEF Calm, NoLostWakeup
  <1>7. CASE Stop \/ Exit \/ Crash
    BY <1>7 DEF Stop, Exit, Crash, ProcessGone, Calm, NoLostWakeup
  <1>8. ASSUME NEW j \in Jobs, CloseInDoubt(j) PROVE Calm'
    BY <1>8 DEF CloseInDoubt, worker, Calm, NoLostWakeup
  <1>9. CASE Tick \/ ClockSync \/ ProbeFails \/ \E j \in Jobs : Evict(j) \/ EvictFails(j)
    BY <1>9 DEF Tick, ClockSync, ProbeFails, Evict, EvictFails, log, worker, world,
        Calm, NoLostWakeup,
                Accepted, Range
  <1>10. QED
    BY <1>1, <1>2, <1>3, <1>4, <1>5, <1>6, <1>7, <1>8, <1>9 DEF Next, Startup

LEMMA WakeStep ==
    ASSUME TypeOK, WakeInv, [Next]_vars
    PROVE  WakeInv'
  <1>1. SUFFICES ASSUME faults' = 0 PROVE Calm'
    BY DEF WakeInv
  <1>2. Calm
    BY <1>1, FaultsStay DEF WakeInv
  <1>3. QED
    BY <1>1, <1>2, CalmStep

\* While neither the log nor the cache has failed, the worker never goes to sleep
\* on pending work: not after a job, an idle scan, a refusal, a start or a clock
\* change.
THEOREM WorkIsNeverSleptOver == Spec => []NoLostWakeup
  <1>1. Init => WakeInv
    BY DEF Init, WakeInv, Calm, NoLostWakeup
  <1>2. TypeOK /\ WakeInv /\ [Next]_vars => WakeInv'
    BY WakeStep
  <1>3. WakeInv => NoLostWakeup
    BY DEF WakeInv, Calm, NoLostWakeup
  <1>4. QED
    BY <1>1, <1>2, <1>3, TypeCorrect, PTL DEF Spec

-----------------------------------------------------------------------------
(* The retry ceiling.  The age of a job is counted from _first_seen, which  *)
(* a restart loses and recomputes: it is never set to a time before the job *)
(* was accepted and printable.  The Pi's clock is right here: with one that *)
(* jumps at a sync, the age it computes is not the time that passed.        *)

Ripe(i, t) ==
    /\ bornAt[i] \in Int /\ t >= bornAt[i]
    /\ NotBefore[i] # None => t >= NotBefore[i]
BirthKnown ==
    \A i \in Accepted :
        bornAt[i] \in Int /\ bornAt[i] <= now /\ acceptedAt[i] = bornAt[i]
CountedFromRipe ==
    \A i \in Jobs : firstSeen[i] # None => i \in Accepted /\ Ripe(i, firstSeen[i])
GivenUpLate ==
    \A i \in Jobs : latest[i] = "retry_timeout" =>
        i \in Accepted /\ Ripe(i, now - MaxRetryAge - 1)

AgeInv == /\ skew = 0 /\ SentWhenDue /\ BirthKnown
          /\ CountedFromRipe /\ GivenUpLate

LEMMA MaxOfTwo ==
    ASSUME NEW m \in Int, NEW n \in Int
    PROVE  LET x == Max({m, n}) IN x \in {m, n} /\ x >= m /\ x >= n
  BY SMTT(20) DEF Max

\* A time at which a job exists and is printable stays one.
LEMMA RipeLater ==
    ASSUME NEW i \in Jobs, NEW t \in Int, NEW u \in Int, Ripe(i, t), u >= t
    PROVE  Ripe(i, u)
  BY NotBeforeAssumption DEF Ripe, Time

LEMMA AnchorIsRipe ==
    ASSUME NEW i \in Jobs, NEW ts \in Int, bornAt[i] \in Int, ts >= bornAt[i]
    PROVE  Ripe(i, Anchor(i, ts))
  <1>1. CASE NotBefore[i] = None
    BY <1>1 DEF Ripe, Anchor
  <1>2. CASE NotBefore[i] # None
    <2>1. NotBefore[i] \in Int
      BY <1>2, NotBeforeAssumption DEF Time
    <2>2. /\ Anchor(i, ts) \in Int
          /\ Anchor(i, ts) >= ts /\ Anchor(i, ts) >= NotBefore[i]
      BY <1>2, <2>1, MaxOfTwo DEF Anchor
    <2>3. QED
      BY <2>1, <2>2 DEF Ripe
  <1>3. QED
    BY <1>1, <1>2

\* What may happen to the birth of the jobs and to the clock's error.
LEMMA BirthFrame ==
    ASSUME [Next]_vars
    PROVE  /\ skew' = skew \/ skew' = 0 \/ skew' \in Skews
           /\ \/ \E j \in Jobs : Accept(j)
              \/ bornAt' = bornAt /\ arrival' = arrival /\ acceptedAt' = acceptedAt
  <1> USE DEF world, clock
  <1>1. CASE UNCHANGED vars
    BY <1>1 DEF vars, log
  <1>2. CASE Handle \/ Send
    <2>1. skew' = skew /\ bornAt' = bornAt
      BY <1>2 DEF Handle, NothingEligible, DropExpired, DropUncached, Drop,
                  Unlisted, StartPrinting, Send, ReachPaper, NextChunk, LastChunkSent,
                  SendFails, Finish, GiveUp, RetryLater
    <2>2. (\E j \in Jobs : Accept(j)) \/ (arrival' = arrival /\ acceptedAt' = acceptedAt)
      BY <1>2, AcceptedFrame DEF Next
    <2>3. QED
      BY <2>1, <2>2
  <1>3. CASE \/ HoldWakes \/ RescheduleWakes \/ ClockSync \/ ProbeFails \/ Tick
             \/ Stop \/ Exit
            \/ Crash \/ Startup \/ \E j \in Jobs : Evict(j) \/ EvictFails(j)
    BY <1>3 DEF HoldWakes, RescheduleWakes, ClockSync, ProbeFails, Tick, Stop, Exit, Crash,
                Startup, ProcessGone, Start, CloseInDoubt, Append1, Evict, EvictFails, log
  <1>4. CASE \E j \in Jobs : Accept(j)
    BY <1>4 DEF Accept
  <1>5. QED
    BY <1>1, <1>2, <1>3, <1>4 DEF Next

\* The four ways a job comes to have the age it has.
LEMMA FirstSeenStep ==
    ASSUME TypeOK, [Next]_vars, NEW i \in Jobs, firstSeen'[i] # None
    PROVE  \/ firstSeen'[i] = firstSeen[i]
           \/ Accept(i) /\ firstSeen'[i] = Anchor(i, Wall)
           \/ i \in Accepted /\ firstSeen'[i] = Anchor(i, acceptedAt[i])
           \/ pc = "sending" /\ inFlight = i /\ firstSeen'[i] = Wall
  <1> USE DEF worker
  <1>1. firstSeen \in [Jobs -> Time]
    BY DEF TypeOK
  <1>2. CASE Handle
    BY <1>2 DEF Handle, NothingEligible, DropExpired, DropUncached, Drop,
                Unlisted, StartPrinting
  <1>3. CASE Send
    <2>1. CASE ReachPaper \/ NextChunk
      BY <2>1 DEF ReachPaper, NextChunk
    <2>2. CASE LastChunkSent \/ SendFails
      BY <1>1, <2>2 DEF LastChunkSent, SendFails, Finish, Unsettle, Forget
    <2>3. CASE GiveUp \/ RetryLater
      BY <1>1, <2>3 DEF GiveUp, RetryLater, Refused, FirstSeen, Forget
    <2>4. QED
      BY <1>3, <2>1, <2>2, <2>3 DEF Send
  <1>4. CASE \E j \in Jobs : Accept(j)
    BY <1>1, <1>4 DEF Accept
  <1>5. CASE Start
    BY <1>5 DEF Start
  <1>6. CASE Exit \/ Crash
    BY <1>6 DEF Exit, Crash, ProcessGone, NoTimes
  <1>7. CASE \/ HoldWakes \/ RescheduleWakes \/ ClockSync \/ ProbeFails \/ Tick \/ Stop
            \/ \E j \in Jobs : CloseInDoubt(j) \/ Evict(j) \/ EvictFails(j)
    BY <1>7 DEF HoldWakes, RescheduleWakes, ClockSync, ProbeFails, Tick, Stop,
        CloseInDoubt, Evict, EvictFails
  <1>8. CASE UNCHANGED vars
    BY <1>8 DEF vars
  <1>9. QED
    BY <1>2, <1>3, <1>4, <1>5, <1>6, <1>7, <1>8 DEF Next, Startup

\* Only a job that is too old gets "retry_timeout".
LEMMA TimeoutRecord ==
    ASSUME TypeOK, [Next]_vars, NEW i \in Jobs, latest'[i] = "retry_timeout"
    PROVE  \/ latest[i] = "retry_timeout"
           \/ pc = "sending" /\ inFlight = i /\ TooOld(i)
  <1> USE DEF log
  <1>1. ASSUME NEW j \in Jobs, NEW e \in Events, Append1(j, e) \/ AppendFails(j, e)
        PROVE  latest[i] = "retry_timeout" \/ (i = j /\ e = "retry_timeout")
    BY <1>1 DEF TypeOK, Append1, AppendFails
  <1>2. ASSUME NEW j \in Jobs, NEW e \in Events, NEW R, NEW n, Unexpected(j, e, R, n)
        PROVE  latest[i] = "retry_timeout" \/ (i = j /\ e = "retry_timeout")
    BY <1>2 DEF TypeOK, Unexpected
  <1>3. CASE \E j \in Jobs : DropExpired(j) \/ DropUncached(j)
                             \/ Unlisted(j) \/ StartPrinting(j)
    BY <1>1, <1>2, <1>3
    DEF DropExpired, DropUncached, Unlisted, StartPrinting, Drop, Events, Terminal
  <1>4. CASE Send
    <2>1. pc = "sending" => inFlight \in Jobs
      BY DEF TypeOK
    <2>2. CASE ReachPaper \/ NextChunk
      BY <2>2 DEF ReachPaper, NextChunk
    <2>3. CASE LastChunkSent \/ SendFails
      BY <1>1, <2>1, <2>3 DEF LastChunkSent, SendFails, Finish, Events, Terminal
    <2>4. CASE GiveUp \/ RetryLater
      BY <1>1, <1>2, <2>1, <2>4 DEF GiveUp, RetryLater, Refused, Events, Terminal
    <2>5. QED
      BY <1>4, <2>2, <2>3, <2>4 DEF Send
  <1>5. CASE \E j \in Jobs : CloseInDoubt(j)
    BY <1>1, <1>5 DEF CloseInDoubt, Events, Terminal
  <1>6. CASE \/ HoldWakes \/ RescheduleWakes \/ ClockSync \/ ProbeFails \/ Tick
             \/ Stop \/ Exit
            \/ Crash \/ Start \/ NothingEligible \/ \E j \in Jobs : Accept(j)
            \/ Evict(j) \/ EvictFails(j)
    BY <1>6 DEF HoldWakes, RescheduleWakes, ClockSync, ProbeFails, Tick, Stop, Exit, Crash,
                ProcessGone, Start, NothingEligible, Accept, Evict, EvictFails
  <1>7. CASE UNCHANGED vars
    BY <1>7 DEF vars
  <1>8. QED
    BY <1>3, <1>4, <1>5, <1>6, <1>7 DEF Next, Handle, Startup

\* An acceptance records the birth of the job it accepts.
LEMMA AcceptBirth ==
    ASSUME TypeOK, skew = 0, NEW j \in Jobs, Accept(j)
    PROVE  /\ Accepted' = Accepted \cup {j} /\ j \notin Accepted
           /\ acceptedAt' = [acceptedAt EXCEPT ![j] = now]
           /\ bornAt' = [bornAt EXCEPT ![j] = now]
  <1>1. arrival \in Seq(Jobs) /\ arrival' = Append(arrival, j)
    BY DEF Accept, TypeOK
  <1>2. Accepted' = Accepted \cup {j}
    BY <1>1 DEF Accepted, Range
  <1>3. Wall = now
    BY BoundAssumption DEF TypeOK, Wall
  <1>4. j \notin Accepted
    BY DEF Accept
  <1>5. acceptedAt' = [acceptedAt EXCEPT ![j] = now]
    BY <1>3 DEF Accept
  <1>6. bornAt' = [bornAt EXCEPT ![j] = now]
    BY DEF Accept
  <1>7. QED
    BY <1>2, <1>4, <1>5, <1>6

\* The birth of an accepted job is recorded once, with the time it happened.
LEMMA BirthStep ==
    ASSUME TypeOK, AgeInv, [Next]_vars
    PROVE  /\ BirthKnown'
           /\ \A i \in Accepted : i \in Accepted' /\ bornAt'[i] = bornAt[i]
  <1>1. now \in Int /\ now' \in Int /\ now' >= now
    BY TimeStep
  <1>2. CASE bornAt' = bornAt /\ arrival' = arrival /\ acceptedAt' = acceptedAt
    <2>1. Accepted' = Accepted
      BY <1>2 DEF Accepted, Range
    <2>2. QED
      BY <1>1, <1>2, <2>1 DEF AgeInv, BirthKnown
  <1>3. CASE \E j \in Jobs : Accept(j)
    <2>1. PICK j \in Jobs : Accept(j)
      BY <1>3
    <2>2. /\ Accepted' = Accepted \cup {j} /\ j \notin Accepted
          /\ acceptedAt' = [acceptedAt EXCEPT ![j] = now]
          /\ bornAt' = [bornAt EXCEPT ![j] = now]
      BY <2>1, AcceptBirth DEF AgeInv
    <2>3. acceptedAt \in [Jobs -> Time] /\ bornAt \in [Jobs -> Time]
      BY DEF TypeOK
    <2>4. Accepted \in SUBSET Jobs
      BY AcceptedJobs
    <2>5. QED
      BY <1>1, <2>2, <2>3, <2>4 DEF AgeInv, BirthKnown
  <1>4. QED
    BY <1>2, <1>3, BirthFrame

LEMMA AgeStep ==
    ASSUME Skews \subseteq {0}, TypeOK, SendingState, AgeInv, [Next]_vars
    PROVE  AgeInv'
  <1>1. now \in Int /\ now' \in Int /\ now' >= now /\ Wall = now
    <2>1. now \in Int /\ now' \in Int /\ now' >= now
      BY TimeStep
    <2>2. QED
      BY <2>1 DEF AgeInv, Wall
  <1>2. skew' = 0
    BY BirthFrame DEF AgeInv
  <1>3. SentWhenDue'
    BY DueStep DEF AgeInv
  <1>4. BirthKnown'
    BY BirthStep
  <1>5. ASSUME NEW i \in Accepted, NEW t, Ripe(i, t)
        PROVE  i \in Accepted' /\ Ripe(i, t)'
    BY <1>5, BirthStep DEF Ripe
  <1>6. ASSUME pc = "sending"
        PROVE  inFlight \in Accepted /\ Ripe(inFlight, now)
    <2>1. inFlight \in Accepted /\ inFlight \in Jobs
      BY <1>6 DEF SendingState, TypeOK
    <2>2. NotBefore[inFlight] # None => now >= NotBefore[inFlight]
      BY <1>6, <2>1 DEF AgeInv, SentWhenDue
    <2>3. bornAt[inFlight] \in Int /\ now >= bornAt[inFlight]
      BY <1>1, <2>1 DEF AgeInv, BirthKnown
    <2>4. QED
      BY <2>1, <2>2, <2>3 DEF Ripe
  <1>7. CountedFromRipe'
    <2>1. SUFFICES ASSUME NEW i \in Jobs, firstSeen'[i] # None
                   PROVE  i \in Accepted' /\ Ripe(i, firstSeen[i])'
      BY DEF CountedFromRipe
    <2>2. CASE firstSeen'[i] = firstSeen[i]
      <3>1. i \in Accepted /\ Ripe(i, firstSeen[i])
        BY <2>1, <2>2 DEF AgeInv, CountedFromRipe
      <3>2. QED
        BY <1>5, <2>2, <3>1 DEF Ripe
    <2>3. CASE Accept(i) /\ firstSeen'[i] = Anchor(i, Wall)
      <3>1. i \in Accepted' /\ bornAt'[i] = now
        BY <2>3, AcceptBirth DEF AgeInv, TypeOK
      <3>2. Ripe(i, Anchor(i, now))'
        <4>1. now' = now /\ bornAt'[i] \in Int /\ now >= bornAt'[i]
          BY <1>1, <2>3, <3>1 DEF Accept, clock
        <4>2. CASE NotBefore[i] = None
          BY <1>1, <4>1, <4>2 DEF Ripe, Anchor
        <4>3. CASE NotBefore[i] # None
          <5>1. NotBefore[i] \in Int
            BY <4>3, NotBeforeAssumption DEF Time
          <5>2. /\ Anchor(i, now) \in Int
                /\ Anchor(i, now) >= now /\ Anchor(i, now) >= NotBefore[i]
            BY <1>1, <4>3, <5>1, MaxOfTwo DEF Anchor
          <5>3. QED
            BY <1>1, <4>1, <5>1, <5>2 DEF Ripe, Anchor
        <4>4. QED
          BY <4>2, <4>3
      <3>3. now' = now
        BY <2>3 DEF Accept, clock
      <3>4. QED
        BY <1>1, <2>3, <3>1, <3>2, <3>3 DEF Ripe, Anchor
    <2>4. CASE i \in Accepted /\ firstSeen'[i] = Anchor(i, acceptedAt[i])
      <3>1. bornAt[i] \in Int /\ acceptedAt[i] = bornAt[i]
        BY <2>4 DEF AgeInv, BirthKnown
      <3>2. Ripe(i, Anchor(i, acceptedAt[i]))
        BY <3>1, AnchorIsRipe
      <3>3. QED
        BY <1>5, <2>4, <3>2 DEF Ripe
    <2>5. CASE pc = "sending" /\ inFlight = i /\ firstSeen'[i] = Wall
      <3>1. i \in Accepted /\ Ripe(i, now)
        BY <1>6, <2>5
      <3>2. i \in Accepted' /\ bornAt'[i] = bornAt[i]
        BY <3>1, BirthStep
      <3>3. QED
        BY <1>1, <2>5, <3>1, <3>2 DEF Ripe
    <2>6. QED
      BY <2>1, <2>2, <2>3, <2>4, <2>5, FirstSeenStep
  <1>8. GivenUpLate'
    <2>1. SUFFICES ASSUME NEW i \in Jobs, latest'[i] = "retry_timeout"
                   PROVE  i \in Accepted' /\ Ripe(i, now - MaxRetryAge - 1)'
      BY DEF GivenUpLate
    <2>2. MaxRetryAge \in Int /\ MaxRetryAge >= 0
      BY IntervalAssumption
    <2>3. i \in Accepted /\ Ripe(i, now - MaxRetryAge - 1)
      <3>1. CASE latest[i] = "retry_timeout"
        BY <3>1 DEF AgeInv, GivenUpLate
      <3>2. CASE pc = "sending" /\ inFlight = i /\ TooOld(i)
        <4>1. now - FirstSeen(i) > MaxRetryAge
          BY <1>1, <3>2 DEF TooOld
        <4>2. CASE firstSeen[i] = None
          BY <1>1, <2>2, <4>1, <4>2 DEF FirstSeen
        <4>3. CASE firstSeen[i] # None
          <5>1. firstSeen[i] \in Int
            BY <4>3 DEF TypeOK, Time
          <5>2. now - MaxRetryAge - 1 \in Int /\ now - MaxRetryAge - 1 >= firstSeen[i]
            BY <1>1, <2>2, <4>1, <4>3, <5>1 DEF FirstSeen
          <5>3. i \in Accepted /\ Ripe(i, firstSeen[i])
            BY <4>3 DEF AgeInv, CountedFromRipe
          <5>4. QED
            BY <5>1, <5>2, <5>3, RipeLater
        <4>4. QED
          BY <4>2, <4>3
      <3>3. QED
        BY <2>1, <3>1, <3>2, TimeoutRecord
    <2>4. Ripe(i, now' - MaxRetryAge - 1)
      <3>1. now \in Int /\ now' \in Int /\ now' >= now
        BY <1>1
      <3>2. now - MaxRetryAge - 1 \in Int /\ now' - MaxRetryAge - 1 \in Int
        BY <2>2, <3>1
      <3>3. \A m, n, k \in Int : n >= m => n - k - 1 >= m - k - 1
        OBVIOUS
      <3>4. now' - MaxRetryAge - 1 >= now - MaxRetryAge - 1
        BY <2>2, <3>1, <3>3, Zenon
      <3>5. QED
        BY <2>3, <3>2, <3>4, RipeLater
    <2>5. i \in Accepted' /\ bornAt'[i] = bornAt[i]
      BY <2>3, BirthStep
    <2>6. QED
      BY <2>4, <2>5 DEF Ripe
  <1>9. QED
    BY <1>2, <1>3, <1>4, <1>7, <1>8 DEF AgeInv

LEMMA AgeSuffices ==
    ASSUME TypeOK, AgeInv
    PROVE  TimeoutOnlyAfterRetryAge
  <1>1. SUFFICES ASSUME NEW i \in Jobs, latest[i] = "retry_timeout"
                 PROVE  now - Max({bornAt[i], NotBefore[i]} \ {None}) > MaxRetryAge
    BY DEF TimeoutOnlyAfterRetryAge
  <1>2. now \in Int /\ MaxRetryAge \in Int
    BY BoundAssumption, IntervalAssumption DEF TypeOK
  <1>3. Ripe(i, now - MaxRetryAge - 1)
    BY <1>1 DEF AgeInv, GivenUpLate
  <1>4. bornAt[i] \in Int /\ now - bornAt[i] > MaxRetryAge
    BY <1>2, <1>3 DEF Ripe
  <1>5. bornAt[i] # None
    BY <1>4, NoneAssumption
  <1>6. CASE NotBefore[i] = None
    <2>1. {bornAt[i], NotBefore[i]} \ {None} = {bornAt[i], bornAt[i]}
      BY <1>5, <1>6
    <2>2. Max({bornAt[i], bornAt[i]}) = bornAt[i]
      BY <1>4, MaxOfTwo
    <2>3. QED
      BY <1>4, <2>1, <2>2
  <1>7. CASE NotBefore[i] # None
    <2>1. NotBefore[i] \in Int /\ now - NotBefore[i] > MaxRetryAge
      <3>1. NotBefore[i] \in Int
        BY <1>7, NotBeforeAssumption DEF Time
      <3>2. QED
        BY <1>2, <1>3, <1>7, <3>1 DEF Ripe
    <2>2. {bornAt[i], NotBefore[i]} \ {None} = {bornAt[i], NotBefore[i]}
      BY <1>5, <1>7
    <2>3. Max({bornAt[i], NotBefore[i]}) \in {bornAt[i], NotBefore[i]}
      BY <1>4, <2>1, MaxOfTwo
    <2>4. QED
      BY <1>4, <2>1, <2>2, <2>3
  <1>8. QED
    BY <1>6, <1>7

\* On a Pi whose clock is right, a job is given up only when more than
\* max_retry_age has passed since it was accepted and printable, however often
\* the process was restarted in between and whichever append failed.
THEOREM NobodyGivesUpEarly == Skews \subseteq {0} => (Spec => []TimeoutOnlyAfterRetryAge)
  <1>1. SUFFICES ASSUME Skews \subseteq {0} PROVE Spec => []TimeoutOnlyAfterRetryAge
    OBVIOUS
  <1>2. Init => AgeInv
    <2>1. SUFFICES ASSUME Init PROVE AgeInv
      OBVIOUS
    <2>2. skew = 0
      BY <1>1, <2>1 DEF Init
    <2>3. Accepted = {}
      BY <2>1 DEF Init, Accepted, Range
    <2>4. QED
      BY <2>1, <2>2, <2>3
      DEF Init, AgeInv, SentWhenDue, BirthKnown, CountedFromRipe, GivenUpLate, NoTimes
  <1>3. TypeInv /\ PaperInv /\ AgeInv /\ [Next]_vars => AgeInv'
    BY <1>1, AgeStep DEF TypeInv, PaperInv
  <1>4. TypeInv /\ AgeInv => TimeoutOnlyAfterRetryAge
    BY AgeSuffices DEF TypeInv
  <1>5. QED
    BY <1>2, <1>3, <1>4, PaperInvariant, PTL DEF Spec

-----------------------------------------------------------------------------
(* PrintWorker implements JobJournal, for any jobs, options, clocks, faults  *)
(* and restarts.                                                             *)

JournalStep == [Journal!Next]_(Journal!vars)

\* Steps that leave the log alone are stuttering steps of the journal.
LEMMA QuietJournal ==
    ASSUME arrival' = arrival, latest' = latest, terminated' = terminated
    PROVE  JournalStep
  <1>1. Accepted' = Accepted /\ Owed' = Owed
    BY DEF Accepted, Owed
  <1>2. OwedOrder' = OwedOrder
    BY <1>1 DEF OwedOrder, Before
  <1>3. OwedStage' = OwedStage
    BY <1>1 DEF OwedStage
  <1>4. QED
    BY <1>1, <1>2, <1>3 DEF JournalStep, Journal!vars

\* One more record of a job that is owed is a Note, a Close or a stutter.
LEMMA RecordJournal ==
    ASSUME TypeOK, NEW j \in Owed, NEW x, arrival' = arrival,
           latest' = [latest EXCEPT ![j] = x],
           \/ terminated' = terminated \cup {j}
           \/ terminated' = terminated /\ x \in {"printing", "retry", latest[j]}
    PROVE  JournalStep
  <1>1. j \in Jobs /\ j \in Accepted /\ j \notin terminated /\ latest \in [Jobs -> Events \cup {"none"}]
    BY AcceptedJobs DEF Owed, TypeOK
  <1>2. Accepted' = Accepted
    BY DEF Accepted
  <1>3. CASE terminated' = terminated \cup {j}
    <2>1. Owed' = Owed \ {j}
      BY <1>2, <1>3 DEF Owed
    <2>2. OwedOrder' = {p \in OwedOrder : j \notin {p[1], p[2]}}
      BY <2>1 DEF OwedOrder, Before
    <2>3. OwedStage' = [OwedStage EXCEPT ![j] = "none"]
      BY <1>1, <2>1 DEF OwedStage
    <2>4. Journal!Close(j)
      BY <1>2, <2>1, <2>2, <2>3 DEF Journal!Close
    <2>5. QED
      BY <1>1, <2>4 DEF JournalStep, Journal!Next
  <1>4. CASE terminated' = terminated /\ x = latest[j]
    BY <1>1, <1>4, QuietJournal
  <1>5. CASE terminated' = terminated /\ x \in {"printing", "retry"}
    <2>1. Owed' = Owed
      BY <1>2, <1>5 DEF Owed
    <2>2. OwedOrder' = OwedOrder
      BY <2>1 DEF OwedOrder, Before
    <2>3. OwedStage' = [OwedStage EXCEPT ![j] = x]
      BY <1>1, <2>1 DEF OwedStage
    <2>4. Journal!Note(j, x)
      BY <1>2, <2>1, <2>2, <2>3 DEF Journal!Note
    <2>5. QED
      BY <1>1, <1>5, <2>4 DEF JournalStep, Journal!Next
  <1>6. QED
    BY <1>3, <1>4, <1>5

\* The worker's three ways to append for a job that is owed.
LEMMA AppendJournal ==
    ASSUME TypeOK, NEW j \in Owed, NEW e \in Events,
           \/ Append1(j, e)
           \/ AppendFails(j, e)
           \/ \E R, n : Unexpected(j, e, R, n)
    PROVE  JournalStep
  <1>1. e \notin Terminal => e \in {"printing", "retry"}
    BY DEF Events
  <1>2. CASE Append1(j, e)
    BY <1>1, <1>2, RecordJournal DEF Append1
  <1>3. CASE AppendFails(j, e)
    BY <1>2, <1>3, QuietJournal DEF AppendFails, log
  <1>4. CASE \E R, n : Unexpected(j, e, R, n)
    <2>1. PICK first \in {"kept", "lost"}, second \in {"written", "kept", "lost"} :
            /\ latest' = [latest EXCEPT ![j] =
                  IF second # "lost" THEN "retry" ELSE IF first = "kept" THEN e ELSE @]
            /\ terminated' = IF first = "kept" /\ e \in Terminal
                               THEN terminated \cup {j} ELSE terminated
      BY <1>4 DEF Unexpected
    <2>2. arrival' = arrival
      BY <1>4 DEF Unexpected
    <2> DEFINE x == IF second # "lost" THEN "retry"
                    ELSE IF first = "kept" THEN e ELSE latest[j]
    <2>3. latest' = [latest EXCEPT ![j] = x]
      BY <2>1
    <2>4. \/ terminated' = terminated \cup {j}
          \/ terminated' = terminated /\ x \in {"printing", "retry", latest[j]}
      BY <1>1, <2>1
    <2> HIDE DEF x
    <2>5. QED
      BY <2>2, <2>3, <2>4, RecordJournal
  <1>5. QED
    BY <1>2, <1>3, <1>4

\* An accepted job is owed, behind the jobs that were.
LEMMA AcceptJournal ==
    ASSUME TypeOK, PaperInv, NEW j \in Jobs, Accept(j)
    PROVE  JournalStep
  <1>1. /\ j \notin Accepted /\ arrival \in Seq(Jobs) /\ arrival' = Append(arrival, j)
        /\ latest' = latest /\ terminated' = terminated
    BY DEF Accept, TypeOK
  <1>2. Accepted' = Accepted \cup {j}
    BY <1>1 DEF Accepted, Range
  <1>3. latest[j] = "none" /\ j \notin terminated
    BY <1>1 DEF PaperInv, Untouched
  <1>4. Owed' = Owed \cup {j}
    BY <1>1, <1>2, <1>3 DEF Owed
  <1>5. ASSUME NEW i \in Accepted, NEW k \in Accepted
        PROVE  Before(i, k)' <=> Before(i, k)
    <2>1. \A n \in DOMAIN arrival' :
             (n \in DOMAIN arrival /\ arrival'[n] = arrival[n]) \/ arrival'[n] = j
      BY <1>1
    <2>2. \A n \in DOMAIN arrival : n \in DOMAIN arrival' /\ arrival'[n] = arrival[n]
      BY <1>1
    <2>3. i # j /\ k # j
      BY <1>1
    <2>4. QED
      BY <2>1, <2>2, <2>3 DEF Before
  <1>6. ASSUME NEW i \in Accepted
        PROVE  Before(i, j)' /\ ~Before(j, i)'
    <2>1. PICK a \in DOMAIN arrival : arrival[a] = i
      BY DEF Accepted, Range
    <2>2. /\ a \in DOMAIN arrival' /\ Len(arrival') \in DOMAIN arrival' /\ a < Len(arrival')
          /\ arrival'[a] = i /\ arrival'[Len(arrival')] = j
      BY <1>1, <2>1
    <2>3. \A n \in DOMAIN arrival' : arrival'[n] = j => n = Len(arrival')
      BY <1>1 DEF Accepted, Range
    <2>4. \A n \in DOMAIN arrival' : ~(Len(arrival') < n)
      BY <1>1
    <2>5. QED
      BY <2>2, <2>3, <2>4 DEF Before
  <1>7. ~Before(j, j)'
    <2>1. \A n \in DOMAIN arrival' : arrival'[n] = j => n = Len(arrival')
      BY <1>1 DEF Accepted, Range
    <2>2. Len(arrival') \in Nat
      BY <1>1
    <2>3. QED
      BY <2>1, <2>2 DEF Before
  <1>8. OwedOrder' = OwedOrder \cup (Owed \X {j})
    BY <1>1, <1>4, <1>5, <1>6, <1>7 DEF OwedOrder, Owed
  <1>9. OwedStage' = OwedStage
    BY <1>1, <1>3, <1>4 DEF OwedStage
  <1>10. Journal!Accept(j)
    BY <1>1, <1>2, <1>4, <1>8, <1>9 DEF Journal!Accept
  <1>11. QED
    BY <1>10 DEF JournalStep, Journal!Next

LEMMA StepJournal ==
    ASSUME TypeOK, PaperInv, [Next]_vars
    PROVE  JournalStep
  <1> USE DEF log
  <1>1. {"expired", "unknown_partial", "printing", "printed", "retry",
         "retry_timeout"} \subseteq Events
    BY DEF Events, Terminal
  <1>2. CASE \E j \in Jobs : DropExpired(j) \/ DropUncached(j)
                             \/ Unlisted(j) \/ StartPrinting(j)
    <2>1. PICK j \in Jobs : DropExpired(j) \/ DropUncached(j)
                            \/ Unlisted(j) \/ StartPrinting(j)
      BY <1>2
    <2>2. j \in Owed
      BY <2>1, SelectedIsFresh DEF DropExpired, DropUncached, Unlisted, StartPrinting, Owed
    <2>3. CASE Unlisted(j)
      BY <1>1, <2>2, <2>3, AppendJournal, QuietJournal DEF Unlisted
    <2>4. QED
      BY <1>1, <2>1, <2>2, <2>3, AppendJournal
      DEF DropExpired, DropUncached, StartPrinting, Drop
  <1>3. CASE Send
    <2>1. pc = "sending" => inFlight \in Owed
      BY DEF PaperInv, SendingState, Owed
    <2>2. CASE ReachPaper \/ NextChunk
      BY <2>2, QuietJournal DEF ReachPaper, NextChunk
    <2>3. CASE LastChunkSent \/ SendFails
      BY <1>1, <2>1, <2>3, AppendJournal DEF LastChunkSent, SendFails, Finish
    <2>4. CASE GiveUp \/ RetryLater
      BY <1>1, <2>1, <2>4, AppendJournal DEF GiveUp, RetryLater, Refused
    <2>5. QED
      BY <1>3, <2>2, <2>3, <2>4 DEF Send
  <1>4. CASE \E j \in Jobs : CloseInDoubt(j)
    BY <1>1, <1>4, AppendJournal DEF CloseInDoubt, InDoubt, Owed
  <1>5. CASE \E j \in Jobs : Accept(j)
    BY <1>5, AcceptJournal
  <1>6. CASE \/ HoldWakes \/ RescheduleWakes \/ ClockSync \/ ProbeFails \/ Tick
             \/ Stop \/ Exit
            \/ Crash \/ Start \/ NothingEligible \/ \E j \in Jobs : Evict(j)
            \/ EvictFails(j)
    BY <1>6, QuietJournal
    DEF HoldWakes, RescheduleWakes, ClockSync, ProbeFails, Tick, Stop, Exit, Crash,
        ProcessGone,
        Start, NothingEligible, Evict, EvictFails
  <1>7. CASE UNCHANGED vars
    BY <1>7, QuietJournal DEF vars
  <1>8. QED
    BY <1>2, <1>3, <1>4, <1>5, <1>6, <1>7 DEF Next, Handle, Startup

\* The worker keeps the journal: over any crashes, restarts and failed appends
\* no ended job is owed again, no owed job is lost, and the order stays.
THEOREM WorkerKeepsJournal == Spec => KeepsJournal
  <1>1. Init => Journal!Init
    BY DEF Init, Journal!Init, Accepted, Range, Owed, OwedOrder, OwedStage
  <1>2. TypeInv /\ PaperInv /\ [Next]_vars => [Journal!Next]_(Journal!vars)
    BY StepJournal DEF TypeInv, JournalStep
  <1>3. QED
    BY <1>1, <1>2, PaperInvariant, PTL DEF Spec, KeepsJournal, Journal!Spec
=============================================================================
