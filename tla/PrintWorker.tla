---------------------------- MODULE PrintWorker ----------------------------
(***************************************************************************)
(* The print worker of service/printer/queue/worker.py over the durable    *)
(* job log: one asyncio task that drains accepted jobs to one printer.     *)
(*                                                                         *)
(* Between two awaits nothing else of the process runs, so an action here  *)
(* is the code from one await (the queue's get, the transport's print_png, *)
(* a sleep) to the next.  A crash may fall between any two durable writes; *)
(* each action makes at most one that succeeds, so a crash before or after *)
(* the action stands for a crash anywhere inside it.                       *)
(*                                                                         *)
(* The log appears as what a replay of it computes (arrival order, latest  *)
(* event and terminal set).  Time is counted in ticks: `now` is the        *)
(* monotonic clock that sleeps use, now + skew the wall clock that stamps  *)
(* and deadlines use; skew is 0 once NTP has synchronised the Pi.          *)
(***************************************************************************)
EXTENDS Integers, Sequences, FiniteSetsExt

CONSTANTS
    Jobs,           \* job ids that may be accepted
    None,           \* Python's None
    NChunks,        \* chunks of each job (one per cut block)
    NotBefore,      \* options.not_before of each job, or None
    ExpiresAt,      \* options.expires_at of each job, or None
    RetryInterval,  \* retry_interval_s
    HoldPoll,       \* _CLOCK_UNSYNC_HOLD_POLL_S
    MaxRetryAge,    \* max_retry_age_s
    Skews           \* wall-clock errors a boot without network may leave

CONSTANTS           \* bounds of the checked instances
    MaxTime,        \* last tick
    AcceptBy,       \* last tick at which a job is accepted
    SyncBy,         \* the clock is synchronised by this tick
    MaxEnds,        \* ends of the process (crash, power loss, stop)
    MaxFaults,      \* steps in which the log, the cache or the clock probe fails
    Evictable       \* jobs whose cached PNGs may disappear

Time == Int \cup {None}

ASSUME JobsAssumption == IsFiniteSet(Jobs) /\ None \notin Jobs
ASSUME NoneAssumption == None \notin Int
ASSUME NChunksAssumption == NChunks \in [Jobs -> Nat \ {0}]
ASSUME NotBeforeAssumption == NotBefore \in [Jobs -> Time]
ASSUME ExpiresAtAssumption == ExpiresAt \in [Jobs -> Time]
ASSUME IntervalAssumption ==
    /\ RetryInterval \in Nat \ {0} /\ HoldPoll \in Nat \ {0}
    /\ MaxRetryAge \in Nat
ASSUME SkewAssumption == Skews \subseteq Int
ASSUME BoundAssumption ==
    /\ MaxTime \in Nat /\ AcceptBy \in Nat /\ SyncBy \in Nat
    /\ MaxEnds \in Nat /\ MaxFaults \in Nat /\ Evictable \subseteq Jobs

VARIABLES           \* durable: what a replay of the job log computes
    arrival,        \* accepted jobs in the order of their records
    acceptedAt,     \* wall-clock ts of the accepted record, or None
    latest,         \* latest non-accepted event of each job
    terminated      \* jobs with a terminal record

VARIABLES           \* durable: outside the log
    cached,         \* how many of each job's last chunks are in the cache
    cutShort,       \* observability: jobs whose unlinking was interrupted
    paper           \* the chunks of each job that have put paper through

VARIABLES           \* volatile: the worker
    pc,             \* where the task is, or that there is no process
    given,          \* number of chunks that get_chunks returned
    chunk,          \* which of them is given to print_png
    out,            \* bytes of that chunk have reached the printer
    inFlight,       \* _in_flight
    unsettled,      \* _unsettled
    retryAfter,     \* _retry_after
    firstSeen,      \* _first_seen
    q,              \* wake tokens in _q; their values are never told apart
    hold,           \* due time of _hold_wakeup
    naps,           \* number of sleeping _reschedule tasks due at each tick
    stopping,       \* _stop is set, and _STOP is last in _q
    orphans         \* jobs on disk that the cache's recency list has lost

VARIABLES           \* environment
    now, skew, synced, ends, faults

VARIABLE bornAt     \* observability: the tick at which each job was accepted

log    == <<arrival, acceptedAt, latest, terminated>>
media  == <<cached, cutShort, paper>>
sends  == <<given, chunk, out>>
worker == <<pc, sends, inFlight, unsettled, retryAfter, firstSeen,
            q, hold, naps, stopping, orphans>>
clock  == <<now, skew, synced>>
world  == <<clock, ends, bornAt>>
vars   == <<log, media, worker, world, faults>>

Terminal == {"printed", "expired", "retry_timeout", "unknown_partial"}
Events   == Terminal \cup {"printing", "retry"}
Ticks    == 0 .. MaxTime + RetryInterval

Accepted == Range(arrival)
Wall     == now + skew
NoTimes  == [j \in Jobs |-> None]

Init ==
    /\ arrival = <<>> /\ acceptedAt = NoTimes
    /\ latest = [j \in Jobs |-> "none"] /\ terminated = {}
    /\ cached = [j \in Jobs |-> 0] /\ cutShort = {}
    /\ paper = [j \in Jobs |-> <<>>]
    /\ pc = "down" /\ given = 0 /\ chunk = 0 /\ out = FALSE /\ inFlight = None
    /\ unsettled = {} /\ retryAfter = NoTimes /\ firstSeen = NoTimes
    /\ q = 0 /\ hold = None /\ naps = [t \in Ticks |-> 0] /\ stopping = FALSE
    /\ orphans = {}
    /\ now = 0 /\ ends = 0 /\ faults = 0 /\ bornAt = NoTimes
    /\ \/ synced = TRUE /\ skew = 0
       \/ synced = FALSE /\ skew \in Skews

-----------------------------------------------------------------------------
(* Selection: _select_next_eligible and what it calls.  C is the set of    *)
(* pending jobs outside _unsettled, R the _retry_after map.                *)

CandidatesNotTerminal(T, U) == Accepted \ U                    \* mutant
Candidates(T, U) == Accepted \ (T \cup U)

Before(i, j) ==
    \E a, b \in DOMAIN arrival : a < b /\ arrival[a] = i /\ arrival[b] = j

Waiting(j, R) == R[j] # None /\ R[j] > Wall
HeldByAnyClock(j) == NotBefore[j] # None /\ NotBefore[j] > Wall  \* mutant
Held(j) == NotBefore[j] # None /\ (~synced \/ NotBefore[j] > Wall)

Eligible(C, R) == {j \in C : ~Waiting(j, R) /\ ~Held(j)}
FirstAny(S) == S                                               \* mutant
First(S) == {j \in S : \A i \in S : ~Before(i, j)}

\* The scan ends at the first eligible job, and drops on its way the retry
\* times that have passed.
Scanned(C, R) ==
    {j \in C : \A i \in Eligible(C, R) : ~Before(i, j)}
Swept(C, R) ==
    [j \in Jobs |-> IF j \in Scanned(C, R) /\ ~Waiting(j, R) THEN None ELSE R[j]]

Delay(j, R) ==
    IF Waiting(j, R) THEN R[j] - Wall
    ELSE IF synced THEN NotBefore[j] - Wall
    ELSE Min({RetryInterval, HoldPoll})
Soonest(C, R) == {j \in C : \A i \in C : Delay(j, R) <= Delay(i, R)}
HoldNever(C, R) == {None}                                      \* mutant
HoldDue(C, R) ==
    IF C = {} \/ stopping THEN {None} ELSE {now + Delay(j, R) : j \in Soonest(C, R)}

-----------------------------------------------------------------------------
(* Job-log appends and the two ways a handled job leaves _run's iteration. *)

\* Jobs ended by their latest record rather than by any.
Append1Latest(j, e) ==                                         \* mutant
    /\ latest' = [latest EXCEPT ![j] = e]
    /\ terminated' = {k \in Jobs : latest'[k] \in Terminal}
    /\ UNCHANGED <<arrival, acceptedAt>>
Append1(j, e) ==
    /\ latest' = [latest EXCEPT ![j] = e]
    /\ terminated' = IF e \in Terminal THEN terminated \cup {j} ELSE terminated
    /\ UNCHANGED <<arrival, acceptedAt>>

Fault == faults < MaxFaults /\ faults' = faults + 1

\* An append that raises: its line reached the file (the fsync failed) or not.
AppendFails(j, e) == Fault /\ (Append1(j, e) \/ UNCHANGED log)

Loop == IF stopping THEN "exited" ELSE "idle"
NothingToSend == given' = 0 /\ chunk' = 0 /\ out' = FALSE

\* completed = True: look again, and wake or schedule the hold timer.
Completed(T, U, R, tokens) ==
    LET C == Candidates(T, U) IN
    /\ pc' = Loop /\ NothingToSend
    /\ unsettled' = U
    /\ retryAfter' = Swept(C, R)
    /\ IF Eligible(C, R) # {}
         THEN q' = tokens + 1 /\ hold' = None
         ELSE q' = tokens     /\ hold' \in HoldDue(C, R)
    /\ UNCHANGED <<stopping, naps, orphans>>

Forget(f, j) == [f EXCEPT ![j] = None]

\* _handle raised with the job in flight: paper may have moved.
Unsettle(j) ==
    /\ Completed(terminated', unsettled \cup {j}, retryAfter, q)
    /\ UNCHANGED <<firstSeen, inFlight>>

\* _handle raised before any paper moved: a second record, "retry", is
\* written, and nothing is scheduled.  If that append raises too, the
\* exception leaves _run and the task is over.
Unexpected(j, e, R, tokens) ==
    /\ Fault
    /\ \E first \in {"kept", "lost"}, second \in {"written", "kept", "lost"} :
         /\ latest' = [latest EXCEPT ![j] =
               IF second # "lost" THEN "retry" ELSE IF first = "kept" THEN e ELSE @]
         /\ terminated' = IF first = "kept" /\ e \in Terminal
                            THEN terminated \cup {j} ELSE terminated
         /\ pc' = IF second = "written" THEN Loop ELSE "dead"
    /\ NothingToSend /\ inFlight' = None
    /\ retryAfter' = R /\ q' = tokens /\ hold' = None
    /\ UNCHANGED <<arrival, acceptedAt, unsettled, naps, stopping, orphans>>

-----------------------------------------------------------------------------
(* The worker task, one await to the next.                                 *)

Pool == Candidates(terminated, unsettled)
Woken == pc = "idle" /\ q > 0
Selected(j) == Woken /\ j \in First(Eligible(Pool, retryAfter))
ExpiredByAnyClock(j) == ExpiresAt[j] # None /\ Wall > ExpiresAt[j]  \* mutant
Expired(j) == ExpiresAt[j] # None /\ synced /\ Wall > ExpiresAt[j]

NothingEligible ==
    /\ Woken /\ Eligible(Pool, retryAfter) = {}
    /\ q' = q - 1 /\ pc' = Loop
    /\ retryAfter' = Swept(Pool, retryAfter)
    /\ hold' \in HoldDue(Pool, retryAfter)
    /\ UNCHANGED <<log, media, sends, inFlight, unsettled, firstSeen, naps,
                   stopping, orphans, world, faults>>

\* A terminal record for a job that is not attempted.
Drop(j, e) ==
    /\ \/ /\ Append1(j, e)
          /\ Completed(terminated', unsettled,
                       Forget(Swept(Pool, retryAfter), j), q - 1)
          /\ inFlight' = None /\ UNCHANGED faults
       \/ Unexpected(j, e, Swept(Pool, retryAfter), q - 1)
    /\ UNCHANGED <<media, firstSeen, world>>

DropExpired(j) == Selected(j) /\ Expired(j) /\ Drop(j, "expired")

DropUncached(j) ==
    Selected(j) /\ ~Expired(j) /\ cached[j] = 0 /\ Drop(j, "unknown_partial")

\* get_chunks raises KeyError for files that are off the recency list: the
\* attempt ends in the record "retry", and nothing is scheduled.  If that append
\* raises, the task is over (the bound counts the fault that made j an orphan).
Unlisted(j) ==
    /\ Selected(j) /\ ~Expired(j) /\ cached[j] > 0 /\ j \in orphans
    /\ \/ Append1(j, "retry") /\ pc' \in {Loop, "dead"}
       \/ UNCHANGED log /\ pc' = "dead"
    /\ retryAfter' = Swept(Pool, retryAfter)
    /\ q' = q - 1 /\ hold' = None /\ inFlight' = None
    /\ UNCHANGED <<media, sends, unsettled, firstSeen, naps, stopping, orphans,
                   world, faults>>

\* Reading the files may raise too: an Unexpected whose first record is lost.
StartPrinting(j) ==
    /\ Selected(j) /\ ~Expired(j) /\ cached[j] > 0 /\ j \notin orphans
    /\ \/ /\ Append1(j, "printing")
          /\ pc' = "sending" /\ given' = cached[j] /\ chunk' = 1 /\ out' = FALSE
          /\ inFlight' = j
          /\ retryAfter' = Swept(Pool, retryAfter)
          /\ q' = q - 1 /\ hold' = None
          /\ UNCHANGED <<unsettled, naps, stopping, orphans, faults>>
       \/ Unexpected(j, "printing", Swept(Pool, retryAfter), q - 1)
    /\ UNCHANGED <<media, firstSeen, world>>

\* The thread of print_png: the chunk's bytes reach the printer.
ReachPaper ==
    /\ pc = "sending" /\ ~out
    /\ out' = TRUE
    /\ paper' = [paper EXCEPT ![inFlight] = Append(@, NChunks[inFlight] - given + chunk)]
    /\ UNCHANGED <<log, cached, cutShort, pc, given, chunk, inFlight, unsettled,
                   retryAfter, firstSeen, q, hold, naps, stopping, orphans, world, faults>>

IsLastOneMore == chunk = given + 1                             \* mutant
IsLastOneLess == chunk = Max({1, given - 1})                   \* mutant
IsLast == chunk = given

NextChunk ==
    /\ pc = "sending" /\ out /\ ~IsLast
    /\ chunk' = chunk + 1 /\ out' = FALSE
    /\ UNCHANGED <<log, media, pc, given, inFlight, unsettled, retryAfter, firstSeen,
                   q, hold, naps, stopping, orphans, world, faults>>

\* A terminal record for the job in flight.
Finish(j, e) ==
    /\ \/ /\ Append1(j, e)
          /\ firstSeen' = Forget(firstSeen, j)
          /\ Completed(terminated', unsettled, Forget(retryAfter, j), q)
          /\ UNCHANGED <<inFlight, faults>>
       \/ AppendFails(j, e) /\ Unsettle(j)
    /\ UNCHANGED <<media, world>>

LastChunkSent ==
    /\ pc = "sending" /\ out /\ IsLast
    /\ Finish(inFlight, "printed")

\* An OSError of print_png, before, between or after bytes of the chunk; or,
\* with earlier chunks on paper, any other exception.
SendFails ==
    /\ pc = "sending"
    /\ Finish(inFlight, "unknown_partial")

\* print_png could not open the device, and no chunk was printed before.
RefusedAnyChunk == pc = "sending" /\ ~out                      \* mutant
Refused == pc = "sending" /\ ~out /\ chunk = 1
FirstSeen(j) == IF firstSeen[j] = None THEN Wall ELSE firstSeen[j]
NeverTooOld(j) == FALSE                                        \* mutant
TooOld(j) == Wall - FirstSeen(j) > MaxRetryAge

GiveUp ==
    /\ Refused /\ TooOld(inFlight)
    /\ \/ /\ Append1(inFlight, "retry_timeout")
          /\ firstSeen' = Forget(firstSeen, inFlight)
          /\ Completed(terminated', unsettled, Forget(retryAfter, inFlight), q)
          /\ inFlight' = None /\ UNCHANGED faults
       \/ /\ Unexpected(inFlight, "retry_timeout", retryAfter, q)
          /\ firstSeen' = [firstSeen EXCEPT ![inFlight] = FirstSeen(inFlight)]
    /\ UNCHANGED <<media, world>>

RetryLater ==
    /\ Refused /\ ~TooOld(inFlight)
    /\ firstSeen' = [firstSeen EXCEPT ![inFlight] = FirstSeen(inFlight)]
    /\ \/ /\ Append1(inFlight, "retry")
          /\ retryAfter' = [retryAfter EXCEPT ![inFlight] = Wall + RetryInterval]
          /\ naps' = [naps EXCEPT ![now + RetryInterval] = @ + 1]
          /\ pc' = Loop /\ NothingToSend /\ inFlight' = None
          /\ UNCHANGED <<unsettled, q, hold, stopping, orphans, faults>>
       \/ Unexpected(inFlight, "retry", retryAfter, q)
    /\ UNCHANGED <<media, world>>

-----------------------------------------------------------------------------
(* The sleeping tasks.                                                     *)

HoldWakes ==
    /\ hold # None /\ hold <= now
    /\ hold' = None /\ q' = q + 1
    /\ UNCHANGED <<log, media, pc, sends, inFlight, unsettled, retryAfter,
                   firstSeen, naps, stopping, orphans, world, faults>>

RescheduleWakes ==
    /\ \E t \in Ticks :
         t <= now /\ naps[t] > 0 /\ naps' = [naps EXCEPT ![t] = @ - 1]
    /\ q' = IF stopping THEN q ELSE q + 1
    /\ UNCHANGED <<log, media, pc, sends, inFlight, unsettled, retryAfter,
                   firstSeen, hold, stopping, orphans, world, faults>>

-----------------------------------------------------------------------------
(* The HTTP layer and the start and end of the process.                    *)

AnchorAtAccept(j, ts) == ts                                    \* mutant
Anchor(j, ts) ==
    IF NotBefore[j] = None THEN ts ELSE Max({ts, NotBefore[j]})

\* A handler caches the chunks, appends the accepted record and enqueues the
\* job.  When the record is in the log but the handler raised after writing
\* it, the job is pending and has no token.
Accept(j) ==
    /\ pc # "down" /\ ~stopping /\ now <= AcceptBy /\ j \notin Accepted
    /\ cached' = [cached EXCEPT ![j] = NChunks[j]]
    /\ arrival' = Append(arrival, j)
    /\ acceptedAt' = [acceptedAt EXCEPT ![j] = Wall]
    /\ bornAt' = [bornAt EXCEPT ![j] = now]
    /\ \/ /\ firstSeen' = [firstSeen EXCEPT ![j] = Anchor(j, Wall)]
          /\ q' = q + 1 /\ UNCHANGED faults
       \/ Fault /\ UNCHANGED <<firstSeen, q>>
    /\ UNCHANGED <<latest, terminated, cutShort, paper, pc, sends, inFlight, unsettled,
                   retryAfter, hold, naps, stopping, orphans, clock, ends>>

\* PngCache drops a job, least recently used or past its TTL, file by file.
Evict(j) ==
    /\ pc # "down" /\ j \in Evictable /\ cached[j] > 0
    /\ cached' = [cached EXCEPT ![j] = 0]
    /\ UNCHANGED <<log, cutShort, paper, worker, world, faults>>

\* The last chunks are left.
CutShort(j) ==
    /\ j \in Evictable
    /\ \E k \in 1 .. cached[j] : cached' = [cached EXCEPT ![j] = k]
    /\ cutShort' = cutShort \cup {j}

\* An unlink raises and the process goes on: an evicted job is off the list
\* by then, a stale one is still on it.
EvictFails(j) ==
    /\ pc # "down" /\ Fault
    /\ CutShort(j) /\ orphans' \in {orphans, orphans \cup {j}}
    /\ UNCHANGED <<log, paper, pc, sends, inFlight, unsettled, retryAfter, firstSeen,
                   q, hold, naps, stopping, world>>

Stop ==
    /\ pc # "down" /\ ~stopping /\ ends < MaxEnds
    /\ stopping' = TRUE /\ hold' = None /\ ends' = ends + 1
    /\ UNCHANGED <<log, media, pc, sends, inFlight, unsettled, retryAfter,
                   firstSeen, q, naps, orphans, clock, bornAt, faults>>

ProcessGone ==
    /\ pc' = "down" /\ NothingToSend /\ inFlight' = None
    /\ unsettled' = {} /\ retryAfter' = NoTimes /\ firstSeen' = NoTimes
    /\ q' = 0 /\ hold' = None /\ naps' = [t \in Ticks |-> 0] /\ stopping' = FALSE
    /\ orphans' = {}
    /\ UNCHANGED <<log, paper, now, faults, bornAt>>

Exit ==
    /\ stopping
    /\ pc \in {"exited", "dead"} \/ (pc = "idle" /\ q = 0)
    /\ ProcessGone /\ UNCHANGED <<cached, cutShort, skew, synced, ends>>

Crash ==
    /\ pc # "down" /\ ends < MaxEnds /\ ends' = ends + 1
    /\ ProcessGone
    /\ UNCHANGED <<cached, cutShort>> \/ \E j \in Jobs : CutShort(j)
    /\ \/ UNCHANGED <<skew, synced>>
       \/ synced' = FALSE /\ skew' \in Skews     \* power loss: no clock battery

\* start(): jobs in flight at the end of the last process are closed first.
InDoubtIgnored == {}                                           \* mutant
InDoubt == {j \in Accepted \ terminated : latest[j] = "printing"}

CloseInDoubt(j) ==
    /\ pc = "down" /\ j \in InDoubt
    /\ Append1(j, "unknown_partial")
    /\ UNCHANGED <<media, worker, world, faults>>

Start ==
    /\ pc = "down" /\ InDoubt = {}
    /\ pc' = "idle"
    /\ firstSeen' = [j \in Jobs |-> IF j \in Accepted \ terminated
                                      THEN Anchor(j, acceptedAt[j]) ELSE None]
    /\ q' = Cardinality(Accepted \ terminated)
    /\ UNCHANGED <<log, media, sends, inFlight, unsettled, retryAfter, hold,
                   naps, stopping, orphans, world, faults>>

Tick ==
    /\ now < MaxTime /\ (synced \/ now < SyncBy)
    /\ now' = now + 1
    /\ UNCHANGED <<log, media, worker, skew, synced, ends, bornAt, faults>>

ClockSync ==
    /\ ~synced /\ synced' = TRUE /\ skew' = 0
    /\ UNCHANGED <<log, media, worker, now, ends, bornAt, faults>>

\* timedatectl fails or times out: a right clock counts as unsynchronised.
ProbeFails ==
    /\ synced /\ synced' = FALSE /\ Fault
    /\ UNCHANGED <<log, media, worker, now, skew, ends, bornAt>>

-----------------------------------------------------------------------------
Handle ==
    \/ NothingEligible
    \/ \E j \in Jobs : DropExpired(j) \/ DropUncached(j) \/ Unlisted(j) \/ StartPrinting(j)
Send == ReachPaper \/ NextChunk \/ LastChunkSent \/ SendFails \/ GiveUp \/ RetryLater
Startup == Start \/ \E j \in Jobs : CloseInDoubt(j)

Next ==
    \/ Handle \/ Send
    \/ HoldWakes \/ RescheduleWakes
    \/ \E j \in Jobs : Accept(j) \/ Evict(j) \/ EvictFails(j)
    \/ Stop \/ Exit \/ Crash \/ Startup
    \/ Tick \/ ClockSync \/ ProbeFails

Spec == Init /\ [][Next]_vars

\* asyncio runs every ready task, a print call returns, systemd or the
\* operator starts an ended service again, time passes and NTP answers.
Fairness ==
    /\ WF_vars(Handle) /\ WF_vars(Send)
    /\ WF_vars(HoldWakes) /\ WF_vars(RescheduleWakes)
    /\ WF_vars(Exit) /\ WF_vars(Startup)
    /\ WF_vars(Tick) /\ WF_vars(ClockSync)

FairSpec == Spec /\ Fairness

-----------------------------------------------------------------------------
(* Properties.                                                             *)

TypeOK ==
    /\ arrival \in Seq(Jobs) /\ acceptedAt \in [Jobs -> Time]
    /\ latest \in [Jobs -> Events \cup {"none"}] /\ terminated \subseteq Jobs
    /\ cached \in [Jobs -> Nat] /\ \A j \in Jobs : cached[j] <= NChunks[j]
    /\ cutShort \subseteq Jobs /\ paper \in [Jobs -> Seq(Nat)]
    /\ pc \in {"down", "idle", "sending", "exited", "dead"}
    /\ given \in Nat /\ chunk \in Nat /\ out \in BOOLEAN /\ inFlight \in Jobs \cup {None}
    /\ pc = "sending" =>
         inFlight \in Jobs /\ given \in 1 .. NChunks[inFlight] /\ chunk \in 1 .. given
    /\ unsettled \subseteq Jobs
    /\ retryAfter \in [Jobs -> Time] /\ firstSeen \in [Jobs -> Time]
    /\ bornAt \in [Jobs -> Time]
    /\ q \in Nat /\ hold \in Time /\ naps \in [Ticks -> Nat]
    /\ stopping \in BOOLEAN /\ orphans \subseteq Jobs
    /\ now \in 0 .. MaxTime /\ skew \in Int /\ synced \in BOOLEAN
    /\ synced => skew = 0
    /\ ends \in 0 .. MaxEnds /\ faults \in 0 .. MaxFaults

\* No chunk of a job is ever put through the printer twice, out of order or
\* with one left out before it, over any number of attempts, crashes, restarts
\* and failed appends: what came out for a job is m+1..m+k, once each.  (m is
\* not 0 when unlinking took the job's first files.)
NeverPrintedTwice ==
    \A j \in Jobs : \E m, k \in 0 .. NChunks[j] :
        m + k <= NChunks[j] /\ paper[j] = [i \in 1 .. k |-> m + i]

\* The documented meaning of the statuses: "retry" is an attempt that failed
\* before any paper moved; so are the two drops, expired and retry_timeout.
NoPaperStatuses ==
    \A j \in Jobs :
        latest[j] \in {"none", "retry", "expired", "retry_timeout"} => paper[j] = <<>>

\* A job reported as printed is on paper to its last chunk, and from its first
\* one unless the unlinking of its files was interrupted, by an error or by the
\* end of the process: the cache then returns the rest for the whole.
PrintedToTheEnd ==
    \A j \in Jobs : latest[j] = "printed" =>
        /\ paper[j] # <<>> /\ paper[j][Len(paper[j])] = NChunks[j]
        /\ Len(paper[j]) = NChunks[j] \/ j \in cutShort

\* A job that has its terminal record never moves paper again, whichever
\* process runs and whichever append failed.
TerminatedStaysOffPaper ==
    [][\A j \in Jobs : j \in terminated => paper'[j] = paper[j]]_vars

\* FIFO among eligible jobs, across restarts: while a job without not_before
\* has not been attempted, no job accepted after it has been.
NoOvertaking ==
    \A i, j \in Jobs :
        /\ Before(i, j) /\ NotBefore[i] = None
        /\ latest[i] = "none" /\ i \notin terminated
        => latest[j] = "none" /\ paper[j] = <<>>

\* No job is lost to a wrong clock: it is dropped as expired only once its
\* deadline has really passed.
ExpiredIsPast ==
    \A j \in Jobs : latest[j] = "expired" => ExpiresAt[j] # None /\ now > ExpiresAt[j]

\* A scheduled job moves no paper before its not_before, whatever the clock
\* showed in between.
HeldUntilNotBefore ==
    \A j \in Jobs :
        NotBefore[j] # None /\ paper[j] # <<>> => now >= NotBefore[j]

\* While nothing has failed, the worker never sleeps on pending work for ever:
\* it is running, has a token, or a timer will bring one.
NoLostWakeup ==
    (faults = 0 /\ pc = "idle" /\ ~stopping /\ Accepted \ terminated # {}) =>
        q > 0 \/ hold # None \/ \E t \in Ticks : naps[t] > 0

\* A job whose last record is "retry" is retried: while the worker sleeps, a
\* token or a timer will wake it.
RetryIsScheduled ==
    (pc = "idle" /\ ~stopping /\ \E j \in Pool : latest[j] = "retry") =>
        q > 0 \/ hold # None \/ \E t \in Ticks : naps[t] > 0

\* The retry ceiling: a job is given up only when more than max_retry_age has
\* passed since it was accepted or became printable, however often the
\* process was restarted.
TimeoutOnlyAfterRetryAge ==
    \A j \in Jobs : latest[j] = "retry_timeout" =>
        now - Max({bornAt[j], NotBefore[j]} \ {None}) > MaxRetryAge

\* Whatever fails, the worker uses the log as JobJournal describes it, which is
\* what JobLog keeps: a job that has ended is never owed again, jobs are owed in
\* the order they were accepted in, and each step changes what one job is owed.
Owed == Accepted \ terminated
OwedOrder == {p \in Owed \X Owed : Before(p[1], p[2])}
OwedStage == [j \in Jobs |-> IF j \in Owed THEN latest[j] ELSE "none"]
Journal == INSTANCE JobJournal WITH
    seen <- Accepted, pending <- Owed, ahead <- OwedOrder, stage <- OwedStage
KeepsJournal == Journal!Spec

\* Every accepted job ends: printed, expired, timed out or reported as unknown.
EveryJobSettles == \A j \in Jobs : j \in Accepted ~> j \in terminated
=============================================================================
