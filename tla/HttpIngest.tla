----------------------------- MODULE HttpIngest -----------------------------
(***************************************************************************)
(* Admission of jobs by the HTTP layer, service/printer/app.py: POST       *)
(* /print, /print/raw, /jobs/{id}/reprint and /test, over the job log, the *)
(* idempotency cache and the artifacts of a job.                           *)
(*                                                                         *)
(* The handlers run on one event loop and give it up in one place: while   *)
(* they wait for the render thread.  `busy` is the handler that holds the  *)
(* loop between two of its durable writes, where only the end of the       *)
(* process can come between.  A job is named by the request that made it.  *)
(***************************************************************************)
EXTENDS Integers, Sequences, FiniteSetsExt

CONSTANTS
    Reqs,           \* requests that clients send, each at most once
    Keys,           \* idempotency keys with their scope (X-Sender)
    None,
    Kind,           \* of each request: "print", "raw", "reprint", "rerender"
                    \*   (reprint?force=json) or "test"
    Key,            \* X-Idempotency-Key of each request, or None
    Payload,        \* payload hash of each request
    Source,         \* the job a reprint is of, or None
    MaxDepth,       \* max_queue_depth
    MaxJobs         \* jobs that prune keeps in the log

CONSTANTS           \* bounds of the checked instances
    MaxEnds,        \* ends of the process
    MaxFaults,      \* writes that raise
    MaxEras,        \* times a key may outlive the idempotency TTL
    Evictable       \* jobs whose cached PNGs may disappear

Kinds == {"print", "raw", "reprint", "rerender", "test"}

ASSUME ReqsAssumption ==
    /\ IsFiniteSet(Reqs) /\ None \notin Reqs \cup Keys
    /\ Kind \in [Reqs -> Kinds] /\ Key \in [Reqs -> Keys \cup {None}]
    /\ \A r \in Reqs : Key[r] # None => Kind[r] \in {"print", "raw"}
    /\ Source \in [Reqs -> Reqs \cup {None}]
    /\ Payload \in [Reqs -> Range(Payload)]
\* The body of a raw request is a PNG, that of a document is JSON; both are
\* hashed as they came.
ASSUME PayloadAssumption ==
    \A r, s \in Reqs : Kind[r] = "raw" /\ Kind[s] = "print" => Payload[r] # Payload[s]
ASSUME LimitAssumption == MaxDepth \in Nat \ {0} /\ MaxJobs \in Nat
ASSUME BoundAssumption ==
    MaxEnds \in Nat /\ MaxFaults \in Nat /\ MaxEras \in Nat /\ Evictable \subseteq Reqs

VARIABLES           \* durable
    accepted,       \* jobs with an accepted record in the log
    ended,          \* those with a terminal record, oldest terminal record first
    idemFile,       \* idempotency entry of each key, or None
    png,            \* jobs whose chunks are in the PNG cache
    body            \* jobs whose stored JSON can be rendered again

VARIABLES           \* volatile
    up,             \* the process runs
    idem,           \* the entries in memory
    busy,           \* the request whose handler holds the event loop, or None
    line,           \* requests at the render semaphore; the first is rendered
    at,             \* how far each request is
    tokens          \* jobs that were enqueued to the worker of this process

VARIABLES           \* clients and environment
    answer,         \* what each request was answered, or None
    era,            \* how often each key's entry outlived its TTL
    settled,        \* jobs that ever got a terminal record (history)
    ends, faults

files == <<accepted, ended, idemFile, png, body>>
proc  == <<up, idem, busy, line, at, tokens>>
world == <<answer, era, settled, ends, faults>>
vars  == <<files, proc, world>>

Entry   == [job : Reqs, payload : Range(Payload), fresh : BOOLEAN]
Answer  == [code : {202, 400, 409, 410, 500, 503}, job : Reqs \cup {None}, era : Nat]
Stages  == {"new", "rendering", "cache", "log", "record", "answer", "done", "gone"}
Pending == accepted \ Range(ended)
Full    == Cardinality(Pending) >= MaxDepth

ASSUME NoneAssumption == None \notin Entry

Init ==
    /\ accepted = {} /\ ended = <<>> /\ png = {} /\ body = {}
    /\ idemFile = [k \in Keys |-> None] /\ idem = [k \in Keys |-> None]
    /\ up = TRUE /\ busy = None /\ line = <<>> /\ tokens = {}
    /\ at = [r \in Reqs |-> "new"] /\ answer = [r \in Reqs |-> None]
    /\ era = [k \in Keys |-> 0] /\ settled = {} /\ ends = 0 /\ faults = 0

-----------------------------------------------------------------------------
(* Answers, and what the idempotency cache says of a request.              *)

EraOf(r) == IF Key[r] = None THEN 0 ELSE era[Key[r]]

Respond(r, code, job) ==
    /\ answer' = [answer EXCEPT ![r] = [code |-> code, job |-> job, era |-> EraOf(r)]]
    /\ at' = [at EXCEPT ![r] = "done"]

Hit(r) == Key[r] # None /\ idem[Key[r]] # None /\ idem[Key[r]].fresh
Conflict(r) == Hit(r) /\ idem[Key[r]].payload # Payload[r]

\* /print answers a duplicate from the accepted record; when prune has dropped
\* that, it goes on as if the key were new.
Duplicate(r) ==
    /\ Hit(r) /\ ~Conflict(r)
    /\ Kind[r] = "raw" \/ idem[Key[r]].job \in accepted

Arrives(r) == up /\ busy = None /\ at[r] = "new"

AnswerConflict(r) ==
    /\ Arrives(r) /\ Conflict(r)
    /\ Respond(r, 409, None)
    /\ UNCHANGED <<files, up, idem, busy, line, tokens, era, settled, ends, faults>>

AnswerDuplicate(r) ==
    /\ Arrives(r) /\ Duplicate(r)
    /\ Respond(r, 202, idem[Key[r]].job)
    /\ UNCHANGED <<files, up, idem, busy, line, tokens, era, settled, ends, faults>>

\* The first test of the queue cap; /print makes its own after the render.
RefuseFull(r) ==
    /\ Arrives(r) /\ ~Conflict(r) /\ ~Duplicate(r)
    /\ Kind[r] # "print" /\ Full
    /\ Respond(r, 503, None)
    /\ UNCHANGED <<files, up, idem, busy, line, tokens, era, settled, ends, faults>>

FromCache(r) == Kind[r] = "reprint" /\ Source[r] \in png
FromBody(r) == Kind[r] \in {"reprint", "rerender"} /\ ~FromCache(r)

AnswerGone(r) ==
    /\ Arrives(r) /\ ~Full /\ FromBody(r) /\ Source[r] \notin body
    /\ Respond(r, 410, None)
    /\ UNCHANGED <<files, up, idem, busy, line, tokens, era, settled, ends, faults>>

BeginRender(r) ==
    /\ Arrives(r) /\ ~Conflict(r) /\ ~Duplicate(r)
    /\ \/ Kind[r] = "print"
       \/ ~Full /\ (Kind[r] = "test" \/ (FromBody(r) /\ Source[r] \in body))
    /\ line' = Append(line, r)
    /\ at' = [at EXCEPT ![r] = "rendering"]
    /\ UNCHANGED <<files, up, idem, busy, tokens, world>>

-----------------------------------------------------------------------------
(* The commit, from the last test of the cap to the answer.                *)

CommitAcked(r) == busy' = r /\ at' = [at EXCEPT ![r] = "answer"] \* mutant
Commit(r) == busy' = r /\ at' = [at EXCEPT ![r] = "cache"]

CommitAtOnce(r) ==
    /\ Arrives(r) /\ ~Conflict(r) /\ ~Duplicate(r) /\ ~Full
    /\ Kind[r] = "raw" \/ FromCache(r)
    /\ Commit(r)
    /\ UNCHANGED <<files, up, idem, line, tokens, world>>

\* The handler that resumes releases the render semaphore.
ReleasedNever == line                                            \* mutant
Released == Tail(line)

Rendered(r) == up /\ busy = None /\ line # <<>> /\ Head(line) = r

RenderFails(r) ==
    /\ Rendered(r) /\ line' = Released
    /\ Respond(r, 400, None)
    /\ UNCHANGED <<files, up, idem, busy, tokens, era, settled, ends, faults>>

RecheckedNever(r) == FALSE                                       \* mutant
Rechecked(r) == Kind[r] = "print"

RenderEnds(r) ==
    /\ Rendered(r) /\ line' = Released
    /\ IF Rechecked(r) /\ Full
         THEN Respond(r, 503, None) /\ UNCHANGED busy
         ELSE Commit(r) /\ UNCHANGED answer
    /\ UNCHANGED <<files, up, idem, tokens, era, settled, ends, faults>>

SavedRendered(r) == IF FromCache(r) THEN {} ELSE {r}              \* mutant
Saved(r) == {r}

\* put_chunks and the JSON file; a raw job and a cached reprint store a stub.
SaveArtifacts(r) ==
    /\ busy = r /\ at[r] = "cache"
    /\ png' = png \cup Saved(r)
    /\ body' = IF Kind[r] \in {"print", "rerender", "test"} \/ FromBody(r)
                 THEN body \cup {r} ELSE body
    /\ at' = [at EXCEPT ![r] = "log"]
    /\ UNCHANGED <<accepted, ended, idemFile, up, idem, busy, line, tokens, world>>

\* A write of the artifacts raises: what is there belongs to a job that no
\* record and no answer names.
SaveFails(r) ==
    /\ busy = r /\ at[r] = "cache"
    /\ faults < MaxFaults /\ faults' = faults + 1
    /\ png' = png \cup Saved(r) \/ UNCHANGED png
    /\ busy' = None /\ Respond(r, 500, None)
    /\ UNCHANGED <<accepted, ended, idemFile, body, up, idem, line, tokens, era, settled, ends>>

\* A raw job is enqueued before its key is recorded, a document after.
EnqueuedFirst(r) == Kind[r] = "raw" \/ Key[r] = None

AppendAccepted(r) ==
    /\ busy = r /\ at[r] = "log"
    /\ accepted' = accepted \cup {r}
    /\ at' = [at EXCEPT ![r] = IF Key[r] = None THEN "answer" ELSE "record"]
    /\ tokens' = IF EnqueuedFirst(r) THEN tokens \cup {r} ELSE tokens
    /\ UNCHANGED <<ended, idemFile, png, body, up, idem, busy, line, world>>

\* An append that raises leaves its line in the file (the fsync failed) or not.
AppendFails(r) ==
    /\ busy = r /\ at[r] = "log"
    /\ faults < MaxFaults /\ faults' = faults + 1
    /\ accepted' = accepted \cup {r} \/ UNCHANGED accepted
    /\ busy' = None /\ Respond(r, 500, None)
    /\ UNCHANGED <<ended, idemFile, png, body, up, idem, line, tokens, era, settled, ends>>

EntryOf(r) == [job |-> r, payload |-> Payload[r], fresh |-> TRUE]

RecordKey(r) ==
    /\ busy = r /\ at[r] = "record"
    /\ idem' = [idem EXCEPT ![Key[r]] = EntryOf(r)]
    /\ idemFile' = [idemFile EXCEPT ![Key[r]] = EntryOf(r)]
    /\ at' = [at EXCEPT ![r] = "answer"]
    /\ tokens' = tokens \cup {r}
    /\ UNCHANGED <<accepted, ended, png, body, up, busy, line, world>>

\* The entry is in memory before its line is written.
RecordFails(r) ==
    /\ busy = r /\ at[r] = "record"
    /\ faults < MaxFaults /\ faults' = faults + 1
    /\ idem' = [idem EXCEPT ![Key[r]] = EntryOf(r)]
    /\ \/ idemFile' = [idemFile EXCEPT ![Key[r]] = EntryOf(r)]
       \/ UNCHANGED idemFile
    /\ busy' = None /\ Respond(r, 500, None)
    /\ UNCHANGED <<accepted, ended, png, body, up, line, tokens, era, settled, ends>>

AnswerAccepted(r) ==
    /\ busy = r /\ at[r] = "answer"
    /\ busy' = None /\ Respond(r, 202, r)
    /\ UNCHANGED <<files, up, idem, line, tokens, era, settled, ends, faults>>

-----------------------------------------------------------------------------
(* The worker, the clock, and the end and start of the process.            *)

\* The worker, once woken, ends a pending job with a terminal record.
Settle(j) ==
    /\ up /\ busy = None /\ j \in Pending /\ tokens \cap Pending # {}
    /\ ended' = Append(ended, j) /\ settled' = settled \cup {j}
    /\ UNCHANGED <<accepted, idemFile, png, body, proc, answer, era, ends, faults>>

\* PngCache drops a job: least recently used, past its TTL, or a lost file.
Evict(j) ==
    /\ busy = None /\ j \in png \cap Evictable
    /\ png' = png \ {j}
    /\ UNCHANGED <<accepted, ended, idemFile, body, proc, world>>

Stale(e) == IF e = None THEN None ELSE [e EXCEPT !.fresh = FALSE]

\* ttl_s passes for the newest entry of a key.
Expire(k) ==
    /\ busy = None /\ era[k] < MaxEras
    /\ {idem[k], idemFile[k]} # {None}
    /\ era' = [era EXCEPT ![k] = @ + 1]
    /\ idem' = [idem EXCEPT ![k] = Stale(@)]
    /\ idemFile' = [idemFile EXCEPT ![k] = Stale(@)]
    /\ UNCHANGED <<accepted, ended, png, body, up, busy, line, at, tokens,
                   answer, settled, ends, faults>>

End ==
    /\ up /\ ends < MaxEnds /\ ends' = ends + 1
    /\ up' = FALSE /\ busy' = None /\ line' = <<>> /\ tokens' = {}
    /\ idem' = [k \in Keys |-> None]
    /\ at' = [r \in Reqs |-> IF at[r] \in {"new", "done"} THEN at[r] ELSE "gone"]
    /\ UNCHANGED <<files, answer, era, settled, faults>>

\* How many of the oldest terminal jobs prune drops to reach its limit.
Excess == Max({0, Min({Len(ended), Cardinality(accepted) - MaxJobs})})
Kept == accepted \ Range(SubSeq(ended, 1, Excess))

ReloadedNone == [k \in Keys |-> None]                             \* mutant
Reloaded == idemFile
ReplayedNone == {}                                               \* mutant
Replayed == Pending

Start ==
    /\ ~up /\ up' = TRUE
    /\ accepted' = Kept /\ ended' = SubSeq(ended, Excess + 1, Len(ended))
    /\ idem' = Reloaded
    /\ tokens' = Replayed
    /\ UNCHANGED <<idemFile, png, body, busy, line, at, world>>

-----------------------------------------------------------------------------
Handler(r) ==
    \/ AnswerConflict(r) \/ AnswerDuplicate(r) \/ RefuseFull(r) \/ AnswerGone(r)
    \/ BeginRender(r) \/ CommitAtOnce(r) \/ RenderFails(r) \/ RenderEnds(r)
    \/ SaveArtifacts(r) \/ SaveFails(r) \/ AppendAccepted(r) \/ AppendFails(r)
    \/ RecordKey(r) \/ RecordFails(r) \/ AnswerAccepted(r)

Next ==
    \/ \E r \in Reqs : Handler(r) \/ Settle(r) \/ Evict(r)
    \/ \E k \in Keys : Expire(k)
    \/ End \/ Start

Spec == Init /\ [][Next]_vars

\* asyncio resumes every handler and a render ends; clients need not send.
FairSpec == Spec /\ WF_vars(\E r \in Reqs : at[r] # "new" /\ Handler(r))

-----------------------------------------------------------------------------
(* Properties.                                                             *)

TypeOK ==
    /\ accepted \subseteq Reqs /\ ended \in Seq(accepted)
    /\ idemFile \in [Keys -> Entry \cup {None}] /\ idem \in [Keys -> Entry \cup {None}]
    /\ png \subseteq Reqs /\ body \subseteq Reqs /\ tokens \subseteq Reqs
    /\ up \in BOOLEAN /\ line \in Seq(Reqs)
    /\ at \in [Reqs -> Stages]
    /\ {r \in Reqs : at[r] = "rendering"} = Range(line)
    /\ {r \in Reqs : at[r] \in {"cache", "log", "record", "answer"}} = {busy} \ {None}
    /\ answer \in [Reqs -> Answer \cup {None}]
    /\ era \in [Keys -> 0 .. MaxEras] /\ settled \subseteq Reqs
    /\ ends \in 0 .. MaxEnds /\ faults \in 0 .. MaxFaults

Got202(r) == answer[r] # None /\ answer[r].code = 202

Agree(r, s) ==
    Key[r] # None /\ Key[r] = Key[s] /\ Got202(r) /\ Got202(s)
        /\ answer[r].era = answer[s].era
    => answer[r].job = answer[s].job /\ Payload[r] = Payload[s]

\* Idempotency of /print/raw: while a key is fresh and no append has failed,
\* all requests that got 202 for it carried one payload and were told one job,
\* whatever restarts and pruning happened in between.
RawAnswersAgree ==
    faults = 0 => \A r, s \in Reqs : Kind[r] = "raw" /\ Kind[s] = "raw" => Agree(r, s)

\* The same promise for every endpoint that takes a key.
AnswersAgree == faults = 0 => \A r, s \in Reqs : Agree(r, s)

\* Durable before 202: the job of every 202 is in the log until it has ended,
\* for duplicates too, across crashes, failed appends and pruning.
AnsweredIsKept ==
    \A r \in Reqs : Got202(r) => answer[r].job \in settled \cup Pending

\* A pending job has its PNG chunks: no crash or failed append leaves the log
\* with a job that cannot be printed.
PendingHasChunks == Pending \ Evictable \subseteq png

\* The queue cap of /print, of /print/raw and of a reprint from the cache, which
\* stores no document, is tested in the same turn of the event loop as the
\* commit, so that no concurrent request gets past it.
AdmittedUnderCap ==
    [][\A r \in Reqs :
          /\ r \in accepted' \ accepted
          /\ Kind[r] \in {"print", "raw"} \/ (Kind[r] = "reprint" /\ r \notin body)
          => ~Full]_vars

\* The worker of the running process has a wake-up for each pending job.
PendingIsWoken == up /\ busy = None /\ faults = 0 => Pending \subseteq tokens

\* A request that has arrived is answered, unless the process ends first.
EveryRequestEnds ==
    \A r \in Reqs : at[r] # "new" ~> at[r] \in {"done", "gone"}
=============================================================================
