---------------------------- MODULE SendersProofs ----------------------------
(* Proofs about Senders, for any commands, tools, keys, payloads, hosts and *)
(* bounds: what the clients and the service keep between them over lost,    *)
(* late and repeated requests and over crashes of either side.              *)
EXTENDS Senders, TLAPS

\* The service's accepted jobs, its idempotency entries and the requests.
JobRecords == [by : Senders, era : 0 .. MaxEras, keyed : BOOLEAN, status : Statuses]
Requests   == [from : Senders, try : Nat]

\* An answer that a listing holds has a version.
FetchedKnown == \A l \in Listings : listing[l] = "fetched" => fetched[l] # None

StoreTypeOK ==
    /\ jobs \in Seq(JobRecords)
    /\ idem \in [ScopedKeys -> Entries \cup {None}]
    /\ era \in [ScopedKeys -> 0 .. MaxEras]
    /\ wire \subseteq Requests /\ line \subseteq Requests
SenderTypeOK ==
    /\ stage \in [Senders -> {"new", "sent", "again", "polling", "done"}]
    /\ tries \in [Senders -> 0 .. Attempts]
    /\ end \in [Senders -> Ends \cup {None}]
    /\ told \in [Senders -> Nat \cup {None}]
    /\ \A s \in Senders : stage[s] = "done" <=> end[s] # None

\* A sender that is yet to post has an attempt left; a tool has only one.
Budget ==
    \A s \in Senders :
        /\ stage[s] = "new" => tries[s] = 0
        /\ stage[s] = "again" => tries[s] < Attempts /\ IsCommand(s)
        /\ ~IsCommand(s) => tries[s] <= 1
\* A request is one that its sender has posted.
Posted == \A q \in wire \cup line : q.try >= 1 /\ q.try <= tries[q.from]
\* Entries and waiting commands name jobs that exist, with the bytes of who asks.
EntriesName ==
    \A k \in ScopedKeys : idem[k] # None =>
         idem[k].job \in DOMAIN jobs /\ idem[k].payload = Payload[jobs[idem[k].job].by]
PollersName ==
    \A s \in Senders : stage[s] = "polling" =>
         /\ told[s] \in DOMAIN jobs
         /\ Tool[s] # "status" => Payload[jobs[told[s]].by] = Payload[s]

TypeInv == /\ SchemaTypeOK /\ FetchedKnown /\ StoreTypeOK /\ SenderTypeOK
           /\ Budget /\ Posted /\ EntriesName /\ PollersName

\* A job was posted, is neither dry nor malformed, and is not of a later life
\* of its key than the current one.
RightAt(i, s) ==
    tries[s] >= 1 /\ ~IsDry(s) /\ ~IsBad(s) /\ jobs[i].era <= EraOf(s)
MadeRight == \A i \in DOMAIN jobs : RightAt(i, jobs[i].by)
\* While the life of its key lasts, the key of a job that was recorded is held;
\* a command's scope has no other route, so that its payload stays too.
HeldFor(s) == Hit(s) /\ (IsCommand(s) => idem[ScopedKey(s)].payload = Payload[s])
HeldAt(i, s) == jobs[i].keyed /\ Keyed(s) /\ jobs[i].era = EraOf(s) => HeldFor(s)
KeyIsHeld == \A i \in DOMAIN jobs : HeldAt(i, jobs[i].by)
\* Only /print waits in line, and the one request of a tool is in one place.
InLine == \A q \in line : ~IsDry(q.from) /\ ~IsRaw(q.from)
OnePlace ==
    /\ \A q \in wire : ~IsCommand(q.from) =>
         MadeBy(q.from) = {} /\ \A r \in line : r.from # q.from
    /\ \A q \in line : MadeBy(q.from) = {}

JobInv == /\ MadeRight /\ KeyIsHeld /\ InLine /\ OnePlace
          /\ OneJobPerKey

-----------------------------------------------------------------------------
(* Keys, entries and sequences of jobs.                                    *)

\* A command always has a key; the same design has the same one.
LEMMA CommandKeys ==
    ASSUME NEW s \in Senders, IsCommand(s)
    PROVE  /\ Keyed(s) /\ ScopedKey(s) \in ScopedKeys
           /\ \A t \in Senders :
                IsCommand(t) /\ Payload[s] = Payload[t] /\ Given[s] = Given[t]
                  => SameKey(s, t)
  <1>1. \A t \in Senders : IsCommand(t) => Keyed(t)
    BY NoneAssumption DEF Keyed, KeyOf
  <1>2. QED
    BY <1>1 DEF ScopedKeys, SameKey, ScopedKey, Scope, KeyOf

LEMMA KeysAreScoped ==
    ASSUME NEW s \in Senders, Keyed(s)
    PROVE  ScopedKey(s) \in ScopedKeys
  BY DEF ScopedKeys

LEMMA CommandsAreRaw ==
    ASSUME NEW s \in Senders, IsCommand(s)
    PROVE  IsRaw(s) /\ Tool[s] # "preview_document"
  BY DEF IsCommand, Commands, IsRaw

LEMMA EraType ==
    ASSUME StoreTypeOK, NEW s \in Senders
    PROVE  EraOf(s) \in 0 .. MaxEras
  BY KeysAreScoped, SendersAssumption DEF StoreTypeOK, EraOf

LEMMA JobsType ==
    ASSUME StoreTypeOK
    PROVE  /\ Len(jobs) \in Nat /\ DOMAIN jobs = 1 .. Len(jobs)
           /\ \A i \in DOMAIN jobs : jobs[i] \in JobRecords
  BY DEF StoreTypeOK

\* What a step may do to the jobs: add one, or change statuses.
Grows ==
    /\ DOMAIN jobs \subseteq DOMAIN jobs'
    /\ \A i \in DOMAIN jobs : /\ jobs'[i].by = jobs[i].by /\ jobs'[i].era = jobs[i].era
                              /\ jobs'[i].keyed = jobs[i].keyed
Added(r) ==
    /\ DOMAIN jobs' = DOMAIN jobs \cup {Len(jobs) + 1}
    /\ Len(jobs) + 1 \notin DOMAIN jobs
    /\ \A i \in DOMAIN jobs : jobs'[i] = jobs[i] /\ i < Len(jobs) + 1
    /\ jobs'[Len(jobs) + 1] = r

LEMMA AddJob ==
    ASSUME StoreTypeOK, NEW r \in JobRecords, jobs' = Append(jobs, r)
    PROVE  jobs' \in Seq(JobRecords) /\ Added(r) /\ Grows
  <1>1. /\ Len(jobs) \in Nat /\ DOMAIN jobs = 1 .. Len(jobs) /\ jobs \in Seq(JobRecords)
    BY DEF StoreTypeOK
  <1>2. jobs' \in Seq(JobRecords) /\ DOMAIN jobs' = 1 .. Len(jobs) + 1
    BY <1>1
  <1>3. \A i \in DOMAIN jobs : jobs'[i] = jobs[i] /\ i < Len(jobs) + 1
    BY <1>1
  <1>4. jobs'[Len(jobs) + 1] = r
    BY <1>1
  <1>5. QED
    BY <1>1, <1>2, <1>3, <1>4 DEF Added, Grows

LEMMA JobType ==
    ASSUME StoreTypeOK, NEW s \in Senders, NEW kept \in BOOLEAN
    PROVE  /\ Job(s, kept) \in JobRecords
           /\ Job(s, kept).by = s /\ Job(s, kept).era = EraOf(s)
           /\ Job(s, kept).keyed = kept /\ Job(s, kept).status = "pending"
  BY EraType DEF Job, JobRecords, Statuses

\* A new status leaves what a job is alone.
LEMMA SettleGrows ==
    ASSUME StoreTypeOK, (\E i \in DOMAIN jobs : Settle(i)) \/ Start
    PROVE  /\ jobs' \in Seq(JobRecords) /\ Grows /\ DOMAIN jobs' = DOMAIN jobs
  <1>1. /\ Len(jobs) \in Nat /\ DOMAIN jobs = 1 .. Len(jobs) /\ jobs \in Seq(JobRecords)
        /\ \A i \in DOMAIN jobs : jobs[i] \in JobRecords
    BY JobsType DEF StoreTypeOK
  <1>2. ASSUME NEW i \in DOMAIN jobs, Settle(i)
        PROVE  jobs' \in Seq(JobRecords) /\ Grows /\ DOMAIN jobs' = DOMAIN jobs
    <2>1. PICK r \in {"printed", "unprinted"} : jobs' = [jobs EXCEPT ![i].status = r]
      BY <1>2 DEF Settle
    <2>2. [jobs[i] EXCEPT !.status = r] \in JobRecords
      BY <1>1 DEF JobRecords, Statuses
    <2>3. jobs' \in Seq(JobRecords) /\ DOMAIN jobs' = DOMAIN jobs
      BY <1>1, <2>1, <2>2
    <2>4. QED
      BY <1>1, <2>1, <2>3 DEF Grows, JobRecords
  <1>3. ASSUME Start
        PROVE  jobs' \in Seq(JobRecords) /\ Grows /\ DOMAIN jobs' = DOMAIN jobs
    <2>1. PICK dropped : jobs' = [i \in DOMAIN jobs |->
                IF i \in dropped THEN [jobs[i] EXCEPT !.status = "pruned"] ELSE jobs[i]]
      BY <1>3 DEF Start
    <2>2. \A i \in DOMAIN jobs : [jobs[i] EXCEPT !.status = "pruned"] \in JobRecords
      BY <1>1 DEF JobRecords, Statuses
    <2>3. jobs' \in Seq(JobRecords) /\ DOMAIN jobs' = DOMAIN jobs
      BY <1>1, <2>1, <2>2
    <2>4. QED
      BY <1>1, <2>1, <2>3 DEF Grows, JobRecords
  <1>4. QED
    BY <1>2, <1>3

\* When a job is accepted its key's entry names it.
LEMMA AcceptStep ==
    ASSUME TypeInv, NEW s \in Senders, Accept(s)
    PROVE  /\ jobs' \in Seq(JobRecords) /\ Added(Job(s, TRUE)) /\ Grows
           /\ idem' \in [ScopedKeys -> Entries \cup {None}]
           /\ EntriesName'
  <1> DEFINE n == Len(jobs) + 1
             entry == [job |-> n, payload |-> Payload[s], fresh |-> TRUE]
  <1>1. StoreTypeOK /\ n \in Nat
    BY JobsType DEF TypeInv
  <1>2. Job(s, TRUE) \in JobRecords /\ Job(s, TRUE).by = s
    BY <1>1, JobType
  <1>3. jobs' \in Seq(JobRecords) /\ Added(Job(s, TRUE)) /\ Grows
    BY <1>1, <1>2, AddJob DEF Accept
  <1>4. entry \in Entries /\ entry.job = n /\ entry.payload = Payload[s]
    BY <1>1 DEF Entries
  <1>5. idem' = IF Keyed(s) THEN [idem EXCEPT ![ScopedKey(s)] = entry] ELSE idem
    BY DEF Accept
  <1>6. idem' \in [ScopedKeys -> Entries \cup {None}]
    BY <1>1, <1>4, <1>5 DEF StoreTypeOK
  <1>7. ASSUME NEW k \in ScopedKeys, idem'[k] # None
        PROVE  /\ idem'[k].job \in DOMAIN jobs'
               /\ idem'[k].payload = Payload[jobs'[idem'[k].job].by]
    <2>1. CASE idem'[k] = idem[k]
      BY <1>3, <1>7, <2>1 DEF TypeInv, EntriesName, Grows
    <2>2. CASE idem'[k] = entry
      <3>1. n \in DOMAIN jobs' /\ jobs'[n].by = s
        BY <1>2, <1>3 DEF Added
      <3>2. QED
        BY <1>4, <2>2, <3>1
    <2>3. QED
      BY <1>1, <1>5, <2>1, <2>2 DEF StoreTypeOK
  <1>8. QED
    BY <1>3, <1>6, <1>7 DEF EntriesName

-----------------------------------------------------------------------------
(* The senders.                                                            *)

SenderInv == SenderTypeOK /\ Budget /\ PollersName

\* The names of the jobs that pollers wait for outlive any step.
LEMMA PollersStay ==
    ASSUME PollersName, Grows, NEW t \in Senders, stage[t] = "polling",
           told'[t] = told[t]
    PROVE  /\ told'[t] \in DOMAIN jobs'
           /\ Tool[t] # "status" => Payload[jobs'[told'[t]].by] = Payload[t]
  BY DEF PollersName, Grows

LEMMA EndStep ==
    ASSUME SenderInv, Grows, NEW s \in Senders, NEW e \in Ends, EndAs(s, e),
           tries' = tries, told' \in [Senders -> Nat \cup {None}],
           \A t \in Senders : t # s => told'[t] = told[t]
    PROVE  SenderInv'
  <1>1. /\ \A t \in Senders : stage'[t] = IF t = s THEN "done" ELSE stage[t]
        /\ \A t \in Senders : end'[t] = IF t = s THEN e ELSE end[t]
    BY DEF EndAs, SenderInv, SenderTypeOK
  <1>2. e # None
    BY NoneAssumption
  <1>3. SenderTypeOK'
    BY <1>1, <1>2 DEF EndAs, SenderInv, SenderTypeOK
  <1>4. Budget'
    BY <1>1 DEF SenderInv, Budget
  <1>5. PollersName'
    BY <1>1, PollersStay DEF SenderInv, PollersName
  <1>6. QED
    BY <1>3, <1>4, <1>5 DEF SenderInv

LEMMA HearStep ==
    ASSUME SenderInv, Grows, NEW s \in Senders, NEW job \in Nat \cup {None},
           Hears(s, job), stage[s] = "sent", tries' = tries,
           IsDry(s) \/ (job \in DOMAIN jobs' /\ Payload[jobs'[job].by] = Payload[s])
    PROVE  SenderInv'
  <1>1. told' = [told EXCEPT ![s] = job]
    BY DEF Hears
  <1>2. /\ told' \in [Senders -> Nat \cup {None}]
        /\ \A t \in Senders : t # s => told'[t] = told[t]
        /\ told'[s] = job
    BY <1>1 DEF SenderInv, SenderTypeOK
  <1>3. CASE \E e \in Ends : EndAs(s, e)
    BY <1>2, <1>3, EndStep
  <1>4. CASE stage' = [stage EXCEPT ![s] = "polling"] /\ end' = end /\ ~IsDry(s)
    <2>1. \A t \in Senders : stage'[t] = IF t = s THEN "polling" ELSE stage[t]
      BY <1>4 DEF SenderInv, SenderTypeOK
    <2>2. SenderTypeOK'
      BY <1>2, <1>4, <2>1 DEF SenderInv, SenderTypeOK
    <2>3. Budget'
      BY <2>1 DEF SenderInv, Budget
    <2>4. PollersName'
      BY <1>2, <1>4, <2>1, PollersStay DEF SenderInv, PollersName
    <2>5. QED
      BY <2>2, <2>3, <2>4 DEF SenderInv
  <1>5. QED
    BY <1>3, <1>4 DEF Hears, Ends

\* An answer that is lost changes no sender.
LEMMA UnheardStep ==
    ASSUME SenderInv, Grows, UNCHANGED <<stage, end, told, tries>>
    PROVE  SenderInv'
  <1>1. PollersName'
    BY PollersStay DEF SenderInv, PollersName
  <1>2. QED
    BY <1>1 DEF SenderInv, SenderTypeOK, Budget

LEMMA RejectStep ==
    ASSUME SenderInv, Grows, NEW q \in Requests, Deliver(q, Rejected(q.from)),
           tries' = tries
    PROVE  SenderInv'
  <1>1. q.from \in Senders
    BY DEF Requests
  <1>2. CASE Rejected(q.from)
    BY <1>1, <1>2, EndStep DEF Rejected, Ends, SenderInv, SenderTypeOK
  <1>3. QED
    BY <1>2, UnheardStep DEF Deliver

LEMMA AnswerStep ==
    ASSUME SenderInv, Grows, NEW q \in Requests, NEW job \in Nat \cup {None},
           Deliver(q, Hears(q.from, job)), tries' = tries,
           \/ IsDry(q.from)
           \/ job \in DOMAIN jobs' /\ Payload[jobs'[job].by] = Payload[q.from]
    PROVE  SenderInv'
  <1>1. q.from \in Senders
    BY DEF Requests
  <1>2. CASE stage[q.from] = "sent" /\ Hears(q.from, job)
    BY <1>1, <1>2, HearStep
  <1>3. QED
    BY <1>2, UnheardStep DEF Deliver

\* The steps of a sender by itself.
LEMMA OwnStep ==
    ASSUME TypeInv, NEW s \in Senders, Sender(s)
    PROVE  SenderInv'
  <1>1. SenderInv /\ StoreTypeOK
    BY DEF TypeInv, SenderInv
  <1>2. Grows
    BY DEF Sender, Post, Refuses, LintRefuses, ArgumentRefused, TransportError,
           BeginsPolling, Polls, PollGivesUp, spooler, Grows
  <1>3. CASE Post(s)
    <2>1. /\ stage' = [stage EXCEPT ![s] = "sent"] /\ tries' = [tries EXCEPT ![s] = @ + 1]
          /\ end' = end /\ told' = told /\ stage[s] \in {"new", "again"}
      BY <1>3 DEF Post
    <2>2. /\ \A t \in Senders : stage'[t] = IF t = s THEN "sent" ELSE stage[t]
          /\ \A t \in Senders : tries'[t] = IF t = s THEN tries[s] + 1 ELSE tries[t]
      BY <1>1, <2>1 DEF SenderInv, SenderTypeOK
    <2>3. tries[s] \in Nat /\ tries[s] + 1 <= Attempts /\ Attempts \in Nat
      BY <1>1, <2>1, SendersAssumption DEF SenderInv, SenderTypeOK, Budget
    <2>4. SenderTypeOK'
      <3>1. tries' \in [Senders -> 0 .. Attempts]
        BY <1>1, <2>1, <2>3 DEF SenderInv, SenderTypeOK
      <3>2. QED
        BY <1>1, <2>1, <2>2, <3>1 DEF SenderInv, SenderTypeOK
    <2>5. Budget'
      <3>1. ~IsCommand(s) => tries[s] + 1 <= 1
        BY <1>1, <2>1, <2>3 DEF SenderInv, Budget
      <3>2. QED
        BY <1>1, <2>2, <3>1 DEF SenderInv, Budget
    <2>6. PollersName'
      BY <1>1, <1>2, <2>1, <2>2, PollersStay DEF SenderInv, PollersName
    <2>7. QED
      BY <2>4, <2>5, <2>6 DEF SenderInv
  <1>4. CASE \E e \in Ends : EndAs(s, e) /\ UNCHANGED <<tries, told>>
    BY <1>1, <1>2, <1>4, EndStep DEF SenderInv, SenderTypeOK
  <1>5. CASE TransportError(s) /\ MayRetry(s)
    <2>1. stage' = [stage EXCEPT ![s] = "again"] /\ UNCHANGED <<tries, told, end>>
          /\ stage[s] = "sent"
      BY <1>5 DEF TransportError
    <2>2. \A t \in Senders : stage'[t] = IF t = s THEN "again" ELSE stage[t]
      BY <1>1, <2>1 DEF SenderInv, SenderTypeOK
    <2>3. SenderTypeOK'
      BY <1>1, <2>1, <2>2 DEF SenderInv, SenderTypeOK
    <2>4. Budget'
      BY <1>1, <1>5, <2>1, <2>2 DEF SenderInv, Budget, MayRetry
    <2>5. PollersName'
      BY <1>1, <1>2, <2>1, <2>2, PollersStay DEF SenderInv, PollersName
    <2>6. QED
      BY <2>3, <2>4, <2>5 DEF SenderInv
  <1>6. CASE BeginsPolling(s)
    <2>1. PICK i \in DOMAIN jobs : told' = [told EXCEPT ![s] = i]
      BY <1>6 DEF BeginsPolling
    <2>2. /\ stage' = [stage EXCEPT ![s] = "polling"] /\ UNCHANGED <<tries, end, jobs>>
          /\ stage[s] = "new" /\ Tool[s] = "status"
      BY <1>6 DEF BeginsPolling, spooler
    <2>3. /\ \A t \in Senders : stage'[t] = IF t = s THEN "polling" ELSE stage[t]
          /\ \A t \in Senders : told'[t] = IF t = s THEN i ELSE told[t]
          /\ i \in Nat
      BY <1>1, <2>1, <2>2, JobsType DEF SenderInv, SenderTypeOK
    <2>4. SenderTypeOK'
      BY <1>1, <2>1, <2>2, <2>3 DEF SenderInv, SenderTypeOK
    <2>5. Budget'
      BY <1>1, <2>2, <2>3 DEF SenderInv, Budget
    <2>6. PollersName'
      BY <1>1, <2>2, <2>3 DEF SenderInv, PollersName
    <2>7. QED
      BY <2>4, <2>5, <2>6 DEF SenderInv
  <1>7. ASSUME Polls(s) PROVE SenderInv'
    <2>1. told[s] \in DOMAIN jobs
      BY <1>1, <1>7 DEF Polls, SenderInv, PollersName
    <2>2. jobs[told[s]].status \in {"printed", "unprinted", "pruned"}
      BY <1>1, <1>7, <2>1, JobsType DEF Polls, Pending, JobRecords, Statuses
    <2>3. Sees(jobs[told[s]].status) \in Ends
      BY <2>2 DEF Sees, Ends
    <2>4. QED
      BY <1>4, <1>7, <2>3 DEF Polls
  <1>8. CASE Refuses(s) \/ LintRefuses(s) \/ ArgumentRefused(s) \/ PollGivesUp(s)
    BY <1>4, <1>8 DEF Refuses, LintRefuses, ArgumentRefused, PollGivesUp, Ends
  <1>9. CASE TransportError(s) /\ ~MayRetry(s)
    BY <1>4, <1>9 DEF TransportError, Ends
  <1>10. QED
    BY <1>3, <1>5, <1>6, <1>7, <1>8, <1>9 DEF Sender

\* A restarted MCP server forgets the calls it held.
LEMMA RestartStep ==
    ASSUME TypeInv, McpRestarts
    PROVE  SenderInv'
  <1>1. SenderInv /\ Grows
    BY DEF TypeInv, SenderInv, Grows, McpRestarts, spooler
  <1> DEFINE held == {s \in Senders : ~IsCommand(s) /\ stage[s] = "sent"}
  <1>2. /\ stage' = [s \in Senders |-> IF s \in held THEN "done" ELSE stage[s]]
        /\ end' = [s \in Senders |-> IF s \in held THEN "network" ELSE end[s]]
        /\ UNCHANGED <<tries, told>>
    BY DEF McpRestarts
  <1>3. "network" # None
    BY NoneAssumption DEF Ends
  <1>4. SenderTypeOK'
    BY <1>1, <1>2, <1>3 DEF SenderInv, SenderTypeOK, Ends
  <1>5. Budget'
    BY <1>1, <1>2 DEF SenderInv, Budget
  <1>6. PollersName'
    BY <1>1, <1>2, PollersStay DEF SenderInv, PollersName
  <1>7. QED
    BY <1>4, <1>5, <1>6 DEF SenderInv

-----------------------------------------------------------------------------
(* The service, and the MCP server's schema.                               *)

LEMMA SchemaStep ==
    ASSUME SchemaTypeOK, FetchedKnown, [Next]_vars
    PROVE  SchemaTypeOK' /\ FetchedKnown'
  <1> DEFINE Goal == SchemaTypeOK' /\ FetchedKnown'
  <1> USE SchemaAssumption DEF SchemaTypeOK, FetchedKnown
  <1>1. version \in 1 .. version /\ version # None /\ MaxVersion \in Nat
    OBVIOUS
  <1>2. CASE SchemaNext
    <2>1. CASE BootFetches
      <3>1. snapshot' = version /\ live' = TRUE /\ phase' = "serving"
            /\ UNCHANGED <<up, version, listing, fetched, shown>>
        BY <2>1 DEF BootFetches, service
      <3>2. snapshot' \in 1 .. version' /\ snapshot' # None
        BY <1>1, <3>1
      <3>3. live' = (snapshot' # None)
        BY <3>1, <3>2
      <3>4. QED
        BY <3>1, <3>2, <3>3
    <2>2. CASE BootGivesUp
      BY <2>2 DEF BootGivesUp, service
    <2>3. ASSUME NEW l \in Listings, ListAtOnce(l) PROVE Goal
      BY <2>3 DEF ListAtOnce, Show, Offered, service
    <2>4. ASSUME NEW l \in Listings, ListRefreshes(l) PROVE Goal
      BY <2>4 DEF ListRefreshes, service
    <2>5. ASSUME NEW l \in Listings, SchemaAnswered(l) PROVE Goal
      BY <1>1, <2>5 DEF SchemaAnswered, service
    <2>6. ASSUME NEW l \in Listings, RefreshSucceeds(l) PROVE Goal
      <3>1. /\ snapshot' = fetched[l] /\ live' = TRUE /\ listing[l] = "fetched"
            /\ listing' = [listing EXCEPT ![l] = "done"]
            /\ shown' = [shown EXCEPT ![l] = fetched[l]]
            /\ UNCHANGED <<up, version, phase, fetched>>
        BY <2>6 DEF RefreshSucceeds, Show, Offered, service
      <3>2. snapshot' \in 1 .. version' /\ snapshot' # None
        BY <3>1
      <3>3. live' = (snapshot' # None)
        BY <3>1, <3>2
      <3>4. QED
        BY <3>1, <3>2, <3>3
    <2>7. ASSUME NEW l \in Listings, RefreshFails(l) PROVE Goal
      BY <2>7 DEF RefreshFails, Show, Offered, service
    <2>8. QED
      BY <1>2, <2>1, <2>2, <2>3, <2>4, <2>5, <2>6, <2>7 DEF SchemaNext
  <1>3. CASE Start
    BY <1>1, <1>3 DEF Start, schemas
  <1>4. CASE Crash
    BY <1>4 DEF Crash, schemas
  <1>5. CASE McpRestarts
    BY <1>5 DEF McpRestarts, Relaunch, service
  <1>6. CASE UNCHANGED <<service, schemas>>
    BY <1>6 DEF service, schemas
  <1>7. ASSUME NEW s \in Senders, Sender(s) PROVE UNCHANGED <<service, schemas>>
    BY <1>7 DEF Sender, Post, Refuses, LintRefuses, ArgumentRefused, TransportError,
                BeginsPolling, Polls, PollGivesUp
  <1>8. CASE (\E q \in wire : Handle(q)) \/ (\E q \in line : Rendered(q))
             \/ (\E i \in DOMAIN jobs : Settle(i)) \/ (\E k \in ScopedKeys : Expire(k))
    BY <1>6, <1>8 DEF Handle, Rendered, Settle, Expire
  <1>9. CASE UNCHANGED vars
    BY <1>6, <1>9 DEF vars
  <1>10. QED
    BY <1>2, <1>3, <1>4, <1>5, <1>6, <1>7, <1>8, <1>9 DEF Next

\* What the store and the network owe each other.
StoreInv == StoreTypeOK /\ Posted /\ EntriesName

LEMMA TypeHalves == TypeInv <=> SchemaTypeOK /\ FetchedKnown /\ StoreInv /\ SenderInv
  BY DEF TypeInv, StoreInv, SenderInv

LEMMA NamedStay ==
    ASSUME EntriesName, Grows, idem' = idem
    PROVE  EntriesName'
  BY DEF EntriesName, Grows

LEMMA AcceptOrRefuseStep ==
    ASSUME TypeInv, NEW q \in Requests, AcceptOrRefuse(q), tries' = tries
    PROVE  /\ SenderInv' /\ EntriesName' /\ Grows
           /\ jobs' \in Seq(JobRecords) /\ idem' \in [ScopedKeys -> Entries \cup {None}]
  <1>1. q.from \in Senders
    BY DEF Requests
  <1>2. SenderInv /\ StoreTypeOK /\ EntriesName
    BY DEF TypeInv, SenderInv
  <1>3. CASE Deliver(q, Rejected(q.from)) /\ UNCHANGED <<jobs, idem>>
    <2>1. Grows
      BY <1>3 DEF Grows
    <2>2. QED
      BY <1>2, <1>3, <2>1, RejectStep, NamedStay DEF StoreTypeOK
  <1>4. CASE Accept(q.from) /\ Deliver(q, Hears(q.from, Len(jobs) + 1))
    <2>1. /\ jobs' \in Seq(JobRecords) /\ Added(Job(q.from, TRUE)) /\ Grows
          /\ idem' \in [ScopedKeys -> Entries \cup {None}] /\ EntriesName'
      BY <1>1, <1>4, AcceptStep
    <2>2. Job(q.from, TRUE).by = q.from /\ Len(jobs) + 1 \in Nat
      <3>1. Job(q.from, TRUE).by = q.from
        BY DEF Job
      <3>2. Len(jobs) \in Nat
        BY <1>2, JobsType
      <3>3. Len(jobs) + 1 \in Nat
        BY <3>2
      <3>4. QED
        BY <3>1, <3>3
    <2>3. Len(jobs) + 1 \in DOMAIN jobs' /\ jobs'[Len(jobs) + 1].by = q.from
      BY <2>1, <2>2 DEF Added
    <2>4. SenderInv'
      BY <1>2, <1>4, <2>1, <2>2, <2>3, AnswerStep
    <2>5. QED
      BY <2>1, <2>4
  <1>5. QED
    BY <1>3, <1>4 DEF AcceptOrRefuse

LEMMA HandleStep ==
    ASSUME TypeInv, NEW q \in wire, Handle(q)
    PROVE  SenderInv' /\ StoreInv'
  <1>1. /\ SenderInv /\ StoreInv /\ q \in Requests /\ q.from \in Senders
        /\ tries' = tries /\ era' = era /\ wire' = wire \ {q}
    BY DEF TypeInv, SenderInv, StoreInv, StoreTypeOK, Requests, Handle
  <1>2. CASE UNCHANGED spooler /\ SenderInv'
    BY <1>1, <1>2 DEF spooler, StoreInv, StoreTypeOK, Posted, EntriesName
  <1>3. CASE UNCHANGED spooler /\ Deliver(q, Rejected(q.from))
    <2>1. Grows
      BY <1>3 DEF spooler, Grows
    <2>2. QED
      BY <1>1, <1>2, <1>3, <2>1, RejectStep
  <1>4. CASE UNCHANGED spooler /\ IsDry(q.from) /\ Deliver(q, Hears(q.from, None))
    <2>1. Grows
      BY <1>4 DEF spooler, Grows
    <2>2. QED
      BY <1>1, <1>2, <1>4, <2>1, AnswerStep
  <1>5. CASE /\ UNCHANGED spooler /\ Duplicate(q.from)
             /\ Deliver(q, Hears(q.from, idem[ScopedKey(q.from)].job))
    <2> DEFINE entry == idem[ScopedKey(q.from)]
    <2>1. ScopedKey(q.from) \in ScopedKeys /\ entry # None /\ entry.payload = Payload[q.from]
      BY <1>1, <1>5, KeysAreScoped DEF Duplicate, Hit, Conflict
    <2>2. /\ entry.job \in DOMAIN jobs /\ entry.payload = Payload[jobs[entry.job].by]
      BY <1>1, <2>1 DEF StoreInv, EntriesName
    <2>3. Grows /\ entry.job \in DOMAIN jobs' /\ Payload[jobs'[entry.job].by] = Payload[q.from]
      BY <1>5, <2>1, <2>2 DEF spooler, Grows
    <2>4. entry.job \in Nat
      BY <1>1, <2>2, JobsType DEF StoreInv
    <2>5. SenderInv'
      BY <1>1, <1>5, <2>3, <2>4, AnswerStep
    <2>6. QED
      BY <1>2, <1>5, <2>5
  <1>6. CASE AcceptOrRefuse(q) /\ line' = line
    <2>1. /\ SenderInv' /\ EntriesName' /\ jobs' \in Seq(JobRecords)
          /\ idem' \in [ScopedKeys -> Entries \cup {None}]
      BY <1>1, <1>6, AcceptOrRefuseStep
    <2>2. QED
      BY <1>1, <1>6, <2>1 DEF StoreInv, StoreTypeOK, Posted
  <1>7. CASE line' = line \cup {q} /\ UNCHANGED <<jobs, idem, stage, end, told>>
    <2>1. Grows
      BY <1>7 DEF Grows
    <2>2. SenderInv'
      BY <1>1, <1>7, <2>1, UnheardStep
    <2>3. EntriesName'
      BY <1>1, <1>7, <2>1, NamedStay DEF StoreInv
    <2>4. QED
      BY <1>1, <1>7, <2>2, <2>3 DEF StoreInv, StoreTypeOK, Posted
  <1>8. QED
    BY <1>3, <1>4, <1>5, <1>6, <1>7 DEF Handle

LEMMA RenderedStep ==
    ASSUME TypeInv, NEW q \in line, Rendered(q)
    PROVE  SenderInv' /\ StoreInv'
  <1>1. /\ SenderInv /\ StoreInv /\ q \in Requests
        /\ tries' = tries /\ era' = era /\ wire' = wire /\ line' = line \ {q}
    BY DEF TypeInv, SenderInv, StoreInv, StoreTypeOK, Rendered
  <1>2. CASE Deliver(q, Rejected(q.from)) /\ UNCHANGED <<jobs, idem>>
    <2>1. Grows
      BY <1>2 DEF Grows
    <2>2. SenderInv' /\ EntriesName'
      BY <1>1, <1>2, <2>1, RejectStep, NamedStay DEF StoreInv
    <2>3. QED
      BY <1>1, <1>2, <2>2 DEF StoreInv, StoreTypeOK, Posted
  <1>3. CASE AcceptOrRefuse(q)
    <2>1. /\ SenderInv' /\ EntriesName' /\ jobs' \in Seq(JobRecords)
          /\ idem' \in [ScopedKeys -> Entries \cup {None}]
      BY <1>1, <1>3, AcceptOrRefuseStep
    <2>2. QED
      BY <1>1, <2>1 DEF StoreInv, StoreTypeOK, Posted
  <1>4. QED
    BY <1>2, <1>3 DEF Rendered

LEMMA CrashStep ==
    ASSUME TypeInv, Crash
    PROVE  SenderInv' /\ StoreInv'
  <1>1. /\ SenderInv /\ StoreInv /\ UNCHANGED <<idem, stage, tries, told, end, era>>
        /\ line' = {} /\ wire' \subseteq wire
    BY DEF TypeInv, SenderInv, StoreInv, Crash
  <1>2. jobs' \in Seq(JobRecords) /\ Grows
    <2>1. CASE jobs' = jobs
      BY <1>1, <2>1 DEF Grows, StoreInv, StoreTypeOK
    <2>2. CASE \E q \in wire \cup line : jobs' = Append(jobs, Job(q.from, ~Keyed(q.from)))
      <3>1. PICK q \in wire \cup line : jobs' = Append(jobs, Job(q.from, ~Keyed(q.from)))
        BY <2>2
      <3> DEFINE kept == ~Keyed(q.from)
      <3>2. q.from \in Senders
        BY <1>1 DEF StoreInv, StoreTypeOK, Requests
      <3>5. kept \in BOOLEAN
        OBVIOUS
      <3>3. Job(q.from, kept) \in JobRecords
        <4> HIDE DEF kept
        <4>1. QED
          BY <1>1, <3>2, <3>5, JobType DEF StoreInv
      <3>4. QED
        BY <1>1, <3>1, <3>3, AddJob DEF StoreInv
    <2>3. QED
      BY <2>1, <2>2 DEF Crash
  <1>3. SenderInv'
    BY <1>1, <1>2, UnheardStep
  <1>4. EntriesName'
    BY <1>1, <1>2, NamedStay DEF StoreInv
  <1>5. QED
    BY <1>1, <1>2, <1>3, <1>4 DEF StoreInv, StoreTypeOK, Posted

LEMMA ExpireStep ==
    ASSUME TypeInv, NEW k \in ScopedKeys, Expire(k)
    PROVE  SenderInv' /\ StoreInv'
  <1>1. /\ SenderInv /\ StoreInv /\ UNCHANGED <<jobs, line, stage, tries, wire, told, end>>
        /\ era' = [era EXCEPT ![k] = @ + 1] /\ era[k] < MaxEras
        /\ idem[k] # None /\ idem' = [idem EXCEPT ![k].fresh = FALSE]
    BY DEF TypeInv, SenderInv, StoreInv, Expire, senders
  <1>2. Grows
    BY <1>1 DEF Grows
  <1>3. era' \in [ScopedKeys -> 0 .. MaxEras]
    BY <1>1, SendersAssumption DEF StoreInv, StoreTypeOK
  <1>4. idem[k] \in Entries
    BY <1>1 DEF StoreInv, StoreTypeOK
  <1>5. /\ [idem[k] EXCEPT !.fresh = FALSE] \in Entries
        /\ [idem[k] EXCEPT !.fresh = FALSE].job = idem[k].job
        /\ [idem[k] EXCEPT !.fresh = FALSE].payload = idem[k].payload
    BY <1>4 DEF Entries
  <1>6. idem' = [idem EXCEPT ![k] = [idem[k] EXCEPT !.fresh = FALSE]]
    BY <1>1
  <1>7. idem' \in [ScopedKeys -> Entries \cup {None}] /\ EntriesName'
    BY <1>1, <1>5, <1>6 DEF StoreInv, StoreTypeOK, EntriesName
  <1>8. SenderInv'
    BY <1>1, <1>2, UnheardStep
  <1>9. QED
    BY <1>1, <1>3, <1>7, <1>8 DEF StoreInv, StoreTypeOK, Posted

LEMMA TypeStep ==
    ASSUME TypeInv, [Next]_vars
    PROVE  TypeInv'
  <1>1. SchemaTypeOK' /\ FetchedKnown' /\ SenderInv /\ StoreInv
    BY SchemaStep DEF TypeInv, SenderInv, StoreInv
  <1>2. SUFFICES SenderInv' /\ StoreInv'
    BY <1>1 DEF TypeInv, SenderInv, StoreInv
  <1>3. ASSUME NEW s \in Senders, Sender(s) PROVE SenderInv' /\ StoreInv'
    <2>1. SenderInv'
      BY <1>3, OwnStep
    <2>2. CASE Post(s)
      <3>1. /\ UNCHANGED <<spooler, era>> /\ tries' = [tries EXCEPT ![s] = @ + 1]
            /\ wire' = wire \cup {[from |-> s, try |-> tries[s] + 1]}
        BY <2>2 DEF Post
      <3>2. tries \in [Senders -> Nat]
        BY <1>1, SendersAssumption DEF SenderInv, SenderTypeOK
      <3>3. wire' \subseteq Requests
        BY <1>1, <3>1, <3>2 DEF StoreInv, StoreTypeOK, Requests
      <3>4. Posted'
        <4>1. \A q \in wire \cup line : q.from \in Senders /\ q.try \in Nat
          BY <1>1 DEF StoreInv, StoreTypeOK, Requests
        <4>2. ASSUME NEW q \in wire \cup line PROVE q.try >= 1 /\ q.try <= tries'[q.from]
          <5>1. q.try >= 1 /\ q.try <= tries[q.from]
            BY <1>1 DEF StoreInv, Posted
          <5>2. tries'[q.from] >= tries[q.from]
            BY <3>1, <3>2, <4>1
          <5>3. tries'[q.from] \in Nat /\ tries[q.from] \in Nat
            BY <3>1, <3>2, <4>1
          <5>4. QED
            BY <4>1, <5>1, <5>2, <5>3
        <4>3. ASSUME NEW q \in {[from |-> s, try |-> tries[s] + 1]}
              PROVE  q.try >= 1 /\ q.try <= tries'[q.from]
          BY <3>1, <3>2
        <4>4. QED
          BY <3>1, <4>2, <4>3 DEF Posted, spooler
      <3>5. QED
        BY <1>1, <2>1, <3>1, <3>3, <3>4 DEF StoreInv, StoreTypeOK, EntriesName, spooler
    <2>3. CASE UNCHANGED <<spooler, era, wire, tries>>
      BY <1>1, <2>1, <2>3 DEF StoreInv, StoreTypeOK, EntriesName, Posted, spooler
    <2>4. QED
      BY <1>3, <2>2, <2>3
      DEF Sender, Refuses, LintRefuses, ArgumentRefused, TransportError,
          BeginsPolling, Polls, PollGivesUp
  <1>4. CASE (\E i \in DOMAIN jobs : Settle(i)) \/ Start
    <2>1. jobs' \in Seq(JobRecords) /\ Grows
      BY <1>1, <1>4, SettleGrows DEF StoreInv
    <2>2. UNCHANGED <<idem, line, wire, era, stage, end, told, tries>>
      BY <1>4 DEF Settle, Start, senders
    <2>3. SenderInv' /\ EntriesName'
      BY <1>1, <2>1, <2>2, UnheardStep, NamedStay DEF StoreInv
    <2>4. QED
      BY <1>1, <2>1, <2>2, <2>3 DEF StoreInv, StoreTypeOK, Posted
  <1>5. CASE McpRestarts
    <2>1. SenderInv'
      BY <1>5, RestartStep
    <2>2. UNCHANGED <<spooler, tries, wire, era>>
      BY <1>5 DEF McpRestarts
    <2>3. QED
      BY <1>1, <2>1, <2>2 DEF StoreInv, StoreTypeOK, EntriesName, Posted, spooler
  <1>6. CASE UNCHANGED <<spooler, senders, era>>
    BY <1>1, <1>6
    DEF spooler, senders, StoreInv, StoreTypeOK, EntriesName, Posted,
        SenderInv, SenderTypeOK, Budget, PollersName
  <1>7. QED
    BY <1>1, <1>3, <1>4, <1>5, <1>6, HandleStep, RenderedStep, CrashStep, ExpireStep
    DEF Next, vars

LEMMA InitType == Init => TypeInv
  <1> SUFFICES ASSUME Init PROVE TypeInv
    OBVIOUS
  <1>1. PICK active : /\ SchemaInit(active, \E a \in active : a \in Listings \/ ~IsCommand(a))
                      /\ stage = [s \in Senders |-> IF s \in active THEN "new" ELSE "done"]
                      /\ end = [s \in Senders |-> IF s \in active THEN None ELSE "idle"]
    BY DEF Init
  <1>2. /\ jobs = <<>> /\ line = {} /\ wire = {}
        /\ idem = [k \in ScopedKeys |-> None] /\ era = [k \in ScopedKeys |-> 0]
        /\ tries = [s \in Senders |-> 0] /\ told = [s \in Senders |-> None]
    BY DEF Init
  <1>3. SchemaTypeOK /\ FetchedKnown
    <2> HIDE DEF SchemaInit
    <2>1. /\ up = TRUE /\ version = 1 /\ phase \in {"boot", "off"}
          /\ snapshot = None /\ live = FALSE
          /\ listing = [l \in Listings |-> IF l \in active THEN "new" ELSE "done"]
          /\ fetched = [l \in Listings |-> None] /\ shown = [l \in Listings |-> None]
      BY <1>1 DEF SchemaInit
    <2>2. version \in 1 .. MaxVersion
      BY <2>1, SchemaAssumption
    <2>3. QED
      BY <2>1, <2>2 DEF SchemaTypeOK, FetchedKnown
  <1>4. "idle" # None
    BY NoneAssumption DEF Ends
  <1>5. SenderTypeOK
    BY <1>1, <1>2, <1>4, SendersAssumption DEF SenderTypeOK, Ends
  <1>6. StoreTypeOK
    <2>1. jobs \in Seq(JobRecords)
      BY <1>2
    <2>2. era \in [ScopedKeys -> 0 .. MaxEras]
      BY <1>2, SendersAssumption
    <2>3. QED
      BY <1>2, <2>1, <2>2 DEF StoreTypeOK
  <1>7. Budget /\ Posted /\ EntriesName /\ PollersName
    BY <1>1, <1>2 DEF Budget, Posted, EntriesName, PollersName
  <1>8. QED
    BY <1>3, <1>5, <1>6, <1>7 DEF TypeInv

LEMMA TypeInvariant == Spec => []TypeInv
  BY InitType, TypeStep, PTL DEF Spec

\* Whatever the network loses, delays or repeats and whichever side crashes,
\* every sender keeps within its attempts, and every entry, request and waiting
\* command names a sender that posted or a job that exists.
THEOREM SendersTyped == Spec => []TypeOK
  <1>1. ASSUME TypeInv PROVE TypeOK
    <2>1. StoreTypeOK /\ SchemaTypeOK /\ SenderTypeOK
      BY <1>1 DEF TypeInv
    <2>2. \A i \in DOMAIN jobs : /\ jobs[i].by \in Senders /\ jobs[i].status \in Statuses
                                 /\ jobs[i].era \in 0 .. MaxEras
      BY <2>1, JobsType DEF JobRecords
    <2>3. \A s \in Senders : (stage[s] = "done") = (end[s] # None)
      BY <2>1 DEF SenderTypeOK
    <2>4. \A s \in Senders : stage[s] = "polling" => told[s] \in DOMAIN jobs
      BY <1>1 DEF TypeInv, PollersName
    <2>5. \A q \in wire \cup line : q.try <= tries[q.from]
      BY <1>1 DEF TypeInv, Posted
    <2>6. QED
      BY <2>1, <2>2, <2>3, <2>4, <2>5 DEF TypeOK, SenderTypeOK
  <1>2. QED
    BY <1>1, TypeInvariant, PTL

-----------------------------------------------------------------------------
(* One job for each key.                                                   *)

\* What the jobs owe the keys, without the places of requests.
KeyInv == MadeRight /\ KeyIsHeld /\ OneJobPerKey

\* A new request of /print/raw finds no entry for its key.
LEMMA NewIsNotHit ==
    ASSUME NEW s \in Senders, IsNew(s), IsRaw(s)
    PROVE  ~Hit(s)
  BY DEF IsNew, Duplicate

\* A job that is as it was keeps what it owes when its key does.
LEMMA StillRight ==
    ASSUME StoreTypeOK, NEW i \in DOMAIN jobs, RightAt(i, jobs[i].by), era' = era,
           \A s \in Senders : tries[s] >= 1 => tries'[s] >= 1,
           jobs'[i].by = jobs[i].by, jobs'[i].era = jobs[i].era
    PROVE  RightAt(i, jobs[i].by)'
  <1>1. jobs[i].by \in Senders
    BY JobsType DEF JobRecords
  <1>2. \A s : EraOf(s)' = EraOf(s)
    BY DEF EraOf
  <1>3. QED
    BY <1>1, <1>2 DEF RightAt, EraOf

\* A step that adds no job and touches no entry.
LEMMA QuietStep ==
    ASSUME StoreTypeOK, KeyInv, Grows, DOMAIN jobs' = DOMAIN jobs,
           idem' = idem, era' = era,
           \A s \in Senders : tries[s] >= 1 => tries'[s] >= 1
    PROVE  KeyInv' /\ \A s \in Senders : MadeBy(s)' = MadeBy(s)
  <1>1. \A i \in DOMAIN jobs' : /\ i \in DOMAIN jobs /\ jobs'[i].by = jobs[i].by
                                /\ jobs'[i].era = jobs[i].era
                                /\ jobs'[i].keyed = jobs[i].keyed
    BY DEF Grows
  <1>2. MadeRight'
    <2>1. ASSUME NEW i \in DOMAIN jobs' PROVE RightAt(i, jobs[i].by)'
      BY <1>1, StillRight DEF KeyInv, MadeRight
    <2>2. QED
      BY <2>1 DEF MadeRight
  <1>3. KeyIsHeld'
    BY <1>1 DEF KeyInv, KeyIsHeld, HeldAt, HeldFor, Hit, EraOf
  <1>4. OneJobPerKey'
    BY <1>1 DEF KeyInv, OneJobPerKey
  <1>5. QED
    BY <1>1, <1>2, <1>3, <1>4 DEF KeyInv, MadeBy

\* An accepted job with a key has its entry.
LEMMA Entered ==
    ASSUME StoreTypeOK, NEW s \in Senders, Keyed(s), Accept(s)
    PROVE  HeldFor(s)'
  <1> DEFINE entry == [job |-> Len(jobs) + 1, payload |-> Payload[s], fresh |-> TRUE]
  <1>1. idem'[ScopedKey(s)] = entry
    BY KeysAreScoped DEF Accept, StoreTypeOK
  <1>2. entry \in Entries
    BY JobsType DEF Entries
  <1>3. entry # None
    BY <1>2, NoneAssumption
  <1>4. QED
    BY <1>1, <1>3 DEF HeldFor, Hit

\* A job is added with its key's entry, or a crash keeps the entry from it.
LEMMA NewJobStep ==
    ASSUME TypeInv, KeyInv, NEW s \in Senders, NEW kept \in BOOLEAN,
           jobs' = Append(jobs, Job(s, kept)),
           ~IsDry(s), ~IsBad(s), tries[s] >= 1, IsRaw(s) => ~Hit(s),
           \/ Accept(s) /\ kept = TRUE
           \/ idem' = idem /\ (kept <=> ~Keyed(s)),
           tries' = tries, era' = era
    PROVE  /\ KeyInv'
           /\ \A t \in Senders : t # s => MadeBy(t)' = MadeBy(t)
  <1>0. PICK n : n = Len(jobs) + 1
    OBVIOUS
  <1>1. /\ StoreTypeOK /\ Job(s, kept).by = s /\ Job(s, kept).era = EraOf(s)
        /\ Job(s, kept).keyed = kept /\ Job(s, kept) \in JobRecords
    BY JobType DEF TypeInv
  <1>2. /\ DOMAIN jobs' = DOMAIN jobs \cup {n} /\ n \notin DOMAIN jobs
        /\ \A i \in DOMAIN jobs : jobs'[i] = jobs[i] /\ i < n
        /\ jobs'[n] = Job(s, kept)
    BY <1>0, <1>1, AddJob DEF Added
  <1>3. /\ jobs'[n].by = s /\ jobs'[n].era = EraOf(s) /\ jobs'[n].keyed = kept
    BY <1>1, <1>2
  <1>4. EraOf(s) \in 0 .. MaxEras /\ MaxEras \in Nat /\ \A t : EraOf(t)' = EraOf(t)
    BY <1>1, EraType, SendersAssumption DEF EraOf
  <1>5. \A i \in DOMAIN jobs : jobs[i].by \in Senders
    BY <1>1, JobsType DEF JobRecords
  <1>6. MadeRight'
    <2>1. ASSUME NEW i \in DOMAIN jobs PROVE RightAt(i, jobs[i].by)'
      BY <1>1, <1>2, StillRight DEF KeyInv, MadeRight
    <2>2. RightAt(n, jobs[n].by)'
      BY <1>3, <1>4 DEF RightAt, EraOf
    <2>3. QED
      BY <1>2, <2>1, <2>2 DEF MadeRight
  <1>7. KeyIsHeld'
    <2>1. ASSUME NEW t \in Senders, HeldFor(t) PROVE HeldFor(t)'
      <3>1. CASE idem'[ScopedKey(t)] = idem[ScopedKey(t)]
        BY <2>1, <3>1 DEF Hit, HeldFor
      <3>2. CASE Accept(s) /\ Keyed(s) /\ ScopedKey(s) = ScopedKey(t)
        <4>1. ~IsCommand(t)
          BY <2>1, <3>2, CommandsAreRaw DEF Hit, HeldFor, ScopedKey, Scope
        <4>2. HeldFor(s)'
          BY <1>1, <3>2, Entered
        <4>3. QED
          BY <2>1, <3>2, <4>1, <4>2 DEF Hit, HeldFor
      <3>3. Keyed(t) /\ ScopedKey(t) \in ScopedKeys
        BY <2>1, KeysAreScoped DEF Hit, HeldFor
      <3>4. QED
        BY <1>1, <2>1, <3>1, <3>2, <3>3 DEF Accept, StoreTypeOK
    <2>2. ASSUME NEW i \in DOMAIN jobs PROVE HeldAt(i, jobs[i].by)'
      <3>1. jobs'[i] = jobs[i] /\ jobs[i].by \in Senders /\ HeldAt(i, jobs[i].by)
        BY <1>2, <1>5 DEF KeyInv, KeyIsHeld
      <3>2. HeldAt(i, jobs[i].by)' <=>
              (jobs[i].keyed /\ Keyed(jobs[i].by) /\ jobs[i].era = EraOf(jobs[i].by)
                 => HeldFor(jobs[i].by)')
        BY <1>4, <3>1 DEF HeldAt, EraOf, HeldFor, Hit
      <3>3. QED
        BY <2>1, <3>1, <3>2 DEF HeldAt
    <2>3. HeldAt(n, jobs[n].by)'
      <3>1. kept /\ Keyed(s) => HeldFor(s)'
        BY <1>1, Entered
      <3>2. QED
        BY <1>3, <3>1 DEF HeldAt, HeldFor, Hit
    <2>4. QED
      BY <1>2, <2>2, <2>3 DEF KeyIsHeld
  <1>8. OneJobPerKey'
    <2>1. ASSUME NEW i \in DOMAIN jobs, jobs[i].era = EraOf(s),
                 IsRaw(jobs[i].by), IsRaw(s), SameKey(jobs[i].by, s)
          PROVE  ~jobs[i].keyed
      <3>1. EraOf(jobs[i].by) = EraOf(s) /\ Keyed(jobs[i].by) /\ Keyed(s)
            /\ ScopedKey(jobs[i].by) = ScopedKey(s)
        BY <2>1 DEF SameKey, EraOf
      <3>2. jobs[i].keyed => Hit(jobs[i].by)
        BY <2>1, <3>1 DEF KeyInv, KeyIsHeld, HeldAt, HeldFor
      <3>3. Hit(jobs[i].by) => Hit(s)
        BY <3>1 DEF Hit
      <3>4. QED
        BY <2>1, <3>2, <3>3
    <2>2. ASSUME NEW i \in DOMAIN jobs, IsCommand(jobs[i].by), IsCommand(s),
                 Payload[jobs[i].by] = Payload[s], Given[jobs[i].by] = Given[s]
          PROVE  SameKey(jobs[i].by, s)
      BY <1>5, <2>2, CommandKeys
    <2>3. ASSUME NEW i \in DOMAIN jobs', NEW j \in DOMAIN jobs', i < j,
                 jobs'[i].era = jobs'[j].era,
                 IsRaw(jobs'[i].by), IsRaw(jobs'[j].by),
                 \/ SameKey(jobs'[i].by, jobs'[j].by)
                 \/ /\ IsCommand(jobs'[i].by) /\ IsCommand(jobs'[j].by)
                    /\ Payload[jobs'[i].by] = Payload[jobs'[j].by]
                    /\ Given[jobs'[i].by] = Given[jobs'[j].by]
          PROVE  ~jobs'[i].keyed
      <3>1. i \in DOMAIN jobs
        <4>1. DOMAIN jobs = 1 .. Len(jobs) /\ Len(jobs) \in Nat
          BY <1>1, JobsType
        <4>2. ~(n < n) /\ \A k \in DOMAIN jobs : ~(n < k)
          BY <1>0, <4>1
        <4>3. QED
          BY <1>2, <2>3, <4>2
      <3>2. CASE j \in DOMAIN jobs
        BY <1>2, <2>3, <3>1, <3>2 DEF KeyInv, OneJobPerKey
      <3>3. CASE j = n
        <4>1. jobs'[i] = jobs[i] /\ jobs'[j].by = s /\ jobs'[j].era = EraOf(s)
          BY <1>2, <1>3, <3>1, <3>3
        <4>2. SameKey(jobs[i].by, s)
          BY <2>2, <2>3, <3>1, <4>1
        <4>3. QED
          BY <2>1, <2>3, <3>1, <4>1, <4>2
      <3>4. QED
        BY <1>2, <3>2, <3>3
    <2>4. QED
      BY <2>3 DEF OneJobPerKey
  <1>9. \A t \in Senders : t # s => MadeBy(t)' = MadeBy(t)
    BY <1>2, <1>3 DEF MadeBy
  <1>10. QED
    BY <1>6, <1>7, <1>8, <1>9 DEF KeyInv

\* A tool has posted once, so that its request is the only one.
LEMMA OneRequest ==
    ASSUME TypeInv, NEW q \in wire \cup line, NEW r \in wire \cup line,
           q.from = r.from, ~IsCommand(q.from)
    PROVE  q = r
  <1>1. q \in Requests /\ r \in Requests /\ q.from \in Senders
    BY DEF TypeInv, StoreTypeOK, Requests
  <1>2. /\ q.try >= 1 /\ q.try <= tries[q.from] /\ r.try >= 1 /\ r.try <= tries[q.from]
        /\ tries[q.from] <= 1
    BY <1>1 DEF TypeInv, Posted, Budget
  <1>3. q.try \in Nat /\ r.try \in Nat /\ tries[q.from] \in Nat
    BY <1>1, SendersAssumption DEF Requests, TypeInv, SenderTypeOK
  <1>4. q.try = 1 /\ r.try = 1
    BY <1>2, <1>3
  <1>5. QED
    BY <1>1, <1>4 DEF Requests

PlaceInv == InLine /\ OnePlace

\* Requests leave the wire and the line, and the jobs of tools stay as many.
LEMMA FewerPlaces ==
    ASSUME PlaceInv, wire' \subseteq wire, line' \subseteq line,
           \A q \in wire' : ~IsCommand(q.from) => MadeBy(q.from)' = MadeBy(q.from),
           \A q \in line' : MadeBy(q.from)' = MadeBy(q.from)
    PROVE  PlaceInv'
  BY DEF PlaceInv, InLine, OnePlace

\* What is known of a request that becomes a job.
LEMMA BecomesJob ==
    ASSUME TypeInv, KeyInv, NEW q \in wire \cup line,
           NEW kept \in BOOLEAN, jobs' = Append(jobs, Job(q.from, kept)),
           ~IsDry(q.from), ~IsBad(q.from), IsRaw(q.from) => ~Hit(q.from),
           \/ Accept(q.from) /\ kept = TRUE
           \/ idem' = idem /\ (kept <=> ~Keyed(q.from)),
           tries' = tries, era' = era
    PROVE  /\ KeyInv'
           /\ \A t \in Senders : t # q.from => MadeBy(t)' = MadeBy(t)
  <1>1. q.from \in Senders /\ q.try \in Nat
    BY DEF TypeInv, StoreTypeOK, Requests
  <1>2. q.try >= 1 /\ q.try <= tries[q.from] /\ tries[q.from] \in Nat
    BY <1>1, SendersAssumption DEF TypeInv, Posted, SenderTypeOK
  <1>3. tries[q.from] >= 1
    BY <1>1, <1>2
  <1>4. QED
    BY <1>1, <1>3, NewJobStep

LEMMA JobStep ==
    ASSUME TypeInv, JobInv, [Next]_vars
    PROVE  JobInv'
  <1>1. /\ KeyInv /\ PlaceInv /\ StoreTypeOK
        /\ \A q \in wire \cup line : q.from \in Senders
    BY DEF TypeInv, StoreTypeOK, Requests, JobInv, KeyInv, PlaceInv
  <1>2. SUFFICES KeyInv' /\ PlaceInv'
    BY DEF JobInv, KeyInv, PlaceInv
  <1>3. CASE UNCHANGED <<spooler, wire, tries, era>>
    <2>1. Grows
      BY <1>3 DEF Grows, spooler
    <2>2. KeyInv' /\ \A s \in Senders : MadeBy(s)' = MadeBy(s)
      BY <1>1, <1>3, <2>1, QuietStep DEF spooler
    <2>3. QED
      BY <1>1, <1>3, <2>2, FewerPlaces DEF spooler
  <1>4. ASSUME NEW s \in Senders, Post(s) PROVE KeyInv' /\ PlaceInv'
    <2>1. /\ UNCHANGED <<spooler, era>> /\ stage[s] \in {"new", "again"}
          /\ wire' = wire \cup {[from |-> s, try |-> tries[s] + 1]}
          /\ tries' = [tries EXCEPT ![s] = @ + 1] /\ tries \in [Senders -> Nat]
      BY <1>4, SendersAssumption DEF Post, TypeInv, SenderTypeOK
    <2>2. Grows
      BY <2>1 DEF Grows, spooler
    <2>3. \A t \in Senders : tries[t] >= 1 => tries'[t] >= 1
      BY <2>1
    <2>4. KeyInv' /\ \A t \in Senders : MadeBy(t)' = MadeBy(t)
      BY <1>1, <2>1, <2>2, <2>3, QuietStep DEF spooler
    <2>5. ASSUME ~IsCommand(s) PROVE MadeBy(s) = {} /\ \A r \in line : r.from # s
      <3>1. tries[s] = 0
        BY <2>1, <2>5 DEF TypeInv, Budget
      <3>2. \A i \in DOMAIN jobs : tries[jobs[i].by] >= 1
        BY <1>1 DEF KeyInv, MadeRight, RightAt
      <3>3. \A i \in DOMAIN jobs : jobs[i].by # s
        BY <3>1, <3>2
      <3>4. \A r \in line : r.try >= 1 /\ r.try <= tries[r.from] /\ r.try \in Nat
        BY DEF TypeInv, Posted, StoreTypeOK, Requests
      <3>5. \A r \in line : r.from # s
        BY <3>1, <3>4
      <3>6. QED
        BY <3>3, <3>5 DEF MadeBy
    <2>6. InLine'
      BY <1>1, <2>1 DEF PlaceInv, InLine, spooler
    <2>7. OnePlace'
      BY <1>1, <1>4, <2>1, <2>4, <2>5 DEF PlaceInv, OnePlace, spooler
    <2>8. QED
      BY <2>4, <2>6, <2>7 DEF PlaceInv
  <1>5. ASSUME NEW s \in Senders, Sender(s), ~Post(s)
        PROVE  UNCHANGED <<spooler, wire, tries, era>>
    BY <1>5 DEF Sender, Refuses, LintRefuses, ArgumentRefused, TransportError,
                BeginsPolling, Polls, PollGivesUp
  <1>6. ASSUME NEW q \in wire, Handle(q) PROVE KeyInv' /\ PlaceInv'
    <2>1. wire' = wire \ {q} /\ tries' = tries /\ era' = era
      BY <1>6 DEF Handle
    <2>2. CASE UNCHANGED <<jobs, idem>>
      <3>1. Grows
        BY <2>2 DEF Grows
      <3>2. KeyInv' /\ \A s \in Senders : MadeBy(s)' = MadeBy(s)
        BY <1>1, <2>1, <2>2, <3>1, QuietStep
      <3>3. CASE line' = line
        BY <1>1, <2>1, <3>2, <3>3, FewerPlaces
      <3>4. CASE line' = line \cup {q} /\ ~IsRaw(q.from) /\ ~IsDry(q.from)
        <4>1. ~IsCommand(q.from)
          BY <1>1, <3>4, CommandsAreRaw
        <4>2. \A r \in wire' : r.from # q.from
          BY <2>1, <4>1, OneRequest
        <4>3. MadeBy(q.from) = {}
          BY <1>1, <4>1 DEF PlaceInv, OnePlace
        <4>4. InLine'
          BY <1>1, <3>4 DEF PlaceInv, InLine
        <4>5. OnePlace'
          BY <1>1, <2>1, <3>2, <3>4, <4>2, <4>3 DEF PlaceInv, OnePlace
        <4>6. QED
          BY <3>2, <4>4, <4>5 DEF PlaceInv
      <3>5. \/ line' = line
            \/ line' = line \cup {q} /\ ~IsRaw(q.from) /\ ~IsDry(q.from)
        <4>1. \/ IsNew(q.from) /\ ~IsRaw(q.from) /\ line' = line \cup {q}
              \/ UNCHANGED spooler
              \/ line' = line
          BY <1>6, Zenon DEF Handle
        <4>2. (UNCHANGED spooler) => line' = line
          BY DEF spooler
        <4>3. IsNew(q.from) => ~IsDry(q.from)
          BY DEF IsNew
        <4>4. QED
          BY <4>1, <4>2, <4>3, Zenon
      <3>6. QED
        BY <3>3, <3>4, <3>5
    <2>3. CASE Accept(q.from) /\ IsNew(q.from) /\ IsRaw(q.from) /\ ~IsBad(q.from)
               /\ line' = line
      <3>1. ~Hit(q.from) /\ ~IsDry(q.from)
        BY <1>1, <2>3, NewIsNotHit DEF IsNew
      <3>2. PICK kept \in BOOLEAN : kept = TRUE /\ jobs' = Append(jobs, Job(q.from, kept))
        BY <2>3, Zenon DEF Accept
      <3>7. \/ Accept(q.from) /\ kept = TRUE
            \/ idem' = idem /\ (kept <=> ~Keyed(q.from))
        BY <2>3, <3>2, Zenon
      <3>3. KeyInv' /\ \A t \in Senders : t # q.from => MadeBy(t)' = MadeBy(t)
        <4>1. q \in wire \cup line
          OBVIOUS
        <4>2. ~IsDry(q.from) /\ ~IsBad(q.from) /\ (IsRaw(q.from) => ~Hit(q.from))
          BY <2>3, <3>1
        <4>3. QED
          BY <1>1, <2>1, <3>2, <3>7, <4>1, <4>2, BecomesJob
      <3>4. \A r \in wire' : ~IsCommand(r.from) => r.from # q.from
        BY <2>1, OneRequest
      <3>5. \A r \in line : r.from # q.from
        BY <1>1, <2>3 DEF PlaceInv, InLine
      <3>6. QED
        BY <1>1, <2>1, <2>3, <3>3, <3>4, <3>5, FewerPlaces
    <2>4. QED
      BY <1>6, <2>2, <2>3 DEF Handle, AcceptOrRefuse, spooler
  <1>7. ASSUME NEW q \in line, Rendered(q) PROVE KeyInv' /\ PlaceInv'
    <2>1. wire' = wire /\ line' = line \ {q} /\ tries' = tries /\ era' = era
      BY <1>7 DEF Rendered
    <2>2. CASE UNCHANGED <<jobs, idem>>
      <3>1. Grows
        BY <2>2 DEF Grows
      <3>2. KeyInv' /\ \A s \in Senders : MadeBy(s)' = MadeBy(s)
        BY <1>1, <2>1, <2>2, <3>1, QuietStep
      <3>3. QED
        BY <1>1, <2>1, <3>2, FewerPlaces
    <2>3. CASE Accept(q.from) /\ ~IsBad(q.from)
      <3>1. ~IsDry(q.from) /\ ~IsRaw(q.from) /\ ~IsCommand(q.from)
        BY <1>1, CommandsAreRaw DEF PlaceInv, InLine
      <3>2. PICK kept \in BOOLEAN : kept = TRUE /\ jobs' = Append(jobs, Job(q.from, kept))
        BY <2>3, Zenon DEF Accept
      <3>7. \/ Accept(q.from) /\ kept = TRUE
            \/ idem' = idem /\ (kept <=> ~Keyed(q.from))
        BY <2>3, <3>2, Zenon
      <3>3. KeyInv' /\ \A t \in Senders : t # q.from => MadeBy(t)' = MadeBy(t)
        <4>1. q \in wire \cup line
          OBVIOUS
        <4>2. ~IsDry(q.from) /\ ~IsBad(q.from) /\ (IsRaw(q.from) => ~Hit(q.from))
          BY <2>3, <3>1
        <4>3. QED
          BY <1>1, <2>1, <3>2, <3>7, <4>1, <4>2, BecomesJob
      <3>4. \A r \in wire : r.from # q.from
        BY <1>1, <3>1 DEF PlaceInv, OnePlace
      <3>5. \A r \in line' : r.from # q.from
        BY <2>1, <3>1, OneRequest
      <3>6. QED
        BY <1>1, <2>1, <3>3, <3>4, <3>5, FewerPlaces
    <2>4. QED
      BY <1>7, <2>2, <2>3 DEF Rendered, AcceptOrRefuse
  <1>8. CASE Crash
    <2>1. /\ line' = {} /\ idem' = idem /\ tries' = tries /\ era' = era
      BY <1>8 DEF Crash
    <2>2. CASE UNCHANGED <<jobs, wire>>
      <3>1. Grows
        BY <2>2 DEF Grows
      <3>2. KeyInv' /\ \A s \in Senders : MadeBy(s)' = MadeBy(s)
        BY <1>1, <2>1, <2>2, <3>1, QuietStep
      <3>3. QED
        BY <1>1, <2>1, <2>2, <3>2, FewerPlaces
    <2>3. CASE \E q \in wire \cup line :
                 /\ ~IsDry(q.from) /\ ~IsBad(q.from) /\ (IsRaw(q.from) => ~Hit(q.from))
                 /\ \E kept \in BOOLEAN : /\ kept <=> ~Keyed(q.from)
                                          /\ jobs' = Append(jobs, Job(q.from, kept))
                 /\ wire' \subseteq wire
                 /\ \A r \in wire' : ~IsCommand(r.from) => r.from # q.from
      <3>1. PICK q \in wire \cup line :
                 /\ ~IsDry(q.from) /\ ~IsBad(q.from) /\ (IsRaw(q.from) => ~Hit(q.from))
                 /\ \E kept \in BOOLEAN : /\ kept <=> ~Keyed(q.from)
                                          /\ jobs' = Append(jobs, Job(q.from, kept))
                 /\ wire' \subseteq wire
                 /\ \A r \in wire' : ~IsCommand(r.from) => r.from # q.from
        BY <2>3
      <3>2. KeyInv' /\ \A t \in Senders : t # q.from => MadeBy(t)' = MadeBy(t)
        BY <1>1, <2>1, <3>1, BecomesJob
      <3>3. QED
        BY <1>1, <2>1, <3>1, <3>2, FewerPlaces
    <2>4. ASSUME NEW q \in wire, IsNew(q.from), IsRaw(q.from), ~IsBad(q.from),
                 jobs' = Append(jobs, Job(q.from, ~Keyed(q.from))), wire' = wire \ {q}
          PROVE  KeyInv' /\ PlaceInv'
      <3> DEFINE kept == ~Keyed(q.from)
      <3>1. ~IsDry(q.from) /\ ~Hit(q.from)
        BY <1>1, <2>4, NewIsNotHit DEF IsNew
      <3>2. \A r \in wire' : ~IsCommand(r.from) => r.from # q.from
        BY <2>4, OneRequest
      <3>3. kept \in BOOLEAN /\ (kept <=> ~Keyed(q.from)) /\ jobs' = Append(jobs, Job(q.from, kept))
        BY <2>4
      <3>4. QED
        BY <2>3, <2>4, <3>1, <3>2, <3>3
    <2>5. ASSUME NEW q \in line, ~IsBad(q.from), wire' = wire,
                 jobs' = Append(jobs, Job(q.from, ~Keyed(q.from)))
          PROVE  KeyInv' /\ PlaceInv'
      <3> DEFINE kept == ~Keyed(q.from)
      <3>1. ~IsDry(q.from) /\ ~IsRaw(q.from)
        BY <1>1 DEF PlaceInv, InLine
      <3>2. \A r \in wire' : ~IsCommand(r.from) => r.from # q.from
        BY <1>1, <2>5 DEF PlaceInv, OnePlace
      <3>3. kept \in BOOLEAN /\ (kept <=> ~Keyed(q.from)) /\ jobs' = Append(jobs, Job(q.from, kept))
        BY <2>5
      <3>4. QED
        BY <2>3, <2>5, <3>1, <3>2, <3>3
    <2>6. QED
      BY <1>8, <2>2, <2>4, <2>5 DEF Crash
  <1>9. CASE (\E i \in DOMAIN jobs : Settle(i)) \/ Start
    <2>1. UNCHANGED <<idem, line, wire, tries, era>>
      BY <1>9 DEF Settle, Start, senders
    <2>2. Grows /\ DOMAIN jobs' = DOMAIN jobs
      BY <1>1, <1>9, SettleGrows
    <2>3. KeyInv' /\ \A s \in Senders : MadeBy(s)' = MadeBy(s)
      BY <1>1, <2>1, <2>2, QuietStep
    <2>4. QED
      BY <1>1, <2>1, <2>3, FewerPlaces
  <1>10. ASSUME NEW k \in ScopedKeys, Expire(k) PROVE KeyInv' /\ PlaceInv'
    <2>1. UNCHANGED <<jobs, line, wire, tries>> /\ era' = [era EXCEPT ![k] = @ + 1]
          /\ idem' = [idem EXCEPT ![k].fresh = FALSE] /\ era \in [ScopedKeys -> Nat]
      BY <1>1, <1>10, SendersAssumption DEF Expire, senders, StoreTypeOK
    <2>2. \A s \in Senders : MadeBy(s)' = MadeBy(s)
      BY <2>1 DEF MadeBy
    <2>3. PlaceInv'
      BY <1>1, <2>1, <2>2, FewerPlaces
    <2>4. /\ \A s \in Senders : Keyed(s) /\ ScopedKey(s) = k => EraOf(s)' = EraOf(s) + 1
          /\ \A s \in Senders : ~(Keyed(s) /\ ScopedKey(s) = k) =>
                EraOf(s)' = EraOf(s) /\ (HeldFor(s) => HeldFor(s)')
          /\ \A s \in Senders : EraOf(s) \in Nat
      <3>1. \A s \in Senders : Keyed(s) => ScopedKey(s) \in ScopedKeys
        BY KeysAreScoped
      <3>2. \A s \in Senders : EraOf(s) \in Nat
        BY <2>1, <3>1 DEF EraOf
      <3>3. \A s \in Senders : Keyed(s) /\ ScopedKey(s) = k => EraOf(s)' = EraOf(s) + 1
        BY <2>1, <3>1 DEF EraOf
      <3>4. \A s \in Senders : ~(Keyed(s) /\ ScopedKey(s) = k) => EraOf(s)' = EraOf(s)
        BY <2>1, <3>1 DEF EraOf
      <3>5. \A s \in Senders : ~(Keyed(s) /\ ScopedKey(s) = k) =>
                (HeldFor(s) => HeldFor(s)')
        BY <1>1, <2>1, <3>1 DEF HeldFor, Hit, StoreTypeOK
      <3>6. QED
        BY <3>2, <3>3, <3>4, <3>5
    <2>5. \A i \in DOMAIN jobs : jobs[i].by \in Senders /\ jobs[i].era \in Nat
      BY <1>1, JobsType, SendersAssumption DEF JobRecords
    <2>6. ASSUME NEW i \in DOMAIN jobs PROVE (RightAt(i, jobs[i].by) /\ HeldAt(i, jobs[i].by))'
      <3>1. RightAt(i, jobs[i].by) /\ HeldAt(i, jobs[i].by)
        BY <1>1 DEF KeyInv, MadeRight, KeyIsHeld
      <3>2. PICK s \in Senders : s = jobs[i].by
        BY <2>5
      <3>3. CASE Keyed(s) /\ ScopedKey(s) = k
        <4>1. EraOf(s)' = EraOf(s) + 1 /\ EraOf(s) \in Nat /\ jobs[i].era \in Nat
          BY <2>4, <2>5, <3>2, <3>3
        <4>2. jobs[i].era <= EraOf(s)
          BY <3>1, <3>2 DEF RightAt
        <4>3. jobs[i].era <= EraOf(s)' /\ jobs[i].era # EraOf(s)'
          BY <4>1, <4>2
        <4>4. QED
          BY <2>1, <3>1, <3>2, <4>3 DEF RightAt, HeldAt
      <3>4. CASE ~(Keyed(s) /\ ScopedKey(s) = k)
        <4>1. EraOf(s)' = EraOf(s) /\ (HeldFor(s) => HeldFor(s)')
          BY <2>4, <3>4
        <4>2. QED
          BY <2>1, <3>1, <3>2, <4>1 DEF RightAt, HeldAt
      <3>5. QED
        BY <3>3, <3>4
    <2>7. MadeRight' /\ KeyIsHeld'
      BY <2>1, <2>6 DEF MadeRight, KeyIsHeld
    <2>8. OneJobPerKey'
      BY <1>1, <2>1 DEF KeyInv, OneJobPerKey
    <2>9. QED
      BY <2>3, <2>7, <2>8 DEF KeyInv
  <1>11. CASE McpRestarts \/ (SchemaNext /\ UNCHANGED <<spooler, senders, era, crashes>>)
              \/ UNCHANGED vars
    BY <1>3, <1>11 DEF McpRestarts, senders, vars
  <1>12. QED
    BY <1>3, <1>4, <1>5, <1>6, <1>7, <1>8, <1>9, <1>10, <1>11 DEF Next

LEMMA JobInvariant == Spec => [](TypeInv /\ JobInv)
  <1>1. Init => JobInv
    BY DEF Init, JobInv, MadeRight, KeyIsHeld, InLine, OnePlace, OneJobPerKey
  <1>2. TypeInv /\ JobInv /\ [Next]_vars => JobInv'
    BY JobStep
  <1>3. QED
    BY <1>1, <1>2, TypeInvariant, PTL DEF Spec

\* Retries, reruns, late requests and lost answers make one job: however many
\* senders share a key, in one life of it a second job of /print/raw comes only
\* after a crash between the first one's accepted record and its key's.
THEOREM OneJob == Spec => []OneJobPerKey
  BY JobInvariant, PTL DEF JobInv

-----------------------------------------------------------------------------
(* What a sender reports when it ends.                                     *)

Truthful(s) ==
    /\ end'[s] \in {"accepted", "printed", "unprinted"} /\ Tool[s] # "status"
         => Payload[jobs'[told'[s]].by] = Payload[s]
    /\ end'[s] \in {"printed", "unprinted"} => jobs'[told'[s]].status = end'[s]
    /\ end'[s] \in {"refused", "lint", "dry"} => MadeBy(s)' = {}
    /\ end'[s] = "rejected" =>
         \A i \in MadeBy(s)' : ~jobs'[i].keyed \/ jobs'[i].era < EraOf(s)'

\* No job is there of a sender that has posted nothing, nothing but dry
\* requests or nothing but malformed ones.
LEMMA MadeNothing ==
    ASSUME TypeInv, JobInv, NEW s \in Senders, stage[s] = "new" \/ IsDry(s) \/ IsBad(s)
    PROVE  MadeBy(s) = {}
  <1>1. \A i \in DOMAIN jobs : LET t == jobs[i].by IN tries[t] >= 1 /\ ~IsDry(t) /\ ~IsBad(t)
    BY DEF JobInv, MadeRight, RightAt
  <1>2. stage[s] = "new" => tries[s] = 0
    BY DEF TypeInv, Budget
  <1>3. QED
    BY <1>1, <1>2 DEF MadeBy

\* A rejected sender has no job whose key is still held for it.
LEMMA RejectedTruth ==
    ASSUME TypeInv, JobInv, NEW s \in Senders, end'[s] = "rejected",
           jobs' = jobs, era' = era,
           \/ MadeBy(s) = {}
           \/ IsCommand(s) /\ (Hit(s) => idem[ScopedKey(s)].payload # Payload[s])
    PROVE  Truthful(s)
  <1>1. EraOf(s)' = EraOf(s) /\ MadeBy(s)' = MadeBy(s)
    BY DEF EraOf, MadeBy
  <1>2. ASSUME NEW i \in MadeBy(s) PROVE ~jobs[i].keyed \/ jobs[i].era < EraOf(s)
    <2>1. i \in DOMAIN jobs /\ jobs[i].by = s
      BY <1>2 DEF MadeBy
    <2>2. RightAt(i, s) /\ HeldAt(i, s)
      BY <2>1 DEF JobInv, MadeRight, KeyIsHeld
    <2>3. IsCommand(s) /\ Keyed(s) /\ ~HeldFor(s)
      BY <1>2, CommandKeys DEF HeldFor
    <2>4. ~jobs[i].keyed \/ jobs[i].era # EraOf(s)
      BY <2>2, <2>3 DEF HeldAt
    <2>5. jobs[i].era \in Int /\ EraOf(s) \in Int
      BY <2>1, JobsType, EraType, SendersAssumption DEF TypeInv, JobRecords
    <2>6. jobs[i].era # EraOf(s) => jobs[i].era < EraOf(s)
      BY <2>2, <2>5 DEF RightAt
    <2>7. QED
      BY <2>4, <2>6
  <1>3. QED
    BY <1>1, <1>2 DEF Truthful

\* A sender that is told of a job is told of one with its bytes.
LEMMA HeardTruth ==
    ASSUME TypeInv, JobInv, NEW s \in Senders, NEW job, Hears(s, job),
           end[s] = None, end'[s] # None,
           IsDry(s) => jobs' = jobs,
           IsDry(s) \/ Payload[jobs'[job].by] = Payload[s]
    PROVE  Truthful(s)
  <1>1. end \in [Senders -> Ends \cup {None}] /\ told \in [Senders -> Nat \cup {None}]
    BY DEF TypeInv, SenderTypeOK
  <1>2. told'[s] = job
    BY <1>1 DEF Hears
  <1>3. end'[s] = (IF IsDry(s) THEN "dry" ELSE "accepted")
    BY <1>1 DEF Hears, EndAs
  <1>4. CASE IsDry(s)
    <2>1. MadeBy(s)' = {}
      BY <1>4, MadeNothing DEF MadeBy
    <2>2. QED
      BY <1>3, <1>4, <2>1 DEF Truthful
  <1>5. CASE ~IsDry(s)
    BY <1>2, <1>3, <1>5 DEF Truthful
  <1>6. QED
    BY <1>4, <1>5

LEMMA TruthStep ==
    ASSUME TypeInv, JobInv, [Next]_vars, NEW s \in Senders,
           end[s] = None, end'[s] # None
    PROVE  Truthful(s)
  <1>1. /\ StoreTypeOK /\ end \in [Senders -> Ends \cup {None}]
        /\ stage \in [Senders -> {"new", "sent", "again", "polling", "done"}]
        /\ told \in [Senders -> Nat \cup {None}]
        /\ \A q \in wire \cup line : q.from \in Senders
    BY DEF TypeInv, SenderTypeOK, StoreTypeOK, Requests
  <1>2. \A t, e : EndAs(t, e) => s = t /\ end'[s] = e
    BY <1>1 DEF EndAs
  <1>3. ASSUME NEW t \in Senders, Sender(t) PROVE Truthful(s)
    <2>1. CASE Refuses(t) \/ LintRefuses(t) \/ ArgumentRefused(t)
      <3>1. jobs' = jobs /\ stage[t] = "new" /\ s = t /\ end'[s] \in {"refused", "lint"}
        BY <1>2, <2>1 DEF Refuses, LintRefuses, ArgumentRefused, spooler
      <3>2. MadeBy(s)' = {}
        BY <3>1, MadeNothing DEF MadeBy
      <3>3. QED
        BY <3>1, <3>2 DEF Truthful
    <2>2. CASE PollGivesUp(t) \/ TransportError(t)
      <3>1. end'[s] \in {"unknown", "network"}
        BY <1>2, <2>2 DEF PollGivesUp, TransportError
      <3>2. QED
        BY <3>1 DEF Truthful
    <2>3. CASE Polls(t)
      <3>1. /\ s = t /\ end'[s] = Sees(jobs[told[s]].status) /\ jobs' = jobs /\ told' = told
            /\ stage[s] = "polling" /\ told[s] \notin Pending
        BY <1>2, <2>3 DEF Polls, spooler
      <3>2. /\ told[s] \in DOMAIN jobs
            /\ Tool[s] # "status" => Payload[jobs[told[s]].by] = Payload[s]
        BY <3>1 DEF TypeInv, PollersName
      <3>3. jobs[told[s]].status \in {"printed", "unprinted", "pruned"}
        BY <1>1, <3>1, <3>2, JobsType DEF Pending, JobRecords, Statuses
      <3>4. \/ end'[s] = "unknown"
            \/ end'[s] = jobs[told[s]].status /\ end'[s] \in {"printed", "unprinted"}
        BY <3>1, <3>3 DEF Sees
      <3>5. QED
        BY <3>1, <3>2, <3>4 DEF Truthful
    <2>4. QED
      BY <1>3, <2>1, <2>2, <2>3 DEF Sender, Post, BeginsPolling
  <1>4. CASE McpRestarts
    <2>1. end'[s] = "network"
      BY <1>4 DEF McpRestarts
    <2>2. QED
      BY <2>1 DEF Truthful
  <1>5. ASSUME NEW q, q.from \in Senders, Deliver(q, Rejected(q.from)), UNCHANGED <<jobs, era>>,
               \/ MadeBy(q.from) = {}
               \/ /\ IsCommand(q.from)
                  /\ Hit(q.from) => idem[ScopedKey(q.from)].payload # Payload[q.from]
        PROVE  Truthful(s)
    <2>1. s = q.from /\ end'[s] = "rejected"
      BY <1>2, <1>5 DEF Deliver, Rejected
    <2>2. QED
      BY <1>5, <2>1, RejectedTruth
  <1>6. ASSUME NEW q, NEW job, q.from \in Senders, Deliver(q, Hears(q.from, job)),
               IsDry(q.from) => jobs' = jobs,
               IsDry(q.from) \/ Payload[jobs'[job].by] = Payload[q.from]
        PROVE  Truthful(s)
    <2>1. s = q.from /\ Hears(q.from, job)
      BY <1>2, <1>6 DEF Deliver, Hears
    <2>2. QED
      BY <1>6, <2>1, HeardTruth
  <1>7. ASSUME NEW q, q.from \in Senders, AcceptOrRefuse(q), era' = era, ~IsDry(q.from),
               MadeBy(q.from) = {} \/ (IsCommand(q.from) /\ ~Hit(q.from))
        PROVE  Truthful(s)
    <2>1. CASE Deliver(q, Rejected(q.from)) /\ UNCHANGED <<jobs, idem>>
      BY <1>5, <1>7, <2>1
    <2>2. CASE Accept(q.from) /\ Deliver(q, Hears(q.from, Len(jobs) + 1))
      <3>1. Added(Job(q.from, TRUE))
        BY <1>7, <2>2, AcceptStep
      <3>2. jobs'[Len(jobs) + 1].by = q.from
        BY <3>1 DEF Added, Job
      <3>3. QED
        BY <1>6, <1>7, <2>2, <3>2
    <2>3. QED
      BY <1>7, <2>1, <2>2 DEF AcceptOrRefuse
  <1>8. ASSUME NEW q \in wire, Handle(q) PROVE Truthful(s)
    <2>1. q.from \in Senders /\ era' = era /\ (~IsCommand(q.from) => MadeBy(q.from) = {})
      BY <1>1, <1>8 DEF Handle, JobInv, OnePlace
    <2>2. CASE /\ IsBad(q.from) \/ Conflict(q.from)
               /\ Deliver(q, Rejected(q.from)) /\ UNCHANGED spooler
      <3>1. IsBad(q.from) => MadeBy(q.from) = {}
        BY <2>1, MadeNothing
      <3>2. Conflict(q.from) => idem[ScopedKey(q.from)].payload # Payload[q.from]
        BY DEF Conflict
      <3>3. QED
        BY <1>5, <2>1, <2>2, <3>1, <3>2 DEF spooler
    <2>3. CASE IsDry(q.from) /\ Deliver(q, Hears(q.from, None)) /\ UNCHANGED spooler
      BY <1>6, <2>1, <2>3 DEF spooler
    <2>4. CASE /\ Duplicate(q.from) /\ ~IsDry(q.from) /\ UNCHANGED spooler
               /\ Deliver(q, Hears(q.from, idem[ScopedKey(q.from)].job))
      <3> DEFINE entry == idem[ScopedKey(q.from)]
      <3>1. ScopedKey(q.from) \in ScopedKeys /\ entry # None /\ entry.payload = Payload[q.from]
        BY <2>1, <2>4, KeysAreScoped DEF Duplicate, Hit, Conflict
      <3>2. entry.payload = Payload[jobs[entry.job].by]
        BY <3>1 DEF TypeInv, EntriesName
      <3>3. Payload[jobs'[entry.job].by] = Payload[q.from]
        BY <2>4, <3>1, <3>2 DEF spooler
      <3>4. QED
        BY <1>6, <2>1, <2>4, <3>3
    <2>5. CASE IsNew(q.from) /\ IsRaw(q.from) /\ AcceptOrRefuse(q)
      <3>1. ~Hit(q.from) /\ ~IsDry(q.from)
        BY <2>1, <2>5, NewIsNotHit DEF IsNew
      <3>2. QED
        BY <1>7, <2>1, <2>5, <3>1
    <2>6. QED
      BY <1>8, <2>2, <2>3, <2>4, <2>5 DEF Handle
  <1>9. ASSUME NEW q \in line, Rendered(q) PROVE Truthful(s)
    <2>1. /\ q.from \in Senders /\ era' = era /\ MadeBy(q.from) = {} /\ ~IsDry(q.from)
      BY <1>1, <1>9 DEF Rendered, JobInv, OnePlace, InLine
    <2>2. CASE Deliver(q, Rejected(q.from)) /\ UNCHANGED <<jobs, idem>>
      BY <1>5, <2>1, <2>2
    <2>3. CASE AcceptOrRefuse(q)
      BY <1>7, <2>1, <2>3
    <2>4. QED
      BY <1>9, <2>2, <2>3 DEF Rendered
  <1>10. CASE (\E i \in DOMAIN jobs : Settle(i)) \/ (\E k \in ScopedKeys : Expire(k))
              \/ Crash \/ Start \/ UNCHANGED senders \/ UNCHANGED vars
    BY <1>10 DEF Settle, Expire, Crash, Start, senders, vars
  <1>11. QED
    BY <1>3, <1>4, <1>8, <1>9, <1>10 DEF Next

\* What a command or tool reports is so: an accepted or waited-for job is in
\* the service with the sender's bytes and has ended as reported, and a sender
\* that was refused, linted, run dry or rejected has left no job behind, unless
\* a crash lost the job's key or the key has expired since.
THEOREM ReportsAreTrue == Spec => ReportsTruth
  <1>1. ASSUME TypeInv, JobInv, [Next]_vars
        PROVE  \A s \in Senders : end[s] = None /\ end'[s] # None => Truthful(s)
    BY <1>1, TruthStep
  <1>2. TypeInv /\ JobInv /\ [Next]_vars =>
          [\A s \in Senders : end[s] = None /\ end'[s] # None => Truthful(s)]_vars
    BY <1>1
  <1>3. Spec => [][\A s \in Senders : end[s] = None /\ end'[s] # None => Truthful(s)]_vars
    BY <1>2, JobInvariant, PTL DEF Spec
  <1>4. QED
    BY <1>3 DEF ReportsTruth, Truthful

-----------------------------------------------------------------------------
(* What the MCP server lists.                                              *)

Held(l) ==
    listing'[l] = "done" /\ listing[l] # "done" /\ phase' = phase
      => (live' => shown'[l] # None)

LEMMA ListStep ==
    ASSUME TypeInv, [Next]_vars, NEW l \in Listings
    PROVE  Held(l)
  <1>1. /\ live = (snapshot # None) /\ shown \in [Listings -> {None} \cup 1 .. version]
        /\ listing \in [Listings -> {"new", "fetching", "fetched", "done"}]
    BY DEF TypeInv, SchemaTypeOK
  <1>2. CASE UNCHANGED listing
    BY <1>2 DEF Held
  <1>3. ASSUME NEW m \in Listings,
               \/ ListAtOnce(m) \/ ListRefreshes(m) \/ SchemaAnswered(m)
               \/ RefreshSucceeds(m) \/ RefreshFails(m)
        PROVE  Held(l)
    <2>1. CASE ListAtOnce(m)
      BY <1>1, <2>1 DEF ListAtOnce, Show, Offered, IsFallback, Held
    <2>2. CASE ListRefreshes(m)
      BY <1>1, <2>2 DEF ListRefreshes, Held
    <2>3. CASE SchemaAnswered(m)
      BY <1>1, <2>3 DEF SchemaAnswered, Held
    <2>4. CASE RefreshSucceeds(m)
      <3>1. fetched[m] # None
        BY <2>4 DEF RefreshSucceeds, TypeInv, FetchedKnown
      <3>2. QED
        BY <1>1, <2>4, <3>1 DEF RefreshSucceeds, Show, Offered, Held
    <2>5. CASE RefreshFails(m)
      BY <1>1, <2>5 DEF RefreshFails, Show, Offered, Held
    <2>6. QED
      BY <1>3, <2>1, <2>2, <2>3, <2>4, <2>5
  <1>4. CASE McpRestarts
    BY <1>4 DEF McpRestarts, Relaunch, Held
  <1>5. CASE UNCHANGED schemas
    BY <1>2, <1>5 DEF schemas
  <1>6. ASSUME NEW s \in Senders, Sender(s) PROVE UNCHANGED schemas
    BY <1>6 DEF Sender, Post, Refuses, LintRefuses, ArgumentRefused, TransportError,
                BeginsPolling, Polls, PollGivesUp
  <1>7. CASE (\E q \in wire : Handle(q)) \/ (\E q \in line : Rendered(q))
             \/ (\E i \in DOMAIN jobs : Settle(i)) \/ (\E k \in ScopedKeys : Expire(k))
             \/ Crash \/ Start
    BY <1>5, <1>7 DEF Handle, Rendered, Settle, Expire, Crash, Start
  <1>8. CASE SchemaNext
    BY <1>2, <1>3, <1>8 DEF SchemaNext, BootFetches, BootGivesUp
  <1>9. QED
    BY <1>4, <1>5, <1>6, <1>7, <1>8 DEF Next, vars

\* However listings interleave with each other's refreshes, with a restart of
\* the MCP server and with upgrades of the service, one that ends while the
\* server holds a fetched schema offers a fetched schema, never the fallback.
THEOREM ListsHeld == Spec => ListsWhatIsHeld
  <1>1. ASSUME TypeInv, [Next]_vars PROVE \A l \in Listings : Held(l)
    BY <1>1, ListStep
  <1>2. TypeInv /\ [Next]_vars => [\A l \in Listings : Held(l)]_<<service, schemas>>
    BY <1>1
  <1>3. Spec => [][\A l \in Listings : Held(l)]_<<service, schemas>>
    BY <1>2, TypeInvariant, PTL DEF Spec
  <1>4. QED
    BY <1>3 DEF ListsWhatIsHeld, Held
==============================================================================
