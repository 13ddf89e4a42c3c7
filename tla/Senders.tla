------------------------------- MODULE Senders -------------------------------
(***************************************************************************)
(* The programs that send jobs to the print service, over a network that   *)
(* loses and delays: the design CLI (design/tprint_design/client.py and    *)
(* cli.py: print, send and status) and the tools of the MCP server         *)
(* (mcp-server/printer_mcp/server.py and client.py).                       *)
(*                                                                         *)
(* The service is the abstract one that HttpIngest details: a request of   *)
(* /print/raw is handled in one step, one of /print in two, and a crash    *)
(* may come between a job's accepted record and its key's.  A request is   *)
(* in `wire` from its POST until it is handled, also when its sender no    *)
(* longer waits for the answer.                                            *)
(***************************************************************************)
EXTENDS SchemaCache, Sequences, FiniteSetsExt

CONSTANTS
    Senders,        \* runs of a CLI command and calls of an MCP tool
    Tool,           \* of each: "print", "send", "status", "print_image",
                    \*   "print_document" or "preview_document"
    Payload,        \* the bytes it sends
    Malformed,      \* payloads that the service answers with 400 or 413
    Given,          \* the idempotency key it was given, or None
    DryRun,         \* senders with --dry-run
    Waits,          \* senders with --wait
    Host,           \* of each command: what PRINT_SERVICE_URL names
    AllowPublic,    \* senders with --allow-public-url
    Attempts,       \* attempts of post_print_raw_with_retry
    MaxDepth        \* max_queue_depth of the service

CONSTANTS           \* bounds of the checked instances
    MaxActive,      \* senders and tool listings that take part
    MaxCrashes,     \* ends of the service or of the MCP server
    MaxEras         \* times a key may outlive the idempotency TTL

Commands  == {"print", "send", "status"}
Tools     == Commands \cup {"print_image", "print_document", "preview_document"}
Hosts     == {"unset", "malformed", "local", "tailnet", "private", "public", "name"}
\* "unprinted" is expired, retry_timeout or unknown_partial; of "pruned" jobs
\* the log has no record.
Statuses  == {"pending", "printed", "unprinted", "pruned"}
Ends      == {"refused", "lint", "accepted", "dry", "rejected", "network",
              "printed", "unprinted", "unknown", "idle"}

ASSUME SendersAssumption ==
    /\ Tool \in [Senders -> Tools] /\ Host \in [Senders -> Hosts]
    /\ DryRun \subseteq Senders /\ Waits \subseteq Senders /\ AllowPublic \subseteq Senders
    /\ DOMAIN Payload = Senders /\ DOMAIN Given = Senders
    /\ Attempts \in Nat \ {0} /\ MaxDepth \in Nat \ {0}
    /\ MaxActive \in Nat /\ MaxCrashes \in Nat /\ MaxEras \in Nat

\* An idempotency entry, and what is told apart from Python's None.
Entries == [job : Nat, payload : {Payload[s] : s \in Senders}, fresh : BOOLEAN]
ASSUME NoneAssumption ==
    /\ None \notin Ends /\ None \notin Entries
    /\ \A s \in Senders : <<"sha256", Payload[s]>> # None

VARIABLES           \* the service
    jobs,           \* the jobs it accepted, in order
    idem,           \* the idempotency entry of each scoped key, or None
    line            \* requests of /print that wait for the renderer

VARIABLES           \* the senders and the network
    stage,          \* of each sender
    tries,          \* requests it has posted
    wire,           \* requests on their way
    told,           \* the job it was told, or None
    end             \* how it ended, or None

VARIABLES era, crashes

spooler == <<jobs, idem, line>>
senders == <<stage, tries, wire, told, end>>
vars    == <<service, schemas, spooler, senders, era, crashes>>

IsCommand(s) == Tool[s] \in Commands
Scope(s) == IF IsCommand(s) THEN "tprint-design" ELSE "mcp"

\* derive_idempotency_key names the payload; the MCP tools derive nothing.
KeyIfGiven(s) == Given[s]                                         \* mutant
KeyOf(s) == IF Given[s] = None /\ IsCommand(s) THEN <<"sha256", Payload[s]>> ELSE Given[s]
Keyed(s) == KeyOf(s) # None
ScopedKey(s) == <<Scope(s), KeyOf(s)>>
ScopedKeys == {ScopedKey(s) : s \in {t \in Senders : Keyed(t)}}

IsDry(s) == s \in DryRun \/ Tool[s] = "preview_document"
IsRaw(s) == Tool[s] \notin {"print_document", "preview_document"}

Init ==
    /\ jobs = <<>> /\ line = {} /\ wire = {}
    /\ idem = [k \in ScopedKeys |-> None] /\ era = [k \in ScopedKeys |-> 0]
    /\ \E active \in kSubset(MaxActive, Senders \cup Listings) :
         /\ SchemaInit(active, \E a \in active : a \in Listings \/ ~IsCommand(a))
         /\ stage = [s \in Senders |-> IF s \in active THEN "new" ELSE "done"]
         /\ end = [s \in Senders |-> IF s \in active THEN None ELSE "idle"]
    /\ tries = [s \in Senders |-> 0] /\ told = [s \in Senders |-> None]
    /\ crashes = 0

-----------------------------------------------------------------------------
(* A sender starts, posts, and hears or does not hear.                     *)

EndAs(s, e) ==
    /\ stage' = [stage EXCEPT ![s] = "done"]
    /\ end' = [end EXCEPT ![s] = e]

\* validate_print_service_url: private, loopback, link-local and CGNAT
\* addresses are the "private" ones.
Reachable(s) ==
    \/ Host[s] \in {"local", "tailnet", "private"}
    \/ Host[s] \in {"public", "name"} /\ s \in AllowPublic

\* An MCP tool needs a server that has booted; it posts and waits, and so
\* does a command whose design compiles and has no lint error.
Post(s) ==
    /\ stage[s] \in {"new", "again"} /\ Tool[s] # "status"
    /\ IF IsCommand(s) THEN Reachable(s) ELSE phase = "serving"
    /\ stage' = [stage EXCEPT ![s] = "sent"]
    /\ tries' = [tries EXCEPT ![s] = @ + 1]
    /\ wire' = wire \cup {[from |-> s, try |-> tries[s] + 1]}
    /\ UNCHANGED <<service, schemas, spooler, told, end, era, crashes>>

\* Exit 2 before anything is sent: the URL, the compiler or the PNG's width.
Refuses(s) ==
    /\ stage[s] = "new" /\ IsCommand(s)
    /\ ~Reachable(s) \/ Tool[s] # "status"
    /\ EndAs(s, "refused")
    /\ UNCHANGED <<service, schemas, spooler, tries, wire, told, era, crashes>>

\* Exit 1: `print` lints what it compiled, `send` does not.
LintRefuses(s) ==
    /\ stage[s] = "new" /\ Tool[s] = "print" /\ Reachable(s)
    /\ EndAs(s, "lint")
    /\ UNCHANGED <<service, schemas, spooler, tries, wire, told, era, crashes>>

\* A tool call with an argument that is missing, too large or not base64.
ArgumentRefused(s) ==
    /\ stage[s] = "new" /\ ~IsCommand(s) /\ phase = "serving"
    /\ EndAs(s, "refused")
    /\ UNCHANGED <<service, schemas, spooler, tries, wire, told, era, crashes>>

\* A transport error: the request or its answer is lost or late (a lost request
\* is one that is never handled).  Only the CLI's POST is tried again.
MayRetryPast(s) == IsCommand(s) /\ tries[s] <= Attempts           \* mutant
MayRetry(s) == IsCommand(s) /\ tries[s] < Attempts

TransportError(s) ==
    /\ stage[s] = "sent"
    /\ IF MayRetry(s)
         THEN stage' = [stage EXCEPT ![s] = "again"] /\ UNCHANGED end
         ELSE EndAs(s, "network")
    /\ UNCHANGED <<service, schemas, spooler, tries, wire, told, era, crashes>>

-----------------------------------------------------------------------------
(* What the service does with a request, and how its sender goes on.       *)

Pending == {i \in DOMAIN jobs : jobs[i].status = "pending"}
Full == Cardinality(Pending) >= MaxDepth

Hit(s) == Keyed(s) /\ idem[ScopedKey(s)] # None /\ idem[ScopedKey(s)].fresh
Conflict(s) == Hit(s) /\ idem[ScopedKey(s)].payload # Payload[s]
Duplicate(s) ==
    /\ Hit(s) /\ ~Conflict(s)
    /\ IsRaw(s) \/ jobs[idem[ScopedKey(s)].job].status # "pruned"

\* Without --wait an accepted or dry command is over; with it it polls.
Hears(s, job) ==
    /\ told' = [told EXCEPT ![s] = job]
    /\ IF IsCommand(s) /\ s \in Waits /\ ~IsDry(s)
         THEN stage' = [stage EXCEPT ![s] = "polling"] /\ UNCHANGED end
         ELSE EndAs(s, IF IsDry(s) THEN "dry" ELSE "accepted")

Rejected(s) == EndAs(s, "rejected") /\ UNCHANGED told

\* The answer reaches a sender that still waits for it, or is lost.
Deliver(q, answer) ==
    \/ stage[q.from] = "sent" /\ tries[q.from] = q.try /\ answer
    \/ UNCHANGED <<stage, end, told>>

EraOf(s) == IF Keyed(s) THEN era[ScopedKey(s)] ELSE 0
Job(s, kept) ==
    [by |-> s, era |-> EraOf(s), keyed |-> kept, status |-> "pending"]

\* The accepted record, then the key's record.
Accept(s) ==
    /\ jobs' = Append(jobs, Job(s, TRUE))
    /\ idem' = IF Keyed(s)
                 THEN [idem EXCEPT ![ScopedKey(s)] =
                         [job |-> Len(jobs) + 1, payload |-> Payload[s], fresh |-> TRUE]]
                 ELSE idem

IsBad(s) == Payload[s] \in Malformed
IsNew(s) == ~IsDry(s) /\ ~Conflict(s) /\ ~Duplicate(s)

AcceptOrRefuse(q) ==
    IF Full THEN Deliver(q, Rejected(q.from)) /\ UNCHANGED <<jobs, idem>>
            ELSE Accept(q.from) /\ Deliver(q, Hears(q.from, Len(jobs) + 1))

\* /print/raw decodes the image before it looks the key up, /print after.
Handle(q) == LET s == q.from IN
    /\ up /\ wire' = wire \ {q}
    /\ \/ /\ (IsBad(s) /\ (IsRaw(s) \/ IsDry(s))) \/ (~IsDry(s) /\ Conflict(s))
          /\ Deliver(q, Rejected(s)) /\ UNCHANGED spooler
       \/ /\ IsDry(s) /\ ~IsBad(s)
          /\ Deliver(q, Hears(s, None)) /\ UNCHANGED spooler
       \/ /\ ~IsDry(s) /\ Duplicate(s)
          /\ Deliver(q, Hears(s, idem[ScopedKey(s)].job)) /\ UNCHANGED spooler
       \/ /\ IsNew(s) /\ IsRaw(s) /\ ~IsBad(s)
          /\ AcceptOrRefuse(q) /\ UNCHANGED line
       \/ /\ IsNew(s) /\ ~IsRaw(s)
          /\ line' = line \cup {q} /\ UNCHANGED <<jobs, idem, stage, end, told>>
    /\ UNCHANGED <<service, schemas, tries, era, crashes>>

\* /print goes on when its document is rendered, with no second lookup.
Rendered(q) == LET s == q.from IN
    /\ up /\ q \in line /\ line' = line \ {q}
    /\ IF IsBad(s) THEN Deliver(q, Rejected(s)) /\ UNCHANGED <<jobs, idem>>
                   ELSE AcceptOrRefuse(q)
    /\ UNCHANGED <<service, schemas, tries, wire, era, crashes>>

-----------------------------------------------------------------------------
(* status, and --wait: GET /jobs/{id} until the status is terminal.        *)

BeginsPolling(s) ==
    /\ stage[s] = "new" /\ Tool[s] = "status" /\ Reachable(s)
    /\ stage' = [stage EXCEPT ![s] = "polling"]
    /\ \E i \in DOMAIN jobs : told' = [told EXCEPT ![s] = i]
    /\ UNCHANGED <<service, schemas, spooler, tries, wire, end, era, crashes>>

\* A poll that finds the job pending changes nothing.  "pruned" is a 404.
SeesAnyEnd(status) == IF status = "unprinted" THEN "printed" ELSE status \* mutant
Sees(status) == IF status = "pruned" THEN "unknown" ELSE status

Polls(s) ==
    /\ stage[s] = "polling" /\ up
    /\ told[s] \notin Pending
    /\ EndAs(s, Sees(jobs[told[s]].status))
    /\ UNCHANGED <<service, schemas, spooler, tries, wire, told, era, crashes>>

\* One GET that fails ends the wait, and so does its deadline.
PollGivesUp(s) ==
    /\ stage[s] = "polling"
    /\ EndAs(s, "unknown")
    /\ UNCHANGED <<service, schemas, spooler, tries, wire, told, era, crashes>>

-----------------------------------------------------------------------------
(* The service's worker, its clock, crashes and restarts.                  *)

Settle(i) ==
    /\ up /\ i \in Pending
    /\ \E r \in {"printed", "unprinted"} : jobs' = [jobs EXCEPT ![i].status = r]
    /\ UNCHANGED <<service, schemas, idem, line, senders, era, crashes>>

\* ttl_s passes for the newest entry of a key.
Expire(k) ==
    /\ era[k] < MaxEras /\ era' = [era EXCEPT ![k] = @ + 1]
    /\ idem[k] # None /\ idem' = [idem EXCEPT ![k].fresh = FALSE]
    /\ UNCHANGED <<service, schemas, jobs, line, senders, crashes>>

\* The service ends between two handlers, or in one that has written the
\* accepted record and not yet the key's.
Crash ==
    /\ up /\ crashes < MaxCrashes /\ crashes' = crashes + 1
    /\ up' = FALSE /\ line' = {}
    /\ \/ UNCHANGED <<jobs, wire>>
       \/ \E q \in wire : LET s == q.from IN
            /\ IsNew(s) /\ IsRaw(s) /\ ~IsBad(s) /\ ~Full
            /\ jobs' = Append(jobs, Job(s, ~Keyed(s))) /\ wire' = wire \ {q}
       \/ \E q \in line :
            /\ ~IsBad(q.from) /\ ~Full /\ UNCHANGED wire
            /\ jobs' = Append(jobs, Job(q.from, ~Keyed(q.from)))
    /\ UNCHANGED <<version, schemas, idem, stage, tries, told, end, era>>

\* prune drops ended jobs; an upgrade may come with the restart.
Start ==
    /\ ~up /\ up' = TRUE
    /\ version' \in {version} \cup ((version + 1) .. MaxVersion)
    /\ \E dropped \in {{}, DOMAIN jobs \ Pending} :
         jobs' = [i \in DOMAIN jobs |->
                    IF i \in dropped THEN [jobs[i] EXCEPT !.status = "pruned"] ELSE jobs[i]]
    /\ UNCHANGED <<schemas, idem, line, senders, era, crashes>>

\* A tool call that the MCP server held is gone with it.
McpRestarts ==
    /\ crashes < MaxCrashes /\ crashes' = crashes + 1
    /\ phase = "serving" /\ Relaunch
    /\ LET held == {s \in Senders : ~IsCommand(s) /\ stage[s] = "sent"} IN
         /\ stage' = [s \in Senders |-> IF s \in held THEN "done" ELSE stage[s]]
         /\ end' = [s \in Senders |-> IF s \in held THEN "network" ELSE end[s]]
    /\ UNCHANGED <<spooler, tries, wire, told, era>>

-----------------------------------------------------------------------------
Sender(s) ==
    \/ Post(s) \/ Refuses(s) \/ LintRefuses(s) \/ ArgumentRefused(s)
    \/ TransportError(s) \/ BeginsPolling(s) \/ Polls(s) \/ PollGivesUp(s)

Next ==
    \/ \E s \in Senders : Sender(s)
    \/ \E q \in wire : Handle(q)
    \/ \E q \in line : Rendered(q)
    \/ \E i \in DOMAIN jobs : Settle(i)
    \/ \E k \in ScopedKeys : Expire(k)
    \/ Crash \/ Start \/ McpRestarts
    \/ SchemaNext /\ UNCHANGED <<spooler, senders, era, crashes>>

Spec == Init /\ [][Next]_vars

-----------------------------------------------------------------------------
(* Properties.                                                             *)

TypeOK ==
    /\ SchemaTypeOK
    /\ \A i \in DOMAIN jobs :
         /\ jobs[i].by \in Senders /\ jobs[i].status \in Statuses
         /\ jobs[i].era \in 0 .. MaxEras
    /\ stage \in [Senders -> {"new", "sent", "again", "polling", "done"}]
    /\ tries \in [Senders -> 0 .. Attempts]
    /\ end \in [Senders -> Ends \cup {None}]
    /\ \A s \in Senders : (stage[s] = "done") = (end[s] # None)
    /\ \A s \in Senders : stage[s] = "polling" => told[s] \in DOMAIN jobs
    /\ \A q \in wire \cup line : q.try <= tries[q.from]

SameKey(s, t) == Keyed(s) /\ Keyed(t) /\ ScopedKey(s) = ScopedKey(t)

\* Retries, reruns, late requests and lost answers make one job: in one life
\* of a key, a second job of /print/raw is made only when the key of the
\* first was not recorded because the service crashed in between.
OneJobPerKey ==
    \A i, j \in DOMAIN jobs :
        /\ i < j
        /\ jobs[i].era = jobs[j].era
        /\ IsRaw(jobs[i].by) /\ IsRaw(jobs[j].by)
        /\ \/ SameKey(jobs[i].by, jobs[j].by)
           \/ /\ IsCommand(jobs[i].by) /\ IsCommand(jobs[j].by)
              /\ Payload[jobs[i].by] = Payload[jobs[j].by]
              /\ Given[jobs[i].by] = Given[jobs[j].by]
        => ~jobs[i].keyed

MadeBy(s) == {i \in DOMAIN jobs : jobs[i].by = s}

\* What a command or tool reports when it ends, and so its exit code, is so:
\* an accepted job is in the service with the sender's bytes, a waited-for job
\* has ended as reported, and one that was refused, linted, run dry or
\* rejected has left no job behind, unless a crash lost the job's key or the
\* key has expired since.
ReportsTruth ==
    [][\A s \in Senders : end[s] = None /\ end'[s] # None =>
         /\ end'[s] \in {"accepted", "printed", "unprinted"} /\ Tool[s] # "status"
              => Payload[jobs'[told'[s]].by] = Payload[s]
         /\ end'[s] \in {"printed", "unprinted"} => jobs'[told'[s]].status = end'[s]
         /\ end'[s] \in {"refused", "lint", "dry"} => MadeBy(s)' = {}
         /\ end'[s] = "rejected" =>
              \A i \in MadeBy(s)' : ~jobs'[i].keyed \/ jobs'[i].era < EraOf(s)']_vars
=============================================================================
