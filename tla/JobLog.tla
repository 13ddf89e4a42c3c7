-------------------------------- MODULE JobLog --------------------------------
(***************************************************************************)
(* The durable job log of service/printer/queue/joblog.py and jsonl.py:    *)
(* one line per event in a file, replayed from the start by every reader,  *)
(* appended to by the worker and the HTTP handlers, and pruned when the    *)
(* process starts.                                                         *)
(*                                                                         *)
(* A line is a record, or Torn: what an interrupted write left of one.     *)
(* Sizes in bytes are counted in lines.  All callers are on one event      *)
(* loop and no method awaits, so only the end of the process, or an append *)
(* that raises, comes between the steps of one.                            *)
(***************************************************************************)
EXTENDS Integers, Sequences, FiniteSetsExt

CONSTANTS
    Jobs,           \* job ids
    None,           \* Python's None
    Stamps,         \* values of ts: wall-clock seconds, which may step back
    MaxRecords,     \* prune's max_records
    MaxBytes        \* prune's max_bytes, in lines

CONSTANTS           \* bounds of the checked instances
    MaxAppends,     \* appends
    MaxFaults,      \* appends that are interrupted
    MaxEnds         \* ends of the process

ASSUME LogAssumption ==
    /\ IsFiniteSet(Jobs) /\ None \notin Jobs /\ Stamps \subseteq Int
    /\ MaxRecords \in Nat /\ MaxBytes \in Nat
    /\ MaxAppends \in Nat /\ MaxFaults \in Nat /\ MaxEnds \in Nat

VARIABLES
    file,           \* the lines of the log
    ended,          \* its last byte is a newline, or it is empty
    tmp,            \* the lines of the sibling .tmp file
    pc,             \* where the process is
    raised          \* the job whose last append raised, or None

VARIABLES           \* observability and bounds
    seen,           \* ids already used
    acked,          \* <<job, event>> of the appends that returned
    appends, faults, ends

disk == <<file, ended, tmp>>
vars == <<disk, pc, raised, seen, acked, appends, faults, ends>>

Terminal == {"printed", "expired", "retry_timeout", "unknown_partial"}
Events   == Terminal \cup {"accepted", "printing", "retry"}
Record   == [job : Jobs, event : Events, ts : Stamps]
Torn     == [job |-> None, event |-> "torn", ts |-> None]

Init ==
    /\ file = <<>> /\ ended = TRUE /\ tmp = <<>>
    /\ pc = "down" /\ raised = None
    /\ seen = {} /\ acked = {} /\ appends = 0 /\ faults = 0 /\ ends = 0

-----------------------------------------------------------------------------
(* Replays of a file f.                                                    *)

\* The places of the records that replay yields, in order.
Replay(f) == {i \in DOMAIN f : f[i] # Torn}

JobsOf(f, E) == {f[i].job : i \in {k \in DOMAIN f : f[k].event \in E}}
EventsAt(f, j) == {i \in DOMAIN f : f[i].job = j /\ f[i].event # "accepted"}
Latest(f, j) ==
    IF EventsAt(f, j) = {} THEN "none" ELSE f[Max(EventsAt(f, j))].event

TerminatedByLatest(f) == {j \in Jobs : Latest(f, j) \in Terminal}  \* mutant
Terminated(f) == JobsOf(f, Terminal)

\* pending_after_replay, in_flight_after_replay
Pending(f) == JobsOf(f, {"accepted"}) \ Terminated(f)
AcceptedAt(f, j) == Min({i \in DOMAIN f : f[i].job = j /\ f[i].event = "accepted"})
Ahead(f) ==
    {p \in Pending(f) \X Pending(f) : AcceptedAt(f, p[1]) < AcceptedAt(f, p[2])}
Stage(f) == [j \in Jobs |-> IF j \in Pending(f) THEN Latest(f, j) ELSE "none"]

-----------------------------------------------------------------------------
(* append, and the callers' order of events.                               *)

\* The worker attempts pending jobs, closes the attempt, and after an append
\* that raised writes "retry", whatever the file has by then.
AfterStage(s) ==
    IF s = "printing" THEN {"printed", "retry", "retry_timeout", "unknown_partial"}
                      ELSE {"printing", "expired", "unknown_partial"}
MayAppend(j, e) ==
    \/ e = "accepted" /\ j \notin seen
    \/ j \in Pending(file) /\ e \in AfterStage(Latest(file, j))
    \/ j = raised /\ j \in JobsOf(file, {"accepted"}) /\ e = "retry"

Attempted(j, e) ==
    /\ pc = "up" /\ appends < MaxAppends /\ MayAppend(j, e)
    /\ appends' = appends + 1
    /\ seen' = seen \cup {j}
    /\ UNCHANGED <<tmp, pc, ends>>

\* append_line ends a fragment left by an earlier write before its own line;
\* a line written straight after the fragment would be one torn line with it.
LineAfterTail(l) ==                                            \* mutant
    IF ended THEN Append(file, l) ELSE Append(SubSeq(file, 1, Len(file) - 1), Torn)
LineAdded(l) == Append(file, l)

AppendReturns(j, e) ==
    /\ Attempted(j, e)
    /\ \E ts \in Stamps : file' = LineAdded([job |-> j, event |-> e, ts |-> ts])
    /\ ended' = TRUE /\ raised' = None
    /\ acked' = acked \cup {<<j, e>>}
    /\ UNCHANGED faults

\* The write stops before it, in the fragment's newline, within the line or
\* before the line's newline, or only the fsync fails.
AppendRaises(j, e) ==
    /\ Attempted(j, e)
    /\ faults < MaxFaults /\ faults' = faults + 1
    /\ \/ file' = file /\ ended' \in {ended, TRUE}
       \/ file' = LineAdded(Torn) /\ ended' = FALSE
       \/ /\ \E ts \in Stamps : file' = LineAdded([job |-> j, event |-> e, ts |-> ts])
          /\ ended' \in BOOLEAN
    /\ raised' = j
    /\ UNCHANGED acked

-----------------------------------------------------------------------------
(* prune, at the start of the process.                                     *)

Ended == JobsOf(file, Events) \ Pending(file)

LinesOf(j) == {i \in DOMAIN file : file[i].job = j}
Older(i, j) ==
    LET ti == file[Max(LinesOf(i))].ts
        tj == file[Max(LinesOf(j))].ts
    IN  ti < tj \/ (ti = tj /\ Min(LinesOf(i)) < Min(LinesOf(j)))

\* A part of the file, as the places of its records.
KeptWithout(D) == {i \in Replay(file) : file[i].job \notin D}
FitsEither(K) == Cardinality(K) <= MaxRecords \/ Cardinality(K) <= MaxBytes    \* mutant
Fits(K) == Cardinality(K) <= MaxRecords /\ Cardinality(K) <= MaxBytes

\* The oldest ended jobs, as many as it takes.
Oldest == {D \in SUBSET Ended : \A i \in D, j \in Ended \ D : Older(i, j)}
Dropped ==
    CHOOSE D \in Oldest :
        /\ Fits(KeptWithout(D)) \/ D = Ended
        /\ \A E \in Oldest : E \subseteq D /\ E # D => ~Fits(KeptWithout(E))

Kept ==
    IF Cardinality(Replay(file)) <= MaxRecords /\ Len(file) <= MaxBytes
      THEN Replay(file) ELSE KeptWithout(Dropped)

NothingToPrune ==
    /\ pc = "down" /\ Kept = Replay(file)
    /\ pc' = "up"
    /\ UNCHANGED <<disk, raised, seen, acked, appends, faults, ends>>

BeginPrune ==
    /\ pc = "down" /\ Kept # Replay(file)
    /\ pc' = "pruning" /\ tmp' = <<>>
    /\ UNCHANGED <<file, ended, raised, seen, acked, appends, faults, ends>>

\* The kept records go to tmp in the order of the file.
KeptBefore(n) == Cardinality({m \in Kept : m < n})
WriteKept ==
    /\ pc = "pruning"
    /\ \E n \in Kept : KeptBefore(n) = Len(tmp) /\ tmp' = Append(tmp, file[n])
    /\ UNCHANGED <<file, ended, pc, raised, seen, acked, appends, faults, ends>>

EndedAfterPrune == TRUE

ReplaceLog ==
    /\ pc = "pruning" /\ Len(tmp) = Cardinality(Kept)
    /\ file' = tmp /\ ended' = EndedAfterPrune /\ tmp' = <<>>
    /\ pc' = "up"
    /\ UNCHANGED <<raised, seen, acked, appends, faults, ends>>

Crash ==
    /\ pc # "down" /\ ends < MaxEnds /\ ends' = ends + 1
    /\ pc' = "down" /\ raised' = None
    /\ UNCHANGED <<disk, seen, acked, appends, faults>>

-----------------------------------------------------------------------------
Next ==
    \/ \E j \in Jobs, e \in Events : AppendReturns(j, e) \/ AppendRaises(j, e)
    \/ NothingToPrune \/ BeginPrune \/ WriteKept \/ ReplaceLog
    \/ Crash

Spec == Init /\ [][Next]_vars

-----------------------------------------------------------------------------
(* Properties.                                                             *)

TypeOK ==
    /\ file \in Seq(Record \cup {Torn}) /\ tmp \in Seq(Record)
    /\ ended \in BOOLEAN
    /\ file = <<>> => ended
    /\ pc \in {"down", "pruning", "up"} /\ raised \in Jobs \cup {None}
    /\ seen \subseteq Jobs /\ acked \subseteq Jobs \X Events
    /\ appends \in 0 .. MaxAppends /\ faults \in 0 .. MaxFaults
    /\ ends \in 0 .. MaxEnds

\* An append that returned is in every later replay, over torn writes before
\* and after it, crashes and prunes, until prune drops all records of its job
\* (joblog.py's "single durability seam").
AppendedStays ==
    \A a \in acked :
        a[1] \in JobsOf(file, {a[2]}) \/ a[1] \notin JobsOf(file, Events)

\* The service never starts with more records than either limit allows, unless
\* all of them belong to pending jobs, however many starts were cut short.
StartsWithinLimits ==
    [][pc # "up" /\ pc' = "up" =>
          \/ Cardinality(Replay(file')) <= MaxRecords /\ Cardinality(Replay(file')) <= MaxBytes
          \/ JobsOf(file', Events) = Pending(file')]_vars

\* What a replay shows changes as JobJournal says: torn writes, crashes and
\* prunes neither lose a pending job, nor reorder the pending jobs or change how
\* far their attempts got, nor bring an ended job back.
Journal == INSTANCE JobJournal WITH
    pending <- Pending(file), ahead <- Ahead(file), stage <- Stage(file)
KeepsJournal == Journal!Spec
=============================================================================
