------------------------------- MODULE PngCache -------------------------------
(***************************************************************************)
(* The cache of rendered chunks, service/printer/queue/cache.py: a file    *)
(* per chunk on disk, and in memory the jobs in the order of their last    *)
(* use, rebuilt from the files' mtimes when the process starts.            *)
(*                                                                         *)
(* No method awaits, so its steps (a file written, a file unlinked) are    *)
(* interleaved with nothing but the end of the process; but each may raise *)
(* OSError, and the process goes on.  Sizes are counted in chunks.  A      *)
(* handler puts the chunks of a new job and then accepts it; the worker,   *)
(* GET /jobs, GET /jobs/{id} and reprint read accepted jobs.               *)
(***************************************************************************)
EXTENDS Integers, SequencesExt

CONSTANTS
    Jobs,           \* job ids
    None,           \* Python's None
    NChunks,        \* chunks of each job
    MaxBytes,       \* png_cache_max_bytes, in chunks
    Ttl             \* png_cache_ttl_s

CONSTANTS           \* bounds of the checked instances
    MaxTime,        \* last value of the wall clock
    MaxEnds,        \* ends of the process
    MaxFaults       \* writes and unlinks that raise

ASSUME CacheAssumption ==
    /\ IsFiniteSet(Jobs) /\ None \notin Jobs \cup Nat
    /\ NChunks \in [Jobs -> Nat \ {0}]
    /\ MaxBytes \in Nat /\ Ttl \in Nat
    /\ MaxTime \in Nat /\ MaxEnds \in Nat /\ MaxFaults \in Nat

VARIABLES
    files,          \* the chunk indices of each job on disk
    mtime,          \* mtime of the job's last chunk, or None
    lru,            \* _lru's keys, least recently used first
    counted,        \* _lru's values: the chunks counted when the job was listed
    pc,             \* the method at work, "up" between two calls
    cur,            \* the job being put, until it is accepted
    victim          \* the job whose files are being unlinked

VARIABLES           \* callers, environment and bounds
    accepted,       \* jobs with an accepted record
    served,         \* what get_chunks returned
    cutShort,       \* jobs whose unlinking was interrupted
    orphans,        \* jobs whose put or eviction raised in this process
    now, ends, faults

disk == <<files, mtime>>
work == <<lru, counted, pc, cur, victim>>
seen == <<accepted, served, cutShort, orphans>>
vars == <<disk, work, seen, now, ends, faults>>

Chunks(j) == 0 .. NChunks[j] - 1
OnDisk == {j \in Jobs : files[j] # {}}
Bytes(f, S) == Cardinality(UNION {{j} \X f[j] : j \in S})

Init ==
    /\ files = [j \in Jobs |-> {}] /\ mtime = [j \in Jobs |-> None]
    /\ lru = <<>> /\ counted = files
    /\ pc = "down" /\ cur = None /\ victim = None
    /\ accepted = {} /\ served = {} /\ cutShort = {} /\ orphans = {}
    /\ now \in 0 .. MaxTime /\ ends = 0 /\ faults = 0

Fault == faults < MaxFaults /\ faults' = faults + 1

-----------------------------------------------------------------------------
(* put_chunks and _evict_to_cap, called with a new id.                     *)

BeginPut(j) ==
    /\ pc = "up" /\ mtime[j] = None /\ j \notin orphans
    /\ pc' = "writing" /\ cur' = j
    /\ UNCHANGED <<disk, lru, counted, victim, seen, now, ends, faults>>

NextIndex(j) == Cardinality(files[j])
SomeWritten(j) == files[j] # {}                                \* mutant
Written(j) == files[j] = Chunks(j)

FileAdded ==
    /\ files' = [files EXCEPT ![cur] = @ \cup {NextIndex(cur)}]
    /\ mtime' = [mtime EXCEPT ![cur] = now]

\* A crash within the write leaves a file too, of a job that is not accepted.
WriteChunk ==
    /\ pc = "writing" /\ ~Written(cur)
    /\ FileAdded
    /\ UNCHANGED <<work, seen, now, ends, faults>>

\* open, write or fsync raises.  The handler ends in a 500 and the job is never
\* accepted; its files stay, a part of the last one among them or not.
PutFails ==
    /\ pc = "writing" /\ ~Written(cur) /\ Fault
    /\ FileAdded \/ UNCHANGED disk
    /\ pc' = "up" /\ cur' = None /\ orphans' = orphans \cup {cur}
    /\ UNCHANGED <<lru, counted, victim, accepted, served, cutShort, now, ends>>

PutWritten ==
    /\ pc = "writing" /\ Written(cur)
    /\ lru' = Append(lru, cur) /\ counted' = [counted EXCEPT ![cur] = Chunks(cur)]
    /\ pc' = "evicting"
    /\ UNCHANGED <<disk, cur, victim, seen, now, ends, faults>>

OverCapBefore == Bytes(counted, ToSet(lru) \ {cur}) > MaxBytes \* mutant
OverCap == Bytes(counted, ToSet(lru)) > MaxBytes

EvictNext ==
    /\ pc = "evicting" /\ victim = None /\ OverCap
    /\ victim' = Head(lru) /\ lru' = Tail(lru)
    /\ UNCHANGED <<disk, counted, pc, cur, seen, now, ends, faults>>

NotDropped(s, j) == s                                          \* mutant
Without(s, j) == RemoveFirst(s, j)

\* One file of the job that is evicted, or dropped as stale, in chunk order.  A
\* stale job leaves the list after its files, an evicted one left it before.
Unlink ==
    /\ victim # None
    /\ files' = [files EXCEPT ![victim] = @ \ {Min(@)}]
    /\ IF files'[victim] # {} THEN UNCHANGED <<victim, pc, lru>>
       ELSE /\ victim' = None
            /\ pc' = IF pc = "expiring" THEN "up" ELSE pc
            /\ lru' = IF pc = "expiring" THEN Without(lru, victim) ELSE lru
    /\ UNCHANGED <<mtime, counted, cur, seen, now, ends, faults>>

\* An unlink raises other than FileNotFoundError, and with it the put or the
\* read: the job that was being put is not accepted, and what is left of the
\* victim stays, off the list if it was being evicted.
UnlinkFails ==
    /\ victim # None /\ Fault
    /\ victim' = None /\ cur' = None /\ pc' = "up"
    /\ cutShort' = cutShort \cup {victim}
    /\ orphans' = IF pc = "evicting" THEN orphans \cup {victim} ELSE orphans
    /\ UNCHANGED <<disk, lru, counted, accepted, served, now, ends>>

\* put_chunks returns, and the handler goes on to the accepted record.
PutReturns ==
    /\ pc = "evicting" /\ victim = None /\ ~OverCap
    /\ pc' = "accepting"
    /\ UNCHANGED <<disk, lru, counted, cur, victim, seen, now, ends, faults>>

Accept ==
    /\ pc = "accepting" /\ pc' = "up"
    /\ accepted' = accepted \cup {cur} /\ cur' = None
    /\ UNCHANGED <<disk, lru, counted, victim, served, cutShort, orphans, now, ends, faults>>

-----------------------------------------------------------------------------
(* get_chunks.                                                             *)

Stale(j) == now - mtime[j] > Ttl

ReadMissing(j) ==
    /\ pc = "up" /\ j \in accepted \ OnDisk
    /\ lru' = Without(lru, j)
    /\ UNCHANGED <<disk, counted, pc, cur, victim, seen, now, ends, faults>>

ReadStale(j) ==
    /\ pc = "up" /\ j \in accepted \cap OnDisk /\ Stale(j)
    /\ victim' = j /\ pc' = "expiring"
    /\ UNCHANGED <<disk, lru, counted, cur, seen, now, ends, faults>>

\* For a job off the list move_to_end raises KeyError: nothing is served.
ReadFresh(j) ==
    /\ pc = "up" /\ j \in accepted \cap OnDisk /\ ~Stale(j) /\ j \in ToSet(lru)
    /\ lru' = Append(Without(lru, j), j)
    /\ served' = served \cup {[job |-> j, chunks |-> files[j]]}
    /\ UNCHANGED <<disk, counted, pc, cur, victim, accepted, cutShort, orphans, now, ends, faults>>

-----------------------------------------------------------------------------
(* The process and the clock, which a boot may set to any value.           *)

Crash ==
    /\ pc # "down" /\ ends < MaxEnds /\ ends' = ends + 1
    /\ pc' = "down" /\ lru' = <<>> /\ cur' = None /\ victim' = None
    /\ cutShort' = cutShort \cup ({victim} \ {None}) /\ orphans' = {}
    /\ now' \in 0 .. MaxTime
    /\ UNCHANGED <<disk, counted, accepted, served, faults>>

\* _scan: by mtime, and files of one mtime in any order.
Start ==
    /\ pc = "down" /\ pc' = "up"
    /\ lru' \in {s \in SetToSeqs(OnDisk) :
                    \A m, n \in DOMAIN s : m < n => mtime[s[m]] <= mtime[s[n]]}
    /\ counted' = files
    /\ UNCHANGED <<disk, cur, victim, seen, now, ends, faults>>

Tick ==
    /\ now < MaxTime /\ now' = now + 1
    /\ UNCHANGED <<disk, work, seen, ends, faults>>

-----------------------------------------------------------------------------
Put ==
    \/ WriteChunk \/ PutFails \/ PutWritten \/ EvictNext
    \/ Unlink \/ UnlinkFails \/ PutReturns \/ Accept
Read(j) == ReadMissing(j) \/ ReadStale(j) \/ ReadFresh(j)

Next ==
    \/ \E j \in Jobs : BeginPut(j) \/ Read(j)
    \/ Put \/ Crash \/ Start \/ Tick

Spec == Init /\ [][Next]_vars

-----------------------------------------------------------------------------
(* Properties.                                                             *)

TypeOK ==
    /\ files \in [Jobs -> SUBSET Nat] /\ \A j \in Jobs : files[j] \subseteq Chunks(j)
    /\ mtime \in [Jobs -> 0 .. MaxTime \cup {None}]
    /\ lru \in Seq(Jobs)
    /\ counted \in [Jobs -> SUBSET Nat] /\ \A j \in Jobs : counted[j] \subseteq Chunks(j)
    /\ pc \in {"down", "up", "writing", "evicting", "accepting", "expiring"}
    /\ cur \in Jobs \cup {None} /\ victim \in Jobs \cup {None}
    /\ pc \in {"writing", "evicting", "accepting"} <=> cur # None
    /\ accepted \subseteq Jobs /\ cutShort \subseteq Jobs /\ orphans \subseteq Jobs
    /\ served \subseteq [job : Jobs, chunks : SUBSET Nat]
    /\ now \in 0 .. MaxTime /\ ends \in 0 .. MaxEnds /\ faults \in 0 .. MaxFaults

\* Between two calls the recency list has each job once, names only jobs that
\* have files, and misses none but those whose put or eviction raised in this
\* process: whatever failed or was cut short, eviction and move_to_end find the
\* rest, and the next start finds all.
LruIsDisk ==
    pc = "up" =>
        /\ Len(lru) = Cardinality(ToSet(lru))
        /\ ToSet(lru) \subseteq OnDisk /\ OnDisk \ ToSet(lru) \subseteq orphans

\* When a put returns, all files on disk together are within the ceiling, those
\* of jobs that were never accepted included, but for the files that a put or an
\* eviction that raised has orphaned since the process started.
CapAfterPut == pc = "accepting" => Bytes(files, Jobs \ orphans) <= MaxBytes

\* What a reader gets of a job is its last chunks, with no gap among them, and
\* all of them unless unlinking that job was interrupted, by an error or by the
\* end of the process; a put that failed or was cut short is never read.
PartsAreTails ==
    \A r \in served :
        /\ \E k \in Chunks(r.job) : r.chunks = k .. NChunks[r.job] - 1
        /\ r.chunks = Chunks(r.job) \/ r.job \in cutShort

\* "Return the list of PNG chunks for a job, or None if any chunk is missing."
WholeOrNone == \A r \in served : r.chunks = Chunks(r.job)
=============================================================================
