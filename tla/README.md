# A TLA+ model of thermal-print-service

The service runs on a Raspberry Pi Zero beside a thermal printer. Clients post
documents or PNGs over HTTP; each accepted job is rendered, cached, recorded in
an append-only log and printed, once, by a single worker. The code promises a
good deal about crashes, retries and clocks, and most of it is out of the reach
of a unit test. Around the service are the programs that send it jobs, the
renderer that turns documents into bitmaps, and two scripts that keep the box
itself alive. This directory states what they promise, model-checks it on small
instances and proves the most important parts for every instance.

## Running it

    tlc -workers 2 -config PrintWorker_faults.cfg MCPrintWorker
    tlapm PrintWorkerProofs.tla

`PROJECT.json` lists every run with the properties it checks, every definition
with the source lines it models, the hazards the properties are aimed at, and
the theorems.

## Inventory

| component | state | operations | hard parts | what makes it correct |
|---|---|---|---|---|
| print worker, `service/printer/queue/worker.py` | queue of wake tokens, hold timer, sleeping reschedules, `_first_seen`, `_retry_after`, `_in_flight`, `_unsettled` | start, stop, enqueue, select, handle, retry, hold | crash anywhere, failed log appends, clock steps, timers against tokens | a chunk is printed at most once; statuses are true; FIFO among eligible jobs; no job sleeps for ever |
| job log, `queue/joblog.py`, `jsonl.py` | one JSON line per event | append, replay, summaries, prune | torn last line, crash in prune | the summaries are those of the appended events; prune drops terminal jobs only |
| HTTP ingest, `service/printer/app.py` | handlers between awaits, render semaphore, options store | `/print`, `/print/raw`, reprint, `/test` | concurrent handlers across the render, several durable writes | durable before 202, one job per key, queue cap |
| idempotency cache, `queue/idempotency.py` | map in memory, one JSON line per key | lookup, record, load | write failure, restart, TTL | duplicates get the original job |
| PNG cache, `queue/cache.py` | files per job, LRU order | put, get, scan, evict | capacity, TTL, reads that reorder | a pending job keeps its chunks |
| transport, `service/printer/transport/` | one open device per chunk | print_png | refusal or failure before, within or after the bytes | refusals are told from failures |
| health, `service/printer/health.py` | none | snapshot | clock not synchronised | |
| schema and renderer, `service/printer/schema/`, `render/` | loop of the line breaker, parts, chunks | validate, wrap, draw, stack, cut | fallback fonts, words wider than a line, cuts anywhere, sizes at their limits | no text lost or broken early, ink on paper and off other ink, chunks add up to the document |
| MCP server, `mcp-server/` | schema snapshot, listings between awaits | boot, refresh, tools | service unreachable at boot, interleaved listings, requests without retry | offers the schema it holds; reports what happened |
| design CLI, `design/` | attempts, polled job | print, send with retry, status | lost and late answers | one job per design; true exit codes |
| watchdog, `deploy/io-stall-watchdog.sh` | stamps, probe pids, ladder step | probe, recover, pet, reset | probes stuck in the kernel, stamps written late | healthy boxes are petted, stalled ones reset |
| Wi-Fi guard, `deploy/wifi-profile-guard.sh` | the profile file, its copy | check, stage, sync, rename, generate | a reset at any point, a command that fails | never half a profile |
| printer-core, `printer-core/` | none | dither, ink density, units | pixel arithmetic | |
| deployment, `deploy/*.sh`, units | files of the box | install, sync | | restart policies |

How they interact: handlers write PNG cache, job log and idempotency file, in
this order, then put a token into the worker's queue. The worker reads the log
anew for each token, so the queue only wakes it; what is pending is what the log
says. At start the log is pruned, the idempotency file loaded, jobs in flight
are closed as `unknown_partial`, and every pending job gets a token. Handlers of
documents validate and render first, under one semaphore. Senders know a job by
the id in the 202 and poll it; what makes a repeated POST harmless is the key
alone. The watchdog script and the guard share no state with the service: they
decide whether the box under it runs and reaches the network.

## Modules

**PrintWorker** is the worker over the durable log. The log appears as what its
replay computes: the order of acceptance, each job's latest event and the set of
terminal jobs (`JobLog.pending_after_replay`, `in_flight_after_replay`). An
action is the code from one await to the next, since nothing else in the process
runs between: `NothingEligible`, `DropExpired`, `DropUncached`, `Unlisted` and
`StartPrinting` are the ways an iteration of `_run` goes to its next await; `ReachPaper`,
`NextChunk`, `LastChunkSent`, `SendFails`, `GiveUp` and `RetryLater` are the outcomes
of one `print_png`; `HoldWakes` and `RescheduleWakes` are the sleeping tasks;
`Accept` is the commit of an HTTP handler; `CloseInDoubt` and `Start` are
`PrintWorker.start`. Of the cache the worker sees how many of a job's last chunks
are there: `Evict` drops them, `CutShort` leaves some when an unlink raises
(`EvictFails`) or the process ends (`Crash`), and `given` is what an attempt was
handed. A job whose eviction raised is off the recency list and on disk
(`orphans`): `get_chunks` then raises KeyError, `_run` writes `retry` and schedules
nothing (`Unlisted`), and so it goes until a restart scans the files. The clock
probe may fail too (`ProbeFails`), and a right clock counts as unsynchronised. Each
action makes at most one durable write that succeeds,
so a `Crash` between actions stands for one anywhere inside them. An append may
raise with its line in the file or without; a second record is then written by
`_run`, or the exception leaves the task (`Unexpected`, `Unsettle`). Python's
monotonic clock is `now`, and `now + skew` the wall clock; a boot may start with
any skew of `Skews` until `ClockSync`. Wake tokens carry a job id that `_run`
never reads, so the queue is a count.

**PrintWorkerProofs** holds the theorems about it, and the proof that it implements
`JobJournal` (below). `JobLogProofs`, `HttpIngestProofs`, `PngCacheProofs`, `RendererProofs`,
`PiHostProofs` and `SendersProofs` are those of the modules they are named after,
**LayoutProofs** has the lemmas about the blocks that `RendererProofs` builds on.

**JobJournal** is the abstract specification between the worker and the log: the
jobs that are owed, their order, and how far the last attempt at each got. A job
enters by `Accept` and leaves by `Close`; nothing else changes what is owed. It is
instantiated by both sides, `Journal` in `PrintWorker` and in `JobLog`, and
`KeepsJournal` states the refinement.

**JobLog** is the file under it. The state is the sequence of lines, whether the
last byte is a newline, and the temporary file of prune. A line is a record (job,
event, ts) or `Torn`. `AppendReturns` is `append_line` that succeeds;
`AppendRaises` leaves any prefix of what it was to write: nothing, the newline that
ends an older fragment, part of the line, the line without its newline, or all of
it with only the fsync failed. Whether the caller then sees an exception or the
process is gone is left to `Crash`. `MayAppend` admits the orders in which the
worker and the handlers write. Prune is `BeginPrune`, a `WriteKept` per line and
`ReplaceLog`, with a crash possible between any two; `Dropped` is the shortest run
of oldest ended jobs whose removal satisfies both limits. A replay and what prune
keeps of it are sets of places in the file; `WriteKept` copies the next of them.
`ts` is any value of
`Stamps` at each append, since the wall clock may step back at a boot.

**HttpIngest** is the other side of the log: the handlers of `app.py` that create
jobs. They give up the event loop in one place, the render, so the model gives
each handler an action per durable write and `busy`, the handler that holds the
loop; between two writes only the end of the process can come. A job has the
name of the request that made it. Raw jobs and documents differ as in the code:
a document is looked up before the render and the queue tested after it, a raw
job has both in one turn; a document's duplicate answer needs its accepted
record, which `prune` may have dropped; a raw job is enqueued before its key is
recorded, a document after. `/test` and a reprint from JSON test the queue before
the render only. Any durable write may raise (`SaveFails`, `AppendFails`,
`RecordFails`), and the request ends in a 500. `Settle` is all that ingest sees of the
worker, `Evict` and
`Expire` are the cache and the clock.

**PngCache** is the chunk cache, a step per file. `BeginPut`, `WriteChunk`,
`PutWritten`, `EvictNext`, `Unlink` and `PutReturns` are `put_chunks` with its
eviction, `Accept` the handler that goes on to the accepted record; `ReadMissing`,
`ReadStale` (which unlinks too) and `ReadFresh` are `get_chunks`, called for accepted
jobs by the worker, the job listing and reprint; `Start` is the scan by mtime. The
memory (`lru`, with the bytes `counted` for each job) goes with the process, the
files stay. Any write and any unlink may raise with the process going on
(`PutFails`, `UnlinkFails`): files are then on disk that the list has lost, the
`orphans` of this process, which the next start finds.

**DocumentSchema** has what `schema/blocks.py` admits of each block type, as far as
it decides where ink goes: a text is the bitmap the fonts make of it, a list has
its bounds, a flag its rule (`BleedNoAlign`, `ColumnCount`).

**TextWrap** is `wrap_text` and the loop of `render_drop_cap`. A text is the class of
each character (word, fallback glyph, space) and `ink[i]`, the width of its first
`i` characters; a step is a turn of the loop over the atoms (`WrapSpace`, `WrapAtom`,
`WrapLong`), of the loop that slices an over-long word (`Slice`), or the return.
`GreedyWrap` says what greedy line breaking is without the loop, `NothingLost` that
no visible character is lost, repeated or reordered.

**BlockLayout** has, for each block type, the canvas its renderer makes and the boxes
pasted into it, with the arithmetic of the code: scaling to the paper, the shear
of italics, columns, centring, captions. The ink is a function from the number of a
piece, or its row and column, to its box; sums over lists are `Total`, a recursive
function, so that they can be reasoned about. `Scaled` is `int(height * scale)` with a float
scale, which may be one less than the exact quotient where that is whole; `Truncated`
says where, and is any set, so that nothing rests on a table of float results. Some
data makes a renderer raise what the handler answers with a 500 (`Raises`): QR data
that no version holds, a sparkline of infinities or of a span that overflows, an
image on which Pillow raises neither OSError nor ValueError. **Renderer** runs the two
over a document:
`BeginText`, the turns of `Wrap` and `DrawText` for a block with a text to wrap, `Draw`
for the others, `Raise` when a renderer raises; `Place` is the stacking into preview
and chunks, `Finish` the limits and the answer of `_render_or_400`. Validation of
the whole document before any rendering is `Invalid`, tried with a faulty block.

**IoStallWatchdog** is the script's loop, in turns: `LaunchProbes`, then `Turn`, which
reads the stamps, may start a step of the recovery ladder, and pets or does not;
the probes (`DiskAnswers`, `NetAnswers`) and the step (`RecoveryEnds`) are its detached
children. Stamps are kept as ages, each up to the limit it is compared with.
**WifiProfileGuard** is the other script, a command per step, with `survives`, what a
reset may leave of the profile: a renamed file that was not synced may be empty.
Each command may fail; the script does not look whether the sync of the directory
did (`SyncDirFails`), and goes on.
**PiHost** composes them with the box: a card that stalls, a driver that wedges until
a long enough step of the ladder, a script that hangs or dies, power cuts, the
hardware's counter and both ways to reset. The device is held for a whole
behaviour or not at all (`held`); DRYRUN is left out. A stall begins only once the
script has opened the device, since before that nothing watches, and a reset is
assumed to clear stalls and wedges.

**SchemaCache** is the MCP server's schema: `BootFetches` and `BootGivesUp`, and
listings that interleave at the GET they await. **Senders** composes it with the
CLI's commands, the MCP tools, a network that loses and delays, and the service as
these see it: `Handle` is `/print/raw` in one step and `Rendered` the second half of
`/print`, with `Hit`, `Conflict` and `Duplicate` as in `HttpIngest`, and a crash between
a job's record and its key's. A request stays in `wire` until it is handled, also when
its sender has given up, and one that is lost is one never handled; so a job may be
accepted after its sender reported a network error. Appends do not fail here; CLI
and MCP keys are apart (`X-Sender`), as in `IdempotencyCache`. A status is pending,
printed, one of the ends without paper or in doubt ("unprinted"), or pruned. Time
between polls is abstract. A 200 whose body is not JSON is left out.

**MCPrintWorker, MCHttpIngest, MCJobLog, MCPngCache, MCRenderer, MCPiHost, MCSenders**
name the jobs, blocks, limits and tools of each scenario; `MCJobLog` also states that
jobs are interchangeable.

## Runs

| run | instance | what it shows |
|---|---|---|
| `worker_faults` | job a expires, has two chunks and is evictable, job b is held; skew of two ticks either way until NTP answers; one step that fails (an append, an unlink, the clock probe), 1 crash or stop, 3 ticks | paper, statuses and order under every failure; expiry and holds go by real time; no wake-up is lost while nothing fails; the worker implements `JobJournal` |
| `worker_settles` | the same jobs on a synchronised Pi, 9 ticks, fair | every job ends; no early timeout |
| `joblog_torn` | two jobs, four appends of which two are interrupted, room for two records, two crashes | what was written is replayed; replays keep `JobJournal`; a start makes room |
| `ingest_admission` | two raw requests and a document with one key, a reprint of the document, depth 2, log of one job, one crash, one failed write, one TTL | answers stay true; cap; liveness |
| `cache_evict` | a cache of two chunks, jobs of two, one and three, TTL 1, clock 0..2, two crashes, one write or unlink that raises | recency list and disk agree but for orphans of a raising call, the ceiling holds for the rest, parts of jobs only from interrupted unlinking |
| `render` | every block type in its styles, alignments and extreme sizes first, then cuts and spacers up to four blocks; texts of up to four characters in every order of word, glyph and space, and of six that end in a word | lines are broken greedily and lose nothing, ink stays on the paper and off other ink, chunks are the stretches between cuts, a 500 only for the data that makes a renderer raise and for what is scaled to nothing |
| `pi_host` | limits in the order of the defaults, early and late start of the script, two faults | no box that answers is reset by a held device; no reset during the guard leaves half a profile; the box comes back for good |
| `senders` | any two of nine commands and tool calls and two listings, two attempts, one crash, one TTL, one upgrade, a queue of one | one job per key; every report is true; listings offer the schema that is held |
| `worker_stranded_retry`, `ingest_duplicate`, `cache_part`, `pi_host_sysrq` | the smallest instance with the case | the four disagreements under "Findings" |

Bounds. Two jobs are enough for order and blocking, which are about a pair; two
chunks tell the first from the last and from the one in between a failure, and a
part of the job from the whole. A failing step may fail both the record of an attempt
and the record of its failure (`Unexpected`). A retry interval of two ticks leaves
room for a job to become eligible within it; the clock of `worker_faults` lets a
refused job be tried again and given up, that of `worker_settles` several times.
`AcceptBy` and `SyncBy` only cut off late starts of the same behaviour. In `JobLog`
two interrupted appends give a torn line
followed by another, room for two records makes the third one prune, and four
appends end both jobs, so that prune must choose. In `PngCache` a cache
of two chunks holds one job or the other, and a job of three cannot be kept at
all. In `HttpIngest` the cap of two is reached by three
jobs, `MaxJobs = 1` makes prune bite, and each request is sent once: a client's
retry is another request with the same key. In `Senders` that retry is the client's
own; two attempts are the first and the last (the code has three), and with two
participants every pair of commands meets. In `Renderer` a character of a text stands
for a stretch of a real one, 180, 190 or 80 pixels, so that two fill a line and the
third cannot: which atoms meet at a margin is what matters, and the theorems hold
for every width. Bitmap sizes are those of the bundled fonts (the fallback's lines
are 26, 24 and 21 high at 18, 16 and 14 points), for short texts and the longest
the schema allows. In `PiHost` the limits keep the order of the script's defaults,
which `MCPiHost` assumes by name, and not their sizes; two faults are a fault and
one while it is being recovered from. The bounds on ends, faults and eras are named
constants; the theorems hold for all of them. The runs other than `pi_host` do not
check for deadlock, since with every bound used up the model stops, as an idle
service does; a Pi never stops.

Fairness. `worker_settles` assumes that ready asyncio tasks run (`Handle`, timers),
that a call to `print_png` returns in one way or another, that an ended service
is started again (`Restart=on-failure` in `deploy/printer.service`; after a clean
stop, by the operator), that time passes and that NTP answers. Nothing is assumed
of the printer: it may refuse for ever, and the job still ends, by
`max_retry_age`. `ingest_admission` assumes that handlers are resumed and renders
end; clients need not send anything. `pi_host` assumes that time passes (`Time`), that
the kernel schedules the scripts and their children when nothing stalls them, that
the hardware's counter resets the box at its timeout, that systemd starts the
watchdog script after a boot and again when it dies (`Restart=always`), and that
what NetworkManager writes reaches the card in the end. A stall need not end, a
driver need not revive. `Recovers` holds for a box that holds the device and has a
usable profile to restore; the others have nothing to recover with.

## Proofs

`PrintWorkerProofs` proves for all jobs, chunk counts, options, clocks, faults and
restarts, from the assumptions on the constants alone:

* `TypeCorrect`. `TypeOK` needs one fact more to be inductive, that accepted jobs
  have an integer time of acceptance (`Stamped`), for the retry anchor at start.
* `PaperInvariant`. `NeverPrintedTwice` says nothing about who may print next, so
  it is strengthened to `PaperInv`: a job that is not terminal and has paper out
  is at `printing`, and is the one being sent, or is set aside in `_unsettled`, or
  the process is down and `start` will close it (`PaperIsOwned`); the job being
  sent has exactly the chunks before the current one on paper, counted from the first
that the cache returned, which is the job's first unless its unlinking was
interrupted (`SendingState`, `CachedWhole`); a
  terminal event is never without its terminal record. `PrintedAtMostOnce`,
  `StatusesAreTruthful`, `PrintedJobsWentToTheEnd` and `TerminatedJobsAreDone` follow.
* `NothingExpiresEarly` and `ScheduledJobsWait`. Both go by the steps that start
  the thing (an `expired` record, a send), which need `synced`, hence the wall
  clock is real time, which never goes back (`TimeStep`).
* `JobsKeepTheirOrder`. `NoOvertaking` with `FreshIsFree`: a job without records
  is neither waiting for a retry nor set aside, so the selection cannot pass it.
* `WorkIsNeverSleptOver`, as long as nothing has failed (`faults = 0` is a premise of
  the property; after a failed append it is false, see `worker_stranded_retry`).
  `NoLostWakeup` is inductive
  once `_unsettled` is known to be empty: then what a scan looks at is all that is
  owed, and a scan that finds only waiting or held jobs sets the hold timer
  (`HoldIsSet`), a refusal starts a nap, a start gives a token to each job.
* `NobodyGivesUpEarly`, where the Pi's clock is right (`Skews \subseteq {0}`; with one
  that jumps it is false, see below). A restart loses `_first_seen` and counts again,
  so the property is strengthened to `AgeInv`: the age of a job is never counted from
  a time before it was accepted and printable (`CountedFromRipe`). That a job without
  an entry is printable when it is refused comes from `SentWhenDue`.
* `WorkerKeepsJournal`. A step that leaves `arrival`, `latest`
  and `terminated` alone is a stutter (`QuietJournal`), each way to append for a
  job that is owed is a `Note`, a `Close` or a stutter (`AppendJournal`), and an
  acceptance extends the order at its end (`AcceptJournal`). That the job in hand is
  owed comes from `PaperInv`.

`HttpIngestProofs` proves the ingest for all requests, keys, bounds and crashes. It
needs that a JSON payload is no PNG and that hashes tell payloads apart
(`PayloadAssumption`), and that `None` is no entry.

* `ShapeInvariant` is the base: for each handler between two awaits, what it holds
  and which of its writes are done; the handler in `busy` is the only one between
  two writes. `IngestTyped` follows.
* `PendingJobsHaveChunks` and `AnsweredJobsAreKept` add what the writes leave behind
  when they fail or the process ends; an answer is stronger than its record, since
  the record outlives the handler until prune takes it with its terminal one.
* `CapIsTested` is about the step that commits: the count the handler tested is
  still the count, for it has held the loop since. That goes for a reprint of cached
  chunks too, which stores no document (`ReprintInv`).
* `PendingJobsAreWoken`: a job that was replayed or enqueued has a token; one that
  was not has its handler in `busy`, about to put it.
* `RawIsIdempotent` is the longest. While a raw request holds the loop the key's entry
  is its own or there is none; in one life of a key without failed appends the entry
  in memory, the file and every answer given name one job, also across restarts.

`PiHostProofs` proves for any limits and any number of faults that a reset while the
guard works leaves what it found or a whole profile, and that the guard configures
the network only from a whole one, which no reset can lose any more but when the
sync of the directory failed in that very step (`GuardNeverLosesProfile`): what was
renamed had been synced, so from `sync_dir` on a whole profile is in place (`GuardInv`).
After such a failure a reset may bring back what was there before, and the next boot
starts the guard again. `HostTyped` is the type invariant
of the composition.

`JobLogProofs` proves what the rest of the service takes from the log, for all jobs,
stamps, limits, and numbers of appends, torn writes and ends of the process. `LogInv`
says that the file is a sequence of records and fragments, that an id in it was used
before (`Known`), and that the temporary file is a copy, in order, of the first of the
records prune keeps (`Copied`). Two lemmas about files carry the rest. `AddLine`: a
line appended changes the jobs, the latest event and the place of acceptance of its
own job and of no other. `CopyReplay`: a copy, in order, without the records of some
ended jobs shows the same pending jobs, order and stages; its hypothesis is what
`CopyIsWhole` gives when `ReplaceLog` runs, since an order-preserving map between
finite sets of one size is onto. That `Dropped` exists at all is the well-foundedness of
strict inclusion on finite sets (`KeptIs`).

* `WrittenIsReplayed` (`AppendedStays`): the ids of a replay only grow but for prune,
  which takes all of a job or nothing, and nobody writes for a job it has taken.
* `StartMakesRoom` (`StartsWithinLimits`): also when the prune before was cut short.
* `LogKeepsJournal` (`KeepsJournal`): an accepted record is `Accept`, or `Lose` when no
  line of it survived; a later record is `Note` or `Close`, or a stutter when it is the
  `retry` after a terminal record whose append raised; everything else is a stutter.
  With `WorkerKeepsJournal` both sides of `JobJournal` are proved.

`PngCacheProofs` proves the cache for all jobs, sizes, ceiling, TTL, clock, ends of
the process and raising writes and unlinks. `LruIsDisk` holds between two calls only;
`ListInv` says what holds inside one: the list is the disk without the job being
written, the job being evicted and the orphans (`Listed`), only an eviction or expiry
unlinks (`Unlinking`), what the list counted for a job is no less than what is left of
it (`Counted`), and a job
without an mtime has no file (`NewIsEmpty`). `ListIsDisk` and `CeilingHolds` follow, the
latter because what the loop of `_evict_to_cap` sums over is then all of the disk but
the orphans. `ReadersGetTails` adds that what an accepted job has on disk is always
its last chunks, since a put is accepted only when it is whole and unlinking goes from
the first, and all of them unless unlinking it was interrupted.

`SendersProofs` proves the senders for any commands, tools, keys, attempts, losses and
restarts. `TypeInv` says which job, request and schema each entry names. `JobInv` is
behind the rest: a job was made from a request of its key's sender (`MadeRight`); a
key that is held names its one job from the accepted record on (`KeyIsHeld`); requests
waiting to be rendered are documents to be printed, neither dry nor raw (`InLine`),
and a command is in one place (`OnePlace`). `OneJob`, `ReportsAreTrue` and `ListsHeld`
follow; `NoneAssumption` says that
`None` is neither an end, nor an idempotency entry, nor a key derived from a payload.

`RendererProofs` proves that line breaking is right for every text, font and width,
from `CallsAssumption` alone (widths grow with the text). `WrapInv` says of the loop at
work that what is consumed is on a line or on the current one (`Consumed`), that the
current line fits (`CurrentFits`), that it began where the last line had to end
(`StartsLate`), and that an atom that is being sliced fits on no line (`Slicing`). Each
turn keeps it (`SpaceKeeps`, `AtomKeeps`, `LongKeeps`, `SliceKeeps`, `EndKeeps`), and a line
that is finished keeps what finished lines must be (`BreakKeeps`). `WrapsGreedily` and
`LosesNothing` follow, for every caller, since the renderer's other steps leave the
loop alone or start it anew (`RendererSteps`).

`LayoutProofs` and the rest of `RendererProofs` do the same for the ink. They rest on
what the schema admits (the sets of `DocumentSchema`, with the rules of `Blocks`) and on
`FontsAssumption`, which TLC evaluates on the instance of `render`: lines that are
wrapped are at most 26 high, as are those of list items and kv keys; the lines of a
header, a section title, an address, an epigraph's source and a table are at most
60, 53, 30, 26 and 28; a numbered list's prefixes leave room for its items. Nothing is
assumed of widths, of the number of lines, items, rows, runs and bars beyond the
schema, or of the other heights.

* `EveryBlockIsLaidOut` says for each block type that its boxes lie on the paper up to
  `Overhang` and `Excess`, do not meet unless `TightStep`, and that the canvas has a
  height, unless the resize left nothing (`NothingLeft`). It has a lemma per type
  (`HeaderLays` ... `RichTextLays`). They share `FitIs` (scaling), `RowsSnug`, `TightRows`
  and `ListLays` (rows), and for rich text `LinesAre`, `LineWidth` and `StackedLines`: the
  fragments of a line fit on it but for one slant, whatever the order of the runs.
  For tables `ShareIs` and `SharesFit` bound what each column keeps of the paper when
  all are scaled by integer division, and say which column may be left with nothing.
* The sums are where recursion comes in. A function that adds up the first n numbers is
  built and shown to be unique by taking a least counterexample (`LeastIs`), which
  stands in for induction; `TotalStep`, `TotalGrows` and `TotalPart` follow, and the same
  argument gives the greatest of finitely many numbers (`HasGreatest`) and the starts of
  the lines of a rich text (`StartsExist`).
* `RenderInvariant`. The properties look at a canvas, or at the finished document;
  `RenderInv` says what holds on the way. `Drafted`: the canvas is blank or that of the
  block at hand, which is laid out. `Lined`: the lines of the text being wrapped are
  spans, and there is one at least. `Paged`: the chunks so far are exactly the stretches
  between the cuts so far, the one being filled runs to the end (`Stretches`), and
  preview and chunks add up but for a pixel per cut (`AddUp`). `CutStacks` and `InkStacks`
  carry it over a part, `FinishKeeps` over the end of the document.
* `RendererTyped`, `InkStaysOnPaper`, `NothingOverprinted`, `ChunksFollowCuts` and
  `FailsOnlyOnNothing` follow, for documents of any length.

The proof found three cases that the instance of TLC had left out, and the properties
and the instance now name them: lines of the mono face with box-drawing characters,
which are up to 28 high, reach beyond kv blocks and code by the difference (`Excess`)
and may touch the next line (`TightStep`); and a column whose cells are a pixel wide,
as zero-width characters are, is left with nothing in a table of two columns as well.

Not proved: the liveness properties (TLC only, as the prover has neither fairness nor
ENABLED); the reset properties of the watchdog, which depend on the order of its
limits.

## Findings

Checked by a run each:

* A failed append before any paper moved leaves a job at `retry` with no timer
  (`worker_stranded_retry`).
* Two concurrent `/print` requests with one key become two jobs
  (`ingest_duplicate`).
* Chunks are unlinked one by one. When the process ends between two unlinks of a job,
  its next start takes the rest for the whole job, which is then printed as `printed`
  and served to a reprint (`cache_part`), against the docstrings at `cache.py:37` and
  `cache.py:128`. `PartsAreTails`, `NeverPrintedTwice` and `PrintedToTheEnd` say what
  is left of the promise: the last chunks, in order, and only after such an end.
* A watchdog script that starts within 40 s of boot and does not hold the device
  resets a healthy box at the end of its grace period (`pi_host_sysrq`): the disk
  stamp of the start is then older than its limit, 80 s, and the first probe has
  only just been launched. With the device held the same turn withholds one pet,
  which is harmless. A start within 30 s also bounces the link once for nothing.

Met while modelling, and left out of the properties above by their statements:

* A retry cancels the hold timer of a scheduled job and does not arm it again
  (`worker.py:170`), so that an eligible job may wait for another job's retry timer;
  `NoLostWakeup` asks only for some timer.
* The retry age is the difference of wall-clock stamps from before and after NTP
  (`worker.py:351`), so that a step forward ends a job early;
  the run of `TimeoutOnlyAfterRetryAge` has a Pi whose clock is right.
* `/test` and reprints from JSON test the queue before the render only and may
  exceed its cap (`app.py:599`); `AdmittedUnderCap` is about the others.
* A write or unlink that raises in `put_chunks` (`cache.py:96`, `cache.py:117`) leaves
  files that the recency list has lost: they count for no ceiling, and reading such a
  job raises KeyError (`cache.py:145`), which the worker takes for a retry and never
  schedules, until the next start scans the directory. `LruIsDisk` and `CapAfterPut` name the
  case.
* The guard does not check the sync of the directory (`wifi-profile-guard.sh:59`): it
  may configure the network from a profile that a reset loses again.
  `GuardIsCrashSafe` names the case.
* A line of the fallback font is taller than the step between the lines of `code` and
  `address`, and overprints the line above (`TightStep`).
* Italics and the inverse section title are shifted after they were fitted to the
  width, and lose their right edge when they fill it (`Overhang`).
* A line of body text in the mono face is 28 high when it has box-drawing characters,
  not the 24 of the comment at `typography.py:18`, and meets the line below in the
  values of a kv block and in tables (`TightStep`, `Excess`). The comment's "mixed-script
  lines never overlap" holds of the fallback's lines.
* Some documents that pass validation end in a 500 (`FailsOnNothingLeft`). A table of
  three columns with two wide ones, one of two with a column of zero-width text beside
  a wide one, and an image too flat for one row, are resized to nothing; with a float
  scale also one of 49 by 49 at `width_px` 1. QR data of up to 2000 characters may be
  more than 2331 bytes; a sparkline may hold numbers whose span is infinite; Pillow
  may raise DecompressionBombError, which is neither OSError nor ValueError.
* `render_document_chunks` is documented to return no trailing cut for a document
  of cuts alone; it returns one. The caller refuses such a document first.

## Not modelled, and the plan

Components that are partly modelled, and what is left of them:

* Renderer: glyphs, dithering and supersampling (a bitmap's size is an input), limits
  on the length of texts, the structure of error bodies, document options other than
  `max_length_mm`. They decide how ink looks, not where it goes. The rules drawn by
  section titles,
  headers and tables are not among the boxes of `InkOnPaper` and `NoOverprint`, and the
  height of a sparkline's bar may differ by a row from the code's, which divides floats.
* MCP server and CLI: the tools that are one GET, reprint and test without a key, the
  lint rules and the HTML compiler (pure functions over a design file and a headless
  browser), and the commands on design files. Lint is an outcome in `Senders`.
* Transport: the ESC/POS bytes and the status reader, which always answers that it
  is unsupported. Health: read-only reports. Start-up: configuration parsing.
* Cache: `PngCache` stands beside `PrintWorker` and not under it; the worker sees
  how many of a job's last chunks are there.

Left out: printer-core (arithmetic on pixels), installation and sync scripts,
read-only endpoints. They keep no state that another part relies on. `/jobs` is the
exception, for the recency of cached PNGs; it is a reader in `PngCache`.

What would come next: `PngCache` under the worker instead of `Evict`; proofs of the
watchdog's reset property from the order of its limits.
