# A verification of s3prefix-archive

`s3prefix-archive` lists a bucket prefix (or several), downloads every object, and streams one ZIP
or TAR archive to a destination.  Between the listing and the last byte of the archive stand a
bounded pool of tasks, an adaptive limiter of GetObject calls, a byte budget, a promise chain that
serializes everything shared, a third-party ZIP encoder, and a checkpoint store that outlives the
process.  Each is a few dozen lines, and each is a protocol: what it promises depends on which
promise settles first.  These modules state those promises, check them with TLC on small
instances, and prove the safety ones with TLAPS for all values of the parameters.

## The system

| Component | Source (`src/src/`) | State | Operations | Hard behaviour |
|---|---|---|---|---|
| GetObject limiter | `archive-adaptive-zip-limit.ts` | cap, active, waiters, recovery interval | `limit`, settle callbacks, `onThrottleRetry`, `#tickRecovery`, external raise and lower, `dispose` | lost wakeups, overtaking, an interval that outlives its run |
| Throughput controller | `archive-throughput-zip-adaptive.ts` | two streaks | `observe` | oscillation, floor |
| Byte budget | `in-flight-read-bytes.ts` | used bytes, FIFO queue | `acquire`, `release` | leaks, lost wakeups, overtaking |
| Object pool | `async-iterable-pool.ts` | window of promises | pull, race, join | a rejection nobody sees, a race over nothing |
| Priority pool | `async-iterable-pool.ts` | heap, window | read ahead, pop best, race | lost objects, idle slots, termination |
| ZIP run | `archive-pump-flow.ts`, `archive-zip-sink.ts`, `archive-object-processor.ts`, `exclusive.ts`, `destination-download-gate.ts` | progress, rows, omissions, exclusive chain, output | one task per object, manifest, close | interleaving, partial failure, abort |
| Object bodies, yazl adapter | `archive-object-processor.ts`, `etag-md5-verify.ts`, `node-readable.ts`, `get-object-*.ts`, `yazl-entry.ts` | a chain of streams per body; listeners and a polling loop per append | wrap, resume, append, poll, errors | an error nobody listens for, stale snapshot, waiting for ever |
| Checkpoints | `archive-checkpoint-coordinator.ts`, `checkpoint.ts`, `redis-checkpoint-store.ts`, `sql-checkpoint-store.ts`, `resume-download.ts` | saved keys and entry paths, per run a copy | open, record, save, resume | crashes between two writes, late saves of a rejected run |
| S3 requests | `retry.ts`, `s3-provider.ts`, `abort-signal-util.ts` | attempts under one deadline | `withRetry`, list, get | retry against timeout and abort |
| Other listings | `gcs-storage-provider.ts`, `azure-blob-storage-provider.ts`, `memory-storage-provider.ts`, `ndjson-prepared-index.ts`, `prepared-index.ts` | page, position | list | an abort that looks like an end |
| TAR run | `archive-tar-sink.ts` | as the ZIP run, sequential | append, manifest, finalize | partial failure |
| S3 upload | `platform.ts` | pump and upload over one stream | run | the upload fails first |
| Background jobs | `archive-background-jobs.ts` | snapshots by id, microtasks | create, run, status, result, clear | an id used again while its old run goes on |
| Options | `archive-pump-resolved-options.ts`, `validate-archive-pump-options.ts`, `archive-sources.ts` | none | resolve, refuse | values that pass every comparison |
| Command line, queue worker | `cli.ts`, `bullmq.ts` | none | arguments and job data to options, exit code | text that is no number; success over a cut archive |
| Stage meter, statistics | `archive-stage-meter.ts`, `archive-bottleneck.ts`, `archive-pump-flow.ts` | open stages, times, counters | enter, leave, move, finish | unbalanced accounting, a clock that steps back |

The engine (`ArchivePumpFlowEngine`) builds all of them for one run.  The pool calls
`runZipObject`, which calls `processOne`; `processOne` takes turns in the exclusive chain, asks
the drain gate, the byte budget and the limiter for leave, calls the storage provider, wraps the
body, appends through the yazl adapter, and saves the checkpoint.  S3 retries call back into the
limiter, and progress samples into the throughput controller.  Everything runs on one event loop:
code between two `await`s is atomic, and each such stretch is one action of a module.

What makes each component correct is listed with its module below; what can go wrong and is hard
to test is the list of hazards in `PROJECT.json`, each with its line and the properties aimed at it.

## Modules

The modules overlap on purpose.  A run has too many parts for one state space, so each module
takes one question in full and the rest coarsely:

```
PumpRun        options -> engine -> statistics   tasks only by stage       PumpOptions, Listing, StageMeter
ZipPump        the data phase of a ZIP run       lock, bytes, checkpoint   AsyncPool, InFlightReadBytes
ObjectBody     one body after another            wrappers, errors          YazlEntry
TarUploadJob   a TAR run under S3 requests       attempts, pages, upload   S3Requests
CheckpointedJob  successive runs on one store    keys and paths
```

**AdaptiveZipLimit**.  `cap`, `active`, `waiters` and `recoveryTimer` are the private fields of
the class; `status` follows each call of `limit()`.  `Limit`, `Settle`, `OnThrottleRetry`,
`TickRecovery`, `DecreaseCapForExternalSignal` and `IncreaseCapTowardMax` are its methods and
callbacks; `DisposeAndDetach` is the engine's `finally`.  Time is one bit, `quiet`.  `mode` says
who moves the cap: the engine never lets both do.
*ThroughputZipController* adds the streaks of `observe()`, and two history variables that count
samples independently of the streaks, for `Hysteresis`.

**InFlightReadBytes**.  `Acquire` is a call up to its first `await`, `Release` the `finally` of
`processOne` with every wake-up it causes.  Sizes are whole bytes.

**AsyncPool**.  `driver` is what the pool function awaits (the listing, the race, the join) or
how it ended; a task's settling reaches the caller only if the driver awaits the window then.

**ScoreHeap, PriorityPool**.  The heap is the array of the code, sifted index by index, through
recursive functions.  `forEachAsyncIterablePriorityPool` shares the promises of its window with
the other pool, so `PriorityPool` extends `AsyncPool` for their state and has a driver of its own:
it reads ahead (`fill`), starts the best objects (`StartBest`), and then races.

**ZipPump** composes `AsyncPool` (extended: its actions start and settle the tasks) and
`InFlightReadBytes` (instantiated: its actions are calls of the tasks) with the exclusive chain
(`lockq`), the tasks of `processOne` (`pc`), the output and the engine.  Each stretch of
`processOne` between two awaits is an action.  `setup` is how a run was set up (failure mode,
checkpoint, manifest, skippable objects) and what may go wrong in it; `Setups` holds the ones
there are.  `stuck` is a zip file that has lost an entry: it rejects every later append, that of
the manifest included, and never ends.  `SampleThrows` is a task that outlives its run and reports
progress to a throughput controller the run has set to null; `Return` is the way out of
`processOne` that may throw like that.

**YazlEntry**.  `AppendEntry` is `appendYazlReadStreamEntry` up to its first pause, `Poll` one
turn of the loop, `StreamError` and `ZipError` the two listeners.  The loop's `entries.at(-1)` is
read in the stretch that pushed the entry, so that it is the append's own.  yazl is external: it
encodes entries in order and stops at the first one that fails.
**ObjectBody** extends it with `wrapGetObjectBodyPipeline`: `chain` is the set of stages a run
puts behind the raw body (read buffer, MD5 check, a stage of the user's, slow-stream monitor),
`Forwards` which of them pass errors on.  `Fetch`, `Append1`, `Chunk` and `EndBody` move a body
along; `SourceFails` breaks it anywhere, while it waits for its turn included; `unheard` (of which
body, and from where in its chain) and `crashed` say what became of an error that had no listener.

**S3Requests** is `S3StorageProvider` over `withRetry`: the listing is request 0, the GetObject of
object `o` is request `o`; `phase` and `attempt` are the position in `withRetry`, `fired` is what
aborted the request's merged signal.  A pause, an attempt, an abort and a timeout are separate
actions.  **TarUploadJob** extends it with `runFolderArchiveToS3`: the engine's sequential run
(`run`), the tar stream and the `PassThrough` it is piped into (`pack`, `body`), the multipart
upload that reads it, and the function that awaits pump and upload in turn (`job`).

**CheckpointedJob**.  Successive runs of one `jobId` on one store; per run the coordinator's
state, the keys in flight and the archive it has written.  `Resume` and `Open` are the two ways
into a run, `Record` and the save actions `recordSuccessfulInclude` on each of the stores: a
statement or SET takes effect in one step (`StoreState`) and is answered in another
(`SaveReturns`), with a failure or a crash in between; a file is truncated and then written, and
two writes that overlap may leave a mixture (`mixed`) that does not parse.
A rejected run's tasks go on (`Alive`), a dead one's do not.  `known` is history.

**BackgroundJobs**.  `jobs` is the map of the registry, `microtasks` the queue of the event loop.
`CreateJob`, `StartJob`, `RunResolves`, `RunRejects` and `Clear` are `createJob`, `runJob` before
and after its `await`, and `clear`; `DownloadResult` is `downloadResult`.  A job is named by its
call, so that two jobs can bear the same id; `orphaned` is history.

**PumpOptions** has no state: `Accepts` is what `ArchivePumpResolvedOptions.from`,
`parseAdditionalListSources` and `assertCrossCutArchivePumpOptions` let through, `Resolve` what a
run makes of it.  A number may be `NaN`, with which every comparison is false, as in the code.
`CliRequest`, `BenchmarkRequest` and `JobRequest` are the options the command line and the queue
worker can ask for.

**Listing** is one listing as its consumer sees it, whichever provider it comes from: pages, the
next object, the end, a failure; and what each provider makes of an abort.  GCS looks at the
signal when it is asked for more than its page holds (`leaving`), so that a page requested before
the abort still comes and is yielded.

**StageMeter** is `ArchiveStageOccupancyMeter` as operators on a record, and the bottleneck that
is read off it.

**PumpRun** composes the three under `ArchivePumpFlowEngine`: `Bootstrap`, `OpenCheckpoint`,
`Start`, `DataEnds`, `Close` and `Finalize` are the stretches of the engine, `Ask`, `Take`,
`Exhaust` and `StartBest` the pool's, and the tasks move between the stages of the meter.
`caller` is who asked (a pump, a stream, the two commands), `request` what for, `plan` what was
made of it, `stats` and `exit` what the caller gets.  `dest` and `zipfile` are the output:
`BodyBreaks` is a body that fails in the middle of its entry.  A tar pack is destroyed with its
destination.  A zip file is left with an entry it never finishes; if the append heard of it
(`errored`), that append and all later ones reject, and `end()` without a manifest waits for ever;
if it did not (`blocked`), the append waits, and every other section behind it.

`MC*` modules and the `.cfg` files give the constants their values.  Operators introduced by a
`Mutant` comment are faulty variants of the definition that follows them; no specification uses
them, and each property of a passing run is violated when one of them takes the original's place.

## Runs

| Run | Instance | What it shows |
|---|---|---|
| `zip_concurrency` | 3 calls, concurrency 3, 3 throttles, 2 breaches, 3 ups, floor 2, both modes | the limiter's safety and liveness under every interleaving of calls, throttles, samples, ticks and the end of the run |
| `read_bytes` | 4 workers, sizes 0, 1, 2, 5 in a budget of 3, 7 objects | exact accounting, no lost wakeup, bounded overtaking, no starvation |
| `priority` | 5 objects, 2 slots, read-ahead 4, all score functions | heap and pool together: best first, nothing lost, no idle slot |
| `zip_faults` | 4 objects, 3 at a time, budget 2, a repeated key; fail-fast with every fault, checkpoint, manifest and throughput controller; best-effort with manifest and failing GetObject calls, appends and listing; best-effort without manifest and with failing appends | a resolved run is complete whatever happened; entries never interleave; no leak; omissions are accounted for; a checkpointed key is archived twice only by tasks in flight together; a best-effort run settles, unless it waits without a manifest for a zip file that has lost an entry |
| `entry` | 3 bodies of 2 chunks, 2 workers, each of the 24 chains, HTTP and web bodies | an append resolves only on a whole and verified body; an error nobody hears needs one of the gaps the property names, which depend on where in the chain it arose |
| `resume_job` | 3 objects, two with one entry path, 2 runs; SQL and Redis one at a time, file and Redis two at a time; legacy or no checkpoint | crash safety of the checkpoint, path dedupe across runs, no work done twice in sequence |
| `tar_upload` | 3 objects on pages of 2, 3 attempts, timeouts, abort, naming, append, save and upload faults, both failure modes, with and without checkpoint | an upload that completes is a whole archive; no retry after an abort or a timeout; the job settles |
| `jobs` | 4 jobs under 2 ids, `clear()` at any time | only an orphaned job writes into another one's snapshot, answers match the runs, jobs settle |
| `pump_run` | 3 objects on pages of 2, two of one name; 224 requests of four callers, 55 of them accepted; five providers, one kind of fault at a time, a clock that moves either way | losses need an abort or a short index, reports add up, the meter partitions the wall time, dedupe finds duplicates, runs settle but for the waits `RunSettles` names |
| `pool_unhandled` | violation | `p.finally` makes an unhandled rejection |
| `resume_zombie` | violation | a rejected run's late save undoes a later run's checkpoint |
| `resumed_file` | violation | a resume truncates the file whose objects it then skips |

*Bounds.*  Three calls against a cap of three that can fall to one give every relation of cap,
active and queue (empty, one, several); four workers with sizes below, at and above the budget
give every order of direct grants and wake-ups, with two waiting while two hold; four objects,
three at a time, is the least that has a full window, one object being listed and one settling at
once.  Three bodies and two workers give one body that is appended, one that waits and one that
follows a failed one, and two chunks a break in the middle.  Two runs are enough for the safety of
the store, since a run sees only the store; the third run of `resume_zombie` is there to notice
what the second lost.  Three objects on pages of at most two give a listing of several pages with
a request between objects, and three attempts a retry that is neither the first nor the last.
Four jobs and two ids let an id be given, cleared and given again twice over while its first run
is outstanding.  In `pump_run` a fault is a kind of fault: it may strike every object.
`MaxThrottles`, `MaxArrivals`, `MaxObjects`, `NumEntries`, `NumChunks`, `MaxRuns`, `MaxMoves` and
the set `Jobs` bound what is unbounded in the code.

*Fairness.*  Weak fairness only, and only where the runtime provides it: promise callbacks,
microtasks and timers run, requests return (the SDK times out, retries are counted), the encoder
goes on while its output is healthy, yazl reports the entry it cannot finish, and an append to a
zip file that has errored is rejected.  In `tar_upload`
every request is answered in the end, and the upload reads what it is given; in `jobs` the runs
that are handed to the registry settle.  Nothing obliges a caller to call, a signal to fire, a
sample to come, an environment to fail or not to.

*Deadlock* checking is off where a system stops because a run ends: everywhere but in `jobs`,
where `clear()` is always possible.

## Proofs

Eight modules prove safety properties for every value of the constants.

* `AdaptiveZipLimitProofs`.  `NoIdleSlot` is not inductive: a pump that starts too few calls would
  break it only if the queue held something that is not waiting.  The invariant `IInv` adds the
  types, the count of active calls and the exactness of the queue.  Lemmas reduce every step to
  one of five shapes (nothing moves, a direct start, an enqueue, a settle that wakes at most one,
  a wake), because under `NoIdleSlot` a settle or a raise frees exactly one slot, so `Pump` starts
  at most one call.  `Fifo`, `NoStartAboveCap` and the counting follow shape by shape;
  `TimerExact` is a separate induction over the interval.  The throughput controller is proved to
  drive the limiter as the limiter allows (`CSpec => Spec`: each of its steps is a step of the
  limiter or leaves it alone), so that all of this holds under it too; `Hysteresis` follows from
  an invariant that ties each streak to the samples counted independently of it.
* `InFlightReadBytesProofs`.  The same pattern: types, exact queue, and `HeadDoesNotFit`; from it
  follow the bound on `used` and `OvertakesOnlyIfSmaller`.  `AccountingExact` needs what the sum
  over a set is: that it has a value, the same in whatever order it is taken, and that one worker
  changes it by that worker's bytes, are inductions over the subsets of a finite set.
* `ZipPumpProofs`, the pools.  In `AsyncPool` window, driver and outcomes are tied by one
  invariant, which gives the three safety properties and the finality of the end.
  For the priority pool the heap comes first: a loop written as a recursive function over numbers
  has a value if each turn lowers a measure (`LoopDefined`), and what sifting up or down keeps is
  shown by induction over the positions: a heap with one entry out of order, above or below, stays
  one until the entry has found its place.  So a push adds its entry and nothing else
  (`PushAdds`), and a pop takes an entry that is better than all that stay (`PopTakesBest`).  Over that lies `Books`:
  what has been read is in the heap, in the window, or done, in one place only; with `WaitsWell`
  (a race leaves a free slot only over an empty heap) it gives `WaitsOnlyWhenBusy` and `BestFirst`.
* `ZipPumpProofs`, the run.  Every action is a step of the pool or leaves it alone, so that the
  pool's invariant holds in every run.  Over it lie
  `LockInv` (who needs the exclusive chain is in it once, and only the first has begun), `LinkInv`
  (a task is in the window from its start to its end; a run that goes on has a resolved pool) and
  `CoverInv` (what a task holds of the budget, by its place); they give `ExclusiveChain`,
  `NothingRunsUnderTheManifest` and `BudgetCoversBodies`.
  `ResolvedRunIsComplete` speaks of the end, when all traces of a forgotten rejection are gone.
  The invariant therefore speaks of `Healthy` runs: a failure that is not an omission destroys the
  output, or needs an abort, and neither is ever undone.  While a run is healthy no task has
  failed (`TasksInv`), the entries are distinct and belong to tasks past their encoding
  (`EntriesInv`), each saved key has an entry (`KeysInv`), the counters are the sizes of three
  sets of tasks (`CountInv`), and the entries are the rows followed by those whose record section
  is still queued, in queue order (`RowsInv`), which is why a manifest written last has them all.
  `RepeatsOnlyInFlight` needs that the key of every entry is known or its task is about to record
  it (`KnownInv`).
* `YazlEntryProofs`.  `ErrorReachesAppends` is inductive over the types of the promises: an append
  that starts is pending only if the file has no error, and a settled promise stays as it is.  It
  carries over to `ObjectBody`, whose steps are steps of the adapter or leave it alone, and there
  `ResolvedIsWhole` needs that a resolved append's entry is encoded (`ResolvedIsEncoded`), and that
  an encoded body has ended, and ended well.
  `UnheardOnlyInGaps` is about all that can be listening when a body breaks: `HearInv` adds that
  an error an append noted before its loop is on record, that every entry handed over has a
  promise, that a promise is rejected for an error of the file or of its own body, and that a body
  flows only once it is appended (so that a digest is compared in its turn), and then each way in
  which an error finds no listener is one of the gaps.
* `TarUploadJobProofs`.  `UploadIsWhole` speaks of the end; the invariant says what holds on the
  way: until something is thrown, the objects the loop is done with are exactly those archived,
  omitted or skippable, and the counters add up to their number (`AccountInv`); a listing that is
  over was read to its end (`ListingInv`); entries are distinct and a manifest comes last
  (`EntriesInv`); and only a run that has finished ends the body of the upload (`OutputInv`),
  because every other way out destroys it.  `RetryInv` (a request that pauses has an attempt left)
  makes the number of attempts inductive.  `AbortEndsRetries` needs the types only.
* `CheckpointedJobProofs`.  `StoreNeverAhead` speaks of the store alone and is not inductive: what
  the store is about to be given sits in the coordinators and in the tasks.  The invariant says of
  every place a key or an entry path can be in (the store, each coordinator's state, the taken
  paths, the tasks past their encoding) that an archived object backs it, and of a skipped task
  that it is covered (`KeysBacked`, `PathsBacked`, `TasksBacked`); `TasksListed` says that an open
  run has neither lost nor failed an object it has listed, which gives `NothingForgotten` when the
  run resolves.  One lemma per variable says what any step does to it, so that overlapping runs
  and late saves need no case of their own: archives only grow.
  `DedupeSpansRuns` and `NoWorkTwiceInSequence` hold for jobs that work on one object at a time
  over a store with whole saves, by `SeqInv`: runs follow one another (`OneAtATime`), what was
  acknowledged stays in the store (`StoreKeeps`), an open run knows at least what is stored
  (`StateKeeps`), and what it is about to append is in neither (`TasksKeep`).
* `PumpRunProofs`.  One invariant, checked with TLC before it was proved, gives the four safety
  properties of the whole run.  `TaskInv` is its heart: as long as the output is not broken, a
  task that has ended left its object in exactly one of the ways a report can tell (included and
  in the archive, skipped, omitted), or was forgotten by an aborted run; `ListInv` and `PoolInv`
  say that a pool that resolves has seen all there was, and that a listing ends early only where
  an abort looks like an end.  `CountInv` keeps the statistics equal to the sizes of the sets of
  reported objects at every moment.  `MeterInv` says that the open stages are those of the tasks and
  the listing, and that the times add up to the last reading while the clock has gone forward; it
  needs each share to be whole, and the window, which an accepted request keeps within 16, makes
  every weight divide the meter's unit (`Scale`, 720720).  `DedupeInv` speaks of windows of one,
  the only ones dedupe is let through with.
* `BackgroundJobsProofs`.  A job whose snapshot is not its own any more was orphaned; with the
  queue holding exactly the jobs whose microtask is due, both properties are inductive.

Assumptions: the named `ASSUME`s of the modules and nothing else.  Among them, the workers of the
byte budget are finitely many, `NaN` is no integer, and the concurrency a run is asked for is an
integer of either sign, absent, or `NaN`.  The type invariants, and `Bookkeeping`,
`NoStartAboveCap`, `WindowExact`, `NeverStuckOnEmptyWindow`, `ResolvesWhenAllDone` and `S3TypeOK`,
are proved and have no run of their own.

So every safety property that a passing run checks is proved for all values of the constants.
Only model-checked are the liveness properties (`EveryWaiterStarts`, `CapRecovers`,
`EveryWaiterGranted`, `PoolReturns`, `RunSettles` of both modules, `JobSettles`, `AppendSettles`,
`EveryJobSettles`), as fairness is out of the prover's reach.  The inductions over data (sums,
heaps, loops) are done with sets, of subsets or of numbers, in the place of predicates, since the
provers cannot instantiate a theorem that takes an operator.

## Seen on the way

Behaviour met while modelling and not kept as a run of its own.

The pool and the run:

* A fail-fast or aborted run need not settle: an append that waits for yazl behind a destroyed
  output never finishes, and if the error was forgotten by the window (the driver was awaiting the
  listing) the pool waits for that append for ever.  The same goes for a ZIP run whose destination
  fails in the middle of an entry.  `RunSettles` of `ZipPump` is therefore checked for best-effort
  runs, and that of `PumpRun` names the cases.
* A best-effort run does not survive a body that fails in the middle of its entry.  In a ZIP run
  the object is omitted and the run goes on, but yazl never finishes that entry: every later append
  and the manifest are rejected, and without a manifest `end()` and `waitPipeline()`
  (`archive-pump-flow.ts:652-653`) never settle.  In a TAR run the failing body destroys the pack
  (`archive-tar-sink.ts:33-38`), and the run rejects when it closes its archive.
* A checkpointing run may archive a key that is listed twice (overlapping roots) twice, while both
  tasks are in flight.  `RepeatsOnlyInFlight` says that there is no other way.
* A task that outlives a failed run reports its progress to a throughput controller that is null:
  a TypeError, which changes the task's outcome in a run that is over (`archive-pump-flow.ts:592`).
* A task that the abort keeps from starting rejects without touching the output; if the window
  forgets that rejection, the aborted run resolves without the object.  `LossNeedsAnAbort` says
  that nothing else is lost in silence.
* The GCS and Azure providers leave their page loop when the signal has fired
  (`gcs-storage-provider.ts:64`, `azure-blob-storage-provider.ts:42`).  If no task is started after
  that, nothing looks at the signal again: the aborted run resolves over a cut archive.
* When a listing fails, the engine rejects without touching the destination.
  `createFolderArchiveStream` destroys its own; a caller of `pumpArchiveToWritable` or
  `downloadFolderToFile` is left with one that is neither ended nor destroyed.
* A concurrency that is not a number passes every check of the options.  Most runs then fail in
  `pLimit(NaN)`, after the checkpoint was opened; with a priority and an adaptive limiter no
  `pLimit` is made, and the priority pool spins without ever awaiting anything.
* `README.md:463` has `onArchiveEntryEnd` run "for every listed object"; it is not called for an
  object whose name, drain gate or checkpoint save fails.
* Above `manifestMaxEntries` rows are no longer pushed, and the test before the manifest is written
  can no longer fail: a truncated manifest is written.  `types.ts:594` has "Skip manifest when
  object count exceeds this".

Requests and uploads:

* The timeout of `types.ts:680` ("Per-command wall timeout") is one signal per listing or object:
  all pages, attempts and pauses share it, and so does the time the consumer takes between pages.
* A timeout that fires during a pause surfaces as an `AbortError`, one that fires during an attempt
  as `S3_REQUEST_FAILED`.
* When the listing of a TAR run rejects, the engine leaves without the sink: the pipeline breaks
  only when `runFolderArchiveToS3` destroys its end, and then rejects with no handler.  The promise
  of the upload has no handler either while the pump goes on (`platform.ts:54`).

Bodies:

* `pipe()` does not pass errors on.  A body that breaks in front of the MD5 check leaves a
  transform that neither ends nor fails, and an append that waits for it with the lock held; a body
  that breaks while it waits for its turn has no listener at all.  `UnheardOnlyInGaps` lists these.
* `waitYazlLastEntryComplete` copies `errored` before its loop: after an error of the zip file the
  append is rejected by its listener, and the loop polls on for ever, one `setImmediate` per turn.
* `in-flight-read-bytes.ts` calls its budget FIFO; the fast path of `acquire` overtakes.
  `OvertakesOnlyIfSmaller` and `EveryWaiterGranted` say what is left of the order.

Checkpoints and jobs:

* With the file store a crash in the middle of `writeFile` leaves a checkpoint that parses to
  nothing: the next run starts over, archives keys and entry paths again, and `NoWorkTwice` and
  path dedupe across runs are gone.  `StoreNeverAhead` and `NothingForgotten` hold; the other two
  are stated for `WholeSaves`.
* `README.md:480` lets the next run "finish the archive"; each run writes an archive of its own,
  and `NothingForgotten` speaks of their union.
* `InMemoryArchiveJobRegistry.runJob` looks its entry up by id again when the run ends: after
  `clear()` and a new job of the same id, the old result lands in the new job's snapshot.
  `OnlyOrphansIntrude` says that there is no other way.

## Not modelled

* Names, filters, mappings, manifests, fingerprints and URIs are functions on strings without a
  state; the modules take their outcome (skip, an unsafe name, a repeated name, a URI that does not
  parse) as a choice.
* Strategy hints, cost estimates, metrics, logs and explanations report what a run has done and
  are read back by no run.  The throughput sampler's rates are arithmetic on time stamps; of a
  sample only the side of the water line matters to the controller, and that is a choice.
* The remaining commands of the command line, presigned URLs, the check of an output's size and
  the plugin registry are single calls, or a map with nothing that depends on order.
* The clients of S3, GCS, Azure, Redis and SQL, yazl, tar-stream and the streams of Node are
  external: modelled as their callers use them.
* Left out of modules that exist: in `InFlightReadBytes` a budget that is not whole (the
  engine asks for whole bytes; a direct caller of `acquire` could be handed a fraction, which
  `release` floors); in `PumpRun` a concurrency
  between two integers; in `ZipPump` the manifest's row limit, which `TarUploadJob` has; in
  `TarUploadJob` dedupe, the drain gate and the budget, which sit in the `processOne` it shares
  with the ZIP run; in `CheckpointedJob` the comparison of source, format and
  list roots (the callers' obligation), content dedupe and the expiry of Redis keys.
