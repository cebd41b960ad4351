----------------------------- MODULE PumpOptions -----------------------------
(***************************************************************************)
(* What a caller may ask of a run, and what the run makes of it:           *)
(* ArchivePumpResolvedOptions.from, parseAdditionalListSources and         *)
(* assertCrossCutArchivePumpOptions, in the order in which bootstrapSync   *)
(* calls them, and the two callers that build their options from text:     *)
(* the command line and the job queue.                                     *)
(*                                                                         *)
(* Options that are left out are Absent.  NaN is what Number() makes of    *)
(* text that is no number; every comparison with it is false, which some   *)
(* of the checks let through.                                              *)
(***************************************************************************)
EXTENDS Integers, Sequences, FiniteSets

CONSTANTS Absent, NaN,
          Junk,      \* text that is no number
          Malformed  \* text that is no S3 URI

ASSUME OptionAssumption == NaN \notin Int

Given(x) == x # Absent
Or(x, default) == IF Given(x) THEN x ELSE default
Below(x, n) == x # NaN /\ x < n
Above(x, n) == x # NaN /\ x > n
AtLeast1(x) == x # NaN /\ x >= 1  \* Number.isFinite(x) && x >= 1

(* A request with nothing but the source set. *)
Plain ==
  [source |-> "main", format |-> Absent, concurrency |-> Absent, objectPriority |-> FALSE,
   deterministicOrdering |-> FALSE, dedupe |-> FALSE, zipStoreMinBytes |-> Absent,
   additionalListSources |-> <<>>, preparedIndexNdjson |-> FALSE, storageProvider |-> FALSE,
   maxInFlightReadBytes |-> Absent, adaptive |-> FALSE, throughputAdaptive |-> FALSE,
   rollingWindowMs |-> Absent, slowThreshold |-> Absent, onSlow |-> FALSE,
   readBuffer |-> Absent, failureMode |-> Absent, includeManifest |-> FALSE,
   checkpoint |-> FALSE]

IsZip(r) == Or(r.format, "zip") = "zip"

(* zipConcurrency.  Math.min and Math.max hand NaN on. *)
Window(r) ==
  IF ~ IsZip(r) THEN 1
  ELSE IF r.deterministicOrdering THEN Or(r.concurrency, 1)
  ELSE LET c == Or(r.concurrency, 2)
       IN  IF c = NaN THEN NaN ELSE IF c < 1 THEN 1 ELSE IF c > 16 THEN 16 ELSE c

(* Mutant: duplicates are looked for in a window of any width. *)
ResolvesLoosely(r) ==
  /\ ~ IsZip(r) => r.concurrency \in {Absent, 1} /\ ~ r.objectPriority
  /\ r.deterministicOrdering => ~ r.objectPriority /\ r.concurrency \in {Absent, 1}
  /\ Given(r.zipStoreMinBytes) => AtLeast1(r.zipStoreMinBytes)

(* ArchivePumpResolvedOptions.from does not throw.  A NaN window is not    *)
(* above 1.                                                                *)
Resolves(r) ==
  /\ ~ IsZip(r) => r.concurrency \in {Absent, 1} /\ ~ r.objectPriority
  /\ r.deterministicOrdering =>
       ~ r.objectPriority /\ (IsZip(r) => r.concurrency \in {Absent, 1})
  /\ r.dedupe => ~ Above(Window(r), 1)
  /\ Given(r.zipStoreMinBytes) => AtLeast1(r.zipStoreMinBytes)

ParsesUri(uri) == uri # Malformed

(* No extra root twice, none the primary one. *)
RootsDistinct(r) ==
  LET roots == r.additionalListSources
  IN  /\ \A i \in DOMAIN roots : ParsesUri(roots[i]) /\ roots[i] # r.source
      /\ \A i, j \in DOMAIN roots : i # j => roots[i] # roots[j]

(* What both adaptive limiters need. *)
Adaptable(r) == IsZip(r) /\ ~ Below(Window(r), 2)

CrossCut(r) ==
  /\ r.additionalListSources # <<>> => ~ r.preparedIndexNdjson /\ ~ r.storageProvider
  /\ Given(r.maxInFlightReadBytes) => AtLeast1(r.maxInFlightReadBytes)
  /\ ~ (r.adaptive /\ r.throughputAdaptive)
  /\ r.adaptive \/ r.throughputAdaptive => Adaptable(r)
  /\ r.throughputAdaptive => Given(r.rollingWindowMs) /\ ~ Below(r.rollingWindowMs, 1)
  /\ Given(r.slowThreshold) <=> r.onSlow
  /\ Given(r.slowThreshold) => AtLeast1(r.slowThreshold)
  /\ Given(r.readBuffer) => AtLeast1(r.readBuffer)

(* bootstrapSync throws for everything else, before anything is opened. *)
Accepts(r) == Resolves(r) /\ ParsesUri(r.source) /\ RootsDistinct(r) /\ CrossCut(r)

(* What is left of an accepted request.  A sampler exists for a window     *)
(* above zero, and without it the throughput controller observes nothing.  *)
Resolve(r) ==
  [zip |-> IsZip(r), window |-> Window(r), priority |-> r.objectPriority, dedupe |-> r.dedupe,
   limiter |-> r.adaptive \/ r.throughputAdaptive,
   observes |-> r.throughputAdaptive /\ r.rollingWindowMs # NaN,
   bestEffort |-> r.failureMode = "best-effort", manifest |-> r.includeManifest,
   checkpoint |-> r.checkpoint]

-----------------------------------------------------------------------------
Number(text) == IF text = Junk THEN NaN ELSE text  \* "" is 0, and no text stays Absent

(* The archive and benchmark commands: what the command line can say.      *)
(* parseFormat and parseFailureMode refuse other words.                    *)
CliParses(args) ==
  /\ args.format \in {"zip", "tar", "tar.gz"}
  /\ args.failureMode \in {"fail-fast", "best-effort"}

CliRequest(args) ==
  [Plain EXCEPT !.source = args.source, !.format = args.format,
                !.concurrency = Number(args.concurrency), !.failureMode = args.failureMode,
                !.zipStoreMinBytes = Number(args.zipStoreMinBytes),
                !.includeManifest = args.includeManifest]

BenchmarkRequest(args) == [CliRequest(args) EXCEPT !.includeManifest = FALSE]

(* folderArchiveJobDataToRunOptions: settings that are not in the job data *)
(* cannot be asked for.  A job is checkpointed only when it names a        *)
(* checkpoint and the worker finds a store for it.                         *)
JobRequest(data, storeFound) ==
  [Plain EXCEPT !.source = data.source, !.format = data.format,
                !.concurrency = data.concurrency, !.failureMode = data.failureMode,
                !.adaptive = data.adaptive, !.dedupe = data.dedupe,
                !.zipStoreMinBytes = data.zipStoreMinBytes,
                !.additionalListSources = data.additionalListSources,
                !.includeManifest = data.includeManifest,
                !.checkpoint = data.namesCheckpoint /\ storeFound]
=============================================================================
