------------------------------- MODULE PumpRun -------------------------------
(***************************************************************************)
(* A run from the caller's options to its outcome: ArchivePumpFlowEngine,  *)
(*                                                                         *)
(*   bootstrap -> open -> start -> data -> manifest -> closing -> final    *)
(*                                                                         *)
(* with the listing it pulls from, the stage meter, the hooks and the      *)
(* statistics, for every format, window and provider.  ZipPump has the     *)
(* exclusive chain, the byte budget and the checkpoint of the data phase   *)
(* in full, PriorityPool the order of prioritized objects; here a task is  *)
(* in one of the stages the meter tells apart.                             *)
(*                                                                         *)
(* Callers: "pump" writes to a destination of its own, "stream" gets a     *)
(* PassThrough that is destroyed when the run rejects, "archive" and       *)
(* "benchmark" are commands of the CLI.                                    *)
(***************************************************************************)
EXTENDS PumpOptions, Listing, StageMeter

CONSTANTS
  Requests,   \* <<caller, request>>: what runs are asked for
  Situations, \* <<source, faults, clocked>>: what they meet
  Skippable,  \* placeholders, filtered and delta-baseline objects
  Name,       \* entry name, or fingerprint, of each object
  BufferMax,  \* objectPriorityBufferMax
  MaxMoves    \* bound: movements of the clock

Faults == {"load", "mapping", "list", "name", "get", "append", "save", "hook", "destination", "abort"}

ASSUME RunAssumption ==
  /\ Skippable \subseteq Objects
  /\ DOMAIN Name = Objects
  /\ BufferMax \in Nat \ {0}
  /\ MaxMoves \in Nat
  /\ \A r \in Requests : r[2].concurrency \in Int \cup {Absent, NaN}
  /\ \A s \in Situations : s[1] \in Sources /\ s[2] \subseteq Faults /\ s[3] \in BOOLEAN

VARIABLES
  caller, request, faults, clocked,
  plan,      \* the resolved options
  phase,     \* what the engine is doing
  verdict,   \* how its promise settled
  drain,     \* the drain listener is attached
  driver,    \* the pool: pull, race, join, resolved, rejected, or spinning for ever
  at,        \* where each object's task is
  forgotten, \* tasks whose rejection the window missed
  progress,  \* objectsListed, objectsIncluded, objectsSkipped
  archive,   \* objects whose entries are written
  ends,      \* outcomes each object was reported with (onArchiveEntryEnd)
  dest,      \* the destination
  zipfile,   \* sound; errored: it has lost an entry, and rejects every append;
             \* blocked: it has lost one unheard, and the append still waits for it
  meter, now, moves,
  stats,     \* the statistics of a finished run
  exit       \* exit code of the command

env == <<caller, faults, clocked>>
engine == <<request, plan, phase, verdict, drain>>
tasks == <<at, forgotten, progress, archive, ends>>
output == <<dest, zipfile>>
clock == <<meter, now, moves>>
vars == <<listingVars, env, engine, driver, tasks, output, clock, stats, exit>>

Stage(place) == {o \in Objects : at[o] = place}
Executing == {o \in Objects : at[o] \notin {"none", "heap", "ended"}}
Commands == {"archive", "benchmark"}
Streams == {"stream", "archive"}

Init ==
  /\ ListingInit
  /\ \E r \in Requests : caller = r[1] /\ request = r[2]
  /\ \E s \in Situations : source = s[1] /\ faults = s[2] /\ clocked = s[3]
  /\ plan = Absent /\ phase = "bootstrap" /\ verdict = "none" /\ drain = FALSE
  /\ driver = "pull"
  /\ at = [o \in Objects |-> "none"] /\ forgotten = {}
  /\ progress = [listed |-> 0, included |-> 0, skipped |-> 0]
  /\ archive = {} /\ ends = [o \in Objects |-> <<>>]
  /\ dest = "open" /\ zipfile = "sound"
  /\ meter = NewMeter(0) /\ now = 0 /\ moves = 0
  /\ stats = Absent /\ exit = "none"

-----------------------------------------------------------------------------
(* Mutant: the caller of a stream never hears of the rejection. *)
SettleQuietly(how) ==
  /\ phase' = "settled" /\ verdict' = how
  /\ drain' = FALSE
  /\ UNCHANGED dest

(* The promise settles; the finally detaches the drain listener.  Streams  *)
(* are destroyed by the catch of createFolderArchiveStream.                *)
Settle(how) ==
  /\ phase' = "settled" /\ verdict' = how
  /\ drain' = FALSE
  /\ dest' = IF how = "rejected" /\ caller \in Streams /\ dest = "open"
             THEN "destroyed" ELSE dest

(* bootstrapSync: refuse the request, or start the meter's clock. *)
Bootstrap ==
  /\ phase = "bootstrap"
  /\ \/ /\ ~ Accepts(request)
        /\ Settle("rejected")
        /\ UNCHANGED <<plan, meter>>
     \/ /\ Accepts(request)
        /\ plan' = Resolve(request)
        /\ phase' = IF request.checkpoint THEN "open" ELSE "start"
        /\ meter' = NewMeter(now)
        /\ UNCHANGED <<verdict, drain, dest>>
  /\ request' = Plain  \* from here on the plan counts
  /\ UNCHANGED <<listingVars, env, driver, tasks, zipfile, now, moves, stats, exit>>

(* ArchiveCheckpointCoordinator.open: the store rejects, or its state is   *)
(* of another archive.  No listener is attached yet.                       *)
OpenCheckpoint ==
  /\ phase = "open"
  /\ \/ phase' = "start" /\ UNCHANGED <<verdict, drain, dest>>
     \/ "load" \in faults /\ Settle("rejected")
  /\ UNCHANGED <<listingVars, env, request, plan, driver, tasks, zipfile, clock, stats, exit>>

(* The listener, the mappings, the sink.  A bad mapping throws, and so     *)
(* does pLimit(NaN), unless another limiter takes its place and the        *)
(* priority pool never builds one: that pool spins.                        *)
Start ==
  /\ phase = "start"
  /\ LET broken == plan.window = NaN /\ ~ (plan.limiter /\ plan.priority)
     IN  \/ /\ "mapping" \in faults \/ broken
            /\ Settle("rejected")
         \/ /\ ~ broken
            /\ phase' = "data" /\ drain' = TRUE
            /\ UNCHANGED <<verdict, dest>>
  /\ UNCHANGED <<listingVars, env, request, plan, driver, tasks, zipfile, clock, stats, exit>>

-----------------------------------------------------------------------------
(* The pools.  runSequential is a pool one task wide.                      *)
Waiting(place) == Cardinality(Stage(place))
Full(executing) == plan.window # NaN /\ Cardinality(executing) >= plan.window
Exhausted == listing = "ended"

(* Ask for the next object: the wait is charged to the listing stage. *)
Ask ==
  /\ phase = "data" /\ driver = "pull"
  /\ plan.priority => Waiting("heap") < BufferMax /\ ~ aborted
  /\ AskNext
  /\ meter' = Enter(meter, "list", now)
  /\ UNCHANGED <<env, engine, driver, tasks, output, now, moves, stats, exit>>

Page == ReceivePage /\ UNCHANGED <<env, engine, driver, tasks, output, clock, stats, exit>>

(* An object arrives: its task starts, or it is buffered. *)
Take ==
  /\ phase = "data"
  /\ Yields
  /\ meter' = Leave(meter, "list", now)
  /\ IF plan.priority
     THEN at' = [at EXCEPT ![yielded + 1] = "heap"] /\ UNCHANGED driver
     ELSE /\ at' = [at EXCEPT ![yielded + 1] = "start"]
          /\ driver' = IF Full(Executing \cup {yielded + 1}) THEN "race" ELSE "pull"
  /\ UNCHANGED <<env, engine, forgotten, progress, archive, ends, output, now, moves, stats, exit>>

(* The listing ends: what still runs is joined. *)
Exhaust ==
  /\ phase = "data"
  /\ Ends
  /\ meter' = Leave(meter, "list", now)
  /\ driver' = IF plan.priority THEN "pull" ELSE IF Executing = {} THEN "resolved" ELSE "join"
  /\ UNCHANGED <<env, engine, tasks, output, now, moves, stats, exit>>

(* The listing throws out of the pool; tasks go on alone. *)
ListingThrows ==
  /\ phase = "data"
  /\ ListingFails("list" \in faults)
  /\ meter' = Leave(meter, "list", now)
  /\ driver' = "rejected"
  /\ UNCHANGED <<env, engine, tasks, output, now, moves, stats, exit>>

(* The priority pool, its buffer filled: start tasks and race them. *)
StartBest ==
  /\ phase = "data" /\ driver = "pull" /\ plan.priority /\ listing # "asked"
  /\ Waiting("heap") = BufferMax \/ (Exhausted /\ ~ aborted)
  /\ IF plan.window = NaN
     THEN driver' = (IF Waiting("heap") = 0 THEN "resolved" ELSE "spin") /\ UNCHANGED at
     ELSE \E best \in SUBSET Stage("heap") :
            /\ Cardinality(Executing) + Cardinality(best) <= plan.window
            /\ best = Stage("heap") \/ Full(Executing \cup best)
            /\ at' = [o \in Objects |-> IF o \in best THEN "start" ELSE at[o]]
            /\ driver' = IF Executing \cup best = {} THEN "resolved" ELSE "race"
  /\ UNCHANGED <<listingVars, env, engine, forgotten, progress, archive, ends, output, clock,
                 stats, exit>>

(* The priority pool looks at the signal in every round. *)
PoolAborts ==
  /\ phase = "data" /\ driver = "pull" /\ plan.priority /\ aborted /\ listing # "asked"
  /\ driver' = "rejected"
  /\ UNCHANGED <<listingVars, env, engine, tasks, output, clock, stats, exit>>

-----------------------------------------------------------------------------
(* The tasks: processOne.                                                  *)
Count(field) == progress' = [progress EXCEPT ![field] = @ + 1]
Report(o, outcome) == ends' = [ends EXCEPT ![o] = Append(@, outcome)]
Goto(o, place) == at' = [at EXCEPT ![o] = place]

(* The task's promise resolves. *)
Done(o) ==
  /\ Goto(o, "ended")
  /\ driver' = CASE driver = "race" -> "pull"
                 [] driver = "join" /\ Executing = {o} -> "resolved"
                 [] OTHER -> driver
  /\ UNCHANGED <<forgotten, dest>>

(* processOne throws: the sink destroys its output, and with it the        *)
(* destination.                                                            *)
Throw(o) ==
  /\ Goto(o, "failing")
  /\ dest' = IF dest = "open" THEN "destroyed" ELSE dest
  /\ UNCHANGED <<driver, forgotten>>

(* The last hook of an object, which may throw. *)
Conclude(o, outcome) ==
  /\ Report(o, outcome)
  /\ Done(o) \/ ("hook" \in faults /\ Throw(o))

(* A throughput sample after the run has put its controller away: the      *)
(* observer throws.                                                        *)
SampleThrows == phase = "settled" /\ plan.observes

(* The task rejects, once the pipeline has settled.  The window hears of   *)
(* it only while it is being waited for.                                   *)
Reject(o) ==
  /\ at[o] = "failing"
  /\ Goto(o, "ended")
  /\ IF driver \in {"race", "join"}
     THEN driver' = "rejected" /\ UNCHANGED forgotten
     ELSE forgotten' = forgotten \cup {o} /\ UNCHANGED driver
  /\ UNCHANGED <<listingVars, env, engine, progress, archive, ends, output, clock, stats, exit>>

(* An aborted run starts no task; the output is left alone. *)
RefuseTask(o) ==
  /\ at[o] = "start" /\ aborted
  /\ Goto(o, "failing")
  /\ UNCHANGED <<listingVars, env, engine, driver, forgotten, progress, archive, ends, output,
                 clock, stats, exit>>

(* The names of included objects are kept for dedupe. *)
Seen == {Name[x] : x \in {y \in Objects : ends[y] # <<>> /\ ends[y][1] = "included"}}

Skipped(o) == o \in Skippable \/ (plan.dedupe /\ Name[o] \in Seen)

(* Listed; then skipped, or refused for its name, or begun.  Like the      *)
(* record of an entry, this needs the exclusive chain.                     *)
BeginTask(o) ==
  /\ at[o] = "start" /\ ~ aborted /\ zipfile # "blocked"
  /\ IF SampleThrows
     THEN Count("listed") /\ Throw(o) /\ UNCHANGED ends
     ELSE \/ /\ Skipped(o)
             /\ progress' = [progress EXCEPT !.listed = @ + 1, !.skipped = @ + 1]
             /\ Conclude(o, "skipped")
          \/ /\ ~ Skipped(o)
             /\ Count("listed")
             /\ \/ Goto(o, "gate") /\ UNCHANGED <<driver, forgotten, dest>>
                \/ "name" \in faults /\ Throw(o)
             /\ UNCHANGED ends
  /\ UNCHANGED <<listingVars, env, engine, archive, zipfile, clock, stats, exit>>

(* The download gate and the byte budget let it pass: GetObject. *)
Download(o) ==
  /\ at[o] = "gate"
  /\ Goto(o, "download")
  /\ meter' = Enter(meter, "download", now)
  /\ UNCHANGED <<listingVars, env, engine, driver, forgotten, progress, archive, ends, output,
                 now, moves, stats, exit>>

(* The progress report throws, or the wait for the destination ends with   *)
(* an error.                                                               *)
GateThrows(o) ==
  /\ at[o] = "gate"
  /\ aborted \/ dest = "destroyed" \/ SampleThrows
  /\ Throw(o)
  /\ UNCHANGED <<listingVars, env, engine, progress, archive, ends, zipfile, clock, stats, exit>>

(* GetObject returns a body: on to the archive's turn. *)
Downloaded(o) ==
  /\ at[o] = "download"
  /\ Goto(o, "write")
  /\ meter' = Move(meter, "download", "archive", now)
  /\ UNCHANGED <<listingVars, env, engine, driver, forgotten, progress, archive, ends, output,
                 now, moves, stats, exit>>

(* Mutant: an omitted object is not counted. *)
GiveUpUncounted(o) ==
  \/ plan.bestEffort /\ UNCHANGED progress /\ Conclude(o, "omitted")
  \/ ~ plan.bestEffort /\ UNCHANGED progress /\ Report(o, "failed") /\ Throw(o)

(* The object is omitted, or the run fails.  An omission waits for the     *)
(* chain with no stage open: that wait is ZipPump's.                       *)
GiveUp(o) ==
  \/ /\ plan.bestEffort /\ Count("skipped")
     /\ IF SampleThrows THEN Throw(o) /\ UNCHANGED ends ELSE Conclude(o, "omitted")
  \/ ~ plan.bestEffort /\ UNCHANGED progress /\ Report(o, "failed") /\ Throw(o)

DownloadFails(o) ==
  /\ at[o] = "download"
  /\ "get" \in faults \/ aborted
  /\ meter' = Leave(meter, "download", now)
  /\ GiveUp(o)
  /\ UNCHANGED <<listingVars, env, engine, archive, zipfile, now, moves, stats, exit>>

(* The entry is written.  yazl does not get on without its output, nor     *)
(* behind an entry it has lost.                                            *)
Written(o) ==
  /\ at[o] = "write" /\ dest = "open" /\ zipfile = "sound"
  /\ archive' = archive \cup {o}
  /\ Goto(o, "record")
  /\ meter' = Leave(meter, "archive", now)
  /\ UNCHANGED <<listingVars, env, engine, driver, forgotten, progress, ends, output, now, moves,
                 stats, exit>>

(* The body fails in its turn or is aborted.  A pack is destroyed, and the *)
(* destination with it.  yazl never finishes the entry: if the error is    *)
(* heard the zip file is errored; if not (ObjectBody says when), the       *)
(* append waits for good, with the exclusive chain in its hand.            *)
BodyBreaks(o) ==
  /\ at[o] = "write" /\ zipfile = "sound"
  /\ "append" \in faults \/ aborted
  /\ IF plan.zip
     THEN zipfile' \in {"errored", "blocked"} /\ UNCHANGED dest
     ELSE dest = "open" /\ dest' = "destroyed" /\ UNCHANGED zipfile
  /\ UNCHANGED <<listingVars, env, engine, driver, tasks, clock, stats, exit>>

(* The append rejects: its own body has failed, or an earlier one had. *)
WriteFails(o) ==
  /\ at[o] = "write"
  /\ IF plan.zip THEN zipfile = "errored" ELSE dest = "destroyed"
  /\ meter' = Leave(meter, "archive", now)
  /\ GiveUp(o)
  /\ UNCHANGED <<listingVars, env, engine, archive, zipfile, now, moves, stats, exit>>

(* Counted, saved if there is a checkpoint, reported. *)
Record(o) ==
  /\ at[o] = "record" /\ zipfile # "blocked"
  /\ Count("included")
  /\ \/ ~ SampleThrows /\ Conclude(o, "included")
     \/ /\ SampleThrows \/ (plan.checkpoint /\ "save" \in faults)
        /\ Throw(o) /\ UNCHANGED ends
  /\ UNCHANGED <<listingVars, env, engine, archive, zipfile, clock, stats, exit>>

-----------------------------------------------------------------------------
(* The end of the data phase.                                              *)
DataEnds ==
  /\ phase = "data"
  /\ \/ driver = "rejected" /\ Settle("rejected")
     \/ driver = "resolved" /\ phase' = "closing" /\ UNCHANGED <<verdict, drain, dest>>
  /\ UNCHANGED <<listingVars, env, request, plan, driver, tasks, zipfile, clock, stats, exit>>

(* A zip file that has lost an entry rejects the manifest.  Without one,   *)
(* end() has it wait for that entry, and waitPipeline() for end(), for     *)
(* good: nothing settles the run, unless its output breaks.                *)
Lost == zipfile # "sound"

(* The manifest is written and the output flushed, or the manifest or the  *)
(* pipeline rejects.                                                       *)
Close ==
  /\ phase = "closing"
  /\ \/ /\ dest = "open" /\ ~ Lost
        /\ dest' = "ended" /\ phase' = "final" /\ UNCHANGED <<verdict, drain>>
     \/ /\ dest = "destroyed" \/ (Lost /\ plan.manifest)
        /\ Settle("rejected")
  /\ UNCHANGED <<listingVars, env, request, plan, driver, tasks, zipfile, clock, stats, exit>>

(* #finalize: the meter must balance; metrics, explain and onStats may throw. *)
Finalize ==
  /\ phase = "final"
  /\ LET m == Advance(meter, now)
     IN  /\ meter' = m
         /\ \/ /\ Balanced(m) /\ Settle("resolved")
               /\ stats' = [progress |-> progress, bottleneck |-> Bottleneck(m.ms)]
            \/ Balanced(m) /\ "hook" \in faults /\ Settle("rejected") /\ UNCHANGED stats
            \/ ~ Balanced(m) /\ Settle("internal") /\ UNCHANGED stats
  /\ UNCHANGED <<listingVars, env, request, plan, driver, tasks, zipfile, now, moves, exit>>

(* A command ends: the archive command looks at its stream, benchmark at   *)
(* the promise.                                                            *)
Exit ==
  /\ exit = "none" /\ caller \in Commands
  /\ \/ /\ caller = "archive" /\ dest # "open"
        /\ exit' = IF dest = "ended" THEN "0" ELSE "1"
     \/ /\ caller = "benchmark" /\ phase = "settled"
        /\ exit' = IF verdict = "resolved" THEN "0" ELSE "1"
  /\ UNCHANGED <<listingVars, env, engine, driver, tasks, output, clock, stats>>

-----------------------------------------------------------------------------
(* The surroundings.                                                       *)
SignalFires ==
  /\ "abort" \in faults /\ phase \in {"open", "data", "closing"}
  /\ Abort
  /\ UNCHANGED <<env, engine, driver, tasks, output, clock, stats, exit>>

DestinationFails ==
  /\ "destination" \in faults /\ phase = "data" /\ dest = "open"
  /\ dest' = "destroyed"
  /\ UNCHANGED <<listingVars, env, engine, driver, tasks, zipfile, clock, stats, exit>>

ClockMoves ==
  /\ clocked /\ phase = "data" /\ moves < MaxMoves
  /\ moves' = moves + 1
  /\ now' \in {now - 1, now + 1} \cap Nat
  /\ UNCHANGED <<listingVars, env, engine, driver, tasks, output, meter, stats, exit>>

Engine == Bootstrap \/ OpenCheckpoint \/ Start \/ DataEnds \/ Close \/ Finalize \/ Exit
Pool == Ask \/ Page \/ Take \/ Exhaust \/ ListingThrows \/ StartBest \/ PoolAborts
Task(o) ==
  \/ RefuseTask(o) \/ BeginTask(o) \/ Download(o) \/ GateThrows(o)
  \/ Downloaded(o) \/ DownloadFails(o) \/ Written(o) \/ BodyBreaks(o) \/ WriteFails(o)
  \/ Record(o) \/ Reject(o)

Next ==
  \/ Engine \/ Pool
  \/ \E o \in Objects : Task(o)
  \/ SignalFires \/ DestinationFails \/ ClockMoves

(* Callbacks run and requests return. *)
Spec ==
  /\ Init /\ [][Next]_vars
  /\ WF_vars(Engine) /\ WF_vars(Pool)
  /\ \A o \in Objects : WF_vars(Task(o))

-----------------------------------------------------------------------------
(* A run that resolves, or a command that exits with 0, has made an entry  *)
(* of every object under the prefix, or reported it skipped or omitted.    *)
(* What may be missing without a word: objects an aborted GCS or Azure     *)
(* listing did not get to, or an index that was cut short does not hold;   *)
(* and a task the abort kept from starting whose rejection the window      *)
(* missed.                                                                 *)
LossNeedsAnAbort ==
  verdict = "resolved" \/ exit = "0" =>
    \A o \in Objects :
      \/ o \in archive
      \/ ends[o] \in {<<"skipped">>, <<"omitted">>}
      \/ o > yielded /\ (~ complete \/ (aborted /\ source \in {"gcs", "azure"}))
      \/ o \in forgotten /\ aborted

(* Every object of a run that resolves is reported to onArchiveEntryEnd    *)
(* exactly once (but for those of the last case above), the reports agree  *)
(* with the archive and with the statistics, and nothing that still runs   *)
(* changes them.                                                           *)
OutcomesAddUp ==
  verdict = "resolved" =>
    LET Reported(outcomes) == {o \in Objects : ends[o] \in {<<x>> : x \in outcomes}}
    IN  /\ stats.progress = progress
        /\ Executing = {}
        /\ 1..yielded = Reported({"included", "skipped", "omitted"}) \cup forgotten
        /\ archive = Reported({"included"})
        /\ progress.included = Cardinality(archive)
        /\ progress.skipped = Cardinality(Reported({"skipped", "omitted"}))
        /\ progress.listed = progress.included + progress.skipped

(* The stage meter counts exactly those who are listing, downloading and   *)
(* writing, its times add up to the wall time (while the clock does not    *)
(* step back; never to less), and a run whose data is complete does not    *)
(* fail in finish().                                                       *)
MeterPartitionsWall ==
  LET total == meter.ms["list"] + meter.ms["download"] + meter.ms["archive"] + meter.ms["idle"]
  IN  /\ meter.open = [s \in Stages |->
                          CASE s = "list" -> IF listing = "asked" THEN 1 ELSE 0
                            [] s = "download" -> Waiting("download")
                            [] s = "archive" -> Waiting("write")]
      /\ total >= Scale * meter.last
      /\ now = moves => total = Scale * meter.last
      /\ verdict # "internal"

(* With dedupe, no two entries have the same name or the same content: the *)
(* options that turn it on leave one object in progress at a time.         *)
DuplicatesFound ==
  plan # Absent /\ plan.dedupe =>
    \A o, p \in archive : Name[o] = Name[p] => o = p

(* Every run settles, with its listener detached, and its stream ends or   *)
(* fails, and its command exits.  Not covered, each a way in which the     *)
(* code waits for ever: the priority pool spinning on a window of NaN;     *)
(* output that breaks under a ZIP entry, which then never finishes,        *)
(* because the destination failed or a rejection that broke it was missed; *)
(* a body that breaks unheard, under the lock; and a best-effort ZIP run   *)
(* without a manifest that has omitted an object after its entry began.    *)
RunSettles ==
  "destination" \notin faults =>
    <>(\/ /\ phase = "settled" /\ ~ drain
          /\ caller \in Streams => dest # "open"
          /\ caller \in Commands => exit # "none"
       \/ driver = "spin" \/ forgotten # {} \/ zipfile = "blocked"
       \/ /\ phase = "closing" /\ zipfile = "errored"
          /\ plan.bestEffort /\ ~ plan.manifest /\ dest = "open")
=============================================================================
