------------------------------- MODULE ZipPump -------------------------------
(***************************************************************************)
(* One ZIP run: ArchivePumpFlowEngine.#runDataPlane driving ZipArchiveSink *)
(* and ArchiveObjectProcessor.processOne.  The window of AsyncPool starts  *)
(* a task per listed object; a task goes through                           *)
(*                                                                         *)
(*   start -> listed -> begin -> gate -> bytes -> get -> append -> record  *)
(*                                                                         *)
(* where listed, begin, append, record, and the skip and omit bookkeeping  *)
(* are sections of the exclusive runner, a promise chain: a FIFO queue     *)
(* whose head runs.  The byte budget is InFlightReadBytes.  What the store *)
(* keeps for a later run is CheckpointedJob's subject.                     *)
(*                                                                         *)
(* GetCap stands for the GetObject limiter: the pool's own p-limit never   *)
(* queues, and the adaptive one is modelled in AdaptiveZipLimit.  yazl and *)
(* the stream pipeline are external: an append finishes while the output   *)
(* is healthy.  An entry whose source fails is never finished, and the zip *)
(* file with it: later appends are rejected, and its end never comes.      *)
(* Faults lists what the environment may do in a given run; "sample" is a  *)
(* throughput controller, which a failed run has set to null.              *)
(***************************************************************************)
EXTENDS AsyncPool, Sequences

CONSTANTS
  GetCap,           \* GetObject calls the limiter lets run at once
  MaxBytes,         \* maxInFlightReadBytes
  Size,             \* listed size of each object
  Key,              \* objectTableKey of each object
  Setups            \* how runs are set up

ASSUME PumpAssumption ==
  /\ GetCap \in Nat \ {0}
  /\ MaxBytes \in Nat \ {0}
  /\ Size \in [Objects -> Nat]
  /\ Setups \subseteq
       [bestEffort : BOOLEAN, checkpointing : BOOLEAN, includeManifest : BOOLEAN,
        skippable : SUBSET Objects,
        faults : SUBSET {"list", "name", "get", "append", "save", "destination", "abort",
                         "sample"}]

VARIABLES
  setup,     \* how this run is set up
  pc,        \* where each object's task is
  lockq,     \* the exclusive chain: head runs, the others wait
  used, byteq, bytePhase, grant, arrivals,  \* the byte budget
  objectsListed, objectsIncluded, objectsSkipped,  \* progress
  omissions, \* objects omitted (best-effort)
  rows,      \* manifestRows
  entries,   \* entries fully encoded into the archive, in order
  completedKeys,  \* checkpoint state in memory
  zip,       \* the output pipeline
  stuck,     \* yazl has errored: an entry of the zip file will never be finished
  run,       \* what the engine is doing
  aborted    \* options.signal

byteVars == <<used, byteq, bytePhase, grant, arrivals>>
counters == <<objectsListed, objectsIncluded, objectsSkipped>>
results == <<omissions, rows, entries>>
output == <<zip, stuck>>
vars == <<poolVars, pc, lockq, byteVars, counters, results, completedKeys, output, run, aborted>>

BestEffort == setup.bestEffort             \* failureMode = "best-effort"
Checkpointing == setup.checkpointing       \* options.checkpoint is given
IncludeManifest == setup.includeManifest   \* options.includeManifest
Skippable == setup.skippable               \* placeholders, filtered and delta-baseline objects
Faults == setup.faults                     \* what may go wrong in the run

Manifest == 0

Bytes == INSTANCE InFlightReadBytes
           WITH Workers <- Objects, Sizes <- {Size[o] : o \in Objects},
                MaxArrivals <- MaxObjects, q <- byteq, phase <- bytePhase

Init ==
  /\ setup \in Setups
  /\ PoolInit
  /\ Bytes!Init
  /\ pc = [o \in Objects |-> "none"]
  /\ lockq = <<>>
  /\ objectsListed = 0 /\ objectsIncluded = 0 /\ objectsSkipped = 0
  /\ omissions = {} /\ rows = <<>> /\ entries = <<>>
  /\ completedKeys = <<>>
  /\ zip = "open" /\ stuck = FALSE
  /\ run = "iterating"
  /\ aborted = FALSE

Goto(o, place) == pc' = [pc EXCEPT ![o] = place]
(* Mutant: sections run without waiting for their turn. *)
RunsAtOnce(section) == TRUE

Runs(section) == lockq # <<>> /\ Head(lockq) = section
Queue(section) == lockq' = Append(lockq, section)
(* Mutant: a section that never resolves. *)
LeaveLockNever == UNCHANGED lockq

LeaveLock == lockq' = Tail(lockq)
LeaveAndQueue(section) == lockq' = Append(Tail(lockq), section)

(* Mutant: the bytes are kept. *)
ReleaseBytesNever(o) == UNCHANGED byteVars

(* The finally of processOne. *)
ReleaseBytes(o) ==
  IF bytePhase[o] = "holding" THEN Bytes!Release(o) ELSE UNCHANGED byteVars

(* Mutant: the output is left alone. *)
DestroyOutputNot == UNCHANGED zip

(* The catch of runZipObject: the output is destroyed. *)
DestroyOutput == zip' = IF zip = "open" THEN "destroyed" ELSE zip

(* processOne throws; the task's promise rejects once the pipeline has settled. *)
Throw(o) ==
  /\ Goto(o, "failing")
  /\ ReleaseBytes(o)
  /\ DestroyOutput

(* A sample or a progress report after the end of a failed run throws. *)
SampleThrows == run = "failed" /\ "sample" \in Faults

(* The section has ended, and so does processOne, unless the report throws. *)
Return(o) ==
  \/ /\ SampleThrows
     /\ Throw(o)
     /\ UNCHANGED poolVars
  \/ /\ ~ SampleThrows
     /\ ReleaseBytes(o)
     /\ Goto(o, "ended")
     /\ SettleWith(o, "ok")
     /\ UNCHANGED zip

-----------------------------------------------------------------------------
(* The window, with the tasks it starts.  An aborted listing fails, except *)
(* that the GCS and Azure providers leave their page loop, which looks     *)
(* like the end of the listing.                                            *)
Pull ==
  /\ PullItem
  /\ Goto(listed + 1, "start")
  /\ UNCHANGED <<lockq, byteVars, counters, results, completedKeys, output, run, aborted>>

(* Mutant: the run goes on without joining the tasks. *)
ListingEndsUnjoined ==
  /\ driver = "pull"
  /\ driver' = "resolved"
  /\ UNCHANGED <<listed, executing, outcome, unhandled, pc, lockq, byteVars, counters,
                 results, completedKeys, output, run, aborted>>

ListingEnds ==
  /\ \/ PullEnd
     \/ PullFails /\ ("list" \in Faults \/ aborted)
  /\ UNCHANGED <<pc, lockq, byteVars, counters, results, completedKeys, output, run, aborted>>

(* runZipObject: an aborted run fails the task without touching the output. *)
StartTask(o) ==
  /\ pc[o] = "start"
  /\ \/ /\ aborted
        /\ SettleWith(o, "failed")
        /\ Goto(o, "ended")
        /\ UNCHANGED lockq
     \/ /\ ~ aborted
        /\ Queue(o)
        /\ Goto(o, "listed")
        /\ UNCHANGED poolVars
  /\ UNCHANGED <<byteVars, counters, results, completedKeys, output, run, aborted>>

(***************************************************************************)
(* The listed section, and the decision that follows it: skip, an unsafe   *)
(* entry name, or go on.                                                   *)
(***************************************************************************)
CountListed(o) ==
  LET skip == o \in Skippable \/ \E i \in 1..Len(completedKeys) : completedKeys[i] = Key[o]
  IN  /\ pc[o] = "listed"
      /\ Runs(o)
      /\ objectsListed' = objectsListed + 1
      /\ \/ /\ ~ SampleThrows
            /\ LeaveAndQueue(o)
            /\ Goto(o, IF skip THEN "skip" ELSE "begin")
            /\ UNCHANGED <<byteVars, zip>>
         \/ /\ SampleThrows \/ (~ skip /\ "name" \in Faults)
            /\ LeaveLock
            /\ Throw(o)
      /\ UNCHANGED <<poolVars, objectsIncluded, objectsSkipped, results, completedKeys, stuck,
                     run, aborted>>

(* bumpSkip; the task is done. *)
CountSkipped(o) ==
  /\ pc[o] = "skip"
  /\ Runs(o)
  /\ LeaveLock
  /\ objectsSkipped' = objectsSkipped + 1
  /\ Goto(o, "ended")
  /\ SettleWith(o, "ok")
  /\ UNCHANGED <<byteVars, objectsListed, objectsIncluded, omissions, rows, entries, completedKeys,
                 output, run, aborted>>

(* onArchiveEntryStart, currentKey. *)
Begin(o) ==
  /\ pc[o] = "begin"
  /\ Runs(o)
  /\ LeaveLock
  /\ \/ SampleThrows /\ Throw(o)
     \/ ~ SampleThrows /\ Goto(o, "gate") /\ UNCHANGED <<byteVars, zip>>
  /\ UNCHANGED <<poolVars, counters, results, completedKeys, stuck, run, aborted>>

(* The destination has drained: ask for the bytes. *)
PassGate(o) ==
  /\ pc[o] = "gate"
  /\ Bytes!Acquire(o, Size[o])
  /\ Goto(o, "bytes")
  /\ UNCHANGED <<poolVars, lockq, counters, results, completedKeys, output, run, aborted>>

(* The wait for drain is aborted, or the destination has failed. *)
GateRejects(o) ==
  /\ pc[o] = "gate"
  /\ aborted \/ zip = "destroyed"
  /\ Throw(o)
  /\ UNCHANGED <<poolVars, lockq, counters, results, completedKeys, stuck, run, aborted>>

(* The bytes are granted and the limiter has a slot: GetObject. *)
GetObject(o) ==
  /\ pc[o] = "bytes"
  /\ bytePhase[o] = "holding"
  /\ Cardinality({x \in Objects : pc[x] = "get"}) < GetCap
  /\ Goto(o, "get")
  /\ UNCHANGED <<poolVars, lockq, byteVars, counters, results, completedKeys, output, run, aborted>>

(* The body is open: wait for the exclusive chain with the body paused. *)
GetSucceeds(o) ==
  /\ pc[o] = "get"
  /\ Queue(o)
  /\ Goto(o, "append")
  /\ UNCHANGED <<poolVars, byteVars, counters, results, completedKeys, output, run, aborted>>

(* All attempts failed, or the run is aborted: omit the object, or throw. *)
GetFails(o) ==
  /\ pc[o] = "get"
  /\ "get" \in Faults \/ aborted
  /\ \/ /\ BestEffort
        /\ Queue(o)
        /\ Goto(o, "omit")
        /\ UNCHANGED <<byteVars, zip>>
     \/ /\ ~ BestEffort
        /\ Throw(o)
        /\ UNCHANGED lockq
  /\ UNCHANGED <<poolVars, counters, omissions, rows, entries, completedKeys, stuck, run, aborted>>

(* writer.appendZip begins, under the lock. *)
StartAppend(o) ==
  /\ pc[o] = "append"
  /\ Runs(o)
  /\ Goto(o, "writing")
  /\ UNCHANGED <<poolVars, lockq, byteVars, counters, results, completedKeys, output, run, aborted>>

(* yazl has encoded the entry; the record section is queued. *)
AppendDone(o) ==
  /\ pc[o] = "writing"
  /\ ~ stuck
  /\ entries' = Append(entries, o)
  /\ LeaveAndQueue(o)
  /\ Goto(o, "record")
  /\ UNCHANGED <<poolVars, byteVars, counters, omissions, rows, completedKeys, output, run,
                 aborted>>

(* The body or yazl fails in the middle of the entry, or yazl has errored. *)
AppendFails(o) ==
  /\ pc[o] = "writing"
  /\ stuck \/ "append" \in Faults
  /\ stuck' = TRUE
  /\ \/ /\ BestEffort
        /\ LeaveAndQueue(o)
        /\ Goto(o, "omit")
        /\ UNCHANGED <<byteVars, zip>>
     \/ /\ ~ BestEffort
        /\ LeaveLock
        /\ Throw(o)
  /\ UNCHANGED <<poolVars, counters, omissions, rows, entries, completedKeys, run, aborted>>

(* The omission section; the task is done. *)
Omit(o) ==
  /\ pc[o] = "omit"
  /\ Runs(o)
  /\ LeaveLock
  /\ omissions' = omissions \cup {o}
  /\ objectsSkipped' = objectsSkipped + 1
  /\ Return(o)
  /\ UNCHANGED <<objectsListed, objectsIncluded, rows, entries, completedKeys, stuck, run, aborted>>

(* Mutant: the key is saved, but not added to the set the run looks up. *)
RecordUnseen(o) ==
  /\ pc[o] = "record"
  /\ Runs(o)
  /\ objectsIncluded' = objectsIncluded + 1
  /\ rows' = IF IncludeManifest THEN Append(rows, o) ELSE rows
  /\ \/ /\ Checkpointing
        /\ Goto(o, "saving")
        /\ UNCHANGED <<poolVars, lockq, byteVars, completedKeys, zip>>
     \/ /\ ~ Checkpointing
        /\ LeaveLock
        /\ Return(o)
        /\ UNCHANGED completedKeys
  /\ UNCHANGED <<objectsListed, objectsSkipped, omissions, entries, stuck, run, aborted>>

(* The record section up to the save, and without a checkpoint to its end. *)
Record(o) ==
  /\ pc[o] = "record"
  /\ Runs(o)
  /\ objectsIncluded' = objectsIncluded + 1
  /\ rows' = IF IncludeManifest THEN Append(rows, o) ELSE rows
  /\ \/ /\ Checkpointing
        /\ completedKeys' = Append(completedKeys, Key[o])
        /\ Goto(o, "saving")
        /\ UNCHANGED <<poolVars, lockq, byteVars, zip>>
     \/ /\ ~ Checkpointing
        /\ LeaveLock
        /\ Return(o)
        /\ UNCHANGED completedKeys
  /\ UNCHANGED <<objectsListed, objectsSkipped, omissions, entries, stuck, run, aborted>>

(* store.save resolves, still under the lock; the task is done. *)
SaveDone(o) ==
  /\ pc[o] = "saving"
  /\ LeaveLock
  /\ Return(o)
  /\ UNCHANGED <<counters, omissions, rows, entries, completedKeys, stuck, run, aborted>>

(* store.save rejects: neither failure mode catches it. *)
SaveFails(o) ==
  /\ pc[o] = "saving"
  /\ "save" \in Faults
  /\ LeaveLock
  /\ Throw(o)
  /\ UNCHANGED <<poolVars, counters, results, completedKeys, stuck, run, aborted>>

(* The rethrow of runZipObject, after the pipeline has settled. *)
Reject(o) ==
  /\ pc[o] = "failing"
  /\ SettleWith(o, "failed")
  /\ Goto(o, "ended")
  /\ UNCHANGED <<lockq, byteVars, counters, results, completedKeys, output, run, aborted>>

-----------------------------------------------------------------------------
(* The engine, after the iteration. *)
IterationRejected ==
  /\ run = "iterating"
  /\ driver = "rejected"
  /\ run' = "failed"
  /\ UNCHANGED <<poolVars, pc, lockq, byteVars, counters, results, completedKeys, output, aborted>>

IterationResolved ==
  /\ run = "iterating"
  /\ driver = "resolved"
  /\ IF IncludeManifest
     THEN Queue(Manifest) /\ run' = "manifest"
     ELSE run' = "closing" /\ UNCHANGED lockq
  /\ UNCHANGED <<poolVars, pc, byteVars, counters, results, completedKeys, output, aborted>>

(* The manifest's append, like any other, is rejected if yazl has errored. *)
WriteManifest ==
  /\ run = "manifest"
  /\ Runs(Manifest)
  /\ LeaveLock
  /\ \/ ~ stuck /\ entries' = Append(entries, Manifest) /\ run' = "closing"
     \/ stuck /\ run' = "failed" /\ UNCHANGED entries
  /\ UNCHANGED <<poolVars, pc, byteVars, counters, omissions, rows, completedKeys, output,
                 aborted>>

(* end() and waitPipeline(): flushed, or the error that destroyed the output. *)
PipelineSettles ==
  /\ run = "closing"
  /\ \/ /\ zip = "open" /\ ~ stuck
        /\ zip' = "flushed" /\ run' = "done"
     \/ /\ zip = "destroyed"
        /\ run' = "failed" /\ UNCHANGED zip
  /\ UNCHANGED <<poolVars, pc, lockq, byteVars, counters, results, completedKeys, stuck, aborted>>

(* The destination fails, and pipeline() with it. *)
DestinationFails ==
  /\ "destination" \in Faults
  /\ zip = "open"
  /\ zip' = "destroyed"
  /\ UNCHANGED <<poolVars, pc, lockq, byteVars, counters, results, completedKeys, stuck, run, aborted>>

Abort ==
  /\ "abort" \in Faults
  /\ ~ aborted
  /\ aborted' = TRUE
  /\ UNCHANGED <<poolVars, pc, lockq, byteVars, counters, results, completedKeys, output, run>>

(* A task's own steps. *)
Step(o) ==
  \/ StartTask(o) \/ CountListed(o) \/ CountSkipped(o) \/ Begin(o)
  \/ PassGate(o) \/ GateRejects(o) \/ GetObject(o) \/ StartAppend(o)
  \/ Omit(o) \/ Record(o) \/ Reject(o)

(* Calls that leave the process. *)
External(o) ==
  \/ GetSucceeds(o) \/ GetFails(o) \/ AppendDone(o) \/ AppendFails(o)
  \/ SaveDone(o) \/ SaveFails(o)

Engine ==
  IterationRejected \/ IterationResolved \/ WriteManifest \/ PipelineSettles

Next ==
  \/ Pull \/ ListingEnds \/ Engine
  \/ DestinationFails \/ Abort
  \/ \E o \in Objects : Step(o) \/ External(o)

Spec == Init /\ [][Next /\ UNCHANGED setup]_<<setup, vars>>

(***************************************************************************)
(* Promise callbacks run; requests to S3 and the store return; yazl gets   *)
(* on with an entry as long as its output is healthy, and an append to a   *)
(* zip file that has errored is rejected.                                  *)
(***************************************************************************)
FairSpec ==
  /\ Spec
  /\ WF_vars(Pull \/ ListingEnds)
  /\ WF_vars(Engine)
  /\ \A o \in Objects :
       /\ WF_vars(Step(o))
       /\ WF_vars(GetSucceeds(o) \/ GetFails(o))
       /\ WF_vars((zip = "open" /\ AppendDone(o)) \/ (stuck /\ AppendFails(o)))
       /\ WF_vars(SaveDone(o) \/ SaveFails(o))

-----------------------------------------------------------------------------
InLock == {"listed", "skip", "begin", "append", "writing", "record", "saving", "omit"}
BodyOpen == {"get", "append", "writing", "record", "saving"}
Places == InLock \cup BodyOpen \cup {"none", "start", "gate", "bytes", "failing", "ended"}
At(places) == {o \in Objects : pc[o] \in places}
Elements(seq) == {seq[i] : i \in 1..Len(seq)}

(* Entries never interleave: every task that needs the exclusive chain is  *)
(* in it exactly once, and only the one at its head writes or saves.       *)
ExclusiveChain ==
  /\ Elements(lockq) \ {Manifest} = At(InLock)
  /\ Cardinality(Elements(lockq)) = Len(lockq)
  /\ \A o \in At({"writing", "saving"}) : Head(lockq) = o

(* The budget covers every open body, and no way out of processOne keeps   *)
(* its reservation.                                                        *)
BudgetCoversBodies ==
  /\ used <= MaxBytes
  /\ \A o \in Objects :
       /\ pc[o] \in BodyOpen => bytePhase[o] = "holding" /\ grant[o] = Bytes!Reservation(Size[o])
       /\ pc[o] \in {"failing", "ended"} => bytePhase[o] = "idle" /\ grant[o] = 0

(* A run that resolves has lost nothing: every listed object is counted    *)
(* once, as included or skipped; it is an entry of the flushed archive, or *)
(* was omitted, is skippable, or has the key of an entry; the manifest     *)
(* rows follow the entries and, if it was asked for, the manifest is the   *)
(* last one.  A rejection the window forgets cannot get here, since it     *)
(* destroyed the output.  Runs whose signal fired may resolve over a cut   *)
(* listing and are not covered.                                            *)
ResolvedRunIsComplete ==
  run = "done" /\ ~ aborted =>
    LET archived == Elements(entries) \ {Manifest}
    IN  /\ \A o \in 1..listed : outcome[o] = "ok"
        /\ objectsListed = listed
        /\ objectsIncluded + objectsSkipped = listed
        /\ objectsIncluded = Cardinality(archived)
        /\ \A o \in 1..listed \ (omissions \cup Skippable) :
             \E x \in archived : x = o \/ (Checkpointing /\ Key[x] = Key[o])
        /\ zip = "flushed"
        /\ IncludeManifest => entries = Append(rows, Manifest)

(* The manifest is written after every object: nothing is left running.    *)
NothingRunsUnderTheManifest ==
  run \in {"manifest", "closing", "done"} => At(Places \ {"none", "ended"}) = {}

(* With a checkpoint a key is archived again only by a task that looked it *)
(* up before the earlier entry, encoded already, had its record section.   *)
RepeatsOnlyInFlight ==
  [][\A o \in Objects, i \in 1..Len(entries) :
       /\ Checkpointing /\ entries[i] # Manifest
       /\ pc[o] = "listed" /\ pc'[o] = "begin" /\ Key[entries[i]] = Key[o]
       => pc[entries[i]] = "record"]_<<setup, vars>>

(* A best-effort run settles, however its requests, its appends and its    *)
(* listing fail (docs/architecture.md: it collects what failed), with one  *)
(* exception: after a failed append the zip file is never finished, which  *)
(* a run without a manifest waits for in vain.  (Bodies whose error nobody *)
(* hears are ObjectBody's subject.)  A fail-fast run breaks its own output,*)
(* and yazl does not finish an entry whose output is gone: when the window *)
(* forgets the rejection, the join may wait for such an entry for good.    *)
RunSettles ==
  BestEffort /\ Faults \subseteq {"get", "list", "append"} =>
    <>(run \in {"done", "failed"} \/ (run = "closing" /\ stuck /\ ~ IncludeManifest))
=============================================================================
