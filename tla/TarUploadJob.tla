---------------------------- MODULE TarUploadJob ----------------------------
(***************************************************************************)
(* runFolderArchiveToS3 (src/src/platform.ts) with format "tar": the       *)
(* engine pumps a TarArchiveSink into a PassThrough, and a multipart       *)
(* upload reads the other end.  TarArchiveSink.runSequential takes one     *)
(* object at a time from the listing through processOne; the listing and   *)
(* GetObject are those of S3Requests.  One root; the optional drain gate   *)
(* and byte budget, which hold nobody back in a sequential run, are left   *)
(* out, and so is the deduplication of CheckpointedJob.                    *)
(*                                                                         *)
(* tar-stream and lib-storage are external: a failing entry destroys the   *)
(* pack, and a destroyed pack takes no entry; an upload completes once it  *)
(* has read its body to the end, and an upload that fails destroys its     *)
(* body.  A pipeline destroys all its streams when one of them is.         *)
(***************************************************************************)
EXTENDS S3Requests, Sequences, FiniteSets

CONSTANTS
  FailureModes,   \* values of options.failureMode the runs may have
  Skippable,      \* placeholders, filtered, delta-baseline and completed objects
  IncludeManifest, \* options.includeManifest
  ManifestMax,    \* manifestMaxEntries
  Faults          \* what may go wrong outside the request layer

ASSUME JobAssumption ==
  /\ FailureModes \subseteq {"fail-fast", "best-effort"}
  /\ Skippable \subseteq Objects
  /\ IncludeManifest \in BOOLEAN
  /\ ManifestMax \in Nat
  /\ Faults \subseteq {"name", "append", "save", "upload"}

VARIABLES
  failureMode,
  checkpointing,  \* options.checkpoint is given
  run,        \* what the engine is doing
  pack,       \* the tar stream
  body,       \* the PassThrough
  upload,     \* uploadPromise
  job,        \* what runFolderArchiveToS3 is awaiting, or how it ended
  objectsIncluded, objectsSkipped,  \* progress
  omissions,  \* objects omitted
  rows,       \* manifestRows
  entries     \* entries written to the pack

options == <<failureMode, checkpointing>>
streams == <<pack, body, upload>>
counters == <<objectsIncluded, objectsSkipped>>
results == <<omissions, rows, entries>>
vars == <<s3vars, options, run, streams, job, counters, results>>

Manifest == 0

(* The object in hand: the last one yielded. *)
Current == received - buffered

Init ==
  /\ S3Init
  /\ failureMode \in FailureModes
  /\ checkpointing \in BOOLEAN
  /\ run = "listing"
  /\ pack = "open" /\ body = "open" /\ upload = "running"
  /\ job = "pumping"
  /\ objectsIncluded = 0 /\ objectsSkipped = 0
  /\ omissions = {} /\ rows = <<>> /\ entries = <<>>

BreakBody == body' = IF body = "open" THEN "destroyed" ELSE body
BreakPack == pack' = IF pack = "open" THEN "destroyed" ELSE pack

(* The pipeline breaks, at either end. *)
BreakPipe == BreakPack /\ BreakBody

(* processOne throws: runSequential destroys the pack and rethrows. *)
Throw ==
  /\ run' = "threw"
  /\ BreakPipe
  /\ UNCHANGED upload

-----------------------------------------------------------------------------
(* The loop asks for the next object. *)
AskForObject ==
  /\ run = "listing"
  /\ FetchPage
  /\ UNCHANGED <<options, run, streams, job, counters, results>>

(* An object comes: the signal is looked at, then processOne decides. *)
TakeObject ==
  /\ run = "listing"
  /\ YieldNext
  /\ \/ /\ aborted
        /\ run' = "threw"
        /\ UNCHANGED <<streams, objectsSkipped>>
     \/ /\ ~ aborted
        /\ Current' \in Skippable
        /\ objectsSkipped' = objectsSkipped + 1
        /\ UNCHANGED <<run, streams>>
     \/ /\ ~ aborted
        /\ Current' \notin Skippable
        /\ "name" \in Faults
        /\ Throw
        /\ UNCHANGED objectsSkipped
     \/ /\ ~ aborted
        /\ Current' \notin Skippable
        /\ run' = "object"
        /\ UNCHANGED <<streams, objectsSkipped>>
  /\ UNCHANGED <<options, job, objectsIncluded, results>>

(* getObjectStream is called. *)
GetObject ==
  /\ run = "object"
  /\ OpenRequest(Current)
  /\ run' = "get"
  /\ UNCHANGED <<aborted, listingVars, options, streams, job, counters, results>>

(* The object goes without: an omission, or the end of the run. *)
GiveUp ==
  \/ /\ failureMode = "best-effort"
     /\ omissions' = omissions \cup {Current}
     /\ objectsSkipped' = objectsSkipped + 1
     /\ run' = "listing"
  \/ /\ failureMode = "fail-fast"
     /\ run' = "threw"
     /\ UNCHANGED <<omissions, objectsSkipped>>

GetFails ==
  /\ run = "get"
  /\ phase[Current] \in Failures
  /\ GiveUp
  /\ IF run' = "threw" THEN BreakPipe /\ UNCHANGED upload ELSE UNCHANGED streams
  /\ UNCHANGED <<s3vars, options, job, objectsIncluded, rows, entries>>

(* The entry is in the pack; up to the save of its key. *)
AppendDone ==
  /\ run = "get"
  /\ phase[Current] = "ok"
  /\ pack = "open"
  /\ entries' = Append(entries, Current)
  /\ objectsIncluded' = objectsIncluded + 1
  /\ rows' = IF IncludeManifest /\ Len(rows) < ManifestMax THEN Append(rows, Current) ELSE rows
  /\ run' = IF checkpointing THEN "saving" ELSE "listing"
  /\ UNCHANGED <<s3vars, options, streams, job, objectsSkipped, omissions>>

(* The body fails or has the wrong length; or the pack is gone. *)
AppendFails ==
  /\ run = "get"
  /\ phase[Current] = "ok"
  /\ "append" \in Faults \/ pack = "destroyed"
  /\ BreakPipe
  /\ GiveUp
  /\ UNCHANGED <<s3vars, options, upload, job, objectsIncluded, rows, entries>>

(* checkpointCoord.recordSuccessfulInclude resolves, or rejects. *)
SaveSettles ==
  /\ run = "saving"
  /\ \/ run' = "listing" /\ UNCHANGED streams
     \/ "save" \in Faults /\ Throw
  /\ UNCHANGED <<s3vars, options, job, counters, results>>

-----------------------------------------------------------------------------
(* The iterator rejects: the error leaves the loop, past its try. *)
ListingFails ==
  /\ run = "listing"
  /\ phase[Listing] \in Failures
  /\ run' = "threw"
  /\ UNCHANGED <<s3vars, options, streams, job, counters, results>>

(* The iterator is done. *)
ListingEnds ==
  /\ run = "listing"
  /\ ListingDone
  /\ run' = IF IncludeManifest /\ Len(rows) <= ManifestMax THEN "manifest" ELSE "closing"
  /\ UNCHANGED <<options, streams, job, counters, results>>

(* addManifestBuffer. *)
WriteManifest ==
  /\ run = "manifest"
  /\ \/ /\ pack = "open"
        /\ entries' = Append(entries, Manifest)
        /\ run' = "closing"
     \/ /\ pack = "destroyed"
        /\ run' = "threw"
        /\ UNCHANGED entries
  /\ UNCHANGED <<s3vars, options, streams, job, counters, omissions, rows>>

(* finalize() and waitPipeline(). *)
PipelineSettles ==
  /\ run = "closing"
  /\ \/ /\ pack = "open"
        /\ pack' = "finished" /\ body' = "ended"
        /\ run' = "finished"
     \/ /\ pack = "destroyed"
        /\ run' = "threw"
        /\ UNCHANGED <<pack, body>>
  /\ UNCHANGED <<s3vars, options, upload, job, counters, results>>

-----------------------------------------------------------------------------
(* Mutants: the body is ended, or left alone, when the pump has thrown. *)
PumpThrewEnds ==
  /\ job = "pumping"
  /\ run = "threw"
  /\ body' = IF body = "open" THEN "ended" ELSE body
  /\ BreakPack
  /\ job' = "unwinding"
  /\ UNCHANGED <<s3vars, options, run, upload, counters, results>>

PumpThrewWaits ==
  /\ job = "pumping"
  /\ run = "threw"
  /\ job' = "unwinding"
  /\ UNCHANGED <<s3vars, options, run, streams, counters, results>>

(* runFolderArchiveToS3: pumpArchiveToWritable rejects, or resolves. *)
PumpThrew ==
  /\ job = "pumping"
  /\ run = "threw"
  /\ BreakPipe
  /\ job' = "unwinding"
  /\ UNCHANGED <<s3vars, options, run, upload, counters, results>>

PumpFinished ==
  /\ job = "pumping"
  /\ run = "finished"
  /\ job' = "uploading"
  /\ UNCHANGED <<s3vars, options, run, streams, counters, results>>

(* The awaited upload has settled. *)
UploadAwaited ==
  /\ job \in {"uploading", "unwinding"}
  /\ upload # "running"
  /\ job' = IF job = "uploading" /\ upload = "completed" THEN "resolved" ELSE "rejected"
  /\ UNCHANGED <<s3vars, options, run, streams, counters, results>>

(* The upload by itself, whoever awaits it. *)
UploadSettles ==
  /\ upload = "running"
  /\ \/ body = "ended" /\ upload' = "completed"
     \/ body = "destroyed" /\ upload' = "failed"
  /\ UNCHANGED <<s3vars, options, run, pack, body, job, counters, results>>

UploadFails ==
  /\ "upload" \in Faults
  /\ upload = "running"
  /\ upload' = "failed"
  /\ BreakPipe
  /\ UNCHANGED <<s3vars, options, run, job, counters, results>>

(* The requests go their own way. *)
RequestStep ==
  /\ S3Step
  /\ UNCHANGED <<options, run, streams, job, counters, results>>

Engine ==
  \/ AskForObject \/ TakeObject \/ GetObject \/ GetFails
  \/ AppendDone \/ AppendFails \/ SaveSettles
  \/ ListingFails \/ ListingEnds \/ WriteManifest \/ PipelineSettles

Platform == PumpThrew \/ PumpFinished \/ UploadAwaited

Next == Engine \/ Platform \/ UploadSettles \/ UploadFails \/ RequestStep

Spec == Init /\ [][Next]_vars

(* Promise callbacks run, requests are answered, and the upload reads what *)
(* it is given.  No signal and no fault is obliged to come.                *)
FairSpec ==
  /\ Spec
  /\ WF_vars(Engine)
  /\ WF_vars(Platform)
  /\ WF_vars(UploadSettles)
  /\ \A r \in Requests :
       WF_vars(AnswerTo(r) /\ UNCHANGED <<options, run, streams, job, counters, results>>)

-----------------------------------------------------------------------------
Archived == {entries[i] : i \in 1..Len(entries)} \ {Manifest}

(* The archive accounts for the whole prefix: every object is an entry,    *)
(* once, or was omitted or skipped, the counters say the same, and nothing *)
(* follows a manifest.                                                     *)
Whole ==
  /\ received = NumObjects /\ buffered = 0 /\ ~ more
  /\ Objects = Archived \cup omissions \cup Skippable
  /\ objectsIncluded = Cardinality(Archived)
  /\ objectsIncluded + objectsSkipped = NumObjects
  /\ \A i, j \in 1..Len(entries) : entries[i] = entries[j] => i = j
  /\ \A i \in 1..Len(entries) : entries[i] = Manifest => i = Len(entries)

(* What lies at the destination is never half an archive: an upload        *)
(* completes only over a whole one, whatever failed or was aborted on the  *)
(* way, and the job resolves only with a completed upload.                 *)
UploadIsWhole ==
  /\ upload = "completed" => Whole
  /\ job = "resolved" => upload = "completed"

(* The job comes to an end, whichever of pump, requests and upload failed  *)
(* first: neither waits for the other for ever.                            *)
JobSettles == <>(job \in {"resolved", "rejected"})

=============================================================================
