--------------------------- MODULE BackgroundJobs ---------------------------
(***************************************************************************)
(* InMemoryArchiveJobRegistry (archive-background-jobs.ts): a map from job *)
(* ids to snapshots.  createJob puts a snapshot into the map and queues a  *)
(* microtask; that task finds its snapshot again BY ID when it starts, and *)
(* again when its run has settled, so after clear() and a second createJob *)
(* with the same id it finds, and writes, the snapshot of another job.     *)
(*                                                                         *)
(* A call of createJob is a member of Jobs.  What its run resolves or      *)
(* rejects with is named by the call itself.  Time stamps are left out.    *)
(***************************************************************************)
EXTENDS Naturals, Sequences

CONSTANTS Ids, Jobs, None

VARIABLES
  jobs,        \* the map: Ids -> snapshot or None
  idOf,        \* the id each call of createJob was given
  task,        \* where runJob of each call stands
  microtasks,  \* calls whose runJob is queued and has not started
  orphaned     \* calls whose snapshot a clear() took before they had settled

vars == <<jobs, idOf, task, microtasks, orphaned>>

Statuses == {"queued", "running", "completed", "failed"}

Snapshots == [owner : Jobs, status : Statuses,
              result : Jobs \cup {None}, error : Jobs \cup {None}]

ASSUME NoneAssumption == None \notin Jobs \cup Ids \cup Snapshots

Queued(j) == [owner |-> j, status |-> "queued", result |-> None, error |-> None]

Init ==
  /\ jobs = [i \in Ids |-> None]
  /\ idOf = [j \in Jobs |-> None]
  /\ task = [j \in Jobs |-> "unborn"]
  /\ microtasks = << >>
  /\ orphaned = {}

(* Mutant: an id in use is given out again. *)
CreateJobAnyway(j, i) ==
  /\ task[j] = "unborn"
  /\ jobs' = [jobs EXCEPT ![i] = Queued(j)]
  /\ idOf' = [idOf EXCEPT ![j] = i]
  /\ task' = [task EXCEPT ![j] = "queued"]
  /\ microtasks' = Append(microtasks, j)
  /\ UNCHANGED orphaned

(* An id in the map is refused (ArchiveJobIdConflictError): nothing changes. *)
CreateJob(j, i) ==
  /\ task[j] = "unborn"
  /\ jobs[i] = None
  /\ jobs' = [jobs EXCEPT ![i] = Queued(j)]
  /\ idOf' = [idOf EXCEPT ![j] = i]
  /\ task' = [task EXCEPT ![j] = "queued"]
  /\ microtasks' = Append(microtasks, j)
  /\ UNCHANGED orphaned

(* What runJob does to whatever snapshot the map holds under the id. *)
Rewrite(i, changed) ==
  jobs' = IF jobs[i] = None THEN jobs ELSE [jobs EXCEPT ![i] = changed]

(* Mutant: a cleared job's microtask gives up without settling anything. *)
StartJobForgets ==
  /\ microtasks # << >>
  /\ LET j == Head(microtasks)
         i == idOf[j]
     IN /\ Rewrite(i, [jobs[i] EXCEPT !.status = "running"])
        /\ task' = [task EXCEPT ![j] = IF jobs[i] = None THEN @ ELSE "running"]
  /\ microtasks' = Tail(microtasks)
  /\ UNCHANGED <<idOf, orphaned>>

(* runJob up to its await.  Without a snapshot the run is never called. *)
StartJob ==
  /\ microtasks # << >>
  /\ LET j == Head(microtasks)
         i == idOf[j]
     IN /\ Rewrite(i, [jobs[i] EXCEPT !.status = "running"])
        /\ task' = [task EXCEPT ![j] = IF jobs[i] = None THEN "dropped" ELSE "running"]
  /\ microtasks' = Tail(microtasks)
  /\ UNCHANGED <<idOf, orphaned>>

RunResolves(j) ==
  /\ task[j] = "running"
  /\ task' = [task EXCEPT ![j] = "resolved"]
  /\ Rewrite(idOf[j], [jobs[idOf[j]] EXCEPT !.status = "completed", !.result = j])
  /\ UNCHANGED <<idOf, microtasks, orphaned>>

(* Mutant: the error is kept but the status is not set. *)
RunRejectsQuietly(j) ==
  /\ task[j] = "running"
  /\ task' = [task EXCEPT ![j] = "rejected"]
  /\ Rewrite(idOf[j], [jobs[idOf[j]] EXCEPT !.error = j])
  /\ UNCHANGED <<idOf, microtasks, orphaned>>

RunRejects(j) ==
  /\ task[j] = "running"
  /\ task' = [task EXCEPT ![j] = "rejected"]
  /\ Rewrite(idOf[j], [jobs[idOf[j]] EXCEPT !.status = "failed", !.error = j])
  /\ UNCHANGED <<idOf, microtasks, orphaned>>

(* downloadResult, and with the status getStatus: reads of the map. *)
DownloadResult(i) ==
  CASE jobs[i] = None -> [is |-> "notFound", of |-> None]
    [] jobs[i] # None /\ jobs[i].status = "failed" ->
         [is |-> "failed", of |-> jobs[i].error]
    [] jobs[i] # None /\ jobs[i].status # "failed"
       /\ (jobs[i].status # "completed" \/ jobs[i].result = None) ->
         [is |-> "notCompleted", of |-> None]
    [] OTHER -> [is |-> "result", of |-> jobs[i].result]

Clear ==
  /\ jobs' = [i \in Ids |-> None]
  /\ orphaned' = orphaned \cup
       {j \in Jobs : /\ task[j] \in {"queued", "running"}
                     /\ jobs[idOf[j]] # None /\ jobs[idOf[j]].owner = j}
  /\ UNCHANGED <<idOf, task, microtasks>>

Next ==
  \/ StartJob
  \/ Clear
  \/ \E j \in Jobs : \/ \E i \in Ids : CreateJob(j, i)
                     \/ RunResolves(j) \/ RunRejects(j)

Spec == Init /\ [][Next]_vars

(* Microtasks run, and the runs handed over settle.  (When pump runs do is *)
(* RunSettles in PumpRun and ZipPump.)                                     *)
FairSpec == Spec /\ WF_vars(StartJob)
                 /\ \A j \in Jobs : WF_vars(RunResolves(j) \/ RunRejects(j))

-----------------------------------------------------------------------------

TypeOK ==
  /\ jobs \in [Ids -> Snapshots \cup {None}]
  /\ idOf \in [Jobs -> Ids \cup {None}]
  /\ task \in [Jobs -> {"unborn", "queued", "running", "dropped", "resolved", "rejected"}]
  /\ microtasks \in Seq(Jobs)
  /\ orphaned \subseteq Jobs

(* A snapshot only ever holds the outcome of its own run, or of a run that *)
(* was still outstanding when a clear() took its snapshot away and whose   *)
(* id was then given out again.  So an application that clears the         *)
(* registry when it is idle, or never reuses an id, is never handed the    *)
(* result of another job (runJob looks its snapshot up by id, line 132).   *)
OnlyOrphansIntrude ==
  \A i \in Ids : jobs[i] # None =>
    \A o \in {jobs[i].result, jobs[i].error} \ {None} :
      /\ idOf[o] = i
      /\ o = jobs[i].owner \/ o \in orphaned

(* What the registry answers for a job is where that job's run stands, and *)
(* a finished job stays finished, as long as no run of another job with    *)
(* the same id was orphaned: the status is neither set back to running by  *)
(* a late start nor turned round by a late result.                         *)
AnswersMatchTheRun ==
  \A i \in Ids :
    jobs[i] # None /\ (\A o \in orphaned : idOf[o] # i) =>
      LET j == jobs[i].owner IN
        CASE task[j] = "resolved" -> DownloadResult(i) = [is |-> "result", of |-> j]
          [] task[j] = "rejected" -> DownloadResult(i) = [is |-> "failed", of |-> j]
          [] OTHER -> /\ DownloadResult(i).is = "notCompleted"
                      /\ jobs[i].status = task[j]

(* Every job created is settled, or has been cleared before it started. *)
EveryJobSettles ==
  \A j \in Jobs : task[j] = "queued" ~> task[j] \in {"dropped", "resolved", "rejected"}
=============================================================================
