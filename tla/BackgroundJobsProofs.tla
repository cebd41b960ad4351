------------------------ MODULE BackgroundJobsProofs ------------------------
(***************************************************************************)
(* For any jobs and any ids: a snapshot holds no outcome but its own run's *)
(* or an orphan's, and without orphans the registry answers what the run   *)
(* of a job did.                                                           *)
(***************************************************************************)
EXTENDS BackgroundJobs, TLAPS

Outstanding(j) == task[j] \in {"queued", "running"}

(* A queued microtask belongs to a queued job, each job's at most once. *)
OneMicrotaskEach ==
  /\ \A k \in 1..Len(microtasks) : task[microtasks[k]] = "queued"
  /\ \A k, l \in 1..Len(microtasks) : k # l => microtasks[k] # microtasks[l]

(* A job has its id from its birth on; the owner of a snapshot was given   *)
(* that id and its run was not dropped; an orphan was born.                *)
Ownership ==
  /\ \A j \in Jobs : task[j] # "unborn" => idOf[j] \in Ids
  /\ \A i \in Ids : jobs[i] # None => /\ idOf[jobs[i].owner] = i
                                      /\ task[jobs[i].owner] \notin {"unborn", "dropped"}
  /\ \A j \in orphaned : task[j] # "unborn"

(* A job whose run is outstanding owns the snapshot of its id, or has been *)
(* orphaned.                                                               *)
OwnsOrOrphaned ==
  \A j \in Jobs : Outstanding(j) =>
    j \in orphaned \/ (jobs[idOf[j]] # None /\ jobs[idOf[j]].owner = j)

NoOrphan(i) == \A o \in orphaned : idOf[o] # i

(* The snapshot of an id without orphans follows its owner's run. *)
FollowsOwner ==
  \A i \in Ids : jobs[i] # None /\ NoOrphan(i) =>
    LET j == jobs[i].owner IN
      /\ task[j] \in {"queued", "running"} => jobs[i].status = task[j]
      /\ task[j] = "resolved" => jobs[i].status = "completed" /\ jobs[i].result = j
      /\ task[j] = "rejected" => jobs[i].status = "failed" /\ jobs[i].error = j

IInv == /\ TypeOK /\ OneMicrotaskEach /\ Ownership /\ OwnsOrOrphaned
        /\ OnlyOrphansIntrude /\ FollowsOwner

LEMMA InitInv == Init => IInv
BY NoneAssumption
   DEF Init, IInv, TypeOK, OneMicrotaskEach, Ownership, OwnsOrOrphaned, Outstanding,
       OnlyOrphansIntrude, FollowsOwner

(* A new snapshot. *)
LEMMA QueuedSnapshot ==
  ASSUME NEW j \in Jobs
  PROVE  /\ Queued(j) \in Snapshots /\ Queued(j) # None
         /\ Queued(j).owner = j /\ Queued(j).status = "queued"
         /\ Queued(j).result = None /\ Queued(j).error = None
BY NoneAssumption DEF Queued, Snapshots, Statuses

(* A new snapshot and a new id: only the id without a snapshot changes. *)
LEMMA CreateKeeps ==
  ASSUME IInv, NEW j \in Jobs, NEW i \in Ids, CreateJob(j, i) PROVE IInv'
<1> USE DEF IInv
<1>1. /\ jobs' \in [Ids -> Snapshots \cup {None}] /\ jobs'[i] = Queued(j)
      /\ \A k \in Ids : k # i => jobs'[k] = jobs[k]
  BY QueuedSnapshot DEF CreateJob, TypeOK
<1>2. /\ idOf' \in [Jobs -> Ids \cup {None}] /\ idOf'[j] = i
      /\ \A k \in Jobs : k # j => idOf'[k] = idOf[k]
  BY DEF CreateJob, TypeOK
<1>3. /\ task' \in [Jobs -> {"unborn", "queued", "running", "dropped", "resolved", "rejected"}]
      /\ task[j] = "unborn" /\ task'[j] = "queued"
      /\ \A k \in Jobs : k # j => task'[k] = task[k]
  BY DEF CreateJob, TypeOK
<1>4. /\ microtasks' \in Seq(Jobs) /\ Len(microtasks') = Len(microtasks) + 1
      /\ microtasks'[Len(microtasks) + 1] = j
      /\ \A k \in 1..Len(microtasks) : microtasks'[k] = microtasks[k]
  BY DEF CreateJob, TypeOK
<1>5. orphaned' = orphaned /\ j \notin orphaned
  BY <1>3 DEF CreateJob, Ownership
<1>6. TypeOK'
  BY <1>1, <1>2, <1>3, <1>4, <1>5 DEF TypeOK
<1>7. OneMicrotaskEach'
  <2>1. \A k \in 1..Len(microtasks) : microtasks[k] \in Jobs /\ microtasks[k] # j
    BY <1>3 DEF OneMicrotaskEach, TypeOK
  <2>2. Len(microtasks) \in Nat
    BY DEF TypeOK
  <2> QED
    BY <1>3, <1>4, <2>1, <2>2 DEF OneMicrotaskEach
<1>8. \A k \in Ids : jobs[k] # None => jobs[k].owner \in Jobs /\ jobs[k].owner # j
  BY <1>3 DEF Ownership, TypeOK, Snapshots
<1>9. Ownership'
  BY <1>1, <1>2, <1>3, <1>5, <1>8, QueuedSnapshot DEF Ownership, TypeOK
<1>10. OwnsOrOrphaned'
  <2>1. ASSUME NEW k \in Jobs, k # j, Outstanding(k)'
        PROVE  k \in orphaned' \/ (jobs'[idOf'[k]] # None /\ jobs'[idOf'[k]].owner = k)
    <3>1. jobs[i] = None
      BY DEF CreateJob
    <3> QED
      BY <1>1, <1>2, <1>3, <1>5, <2>1, <3>1 DEF OwnsOrOrphaned, Outstanding, Ownership
  <2> QED
    BY <1>1, <1>2, <2>1, QueuedSnapshot DEF OwnsOrOrphaned
<1>11. OnlyOrphansIntrude'
  <2>1. ASSUME NEW k \in Ids, k # i, jobs[k] # None,
               NEW o \in {jobs[k].result, jobs[k].error} \ {None}
        PROVE  o # j
    BY <1>3, <2>1, NoneAssumption DEF OnlyOrphansIntrude, TypeOK, Ownership, Snapshots
  <2> QED
    BY <1>1, <1>2, <1>5, <2>1, QueuedSnapshot DEF OnlyOrphansIntrude, TypeOK, Snapshots
<1>12. FollowsOwner'
  BY <1>1, <1>2, <1>3, <1>5, <1>8, QueuedSnapshot DEF FollowsOwner, NoOrphan, TypeOK
<1> QED
  BY <1>6, <1>7, <1>9, <1>10, <1>11, <1>12

(* A start concerns the first microtask's job alone.  *)
LEMMA StartKeeps ==
  ASSUME IInv, StartJob PROVE IInv'
<1> USE DEF IInv
<1> DEFINE j == Head(microtasks)
<1> DEFINE i == idOf[j]
<1>1. /\ Len(microtasks) \in Nat /\ Len(microtasks) >= 1 /\ j = microtasks[1] /\ j \in Jobs
      /\ Len(microtasks') = Len(microtasks) - 1 /\ microtasks' \in Seq(Jobs)
      /\ \A k \in 1..Len(microtasks') : microtasks'[k] = microtasks[k + 1]
  BY DEF StartJob, TypeOK
<1>2. task[j] = "queued" /\ i \in Ids /\ UNCHANGED <<idOf, orphaned>>
  BY <1>1 DEF StartJob, OneMicrotaskEach, Ownership
<1>3. /\ task' \in [Jobs -> {"unborn", "queued", "running", "dropped", "resolved", "rejected"}]
      /\ task'[j] = IF jobs[i] = None THEN "dropped" ELSE "running"
      /\ \A k \in Jobs : k # j => task'[k] = task[k]
  BY <1>1, <1>2 DEF StartJob, TypeOK
<1>4. /\ jobs' \in [Ids -> Snapshots \cup {None}]
      /\ \A k \in Ids : k # i => jobs'[k] = jobs[k]
      /\ jobs[i] = None => jobs'[i] = None
      /\ jobs[i] # None => /\ jobs'[i] # None /\ jobs'[i].owner = jobs[i].owner
                           /\ jobs'[i].status = "running"
                           /\ jobs'[i].result = jobs[i].result
                           /\ jobs'[i].error = jobs[i].error
  <2>1. CASE jobs[i] = None
    BY <1>1, <2>1 DEF StartJob, Rewrite, TypeOK
  <2>2. CASE jobs[i] # None
    <3>1. jobs[i] \in Snapshots /\ "running" \in Statuses
      BY <1>2, <2>2 DEF TypeOK, Statuses
    <3> DEFINE t == [jobs[i] EXCEPT !.status = "running"]
    <3>2. jobs' = [jobs EXCEPT ![i] = t]
      BY <1>1, <2>2 DEF StartJob, Rewrite
    <3>3. /\ t \in Snapshots /\ t # None /\ t.owner = jobs[i].owner /\ t.status = "running"
          /\ t.result = jobs[i].result /\ t.error = jobs[i].error
      BY <3>1, NoneAssumption DEF Snapshots
    <3> HIDE DEF t
    <3> QED
      BY <1>2, <2>2, <3>2, <3>3 DEF TypeOK
  <2> QED
    BY <2>1, <2>2
<1> HIDE DEF j, i
<1>5. TypeOK'
  BY <1>1, <1>2, <1>3, <1>4 DEF TypeOK
<1>6. OneMicrotaskEach'
  <2>1. \A k \in 1..Len(microtasks') : k + 1 \in 2..Len(microtasks)
    BY <1>1
  <2>2. \A k \in 2..Len(microtasks) : /\ microtasks[k] \in Jobs /\ microtasks[k] # j
                                       /\ task[microtasks[k]] = "queued"
    BY <1>1 DEF OneMicrotaskEach, TypeOK
  <2>3. \A k \in 1..Len(microtasks') : task'[microtasks'[k]] = "queued"
    BY <1>1, <1>3, <2>1, <2>2
  <2>4. \A k, l \in 1..Len(microtasks') : k # l => microtasks'[k] # microtasks'[l]
    BY <1>1, <2>1 DEF OneMicrotaskEach
  <2> QED
    BY <2>3, <2>4 DEF OneMicrotaskEach
<1>7. \A k \in Ids : jobs[k] # None => jobs[k].owner \in Jobs
  BY DEF TypeOK, Snapshots
<1>8. jobs[i] = None => \A k \in Ids : jobs[k] # None => jobs[k].owner # j
  BY <1>1, <1>2 DEF Ownership, i
<1>9. Ownership'
  <2>1. \A k \in Jobs : task'[k] # "unborn" => idOf'[k] \in Ids
    BY <1>2, <1>3 DEF Ownership
  <2>2. \A k \in orphaned' : task'[k] # "unborn"
    BY <1>2, <1>3 DEF Ownership, TypeOK
  <2>3. ASSUME NEW k \in Ids, jobs'[k] # None
        PROVE  idOf'[jobs'[k].owner] = k /\ task'[jobs'[k].owner] \notin {"unborn", "dropped"}
    <3>1. jobs[k] # None /\ jobs'[k].owner = jobs[k].owner
      BY <1>4, <2>3
    <3> QED
      BY <1>2, <1>3, <1>7, <1>8, <3>1 DEF Ownership
  <2> QED
    BY <2>1, <2>2, <2>3 DEF Ownership
<1>10. OwnsOrOrphaned'
  BY <1>1, <1>2, <1>3, <1>4 DEF OwnsOrOrphaned, Outstanding, Ownership, i
<1>11. OnlyOrphansIntrude'
  BY <1>2, <1>4 DEF OnlyOrphansIntrude
<1>12. FollowsOwner'
  <2>1. ASSUME NEW k \in Ids, k # i, jobs[k] # None PROVE jobs[k].owner # j
    BY <2>1 DEF Ownership, i
  <2>2. jobs[i] # None /\ NoOrphan(i) => jobs[i].owner = j
    BY <1>1, <1>2 DEF OwnsOrOrphaned, Outstanding, NoOrphan, i
  <2> QED
    BY <1>2, <1>3, <1>4, <1>7, <2>1, <2>2 DEF FollowsOwner, NoOrphan
<1> QED
  BY <1>5, <1>6, <1>9, <1>10, <1>11, <1>12

(* A settled run writes its own outcome into the snapshot under its id. *)
LEMMA SettleKeeps ==
  ASSUME IInv, NEW j \in Jobs, RunResolves(j) \/ RunRejects(j) PROVE IInv'
<1> USE DEF IInv
<1> DEFINE i == idOf[j]
<1> DEFINE end == task'[j]
<1>1. /\ task[j] = "running" /\ i \in Ids /\ UNCHANGED <<idOf, microtasks, orphaned>>
      /\ end \in {"resolved", "rejected"}
      /\ task' \in [Jobs -> {"unborn", "queued", "running", "dropped", "resolved", "rejected"}]
      /\ \A k \in Jobs : k # j => task'[k] = task[k]
  BY DEF RunResolves, RunRejects, TypeOK, Ownership
<1>2. /\ jobs' \in [Ids -> Snapshots \cup {None}]
      /\ \A k \in Ids : k # i => jobs'[k] = jobs[k]
      /\ jobs[i] = None => jobs'[i] = None
      /\ jobs[i] # None =>
           /\ jobs'[i] # None /\ jobs'[i].owner = jobs[i].owner
           /\ end = "resolved" => /\ jobs'[i].status = "completed" /\ jobs'[i].result = j
                                  /\ jobs'[i].error = jobs[i].error
           /\ end = "rejected" => /\ jobs'[i].status = "failed" /\ jobs'[i].error = j
                                  /\ jobs'[i].result = jobs[i].result
  <2>1. CASE jobs[i] = None
    BY <2>1 DEF RunResolves, RunRejects, Rewrite, TypeOK
  <2>2. CASE jobs[i] # None
    <3>1. jobs[i] \in Snapshots /\ {"completed", "failed"} \subseteq Statuses
      BY <1>1, <2>2 DEF TypeOK, Statuses
    <3>2. CASE RunResolves(j)
      <4> DEFINE t == [jobs[i] EXCEPT !.status = "completed", !.result = j]
      <4>1. jobs' = [jobs EXCEPT ![i] = t] /\ end = "resolved"
        BY <2>2, <3>2 DEF RunResolves, Rewrite, TypeOK
      <4>2. /\ t \in Snapshots /\ t # None /\ t.owner = jobs[i].owner /\ t.status = "completed"
            /\ t.result = j /\ t.error = jobs[i].error
        BY <3>1, NoneAssumption DEF Snapshots
      <4> HIDE DEF t, end
      <4> QED
        BY <1>1, <2>2, <4>1, <4>2 DEF TypeOK
    <3>3. CASE RunRejects(j)
      <4> DEFINE t == [jobs[i] EXCEPT !.status = "failed", !.error = j]
      <4>1. jobs' = [jobs EXCEPT ![i] = t] /\ end = "rejected"
        BY <2>2, <3>3 DEF RunRejects, Rewrite, TypeOK
      <4>2. /\ t \in Snapshots /\ t # None /\ t.owner = jobs[i].owner /\ t.status = "failed"
            /\ t.error = j /\ t.result = jobs[i].result
        BY <3>1, NoneAssumption DEF Snapshots
      <4> HIDE DEF t, end
      <4> QED
        BY <1>1, <2>2, <4>1, <4>2 DEF TypeOK
    <3> QED
      BY <3>2, <3>3
  <2> QED
    BY <2>1, <2>2
<1>3. j \in orphaned \/ (jobs[i] # None /\ jobs[i].owner = j)
  BY <1>1 DEF OwnsOrOrphaned, Outstanding
<1>4. /\ \A k \in Ids : k # i /\ jobs[k] # None => jobs[k].owner # j
      /\ \A k \in Ids : jobs[k] # None => jobs[k].owner \in Jobs
  BY DEF Ownership, TypeOK, Snapshots
<1> HIDE DEF i, end
<1>5. TypeOK'
  BY <1>1, <1>2 DEF TypeOK
<1>6. OneMicrotaskEach'
  BY <1>1 DEF OneMicrotaskEach, TypeOK
<1>7. Ownership'
  BY <1>1, <1>2, <1>4 DEF Ownership, TypeOK, end
<1>8. OwnsOrOrphaned'
  BY <1>1, <1>2 DEF OwnsOrOrphaned, Outstanding, Ownership, end
<1>9. OnlyOrphansIntrude'
  BY <1>1, <1>2, <1>3 DEF OnlyOrphansIntrude, i
<1>10. FollowsOwner'
  <2>1. jobs[i] # None /\ NoOrphan(i) => jobs[i].owner = j
    BY <1>1, <1>3 DEF NoOrphan, i
  <2> QED
    BY <1>1, <1>2, <1>4, <2>1 DEF FollowsOwner, NoOrphan, end
<1> QED
  BY <1>5, <1>6, <1>7, <1>8, <1>9, <1>10

(* clear() leaves no snapshot, and makes orphans of those who owned one. *)
LEMMA ClearKeeps ==
  ASSUME IInv, Clear PROVE IInv'
<1> USE DEF IInv
<1>1. /\ \A k \in Ids : jobs'[k] = None
      /\ jobs' \in [Ids -> Snapshots \cup {None}]
      /\ UNCHANGED <<idOf, task, microtasks>>
  BY DEF Clear
<1>2. TypeOK' /\ OneMicrotaskEach' /\ OnlyOrphansIntrude' /\ FollowsOwner'
  BY <1>1 DEF TypeOK, OneMicrotaskEach, OnlyOrphansIntrude, FollowsOwner, Clear
<1>3. Ownership' /\ OwnsOrOrphaned'
  BY <1>1 DEF Ownership, OwnsOrOrphaned, Outstanding, Clear
<1> QED
  BY <1>2, <1>3

LEMMA StepInv == IInv /\ [Next]_vars => IInv'
<1> SUFFICES ASSUME IInv, [Next]_vars PROVE IInv'
  OBVIOUS
<1>1. CASE UNCHANGED vars
  BY <1>1 DEF vars, IInv, TypeOK, OneMicrotaskEach, Ownership, OwnsOrOrphaned, Outstanding,
              OnlyOrphansIntrude, FollowsOwner, NoOrphan
<1> QED
  BY <1>1, CreateKeeps, StartKeeps, SettleKeeps, ClearKeeps DEF Next

(* No job is handed another job's outcome, unless an orphan's id is reused. *)
THEOREM OutcomesAreOwn == Spec => []OnlyOrphansIntrude
<1>1. IInv => OnlyOrphansIntrude
  BY DEF IInv
<1> QED
  BY <1>1, InitInv, StepInv, PTL DEF Spec

(* Without orphans the registry's answers are what the runs did. *)
THEOREM RegistryTellsTheTruth == Spec => []AnswersMatchTheRun
<1>1. IInv => AnswersMatchTheRun
  <2> SUFFICES ASSUME IInv, NEW i \in Ids, jobs[i] # None, NoOrphan(i)
               PROVE  LET j == jobs[i].owner IN
                        CASE task[j] = "resolved" -> DownloadResult(i) = [is |-> "result", of |-> j]
                          [] task[j] = "rejected" -> DownloadResult(i) = [is |-> "failed", of |-> j]
                          [] OTHER -> /\ DownloadResult(i).is = "notCompleted"
                                      /\ jobs[i].status = task[j]
    BY DEF AnswersMatchTheRun, NoOrphan
  <2> DEFINE j == jobs[i].owner
  <2>1. /\ j \in Jobs /\ j # None
        /\ task[j] \in {"queued", "running", "resolved", "rejected"}
    BY NoneAssumption DEF IInv, TypeOK, Ownership, Snapshots
  <2>2. /\ task[j] \in {"queued", "running"} => jobs[i].status = task[j]
        /\ task[j] = "resolved" => jobs[i].status = "completed" /\ jobs[i].result = j
        /\ task[j] = "rejected" => jobs[i].status = "failed" /\ jobs[i].error = j
    BY DEF IInv, FollowsOwner
  <2> QED
    BY <2>1, <2>2 DEF DownloadResult
<1> QED
  BY <1>1, InitInv, StepInv, PTL DEF Spec
=============================================================================
