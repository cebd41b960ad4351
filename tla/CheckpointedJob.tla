---------------------------- MODULE CheckpointedJob ----------------------------
(***************************************************************************)
(* A job archived with a checkpoint: successive runs of the same jobId,    *)
(* each with its own ArchiveCheckpointCoordinator (src/src/archive-        *)
(* checkpoint-coordinator.ts), sharing one CheckpointStore.  A run loads   *)
(* the state, skips what it names, and after every entry it has encoded    *)
(* pushes the key and saves the whole state.  A run may be rejected or its *)
(* process may die at any point; the next run starts then, through the     *)
(* pump or through resumeFolderArchiveToWritable.                          *)
(*                                                                         *)
(* Objects are numbered in listing order, which is the same in every run,  *)
(* as are source, format and list roots (the callers' obligation).  The    *)
(* part of a run that ZipPump models is abstracted: at most Concurrency    *)
(* objects are between listing and the end of their record section, and    *)
(* record sections exclude each other.  When a run is rejected the objects *)
(* in flight go on: nothing cancels them.                                  *)
(***************************************************************************)
EXTENDS Naturals, Sequences, FiniteSets

CONSTANTS
  NumObjects,   \* objects listed
  Names,        \* archive entry paths
  Name,         \* entry path of each object
  MaxRuns,      \* bound: runs of a job
  Setups        \* how jobs are set up

Objects == 1..NumObjects
Runs == 1..MaxRuns

(* The number of objects in flight, and which CheckpointStore is used. *)
ASSUME JobAssumption ==
  /\ NumObjects \in Nat /\ MaxRuns \in Nat
  /\ Name \in [Objects -> Names]
  /\ Setups \subseteq [concurrency : Nat \ {0}, store : {"file", "redis", "sql"}]

VARIABLES
  setup,    \* how this job is set up
  store,    \* the saved checkpoint
  phase,    \* what each run is doing, or how it ended
  dedupe,   \* dedupeArchivePaths, per run
  listed,   \* objects each run has pulled
  state,    \* each coordinator's CheckpointState
  taken,    \* doneEntryPaths of each run
  task,     \* where each object is, per run
  archive,  \* objects encoded into each run's archive (0: by an earlier version)
  known     \* history: keys with an acknowledged save when a run opened

runVars == <<phase, dedupe, listed, state, taken, known>>
vars == <<setup, store, runVars, task, archive>>

(* dedupeArchivePaths is refused above concurrency 1. *)
DedupeModes == IF setup.concurrency = 1 THEN BOOLEAN ELSE {FALSE}

Elements(seq) == {seq[i] : i \in 1..Len(seq)}

(* Keys and resumeDedupe entries; the latter may be missing (an earlier version). *)
Nothing == [status |-> "absent", keys |-> <<>>, names |-> <<>>]
Legacy == [status |-> "saved", keys |-> <<1>>, names |-> <<>>]

Init ==
  /\ setup \in Setups
  /\ store \in {Nothing} \cup (IF NumObjects = 0 THEN {} ELSE {Legacy})
  /\ phase = [r \in Runs |-> "none"]
  /\ dedupe = [r \in Runs |-> FALSE]
  /\ listed = [r \in Runs |-> 0]
  /\ state = [r \in Runs |-> [keys |-> <<>>, names |-> <<>>]]
  /\ taken = [r \in Runs |-> {}]
  /\ task = [r \in Runs |-> [o \in Objects |-> "none"]]
  /\ archive = [r \in 0..MaxRuns |-> IF r = 0 THEN Elements(store.keys) ELSE {}]
  /\ known = [r \in Runs |-> {}]

(* Runs follow one another. *)
Over == {"rejected", "dead", "resolved", "refused"}
IsNext(r) == \A q \in 1..(r - 1) : phase[q] \in Over

Alive(r) == phase[r] \in {"open", "rejected"}
At(r, places) == {o \in Objects : task[r][o] \in places}
Saving == {"saving", "writing", "stored"}
InFlight(r) == At(r, {"appending", "encoded"} \cup Saving)

SetPhase(r, p) == phase' = [phase EXCEPT ![r] = p]
SetTask(r, o, p) == task' = [task EXCEPT ![r][o] = p]

-----------------------------------------------------------------------------
(* resumeFolderArchiveToWritable: there must be something to resume. *)
Resume(r) ==
  /\ phase[r] = "none"
  /\ IsNext(r)
  /\ SetPhase(r, IF store.status = "saved" THEN "validated" ELSE "refused")
  /\ UNCHANGED <<setup, store, dedupe, listed, state, taken, known, task, archive>>

(* History: keys whose save has been acknowledged to some run. *)
Acknowledged == {o \in Objects : \E q \in Runs : task[q][o] = "included"}

(* Mutant: the entry paths of earlier runs are not taken over. *)
OpenForgetsPaths(r) ==
  LET found == store.status = "saved"
      keys == IF found THEN store.keys ELSE <<>>
      names == IF found THEN store.names ELSE <<>>
  IN  /\ phase[r] = "validated" \/ (phase[r] = "none" /\ IsNext(r))
      /\ SetPhase(r, "open")
      /\ \E d \in DedupeModes : dedupe' = [dedupe EXCEPT ![r] = d]
      /\ state' = [state EXCEPT ![r] = [keys |-> keys, names |-> names]]
      /\ known' = [known EXCEPT ![r] = Acknowledged]
      /\ UNCHANGED <<setup, store, taken, listed, task, archive>>

(***************************************************************************)
(* ArchiveCheckpointCoordinator.open.  What cannot be parsed counts as no  *)
(* checkpoint.  With dedupe every completed key needs its entry path.      *)
(***************************************************************************)
Open(r) ==
  LET found == store.status = "saved"
      keys == IF found THEN store.keys ELSE <<>>
      names == IF found THEN store.names ELSE <<>>
  IN  /\ phase[r] = "validated" \/ (phase[r] = "none" /\ IsNext(r))
      /\ \E d \in DedupeModes :
           \/ /\ d /\ keys # <<>> /\ Len(names) # Len(keys)
              /\ SetPhase(r, "refused")
              /\ UNCHANGED <<dedupe, state, taken, known>>
           \/ /\ ~ (d /\ keys # <<>> /\ Len(names) # Len(keys))
              /\ SetPhase(r, "open")
              /\ dedupe' = [dedupe EXCEPT ![r] = d]
              /\ state' = [state EXCEPT ![r] = [keys |-> keys, names |-> names]]
              /\ taken' = [taken EXCEPT ![r] = IF d THEN Elements(names) ELSE {}]
              /\ known' = [known EXCEPT ![r] = Acknowledged]
      /\ UNCHANGED <<setup, store, listed, task, archive>>

(* Mutant: completed keys are not looked up. *)
BeginAnyKey(r) ==
  LET o == listed[r] + 1
      skip == dedupe[r] /\ Name[o] \in taken[r]
  IN  /\ phase[r] = "open"
      /\ o \in Objects
      /\ Cardinality(InFlight(r)) < setup.concurrency
      /\ listed' = [listed EXCEPT ![r] = o]
      /\ SetTask(r, o, IF skip THEN "skipped" ELSE "appending")
      /\ UNCHANGED <<setup, store, phase, dedupe, state, taken, known, archive>>

(* The next object: skipped, or on its way into the archive. *)
Begin(r) ==
  LET o == listed[r] + 1
      skip == o \in Elements(state[r].keys) \/ (dedupe[r] /\ Name[o] \in taken[r])
  IN  /\ phase[r] = "open"
      /\ o \in Objects
      /\ Cardinality(InFlight(r)) < setup.concurrency
      /\ listed' = [listed EXCEPT ![r] = o]
      /\ SetTask(r, o, IF skip THEN "skipped" ELSE "appending")
      /\ UNCHANGED <<setup, store, phase, dedupe, state, taken, known, archive>>

(* The entry is encoded. *)
Encode(r, o) ==
  /\ Alive(r)
  /\ task[r][o] = "appending"
  /\ archive' = [archive EXCEPT ![r] = @ \cup {o}]
  /\ SetTask(r, o, "encoded")
  /\ UNCHANGED <<setup, store, runVars>>

(* Mutant: the failure stays in the task. *)
FailQuietly(r, o) ==
  /\ Alive(r)
  /\ task[r][o] = "appending"
  /\ SetTask(r, o, "failed")
  /\ UNCHANGED <<setup, store, runVars, archive>>

(* Fail-fast: the object fails, and the run with it. *)
Fail(r, o) ==
  /\ Alive(r)
  /\ task[r][o] = "appending"
  /\ SetTask(r, o, "failed")
  /\ SetPhase(r, "rejected")
  /\ UNCHANGED <<setup, store, dedupe, listed, state, taken, known, archive>>

(* Mutant: the key is recorded before its entry is encoded. *)
RecordEarly(r, o) ==
  /\ Alive(r)
  /\ task[r][o] = "appending"
  /\ At(r, Saving) = {}
  /\ state' = [state EXCEPT ![r].keys = Append(@, o), ![r].names = Append(@, Name[o])]
  /\ SetTask(r, o, "saving")
  /\ UNCHANGED <<setup, store, phase, dedupe, listed, taken, known, archive>>

(* recordSuccessfulInclude up to the call of save. *)
Record(r, o) ==
  /\ Alive(r)
  /\ task[r][o] = "encoded"
  /\ At(r, Saving) = {}
  /\ state' = [state EXCEPT ![r].keys = Append(@, o), ![r].names = Append(@, Name[o])]
  /\ SetTask(r, o, "saving")
  /\ UNCHANGED <<setup, store, phase, dedupe, listed, taken, known, archive>>

Saved(r) == [status |-> "saved", keys |-> state[r].keys, names |-> state[r].names]

(* save resolves: the object is done, and its entry path is taken. *)
Included(r, o) ==
  /\ SetTask(r, o, "included")
  /\ taken' = [taken EXCEPT ![r] = @ \cup {Name[o]}]

(* The state is in the store; save has yet to return. *)
StoreState(r, o) ==
  /\ Alive(r)
  /\ task[r][o] = "saving"
  /\ store' = Saved(r)
  /\ SetTask(r, o, "stored")
  /\ UNCHANGED <<setup, runVars, archive>>

(* One statement; or SET, with EXPIRE to come if there is a time to live. *)
SaveSql(r, o) == setup.store = "sql" /\ StoreState(r, o)
SetRedis(r, o) == setup.store = "redis" /\ StoreState(r, o)

(* The answer of the database, or of EXPIRE: save resolves. *)
SaveReturns(r, o) ==
  /\ Alive(r)
  /\ task[r][o] = "stored"
  /\ Included(r, o)
  /\ UNCHANGED <<setup, store, phase, dedupe, listed, state, known, archive>>

(* writeFile: the file is truncated, then written. *)
TruncateFile(r, o) ==
  /\ setup.store = "file"
  /\ Alive(r)
  /\ task[r][o] = "saving"
  /\ store' = [store EXCEPT !.status = "torn"]
  /\ SetTask(r, o, "writing")
  /\ UNCHANGED <<setup, runVars, archive>>

(* If another run's task has written since, its text is written over, and  *)
(* what it was longer by stays behind.                                     *)
WriteFile(r, o) ==
  /\ Alive(r)
  /\ task[r][o] = "writing"
  /\ \/ store' = Saved(r)
     \/ store.status \in {"saved", "mixed"} /\ store' = [Saved(r) EXCEPT !.status = "mixed"]
  /\ Included(r, o)
  /\ UNCHANGED <<setup, phase, dedupe, listed, state, known, archive>>

(* save rejects, and the run with it: also when the state is stored, and   *)
(* only the answer is lost, or EXPIRE fails.                               *)
SaveFails(r, o) ==
  /\ Alive(r)
  /\ task[r][o] \in Saving
  /\ SetTask(r, o, "failed")
  /\ SetPhase(r, "rejected")
  /\ UNCHANGED <<setup, store, dedupe, listed, state, taken, known, archive>>

(* The listing fails or the run is aborted, while the pool is listing. *)
Reject(r) ==
  /\ phase[r] = "open"
  /\ Cardinality(InFlight(r)) < setup.concurrency
  /\ SetPhase(r, "rejected")
  /\ UNCHANGED <<setup, store, dedupe, listed, state, taken, known, task, archive>>

Resolve(r) ==
  /\ phase[r] = "open"
  /\ listed[r] = NumObjects
  /\ InFlight(r) = {}
  /\ SetPhase(r, "resolved")
  /\ UNCHANGED <<setup, store, dedupe, listed, state, taken, known, task, archive>>

(* The process dies. *)
Crash(r) ==
  /\ Alive(r)
  /\ SetPhase(r, "dead")
  /\ UNCHANGED <<setup, store, dedupe, listed, state, taken, known, task, archive>>

RunStep(r) ==
  Resume(r) \/ Open(r) \/ Begin(r) \/ Reject(r) \/ Resolve(r) \/ Crash(r)

ObjectStep(r, o) ==
  \/ Encode(r, o) \/ Fail(r, o) \/ Record(r, o)
  \/ SaveSql(r, o) \/ SetRedis(r, o) \/ SaveReturns(r, o)
  \/ TruncateFile(r, o) \/ WriteFile(r, o) \/ SaveFails(r, o)

Next == \E r \in Runs : RunStep(r) \/ \E o \in Objects : ObjectStep(r, o)

Spec == Init /\ [][Next]_vars

-----------------------------------------------------------------------------
(* What the destination file holds once run r has it: resumeFolderArchive- *)
(* ToFile and downloadFolderToFile open it with createWriteStream(path),   *)
(* which truncates it, so that nothing of earlier runs is in it.           *)
FileAfter(r) == archive[r]

Archived == UNION {archive[r] : r \in 0..MaxRuns}

(* Type invariant. *)
TypeOK ==
  /\ setup \in Setups
  /\ store \in [status : {"absent", "torn", "mixed", "saved"}, keys : Seq(Objects), names : Seq(Names)]
  /\ phase \in [Runs -> {"none", "validated", "open"} \cup Over]
  /\ dedupe \in [Runs -> BOOLEAN]
  /\ listed \in [Runs -> 0..NumObjects]
  /\ state \in [Runs -> [keys : Seq(Objects), names : Seq(Names)]]
  /\ taken \in [Runs -> SUBSET Names]
  /\ task \in [Runs -> [Objects -> {"none", "skipped", "appending", "encoded", "included",
                                     "failed"} \cup Saving]]
  /\ archive \in [0..MaxRuns -> SUBSET Objects]
  /\ known \in [Runs -> SUBSET Objects]

(* The store is never ahead of the archives: a key it names was encoded by *)
(* some run, however runs died, overlapped or overwrote each other.        *)
StoreNeverAhead == Elements(store.keys) \subseteq Archived

(* Nothing is forgotten: when a run resolves, every listed object, or one  *)
(* with its entry path if the run dedupes, was encoded by this run or by   *)
(* an earlier one.                                                         *)
NothingForgotten ==
  \A r \in Runs : phase[r] = "resolved" =>
    \A o \in Objects : \E x \in Archived : x = o \/ (dedupe[r] /\ Name[x] = Name[o])

(* A store whose save cannot be cut in two. *)
WholeSaves == setup.store # "file"

(* Path dedupe spans the runs of a job: no two entries of a run share a    *)
(* path, and none has the path of an entry saved before the run opened.    *)
(* (With the file store a crash within writeFile loses what was saved.)    *)
DedupeSpansRuns ==
  \A r \in Runs : dedupe[r] /\ WholeSaves =>
    /\ \A x, y \in archive[r] : Name[x] = Name[y] => x = y
    /\ \A x \in archive[r], y \in known[r] : Name[x] # Name[y]

(* docs/guides/checkpoints-and-resume.md: on restart completed keys are    *)
(* skipped, so that no work is done twice.                                 *)
NoWorkTwice == \A r \in Runs : archive[r] \cap known[r] = {}

(* README.md: with `checkpoint` the next run skips completed keys and can  *)
(* finish the archive.  A resumed run that resolves leaves a file that     *)
(* holds every listed object, those of earlier runs included.              *)
ResumedFileIsWhole ==
  \A r \in Runs : phase[r] = "resolved" /\ ~ dedupe[r] => Objects \subseteq FileAfter(r)

(* That much holds of a job that archives one object at a time and whose   *)
(* saves are whole, over any number of interrupted runs.                   *)
NoWorkTwiceInSequence ==
  setup.concurrency = 1 /\ WholeSaves => NoWorkTwice
=============================================================================
