------------------------ MODULE CheckpointedJobProofs ------------------------
(***************************************************************************)
(* Proofs about CheckpointedJob, for every number of objects and runs and  *)
(* every store: whatever runs die, overlap or overwrite each other, what   *)
(* the store names has been archived, and a run that resolves has          *)
(* forgotten nothing.                                                      *)
(***************************************************************************)
EXTENDS CheckpointedJob, FiniteSetTheorems, TLAPS

USE JobAssumption

(* An entry path stands for an object that has been archived. *)
Backed(names) == \A n \in names : \E x \in Archived : Name[x] = n

(* An object, or one with its entry path if the run dedupes, is archived. *)
Covered(r, o) == \E x \in Archived : x = o \/ (dedupe[r] /\ Name[x] = Name[o])

(* Keys and entry paths, saved, in memory or taken, are those of archived  *)
(* objects.                                                                *)
KeysBacked ==
  /\ Elements(store.keys) \subseteq Archived
  /\ \A r \in Runs : Elements(state[r].keys) \subseteq Archived

PathsBacked ==
  /\ Backed(Elements(store.names))
  /\ \A r \in Runs : Backed(Elements(state[r].names)) /\ Backed(taken[r])

(* So are objects past their encoding; a skipped object is covered. *)
TasksBacked ==
  \A r \in Runs : \A o \in Objects :
    /\ task[r][o] \in {"encoded", "included"} \cup Saving => o \in Archived
    /\ task[r][o] = "skipped" => Covered(r, o)

(* A run that has not opened has touched nothing; while it is open, every  *)
(* object it has listed is somewhere, and none has failed.                 *)
TasksListed ==
  \A r \in Runs :
    /\ phase[r] \in {"none", "validated"} =>
         listed[r] = 0 /\ \A o \in Objects : task[r][o] = "none"
    /\ phase[r] = "open" => \A o \in 1..listed[r] : task[r][o] \notin {"none", "failed"}

IInv ==
  /\ TypeOK
  /\ KeysBacked /\ PathsBacked
  /\ TasksBacked /\ TasksListed
  /\ NothingForgotten

-----------------------------------------------------------------------------
LEMMA ElementsAppend ==
  ASSUME NEW S, NEW s \in Seq(S), NEW x \in S
  PROVE  Append(s, x) \in Seq(S) /\ Elements(Append(s, x)) = Elements(s) \cup {x}
BY DEF Elements

LEMMA InitInv == Init => IInv
<1> SUFFICES ASSUME Init PROVE IInv
  OBVIOUS
<1>1. /\ store.keys \in Seq(Objects) /\ store.names = <<>>
      /\ store \in [status : {"absent", "torn", "mixed", "saved"}, keys : Seq(Objects), names : Seq(Names)]
  <2>1. CASE store = Nothing
    <3>1. <<>> \in Seq(Objects) /\ <<>> \in Seq(Names)
      OBVIOUS
    <3> QED
      BY <2>1, <3>1 DEF Nothing
  <2>2. CASE NumObjects # 0 /\ store = Legacy
    <3>1. 1 \in Objects
      BY <2>2 DEF Objects
    <3>2. <<1>> \in Seq(Objects) /\ <<>> \in Seq(Names)
      BY <3>1
    <3> QED
      BY <2>2, <3>2 DEF Legacy
  <2> QED
    BY <2>1, <2>2 DEF Init
<1>2. TypeOK
  <2>1. /\ setup \in Setups
        /\ phase \in [Runs -> {"none", "validated", "open"} \cup Over]
        /\ listed \in [Runs -> 0..NumObjects]
        /\ taken \in [Runs -> SUBSET Names] /\ known \in [Runs -> SUBSET Objects]
    BY DEF Init
  <2>2. dedupe \in [Runs -> BOOLEAN]
    BY DEF Init
  <2>3. state \in [Runs -> [keys : Seq(Objects), names : Seq(Names)]]
    BY DEF Init
  <2>4. archive \in [0..MaxRuns -> SUBSET Objects]
    BY <1>1 DEF Init, Elements
  <2>5. task \in [Runs -> [Objects -> {"none", "skipped", "appending", "encoded", "included",
                                       "failed"} \cup Saving]]
    BY DEF Init
  <2> QED
    BY <1>1, <2>1, <2>2, <2>3, <2>4, <2>5 DEF TypeOK
<1>3. Elements(<<>>) = {}
  BY DEF Elements
<1>4. KeysBacked
  <2>1. archive[0] = Elements(store.keys) /\ 0 \in 0..MaxRuns
    BY DEF Init
  <2>2. archive[0] \subseteq Archived
    BY <2>1 DEF Archived
  <2>3. \A r \in Runs : state[r].keys = <<>>
    BY DEF Init
  <2> QED
    BY <2>1, <2>2, <2>3, <1>3 DEF KeysBacked
<1>5. PathsBacked
  <2>1. \A r \in Runs : state[r].names = <<>> /\ taken[r] = {}
    BY DEF Init
  <2> QED
    BY <2>1, <1>1, <1>3 DEF PathsBacked, Backed
<1>6. TasksBacked /\ TasksListed /\ NothingForgotten
  BY DEF Init, TasksBacked, TasksListed, NothingForgotten, Saving
<1> QED
  BY <1>2, <1>4, <1>5, <1>6 DEF IInv

-----------------------------------------------------------------------------
(* Every step keeps the types. *)
LEMMA TypeStep == TypeOK /\ [Next]_vars => TypeOK'
<1> SUFFICES ASSUME TypeOK, [Next]_vars PROVE TypeOK'
  OBVIOUS
<1> DEFINE Tasks == {"none", "skipped", "appending", "encoded", "included", "failed"} \cup Saving
<1> USE DEF TypeOK, runVars
<1>1. ASSUME NEW r \in Runs, NEW o \in Objects, NEW p \in Tasks, SetTask(r, o, p)
      PROVE  task' \in [Runs -> [Objects -> Tasks]]
  BY <1>1 DEF SetTask
<1>2. ASSUME NEW r \in Runs, NEW p \in {"none", "validated", "open"} \cup Over, SetPhase(r, p)
      PROVE  phase' \in [Runs -> {"none", "validated", "open"} \cup Over]
  BY <1>2 DEF SetPhase
<1>3. ASSUME NEW r \in Runs
      PROVE  Saved(r) \in [status : {"absent", "torn", "mixed", "saved"}, keys : Seq(Objects), names : Seq(Names)]
  BY DEF Saved
<1>4. ASSUME NEW r \in Runs, NEW o \in Objects, Included(r, o)
      PROVE  task' \in [Runs -> [Objects -> Tasks]] /\ taken' \in [Runs -> SUBSET Names]
  BY <1>1, <1>4 DEF Included
<1>5. ASSUME NEW r \in Runs, Resume(r) \/ Reject(r) \/ Resolve(r) \/ Crash(r) PROVE TypeOK'
  <2>1. phase' \in [Runs -> {"none", "validated", "open"} \cup Over]
    BY <1>2, <1>5 DEF Resume, Reject, Resolve, Crash, Over
  <2> QED
    BY <2>1, <1>5 DEF Resume, Reject, Resolve, Crash
<1>6. ASSUME NEW r \in Runs, Open(r) PROVE TypeOK'
  <2>1. phase' \in [Runs -> {"none", "validated", "open"} \cup Over]
    BY <1>2, <1>6 DEF Open, Over
  <2>2. dedupe' \in [Runs -> BOOLEAN]
    BY <1>6 DEF Open, DedupeModes
  <2> DEFINE found == store.status = "saved"
             keys == IF found THEN store.keys ELSE <<>>
             names == IF found THEN store.names ELSE <<>>
  <2>3. keys \in Seq(Objects) /\ names \in Seq(Names)
    <3>1. <<>> \in Seq(Objects) /\ <<>> \in Seq(Names)
      OBVIOUS
    <3> QED
      BY <3>1
  <2>4. Elements(names) \subseteq Names
    <3> HIDE DEF names
    <3> QED
      BY <2>3 DEF Elements
  <2>5. Acknowledged \subseteq Objects
    BY DEF Acknowledged
  <2>6. /\ state' \in [Runs -> [keys : Seq(Objects), names : Seq(Names)]]
        /\ taken' \in [Runs -> SUBSET Names]
        /\ known' \in [Runs -> SUBSET Objects]
    <3>1. CASE UNCHANGED <<dedupe, state, taken, known>>
      BY <3>1
    <3>2. CASE \E d \in DedupeModes :
                 /\ state' = [state EXCEPT ![r] = [keys |-> keys, names |-> names]]
                 /\ taken' = [taken EXCEPT ![r] = IF d THEN Elements(names) ELSE {}]
                 /\ known' = [known EXCEPT ![r] = Acknowledged]
      <4> HIDE DEF keys, names
      <4> PICK d \in DedupeModes :
                 /\ state' = [state EXCEPT ![r] = [keys |-> keys, names |-> names]]
                 /\ taken' = [taken EXCEPT ![r] = IF d THEN Elements(names) ELSE {}]
                 /\ known' = [known EXCEPT ![r] = Acknowledged]
        BY <3>2
      <4>1. [keys |-> keys, names |-> names] \in [keys : Seq(Objects), names : Seq(Names)]
        BY <2>3
      <4>2. (IF d THEN Elements(names) ELSE {}) \subseteq Names
        BY <2>4
      <4> QED
        BY <4>1, <4>2, <2>5
    <3> QED
      BY <3>1, <3>2, <1>6 DEF Open
  <2> QED
    BY <2>1, <2>2, <2>6, <1>6 DEF Open
<1>7. ASSUME NEW r \in Runs, Begin(r) PROVE TypeOK'
  <2>1. listed' \in [Runs -> 0..NumObjects]
    BY <1>7 DEF Begin, Objects
  <2>2. task' \in [Runs -> [Objects -> Tasks]]
    BY <1>1, <1>7 DEF Begin
  <2> QED
    BY <2>1, <2>2, <1>7 DEF Begin
<1>8. ASSUME NEW r \in Runs, NEW o \in Objects, Encode(r, o) PROVE TypeOK'
  <2>1. archive' \in [0..MaxRuns -> SUBSET Objects]
    BY <1>8 DEF Encode, Runs
  <2> QED
    BY <2>1, <1>1, <1>8 DEF Encode
<1>9. ASSUME NEW r \in Runs, NEW o \in Objects, Record(r, o) PROVE TypeOK'
  <2>1. /\ Append(state[r].keys, o) \in Seq(Objects)
        /\ Append(state[r].names, Name[o]) \in Seq(Names)
    BY ElementsAppend
  <2>2. state' \in [Runs -> [keys : Seq(Objects), names : Seq(Names)]]
    BY <2>1, <1>9, ZenonT(30) DEF Record
  <2> QED
    BY <2>2, <1>1, <1>9 DEF Record, Saving
<1>10. ASSUME NEW r \in Runs, NEW o \in Objects, Fail(r, o) \/ SaveFails(r, o) PROVE TypeOK'
  <2>1. phase' \in [Runs -> {"none", "validated", "open"} \cup Over]
    BY <1>2, <1>10 DEF Fail, SaveFails, Over
  <2>2. task' \in [Runs -> [Objects -> Tasks]]
    BY <1>1, <1>10 DEF Fail, SaveFails
  <2> QED
    BY <2>1, <2>2, <1>10 DEF Fail, SaveFails
<1>11. ASSUME NEW r \in Runs, NEW o \in Objects, WriteFile(r, o) PROVE TypeOK'
  <2>1. [Saved(r) EXCEPT !.status = "mixed"]
          \in [status : {"absent", "torn", "mixed", "saved"}, keys : Seq(Objects), names : Seq(Names)]
    BY <1>3
  <2> QED BY <1>3, <1>4, <1>11, <2>1 DEF WriteFile
<1>12. ASSUME NEW r \in Runs, NEW o \in Objects, TruncateFile(r, o) PROVE TypeOK'
  BY <1>1, <1>12 DEF TruncateFile, Saving
<1>13. ASSUME NEW r \in Runs, NEW o \in Objects, SaveSql(r, o) \/ SetRedis(r, o) PROVE TypeOK'
  <2>1. task' \in [Runs -> [Objects -> Tasks]]
    BY <1>1, <1>13 DEF SaveSql, SetRedis, StoreState, Saving
  <2> QED
    BY <2>1, <1>3, <1>13 DEF SaveSql, SetRedis, StoreState
<1>14. ASSUME NEW r \in Runs, NEW o \in Objects, SaveReturns(r, o) PROVE TypeOK'
  BY <1>4, <1>14 DEF SaveReturns
<1>15. CASE UNCHANGED vars
  BY <1>15 DEF vars
<1> QED
  BY <1>5, <1>6, <1>7, <1>8, <1>9, <1>10, <1>11, <1>12, <1>13, <1>14, <1>15
     DEF Next, RunStep, ObjectStep

-----------------------------------------------------------------------------
(* What a step does to each variable of the invariant. *)

LEMMA ArchivedGrows == TypeOK /\ [Next]_vars => Archived \subseteq Archived'
<1> SUFFICES ASSUME TypeOK, [Next]_vars PROVE \A q \in 0..MaxRuns : archive[q] \subseteq archive'[q]
  BY DEF Archived
<1>1. ASSUME NEW r \in Runs, NEW o \in Objects, Encode(r, o)
      PROVE  \A q \in 0..MaxRuns : archive[q] \subseteq archive'[q]
  BY <1>1 DEF Encode, TypeOK, Runs
<1>2. ASSUME NEW r \in Runs, RunStep(r) PROVE archive' = archive
  BY <1>2 DEF RunStep, Resume, Open, Begin, Reject, Resolve, Crash
<1>3. ASSUME NEW r \in Runs, NEW o \in Objects, ObjectStep(r, o), ~ Encode(r, o)
      PROVE  archive' = archive
  BY <1>3 DEF ObjectStep, Fail, Record, SaveSql, StoreState, TruncateFile, WriteFile, SetRedis, SaveReturns,
              SaveFails
<1>4. CASE UNCHANGED vars
  BY <1>4 DEF vars
<1> QED
  BY <1>1, <1>2, <1>3, <1>4 DEF Next

LEMMA StoreEffect ==
  ASSUME TypeOK, [Next]_vars
  PROVE  \/ store'.keys = store.keys /\ store'.names = store.names
         \/ \E r \in Runs : store'.keys = state[r].keys /\ store'.names = state[r].names
<1>1. ASSUME NEW r \in Runs, RunStep(r) PROVE store' = store
  BY <1>1 DEF RunStep, Resume, Open, Begin, Reject, Resolve, Crash
<1>2. ASSUME NEW r \in Runs, NEW o \in Objects, ObjectStep(r, o)
      PROVE  store' \in {store, [store EXCEPT !.status = "torn"], Saved(r),
                         [Saved(r) EXCEPT !.status = "mixed"]}
  BY <1>2 DEF ObjectStep, Encode, Fail, Record, SaveSql, StoreState, TruncateFile, WriteFile, SetRedis,
              SaveReturns, SaveFails
<1>3. CASE store' \in {store, [store EXCEPT !.status = "torn"]}
  BY <1>3 DEF TypeOK
<1>4. ASSUME NEW r \in Runs, store' \in {Saved(r), [Saved(r) EXCEPT !.status = "mixed"]}
      PROVE  store'.keys = state[r].keys /\ store'.names = state[r].names
  BY <1>4 DEF Saved
<1>5. CASE UNCHANGED vars
  BY <1>5 DEF vars
<1> QED
  BY <1>1, <1>2, <1>3, <1>4, <1>5 DEF Next

LEMMA StateEffect ==
  ASSUME TypeOK, [Next]_vars, NEW q \in Runs
  PROVE  \/ state'[q] = state[q]
         \/ state'[q].keys = store.keys /\ state'[q].names = store.names
         \/ state'[q].keys = <<>> /\ state'[q].names = <<>>
         \/ \E o \in Objects :
              /\ task[q][o] = "encoded"
              /\ state'[q].keys = Append(state[q].keys, o)
              /\ state'[q].names = Append(state[q].names, Name[o])
<1> USE DEF TypeOK
<1>1. ASSUME NEW r \in Runs, Open(r)
      PROVE  \/ state'[q] = state[q]
             \/ state'[q].keys = store.keys /\ state'[q].names = store.names
             \/ state'[q].keys = <<>> /\ state'[q].names = <<>>
  BY <1>1 DEF Open
<1>2. ASSUME NEW r \in Runs, NEW o \in Objects, Record(r, o)
      PROVE  \/ state'[q] = state[q]
             \/ /\ task[q][o] = "encoded"
                /\ state'[q].keys = Append(state[q].keys, o)
                /\ state'[q].names = Append(state[q].names, Name[o])
  BY <1>2 DEF Record
<1>3. ASSUME NEW r \in Runs, RunStep(r), ~ Open(r) PROVE state' = state
  BY <1>3 DEF RunStep, Resume, Begin, Reject, Resolve, Crash
<1>4. ASSUME NEW r \in Runs, NEW o \in Objects, ObjectStep(r, o), ~ Record(r, o)
      PROVE  state' = state
  BY <1>4 DEF ObjectStep, Encode, Fail, SaveSql, StoreState, TruncateFile, WriteFile, SetRedis, SaveReturns,
              SaveFails, runVars
<1>5. CASE UNCHANGED vars
  BY <1>5 DEF vars, runVars
<1> QED
  BY <1>1, <1>2, <1>3, <1>4, <1>5 DEF Next

LEMMA TakenEffect ==
  ASSUME TypeOK, [Next]_vars, NEW q \in Runs
  PROVE  \/ taken'[q] \in {taken[q], Elements(store.names), {}}
         \/ \E o \in Objects : task[q][o] \in Saving /\ taken'[q] = taken[q] \cup {Name[o]}
<1> USE DEF TypeOK
<1>1. ASSUME NEW r \in Runs, Open(r)
      PROVE  taken'[q] \in {taken[q], Elements(store.names), {}}
  <2>1. CASE taken' = taken
    BY <2>1
  <2>2. CASE \E d \in DedupeModes :
               taken' = [taken EXCEPT ![r] = IF d THEN Elements(IF store.status = "saved" THEN store.names ELSE <<>>) ELSE {}]
    <3>1. Elements(<<>>) = {}
      BY DEF Elements
    <3>2. Elements(IF store.status = "saved" THEN store.names ELSE <<>>) \in {Elements(store.names), {}}
      BY <3>1
    <3> QED
      BY <2>2, <3>2
  <2> QED
    BY <1>1, <2>1, <2>2 DEF Open
<1>2. ASSUME NEW r \in Runs, NEW o \in Objects, task[r][o] \in Saving, Included(r, o)
      PROVE  taken'[q] = taken[q] \/ (task[q][o] \in Saving /\ taken'[q] = taken[q] \cup {Name[o]})
  BY <1>2 DEF Included
<1>3. ASSUME NEW r \in Runs, RunStep(r), ~ Open(r) PROVE taken' = taken
  BY <1>3 DEF RunStep, Resume, Begin, Reject, Resolve, Crash
<1>4. ASSUME NEW r \in Runs, NEW o \in Objects, ObjectStep(r, o)
      PROVE  taken' = taken \/ (task[r][o] \in Saving /\ Included(r, o))
  BY <1>4 DEF ObjectStep, Encode, Fail, Record, SaveSql, StoreState, TruncateFile, WriteFile, SetRedis,
              SaveReturns, SaveFails, runVars, Saving
<1>5. CASE UNCHANGED vars
  BY <1>5 DEF vars, runVars
<1> QED
  BY <1>1, <1>2, <1>3, <1>4, <1>5 DEF Next

(* A run changes its dedupe mode only by opening. *)
LEMMA DedupeEffect ==
  ASSUME TypeOK, [Next]_vars, NEW q \in Runs
  PROVE  dedupe'[q] = dedupe[q] \/ (phase[q] \in {"none", "validated"} /\ task' = task)
<1>1. ASSUME NEW r \in Runs, Open(r)
      PROVE  dedupe'[q] = dedupe[q] \/ (phase[q] \in {"none", "validated"} /\ task' = task)
  BY <1>1 DEF Open, TypeOK
<1>2. ASSUME NEW r \in Runs, RunStep(r), ~ Open(r) PROVE dedupe' = dedupe
  BY <1>2 DEF RunStep, Resume, Begin, Reject, Resolve, Crash
<1>3. ASSUME NEW r \in Runs, NEW o \in Objects, ObjectStep(r, o) PROVE dedupe' = dedupe
  BY <1>3 DEF ObjectStep, Encode, Fail, Record, SaveSql, StoreState, TruncateFile, WriteFile, SetRedis,
              SaveReturns, SaveFails, runVars
<1>4. CASE UNCHANGED vars
  BY <1>4 DEF vars, runVars
<1> QED
  BY <1>1, <1>2, <1>3, <1>4 DEF Next

(* An object reaches the archive before its task says so; a task is        *)
(* skipped for a completed key or, deduping, a taken path.                 *)
LEMMA TaskEffect ==
  ASSUME TypeOK, [Next]_vars, NEW q \in Runs, NEW x \in Objects
  PROVE  /\ task'[q][x] \in {"encoded", "included"} \cup Saving =>
              \/ task[q][x] \in {"encoded"} \cup Saving \cup {task'[q][x]}
              \/ x \in Archived'
         /\ task'[q][x] = "skipped" =>
              \/ task[q][x] = "skipped"
              \/ x \in Elements(state[q].keys) /\ dedupe' = dedupe
              \/ dedupe[q] /\ Name[x] \in taken[q] /\ dedupe' = dedupe
<1> USE DEF TypeOK
<1>1. ASSUME NEW r \in Runs, NEW o \in Objects, Encode(r, o) PROVE o \in Archived'
  <2>1. r \in 0..MaxRuns /\ o \in archive'[r]
    BY <1>1 DEF Encode, Runs
  <2> QED
    BY <2>1 DEF Archived
<1>2. ASSUME NEW r \in Runs, NEW o \in Objects, NEW p, SetTask(r, o, p)
      PROVE  task'[q][x] = IF q = r /\ x = o THEN p ELSE task[q][x]
  BY <1>2 DEF SetTask
<1>3. ASSUME NEW r \in Runs, Begin(r)
      PROVE  /\ task'[q][x] \in {task[q][x], "appending", "skipped"}
             /\ task'[q][x] = "skipped" =>
                  \/ task[q][x] = "skipped"
                  \/ x \in Elements(state[q].keys) /\ dedupe' = dedupe
                  \/ dedupe[q] /\ Name[x] \in taken[q] /\ dedupe' = dedupe
  BY <1>2, <1>3 DEF Begin
<1>4. ASSUME NEW r \in Runs, RunStep(r), ~ Begin(r) PROVE task' = task
  BY <1>4 DEF RunStep, Resume, Open, Reject, Resolve, Crash
<1>5. ASSUME NEW r \in Runs, NEW o \in Objects, ObjectStep(r, o)
      PROVE  \/ Encode(r, o) /\ SetTask(r, o, "encoded")
             \/ SetTask(r, o, "failed")
             \/ \E p \in {"included"} \cup Saving :
                  task[r][o] \in {"encoded"} \cup Saving /\ SetTask(r, o, p)
  BY <1>5 DEF ObjectStep, Encode, Fail, Record, SaveSql, StoreState, TruncateFile, WriteFile, SetRedis,
              SaveReturns, SaveFails, Included, Saving
<1>6. ASSUME NEW r \in Runs, NEW o \in Objects, ObjectStep(r, o)
      PROVE  /\ task'[q][x] \in {"encoded", "included"} \cup Saving =>
                  \/ task[q][x] \in {"encoded"} \cup Saving \cup {task'[q][x]}
                  \/ x \in Archived'
             /\ task'[q][x] = "skipped" => task[q][x] = "skipped"
  <2>0. PICK p \in {"encoded", "failed", "included"} \cup Saving :
          /\ SetTask(r, o, p)
          /\ p = "encoded" => o \in Archived'
          /\ p \in {"included"} \cup Saving => task[r][o] \in {"encoded"} \cup Saving
    <3>1. CASE Encode(r, o) /\ SetTask(r, o, "encoded")
      BY <3>1, <1>1 DEF Saving
    <3>2. CASE SetTask(r, o, "failed")
      BY <3>2 DEF Saving
    <3>3. ASSUME NEW p \in {"included"} \cup Saving,
                 task[r][o] \in {"encoded"} \cup Saving, SetTask(r, o, p)
          PROVE  p # "encoded"
      BY DEF Saving
    <3> QED
      BY <3>1, <3>2, <3>3, <1>5, <1>6
  <2>1. task'[q][x] = IF q = r /\ x = o THEN p ELSE task[q][x]
    BY <2>0, <1>2
  <2>2. CASE q = r /\ x = o
    BY <2>0, <2>1, <2>2 DEF Saving
  <2>3. CASE ~ (q = r /\ x = o)
    BY <2>1, <2>3 DEF Saving
  <2> QED
    BY <2>2, <2>3
<1>7. CASE UNCHANGED vars
  BY <1>7 DEF vars
<1> QED
  BY <1>3, <1>4, <1>6, <1>7 DEF Next, Saving

-----------------------------------------------------------------------------
(* Every step keeps each part of the invariant. *)

LEMMA KeysStep ==
  ASSUME TypeOK, TypeOK', KeysBacked, TasksBacked, [Next]_vars
  PROVE  KeysBacked'
<1>1. Archived \subseteq Archived'
  BY ArchivedGrows
<1>2. Elements(store'.keys) \subseteq Archived
  BY StoreEffect DEF KeysBacked
<1>3. ASSUME NEW q \in Runs PROVE Elements(state'[q].keys) \subseteq Archived
  <2>1. Elements(<<>>) = {}
    BY DEF Elements
  <2>2. ASSUME NEW o \in Objects, task[q][o] = "encoded"
        PROVE  Elements(Append(state[q].keys, o)) \subseteq Archived
    <3>1. state[q].keys \in Seq(Objects) /\ o \in Archived
      BY <2>2 DEF TypeOK, TasksBacked
    <3> QED
      BY <3>1, ElementsAppend DEF KeysBacked
  <2> QED
    BY <2>1, <2>2, StateEffect DEF KeysBacked
<1> QED
  BY <1>1, <1>2, <1>3 DEF KeysBacked, Elements

LEMMA PathsStep ==
  ASSUME TypeOK, TypeOK', PathsBacked, TasksBacked, [Next]_vars
  PROVE  PathsBacked'
<1>1. Archived \subseteq Archived'
  BY ArchivedGrows
<1>2. ASSUME NEW names, Backed(names)
      PROVE  \A n \in names : \E x \in Archived' : Name[x] = n
  BY <1>1, <1>2 DEF Backed
<1>3. Backed(Elements(store'.names))
  BY StoreEffect DEF PathsBacked
<1>4. Backed({}) /\ Elements(<<>>) = {}
  BY DEF Elements, Backed
<1>5. ASSUME NEW o \in Archived, NEW names, Backed(names) PROVE Backed(names \cup {Name[o]})
  BY <1>5 DEF Backed
<1>6. ASSUME NEW q \in Runs PROVE Backed(Elements(state'[q].names))
  <2>1. ASSUME NEW o \in Objects, task[q][o] = "encoded"
        PROVE  Backed(Elements(Append(state[q].names, Name[o])))
    <3>1. state[q].names \in Seq(Names) /\ o \in Archived /\ Name[o] \in Names
      BY <2>1 DEF TypeOK, TasksBacked
    <3>2. Elements(Append(state[q].names, Name[o])) = Elements(state[q].names) \cup {Name[o]}
      BY <3>1, ElementsAppend
    <3> QED
      BY <3>1, <3>2, <1>5 DEF PathsBacked
  <2> QED
    BY <2>1, <1>4, StateEffect DEF PathsBacked
<1>7. ASSUME NEW q \in Runs PROVE Backed(taken'[q])
  <2>1. ASSUME NEW o \in Objects, task[q][o] \in Saving PROVE Backed(taken[q] \cup {Name[o]})
    <3>1. o \in Archived
      BY <2>1 DEF TasksBacked
    <3> QED
      BY <3>1, <1>5 DEF PathsBacked
  <2>2. CASE taken'[q] \in {taken[q], Elements(store.names), {}}
    BY <2>2, <1>4 DEF PathsBacked
  <2>3. CASE \E o \in Objects : task[q][o] \in Saving /\ taken'[q] = taken[q] \cup {Name[o]}
    BY <2>1, <2>3
  <2> QED
    BY <2>2, <2>3, TakenEffect
<1> QED
  BY <1>2, <1>3, <1>6, <1>7 DEF PathsBacked, Backed, Elements

LEMMA TasksStep ==
  ASSUME TypeOK, TypeOK', KeysBacked, PathsBacked, TasksBacked, TasksListed, [Next]_vars
  PROVE  TasksBacked'
<1>1. Archived \subseteq Archived'
  BY ArchivedGrows
<1>2. ASSUME NEW q \in Runs, NEW x \in Objects, task'[q][x] \in {"encoded", "included"} \cup Saving
      PROVE  x \in Archived'
  <2>1. task[q][x] \in {"encoded", "included"} \cup Saving => x \in Archived
    BY DEF TasksBacked
  <2> QED
    BY <1>1, <1>2, <2>1, TaskEffect
<1>3. ASSUME NEW q \in Runs, NEW x \in Objects, task'[q][x] = "skipped"
      PROVE  \E y \in Archived' : y = x \/ (dedupe'[q] /\ Name[y] = Name[x])
  <2>1. CASE task[q][x] = "skipped"
    <3>1. dedupe'[q] = dedupe[q]
      BY <2>1, DedupeEffect DEF TasksListed
    <3>2. Covered(q, x)
      BY <2>1 DEF TasksBacked
    <3> QED
      BY <1>1, <3>1, <3>2 DEF Covered
  <2>2. CASE x \in Elements(state[q].keys)
    BY <1>1, <2>2 DEF KeysBacked
  <2>3. CASE dedupe[q] /\ Name[x] \in taken[q] /\ dedupe' = dedupe
    BY <1>1, <2>3 DEF PathsBacked, Backed
  <2> QED
    BY <1>3, <2>1, <2>2, <2>3, TaskEffect
<1> QED
  BY <1>2, <1>3 DEF TasksBacked, Covered

LEMMA ListedStep ==
  ASSUME TypeOK, TasksListed, [Next]_vars
  PROVE  TasksListed'
<1> DEFINE Untouched(q) == phase[q] \in {"none", "validated"} =>
                             listed[q] = 0 /\ \A o \in Objects : task[q][o] = "none"
           Somewhere(q) == phase[q] = "open" =>
                             \A o \in 1..listed[q] : task[q][o] \notin {"none", "failed"}
<1> USE DEF TypeOK, runVars
<1> SUFFICES ASSUME NEW q \in Runs PROVE Untouched(q)' /\ Somewhere(q)'
  BY DEF TasksListed
<1>0. Untouched(q) /\ Somewhere(q)
  BY DEF TasksListed
<1>1. ASSUME NEW r \in Runs, Resume(r) \/ Reject(r) \/ Resolve(r) \/ Crash(r)
      PROVE  Untouched(q)' /\ Somewhere(q)'
  BY <1>0, <1>1 DEF Resume, Reject, Resolve, Crash, Alive, SetPhase
<1>2. ASSUME NEW r \in Runs, Open(r) PROVE Untouched(q)' /\ Somewhere(q)'
  <2>1. /\ phase[r] \in {"none", "validated"}
        /\ phase' = [phase EXCEPT ![r] = "refused"] \/ phase' = [phase EXCEPT ![r] = "open"]
        /\ listed' = listed /\ task' = task
    BY <1>2 DEF Open, SetPhase
  <2>2. q = r => listed[q] = 0
    BY <1>0, <2>1
  <2> QED
    BY <1>0, <2>1, <2>2
<1>3. ASSUME NEW r \in Runs, Begin(r) PROVE Untouched(q)' /\ Somewhere(q)'
  <2> DEFINE b == listed[r] + 1
  <2>1. PICK p \in {"skipped", "appending"} : task' = [task EXCEPT ![r][b] = p]
    BY <1>3 DEF Begin, SetTask
  <2>2. /\ phase[r] = "open" /\ phase' = phase
        /\ b \in Objects /\ listed' = [listed EXCEPT ![r] = b]
    BY <1>3 DEF Begin
  <2>3. CASE q = r
    <3>1. ASSUME NEW o \in 1..b PROVE o \in Objects /\ (o = b \/ o \in 1..listed[q])
      BY <2>2, <2>3 DEF Objects
    <3> QED
      BY <1>0, <2>1, <2>2, <2>3, <3>1
  <2>4. CASE q # r
    BY <1>0, <2>1, <2>2, <2>4
  <2> QED
    BY <2>3, <2>4
<1>4. ASSUME NEW r \in Runs, NEW o \in Objects, Fail(r, o) \/ SaveFails(r, o)
      PROVE  Untouched(q)' /\ Somewhere(q)'
  <2>1. /\ phase' = [phase EXCEPT ![r] = "rejected"] /\ listed' = listed
        /\ task' = [task EXCEPT ![r][o] = "failed"]
    BY <1>4 DEF Fail, SaveFails, SetTask, SetPhase
  <2> QED
    BY <1>0, <2>1
<1>5. ASSUME NEW r \in Runs, NEW o \in Objects, ObjectStep(r, o), ~ Fail(r, o), ~ SaveFails(r, o)
      PROVE  Untouched(q)' /\ Somewhere(q)'
  <2>1. /\ Alive(r) /\ phase' = phase /\ listed' = listed
        /\ \E p \in {"encoded", "included"} \cup Saving : task' = [task EXCEPT ![r][o] = p]
    BY <1>5 DEF ObjectStep, Encode, Record, SaveSql, StoreState, TruncateFile, WriteFile, SetRedis,
                SaveReturns, Included, SetTask, Saving
  <2>2. PICK p \in {"encoded", "included"} \cup Saving : task' = [task EXCEPT ![r][o] = p]
    BY <2>1
  <2>3. p \notin {"none", "failed"}
    BY DEF Saving
  <2>4. phase[r] \notin {"none", "validated"}
    BY <2>1 DEF Alive
  <2> QED
    BY <1>0, <2>1, <2>2, <2>3, <2>4 DEF Objects
<1>6. CASE UNCHANGED vars
  BY <1>0, <1>6 DEF vars
<1> QED
  BY <1>1, <1>2, <1>3, <1>4, <1>5, <1>6 DEF Next, RunStep

LEMMA ForgottenStep ==
  ASSUME TypeOK, TypeOK', TasksBacked, TasksListed, NothingForgotten, [Next]_vars
  PROVE  NothingForgotten'
<1>1. Archived \subseteq Archived'
  BY ArchivedGrows
<1>2. ASSUME NEW q \in Runs, phase'[q] = "resolved"
      PROVE  phase[q] = "resolved" \/ Resolve(q)
  <2>1. ASSUME NEW r \in Runs, RunStep(r), ~ Resolve(r)
        PROVE  \E p \in {phase[r], "validated", "refused", "open", "rejected", "dead"} :
                 phase' = [phase EXCEPT ![r] = p]
    BY <2>1 DEF RunStep, Resume, Open, Begin, Reject, Crash, SetPhase, TypeOK
  <2>2. ASSUME NEW r \in Runs, NEW o \in Objects, ObjectStep(r, o)
        PROVE  phase' = phase \/ phase' = [phase EXCEPT ![r] = "rejected"]
    BY <2>2 DEF ObjectStep, Encode, Fail, Record, SaveSql, StoreState, TruncateFile, WriteFile, SetRedis,
                SaveReturns, SaveFails, SetPhase, runVars
  <2>3. ASSUME NEW r \in Runs, Resolve(r) PROVE r = q \/ phase'[q] = phase[q]
    BY <2>3 DEF Resolve, SetPhase, TypeOK
  <2>4. CASE UNCHANGED vars
    BY <1>2, <2>4 DEF vars, runVars
  <2>5. ASSUME NEW r \in Runs, NEW p, p # "resolved" \/ p = phase[r],
               phase' = [phase EXCEPT ![r] = p]
        PROVE  phase[q] = "resolved"
    BY <1>2, <2>5 DEF TypeOK
  <2>6. ASSUME NEW r \in Runs, RunStep(r) PROVE phase[q] = "resolved" \/ Resolve(q)
    <3>1. CASE Resolve(r)
      BY <1>2, <2>3, <3>1
    <3>2. CASE ~ Resolve(r)
      BY <2>1, <2>5, <2>6, <3>2
    <3> QED
      BY <3>1, <3>2
  <2>7. ASSUME NEW r \in Runs, NEW o \in Objects, ObjectStep(r, o)
        PROVE  phase[q] = "resolved"
    BY <1>2, <2>2, <2>5, <2>7
  <2> QED
    BY <2>4, <2>6, <2>7 DEF Next
<1>3. ASSUME NEW q \in Runs, phase[q] = "resolved", NEW o \in Objects
      PROVE  \E x \in Archived' : x = o \/ (dedupe'[q] /\ Name[x] = Name[o])
  <2>1. dedupe'[q] = dedupe[q]
    BY <1>3, DedupeEffect
  <2> QED
    BY <1>1, <1>3, <2>1 DEF NothingForgotten
<1>4. ASSUME NEW q \in Runs, Resolve(q), NEW o \in Objects
      PROVE  \E x \in Archived' : x = o \/ (dedupe'[q] /\ Name[x] = Name[o])
  <2>1. task[q][o] \notin {"none", "failed"}
    BY <1>4 DEF Resolve, TasksListed, Objects
  <2>2. task[q][o] \notin {"appending", "encoded"} \cup Saving
    BY <1>4 DEF Resolve, InFlight, At
  <2>3. task[q][o] \in {"included", "skipped"}
    BY <2>1, <2>2 DEF TypeOK
  <2>4. Covered(q, o)
    BY <2>3 DEF TasksBacked, Covered
  <2>5. dedupe' = dedupe
    BY <1>4 DEF Resolve
  <2> QED
    BY <1>1, <2>4, <2>5 DEF Covered
<1> QED
  BY <1>2, <1>3, <1>4 DEF NothingForgotten

-----------------------------------------------------------------------------
(* The invariant holds in every reachable state. *)
LEMMA Invariance == Spec => []IInv
<1>1. IInv /\ [Next]_vars => IInv'
  <2> SUFFICES ASSUME IInv, [Next]_vars PROVE IInv'
    OBVIOUS
  <2>1. TypeOK'
    BY TypeStep DEF IInv
  <2>2. KeysBacked' /\ PathsBacked' /\ TasksBacked'
    BY <2>1, KeysStep, PathsStep, TasksStep DEF IInv
  <2>3. TasksListed' /\ NothingForgotten'
    BY <2>1, ListedStep, ForgottenStep DEF IInv
  <2> QED
    BY <2>1, <2>2, <2>3 DEF IInv
<1> QED
  BY <1>1, InitInv, PTL DEF Spec

(* Every variable of a job keeps to its type, over all its runs. *)
THEOREM JobTypes == Spec => []TypeOK
<1>1. IInv => TypeOK
  BY DEF IInv
<1> QED
  BY <1>1, Invariance, PTL

(* Whatever happens to the runs, with any of the stores, a key that a      *)
(* later run will skip names an object some run has archived.              *)
THEOREM CheckpointIsBacked == Spec => []StoreNeverAhead
<1>1. IInv => StoreNeverAhead
  BY DEF IInv, KeysBacked, StoreNeverAhead
<1> QED
  BY <1>1, Invariance, PTL

(* The run that resolves leaves no listed object out: each is in an        *)
(* archive of the job or, with dedupe, has its entry path there.           *)
THEOREM ResolvedJobIsComplete == Spec => []NothingForgotten
<1>1. IInv => NothingForgotten
  BY DEF IInv
<1> QED
  BY <1>1, Invariance, PTL

-----------------------------------------------------------------------------
(* Jobs that archive one object at a time, with a store that saves whole.  *)
Sequential == setup.concurrency = 1 /\ WholeSaves

(* Entry paths are those of the keys, unless an earlier version left keys  *)
(* without paths.                                                          *)
Aligned(keys, names) ==
  Len(names) = Len(keys) => \A i \in 1..Len(keys) : names[i] = Name[keys[i]]

RunsInOrder == \A r, q \in Runs : q < r /\ phase[r] # "none" => phase[q] \in Over

(* Runs follow one another, and a rejected one leaves nothing in flight.   *)
OneAtATime ==
  /\ \A r \in Runs : \A o \in Objects : o \in InFlight(r) => phase[r] \in {"open", "dead"}
  /\ \A r \in Runs : \A x, y \in Objects : x \in InFlight(r) /\ y \in InFlight(r) => x = y
  /\ RunsInOrder

(* What is acknowledged stays saved. *)
StoreKeeps ==
  /\ store.status \notin {"torn", "mixed"}
  /\ store.status = "absent" => store.keys = <<>>
  /\ Aligned(store.keys, store.names)
  /\ \A r \in Runs : \A o \in Objects :
       task[r][o] \in {"included", "stored"} => o \in Elements(store.keys)

(* A run in memory is at least what is saved, and knows what was.          *)
StateOf(r) ==
  /\ Aligned(state[r].keys, state[r].names)
  /\ phase[r] = "open" => Elements(store.keys) \subseteq Elements(state[r].keys)
  /\ \A o \in Objects : task[r][o] \in Saving => o \in Elements(state[r].keys)
  /\ known[r] \subseteq Elements(state[r].keys)
  /\ dedupe[r] => \A y \in known[r] : Name[y] \in taken[r]

StateKeeps == \A r \in Runs : StateOf(r)

(* What a run appends is new to it. *)
TaskOf(r, o) ==
  /\ o > listed[r] => task[r][o] = "none"
  /\ o \in archive[r] => task[r][o] \in {"encoded", "included", "failed", "saving", "stored"}
  /\ task[r][o] # "writing"
  /\ task[r][o] = "failed" => phase[r] \in {"rejected", "dead"}
  /\ task[r][o] = "included" => Name[o] \in taken[r]
  /\ task[r][o] = "appending" =>
       /\ o \notin Elements(state[r].keys)
       /\ dedupe[r] => Name[o] \notin taken[r]

TasksKeep == \A r \in Runs : \A o \in Objects : TaskOf(r, o)

(* What is to be shown. *)
NewOf(r) ==
  /\ dedupe[r] => \A x, y \in archive[r] : Name[x] = Name[y] => x = y
  /\ dedupe[r] => \A x \in archive[r], y \in known[r] : Name[x] # Name[y]
  /\ archive[r] \cap known[r] = {}

ArchivesNew == \A r \in Runs : NewOf(r)

SeqInv == OneAtATime /\ StoreKeeps /\ StateKeeps /\ TasksKeep /\ ArchivesNew

LEMMA SeqInit == Init /\ Sequential => SeqInv
<1> SUFFICES ASSUME Init PROVE SeqInv
  OBVIOUS
<1>1. /\ store.status \notin {"torn", "mixed"} /\ store.names = <<>>
      /\ store.keys = <<>> \/ (store.status = "saved" /\ store.keys = <<1>>)
  BY DEF Init, Nothing, Legacy
<1>2. OneAtATime
  BY DEF Init, OneAtATime, RunsInOrder, InFlight, At, Saving
<1>3. StoreKeeps
  BY <1>1 DEF Init, StoreKeeps, Aligned
<1>4. StateKeeps
  <2>1. \A r \in Runs : /\ state[r].keys = <<>> /\ state[r].names = <<>>
                        /\ phase[r] = "none" /\ known[r] = {} /\ dedupe[r] = FALSE
                        /\ \A o \in Objects : task[r][o] = "none"
    BY DEF Init
  <2> QED BY <2>1 DEF StateKeeps, StateOf, Aligned, Saving
<1>5. TasksKeep /\ ArchivesNew
  <2>1. \A r \in Runs : archive[r] = {} /\ dedupe[r] = FALSE
    BY DEF Init, Runs
  <2> QED BY <2>1 DEF Init, TasksKeep, TaskOf, ArchivesNew, NewOf
<1> QED BY <1>2, <1>3, <1>4, <1>5 DEF SeqInv

(* With one object in flight, the run that acts is the only one open. *)
LEMMA Alone ==
  ASSUME TypeOK, OneAtATime, NEW r \in Runs, NEW o \in Objects,
         Alive(r), o \in InFlight(r)
  PROVE  /\ phase[r] = "open"
         /\ \A x \in Objects : x \in InFlight(r) => x = o
         /\ \A q \in Runs : q # r => phase[q] # "open" /\ \A x \in Objects : q > r => phase[q] = "none"
<1>1. phase[r] = "open"
  BY DEF OneAtATime, Alive
<1>2. \A q \in Runs : q > r => phase[q] = "none"
  BY <1>1 DEF OneAtATime, RunsInOrder, Over
<1>3. \A q \in Runs : q < r => phase[q] # "open"
  BY <1>1 DEF OneAtATime, RunsInOrder, Over
<1> QED BY <1>1, <1>2, <1>3 DEF OneAtATime, Runs

LEMMA OrderStep ==
  ASSUME TypeOK, RunsInOrder, NEW r \in Runs, NEW p, p # "none",
         phase' = [phase EXCEPT ![r] = p],
         IsNext(r) \/ phase[r] # "none",
         p \in Over \/ phase[r] \notin Over
  PROVE  RunsInOrder'
<1> SUFFICES ASSUME NEW q1 \in Runs, NEW q2 \in Runs, q2 < q1, phase'[q1] # "none"
             PROVE  phase'[q2] \in Over
  BY DEF RunsInOrder, Over
<1>1. CASE q1 = r
  <2>1. phase'[q2] = phase[q2] /\ q2 \in 1..(r - 1)
    BY <1>1 DEF TypeOK, Runs
  <2> QED BY <1>1, <2>1 DEF RunsInOrder, IsNext
<1>2. CASE q1 # r
  BY <1>2 DEF RunsInOrder, TypeOK
<1> QED BY <1>1, <1>2

(* Room for one object means that none is in flight. *)
LEMMA Room ==
  ASSUME Sequential, NEW r \in Runs, Cardinality(InFlight(r)) < setup.concurrency
  PROVE  InFlight(r) = {}
<1>1. IsFiniteSet(InFlight(r))
  <2>1. IsFiniteSet(Objects)
    BY FS_Interval DEF Objects
  <2> QED BY <2>1, FS_Subset DEF InFlight, At
<1>2. Cardinality(InFlight(r)) \in Nat
  BY <1>1, FS_CardinalityType
<1>3. Cardinality(InFlight(r)) = 0
  BY <1>2 DEF Sequential
<1> QED BY <1>1, <1>3, FS_EmptySet

(* A run that only changes its phase. *)
LEMMA PhaseSeq ==
  ASSUME TypeOK, Sequential, SeqInv, NEW r \in Runs,
         Resume(r) \/ Reject(r) \/ Resolve(r) \/ Crash(r)
  PROVE  SeqInv'
<1> USE DEF TypeOK
<1>1. /\ UNCHANGED <<setup, store, dedupe, listed, state, taken, known, task, archive>>
      /\ \A q \in Runs : q # r => phase'[q] = phase[q]
      /\ \/ phase[r] = "none" /\ IsNext(r) /\ phase'[r] \in {"validated", "refused"}
         \/ phase[r] = "open" /\ InFlight(r) = {} /\ phase'[r] \in {"rejected", "resolved"}
         \/ Alive(r) /\ phase'[r] = "dead"
  BY Room DEF Resume, Reject, Resolve, Crash, SetPhase
<1>2. \A q \in Runs : InFlight(q)' = InFlight(q)
  BY <1>1 DEF InFlight, At
<1>3. OneAtATime'
  <2>1. \A q \in Runs : \A o \in Objects : o \in InFlight(q) => phase'[q] \in {"open", "dead"}
    BY <1>1 DEF SeqInv, OneAtATime, InFlight, At, Saving
  <2>2. RunsInOrder'
    <3>1. phase' = [phase EXCEPT ![r] = phase'[r]] /\ phase'[r] # "none"
      BY DEF Resume, Reject, Resolve, Crash, SetPhase
    <3>2. phase'[r] \in Over \/ phase[r] \notin Over
      BY <1>1 DEF Over
    <3>3. IsNext(r) \/ phase[r] # "none"
      BY <1>1 DEF Alive
    <3> QED BY <3>1, <3>2, <3>3, OrderStep DEF SeqInv, OneAtATime
  <2> QED BY <1>2, <2>1, <2>2 DEF SeqInv, OneAtATime
<1>4. StoreKeeps'
  BY <1>1 DEF SeqInv, StoreKeeps, Aligned, Elements
<1>5. ASSUME NEW q \in Runs PROVE StateOf(q)'
  <2>1. phase'[q] = "open" => phase[q] = "open"
    BY <1>1
  <2>2. StateOf(q)
    BY DEF SeqInv, StateKeeps
  <2> QED BY <1>1, <2>1, <2>2 DEF StateOf
<1>6. ASSUME NEW q \in Runs, NEW o \in Objects PROVE TaskOf(q, o)'
  <2>1. TaskOf(q, o)
    BY DEF SeqInv, TasksKeep
  <2>2. task[q][o] = "failed" => phase'[q] \in {"rejected", "dead"}
    BY <1>1, <2>1 DEF TaskOf, Alive
  <2> QED BY <1>1, <2>1, <2>2 DEF TaskOf, Elements
<1>7. ArchivesNew'
  BY <1>1 DEF SeqInv, ArchivesNew, NewOf
<1> QED BY <1>3, <1>4, <1>5, <1>6, <1>7 DEF SeqInv, StateKeeps, TasksKeep

(* A run opens on what is saved. *)
LEMMA OpenSeq ==
  ASSUME TypeOK, TasksListed, Sequential, SeqInv, NEW r \in Runs, Open(r)
  PROVE  SeqInv'
<1> USE DEF TypeOK
<1> DEFINE found == store.status = "saved"
           keys == IF found THEN store.keys ELSE <<>>
           names == IF found THEN store.names ELSE <<>>
<1>1. /\ UNCHANGED <<setup, store, listed, task, archive>>
      /\ phase[r] \in {"none", "validated"} /\ (phase[r] = "validated" \/ IsNext(r))
      /\ \/ phase' = [phase EXCEPT ![r] = "refused"] /\ UNCHANGED <<dedupe, state, taken, known>>
         \/ /\ phase' = [phase EXCEPT ![r] = "open"]
            /\ \E d \in BOOLEAN :
                 /\ ~ (d /\ keys # <<>> /\ Len(names) # Len(keys))
                 /\ dedupe' = [dedupe EXCEPT ![r] = d]
                 /\ state' = [state EXCEPT ![r] = [keys |-> keys, names |-> names]]
                 /\ taken' = [taken EXCEPT ![r] = IF d THEN Elements(names) ELSE {}]
                 /\ known' = [known EXCEPT ![r] = Acknowledged]
  BY DEF Open, SetPhase, DedupeModes
<1>2. /\ listed[r] = 0 /\ \A o \in Objects : task[r][o] = "none"
      /\ archive[r] = {}
  <2>1. listed[r] = 0 /\ \A o \in Objects : task[r][o] = "none"
    BY <1>1 DEF TasksListed
  <2>2. archive[r] \subseteq Objects
    BY DEF Runs
  <2>3. \A o \in archive[r] : task[r][o] # "none"
    BY <2>2 DEF SeqInv, TasksKeep, TaskOf
  <2> QED BY <2>1, <2>2, <2>3
<1>3. /\ Elements(keys) = Elements(store.keys)
      /\ Aligned(keys, names)
      /\ Acknowledged \subseteq Elements(keys)
  <2>1. keys = store.keys
    BY DEF SeqInv, StoreKeeps
  <2>2. Aligned(keys, names)
    BY DEF SeqInv, StoreKeeps, Aligned
  <2>3. Acknowledged \subseteq Elements(store.keys)
    BY DEF SeqInv, StoreKeeps, Acknowledged
  <2> QED BY <2>1, <2>2, <2>3
<1>4. keys \in Seq(Objects) /\ names \in Seq(Names)
  <2>1. <<>> \in Seq(Objects) /\ <<>> \in Seq(Names)
    OBVIOUS
  <2> QED BY <2>1
<1> HIDE DEF keys, names
<1>5. ASSUME keys = <<>> \/ Len(names) = Len(keys), NEW y \in Acknowledged
      PROVE  Name[y] \in Elements(names)
  <2>1. PICK i \in 1..Len(keys) : y = keys[i]
    BY <1>3 DEF Elements
  <2>2. Len(names) = Len(keys)
    BY <1>5, <1>4, <2>1
  <2>3. names[i] = Name[y]
    BY <1>3, <2>1, <2>2 DEF Aligned
  <2> QED BY <1>4, <2>1, <2>2, <2>3 DEF Elements
<1>6. OneAtATime'
  <2>1. \A q \in Runs : q # r => phase'[q] = phase[q]
    BY <1>1
  <2>2. \A q \in Runs : InFlight(q)' = InFlight(q)
    BY <1>1 DEF InFlight, At
  <2>3. RunsInOrder'
    <3>1. PICK p \in {"open", "refused"} : phase' = [phase EXCEPT ![r] = p]
      BY <1>1
    <3>2. p # "none" /\ phase[r] \notin Over /\ (IsNext(r) \/ phase[r] # "none")
      BY <1>1 DEF Over
    <3> QED BY <3>1, <3>2, OrderStep DEF SeqInv, OneAtATime
  <2>4. \A o \in Objects : o \notin InFlight(r)
    BY <1>2 DEF InFlight, At, Saving
  <2>5. ASSUME NEW q \in Runs, NEW o \in Objects, o \in InFlight(q)'
        PROVE  phase'[q] \in {"open", "dead"}
    <3>1. o \in InFlight(q) /\ q # r
      BY <2>2, <2>4, <2>5
    <3> QED BY <2>1, <3>1 DEF SeqInv, OneAtATime
  <2> QED BY <2>2, <2>3, <2>5 DEF SeqInv, OneAtATime
<1>7. StoreKeeps'
  BY <1>1 DEF SeqInv, StoreKeeps, Aligned, Elements
<1>8. ASSUME NEW q \in Runs
      PROVE  \/ /\ dedupe'[q] = dedupe[q] /\ state'[q] = state[q] /\ taken'[q] = taken[q]
                /\ known'[q] = known[q] /\ (phase'[q] = "open" => phase[q] = "open")
             \/ /\ q = r
                /\ state'[q].keys = keys /\ state'[q].names = names
                /\ known'[q] = Acknowledged
                /\ dedupe'[q] => /\ taken'[q] = Elements(names)
                                 /\ keys = <<>> \/ Len(names) = Len(keys)
  <2>1. CASE q # r
    BY <1>1, <2>1
  <2>2. CASE UNCHANGED <<dedupe, state, taken, known>> /\ phase' = [phase EXCEPT ![r] = "refused"]
    BY <2>2
  <2>3. ASSUME NEW d \in BOOLEAN,
               ~ (d /\ keys # <<>> /\ Len(names) # Len(keys)),
               dedupe' = [dedupe EXCEPT ![r] = d],
               state' = [state EXCEPT ![r] = [keys |-> keys, names |-> names]],
               taken' = [taken EXCEPT ![r] = IF d THEN Elements(names) ELSE {}],
               known' = [known EXCEPT ![r] = Acknowledged], q = r
        PROVE  /\ state'[q].keys = keys /\ state'[q].names = names
               /\ known'[q] = Acknowledged
               /\ dedupe'[q] => /\ taken'[q] = Elements(names)
                                /\ keys = <<>> \/ Len(names) = Len(keys)
    BY <2>3
  <2> QED BY <1>1, <2>1, <2>2, <2>3
<1>9. ASSUME NEW q \in Runs PROVE StateOf(q)'
  <2>1. StateOf(q)
    BY DEF SeqInv, StateKeeps
  <2>2. CASE /\ dedupe'[q] = dedupe[q] /\ state'[q] = state[q] /\ taken'[q] = taken[q]
             /\ known'[q] = known[q] /\ (phase'[q] = "open" => phase[q] = "open")
    BY <1>1, <2>1, <2>2 DEF StateOf
  <2>3. CASE /\ q = r
             /\ state'[q].keys = keys /\ state'[q].names = names
             /\ known'[q] = Acknowledged
             /\ dedupe'[q] => /\ taken'[q] = Elements(names)
                              /\ keys = <<>> \/ Len(names) = Len(keys)
    <3>1. \A o \in Objects : task'[q][o] \notin Saving
      BY <1>1, <1>2, <2>3 DEF Saving
    <3>2. dedupe'[q] => \A y \in Acknowledged : Name[y] \in taken'[q]
      BY <1>5, <2>3
    <3>3. Aligned(state'[q].keys, state'[q].names)
      BY <1>3, <2>3
    <3>4. Elements(state'[q].keys) = Elements(store.keys)
      BY <1>3, <2>3
    <3> QED BY <1>1, <1>3, <2>3, <3>1, <3>2, <3>3, <3>4 DEF StateOf
  <2> QED BY <1>8, <2>2, <2>3
<1>10. ASSUME NEW q \in Runs, NEW o \in Objects PROVE TaskOf(q, o)'
  <2>1. TaskOf(q, o)
    BY DEF SeqInv, TasksKeep
  <2>2. CASE q = r
    <3>1. task'[q][o] = "none" /\ archive'[q] = {}
      BY <1>1, <1>2, <2>2
    <3> QED BY <3>1 DEF TaskOf
  <2>3. CASE q # r
    <3>1. /\ dedupe'[q] = dedupe[q] /\ state'[q] = state[q] /\ taken'[q] = taken[q]
          /\ phase'[q] = phase[q]
      BY <1>1, <2>3
    <3> QED BY <1>1, <2>1, <3>1 DEF TaskOf, Elements
  <2> QED BY <2>2, <2>3
<1>11. ASSUME NEW q \in Runs PROVE NewOf(q)'
  <2>1. NewOf(q)
    BY DEF SeqInv, ArchivesNew
  <2>2. archive'[q] = archive[q] /\ (q = r => archive[q] = {})
    BY <1>1, <1>2
  <2> QED BY <1>8, <2>1, <2>2 DEF NewOf
<1> QED BY <1>6, <1>7, <1>9, <1>10, <1>11 DEF SeqInv, StateKeeps, TasksKeep, ArchivesNew

Flying == {"appending", "encoded"} \cup Saving

(* The object in flight moves; nothing else takes off. *)
LEMMA MoveOneAtATime ==
  ASSUME TypeOK, OneAtATime, NEW r \in Runs, NEW o \in Objects, NEW p,
         Alive(r), task[r][o] \in Flying, task' = [task EXCEPT ![r][o] = p],
         \/ phase' = phase
         \/ phase' = [phase EXCEPT ![r] = "rejected"] /\ p \notin Flying
  PROVE  OneAtATime'
<1> USE DEF TypeOK
<1>1. \A q \in Runs : \A x \in Objects : x \in InFlight(q) <=> task[q][x] \in Flying
  BY DEF InFlight, At, Flying
<1>2. \A q \in Runs : \A x \in Objects : x \in InFlight(q)' <=> task'[q][x] \in Flying
  BY DEF InFlight, At, Flying
<1>3. ASSUME NEW q \in Runs, NEW x \in Objects, task'[q][x] \in Flying
      PROVE  task[q][x] \in Flying /\ (q = r /\ x = o => p \in Flying)
  BY <1>3
<1>4. phase[r] = "open" /\ \A x \in Objects : task[r][x] \in Flying => x = o
  BY <1>1, Alone
<1>5. ASSUME NEW q \in Runs, NEW x \in Objects, task'[q][x] \in Flying
      PROVE  phase'[q] \in {"open", "dead"}
  <2>1. phase[q] \in {"open", "dead"} /\ (q = r => x = o)
    BY <1>1, <1>3, <1>4, <1>5 DEF OneAtATime
  <2> QED BY <1>3, <1>5, <2>1
<1>6. RunsInOrder'
  <2>1. CASE phase' = phase
    BY <2>1 DEF OneAtATime, RunsInOrder
  <2>2. CASE phase' = [phase EXCEPT ![r] = "rejected"]
    BY <1>4, <2>2, OrderStep DEF OneAtATime, Over
  <2> QED BY <2>1, <2>2
<1> QED BY <1>1, <1>2, <1>3, <1>5, <1>6 DEF OneAtATime

LEMMA BeginSeq ==
  ASSUME TypeOK, Sequential, SeqInv, NEW r \in Runs, Begin(r)
  PROVE  SeqInv'
<1> USE DEF TypeOK
<1> DEFINE o == listed[r] + 1
           skip == o \in Elements(state[r].keys) \/ (dedupe[r] /\ Name[o] \in taken[r])
<1>1. /\ phase[r] = "open" /\ o \in Objects /\ InFlight(r) = {}
      /\ listed' = [listed EXCEPT ![r] = o]
      /\ task' = [task EXCEPT ![r][o] = IF skip THEN "skipped" ELSE "appending"]
      /\ UNCHANGED <<setup, store, phase, dedupe, state, taken, known, archive>>
  BY Room DEF Begin, SetTask
<1>2. o > listed[r] /\ task[r][o] = "none"
  <2>1. o > listed[r]
    OBVIOUS
  <2> QED BY <1>1, <2>1 DEF SeqInv, TasksKeep, TaskOf
<1> HIDE DEF o, skip
<1>3. ASSUME NEW q \in Runs, NEW x \in Objects, ~ (q = r /\ x = o)
      PROVE  task'[q][x] = task[q][x]
  BY <1>1, <1>3
<1>4. task'[r][o] \in {"skipped", "appending"}
  BY <1>1
<1>5. OneAtATime'
  <2>1. RunsInOrder'
    BY <1>1 DEF SeqInv, OneAtATime, RunsInOrder
  <2>2. ASSUME NEW q \in Runs, NEW x \in Objects, x \in InFlight(q)'
        PROVE  (q = r /\ x = o) \/ (q # r /\ x \in InFlight(q))
    <3>1. task'[q][x] \in Flying
      BY <2>2 DEF InFlight, At, Flying
    <3>2. CASE ~ (q = r /\ x = o)
      BY <1>1, <1>3, <3>1, <3>2 DEF InFlight, At, Flying
    <3> QED BY <3>2
  <2> QED BY <1>1, <2>1, <2>2 DEF SeqInv, OneAtATime
<1>6. StoreKeeps'
  <2>1. ASSUME NEW q \in Runs, NEW x \in Objects, task'[q][x] \in {"included", "stored"}
        PROVE  task[q][x] = task'[q][x]
    BY <1>3, <1>4, <2>1
  <2> QED BY <1>1, <2>1 DEF SeqInv, StoreKeeps
<1>7. ASSUME NEW q \in Runs PROVE StateOf(q)'
  <2>1. StateOf(q)
    BY DEF SeqInv, StateKeeps
  <2>2. ASSUME NEW x \in Objects, task'[q][x] \in Saving PROVE task[q][x] \in Saving
    BY <1>3, <1>4, <2>2 DEF Saving
  <2> QED BY <1>1, <2>1, <2>2 DEF StateOf
<1>8. ASSUME NEW q \in Runs, NEW x \in Objects PROVE TaskOf(q, x)'
  <2>1. TaskOf(q, x)
    BY DEF SeqInv, TasksKeep
  <2>2. CASE q = r /\ x = o
    <3>1. o \notin archive[r]
      BY <1>2, <2>1, <2>2 DEF TaskOf
    <3>2. listed'[r] = o
      BY <1>1
    <3>3. task'[r][o] = "appending" => ~ skip
      BY <1>1
    <3> QED BY <1>1, <1>4, <2>2, <3>1, <3>2, <3>3 DEF TaskOf, skip, Objects
  <2>3. CASE ~ (q = r /\ x = o)
    <3>1. x > listed'[q] => x > listed[q]
      BY <1>1, <1>2, <2>3 DEF Objects
    <3>2. task'[q][x] = task[q][x]
      BY <1>3, <2>3
    <3> QED BY <1>1, <2>1, <3>1, <3>2 DEF TaskOf
  <2> QED BY <2>2, <2>3
<1>9. ArchivesNew'
  BY <1>1 DEF SeqInv, ArchivesNew, NewOf
<1> QED BY <1>5, <1>6, <1>7, <1>8, <1>9 DEF SeqInv, StateKeeps, TasksKeep

(* The entry is new to the archive: no other is in flight, and none that   *)
(* is done or known has its key or, deduping, its path.                    *)
LEMMA EncodeSeq ==
  ASSUME TypeOK, Sequential, SeqInv, NEW r \in Runs, NEW o \in Objects, Encode(r, o)
  PROVE  SeqInv'
<1> USE DEF TypeOK
<1>1. /\ Alive(r) /\ task[r][o] = "appending"
      /\ archive' = [archive EXCEPT ![r] = @ \cup {o}]
      /\ task' = [task EXCEPT ![r][o] = "encoded"]
      /\ UNCHANGED <<setup, store, phase, dedupe, listed, state, taken, known>>
  BY DEF Encode, SetTask, runVars
<1>2. /\ phase[r] = "open"
      /\ \A x \in Objects : task[r][x] \in Flying => x = o
  BY <1>1, Alone DEF SeqInv, InFlight, At, Flying
<1>3. OneAtATime'
  BY <1>1, MoveOneAtATime DEF SeqInv, Flying
<1>4. StoreKeeps'
  <2>1. ASSUME NEW q \in Runs, NEW x \in Objects, task'[q][x] \in {"included", "stored"}
        PROVE  task[q][x] = task'[q][x]
    BY <1>1, <2>1
  <2> QED BY <1>1, <2>1 DEF SeqInv, StoreKeeps
<1>5. ASSUME NEW q \in Runs PROVE StateOf(q)'
  <2>1. StateOf(q)
    BY DEF SeqInv, StateKeeps
  <2>2. ASSUME NEW x \in Objects, task'[q][x] \in Saving PROVE task[q][x] \in Saving
    BY <1>1, <2>2 DEF Saving
  <2> QED BY <1>1, <2>1, <2>2 DEF StateOf
<1>6. r \in 0..MaxRuns /\ Runs \subseteq 0..MaxRuns
  BY DEF Runs
<1>7. ASSUME NEW q \in Runs, NEW x \in Objects PROVE TaskOf(q, x)'
  <2>1. TaskOf(q, x)
    BY DEF SeqInv, TasksKeep
  <2>2. CASE q = r /\ x = o
    <3>1. task'[q][x] = "encoded"
      BY <1>1, <2>2
    <3>2. ~ (x > listed[q])
      BY <1>1, <2>1, <2>2 DEF TaskOf
    <3> QED BY <1>1, <3>1, <3>2 DEF TaskOf
  <2>3. CASE ~ (q = r /\ x = o)
    <3>1. task'[q][x] = task[q][x] /\ (x \in archive'[q] => x \in archive[q])
      BY <1>1, <1>6, <2>3
    <3> QED BY <1>1, <2>1, <3>1 DEF TaskOf
  <2> QED BY <2>2, <2>3
<1>8. ASSUME NEW q \in Runs PROVE NewOf(q)'
  <2>1. NewOf(q)
    BY DEF SeqInv, ArchivesNew
  <2>2. CASE q # r
    BY <1>1, <1>6, <2>1, <2>2 DEF NewOf
  <2>3. CASE q = r
    <3>1. archive'[r] = archive[r] \cup {o}
      BY <1>1, <1>6
    <3>2. TaskOf(r, o) /\ StateOf(r) /\ \A x \in Objects : TaskOf(r, x)
      BY DEF SeqInv, TasksKeep, StateKeeps
    <3>3. o \notin known[r] /\ (dedupe[r] => Name[o] \notin taken[r])
      BY <1>1, <3>2 DEF TaskOf, StateOf
    <3>4. dedupe[r] => \A y \in known[r] : Name[y] # Name[o]
      BY <3>2, <3>3 DEF StateOf
    <3>5. ASSUME NEW x \in archive[r], dedupe[r] PROVE Name[x] # Name[o]
      <4>1. x \in Objects
        BY <1>6
      <4>2. task[r][x] \in {"encoded", "included", "failed", "saving", "stored"}
        BY <3>2, <3>5, <4>1 DEF TaskOf
      <4>3. x # o
        BY <1>1, <4>2
      <4>4. task[r][x] \notin Flying
        BY <1>2, <4>1, <4>3
      <4>5. task[r][x] # "failed"
        BY <1>2, <3>2, <4>1 DEF TaskOf
      <4>6. task[r][x] = "included"
        BY <4>2, <4>4, <4>5 DEF Flying, Saving
      <4> QED BY <3>2, <3>3, <3>5, <4>1, <4>6 DEF TaskOf
    <3> QED BY <1>1, <2>1, <2>3, <3>1, <3>3, <3>4, <3>5 DEF NewOf
  <2> QED BY <2>2, <2>3
<1> QED BY <1>3, <1>4, <1>5, <1>7, <1>8 DEF SeqInv, StateKeeps, TasksKeep, ArchivesNew

(* A failure leaves nothing in flight behind. *)
LEMMA FailSeq ==
  ASSUME TypeOK, Sequential, SeqInv, NEW r \in Runs, NEW o \in Objects,
         Fail(r, o) \/ SaveFails(r, o)
  PROVE  SeqInv'
<1> USE DEF TypeOK
<1>1. /\ Alive(r) /\ task[r][o] \in Flying
      /\ task' = [task EXCEPT ![r][o] = "failed"]
      /\ phase' = [phase EXCEPT ![r] = "rejected"]
      /\ UNCHANGED <<setup, store, dedupe, listed, state, taken, known, archive>>
  BY DEF Fail, SaveFails, SetTask, SetPhase, Flying
<1>2. OneAtATime'
  BY <1>1, MoveOneAtATime DEF SeqInv, Flying, Saving
<1>3. StoreKeeps'
  <2>1. ASSUME NEW q \in Runs, NEW x \in Objects, task'[q][x] \in {"included", "stored"}
        PROVE  task[q][x] = task'[q][x]
    BY <1>1, <2>1
  <2> QED BY <1>1, <2>1 DEF SeqInv, StoreKeeps
<1>4. ASSUME NEW q \in Runs PROVE StateOf(q)'
  <2>1. StateOf(q)
    BY DEF SeqInv, StateKeeps
  <2>2. ASSUME NEW x \in Objects, task'[q][x] \in Saving PROVE task[q][x] \in Saving
    BY <1>1, <2>2 DEF Saving
  <2>3. phase'[q] = "open" => phase[q] = "open"
    BY <1>1
  <2> QED BY <1>1, <2>1, <2>2, <2>3 DEF StateOf
<1>5. ASSUME NEW q \in Runs, NEW x \in Objects PROVE TaskOf(q, x)'
  <2>1. TaskOf(q, x)
    BY DEF SeqInv, TasksKeep
  <2>2. phase[q] \in {"rejected", "dead"} => phase'[q] \in {"rejected", "dead"}
    BY <1>1
  <2>3. CASE q = r /\ x = o
    <3>1. task'[q][x] = "failed" /\ phase'[q] = "rejected"
      BY <1>1, <2>3
    <3>2. ~ (x > listed[q])
      BY <1>1, <2>1, <2>3 DEF TaskOf, Flying, Saving
    <3> QED BY <1>1, <3>1, <3>2 DEF TaskOf
  <2>4. CASE ~ (q = r /\ x = o)
    <3>1. task'[q][x] = task[q][x]
      BY <1>1, <2>4
    <3> QED BY <1>1, <2>1, <2>2, <3>1 DEF TaskOf
  <2> QED BY <2>3, <2>4
<1>6. ArchivesNew'
  BY <1>1 DEF SeqInv, ArchivesNew, NewOf
<1> QED BY <1>2, <1>3, <1>4, <1>5, <1>6 DEF SeqInv, StateKeeps, TasksKeep

LEMMA RecordSeq ==
  ASSUME TypeOK, Sequential, SeqInv, NEW r \in Runs, NEW o \in Objects, Record(r, o)
  PROVE  SeqInv'
<1> USE DEF TypeOK
<1>1. /\ Alive(r) /\ task[r][o] = "encoded"
      /\ state' = [state EXCEPT ![r].keys = Append(@, o), ![r].names = Append(@, Name[o])]
      /\ task' = [task EXCEPT ![r][o] = "saving"]
      /\ UNCHANGED <<setup, store, phase, dedupe, listed, taken, known, archive>>
  BY DEF Record, SetTask
<1>2. /\ phase[r] = "open"
      /\ \A x \in Objects : task[r][x] \in Flying => x = o
  BY <1>1, Alone DEF SeqInv, InFlight, At, Flying
<1>3. OneAtATime'
  BY <1>1, MoveOneAtATime DEF SeqInv, Flying, Saving
<1>4. StoreKeeps'
  <2>1. ASSUME NEW q \in Runs, NEW x \in Objects, task'[q][x] \in {"included", "stored"}
        PROVE  task[q][x] = task'[q][x]
    BY <1>1, <2>1
  <2> QED BY <1>1, <2>1 DEF SeqInv, StoreKeeps
<1>5. /\ \A q \in Runs : q # r => state'[q] = state[q]
      /\ state'[r].keys = Append(state[r].keys, o)
      /\ state'[r].names = Append(state[r].names, Name[o])
  BY <1>1
<1>6. /\ state[r].keys \in Seq(Objects) /\ state[r].names \in Seq(Names) /\ Name[o] \in Names
      /\ Elements(state'[r].keys) = Elements(state[r].keys) \cup {o}
  BY <1>5, ElementsAppend
<1>7. Aligned(state[r].keys, state[r].names) => Aligned(state'[r].keys, state'[r].names)
  <2> DEFINE k == state[r].keys
             n == state[r].names
  <2>1. k \in Seq(Objects) /\ n \in Seq(Names)
    BY <1>6
  <2> HIDE DEF k, n
  <2>2. ASSUME Aligned(k, n), Len(Append(n, Name[o])) = Len(Append(k, o)),
               NEW i \in 1..Len(Append(k, o))
        PROVE  Append(n, Name[o])[i] = Name[Append(k, o)[i]]
    <3>1. Len(n) = Len(k)
      BY <2>1, <2>2
    <3>2. CASE i = Len(k) + 1
      BY <2>1, <3>1, <3>2
    <3>3. CASE i \in 1..Len(k)
      <4>1. n[i] = Name[k[i]]
        BY <2>2, <3>1, <3>3 DEF Aligned
      <4>2. Append(k, o)[i] = k[i] /\ Append(n, Name[o])[i] = n[i]
        BY <2>1, <3>1, <3>3
      <4> QED BY <4>1, <4>2
    <3>4. Len(k) \in Nat /\ i \in 1..(Len(k) + 1)
      BY <2>1
    <3>5. i = Len(k) + 1 \/ i \in 1..Len(k)
      BY <3>4
    <3> QED BY <3>2, <3>3, <3>5
  <2>3. Aligned(k, n) => Aligned(Append(k, o), Append(n, Name[o]))
    BY <2>2 DEF Aligned
  <2> QED BY <1>5, <2>3 DEF k, n
<1>8. ASSUME NEW q \in Runs PROVE StateOf(q)'
  <2>1. StateOf(q)
    BY DEF SeqInv, StateKeeps
  <2>2. ASSUME NEW x \in Objects, task'[q][x] \in Saving
        PROVE  task[q][x] \in Saving \/ (q = r /\ x = o)
    BY <1>1, <2>2
  <2>3. CASE q # r
    BY <1>1, <1>5, <2>1, <2>2, <2>3 DEF StateOf
  <2>4. CASE q = r
    BY <1>1, <1>5, <1>6, <1>7, <2>1, <2>2, <2>4 DEF StateOf
  <2> QED BY <2>3, <2>4
<1>9. ASSUME NEW q \in Runs, NEW x \in Objects PROVE TaskOf(q, x)'
  <2>1. TaskOf(q, x)
    BY DEF SeqInv, TasksKeep
  <2>2. CASE q = r /\ x = o
    <3>1. task'[q][x] = "saving" /\ ~ (x > listed[q])
      BY <1>1, <2>1, <2>2 DEF TaskOf
    <3> QED BY <1>1, <3>1 DEF TaskOf
  <2>3. CASE q = r /\ x # o
    <3>1. task'[q][x] = task[q][x] /\ task[q][x] # "appending"
      BY <1>1, <1>2, <2>3 DEF Flying
    <3> QED BY <1>1, <2>1, <3>1 DEF TaskOf
  <2>4. CASE q # r
    <3>1. task'[q][x] = task[q][x] /\ state'[q] = state[q]
      BY <1>1, <1>5, <2>4
    <3> QED BY <1>1, <2>1, <3>1 DEF TaskOf
  <2> QED BY <2>2, <2>3, <2>4
<1>10. ArchivesNew'
  BY <1>1 DEF SeqInv, ArchivesNew, NewOf
<1> QED BY <1>3, <1>4, <1>8, <1>9, <1>10 DEF SeqInv, StateKeeps, TasksKeep

(* A whole save: the store holds what the only open run has in memory,     *)
(* which is no less than it held.                                          *)
LEMMA SaveSeq ==
  ASSUME TypeOK, Sequential, SeqInv, NEW r \in Runs, NEW o \in Objects,
         SaveSql(r, o) \/ SetRedis(r, o) \/ SaveReturns(r, o)
  PROVE  SeqInv'
<1> USE DEF TypeOK
<1>1. /\ Alive(r) /\ task[r][o] \in {"saving", "stored"}
      /\ \/ store' = Saved(r)
         \/ store' = store /\ task[r][o] = "stored"
      /\ \/ task' = [task EXCEPT ![r][o] = "stored"] /\ UNCHANGED taken
         \/ /\ task' = [task EXCEPT ![r][o] = "included"]
            /\ taken' = [taken EXCEPT ![r] = @ \cup {Name[o]}]
      /\ UNCHANGED <<setup, phase, dedupe, listed, state, known, archive>>
  BY DEF SaveSql, StoreState, SetRedis, SaveReturns, Included, SetTask, runVars
<1>2. /\ phase[r] = "open"
      /\ \A x \in Objects : task[r][x] \in Flying => x = o
      /\ \A q \in Runs : q # r => phase[q] # "open"
  <2>1. task[r][o] \in Flying
    BY <1>1 DEF Flying, Saving
  <2> QED BY <1>1, <2>1, Alone DEF SeqInv, InFlight, At, Flying
<1>3. OneAtATime'
  <2>1. \E p \in {"stored", "included"} : task' = [task EXCEPT ![r][o] = p]
    BY <1>1
  <2> QED BY <1>1, <2>1, MoveOneAtATime DEF SeqInv, Flying, Saving
<1>4. /\ task'[r][o] \in {"stored", "included"}
      /\ \A q \in Runs : \A x \in Objects : ~ (q = r /\ x = o) => task'[q][x] = task[q][x]
  BY <1>1
<1>5. StateOf(r) /\ StoreKeeps /\ o \in Elements(state[r].keys)
  BY <1>1 DEF SeqInv, StateKeeps, StateOf, Saving
<1>6. /\ Elements(store.keys) \subseteq Elements(store'.keys)
      /\ o \in Elements(store'.keys)
      /\ Elements(store'.keys) \subseteq Elements(state[r].keys)
      /\ store'.status \notin {"torn", "mixed"} /\ (store'.status = "absent" => store'.keys = <<>>)
      /\ Aligned(store'.keys, store'.names)
  <2>1. CASE store' = Saved(r)
    BY <1>2, <1>5, <2>1 DEF Saved, StateOf
  <2>2. CASE store' = store /\ task[r][o] = "stored"
    BY <1>2, <1>5, <2>2 DEF StateOf, StoreKeeps
  <2> QED BY <1>1, <2>1, <2>2
<1>7. StoreKeeps'
  <2>1. ASSUME NEW q \in Runs, NEW x \in Objects, task'[q][x] \in {"included", "stored"}
        PROVE  x \in Elements(store'.keys)
    <3>1. CASE q = r /\ x = o
      BY <1>6, <3>1
    <3>2. CASE ~ (q = r /\ x = o)
      <4>1. task[q][x] \in {"included", "stored"}
        BY <1>4, <2>1, <3>2
      <4>2. x \in Elements(store.keys)
        BY <1>5, <4>1 DEF StoreKeeps
      <4> QED BY <1>6, <4>2
    <3> QED BY <3>1, <3>2
  <2> QED BY <1>6, <2>1 DEF StoreKeeps
<1>8. \A q \in Runs : taken[q] \subseteq taken'[q]
  <2>1. CASE UNCHANGED taken
    BY <2>1
  <2>2. CASE taken' = [taken EXCEPT ![r] = @ \cup {Name[o]}]
    BY <2>2
  <2> QED BY <1>1, <2>1, <2>2
<1>9. ASSUME NEW q \in Runs PROVE StateOf(q)'
  <2>1. StateOf(q)
    BY DEF SeqInv, StateKeeps
  <2>2. ASSUME NEW x \in Objects, task'[q][x] \in Saving PROVE task[q][x] \in Saving
    <3>1. CASE q = r /\ x = o
      BY <1>1, <3>1 DEF Saving
    <3>2. CASE ~ (q = r /\ x = o)
      BY <1>4, <2>2, <3>2
    <3> QED BY <3>1, <3>2
  <2>3. phase'[q] = "open" => Elements(store'.keys) \subseteq Elements(state'[q].keys)
    BY <1>1, <1>2, <1>6
  <2> QED BY <1>1, <1>8, <2>1, <2>2, <2>3 DEF StateOf
<1>10. ASSUME NEW q \in Runs, NEW x \in Objects PROVE TaskOf(q, x)'
  <2>1. TaskOf(q, x)
    BY DEF SeqInv, TasksKeep
  <2>2. CASE q = r /\ x = o
    <3>1. ~ (x > listed[q])
      BY <1>1, <2>1, <2>2 DEF TaskOf
    <3>2. task'[r][o] = "included" => Name[o] \in taken'[r]
      BY <1>1
    <3> QED BY <1>1, <1>4, <2>2, <3>1, <3>2 DEF TaskOf
  <2>3. CASE q = r /\ x # o
    <3>1. task'[q][x] = task[q][x] /\ task[q][x] # "appending"
      BY <1>2, <1>4, <2>3 DEF Flying
    <3> QED BY <1>1, <1>8, <2>1, <3>1 DEF TaskOf
  <2>4. CASE q # r
    <3>1. task'[q][x] = task[q][x] /\ taken'[q] = taken[q]
      BY <1>1, <1>4, <2>4
    <3> QED BY <1>1, <2>1, <3>1 DEF TaskOf
  <2> QED BY <2>2, <2>3, <2>4
<1>11. ArchivesNew'
  BY <1>1 DEF SeqInv, ArchivesNew, NewOf
<1> QED BY <1>3, <1>7, <1>9, <1>10, <1>11 DEF SeqInv, StateKeeps, TasksKeep

LEMMA SeqStep ==
  ASSUME TypeOK, TasksListed, Sequential, SeqInv, [Next]_vars
  PROVE  SeqInv'
<1>1. ASSUME NEW r \in Runs, RunStep(r) PROVE SeqInv'
  BY <1>1, PhaseSeq, OpenSeq, BeginSeq DEF RunStep
<1>2. ASSUME NEW r \in Runs, NEW o \in Objects, ObjectStep(r, o) PROVE SeqInv'
  <2>1. ~ TruncateFile(r, o)
    BY DEF TruncateFile, Sequential, WholeSaves
  <2>2. ~ WriteFile(r, o)
    BY DEF WriteFile, SeqInv, TasksKeep, TaskOf
  <2> QED BY <1>2, <2>1, <2>2, EncodeSeq, FailSeq, RecordSeq, SaveSeq DEF ObjectStep
<1>3. CASE UNCHANGED vars
  <2>1. UNCHANGED <<setup, store, phase, dedupe, listed, state, taken, known, task, archive>>
    BY <1>3 DEF vars, runVars
  <2> QED
    BY <2>1 DEF SeqInv, OneAtATime, RunsInOrder, InFlight, At, StoreKeeps, StateKeeps, StateOf,
                TasksKeep, TaskOf, ArchivesNew, NewOf
<1> QED BY <1>1, <1>2, <1>3 DEF Next

LEMMA SetupFixed == [Next]_vars => setup' = setup
<1> SUFFICES ASSUME [Next]_vars PROVE setup' = setup
  OBVIOUS
<1>1. ASSUME NEW r \in Runs, RunStep(r) PROVE setup' = setup
  BY <1>1 DEF RunStep, Resume, Open, Begin, Reject, Resolve, Crash
<1>2. ASSUME NEW r \in Runs, NEW o \in Objects, ObjectStep(r, o) PROVE setup' = setup
  BY <1>2 DEF ObjectStep, Encode, Fail, Record, SaveSql, StoreState, TruncateFile, WriteFile, SetRedis,
              SaveReturns, SaveFails
<1>3. CASE UNCHANGED vars
  BY <1>3 DEF vars
<1> QED BY <1>1, <1>2, <1>3 DEF Next

(* Dedupe is for sequential jobs. *)
DedupeSequential == \A r \in Runs : dedupe[r] => setup.concurrency = 1

LEMMA DedupeInvariance == Spec => []DedupeSequential
<1>1. Init => DedupeSequential
  BY DEF Init, DedupeSequential
<1>2. IInv /\ DedupeSequential /\ [Next]_vars => DedupeSequential'
  <2> SUFFICES ASSUME TypeOK, DedupeSequential, [Next]_vars, NEW q \in Runs, dedupe'[q]
               PROVE  setup'.concurrency = 1
    BY DEF DedupeSequential, IInv
  <2>1. setup' = setup
    BY SetupFixed
  <2>2. ASSUME NEW r \in Runs, Open(r) PROVE dedupe[q] \/ setup.concurrency = 1
    <3>1. CASE UNCHANGED dedupe
      BY <3>1
    <3>2. CASE \E d \in DedupeModes : dedupe' = [dedupe EXCEPT ![r] = d]
      BY <3>2 DEF DedupeModes, TypeOK
    <3> QED BY <2>2, <3>1, <3>2 DEF Open
  <2>3. ASSUME NEW r \in Runs, RunStep(r), ~ Open(r) PROVE dedupe' = dedupe
    BY <2>3 DEF RunStep, Resume, Begin, Reject, Resolve, Crash
  <2>4. ASSUME NEW r \in Runs, NEW o \in Objects, ObjectStep(r, o) PROVE dedupe' = dedupe
    BY <2>4 DEF ObjectStep, Encode, Fail, Record, SaveSql, StoreState, TruncateFile, WriteFile, SetRedis,
                SaveReturns, SaveFails, runVars
  <2>5. CASE UNCHANGED vars
    BY <2>1, <2>5 DEF vars, runVars, DedupeSequential
  <2> QED BY <2>1, <2>2, <2>3, <2>4, <2>5 DEF DedupeSequential, Next
<1> QED BY <1>1, <1>2, Invariance, PTL DEF Spec

LEMMA SeqInvariance == Spec => [](Sequential => SeqInv)
<1>1. Init => (Sequential => SeqInv)
  BY SeqInit
<1>2. IInv /\ (Sequential => SeqInv) /\ [Next]_vars => (Sequential => SeqInv)'
  <2> SUFFICES ASSUME IInv, Sequential => SeqInv, [Next]_vars, Sequential' PROVE SeqInv'
    OBVIOUS
  <2>1. setup' = setup
    BY SetupFixed
  <2>2. Sequential
    BY <2>1 DEF Sequential, WholeSaves
  <2> QED BY <2>2, SeqStep DEF IInv
<1> QED BY <1>1, <1>2, Invariance, PTL DEF Spec

(* With a store that saves whole, no two entries of a deduping run share   *)
(* a path, and none has a path saved before the run opened.                *)
THEOREM DedupeHolds == Spec => []DedupeSpansRuns
<1>1. ASSUME TypeOK, Sequential => SeqInv, NEW r \in Runs, dedupe[r], WholeSaves, DedupeSequential
      PROVE  NewOf(r)
  BY <1>1 DEF SeqInv, ArchivesNew, DedupeSequential, Sequential
<1>2. IInv /\ DedupeSequential /\ (Sequential => SeqInv) => DedupeSpansRuns
  BY <1>1 DEF IInv, DedupeSpansRuns, NewOf
<1> QED BY <1>2, Invariance, DedupeInvariance, SeqInvariance, PTL

(* A job that archives one object at a time, with a store that saves       *)
(* whole, archives no acknowledged object again.                           *)
THEOREM NothingTwice == Spec => []NoWorkTwiceInSequence
<1>1. (Sequential => SeqInv) => NoWorkTwiceInSequence
  BY DEF SeqInv, ArchivesNew, NewOf, Sequential, NoWorkTwiceInSequence, NoWorkTwice
<1> QED BY <1>1, SeqInvariance, PTL
=============================================================================
